------------------------------ MODULE MCLoader ------------------------------
(* The loader of images, or the patch it runs on one, in a behaviour.
   Threads and images are interchangeable: no operation chooses between them.
   Cores of four instructions are patched, in an arena for one stub, for some
   and for all. *)
EXTENDS PeLoader, ShimPatch, TLC

VARIABLE working

LoaderInit ==
  \/ /\ working = "loading" /\ Init /\ ShimInit
     /\ row = [i \in 1 .. Length |-> "sse1"] /\ Len(arena) = 2
     /\ phase = "check" /\ other = {} /\ ~want3
  \/ /\ working = "patching" /\ ShimInit
     /\ Init /\ platform = "linux"

LoaderNext ==
  /\ UNCHANGED working
  /\ \/ working = "loading" /\ Next /\ UNCHANGED shimVars
     \/ working = "patching" /\ ShimNext /\ UNCHANGED vars

LoaderSpec == LoaderInit /\ [][LoaderNext]_<<working, vars, shimVars>>

Symmetric == Permutations(Threads) \cup Permutations(Images)
=============================================================================
