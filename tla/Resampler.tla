----------------------------- MODULE Resampler -----------------------------
(***************************************************************************)
(* resample.c: the window of input frames an output frame is filtered from.*)
(* Input frames are numbered from 0 in the order they are pulled; the      *)
(* silence in front of the first has the numbers below 0.  What the filter *)
(* makes of its window is left out: the properties are about which frames  *)
(* are in it.                                                              *)
(*                                                                         *)
(* Times, doubles in the code, are exact here: a whole number of frames    *)
(* and a number of Den-ths of one.                                         *)
(***************************************************************************)
EXTENDS Integers

CONSTANTS
  Half,     \* input frames each side of a point
  Chunk,    \* input frames pulled at a time
  Den,      \* the parts a frame of time is counted in
  Steps,    \* the input frames per output frame, in Den-ths: the rate pairs
  MaxOut    \* output frames (a bound of the model)

Taps == 2 * Half
Cap == Taps + 4 * Chunk

(* The engine's rate is at most Taps times the host's, and the window no
   longer than a chunk (48 and 64 in the code). *)
ASSUME ResamplerAssumption ==
  /\ Half \in Nat \ {0} /\ Chunk \in Nat /\ Den \in Nat \ {0}
  /\ Taps <= Chunk
  /\ Steps \subseteq [whole : 0 .. Taps, frac : 0 .. Den - 1]
  /\ \A s \in Steps : s.whole = Taps => s.frac = 0
  /\ MaxOut \in Nat

VARIABLES
  step,      \* input time per output frame
  i, f,      \* the next output's input time: pos, whole and fraction
  in,        \* the input kept, by frame number
  have,      \* input frames held
  last,      \* fill's argument
  pc,        \* "frame", "pull" or "filter"
  out,       \* frames put out so far
  pulled,    \* input frames pulled so far (history)
  dropped    \* input frames dropped so far (history)

vars == <<step, i, f, in, have, last, pc, out, pulled, dropped>>

Silence == -1 - Half     \* what the unused part of the array holds

(* resampler_new: silence before the input starts. *)
Init ==
  /\ step \in Steps
  /\ i = Half - 1 /\ f = 0
  /\ in = [k \in 0 .. Cap - 1 |-> IF k < Half - 1 THEN k - (Half - 1)
                                                  ELSE Silence]
  /\ have = Half - 1
  /\ last = 0
  /\ pc = "frame"
  /\ out = 0 /\ pulled = 0 /\ dropped = 0

Drop == i - (Half - 1)

(* memmove: what is kept moves to the front. *)
Moved == [k \in 0 .. Cap - 1 |-> IF k < have - Drop THEN in[k + Drop] ELSE in[k]]

(* fill, when the window is not held and there is no room for a chunk. *)
FillDrops ==
  /\ pc = "frame" /\ out < MaxOut
  /\ i + Half >= have
  /\ Drop > 0 /\ have + Chunk > Cap
  /\ in' = Moved
  /\ have' = have - Drop
  /\ i' = i - Drop
  /\ last' = i + Half - Drop
  /\ dropped' = dropped + Drop
  /\ pc' = "pull"
  /\ UNCHANGED <<step, f, out, pulled>>

(* fill, when it is held or there is room. *)
FillKeeps ==
  /\ pc = "frame" /\ out < MaxOut
  /\ last' = i + Half
  /\ i + Half < have \/ ~(Drop > 0 /\ have + Chunk > Cap)
  /\ pc' = "pull"
  /\ UNCHANGED <<step, i, f, in, have, out, pulled, dropped>>

(* fill's loop.  The frames pulled past the array's end would be written
   outside it. *)
Pull ==
  /\ pc = "pull"
  /\ last >= have
  /\ in' = [k \in 0 .. Cap - 1 |-> IF k >= have /\ k < have + Chunk
                                   THEN pulled + (k - have) ELSE in[k]]
  /\ have' = have + Chunk
  /\ pulled' = pulled + Chunk
  /\ UNCHANGED <<step, i, f, last, pc, out, dropped>>

Pulled ==
  /\ pc = "pull"
  /\ last < have
  /\ pc' = "filter"
  /\ UNCHANGED <<step, i, f, in, have, last, out, pulled, dropped>>

(* The output frame is filtered from the window, and pos moves on by step. *)
Filter ==
  /\ pc = "filter"
  /\ out' = out + 1
  /\ IF f + step.frac >= Den
     THEN i' = i + step.whole + 1 /\ f' = f + step.frac - Den
     ELSE i' = i + step.whole /\ f' = f + step.frac
  /\ pc' = "frame"
  /\ UNCHANGED <<step, in, have, last, pulled, dropped>>

Next == FillDrops \/ FillKeeps \/ Pull \/ Pulled \/ Filter

Spec == Init /\ [][Next]_vars

-----------------------------------------------------------------------------

TypeOK ==
  /\ step \in Steps
  /\ i \in Nat /\ f \in 0 .. Den - 1
  /\ in \in [0 .. Cap - 1 -> Int]
  /\ have \in Nat /\ last \in Nat
  /\ pc \in {"frame", "pull", "filter"}
  /\ out \in Nat /\ pulled \in Nat /\ dropped \in Nat

(* The input time of the output frame to come, in Den-ths: "output frame j is
   the input's signal at time j * in_rate / out_rate" (resample.h). *)
Time == out * (step.whole * Den + step.frac)

(* Nothing is read or written outside the array: a chunk is pulled only where
   there is room for one, no more is dropped than is held, and the window lies
   in what is held. *)
InBounds ==
  /\ have <= Cap
  /\ pc = "pull" /\ last >= have => have + Chunk <= Cap
  /\ pc = "filter" => i - Half + 1 >= 0 /\ i + Half < have

(* However many frames were dropped, and however pulls and drops fell, the
   output frame is filtered from the frames around its time: the two streams
   "start together and never drift apart". *)
InStep ==
  pc = "filter" =>
    \A k \in 0 .. Taps - 1 :
      Den * (in[i - Half + 1 + k] - k + Half - 1) + f = Time

(* "The input is pulled as it is needed, a little ahead of the output": the
   engine is never asked for more than a chunk past the window. *)
LittleAhead ==
  Den * (pulled - Half - Chunk) <= Time
=============================================================================
