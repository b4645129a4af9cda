------------------------------ MODULE ToneLists ------------------------------
(***************************************************************************)
(* scva_lists.c: the instruments and kits a plugin offers, per tone map.   *)
(* A list holds indices into the patches the names gave; positions count   *)
(* from 1 here, and 0 is the code's -1, no position or no patch.           *)
(***************************************************************************)
EXTENDS ToneEngine, Integers, Sequences, FiniteSetsExt

CONSTANT Patches   \* names.patch: a sequence of [map, bank, prog, drum]

DefaultMap == 0

(* The engine is reset to the Default map, bank 0 and program 0. *)
ASSUME PatchesAssumption ==
  /\ Maps \cup Banks \cup Programs \subseteq Nat
  /\ Default = DefaultMap /\ FirstBank = 0 /\ FirstProgram = 0
  /\ Patches \in Seq([map : Maps, bank : Banks, prog : Programs, drum : BOOLEAN])

(* The highest map the names know; Default alone is one list for every map. *)
TopMap == Max({Patches[i].map : i \in DOMAIN Patches} \cup {DefaultMap})

HasMaps == TopMap # DefaultMap

(* Whose patches map m lists: Default, and a map with none of its own, the
   highest map's. *)
Source(m) ==
  IF ~HasMaps THEN DefaultMap
  ELSE IF m = DefaultMap \/ \A i \in DOMAIN Patches : Patches[i].map # m
       THEN TopMap ELSE m

(* scva_lists_build: the tones (drum FALSE) and the kits of every map, in the
   order of the names. *)
Listed(drum, m) ==
  LET first[n \in 0 .. Len(Patches)] ==
        IF n = 0 THEN <<>>
        ELSE IF Patches[n].map = Source(m) /\ Patches[n].drum = drum
             THEN Append(first[n - 1], n) ELSE first[n - 1]
  IN first[Len(Patches)]

Lists == [drum \in BOOLEAN |-> [m \in Maps |-> Listed(drum, m)]]

List(drum, m) == Lists[drum][m]

(* The maps scva_xui.c has a button for: Default, and those with patches of
   their own. *)
Buttons == {m \in Maps : \/ m = DefaultMap \/ ~HasMaps
                         \/ \E i \in DOMAIN Patches : Patches[i].map = m}

Longest(drum, maps) == Max({Len(List(drum, m)) : m \in maps})

(* scva_lists_find *)
Find(list, bank, prog) ==
  LET at == {k \in DOMAIN list : /\ Patches[list[k]].bank = bank
                                 /\ Patches[list[k]].prog = prog}
  IN IF at = {} THEN 0 ELSE Min(at)

(* scva_lists_carry: the same bank and program, else the program's capital
   tone, else the first entry. *)
Carry(list, i) ==
  LET same == Find(list, Patches[i].bank, Patches[i].prog)
      capital == Find(list, 0, Patches[i].prog)
  IN IF same # 0 THEN same ELSE IF capital # 0 THEN capital ELSE 1

(* The patch at position k, past the end meaning the last; 0 in an empty
   list. *)
PatchAt(list, k) ==
  IF list = <<>> THEN 0 ELSE list[IF k > Len(list) THEN Len(list) ELSE k]

(* Position of the reset engine's patch, bank 0 and program 0. *)
ResetPosition(list) == IF Find(list, 0, 0) = 0 THEN 1 ELSE Find(list, 0, 0)
=============================================================================
