------------------------------ MODULE PartMaps ------------------------------
(***************************************************************************)
(* What the live tools promise of tone maps, without controllers, latches  *)
(* or injected messages: a part plays the program it was last asked for,   *)
(* on the map chosen for it.  A reset silences both until the part's next  *)
(* program or map; a map given at start-up waits for them too.             *)
(***************************************************************************)
CONSTANTS Parts, Maps, Programs, Default, FirstProgram

VARIABLES
  begun,    \* the engine is open
  chosen,   \* the map chosen for each part
  last,     \* the program each part was last asked for
  plays     \* what each part plays

vars == <<begun, chosen, last, plays>>

AtPowerOn == [ch \in Parts |-> [map |-> Default, prog |-> FirstProgram]]

Init ==
  /\ begun = FALSE
  /\ chosen = [ch \in Parts |-> Default]
  /\ last = [ch \in Parts |-> FirstProgram]
  /\ plays = AtPowerOn

Begin(map) ==
  /\ ~begun
  /\ begun' = TRUE
  /\ chosen' = [ch \in Parts |-> map]
  /\ UNCHANGED <<last, plays>>

Play(ch, p) ==
  /\ begun
  /\ last' = [last EXCEPT ![ch] = p]
  /\ plays' = [plays EXCEPT ![ch] = [map |-> chosen[ch], prog |-> p]]
  /\ UNCHANGED <<begun, chosen>>

Choose(chs, map) ==
  /\ begun
  /\ chosen' = [ch \in Parts |-> IF ch \in chs THEN map ELSE chosen[ch]]
  /\ plays' = [ch \in Parts |-> IF ch \in chs
                                THEN [map |-> map, prog |-> last[ch]]
                                ELSE plays[ch]]
  /\ UNCHANGED <<begun, last>>

Reset ==
  /\ begun
  /\ plays' = AtPowerOn
  /\ UNCHANGED <<begun, chosen, last>>

Next ==
  \/ \E map \in Maps : Begin(map)
  \/ \E ch \in Parts, p \in Programs : Play(ch, p)
  \/ \E map \in Maps, chs \in {{ch} : ch \in Parts} \cup {Parts} :
       Choose(chs, map)
  \/ Reset

Spec == Init /\ [][Next]_vars
=============================================================================
