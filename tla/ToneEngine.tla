----------------------------- MODULE ToneEngine -----------------------------
(***************************************************************************)
(* The tone generator behind the synth interface (SCCore.dll, not part of  *)
(* the repository), as far as the tone map code relies on it: a part keeps *)
(* the Bank Select LSB (CC32, the tone map) and MSB (CC0) it last received *)
(* and applies both only when a Program Change arrives; a GS or GM Reset   *)
(* puts every part back to its power-on state.  The comments of scva_map.h *)
(* and midi_reset.h state both facts.                                      *)
(***************************************************************************)

CONSTANTS
  Parts,          \* the MIDI channels of one engine
  Maps,           \* the values CC32 takes: the tone maps a user can name
  Banks,          \* the values CC0 takes
  Programs,       \* the values a Program Change takes
  Default,        \* SCVA_MAP_DEFAULT, the map a part is on at power-on
  FirstBank,      \* the bank a part is on at power-on
  FirstProgram    \* program 0, GM's first

ASSUME EngineAssumption ==
  /\ Default \in Maps
  /\ FirstBank \in Banks
  /\ FirstProgram \in Programs

(* What a part plays. *)
Sound == [map : Maps, bank : Banks, prog : Programs]

(* A part: what it plays, and the bank pair its next program will take. *)
Part == [cc32 : Maps, cc0 : Banks, sound : Sound]

PowerOnSound == [map |-> Default, bank |-> FirstBank, prog |-> FirstProgram]

PowerOnPart == [cc32 |-> Default, cc0 |-> FirstBank, sound |-> PowerOnSound]

(* The state a GS or GM Reset leaves every part in. *)
PowerOn == [ch \in Parts |-> PowerOnPart]

(* CC32 and CC0 are latched and change nothing that can be heard. *)
LatchMap(pt, v) == [pt EXCEPT !.cc32 = v]
LatchBank(pt, b) == [pt EXCEPT !.cc0 = b]

(* A Program Change applies what is latched. *)
SelectProgram(pt, p) ==
  [pt EXCEPT !.sound = [map |-> pt.cc32, bank |-> pt.cc0, prog |-> p]]

=============================================================================
