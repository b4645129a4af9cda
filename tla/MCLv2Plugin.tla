----------------------------- MODULE MCLv2Plugin ----------------------------
(* Two maps besides Default, which lists the second's patches; tones in other
   places of the two lists, one of which is longer; a kit each, and one more
   in the second. *)
EXTENDS Lv2Plugin

Tone(m, b, p) == [map |-> m, bank |-> b, prog |-> p, drum |-> FALSE]
Kit(m, p) == [map |-> m, bank |-> 0, prog |-> p, drum |-> TRUE]

MCPatches == <<Tone(1, 0, 0), Tone(1, 1, 1),
               Tone(2, 0, 1), Tone(2, 1, 0), Tone(2, 0, 0),
               Kit(1, 0), Kit(2, 0), Kit(2, 1)>>
=============================================================================
