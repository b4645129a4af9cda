---------------------------- MODULE MCClapPlugin ----------------------------
(* Two maps besides Default, which lists the second's patches; tones in other
   places of the two lists, each with one the other lacks; a kit
   each.  A last map has no patches, and is not offered where every part has
   one set.  Each engine and each window system is in one build. *)
EXTENDS ClapPlugin

Tone(m, b, p) == [map |-> m, bank |-> b, prog |-> p, drum |-> FALSE]
Kit(m, p) == [map |-> m, bank |-> 0, prog |-> p, drum |-> TRUE]

MCPatches == <<Tone(1, 0, 0), Tone(1, 1, 1), Tone(2, 0, 1), Tone(2, 0, 0),
               Kit(1, 0), Kit(2, 0)>>

MCBuilds == {<<"plugin", "x11">>, <<"none", "win32">>}
=============================================================================
