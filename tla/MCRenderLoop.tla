---------------------------- MODULE MCRenderLoop ----------------------------
(* Songs of one to three events over seven ticks: at half a frame, a frame and
   a half (the default) and three frames a tick, on port A, B or one that does
   not exist, in blocks of four frames.  The short ones go to every output, the
   others to a file. *)
EXTENDS RenderTool

CONSTANT MaxEvents

Short(t) == [tick : {t}, kind : {"short"}, tempo : {0}, port : {0, 2}]
Sysex(t) == [tick : {t}, kind : {"sysex"}, tempo : {0}, port : {1}]
Tempos(t) == [tick : {t}, kind : {"tempo"}, tempo : {1, 6}, port : {0}]

Events == UNION {Short(t) \cup Sysex(t) \cup Tempos(t) : t \in {0, 1, 4, 6}}

Ordered(events) ==
  {s \in UNION {[1 .. n -> events] : n \in 1 .. MaxEvents} :
     \A k \in DOMAIN s : k > 1 => s[k - 1].tick <= s[k].tick}

AllSongs == Ordered(Events)

MCOutputs == [s \in AllSongs |-> IF Len(s) <= 2 THEN Sinks ELSE {{"wav"}}]

==============================================================================
