---------------------------- MODULE MCLiveTiming ----------------------------
(* A frame a millisecond, blocks of two frames, a device counter that
   wraps within a run. *)
EXTENDS LiveTiming
==============================================================================
