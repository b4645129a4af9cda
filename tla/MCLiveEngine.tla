---------------------------- MODULE MCLiveEngine ----------------------------
(* Two parts, the Default map, one the engine has a set for and one it may
   not have; the VSC's Default set is the 88Pro one (synth_vsc.c), and the map
   it has no set for is m88 here. *)
EXTENDS LiveEngine, TLC

CONSTANTS deflt, m55, m88, s55, s88, s88pro

(* The names the VSC backend takes; for an engine with per-part maps no map
   names a set. *)
VscSetOf == deflt :> s88pro @@ m55 :> s55
============================================================================
