---------------------------- MODULE MCDaemonLoop ----------------------------
(* Two daemons whose names hold a character that no file's name may, and are
   a path each; one of them is started twice. *)
EXTENDS DaemonLoop

MCStarts == [d \in Daemons |-> IF d = "one" THEN 2 ELSE 1]

MCName == [d \in Daemons |-> IF d = "one" THEN <<"a", "/", "b">> ELSE <<"a", "/", "c">>]
=============================================================================
