---------------------------- MODULE MCAudioPath ----------------------------
(* VSC's three rates, one to two to four, and hosts below, at, between and
   above them; a window of four frames, chunks of five, blocks of three, and
   calls that fit none of them. *)
EXTENDS AudioPath

VscRates == <<4, 8, 16>>
SomeHostRates == {1, 4, 6, 32}
AllSteps == {StepOf(r, h) : r \in {4, 8, 16}, h \in SomeHostRates}
FewSteps == {s \in AllSteps : s.whole < Taps \/ (s.whole = Taps /\ s.frac = 0)}
==============================================================================
