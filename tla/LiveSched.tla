------------------------------ MODULE LiveSched ------------------------------
(***************************************************************************)
(* live_sched.c: when a live message is due, as operators over the         *)
(* scheduler's struct.  Times are milliseconds, positions are frames, and  *)
(* the origin, a double in the code, counts Sub-ths of a frame.            *)
(***************************************************************************)
EXTENDS Integers

CONSTANTS
  FPM,       \* frames per millisecond: rate / 1000
  Latency,   \* latency_ms
  Horizon,   \* the output buffer's depth in frames
  Wrap,      \* the device's position counts modulo this: 2^32
  Smooth,    \* a new origin moves the old a Smooth-th of the way: 16
  Sub        \* the origin's units in a frame

(* live_sched_init. *)
NewSched == [origin |-> 0, have_origin |-> FALSE,
             pos_last |-> 0, pos_total |-> 0, have_pos |-> FALSE]

(* Mutant of Position: the wrap is not undone. *)
PositionNoWrap(s, frames) ==
  [s EXCEPT !.pos_total = IF s.have_pos THEN @ + (frames - s.pos_last)
                                        ELSE frames,
            !.pos_last = frames,
            !.have_pos = TRUE]

(* live_sched_position: the 32-bit difference to the last reading is added to
   a 64-bit total. *)
Position(s, frames) ==
  [s EXCEPT !.pos_total = IF s.have_pos THEN @ + ((frames - s.pos_last) % Wrap)
                                        ELSE frames,
            !.pos_last = frames,
            !.have_pos = TRUE]

(* The frame playing, as far as is known: a device that cannot say is taken
   to be a whole buffer behind what it was handed. *)
Played(have, played, rendered) ==
  IF have THEN played ELSE IF rendered > Horizon THEN rendered - Horizon ELSE 0

(* live_sched_measure. *)
Measured(s, at, midi_ms) ==
  LET measured == Sub * (at - midi_ms * FPM)
  IN [s EXCEPT !.origin = IF s.have_origin
                          THEN @ + (measured - @) \div Smooth ELSE measured,
               !.have_origin = TRUE]

(* The frame a message is due at; the scheduler's float is cut to a whole
   frame and never negative. *)
DueAt(s, when_ms) ==
  LET at == s.origin + Sub * (when_ms + Latency) * FPM
  IN IF at > 0 THEN at \div Sub ELSE 0

(* live_sched_due: one further off than the horizon is let through. *)
Due(s, when_ms, until) ==
  \/ DueAt(s, when_ms) > until + Horizon
  \/ DueAt(s, when_ms) <= until
==============================================================================
