----------------------------- MODULE LiveTiming -----------------------------
(***************************************************************************)
(* scva_winmidi.c against the clock: messages arrive and are stamped, the  *)
(* device plays the blocks it was handed, and the audio loop measures      *)
(* where the device is, renders a block into each free output buffer and   *)
(* hands the engine the messages due by the block's end.  The queue is the *)
(* one MidiIn is shown to implement; here it never fills.                  *)
(***************************************************************************)
EXTENDS Integers, Sequences

CONSTANTS
  FPM, Latency, Wrap, Smooth, Sub,   \* as in LiveSched
  Block,      \* frames in a block
  MaxBuf,     \* the most output buffers: 32
  Readings,   \* the ways a device may say where it is playing
  MaxLag,     \* milliseconds the loop may be kept from running
  MaxTime, MaxMsgs   \* bounds of the model

ASSUME TimingAssumption ==
  /\ {FPM, Wrap, Smooth, Sub, Block} \subseteq Nat \ {0}
  /\ MaxBuf \in Nat /\ MaxBuf >= 2
  /\ Readings \subseteq {"samples", "bytes", "none"}
  /\ {Latency, MaxLag, MaxTime, MaxMsgs} \subseteq Nat

(* The buffers the latency makes, 2 at least. *)
NBuf == LET n == (Latency * FPM) \div Block
        IN IF n < 2 THEN 2 ELSE IF n > MaxBuf THEN MaxBuf ELSE n

INSTANCE LiveSched WITH Horizon <- NBuf * Block

VARIABLES
  reading,    \* how this device does
  now,        \* milliseconds since midiInStart
  queue,      \* the messages queued, oldest first
  played,     \* frames the device has played
  out,        \* the frame each output buffer's block ends at
  sched,      \* the scheduler
  rendered,   \* frames handed to the device
  pc, b, did, \* the loop's place, its output buffer, and whether it filled any
  lag,        \* milliseconds the loop has been kept from running
  readAt,     \* what the device had played at the last reading (history)
  heard,      \* the messages the last block took (history)
  dry,        \* frames' time the device has stood still (history)
  arrived     \* messages so far

loopVars == <<pc, b, did>>
timingVars == <<reading, now, queue, played, out, sched, rendered, loopVars, lag,
          readAt, heard, dry, arrived>>

Bufs == 0 .. NBuf - 1

(* The tool has opened MIDI-in and the device; MIDI time may have passed. *)
TimingInit ==
  /\ reading \in Readings
  /\ now \in 0 .. 1
  /\ queue = <<>>
  /\ played = 0
  /\ out = [i \in Bufs |-> 0]
  /\ sched = NewSched
  /\ rendered = 0
  /\ pc = "top" /\ b = 0 /\ did = FALSE
  /\ lag = 0
  /\ readAt = 0
  /\ heard = {}
  /\ dry = 0
  /\ arrived = 0

(* WHDR_DONE: never written, or played to its end. *)
IsFree(i) == out[i] <= played

(* The loop waits for the device, with nothing to fill. *)
Asleep == pc = "wait" /\ \A i \in Bufs : ~IsFree(i)

(* A millisecond passes: the device plays what it has.  The loop is kept from
   running MaxLag of them at most. *)
Tick ==
  /\ now < MaxTime
  /\ Asleep \/ lag < MaxLag
  /\ now' = now + 1
  /\ played' = IF rendered < played + FPM THEN rendered ELSE played + FPM
  /\ dry' = dry + FPM - (played' - played)
  /\ lag' = IF Asleep THEN 0 ELSE lag + 1
  /\ UNCHANGED <<reading, queue, out, sched, rendered, loopVars, readAt, heard,
                 arrived>>

(* A message is stamped and queued.  air is what is heard as it arrives. *)
Arrive ==
  /\ arrived < MaxMsgs
  /\ arrived' = arrived + 1
  /\ queue' = Append(queue, [when |-> now, air |-> played])
  /\ UNCHANGED <<reading, now, played, out, sched, rendered, loopVars, lag,
                 readAt, heard, dry>>

-----------------------------------------------------------------------------
(* waveOutGetPosition (external), and what played_frames makes of it. *)
Sample ==
  IF reading = "bytes" THEN ((4 * played) % Wrap) \div 4 ELSE played % Wrap

(* The top of the loop: the position and the time are read, and the origin
   measured.  A device with no position leaves the scheduler's count alone. *)
Measure ==
  /\ pc = "top"
  /\ \/ /\ reading # "none"
        /\ LET s == Position(sched, Sample)
           IN sched' = Measured(s, s.pos_total, now)
        /\ readAt' = played
     \/ /\ reading = "none"
        /\ sched' = Measured(sched, Played(FALSE, 0, rendered), now)
        /\ UNCHANGED readAt
  /\ pc' = "scan" /\ b' = 0 /\ did' = FALSE
  /\ lag' = 0
  /\ UNCHANGED <<reading, now, queue, played, out, rendered, heard, dry, arrived>>

(* Mutants of Taken: one message to a block; what is due by its first frame. *)
TakenOne(until) ==
  IF queue # <<>> /\ Due(sched, Head(queue).when, until) THEN 1 ELSE 0

TakenAtStart(until) ==
  CHOOSE n \in 0 .. Len(queue) :
    /\ \A i \in 1 .. n : Due(sched, queue[i].when, until - Block)
    /\ n < Len(queue) => ~Due(sched, queue[n + 1].when, until - Block)

(* How many messages are taken, one after the other while the first is due. *)
Taken(until) ==
  CHOOSE n \in 0 .. Len(queue) :
    /\ \A i \in 1 .. n : Due(sched, queue[i].when, until)
    /\ n < Len(queue) => ~Due(sched, queue[n + 1].when, until)

(* Output buffer b is free: a block is rendered into it and handed over.  The
   messages go to the engine before the block, so they are heard from its
   first frame on. *)
Fill ==
  /\ pc = "scan" /\ b < NBuf /\ IsFree(b)
  /\ rendered' = rendered + Block
  /\ LET n == Taken(rendered')
     IN /\ heard' = {[msg |-> queue[i], at |-> rendered] : i \in 1 .. n}
        /\ queue' = SubSeq(queue, n + 1, Len(queue))
  /\ out' = [out EXCEPT ![b] = rendered']
  /\ b' = b + 1 /\ did' = TRUE
  /\ UNCHANGED <<reading, now, played, sched, pc, lag, readAt, dry, arrived>>

Skip ==
  /\ pc = "scan" /\ b < NBuf /\ ~IsFree(b)
  /\ b' = b + 1
  /\ UNCHANGED <<reading, now, queue, played, out, sched, rendered, pc, did, lag,
                 readAt, heard, dry, arrived>>

(* A round that filled a buffer is followed by another at once. *)
EndScan ==
  /\ pc = "scan" /\ b = NBuf
  /\ pc' = IF did THEN "top" ELSE "wait"
  /\ UNCHANGED <<reading, now, queue, played, out, sched, rendered, b, did, lag,
                 readAt, heard, dry, arrived>>

(* The device signals a buffer that came back; the signal of one the scan
   itself found may still be up, and the wait ends after 100 ms anyway. *)
Wake ==
  /\ pc = "wait"
  /\ pc' = "top"
  /\ UNCHANGED <<reading, now, queue, played, out, sched, rendered, b, did, lag,
                 readAt, heard, dry, arrived>>

TimingNext == Tick \/ Arrive \/ Measure \/ Fill \/ Skip \/ EndScan \/ Wake

TimingSpec == TimingInit /\ [][TimingNext]_timingVars

-----------------------------------------------------------------------------

Msg == [when : 0 .. MaxTime, air : Nat]

TimingTypeOK ==
  /\ now \in 0 .. MaxTime
  /\ queue \in Seq(Msg)
  /\ played \in Nat /\ rendered \in Nat
  /\ out \in [Bufs -> Nat]
  /\ sched \in [origin : Int, have_origin : BOOLEAN, pos_last : 0 .. Wrap - 1,
                pos_total : Nat, have_pos : BOOLEAN]
  /\ pc \in {"top", "scan", "wait"} /\ b \in 0 .. NBuf /\ did \in BOOLEAN
  /\ lag \in 0 .. MaxLag
  /\ readAt \in Nat
  /\ \A h \in heard : h.msg \in Msg /\ h.at \in Nat
  /\ dry \in Nat
  /\ arrived \in 0 .. MaxMsgs

(* The 64-bit count is what the device had played, however often its own
   counter wrapped (live_sched.h on live_sched_position). *)
PositionExact == sched.have_pos => sched.pos_total = readAt

(* The frame a message should be heard at: the one on the air when it
   arrived, and the latency. *)
Ideal(msg) == msg.air + Latency * FPM

(* How far behind its place the device may be taken to be: one that cannot say
   where it is playing is taken to be a whole buffer behind what it was handed,
   and is further on by less than a block and what it played while the loop was
   kept from running. *)
Behind == IF reading = "none" THEN Block + (MaxLag + 1) * FPM - 1 ELSE 0

(* A message is heard where its arrival says, at most a block early and never
   late, but for the time the device stood still and for how well its place is
   known: README, "each message plays where its arrival time says, to within one
   --block".  Where the buffers are deep enough for the latency, only a device
   that stood still for longer than a block lets a message through as it comes. *)
HeardOnTime ==
  \A h \in heard :
    /\ h.at <= Ideal(h.msg) + dry
    /\ \/ h.at >= Ideal(h.msg) - Block - dry - Behind
       \/ h.at >= h.msg.air /\ dry > Block + NBuf * Block - Latency * FPM

(* No message still waits when the frame it belongs to has been rendered. *)
NoneOverdue ==
  \A i \in 1 .. Len(queue) : Ideal(queue[i]) + dry >= rendered
=============================================================================
