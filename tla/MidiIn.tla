------------------------------- MODULE MidiIn -------------------------------
(***************************************************************************)
(* scva_winmidi.c, the two threads: the driver calls midi_cb, which queues *)
(* messages; the audio loop takes those that are due, renders a block for  *)
(* each free output buffer and gives the sysex buffers back to the driver. *)
(*                                                                         *)
(* Whether a message is due, and whether an output buffer is free, are any *)
(* answer here; LiveTiming models what decides them.  The queue's lock is  *)
(* held for a whole operation, so each of its operations is one step.      *)
(***************************************************************************)
EXTENDS Naturals, Sequences, FiniteSets

CONSTANTS
  QCap,        \* the slots of the ring, one of which is always free
  NSysBuf,     \* the buffers sysex arrives in
  NBuf,        \* the output buffers
  MaxMsgs,     \* the messages that arrive (a bound of the model)
  None

ASSUME MidiInAssumption ==
  /\ QCap \in Nat /\ QCap >= 2
  /\ NSysBuf \in Nat \ {0}
  /\ NBuf \in Nat \ {0}
  /\ MaxMsgs \in Nat

(* A message by its size: three bytes; a whole sysex that fits a slot of the
   queue, or only a sysex buffer; the first part of one that fills a buffer
   and the part that follows; a buffer handed back with nothing in it, or
   with a sysex cut short. *)
LongKinds == {"sysex", "big", "first", "rest", "empty", "broken"}
Kinds == {"short"} \cup LongKinds

(* 1 <= len <= QMSGMAX. *)
Fitting == {"short", "sysex", "rest"}

Msg == [id : 1 .. MaxMsgs, kind : Kinds]
Slots == 0 .. QCap - 1
SysBufs == 0 .. NSysBuf - 1

VARIABLES
  received,       \* the messages that have arrived at the driver
  split,          \* the driver has the rest of a sysex to deliver
  added,          \* the sysex buffers the driver holds, in the order added
  sys_buf,        \* what each sysex buffer holds
  events,         \* the callbacks the driver has still to make or finish
  cbpc,           \* where the callback under way is: "put" or "flag"
  sys_returned,   \* the flags the callback sets and the audio loop clears
  q,              \* the ring
  q_head, q_tail, q_dropped,
  pc,             \* the audio loop's place
  b,              \* its loop variable
  m,              \* the message it took last
  dealt           \* the messages put in the queue or lost (history)

driverVars == <<received, split, added, sys_buf, events>>
queueVars == <<q, q_head, q_tail, q_dropped>>
audioVars == <<pc, b, m>>
vars == <<driverVars, cbpc, sys_returned, queueVars, audioVars, dealt>>

Init ==
  /\ received = 0
  /\ split = FALSE
  /\ added = [i \in 1 .. NSysBuf |-> i - 1]
  /\ sys_buf = [i \in SysBufs |-> None]
  /\ events = <<>>
  /\ cbpc = "put"
  /\ sys_returned = [i \in SysBufs |-> FALSE]
  /\ q = [i \in Slots |-> None]
  /\ q_head = 0
  /\ q_tail = 0
  /\ q_dropped = 0
  /\ pc = "console"
  /\ b = 0
  /\ m = None
  /\ dealt = 0

-----------------------------------------------------------------------------
(* The driver (external): it stamps and delivers messages in the order they
   arrive, a sysex in the first buffer it holds; with none, the sysex is
   lost before the program could see it. *)

ShortArrives ==
  /\ received < MaxMsgs
  /\ received' = received + 1
  /\ events' = Append(events, [msg |-> [id |-> received', kind |-> "short"],
                               buf |-> None])
  /\ UNCHANGED <<split, added, sys_buf>>

LongArrives(kind) ==
  /\ received < MaxMsgs
  /\ added # <<>>
  /\ (kind = "rest") = split
  /\ received' = received + 1
  /\ split' = (kind = "first")
  /\ LET msg == [id |-> received', kind |-> kind]
     IN /\ sys_buf' = [sys_buf EXCEPT ![Head(added)] = msg]
        /\ events' = Append(events, [msg |-> msg, buf |-> Head(added)])
  /\ added' = Tail(added)

Driver ==
  /\ ShortArrives \/ \E kind \in LongKinds : LongArrives(kind)
  /\ UNCHANGED <<cbpc, sys_returned, queueVars, audioVars, dealt>>

-----------------------------------------------------------------------------
(* The queue. *)

After(i) == (i + 1) % QCap

(* queue_put: full, "better to lose one than block". *)
QueuePut(msg) ==
  \/ /\ msg.kind \notin Fitting
     /\ UNCHANGED queueVars
  \/ /\ msg.kind \in Fitting
     /\ After(q_head) = q_tail
     /\ q_dropped' = q_dropped + 1
     /\ UNCHANGED <<q, q_head, q_tail>>
  \/ /\ msg.kind \in Fitting
     /\ After(q_head) # q_tail
     /\ q' = [q EXCEPT ![q_head] = msg]
     /\ q_head' = After(q_head)
     /\ UNCHANGED <<q_tail, q_dropped>>

(* queue_get_due, when there is a message and it is due. *)
QueueGet ==
  /\ q_tail # q_head
  /\ m' = q[q_tail]
  /\ q_tail' = After(q_tail)
  /\ UNCHANGED <<q, q_head, q_dropped>>

-----------------------------------------------------------------------------
(* midi_cb, on the driver's thread. *)

Event == Head(events)

(* A short message, and a sysex copied from its buffer; a buffer with nothing
   recorded is not queued. *)
CallbackPut ==
  /\ events # <<>>
  /\ Event.msg.kind # "broken"
  /\ cbpc = "put"
  /\ QueuePut(IF Event.buf = None THEN Event.msg ELSE sys_buf[Event.buf])
  /\ dealt' = dealt + 1
  /\ cbpc' = IF Event.buf = None THEN "put" ELSE "flag"
  /\ events' = IF Event.buf = None THEN Tail(events) ELSE events
  /\ UNCHANGED <<received, split, added, sys_buf, sys_returned, audioVars>>

(* The callback may not call midiInAddBuffer: it flags the buffer. *)
CallbackFlag ==
  /\ cbpc = "flag"
  /\ sys_returned' = [sys_returned EXCEPT ![Event.buf] = TRUE]
  /\ cbpc' = "put"
  /\ events' = Tail(events)
  /\ UNCHANGED <<received, split, added, sys_buf, queueVars, audioVars, dealt>>

-----------------------------------------------------------------------------
(* The audio loop. *)

PollConsole ==
  /\ pc = "console"
  /\ pc' \in {"readd", "stopped"}
  /\ b' = 0
  /\ UNCHANGED <<driverVars, cbpc, sys_returned, queueVars, m, dealt>>

(* Mutant of ReAdd: the last buffer is not looked at. *)
ReAddNotLast ==
  /\ pc = "readd"
  /\ sys_returned' = [sys_returned EXCEPT ![b] = FALSE]
  /\ added' = IF sys_returned[b] THEN Append(added, b) ELSE added
  /\ IF b + 2 < NSysBuf THEN pc' = pc /\ b' = b + 1
                        ELSE pc' = "scan" /\ b' = 0
  /\ UNCHANGED <<received, split, sys_buf, events, cbpc, queueVars, m, dealt>>

(* One exchange of a flag; a buffer that was flagged is given back. *)
ReAdd ==
  /\ pc = "readd"
  /\ sys_returned' = [sys_returned EXCEPT ![b] = FALSE]
  /\ added' = IF sys_returned[b] THEN Append(added, b) ELSE added
  /\ IF b + 1 < NSysBuf THEN pc' = pc /\ b' = b + 1
                        ELSE pc' = "scan" /\ b' = 0
  /\ UNCHANGED <<received, split, sys_buf, events, cbpc, queueVars, m, dealt>>

(* Output buffer b: skipped while the device has it.  After the last, a scan
   that filled none waits for one, 100 ms at most. *)
Scan ==
  /\ pc = "scan"
  /\ IF b = NBuf THEN pc' = "console" /\ b' = 0
     ELSE \/ pc' = "drain" /\ b' = b
          \/ pc' = "scan" /\ b' = b + 1
  /\ UNCHANGED <<driverVars, cbpc, sys_returned, queueVars, m, dealt>>

(* A message that is due goes to the engine. *)
DrainTake ==
  /\ pc = "drain"
  /\ QueueGet
  /\ UNCHANGED <<driverVars, cbpc, sys_returned, pc, b, dealt>>

(* None, or the first is not due: the block is rendered and written. *)
DrainEnd ==
  /\ pc = "drain"
  /\ pc' = "scan"
  /\ b' = b + 1
  /\ UNCHANGED <<driverVars, cbpc, sys_returned, queueVars, m, dealt>>

(* Any message but MIM_DATA and MIM_LONGDATA is ignored. *)
CallbackIgnores ==
  /\ events # <<>>
  /\ Event.msg.kind = "broken"
  /\ dealt' = dealt + 1
  /\ events' = Tail(events)
  /\ UNCHANGED <<received, split, added, sys_buf, cbpc, sys_returned,
                 queueVars, audioVars>>

(* Mutant of Callback: the buffer is flagged, then copied. *)
CallbackFlagsFirst ==
  \/ CallbackIgnores
  \/ events # <<>> /\ Event.buf = None /\ CallbackPut
  \/ /\ events # <<>>
     /\ cbpc = "put"
     /\ Event.buf # None /\ Event.msg.kind # "broken"
     /\ sys_returned' = [sys_returned EXCEPT ![Event.buf] = TRUE]
     /\ cbpc' = "flag"
     /\ UNCHANGED <<driverVars, queueVars, audioVars, dealt>>
  \/ /\ cbpc = "flag"
     /\ QueuePut(sys_buf[Event.buf])
     /\ dealt' = dealt + 1
     /\ cbpc' = "put"
     /\ events' = Tail(events)
     /\ UNCHANGED <<received, split, added, sys_buf, sys_returned, audioVars>>

Callback == CallbackPut \/ CallbackFlag \/ CallbackIgnores
Audio == PollConsole \/ ReAdd \/ Scan \/ DrainTake \/ DrainEnd

Next == Driver \/ Callback \/ Audio

(* The driver makes the callbacks it owes and the audio loop runs; neither
   waits for the other.  Nothing is asked of the arriving messages. *)
Spec == Init /\ [][Next]_vars /\ WF_vars(Callback) /\ WF_vars(Audio)

-----------------------------------------------------------------------------

(* The messages waiting in the ring, oldest first. *)
Waiting ==
  [i \in 1 .. ((q_head + QCap - q_tail) % QCap) |-> q[(q_tail + i - 1) % QCap]]

OptMsg == Msg \cup {None}

TypeOK ==
  /\ received \in 0 .. MaxMsgs
  /\ split \in BOOLEAN
  /\ added \in Seq(SysBufs)
  /\ sys_buf \in [SysBufs -> OptMsg]
  /\ events \in Seq([msg : Msg, buf : SysBufs \cup {None}])
  /\ cbpc \in {"put", "flag"}
  /\ sys_returned \in [SysBufs -> BOOLEAN]
  /\ q \in [Slots -> OptMsg]
  /\ q_head \in Slots /\ q_tail \in Slots
  /\ q_dropped \in 0 .. MaxMsgs
  /\ pc \in {"console", "readd", "scan", "drain", "stopped"}
  /\ b \in Nat
  /\ m \in OptMsg
  /\ dealt \in 0 .. MaxMsgs

(* The two threads amount to MidiPath: whatever the interleaving, messages
   are taken in order, once and unchanged (a sysex is copied before its
   buffer can carry another), and lost only to size or a full queue. *)
Path == INSTANCE MidiPath WITH
  Room <- QCap - 1,
  Nothing <- None,
  next <- dealt + 1,
  waiting <- Waiting,
  taken <- m

ImplementsMidiPath == Path!Spec

Held(i) == {j \in 1 .. Len(added) : added[j] = i}
Broken(i) == sys_buf[i] # None /\ sys_buf[i].kind = "broken"

(* Every sysex buffer that was filled goes back to the driver while the tool
   runs, so a burst of sysex cannot use the four of them up.  Not so one
   handed back broken (MIM_LONGERROR): the callback ignores it. *)
BufferComesBack ==
  \A i \in SysBufs : sys_buf[i] # None /\ ~Broken(i) /\ Held(i) = {} ~>
                       Held(i) # {} \/ pc = "stopped"

(* scva_winmidi.c on struct qmsg: a message is "1..3 short, or a whole
   sysex". *)
QueueHoldsWhole ==
  \A i \in 1 .. Len(Waiting) : Waiting[i].kind \in {"short", "sysex"}

=============================================================================
