------------------------------ MODULE MidiPath ------------------------------
(***************************************************************************)
(* What scva-winmidi promises of the messages between its two threads: the *)
(* audio loop takes them in the order they arrived, each once and as it    *)
(* arrived, and one is lost only if it is not of a size the queue holds or *)
(* if as many as the queue holds are waiting.                              *)
(***************************************************************************)
EXTENDS Naturals, Sequences

CONSTANTS
  Kinds,      \* the kinds of message
  Fitting,    \* those of a size the queue holds
  Room,       \* the messages the queue holds
  Nothing     \* before the first message is taken

VARIABLES
  next,      \* the number of the next message to be queued or lost
  waiting,   \* the messages queued, oldest first
  taken      \* the message the audio loop took last

vars == <<next, waiting, taken>>

Init ==
  /\ next = 1
  /\ waiting = <<>>
  /\ taken = Nothing

Queue(kind) ==
  /\ kind \in Fitting
  /\ Len(waiting) < Room
  /\ waiting' = Append(waiting, [id |-> next, kind |-> kind])
  /\ next' = next + 1
  /\ UNCHANGED taken

Lose(kind) ==
  /\ kind \notin Fitting \/ Len(waiting) = Room
  /\ next' = next + 1
  /\ UNCHANGED <<waiting, taken>>

Take ==
  /\ waiting # <<>>
  /\ taken' = Head(waiting)
  /\ waiting' = Tail(waiting)
  /\ UNCHANGED next

Next ==
  \/ \E kind \in Kinds : Queue(kind) \/ Lose(kind)
  \/ Take

Spec == Init /\ [][Next]_vars
=============================================================================
