----------------------------- MODULE DaemonLoop -----------------------------
(***************************************************************************)
(* scva_daemon.c: the Linux daemon's one loop.  It waits on the sequencer, *)
(* the card, its terminal and its control socket together, then serves     *)
(* them in that order of the code: a typed line, one client, the MIDI      *)
(* there is, one block.  Several daemons share the directory of sockets.   *)
(* What a command does to the engine is LiveEngine's; here one is "map" or *)
(* "quit".                                                                 *)
(***************************************************************************)
EXTENDS Integers, Sequences, SequencesExt, FiniteSets

CONSTANTS
  Daemons, Clients,
  Name,          \* the --name of each daemon: a sequence of characters
  Busy,          \* bound: daemons whose terminal, MIDI, card and poll do anything
  MaxPending,    \* bound: events the sequencer holds
  MaxInputs,     \* bound: events, lines and signals
  Starts         \* bound: starts of each daemon

ASSUME DaemonAssumption ==
  /\ DOMAIN Name = Daemons /\ Busy \subseteq Daemons
  /\ {MaxPending, MaxInputs} \subseteq Nat
  /\ Starts \in [Daemons -> Nat]

VARIABLES
  loop,      \* of each daemon: pc, and what the last poll reported
  stop,      \* stop_now
  console,   \* stdin is watched
  ctl,       \* ctl_fd: the control socket is listened on
  typed,     \* what its terminal has for it
  midi,      \* the sequencer's events: blocks rendered since each came
  card,      \* "full", "room" or "xrun"
  socket,    \* the directory: whose socket each path is
  waiting,   \* each socket's clients, and at the head the one accepted
  client,    \* of each client: what it is at, the name and daemon it means
  left       \* bounds

daemonVars == <<loop, stop, console, ctl, typed, midi, card, socket, waiting, client, left>>

Nobody == "nobody"

(* Mutant of SafeName: one character stands for all. *)
SafeNameFirst(name) == [i \in {1} |-> IF name[i] = "/" THEN "_" ELSE name[i]]

(* control_path: a name's path, "/" being no part of a file's name. *)
SafeName(name) == [i \in DOMAIN name |-> IF name[i] = "/" THEN "_" ELSE name[i]]

PathOf(d) == SafeName(Name[d])
Paths == {PathOf(d) : d \in Daemons}

Away == [at |-> "away", for |-> Nobody, by |-> Nobody, says |-> "map"]

DaemonInit ==
  /\ loop = [d \in Daemons |-> [pc |-> "off", fired |-> {}]]
  /\ stop = [d \in Daemons |-> FALSE]
  /\ console = [d \in Daemons |-> TRUE]
  /\ ctl = [d \in Daemons |-> FALSE]
  /\ typed = [d \in Daemons |-> "nothing"]
  /\ midi = [d \in Daemons |-> <<>>]
  /\ card = [d \in Daemons |-> "full"]
  /\ socket = [p \in Paths |-> Nobody]
  /\ waiting = [d \in Daemons |-> <<>>]
  /\ client = [c \in Clients |-> Away]
  /\ left = [inputs |-> MaxInputs, starts |-> Starts]

At(d, pc) == loop[d].pc = pc
Goto(d, pc) ==
  loop' = [loop EXCEPT ![d] = [pc |-> pc, fired |-> IF pc = "poll" THEN {} ELSE @.fired]]
Looping(d) == ~At(d, "off")
Dropped == [Away EXCEPT !.at = "dropped"]
Drop(cs) == [c \in Clients |-> IF c \in cs THEN Dropped ELSE client[c]]

-----------------------------------------------------------------------------
(* One daemon. *)

(* main: the engine, the sequencer port and the card are open by now. *)
Begin(d) ==
  /\ At(d, "off") /\ left.starts[d] > 0
  /\ left' = [left EXCEPT !.starts[d] = @ - 1]
  /\ Goto(d, "poll")
  /\ card' = [card EXCEPT ![d] = IF d \in Busy THEN "room" ELSE "full"]
  /\ UNCHANGED <<stop, console, typed, midi, waiting, client>>

(* control_listen: whatever is at the path is unlinked, then bound.  There may
   be no socket to be had, before the unlink, or binding may fail after it; the
   daemon then runs without one. *)
Start(d) ==
  /\ Begin(d)
  /\ \E owner \in {d, Nobody, socket[PathOf(d)]} : \E ok \in BOOLEAN :
       /\ ok => owner = d
       /\ socket' = [socket EXCEPT ![PathOf(d)] = owner]
       /\ ctl' = [ctl EXCEPT ![d] = ok]

(* What poll finds. *)
Ready(d) ==
  {w \in {"stdin", "control", "midi", "card"} :
     \/ w = "stdin" /\ console[d] /\ typed[d] # "nothing"
     \/ w = "control" /\ ctl[d] /\ waiting[d] # <<>>
     \/ w = "midi" /\ midi[d] # <<>>
     \/ w = "card" /\ card[d] # "full"}

(* The loop's test and its poll; one that times out, or that a signal
   interrupts, leaves nothing to do. *)
Polled(d, fired) ==
  /\ At(d, "poll") /\ ~stop[d]
  /\ loop' = [loop EXCEPT ![d] = [pc |-> "console", fired |-> fired]]
  /\ UNCHANGED <<stop, console, ctl, typed, midi, card, socket, waiting, client, left>>

Poll(d) == Ready(d) # {} /\ Polled(d, Ready(d))

(* The card's own reading of the poll fails, timed out or not: a block is then
   tried, though the card may be full. *)
PollBlind(d) == d \in Busy /\ Polled(d, Ready(d) \cup {"card"})

(* Any other error of poll ends the loop. *)
PollFails(d) ==
  /\ d \in Busy /\ At(d, "poll") /\ ~stop[d]
  /\ Goto(d, "end")
  /\ UNCHANGED <<stop, console, ctl, typed, midi, card, socket, waiting, client, left>>

Fired(d, what) == what \in loop[d].fired

(* Mutant of Command: the last command decides. *)
CommandLast(d, says) == stop' = [stop EXCEPT ![d] = says = "quit"]

(* console_command: one that asks to stop, stops it. *)
Command(d, says) == stop' = [stop EXCEPT ![d] = @ \/ says = "quit"]

(* A line from the terminal, or its end. *)
Console(d) ==
  /\ At(d, "console")
  /\ IF Fired(d, "stdin")
     THEN /\ console' = [console EXCEPT ![d] = typed[d] # "end"]
          /\ Command(d, typed[d])
          /\ typed' = [typed EXCEPT ![d] = "nothing"]
     ELSE UNCHANGED <<console, stop, typed>>
  /\ Goto(d, IF Fired(d, "control") THEN "read" ELSE "midi")
  /\ UNCHANGED <<ctl, midi, card, socket, waiting, client, left>>

(* Mutant of Read: a client that says nothing is waited for. *)
ReadLine(d) ==
  LET c == Head(waiting[d])
  IN /\ At(d, "read") /\ client[c].at = "sent"
     /\ Command(d, client[c].says)
     /\ client' = [client EXCEPT ![c].at = "served", ![c].by = d]
     /\ waiting' = [waiting EXCEPT ![d] = Tail(@)]
     /\ Goto(d, "midi")
     /\ UNCHANGED <<console, ctl, typed, midi, card, socket, left>>

(* One client is accepted, which stays at the head until it was served: read
   waits for its line, or its end. *)
Read(d) ==
  LET c == Head(waiting[d])
  IN /\ At(d, "read") /\ client[c].at \in {"sent", "closed"}
     /\ IF client[c].at = "sent"
        THEN /\ Command(d, client[c].says)
             /\ client' = [client EXCEPT ![c].at = "served", ![c].by = d]
        ELSE /\ client' = [client EXCEPT ![c] = Dropped]
             /\ UNCHANGED stop
     /\ waiting' = [waiting EXCEPT ![d] = Tail(@)]
     /\ Goto(d, "midi")
     /\ UNCHANGED <<console, ctl, typed, midi, card, socket, left>>

(* Mutant of Drain: one event a time round the loop. *)
DrainOne(d) ==
  /\ At(d, "midi")
  /\ midi' = [midi EXCEPT ![d] = IF @ = <<>> THEN @ ELSE Tail(@)]
  /\ Goto(d, IF Fired(d, "card") THEN "render" ELSE "poll")
  /\ UNCHANGED <<stop, console, ctl, typed, card, socket, waiting, client, left>>

(* All the events there are go to the engine, one at a time: one that comes
   before the last has gone goes too. *)
Drain(d) ==
  /\ At(d, "midi")
  /\ midi' = [midi EXCEPT ![d] = <<>>]
  /\ Goto(d, IF Fired(d, "card") THEN "render" ELSE "poll")
  /\ UNCHANGED <<stop, console, ctl, typed, card, socket, waiting, client, left>>

(* A block is rendered. *)
Render(d) ==
  /\ At(d, "render")
  /\ midi' = [midi EXCEPT ![d] = [k \in DOMAIN @ |-> @[k] + 1]]
  /\ Goto(d, "write")
  /\ UNCHANGED <<stop, console, ctl, typed, card, socket, waiting, client, left>>

(* And written: that waits for a card that is full.  One that ran out is
   recovered, or the loop ends. *)
Write(d) ==
  /\ At(d, "write") /\ card[d] # "full"
  /\ \/ Goto(d, "poll") /\ card' = [card EXCEPT ![d] = IF @ = "xrun" THEN "room" ELSE "full"]
     \/ card[d] = "xrun" /\ Goto(d, "end") /\ UNCHANGED card
  /\ UNCHANGED <<stop, console, ctl, typed, midi, socket, waiting, client, left>>

(* The process is gone, its clients see their end. *)
Leave(d) ==
  /\ loop' = [loop EXCEPT ![d] = [pc |-> "off", fired |-> {}]]
  /\ ctl' = [ctl EXCEPT ![d] = FALSE]
  /\ client' = Drop(Range(waiting[d]))
  /\ waiting' = [waiting EXCEPT ![d] = <<>>]
  /\ stop' = [stop EXCEPT ![d] = FALSE]
  /\ console' = [console EXCEPT ![d] = TRUE]
  /\ typed' = [typed EXCEPT ![d] = "nothing"]
  /\ midi' = [midi EXCEPT ![d] = <<>>]
  /\ card' = [card EXCEPT ![d] = "full"]
  /\ UNCHANGED left

(* The loop's test fails, or it broke off.  At done the socket is closed, and
   what is at its path unlinked. *)
End(d) ==
  /\ At(d, "end") \/ (At(d, "poll") /\ stop[d])
  /\ socket' = [socket EXCEPT ![PathOf(d)] = IF ctl[d] THEN Nobody ELSE @]
  /\ Leave(d)

(* Killed, it leaves its socket behind (bound: one that will be started
   again). *)
Killed(d) ==
  /\ Looping(d) /\ left.starts[d] > 0
  /\ Leave(d)
  /\ UNCHANGED socket

-----------------------------------------------------------------------------
(* What is around it (external). *)

Spend == left.inputs > 0 /\ left' = [left EXCEPT !.inputs = @ - 1]

MidiArrives(d) ==
  /\ d \in Busy /\ Looping(d) /\ Len(midi[d]) < MaxPending
  /\ midi' = [midi EXCEPT ![d] = Append(@, 0)]
  /\ UNCHANGED <<loop, stop, console, ctl, typed, card, socket, waiting, client, left>>

CardDrains(d) ==
  /\ d \in Busy /\ Looping(d) /\ card[d] # "xrun"
  /\ card' = [card EXCEPT ![d] = IF @ = "full" THEN "room" ELSE "xrun"]
  /\ UNCHANGED <<loop, stop, console, ctl, typed, midi, socket, waiting, client, left>>

Types(d, what) ==
  /\ d \in Busy /\ Looping(d) /\ typed[d] = "nothing" /\ console[d] /\ Spend
  /\ typed' = [typed EXCEPT ![d] = what]
  /\ UNCHANGED <<loop, stop, console, ctl, midi, card, socket, waiting, client>>

Signal(d) ==
  /\ d \in Busy /\ Looping(d) /\ ~stop[d] /\ Spend
  /\ stop' = [stop EXCEPT ![d] = TRUE]
  /\ UNCHANGED <<loop, console, ctl, typed, midi, card, socket, waiting, client>>

(* control_send: a client connects to the path of the name it was given, then
   writes its line, or goes away. *)
Connect(c, d, says) ==
  /\ client[c].at = "away"
  /\ LET there == socket[PathOf(d)]
     IN IF there # Nobody /\ ctl[there]
        THEN /\ client' = [client EXCEPT ![c] = [at |-> "open", for |-> d,
                                                 by |-> Nobody, says |-> says]]
             /\ waiting' = [waiting EXCEPT ![there] = Append(@, c)]
        ELSE /\ client' = [client EXCEPT ![c].at = "refused"]
             /\ UNCHANGED waiting
  /\ UNCHANGED <<loop, stop, console, ctl, typed, midi, card, socket, left>>

Writes(c) ==
  /\ client[c].at = "open"
  /\ \E at \in {"sent", "closed"} : client' = [client EXCEPT ![c].at = at]
  /\ UNCHANGED <<loop, stop, console, ctl, typed, midi, card, socket, waiting, left>>

-----------------------------------------------------------------------------

Turn(d) ==
  \/ Poll(d) \/ Console(d) \/ Read(d) \/ Drain(d) \/ Render(d) \/ Write(d) \/ End(d)

(* What goes wrong need never. *)
Around ==
  \/ \E d \in Daemons :
       \/ PollBlind(d) \/ PollFails(d)
       \/ Start(d) \/ Killed(d) \/ MidiArrives(d) \/ CardDrains(d) \/ Signal(d)
       \/ \E what \in {"quit", "end"} : Types(d, what)
       \/ \E c \in Clients : \E says \in {"map", "quit"} : Connect(c, d, says)
  \/ \E c \in Clients : Writes(c)

DaemonNext == (\E d \in Daemons : Turn(d)) \/ Around

(* The loop goes on, a card that is full plays on, and a client that connected
   writes or goes away. *)
DaemonSpec ==
  /\ DaemonInit /\ [][DaemonNext]_daemonVars
  /\ \A d \in Daemons : /\ WF_daemonVars(Turn(d))
                        /\ WF_daemonVars(card[d] = "full" /\ CardDrains(d))
  /\ \A c \in Clients : WF_daemonVars(Writes(c))

-----------------------------------------------------------------------------

DaemonTypeOK ==
  /\ \A d \in Daemons :
       /\ loop[d].pc \in {"off", "poll", "console", "read", "midi", "render", "write", "end"}
       /\ loop[d].fired \subseteq {"stdin", "control", "midi", "card"}
       /\ {stop[d], console[d], ctl[d]} \subseteq BOOLEAN
       /\ typed[d] \in {"nothing", "quit", "end"}
       /\ card[d] \in {"full", "room", "xrun"}
       /\ At(d, "read") => waiting[d] # <<>>
       /\ ctl[d] => Looping(d)
  /\ \A p \in Paths : socket[p] \in Daemons \cup {Nobody}

(* No event misses two blocks: one the loop finds goes into the engine before
   the block after it, whatever else was served first ("whatever arrived goes
   into the engine before the block it belongs to is rendered"). *)
NoneMissesTwoBlocks ==
  \A d \in Daemons : \A k \in DOMAIN midi[d] : midi[d][k] <= 1

(* A running daemon's socket is the one at its path, whoever was killed or
   ended before, and a command is run by the daemon it was meant for. *)
SocketIsItsOwn ==
  /\ \A d \in Daemons : ctl[d] => socket[PathOf(d)] = d
  /\ \A c \in Clients : client[c].at = "served" => client[c].by = client[c].for

(* Asked to stop, by a signal, a line or a client, a daemon does. *)
Stops == \A d \in Daemons : stop[d] ~> At(d, "off")

(* A client gets an answer or an end, if not the daemon it meant. *)
Answered == \A c \in Clients : client[c].at = "open" ~> client[c].at \in {"served", "dropped"}
=============================================================================
