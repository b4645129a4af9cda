------------------------------ MODULE SongFile ------------------------------
(***************************************************************************)
(* midi_song.h: the song parse() makes of a Standard MIDI File.  The file  *)
(* is chosen as it is read, one event of a track at a time, so that a      *)
(* track may turn out damaged anywhere; an event is what its bytes decode  *)
(* to.  What the song should be is stated of what was read.                *)
(***************************************************************************)
EXTENDS Integers, Sequences, FiniteSets

CONSTANTS
  Deltas,       \* the delta times
  Statuses,     \* the statuses of channel messages
  System,       \* a status from F1 to FE: it is no running status
  Items,        \* the events a track may hold
  MaxTracks, MaxItems   \* bounds of the model: tracks, and events in all

None == "none"

(* What can be read next in a track.  A message's status is None when the
   byte is left out, and its data is good or has a top bit set; a name says
   Part B or nothing; damage is a cut or a length that runs past the end. *)
Item ==
  [kind : {"message"}, delta : Deltas, arg : Statuses \cup {System, None},
   good : BOOLEAN]
  \cup [kind : {"tempo", "sysex"}, delta : Deltas, arg : {None}, good : {TRUE}]
  \cup [kind : {"port"}, delta : Deltas, arg : {0, 1}, good : {TRUE}]
  \cup [kind : {"name", "meta", "empty sysex", "end", "damage"},
        delta : Deltas, arg : {None}, good : {TRUE}]

ASSUME FileAssumption ==
  /\ Deltas \subseteq Nat
  /\ System \notin Statuses \cup {None}
  /\ None \notin Statuses
  /\ Items \subseteq Item
  /\ {MaxTracks, MaxItems} \subseteq Nat

VARIABLES
  ev,       \* s->ev, each with the track and place it was read from (history)
  tick, running, first, port, port_from_meta,    \* parse_track's locals
  parsing,  \* "chunk", "track", "done" or "refused"
  read      \* what was read of each track (history)

track == <<tick, running, first, port, port_from_meta>>
songVars == <<ev, track, parsing, read>>

SongInit ==
  /\ ev = <<>>
  /\ tick = 0 /\ running = None /\ first = 0 /\ port = 0
  /\ port_from_meta = FALSE
  /\ parsing = "chunk"
  /\ read = <<>>

Here == Len(read)

-----------------------------------------------------------------------------
(* parse(): a chunk that is not a track is stepped over. *)

BeginTrack ==
  /\ parsing = "chunk"
  /\ Len(read) < MaxTracks
  /\ read' = Append(read, <<>>)
  /\ tick' = 0 /\ running' = None
  /\ first' = Len(ev)
  /\ port' = 0 /\ port_from_meta' = FALSE
  /\ parsing' = "track"
  /\ UNCHANGED ev

(* The whole track gets its port. *)
Ported ==
  [k \in 1 .. Len(ev) |-> IF port # 0 /\ k > first
                          THEN [ev[k] EXCEPT !.port = port] ELSE ev[k]]

(* The bytes of the track are used up. *)
TrackEnds ==
  /\ parsing = "track"
  /\ ev' = Ported
  /\ parsing' = "chunk"
  /\ UNCHANGED <<track, read>>

(* Mutant of Before: a later event of the same time goes first. *)
BeforeReversed(e, g) == e.tick < g.tick \/ (e.tick = g.tick /\ e.order > g.order)

(* cmp. *)
Before(e, g) == e.tick < g.tick \/ (e.tick = g.tick /\ e.order < g.order)

(* What qsort may leave of the events: all of them, each before the next. *)
Sorted ==
  LET events == {ev[k] : k \in 1 .. Len(ev)}
  IN {s \in [1 .. Len(ev) -> events] :
        /\ {s[k] : k \in 1 .. Len(ev)} = events
        /\ \A k, l \in 1 .. Len(ev) : k < l => Before(s[k], s[l])}

(* The end of the file: a file with nothing to play is refused. *)
SongEnds ==
  /\ parsing = "chunk"
  /\ ev' \in Sorted
  /\ parsing' = IF ev # <<>> THEN "done" ELSE "refused"
  /\ UNCHANGED <<track, read>>

-----------------------------------------------------------------------------
(* parse_track, one event.  An event that stops the track gives it its
   port. *)

Reads(item) ==
  /\ parsing = "track"
  /\ read' = [read EXCEPT ![Here] = Append(@, item)]
  /\ tick' = tick + item.delta
  /\ UNCHANGED first

Push(item, status) ==
  ev' = Append(ev, [tick |-> tick', order |-> Len(ev), kind |-> item.kind,
                    status |-> status, port |-> 0,
                    from |-> <<Here, Len(read[Here]) + 1>>])

Stops(item) ==
  /\ Reads(item)
  /\ ev' = Ported
  /\ parsing' = "chunk"
  /\ UNCHANGED <<running, port, port_from_meta>>

(* A short message, its status given or the running one: dropped when a data
   byte is not one. *)
Message(item) ==
  /\ item.kind = "message"
  /\ item.arg = None => running # None
  /\ Reads(item)
  /\ running' = IF item.arg \in Statuses THEN item.arg ELSE running
  /\ IF item.good THEN Push(item, IF item.arg = None THEN running ELSE item.arg)
                  ELSE UNCHANGED ev
  /\ UNCHANGED <<port, port_from_meta, parsing>>

(* A data byte with no status to run on, and any other damage. *)
Damage(item) ==
  /\ \/ item.kind = "message" /\ item.arg = None /\ running = None
     \/ item.kind = "damage"
  /\ Stops(item)

EndOfTrack(item) ==
  /\ item.kind = "end"
  /\ Stops(item)

TempoOrSysex(item) ==
  /\ item.kind \in {"tempo", "sysex"}
  /\ Reads(item)
  /\ Push(item, None)
  /\ UNCHANGED <<running, port, port_from_meta, parsing>>

(* Mutant of Name: the track's name beats its port. *)
NameWins(item) ==
  /\ item.kind = "name"
  /\ Reads(item)
  /\ port' = 1
  /\ UNCHANGED <<ev, running, port_from_meta, parsing>>

(* "PartB" in a track's name, unless FF 21 has named its port. *)
Name(item) ==
  /\ item.kind = "name"
  /\ Reads(item)
  /\ port' = IF port_from_meta THEN port ELSE 1
  /\ UNCHANGED <<ev, running, port_from_meta, parsing>>

PortMeta(item) ==
  /\ item.kind = "port"
  /\ Reads(item)
  /\ port' = item.arg
  /\ port_from_meta' = TRUE
  /\ UNCHANGED <<ev, running, parsing>>

(* Any other meta event, and a sysex with nothing in it. *)
Passed(item) ==
  /\ item.kind \in {"meta", "empty sysex"}
  /\ Reads(item)
  /\ UNCHANGED <<ev, running, port, port_from_meta, parsing>>

Read(item) ==
  \/ Message(item) \/ Damage(item) \/ EndOfTrack(item) \/ TempoOrSysex(item)
  \/ Name(item) \/ PortMeta(item) \/ Passed(item)

(* The events read so far. *)
Positions == UNION {{t} \X (1 .. Len(read[t])) : t \in 1 .. Len(read)}

SongNext ==
  \/ BeginTrack \/ TrackEnds \/ SongEnds
  \/ \E item \in Items : Cardinality(Positions) < MaxItems /\ Read(item)

SongSpec == SongInit /\ [][SongNext]_songVars

-----------------------------------------------------------------------------

PlayedEvent == [tick : Nat, order : Nat, kind : {"message", "tempo", "sysex"},
                status : Statuses \cup {System, None}, port : {0, 1},
                from : Nat \X Nat]

SongTypeOK ==
  /\ ev \in Seq(PlayedEvent)
  /\ tick \in Nat /\ first \in Nat /\ port \in {0, 1}
  /\ running \in Statuses \cup {None}
  /\ port_from_meta \in BOOLEAN
  /\ parsing \in {"chunk", "track", "done", "refused"}
  /\ read \in Seq(Seq(Items))

(* The last of some places of a track. *)
Latest(places) == CHOOSE i \in places : \A j \in places : j <= i

(* The status that runs after the n-th event of track s. *)
RunsOn(s, n) ==
  LET given == {j \in 1 .. n : s[j].kind = "message" /\ s[j].arg \in Statuses}
  IN IF given = {} THEN None ELSE s[Latest(given)].arg

StatusAt(s, i) == IF s[i].arg # None THEN s[i].arg ELSE RunsOn(s, i - 1)

Playable(s, i) ==
  \/ s[i].kind \in {"tempo", "sysex"}
  \/ s[i].kind = "message" /\ s[i].good /\ StatusAt(s, i) # None

PortOf(s) ==
  LET explicit == {j \in 1 .. Len(s) : s[j].kind = "port"}
  IN IF explicit # {} THEN s[Latest(explicit)].arg
     ELSE IF \E j \in 1 .. Len(s) : s[j].kind = "name" THEN 1 ELSE 0

TickOf(s, i) ==
  LET sum[j \in 0 .. i] == IF j = 0 THEN 0 ELSE sum[j - 1] + s[j].delta
  IN sum[i]

(* The song is what the file says.  Nothing that can be played is lost and
   nothing is played twice ("a damaged track stops where the damage is;
   whatever parsed before it still plays, and the other tracks are
   untouched"), and every event is what its track says it is: its time the
   sum of the deltas before it, its status the one it runs on, through meta
   events and dropped messages, and its port the whole track's, wherever in
   the track it was named ("FF 21 is explicit, so it beats the name"). *)
NothingLost ==
  /\ {ev[k].from : k \in 1 .. Len(ev)} = {p \in Positions : Playable(read[p[1]], p[2])}
  /\ \A k, l \in 1 .. Len(ev) : k # l => ev[k].from # ev[l].from

TrackSays(k) ==
  LET s == read[ev[k].from[1]]
      i == ev[k].from[2]
  IN /\ ev[k].tick = TickOf(s, i)
     /\ ev[k].port = PortOf(s)
     /\ ev[k].kind = "message" => ev[k].status = StatusAt(s, i)

AsWritten ==
  parsing \in {"done", "refused"} => NothingLost /\ \A k \in 1 .. Len(ev) : TrackSays(k)

(* The song is in time order, and events of the same time in file order, a
   track's before the next one's: what RenderLoop asks of its songs. *)
InOrder ==
  parsing = "done" =>
    \A k, l \in 1 .. Len(ev) : k < l =>
      \/ ev[k].tick < ev[l].tick
      \/ /\ ev[k].tick = ev[l].tick
         /\ \/ ev[k].from[1] < ev[l].from[1]
            \/ ev[k].from[1] = ev[l].from[1] /\ ev[k].from[2] < ev[l].from[2]
=============================================================================
