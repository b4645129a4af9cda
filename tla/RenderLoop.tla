----------------------------- MODULE RenderLoop -----------------------------
(***************************************************************************)
(* render_loop.c: a song played into one or two engines, block by block.   *)
(* Each event is sent ahead of a block; with block-start timing positions  *)
(* are whole frames and each event's is cut to one, with nearest-block     *)
(* timing they are fractions.  Here a frame has Den parts, and the code's  *)
(* doubles are exact counts of them.  What the engines render, the mix and *)
(* the peak are left out.                                                  *)
(***************************************************************************)
EXTENDS Integers, Sequences

CONSTANTS
  Songs,          \* the songs: events in the order parse() leaves them
  Block,          \* frames in a block
  Den,            \* the parts a frame is counted in
  Smpte,          \* an SMPTE song's parts of a frame per tick, 0 for another
  DefaultTempo,   \* 500000
  TailTime        \* parts of a frame to play after the last event

Ports == 0 .. 1

(* A tempo change, a SysEx or a short message.  A tempo is counted in parts
   of a frame per tick; a tempo change to 0 is an event with no tempo. *)
Event == [tick : Nat, kind : {"short", "sysex", "tempo"}, tempo : Nat,
          port : Nat]

ASSUME RenderAssumption ==
  /\ Block \in Nat \ {0} /\ Den \in Nat \ {0}
  /\ {Smpte, TailTime} \subseteq Nat /\ DefaultTempo \in Nat \ {0}
  /\ \A s \in Songs :
       /\ s \in Seq(Event) /\ s # <<>>
       /\ \A k \in DOMAIN s : /\ k > 1 => s[k - 1].tick <= s[k].tick
                              /\ s[k].kind # "tempo" => s[k].tempo = 0

VARIABLES
  song, nports, nearest,    \* render_song's arguments
  ei, at, last_tick, per_tick,   \* the cursor (at_f with nearest-block timing)
  frame,      \* where the block starts
  sent,       \* res->sent
  frames,     \* res->frames
  pc,         \* "top", "send", "render" or "done"
  log,        \* what each engine was sent, and ahead of which frame (history)
  refused     \* the caller stopped the song (history)

args == <<song, nports, nearest>>
cursor == <<ei, at, last_tick, per_tick>>
vars == <<args, cursor, frame, sent, frames, pc, log, refused>>

(* song_frames_per_tick. *)
FramesPerTick(tempo) == IF Smpte > 0 THEN Smpte ELSE tempo

(* song_ports, and the renderers' use of it: an engine for port A, and one
   for every port past it. *)
Engines(s) == IF \E k \in DOMAIN s : s[k].port > 0 THEN 2 ELSE 1

Init ==
  /\ song \in Songs
  /\ nports = Engines(song)
  /\ nearest \in BOOLEAN
  /\ ei = 1 /\ at = 0 /\ last_tick = 0
  /\ per_tick = FramesPerTick(DefaultTempo)
  /\ frame = 0
  /\ sent = 0 /\ frames = 0
  /\ pc = "top"
  /\ log = [p \in Ports |-> <<>>]
  /\ refused = FALSE

(* Where the next event falls: parts of a frame with nearest-block timing,
   whole frames with block-start timing. *)
When ==
  LET delta == (song[ei].tick - last_tick) * per_tick
  IN IF nearest THEN at + delta ELSE at + delta \div Den

(* Whether it goes in ahead of this block (B / 2.0 is not cut). *)
InTime ==
  IF nearest THEN 2 * When < Den * (2 * frame + Block)
             ELSE When <= frame + Block

(* Mutant of Playing: the song is over with its last event. *)
PlayingNoTail == ei <= Len(song)

(* playing. *)
Playing ==
  \/ ei <= Len(song)
  \/ IF nearest THEN Den * frame < at + TailTime ELSE frame < at + TailTime \div Den

(* Mutant of Receivers: SysEx goes where its track's port says. *)
ReceiversOne(e) == {IF nports > 1 /\ e.port # 0 THEN 1 ELSE 0}

(* The engines an event is dispatched to: SysEx to each, others by port. *)
Receivers(e) ==
  IF e.kind = "sysex" THEN 0 .. nports - 1
  ELSE {IF nports > 1 /\ e.port # 0 THEN 1 ELSE 0}

-----------------------------------------------------------------------------

(* The top of the loop: block-start timing asks here whether the song is
   over. *)
Begin ==
  /\ pc = "top"
  /\ pc' = IF nearest \/ Playing THEN "send" ELSE "done"
  /\ UNCHANGED <<args, cursor, frame, sent, frames, log, refused>>

(* Mutants of SendTempo: the ticks up to it are counted again at the new
   tempo; it is not stepped over. *)
SendTempoTickKept ==
  /\ pc = "send" /\ ei <= Len(song) /\ InTime
  /\ song[ei].tempo # 0
  /\ at' = When
  /\ per_tick' = FramesPerTick(song[ei].tempo)
  /\ ei' = ei + 1
  /\ UNCHANGED <<args, last_tick, frame, sent, frames, pc, log, refused>>

SendTempoStays ==
  /\ pc = "send" /\ ei <= Len(song) /\ InTime
  /\ song[ei].tempo # 0
  /\ at' = When
  /\ last_tick' = song[ei].tick
  /\ per_tick' = FramesPerTick(song[ei].tempo)
  /\ UNCHANGED <<args, ei, frame, sent, frames, pc, log, refused>>

(* send_due, one event: a tempo change is followed. *)
SendTempo ==
  /\ pc = "send" /\ ei <= Len(song) /\ InTime
  /\ song[ei].tempo # 0
  /\ at' = When
  /\ last_tick' = song[ei].tick
  /\ per_tick' = FramesPerTick(song[ei].tempo)
  /\ ei' = ei + 1
  /\ UNCHANGED <<args, frame, sent, frames, pc, log, refused>>

(* Any other is dispatched. *)
SendMessage ==
  /\ pc = "send" /\ ei <= Len(song) /\ InTime
  /\ song[ei].tempo = 0
  /\ at' = When
  /\ last_tick' = song[ei].tick
  /\ log' = [p \in Ports |-> IF p \in Receivers(song[ei])
                             THEN Append(log[p], [ev |-> ei, ahead |-> frame])
                             ELSE log[p]]
  /\ sent' = sent + 1
  /\ ei' = ei + 1
  /\ UNCHANGED <<args, per_tick, frame, frames, pc, refused>>

(* None is left or in time: nearest-block timing asks here whether the song
   is over. *)
SendEnd ==
  /\ pc = "send"
  /\ ~(ei <= Len(song) /\ InTime)
  /\ pc' = IF ~nearest \/ Playing THEN "render" ELSE "done"
  /\ UNCHANGED <<args, cursor, frame, sent, frames, log, refused>>

(* The block is rendered and delivered. *)
Deliver ==
  /\ pc = "render"
  /\ frame' = frame + Block
  /\ frames' = frames + Block
  /\ pc' = "top"
  /\ UNCHANGED <<args, cursor, sent, log, refused>>

(* The caller stops the song: the block it refused is not counted. *)
Refuse ==
  /\ pc = "render"
  /\ refused' = TRUE
  /\ pc' = "done"
  /\ UNCHANGED <<args, cursor, frame, sent, frames, log>>

Next == Begin \/ SendTempo \/ SendMessage \/ SendEnd \/ Deliver \/ Refuse

(* One thread, and callbacks that return. *)
Spec == Init /\ [][Next]_vars /\ WF_vars(Next)

-----------------------------------------------------------------------------

TypeOK ==
  /\ song \in Seq(Event) /\ nports \in {1, 2} /\ nearest \in BOOLEAN
  /\ ei \in 1 .. Len(song) + 1
  /\ at \in Nat /\ last_tick \in Nat /\ per_tick \in Nat
  /\ frame \in Nat /\ sent \in 0 .. Len(song) /\ frames \in Nat
  /\ pc \in {"top", "send", "render", "done"}
  /\ log \in [Ports -> Seq([ev : 1 .. Len(song), ahead : Nat])]
  /\ refused \in BOOLEAN

(* When each event of a song happens, by the definition of a tempo map: the
   spans between events, each at the tempo last set before it. *)
TempoAt(s, k) ==
  LET set == {j \in 1 .. k - 1 : s[j].tempo # 0}
  IN IF set = {} THEN DefaultTempo
     ELSE s[CHOOSE j \in set : \A i \in set : i <= j].tempo

Span(s, k) ==
  FramesPerTick(TempoAt(s, k)) * (s[k].tick - (IF k = 1 THEN 0 ELSE s[k - 1].tick))

Time(s) ==
  LET time[k \in 0 .. Len(s)] == IF k = 0 THEN 0 ELSE time[k - 1] + Span(s, k)
  IN time

Heard == UNION {{log[p][i] : i \in 1 .. Len(log[p])} : p \in Ports}

(* Through any tempo changes, with nearest-block timing every event lands on
   the boundary nearest its time ("each lands on the boundary nearest it");
   with block-start timing none is late for the block it sounds in, and it is
   early by a block and a frame for each event before it at most: each is cut
   to a whole frame, and the next counted from there. *)
InItsBlock ==
  \A h \in Heard :
    IF nearest THEN /\ 2 * Time(song)[h.ev] < Den * (2 * h.ahead + Block)
                    /\ 2 * Time(song)[h.ev] >= Den * (2 * h.ahead - Block)
    ELSE /\ Den * h.ahead <= Time(song)[h.ev]
         /\ Time(song)[h.ev] < Den * (h.ahead + Block + h.ev)

(* Each engine has been sent the events that are its own, each once, in the
   song's order: one of two its port's, and both every SysEx. *)
Addressed(p, k) == song[k].tempo = 0 /\ p \in 0 .. nports - 1
                   /\ (song[k].kind = "sysex" \/ nports = 1
                       \/ (song[k].port # 0) = (p = 1))

Routed ==
  \A p \in Ports :
    /\ {log[p][i].ev : i \in 1 .. Len(log[p])}
         = {k \in 1 .. ei - 1 : Addressed(p, k)}
    /\ \A i, j \in 1 .. Len(log[p]) : i < j => log[p][i].ev < log[p][j].ev

(* A song that was not stopped has sent every event and played its tail out,
   and no more than a block past it. *)
End == IF nearest THEN at + TailTime ELSE Den * (at + TailTime \div Den)

PlaysOut ==
  pc = "done" /\ ~refused =>
    /\ ei = Len(song) + 1
    /\ Den * frames >= End
    /\ Den * frames <= End + Den * Block

=============================================================================
