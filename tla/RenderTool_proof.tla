--------------------------- MODULE RenderTool_proof ---------------------------
(***************************************************************************)
(* Proofs about the renderers, for any songs, outputs, buffers and card:   *)
(* what a song comes to arrives in the file and at the device.  The        *)
(* invariant says what the file, waveOut's ring and the card hold at any   *)
(* time; of the loop it uses what is proved first, of RenderLoop alone:    *)
(* every event goes to its engine once and in order, and a song plays to   *)
(* the end of its tail and no more than a block past it.  Last, of the     *)
(* files: the readers make of any song, and of any file of tone names,     *)
(* what it says.                                                           *)
(***************************************************************************)
EXTENDS RenderTool, SongFile, NameTables, WellFoundedInduction, TLAPS

(* The render loop. *)

LEMMA NatProduct == \A a, b \in Nat : a * b \in Nat
  BY SMT

LEMMA NatQuotient == \A a \in Nat, d \in Nat \ {0} : a \div d \in Nat
  BY SMT

(* A set of numbers that is not empty has a least one. *)
LEMMA Least ==
  ASSUME NEW S, S \subseteq Nat, S # {}
  PROVE  \E x \in S : \A y \in S : ~ y < x
  <1>1. \E x \in S : \A y \in S : ~ (<<y, x>> \in OpToRel(<, Nat))
    BY NatLessThanWellFounded, WFMin
  <1>2. \A x, y \in S : y < x => <<y, x>> \in OpToRel(<, Nat)
    BY Zenon DEF OpToRel
  <1> QED
    BY <1>1, <1>2, Zenon

LEMMA SetInduction ==
  ASSUME NEW S, 0 \in S, \A n \in Nat : n \in S => n + 1 \in S
  PROVE  Nat \subseteq S
  <1> DEFINE T == Nat \ S
  <1> SUFFICES ASSUME T # {} PROVE FALSE
    OBVIOUS
  <1>1. PICK x \in T : \A y \in T : ~ y < x
    BY Least
  <1> QED
    BY <1>1

(* How far into the song, and since when. *)
Counted ==
  /\ song \in Songs
  /\ sent < ei
  /\ frames = frame
  /\ refused => pc = "done"
  /\ last_tick = IF ei = 1 THEN 0 ELSE song[ei - 1].tick

TailFrames == TailTime \div Den

(* The next event is not due in a block that was rendered already. *)
NotPassed ==
  IF nearest THEN 2 * When >= Den * (2 * frame - Block) ELSE When >= frame

(* With no event left, the frame is past the tail by a block at most. *)
NotOver ==
  IF nearest THEN Den * frame <= at + TailTime + Den * Block
             ELSE frame <= at + TailFrames + Block

Ahead ==
  /\ pc = "top" => IF ei <= Len(song) THEN NotPassed ELSE NotOver
  /\ pc = "send" => IF ei <= Len(song) THEN NotPassed
                    ELSE IF nearest THEN NotOver ELSE frame <= at + TailFrames
  /\ pc = "render" => IF ei <= Len(song) THEN ~InTime
                      ELSE IF nearest THEN Den * frame < at + TailTime
                                      ELSE frame <= at + TailFrames
  /\ PlaysOut

LoopInv == TypeOK /\ Counted /\ Ahead

LEMMA SongFacts ==
  ASSUME TypeOK, Counted
  PROVE  /\ song # <<>> /\ Len(song) \in Nat \ {0}
         /\ \A k \in 1 .. Len(song) :
              /\ song[k] \in Event
              /\ song[k].tick \in Nat /\ song[k].tempo \in Nat
              /\ song[k].kind \in {"short", "sysex", "tempo"}
              /\ song[k].port \in Nat
              /\ k > 1 => song[k - 1].tick <= song[k].tick
         /\ Block \in Nat \ {0} /\ Den \in Nat \ {0} /\ TailTime \in Nat
         /\ Smpte \in Nat /\ DefaultTempo \in Nat \ {0} /\ TailFrames \in Nat
  <1>1. /\ song \in Seq(Event) /\ song # <<>>
        /\ \A k \in 1 .. Len(song) : k > 1 => song[k - 1].tick <= song[k].tick
    BY RenderAssumption DEF Counted
  <1>2. /\ Block \in Nat \ {0} /\ Den \in Nat \ {0} /\ TailTime \in Nat
        /\ Smpte \in Nat /\ DefaultTempo \in Nat \ {0}
    BY RenderAssumption
  <1>3. TailFrames \in Nat
    BY <1>2, NatQuotient DEF TailFrames
  <1>4. \A k \in 1 .. Len(song) : song[k] \in Event
    BY <1>1
  <1>5. Len(song) \in Nat \ {0}
    BY <1>1
  <1> QED
    BY <1>1, <1>2, <1>3, <1>4, <1>5 DEF Event

(* The next event is never before the last one sent. *)
LEMMA WhenLater ==
  ASSUME TypeOK, Counted, ei <= Len(song)
  PROVE  When \in Nat /\ When >= at
  <1> DEFINE ticks == song[ei].tick - last_tick
  <1>1. ei \in 1 .. Len(song) /\ last_tick \in Nat /\ per_tick \in Nat /\ at \in Nat
        /\ nearest \in BOOLEAN
    BY SongFacts DEF TypeOK
  <1>2. song[ei].tick \in Nat /\ last_tick <= song[ei].tick
    <2>1. CASE ei = 1
      BY <1>1, <2>1, SongFacts DEF Counted
    <2>2. CASE ei # 1
      BY <1>1, <2>2, SongFacts DEF Counted
    <2> QED BY <2>1, <2>2
  <1>3. ticks \in Nat
    BY <1>1, <1>2
  <1>4. ticks * per_tick \in Nat
    BY <1>1, <1>3, NatProduct
  <1>5. (ticks * per_tick) \div Den \in Nat
    BY <1>4, NatQuotient, SongFacts
  <1> QED
    BY <1>1, <1>4, <1>5 DEF When

LEMMA LoopInit == Init => LoopInv
  <1> SUFFICES ASSUME Init PROVE LoopInv
    OBVIOUS
  <1>1. song \in Seq(Event) /\ song # <<>> /\ Len(song) \in Nat \ {0}
    BY RenderAssumption DEF Init
  <1>2. TypeOK
    <2>1. per_tick \in Nat
      BY RenderAssumption DEF Init, FramesPerTick
    <2>2. nports \in {1, 2}
      BY DEF Init, Engines
    <2>3. log \in [Ports -> Seq([ev : 1 .. Len(song), ahead : Nat])]
      BY DEF Init
    <2>4. refused \in BOOLEAN /\ nearest \in BOOLEAN
      BY DEF Init
    <2>5. /\ ei \in 1 .. Len(song) + 1 /\ sent \in 0 .. Len(song)
          /\ at \in Nat /\ last_tick \in Nat /\ frame \in Nat /\ frames \in Nat
      BY <1>1 DEF Init
    <2> QED
      BY <1>1, <2>1, <2>2, <2>3, <2>4, <2>5 DEF Init, TypeOK
  <1>3. Counted
    BY DEF Init, Counted
  <1>4. ei <= Len(song) /\ When \in Nat
    BY <1>1, <1>2, <1>3, WhenLater DEF Init
  <1>5. NotPassed
    <2>1. Den * Block \in Nat
      BY <1>2, <1>3, SongFacts, NatProduct
    <2>2. Den * (2 * frame - Block) = -(Den * Block)
      BY <1>2, <1>3, SongFacts DEF Init
    <2> QED
      BY <1>4, <2>1, <2>2 DEF Init, NotPassed
  <1> QED
    BY <1>2, <1>3, <1>4, <1>5 DEF LoopInv, Ahead, Init, PlaysOut

(* An event was sent: the next one falls no earlier than it. *)
LEMMA SentKeepsAhead ==
  ASSUME LoopInv, TypeOK', Counted',
         pc = "send", ei <= Len(song), at' = When, ei' = ei + 1,
         UNCHANGED <<args, frame, pc, refused>>
  PROVE  Ahead'
  <1>a. TypeOK /\ Counted /\ Ahead
    BY DEF LoopInv
  <1>b. /\ song' = song /\ nearest' = nearest /\ frame' = frame /\ pc' = pc
        /\ refused' = refused
    BY DEF args
  <1>1. NotPassed /\ When \in Nat
    BY <1>a, WhenLater DEF Ahead
  <1>2. /\ Block \in Nat \ {0} /\ Den \in Nat \ {0} /\ TailTime \in Nat /\ TailFrames \in Nat
        /\ Len(song) \in Nat /\ ei \in 1 .. Len(song) /\ frame \in Nat
        /\ \A k \in 1 .. Len(song) :
             song[k].tick \in Nat /\ (k > 1 => song[k - 1].tick <= song[k].tick)
    <2>1. ei \in Nat /\ ei >= 1 /\ frame \in Nat
      BY <1>a, SongFacts DEF TypeOK
    <2> QED
      BY <1>a, <2>1, SongFacts
  <1>c. Den * (2 * frame - Block) \in Int
    BY <1>2
  <1>3. CASE ei' <= Len(song')
    <2> DEFINE ticks == song[ei + 1].tick - song[ei].tick
    <2>1. ticks \in Nat
      <3>1. ei + 1 \in 1 .. Len(song) /\ ei + 1 > 1 /\ (ei + 1) - 1 = ei
        BY <1>b, <1>2, <1>3
      <3> QED BY <1>2, <3>1
    <2>2. per_tick' \in Nat /\ at' \in Nat
      BY DEF TypeOK
    <2>3. ticks * per_tick' \in Nat
      BY <2>1, <2>2, NatProduct
    <2>4. (ticks * per_tick') \div Den \in Nat
      BY <1>2, <2>3, NatQuotient
    <2>5. song'[ei'].tick - last_tick' = ticks
      BY <1>b, <1>2, <1>3 DEF Counted
    <2>6. When' = IF nearest THEN at' + ticks * per_tick'
                             ELSE at' + (ticks * per_tick') \div Den
      BY <1>b, <2>5 DEF When
    <2>7. When' \in Nat /\ When' >= When
      BY <1>1, <2>2, <2>3, <2>4, <2>6
    <2>8. NotPassed'
      <3>1. \A l \in Int, w, v \in Nat : 2 * w >= l /\ v >= w => 2 * v >= l
        OBVIOUS
      <3>2. CASE nearest
        <4>1. 2 * When >= Den * (2 * frame - Block)
          BY <1>1, <3>2 DEF NotPassed
        <4>2. 2 * When' >= Den * (2 * frame - Block)
          BY <1>c, <1>1, <2>7, <3>1, <4>1
        <4> QED BY <1>b, <3>2, <4>2 DEF NotPassed
      <3>3. CASE ~nearest
        BY <1>b, <1>1, <1>2, <2>7, <3>3 DEF NotPassed
      <3> QED BY <3>2, <3>3
    <2> QED
      BY <1>b, <1>3, <2>8 DEF Ahead, PlaysOut
  <1>4. CASE ~(ei' <= Len(song'))
    <2>1. CASE nearest
      <3>1. 2 * at' >= Den * (2 * frame - Block)
        BY <1>1, <2>1 DEF NotPassed
      <3>2. Den * (2 * frame - Block) = 2 * (Den * frame) - Den * Block
        BY <1>2
      <3>3. Den * frame \in Nat /\ Den * Block \in Nat
        BY <1>2, NatProduct
      <3>4. \A a, b, t, w \in Nat : 2 * w >= 2 * a - b => a <= w + t + b
        OBVIOUS
      <3>5. Den * frame <= at' + TailTime + Den * Block
        BY <1>1, <1>2, <3>1, <3>2, <3>3, <3>4
      <3> QED
        BY <1>b, <1>4, <2>1, <3>5 DEF Ahead, PlaysOut, NotOver
    <2>2. CASE ~nearest
      BY <1>b, <1>1, <1>2, <1>4, <2>2 DEF Ahead, PlaysOut, NotPassed
    <2> QED BY <2>1, <2>2
  <1> QED BY <1>3, <1>4

(* Types and counts, without the log. *)
LEMMA LoopTypes ==
  ASSUME TypeOK, Counted, Next
  PROVE  /\ song' = song /\ nports' = nports /\ nearest' = nearest
         /\ ei' \in 1 .. Len(song) + 1
         /\ at' \in Nat /\ last_tick' \in Nat /\ per_tick' \in Nat
         /\ frame' \in Nat /\ sent' \in 0 .. Len(song) /\ frames' \in Nat
         /\ pc' \in {"top", "send", "render", "done"}
         /\ refused' \in BOOLEAN
         /\ Counted'
  <1>1. /\ Len(song) \in Nat \ {0} /\ Block \in Nat \ {0}
        /\ ei \in 1 .. Len(song) + 1 /\ at \in Nat /\ last_tick \in Nat /\ per_tick \in Nat
        /\ frame \in Nat /\ sent \in 0 .. Len(song) /\ frames \in Nat
        /\ pc \in {"top", "send", "render", "done"} /\ refused \in BOOLEAN
    BY SongFacts DEF TypeOK
  <1>2. ei <= Len(song) => /\ When \in Nat /\ song[ei].tick \in Nat /\ ei \in 1 .. Len(song)
                           /\ FramesPerTick(song[ei].tempo) \in Nat
    <2> SUFFICES ASSUME ei <= Len(song)
                 PROVE  /\ When \in Nat /\ song[ei].tick \in Nat /\ ei \in 1 .. Len(song)
                        /\ FramesPerTick(song[ei].tempo) \in Nat
      OBVIOUS
    <2>1. ei \in 1 .. Len(song)
      BY <1>1
    <2>2. song[ei].tick \in Nat /\ song[ei].tempo \in Nat /\ Smpte \in Nat
      BY <2>1, SongFacts
    <2> QED BY <2>1, <2>2, WhenLater DEF FramesPerTick
  <1>3. CASE Begin
    BY <1>1, <1>3 DEF Begin, args, cursor, Counted
  <1>4. CASE SendTempo
    BY <1>1, <1>2, <1>4 DEF SendTempo, args, Counted
  <1>5. CASE SendMessage
    <2>1. /\ ei <= Len(song) /\ at' = When /\ last_tick' = song[ei].tick
          /\ sent' = sent + 1 /\ ei' = ei + 1 /\ song' = song /\ nports' = nports
          /\ nearest' = nearest /\ per_tick' = per_tick /\ frame' = frame
          /\ frames' = frames /\ pc' = pc /\ refused' = refused
      BY <1>5 DEF SendMessage, args
    <2> QED
      BY <1>1, <1>2, <2>1 DEF Counted
  <1>6. CASE SendEnd
    BY <1>1, <1>6 DEF SendEnd, args, cursor, Counted
  <1>7. CASE Deliver
    BY <1>1, <1>7 DEF Deliver, args, cursor, Counted
  <1>8. CASE Refuse
    BY <1>1, <1>8 DEF Refuse, args, cursor, Counted
  <1> QED
    BY <1>3, <1>4, <1>5, <1>6, <1>7, <1>8 DEF Next

Queued == [ev : 1 .. Len(song), ahead : Nat]

LEMMA LogTypes ==
  ASSUME TypeOK, Next
  PROVE  log' \in [Ports -> Seq(Queued)]
  <1>1. log \in [Ports -> Seq(Queued)] /\ frame \in Nat
    BY DEF TypeOK, Queued
  <1>2. CASE UNCHANGED log
    BY <1>1, <1>2
  <1>3. CASE SendMessage
    <2>1. [ev |-> ei, ahead |-> frame] \in Queued
      BY <1>1, <1>3 DEF SendMessage, Queued, TypeOK
    <2>2. \A p \in Ports : log[p] \in Seq(Queued)
                           /\ Append(log[p], [ev |-> ei, ahead |-> frame]) \in Seq(Queued)
      BY <1>1, <2>1
    <2> QED
      BY <1>3, <2>2 DEF SendMessage
  <1> QED
    BY <1>2, <1>3 DEF Next, Begin, SendTempo, SendEnd, Deliver, Refuse

LEMMA LoopTypeNext ==
  ASSUME LoopInv, Next
  PROVE  TypeOK' /\ Counted'
  <1>1. TypeOK /\ Counted
    BY DEF LoopInv
  <1>2. log' \in [Ports -> Seq(Queued)] /\ Counted'
    BY <1>1, LoopTypes, LogTypes
  <1> QED
    BY <1>1, <1>2, LoopTypes DEF TypeOK, Queued

(* Block-start timing asks whether the song is over, at the top. *)
LEMMA BeginKeepsAhead ==
  ASSUME LoopInv, Begin, TypeOK', Counted'
  PROVE  Ahead'
  <1> DEFINE floor == at + TailFrames
  <1>a. TypeOK /\ Counted /\ Ahead
    BY DEF LoopInv
  <1>b. /\ Block \in Nat \ {0} /\ Den \in Nat \ {0} /\ TailTime \in Nat /\ TailFrames \in Nat
        /\ ei \in 1 .. Len(song) + 1 /\ Len(song) \in Nat
        /\ at \in Nat /\ frame \in Nat /\ frames = frame
    BY <1>a, SongFacts DEF TypeOK, Counted
  <1>c. /\ floor \in Nat /\ Den * floor \in Nat
        /\ Den * (floor + Block) = Den * floor + Den * Block
        /\ Den * frame \in Nat /\ Den * Block \in Nat
        /\ Den * (frame + Block) = Den * frame + Den * Block
    BY <1>b, NatProduct
  <1>1. /\ song' = song /\ nearest' = nearest /\ ei' = ei /\ at' = at /\ frame' = frame
        /\ frames' = frames /\ refused' = refused /\ pc = "top"
        /\ last_tick' = last_tick /\ per_tick' = per_tick
        /\ pc' = IF nearest \/ Playing THEN "send" ELSE "done"
    BY DEF Begin, args, cursor
  <1>2. (NotPassed' <=> NotPassed) /\ (NotOver' <=> NotOver) /\ End' = End
    BY <1>1 DEF NotPassed, NotOver, End, When
  <1>3. CASE nearest
    BY <1>a, <1>1, <1>2, <1>3 DEF Ahead, PlaysOut
  <1>4. CASE ~nearest /\ Playing
    BY <1>a, <1>b, <1>1, <1>2, <1>4 DEF Ahead, PlaysOut, Playing, TailFrames
  <1>5. CASE ~nearest /\ ~Playing
    <2>1. /\ ei = Len(song) + 1 /\ frame >= floor /\ frame <= floor + Block
      BY <1>a, <1>b, <1>1, <1>5 DEF Ahead, Playing, NotOver, TailFrames
    <2>2. Den * floor <= Den * frame /\ Den * frame <= Den * (floor + Block)
      BY <1>b, <1>c, <2>1
    <2> QED
      BY <1>b, <1>c, <1>1, <1>2, <1>5, <2>1, <2>2 DEF Ahead, PlaysOut, End, TailFrames
  <1> QED
    BY <1>3, <1>4, <1>5

(* Nearest-block timing asks after the block's events. *)
LEMMA EndKeepsAhead ==
  ASSUME LoopInv, SendEnd, TypeOK', Counted'
  PROVE  Ahead'
  <1>a. TypeOK /\ Counted /\ Ahead
    BY DEF LoopInv
  <1>b. /\ Block \in Nat \ {0} /\ Den \in Nat \ {0} /\ TailTime \in Nat /\ TailFrames \in Nat
        /\ ei \in 1 .. Len(song) + 1 /\ Len(song) \in Nat
        /\ at \in Nat /\ frame \in Nat /\ frames = frame
    BY <1>a, SongFacts DEF TypeOK, Counted
  <1>c. /\ Den * frame \in Nat /\ Den * Block \in Nat
        /\ Den * (frame + Block) = Den * frame + Den * Block
    BY <1>b, NatProduct
  <1>1. /\ song' = song /\ nearest' = nearest /\ ei' = ei /\ at' = at /\ frame' = frame
        /\ frames' = frames /\ refused' = refused /\ pc = "send"
        /\ last_tick' = last_tick /\ per_tick' = per_tick
        /\ ~(ei <= Len(song) /\ InTime)
        /\ pc' = IF ~nearest \/ Playing THEN "render" ELSE "done"
    BY DEF SendEnd, args, cursor
  <1>2. (InTime' <=> InTime) /\ End' = End
    BY <1>1 DEF InTime, End, When
  <1>3. CASE ~nearest \/ Playing
    BY <1>a, <1>b, <1>1, <1>2, <1>3 DEF Ahead, PlaysOut, Playing
  <1>4. CASE nearest /\ ~Playing
    BY <1>a, <1>b, <1>c, <1>1, <1>2, <1>4 DEF Ahead, PlaysOut, Playing, NotOver, End
  <1> QED
    BY <1>3, <1>4

(* A block later, what was not in time then is not passed. *)
LEMMA DeliverKeepsAhead ==
  ASSUME LoopInv, Deliver, TypeOK', Counted'
  PROVE  Ahead'
  <1>a. TypeOK /\ Counted /\ Ahead
    BY DEF LoopInv
  <1>b. /\ Block \in Nat \ {0} /\ Den \in Nat \ {0} /\ TailTime \in Nat /\ TailFrames \in Nat
        /\ ei \in 1 .. Len(song) + 1 /\ Len(song) \in Nat
        /\ at \in Nat /\ frame \in Nat /\ frames = frame
    BY <1>a, SongFacts DEF TypeOK, Counted
  <1>c. /\ Den * frame \in Nat /\ Den * Block \in Nat
        /\ Den * (frame + Block) = Den * frame + Den * Block
    BY <1>b, NatProduct
  <1>1. /\ song' = song /\ nearest' = nearest /\ ei' = ei /\ at' = at
        /\ frame' = frame + Block /\ pc = "render" /\ pc' = "top"
        /\ last_tick' = last_tick /\ per_tick' = per_tick
    BY DEF Deliver, args, cursor
  <1>2. When' = When
    BY <1>1 DEF When
  <1>3. CASE ei <= Len(song)
    <2>1. When \in Nat /\ ~InTime
      BY <1>a, <1>1, <1>3, WhenLater DEF Ahead
    <2>2. CASE nearest
      <3>1. 2 * frame + Block = 2 * (frame + Block) - Block
        BY <1>b
      <3>2. 2 * When >= Den * (2 * frame + Block)
        <4>1. Den * (2 * frame + Block) \in Nat
          BY <1>b, NatProduct
        <4> QED BY <2>1, <2>2, <4>1 DEF InTime
      <3> QED
        BY <1>1, <1>2, <1>3, <2>2, <3>1, <3>2 DEF Ahead, PlaysOut, NotPassed
    <2>3. CASE ~nearest
      BY <1>b, <1>1, <1>2, <1>3, <2>1, <2>3 DEF Ahead, PlaysOut, NotPassed, InTime
    <2> QED BY <2>2, <2>3
  <1>4. CASE ~(ei <= Len(song))
    BY <1>a, <1>b, <1>c, <1>1, <1>4 DEF Ahead, PlaysOut, NotOver
  <1> QED
    BY <1>3, <1>4

LEMMA LoopNext == LoopInv /\ [Next]_vars => LoopInv'
  <1> SUFFICES ASSUME LoopInv, [Next]_vars PROVE LoopInv'
    OBVIOUS
  <1>1. CASE UNCHANGED vars
    BY <1>1 DEF LoopInv, TypeOK, Counted, Ahead, PlaysOut, NotPassed, NotOver, InTime, When,
                End, vars, args, cursor
  <1>2. CASE Next
    <2>1. TypeOK /\ Counted /\ Ahead /\ TypeOK' /\ Counted'
      BY <1>2, LoopTypeNext DEF LoopInv
    <2>3. CASE Begin
      BY <2>1, <2>3, BeginKeepsAhead DEF LoopInv
    <2>4. CASE SendTempo
      BY <2>1, <2>4, SentKeepsAhead DEF LoopInv, SendTempo
    <2>5. CASE SendMessage
      BY <2>1, <2>5, SentKeepsAhead DEF LoopInv, SendMessage
    <2>6. CASE SendEnd
      BY <2>1, <2>6, EndKeepsAhead DEF LoopInv
    <2>7. CASE Deliver
      BY <2>1, <2>7, DeliverKeepsAhead DEF LoopInv
    <2>8. CASE Refuse
      BY <2>1, <2>8 DEF LoopInv, Refuse, Ahead, PlaysOut
    <2> QED
      BY <1>2, <2>3, <2>4, <2>5, <2>6, <2>7, <2>8 DEF Next
  <1> QED
    BY <1>1, <1>2

-----------------------------------------------------------------------------
(* Each engine's own events. *)

LEMMA ReceiversAddressed ==
  ASSUME TypeOK, Counted, ei <= Len(song), song[ei].tempo = 0, NEW p \in Ports
  PROVE  p \in Receivers(song[ei]) <=> Addressed(p, ei)
  <1>1. /\ ei \in 1 .. Len(song) /\ nports \in {1, 2} /\ p \in {0, 1}
        /\ song[ei].port \in Nat
    BY SongFacts DEF TypeOK, Ports
  <1> QED
    BY <1>1 DEF Receivers, Addressed

(* One engine's log with one more event of its own, or with none. *)
RoutedTo(p) ==
  /\ {log[p][i].ev : i \in 1 .. Len(log[p])} = {k \in 1 .. ei - 1 : Addressed(p, k)}
  /\ \A i, j \in 1 .. Len(log[p]) : i < j => log[p][i].ev < log[p][j].ev

LEMMA RoutedMessage ==
  ASSUME TypeOK, Counted, SendMessage, NEW p \in Ports, RoutedTo(p)
  PROVE  RoutedTo(p)'
  <1> DEFINE new == [ev |-> ei, ahead |-> frame]
  <1>1. /\ ei \in 1 .. Len(song) /\ ei' = ei + 1 /\ song[ei].tempo = 0
        /\ frame \in Nat /\ song' = song /\ nports' = nports /\ Len(song) \in Nat
    BY SongFacts DEF SendMessage, TypeOK, args
  <1>2. \A k : Addressed(p, k)' <=> Addressed(p, k)
    BY <1>1 DEF Addressed
  <1>3. log[p] \in Seq(Queued)
    BY DEF TypeOK, Queued
  <1>4. p \in Receivers(song[ei]) <=> Addressed(p, ei)
    BY <1>1, ReceiversAddressed
  <1>5. \A i \in 1 .. Len(log[p]) : log[p][i].ev \in 1 .. ei - 1
    BY DEF RoutedTo
  <1>6. log'[p] = IF p \in Receivers(song[ei]) THEN Append(log[p], new) ELSE log[p]
    BY DEF SendMessage
  <1>7. CASE Addressed(p, ei)
    <2>1. /\ log'[p] = Append(log[p], new) /\ Len(log[p]) \in Nat
          /\ Len(log'[p]) = Len(log[p]) + 1
          /\ \A i \in 1 .. Len(log[p]) : log'[p][i] = log[p][i]
          /\ log'[p][Len(log[p]) + 1] = new
      BY <1>1, <1>3, <1>4, <1>6, <1>7 DEF Queued
    <2>2. \A i \in 1 .. Len(log'[p]) :
            \/ i \in 1 .. Len(log[p]) /\ log'[p][i].ev = log[p][i].ev
            \/ i = Len(log[p]) + 1 /\ log'[p][i].ev = ei
      BY <2>1
    <2>3. {log'[p][i].ev : i \in 1 .. Len(log'[p])}
            = {log[p][i].ev : i \in 1 .. Len(log[p])} \cup {ei}
      <3>1. 1 .. Len(log'[p]) = (1 .. Len(log[p])) \cup {Len(log[p]) + 1}
        BY <2>1
      <3>2. log'[p][Len(log[p]) + 1].ev = ei
        BY <2>1
      <3>3. \A i \in 1 .. Len(log[p]) : log'[p][i].ev = log[p][i].ev
        BY <2>1
      <3>4. \A x : (\E i \in 1 .. Len(log'[p]) : x = log'[p][i].ev)
                    <=> (\E i \in 1 .. Len(log[p]) : x = log[p][i].ev) \/ x = ei
        BY <3>1, <3>2, <3>3, Zenon
      <3> QED
        BY <3>4, Zenon
    <2>4. {k \in 1 .. ei' - 1 : Addressed(p, k)'}
            = {k \in 1 .. ei - 1 : Addressed(p, k)} \cup {ei}
      BY <1>1, <1>2, <1>7
    <2>5. \A i, j \in 1 .. Len(log'[p]) : i < j => log'[p][i].ev < log'[p][j].ev
      BY <1>1, <1>5, <2>1, <2>2 DEF RoutedTo
    <2> QED
      BY <2>3, <2>4, <2>5 DEF RoutedTo
  <1>8. CASE ~Addressed(p, ei)
    <2>1. log'[p] = log[p]
      BY <1>4, <1>6, <1>8
    <2>2. {k \in 1 .. ei' - 1 : Addressed(p, k)'} = {k \in 1 .. ei - 1 : Addressed(p, k)}
      BY <1>1, <1>2, <1>8
    <2> QED
      BY <2>1, <2>2 DEF RoutedTo
  <1> QED
    BY <1>7, <1>8

LEMMA RoutedTempo ==
  ASSUME TypeOK, Counted, SendTempo, NEW p \in Ports, RoutedTo(p)
  PROVE  RoutedTo(p)'
  <1>1. /\ ei \in 1 .. Len(song) /\ ei' = ei + 1 /\ song[ei].tempo # 0
        /\ song' = song /\ nports' = nports /\ log' = log
    BY SongFacts DEF SendTempo, TypeOK, args
  <1>2. \A k : Addressed(p, k)' <=> Addressed(p, k)
    BY <1>1 DEF Addressed
  <1>3. ~Addressed(p, ei)
    BY <1>1 DEF Addressed
  <1>4. {k \in 1 .. ei' - 1 : Addressed(p, k)'} = {k \in 1 .. ei - 1 : Addressed(p, k)}
    BY <1>1, <1>2, <1>3
  <1> QED
    BY <1>1, <1>4 DEF RoutedTo

LEMMA RoutedNext ==
  ASSUME TypeOK, Counted, Routed, [Next]_vars
  PROVE  Routed'
  <1> SUFFICES ASSUME NEW p \in Ports PROVE RoutedTo(p)'
    BY DEF Routed, RoutedTo
  <1>1. RoutedTo(p)
    BY DEF Routed, RoutedTo
  <1>2. CASE SendMessage
    BY <1>1, <1>2, RoutedMessage
  <1>3. CASE SendTempo
    BY <1>1, <1>3, RoutedTempo
  <1>4. CASE UNCHANGED <<song, nports, ei, log>>
    BY <1>1, <1>4 DEF RoutedTo, Addressed
  <1> QED
    BY <1>2, <1>3, <1>4
       DEF Next, Begin, SendEnd, Deliver, Refuse, vars, args, cursor

LEMMA RoutedInit == Init => Routed
  <1> SUFFICES ASSUME Init, NEW p \in Ports PROVE RoutedTo(p)
    BY DEF Routed, RoutedTo
  <1>1. log[p] = <<>> /\ ei = 1
    BY DEF Init
  <1>2. 1 .. Len(log[p]) = {} /\ 1 .. ei - 1 = {}
    BY <1>1
  <1> QED
    BY <1>2 DEF RoutedTo

-----------------------------------------------------------------------------
(* When an event goes, and when it should. *)

(* Sums are what their recursive definition says, and natural numbers. *)
Sums(f, n, D) == f = [k \in 0 .. n |-> IF k = 0 THEN 0 ELSE f[k - 1] + D[k]]

LEMMA SumsExist ==
  ASSUME NEW D, NEW N \in Nat
  PROVE  \E f : Sums(f, N, D)
  <1> DEFINE S == {n \in Nat : \E f : Sums(f, n, D)}
  <1>1. 0 \in S
    <2> DEFINE f == [k \in 0 .. 0 |-> 0]
    <2>1. Sums(f, 0, D)
      BY DEF Sums
    <2> QED
      BY <2>1
  <1>2. ASSUME NEW n \in Nat, n \in S
        PROVE  n + 1 \in S
    <2>1. PICK f : Sums(f, n, D)
      BY <1>2
    <2> DEFINE g == [k \in 0 .. n + 1 |-> IF k = n + 1 THEN f[n] + D[n + 1] ELSE f[k]]
    <2>2. Sums(g, n + 1, D)
      <3>1. ASSUME NEW k \in 0 .. n + 1
            PROVE  g[k] = IF k = 0 THEN 0 ELSE g[k - 1] + D[k]
        <4>1. CASE k = n + 1
          BY <4>1
        <4>2. CASE k \in 0 .. n
          <5>1. f[k] = IF k = 0 THEN 0 ELSE f[k - 1] + D[k]
            BY <2>1, <4>2 DEF Sums
          <5> QED
            BY <4>2, <5>1
        <4> QED
          BY <4>1, <4>2
      <3> QED
        BY <3>1 DEF Sums
    <2> QED
      BY <2>2
  <1>3. Nat \subseteq S
    <2> HIDE DEF S
    <2> QED BY <1>1, <1>2, SetInduction
  <1> QED
    BY <1>3

LEMMA SumsNatural ==
  ASSUME NEW D, NEW N \in Nat, \A k \in 1 .. N : D[k] \in Nat, NEW f, Sums(f, N, D)
  PROVE  \A k \in 0 .. N : f[k] \in Nat
  <1> DEFINE S == {k \in Nat : k <= N => f[k] \in Nat}
  <1>1. 0 \in S
    BY DEF Sums
  <1>2. \A n \in Nat : n \in S => n + 1 \in S
    BY DEF Sums
  <1>3. Nat \subseteq S
    <2> HIDE DEF S
    <2> QED BY <1>1, <1>2, SetInduction
  <1> QED
    BY <1>3

(* The time of an event is a span after that of the event before. *)
LEMMA SpanNatural ==
  ASSUME NEW s \in Songs, NEW k \in 1 .. Len(s)
  PROVE  Span(s, k) \in Nat
  <1>1. s \in Seq(Event) /\ \A j \in 1 .. Len(s) : s[j].tick \in Nat /\ s[j].tempo \in Nat
    <2>1. s \in Seq(Event) /\ \A j \in 1 .. Len(s) : s[j] \in Event
      BY RenderAssumption
    <2> QED
      BY <2>1 DEF Event
  <1>2. k > 1 => s[k - 1].tick <= s[k].tick
    BY RenderAssumption, <1>1
  <1>3. TempoAt(s, k) \in Nat
    <2> DEFINE set == {j \in 1 .. k - 1 : s[j].tempo # 0}
    <2>1. CASE set = {}
      BY <2>1, RenderAssumption DEF TempoAt
    <2>2. CASE set # {}
      <3>1. \E j \in set : \A i \in set : i <= j
        <4> DEFINE below == {m \in Nat : \A i \in set : i <= m}
        <4>1. below \subseteq Nat /\ k \in below
          OBVIOUS
        <4>2. PICK m \in below : \A y \in below : ~ y < m
          <5> HIDE DEF below
          <5> QED BY <4>1, Least
        <4>3. m # 0
          BY <2>2, <4>2
        <4>4. m - 1 \notin below
          BY <4>2, <4>3
        <4>5. PICK i \in set : ~ i <= m - 1
          BY <4>3, <4>4
        <4> QED
          BY <4>2, <4>5
      <3>2. (CHOOSE j \in set : \A i \in set : i <= j) \in set
        BY <3>1
      <3> QED
        BY <2>2, <3>2, <1>1 DEF TempoAt
    <2> QED
      BY <2>1, <2>2
  <1>4. FramesPerTick(TempoAt(s, k)) \in Nat
    BY <1>3, RenderAssumption DEF FramesPerTick
  <1>5. s[k].tick - (IF k = 1 THEN 0 ELSE s[k - 1].tick) \in Nat
    BY <1>1, <1>2
  <1> QED
    BY <1>4, <1>5, NatProduct DEF Span

(* The tempo changes with each tempo event. *)
LEMMA TempoFollows ==
  ASSUME NEW s \in Songs, NEW k \in 1 .. Len(s)
  PROVE  TempoAt(s, k + 1) = IF s[k].tempo # 0 THEN s[k].tempo ELSE TempoAt(s, k)
  <1> DEFINE set(n) == {j \in 1 .. n - 1 : s[j].tempo # 0}
  <1> DEFINE latest(set_) == s[CHOOSE j \in set_ : \A i \in set_ : i <= j].tempo
  <1>1. k \in Nat \ {0}
    BY RenderAssumption
  <1>a. \A n : TempoAt(s, n) = IF set(n) = {} THEN DefaultTempo ELSE latest(set(n))
    BY Zenon DEF TempoAt
  <1>2. CASE s[k].tempo = 0
    <2>1. set(k + 1) = set(k)
      BY <1>1, <1>2
    <2> HIDE DEF set, latest
    <2> QED
      BY <1>a, <1>2, <2>1
  <1>3. CASE s[k].tempo # 0
    <2>1. k \in set(k + 1) /\ \A i \in set(k + 1) : i <= k
      BY <1>1, <1>3
    <2>2. \A j \in set(k + 1) : (\A i \in set(k + 1) : i <= j) => j = k
      BY <1>1, <2>1
    <2>3. (CHOOSE j \in set(k + 1) : \A i \in set(k + 1) : i <= j) = k
      <3> HIDE DEF set
      <3> QED BY <2>1, <2>2
    <2> QED
      BY <1>3, <2>1, <2>3 DEF TempoAt
  <1> QED
    BY <1>2, <1>3

LEMMA TimeAdds ==
  ASSUME NEW s \in Songs
  PROVE  /\ Time(s)[0] = 0
         /\ \A k \in 0 .. Len(s) : Time(s)[k] \in Nat
         /\ \A k \in 1 .. Len(s) : Time(s)[k] = Time(s)[k - 1] + Span(s, k)
  <1> DEFINE D == [k \in 1 .. Len(s) |-> Span(s, k)]
  <1>1. Len(s) \in Nat
    BY RenderAssumption
  <1>2. \A f : Sums(f, Len(s), D) <=>
               f = [k \in 0 .. Len(s) |-> IF k = 0 THEN 0 ELSE f[k - 1] + Span(s, k)]
    <2> TAKE f
    <2>1. \A k \in 0 .. Len(s) : (IF k = 0 THEN 0 ELSE f[k - 1] + D[k])
                               = (IF k = 0 THEN 0 ELSE f[k - 1] + Span(s, k))
      BY <1>1
    <2> QED
      BY <2>1 DEF Sums
  <1>3. \E f : f = [k \in 0 .. Len(s) |-> IF k = 0 THEN 0 ELSE f[k - 1] + Span(s, k)]
    BY <1>1, <1>2, SumsExist
  <1>4. Time(s) = [k \in 0 .. Len(s) |-> IF k = 0 THEN 0 ELSE Time(s)[k - 1] + Span(s, k)]
    BY <1>3, Zenon DEF Time
  <1>5. \A k \in 1 .. Len(s) : D[k] \in Nat
    BY SpanNatural
  <1>6. \A k \in 0 .. Len(s) : Time(s)[k] \in Nat
    <2>1. Sums(Time(s), Len(s), D)
      BY <1>2, <1>4
    <2> HIDE DEF D
    <2> QED BY <1>1, <1>5, <2>1, SumsNatural
  <1> QED
    BY <1>1, <1>4, <1>6

LEMMA StartingTempo == \A s : TempoAt(s, 1) = DefaultTempo
  BY DEF TempoAt

(* The cursor is at the time of the last event sent, at the tempo set by
   then: exactly with nearest-block timing, and less than a frame behind for
   each event sent with block-start timing. *)
Timed ==
  LET due == Time(song)[ei - 1]
  IN /\ per_tick = FramesPerTick(TempoAt(song, ei))
     /\ IF nearest THEN at = due
        ELSE Den * at <= due /\ due <= Den * at + (ei - 1) * (Den - 1)

LEMMA TimedInit == Init => Timed /\ InItsBlock
  <1> SUFFICES ASSUME Init PROVE Timed /\ InItsBlock
    OBVIOUS
  <1>1. song \in Songs /\ Time(song)[ei - 1] = 0 /\ at = 0 /\ ei = 1
    BY TimeAdds DEF Init
  <1>2. Den * 0 = 0 /\ (ei - 1) * (Den - 1) = 0
    BY <1>1, RenderAssumption
  <1>3. Timed
    BY <1>1, <1>2, StartingTempo DEF Init, Timed
  <1>4. Heard = {}
    BY DEF Init, Heard
  <1> QED
    BY <1>3, <1>4 DEF InItsBlock

LEMMA CursorFacts ==
  ASSUME TypeOK, Counted, ei <= Len(song)
  PROVE  /\ song \in Songs /\ ei \in 1 .. Len(song) /\ ei \in 0 .. Len(song)
         /\ Len(song) \in Nat /\ ei \in Nat \ {0}
         /\ Den \in Nat \ {0} /\ Block \in Nat \ {0}
         /\ at \in Nat /\ per_tick \in Nat /\ frame \in Nat
  <1>1. song \in Songs
    BY DEF Counted
  <1>2. Len(song) \in Nat \ {0} /\ Den \in Nat \ {0} /\ Block \in Nat \ {0}
    BY SongFacts
  <1>3. ei \in 1 .. Len(song) + 1 /\ at \in Nat /\ per_tick \in Nat /\ frame \in Nat
    BY DEF TypeOK
  <1> QED
    BY <1>1, <1>2, <1>3

(* What the next event's time is cut by. *)
LEMMA Cut ==
  \A d \in Nat \ {0}, n \in Nat : d * (n \div d) <= n /\ n <= d * (n \div d) + (d - 1)
  BY SMT

(* The time the loop gives the next event, and its own. *)
LEMMA WhenDue ==
  ASSUME TypeOK, Counted, Timed, ei <= Len(song)
  PROVE  IF nearest THEN When = Time(song)[ei]
         ELSE /\ Den * When <= Time(song)[ei]
              /\ Time(song)[ei] <= Den * When + ei * (Den - 1)
  <1> DEFINE due == Time(song)[ei - 1]
             ticks == song[ei].tick - last_tick
             cut == (ticks * per_tick) \div Den
  <1>1. /\ song \in Songs /\ ei \in 1 .. Len(song) /\ Den \in Nat \ {0} /\ Block \in Nat \ {0}
        /\ at \in Nat /\ per_tick \in Nat /\ Len(song) \in Nat /\ ei \in Nat \ {0}
    BY CursorFacts
  <1>2. /\ due \in Nat /\ Time(song)[ei] \in Nat
        /\ Time(song)[ei] = due + Span(song, ei)
    BY <1>1, TimeAdds
  <1>3. ticks \in Nat
    <2>1. /\ last_tick = IF ei = 1 THEN 0 ELSE song[ei - 1].tick
          /\ song[ei].tick \in Nat
          /\ ei # 1 => song[ei - 1].tick \in Nat /\ song[ei - 1].tick <= song[ei].tick
      BY <1>1, SongFacts DEF Counted
    <2> QED
      BY <2>1
  <1>4. Span(song, ei) = ticks * per_tick /\ ticks * per_tick \in Nat
    <2>1. Span(song, ei) = per_tick * ticks
      BY DEF Span, Timed, Counted
    <2> QED
      BY <1>1, <1>3, <2>1, NatProduct
  <1>5. CASE nearest
    BY <1>1, <1>2, <1>4, <1>5 DEF When, Timed
  <1>6. CASE ~nearest
    <2>1. cut \in Nat /\ Den * cut <= ticks * per_tick /\ ticks * per_tick <= Den * cut + (Den - 1)
      BY <1>1, <1>4, Cut, NatQuotient
    <2>2. When = at + cut
      BY <1>6 DEF When
    <2>3. Den * When = Den * at + Den * cut /\ Den * at \in Nat /\ Den * cut \in Nat
      BY <1>1, <2>1, <2>2, NatProduct
    <2>4. ei * (Den - 1) = (ei - 1) * (Den - 1) + (Den - 1) /\ (ei - 1) * (Den - 1) \in Nat
      BY <1>1, NatProduct
    <2>5. Den * at <= due /\ due <= Den * at + (ei - 1) * (Den - 1)
      BY <1>6 DEF Timed
    <2> HIDE DEF due, ticks, cut
    <2> QED
      BY <1>1, <1>2, <1>4, <1>6, <2>1, <2>3, <2>4, <2>5
  <1> QED
    BY <1>5, <1>6

(* An event that is sent is sent for its block. *)
DueFor(t, block, k) ==
  IF nearest THEN 2 * t < Den * (2 * block + Block) /\ 2 * t >= Den * (2 * block - Block)
  ELSE Den * block <= t /\ t < Den * (block + Block + k)

LEMMA SentForItsBlock ==
  ASSUME TypeOK, Counted, Timed, ei <= Len(song), NotPassed, InTime
  PROVE  DueFor(Time(song)[ei], frame, ei)
  <1> DEFINE t == Time(song)[ei]
  <1>1. /\ Den \in Nat \ {0} /\ Block \in Nat \ {0} /\ frame \in Nat
        /\ ei \in Nat \ {0} /\ ei \in 0 .. Len(song) /\ song \in Songs
    BY CursorFacts
  <1>2. t \in Nat /\ When \in Nat
    BY <1>1, TimeAdds, WhenLater
  <1>3. CASE nearest
    BY <1>3, WhenDue DEF DueFor, NotPassed, InTime
  <1>4. CASE ~nearest
    <2>1. frame <= When /\ When <= frame + Block
      BY <1>4 DEF NotPassed, InTime
    <2>2. Den * When <= t /\ t <= Den * When + ei * (Den - 1)
      BY <1>4, WhenDue
    <2>3. Den * frame <= Den * When
      <3>1. PICK n \in Nat : When = frame + n
        <4>1. When - frame \in Nat /\ When = frame + (When - frame)
          BY <1>1, <1>2, <2>1
        <4> QED BY <4>1
      <3>2. Den * When = Den * frame + Den * n /\ Den * n \in Nat /\ Den * frame \in Nat
        BY <1>1, <3>1, NatProduct
      <3> QED BY <3>2
    <2>4. Den * When <= Den * (frame + Block)
      <3>1. PICK n \in Nat : frame + Block = When + n
        <4>1. frame + Block - When \in Nat /\ frame + Block = When + (frame + Block - When)
          BY <1>1, <1>2, <2>1
        <4> QED BY <4>1
      <3>2. /\ Den * (When + n) = Den * When + Den * n
            /\ Den * n \in Nat /\ Den * When \in Nat
        BY <1>1, <1>2, <3>1, NatProduct
      <3> QED BY <3>1, <3>2
    <2>5. /\ Den * (frame + Block + ei) = Den * (frame + Block) + Den * ei
          /\ ei * (Den - 1) = Den * ei - ei
          /\ Den * frame \in Nat /\ Den * When \in Nat /\ Den * ei \in Nat
          /\ Den * (frame + Block) \in Nat
      BY <1>1, <1>2, NatProduct
    <2>6. t < Den * (frame + Block + ei)
      BY <1>1, <1>2, <2>2, <2>4, <2>5
    <2>7. Den * frame <= t
      BY <1>1, <1>2, <2>2, <2>3, <2>5
    <2> QED
      BY <1>4, <2>6, <2>7 DEF DueFor
  <1> QED
    BY <1>3, <1>4

LEMMA HeardIsDue == InItsBlock <=> \A h \in Heard : DueFor(Time(song)[h.ev], h.ahead, h.ev)
  BY Zenon DEF InItsBlock, DueFor

(* What each engine has heard grows by the event that is sent. *)
LEMMA HeardGrows ==
  ASSUME TypeOK, SendMessage
  PROVE  Heard' \subseteq Heard \cup {[ev |-> ei, ahead |-> frame]}
  <1> DEFINE new == [ev |-> ei, ahead |-> frame]
  <1> SUFFICES ASSUME NEW p \in Ports, NEW i \in 1 .. Len(log'[p])
               PROVE  log'[p][i] \in Heard \cup {new}
    BY DEF Heard
  <1>1. log[p] \in Seq(Queued)
    BY DEF TypeOK, Queued
  <1>2. log'[p] = log[p] \/ log'[p] = Append(log[p], new)
    BY DEF SendMessage
  <1>3. \/ i \in 1 .. Len(log[p]) /\ log'[p][i] = log[p][i]
        \/ log'[p][i] = new
    BY <1>1, <1>2
  <1> QED
    BY <1>3 DEF Heard

LEMMA TimedNext ==
  ASSUME LoopInv, Timed, InItsBlock, [Next]_vars
  PROVE  Timed' /\ InItsBlock'
  <1>1. TypeOK /\ Counted /\ Ahead /\ song \in Songs /\ Len(song) \in Nat
    BY SongFacts DEF LoopInv, Counted
  <1>2. CASE SendTempo \/ SendMessage
    <2>1. /\ song' = song /\ nearest' = nearest /\ ei' = ei + 1 /\ at' = When
          /\ ei \in 1 .. Len(song) /\ InTime /\ NotPassed
          /\ per_tick' = IF song[ei].tempo # 0 THEN FramesPerTick(song[ei].tempo) ELSE per_tick
      BY <1>1, <1>2 DEF SendTempo, SendMessage, args, Ahead, TypeOK
    <2>2. /\ ei' - 1 = ei
          /\ IF nearest THEN When = Time(song)[ei]
             ELSE /\ Den * When <= Time(song)[ei]
                  /\ Time(song)[ei] <= Den * When + ei * (Den - 1)
      BY <1>1, <2>1, WhenDue
    <2>3. per_tick' = FramesPerTick(TempoAt(song', ei'))
      BY <1>1, <2>1, TempoFollows DEF Timed
    <2>4. Timed'
      BY <2>1, <2>2, <2>3 DEF Timed
    <2>5. DueFor(Time(song)[ei], frame, ei)
      BY <1>1, <2>1, SentForItsBlock
    <2>6. Heard' \subseteq Heard \cup {[ev |-> ei, ahead |-> frame]}
      BY <1>1, <1>2, HeardGrows DEF SendTempo, Heard
    <2>7. \A h \in Heard' : DueFor(Time(song)[h.ev], h.ahead, h.ev)
      <3> DEFINE new == [ev |-> ei, ahead |-> frame]
      <3>1. new.ev = ei /\ new.ahead = frame
        OBVIOUS
      <3>2. \A h \in Heard : DueFor(Time(song)[h.ev], h.ahead, h.ev)
        BY HeardIsDue
      <3> QED
        BY <2>5, <2>6, <3>1, <3>2, Zenon
    <2>8. InItsBlock'
      BY <2>1, <2>7 DEF InItsBlock, DueFor
    <2> QED
      BY <2>4, <2>8
  <1>3. CASE UNCHANGED <<song, nearest, ei, at, per_tick, log>>
    BY <1>3 DEF Timed, InItsBlock, Heard
  <1> QED
    BY <1>2, <1>3 DEF Next, Begin, SendEnd, Deliver, Refuse, vars, args, cursor

-----------------------------------------------------------------------------
(* The renderers around it. *)

(* Before the song there is no file and nothing at the device. *)
Opening ==
  stage = "opening" => /\ frame = 0 /\ ~refused /\ pc # "done"
                       /\ wav = NoFile /\ dry = 0

Quiet ==
  stage \in {"opening", "failed", "closed"} \/ outs = {"wav"} => queue = <<>>

Silent == stage \in {"opening", "failed"} \/ outs = {"wav"} => heard = <<>>

Over == /\ stage = "closed" => pc = "done"
        /\ ~refused => dry <= MaxDry

(* The file holds what was delivered. *)
FileHolds ==
  /\ stage = "song" => wav = IF "wav" \in outs
                             THEN [says |-> 0,
                                   holds |-> frames + IF refused THEN Block ELSE 0]
                             ELSE NoFile
  /\ FileSaysWhatItHolds

(* The k-th block from here on is the one the ring plays then. *)
Ring ==
  outs = {"waveout"} =>
    /\ ~refused /\ dry = 0
    /\ \A k \in 1 .. Len(queue) : /\ queue[k] \in Bufs
                                  /\ pcm[queue[k]] = Block * (Len(heard) + k - 1)
    /\ \A i \in 1 .. Len(heard) : heard[i] = Block * (i - 1)
    /\ Block * (Len(heard) + Len(queue)) = frame

Rising(s) == \A i, j \in 1 .. Len(s) : i < j => s[i] < s[j]

(* What a card played and what it holds is in order, and all of the song but
   for the blocks it ran dry at. *)
Card ==
  "card" \in outs =>
    /\ Rising(heard) /\ Rising(queue)
    /\ \A i \in 1 .. Len(heard), j \in 1 .. Len(queue) : heard[i] < queue[j]
    /\ \A i \in 1 .. Len(heard) : heard[i] < frame
    /\ \A j \in 1 .. Len(queue) : queue[j] < frame
    /\ Len(queue) <= CardDepth
    /\ stage \in {"opening", "song"} /\ ~refused =>
         Block * (Len(heard) + Len(queue) + dry) = frame

ToolInv ==
  /\ LoopInv /\ ToolTypeOK
  /\ Opening /\ Quiet /\ Silent /\ Over /\ FileHolds /\ Ring /\ Card /\ AllHeard

LEMMA ToolSizes ==
  /\ NBuf \in Nat \ {0} /\ CardDepth \in Nat \ {0} /\ MaxDry \in Nat
  /\ Block \in Nat \ {0}
  BY ToolAssumption, RenderAssumption

(* A step of a renderer is one of the loop, or none. *)
LEMMA ToolStepsLoop == [ToolNext]_allvars => [Next]_vars
  BY DEF ToolNext, Tool, OpenSynth, SynthFails, OpenCore, CoreFails, OutputFails, Start,
         Sending, DeliverFile, DeliverCard, DeliverDry, DeliverRefused, DeliverWaveOut,
         Finish, FinishWaveOut, Play, Next, allvars, loop

LEMMA SendingFacts ==
  ASSUME Sending
  PROVE  /\ stage = "song" /\ pc # "done" /\ UNCHANGED tool
         /\ frame' = frame /\ frames' = frames /\ refused' = refused /\ song' = song
  BY DEF Sending, Begin, SendTempo, SendMessage, SendEnd, args

LEMMA DeliverFacts ==
  ASSUME Deliver
  PROVE  /\ pc = "render" /\ pc' = "top" /\ frame' = frame + Block
         /\ frames' = frames + Block /\ refused' = refused /\ song' = song
  BY DEF Deliver, args

LEMMA RefuseFacts ==
  ASSUME Refuse
  PROVE  /\ pc = "render" /\ pc' = "done" /\ frame' = frame /\ frames' = frames
         /\ refused' = TRUE /\ song' = song
  BY DEF Refuse, args

(* The opening actions: nothing of the loop or the device changes. *)
OpeningStep ==
  OpenSynth \/ SynthFails \/ OpenCore \/ CoreFails \/ OutputFails \/ Start

LEMMA OpeningFacts ==
  ASSUME OpeningStep, ToolTypeOK
  PROVE  /\ stage = "opening" /\ stage' \in {"opening", "song", "failed"}
         /\ outs' = outs /\ open' \in 0 .. 2
         /\ UNCHANGED <<loop, device, heard>>
         /\ wav' = IF stage' = "song" THEN Header(0)
                   ELSE IF Start THEN Header(0) ELSE wav
  <1>1. open \in 0 .. 2 /\ nports \in {1, 2}
    BY DEF ToolTypeOK, TypeOK
  <1> QED
    BY <1>1 DEF OpeningStep, OpenSynth, SynthFails, OpenCore, CoreFails, OutputFails, Start

-----------------------------------------------------------------------------
(* Types. *)

LEMMA ToolInitInv == ToolInit => ToolInv
  <1> SUFFICES ASSUME ToolInit PROVE ToolInv
    OBVIOUS
  <1>1. Init /\ LoopInv /\ TypeOK
    BY LoopInit DEF ToolInit, LoopInv
  <1>2. outs \in Sinks
    BY ToolAssumption DEF ToolInit, Init
  <1>3. ToolTypeOK
    BY <1>1, <1>2, ToolSizes DEF ToolInit, ToolTypeOK, NoFile, Bufs
  <1>4. frame = 0 /\ refused = FALSE /\ pc = "top" /\ frames = 0
    BY <1>1 DEF Init
  <1>5. Block * 0 = 0
    BY ToolSizes
  <1>6. Opening /\ Quiet /\ Silent /\ Over /\ AllHeard
    BY <1>4, ToolSizes DEF ToolInit, Opening, Quiet, Silent, Over, AllHeard
  <1>7. FileHolds
    BY DEF ToolInit, FileHolds, FileSaysWhatItHolds, NoFile
  <1>8. Len(queue) = 0 /\ Len(heard) = 0 /\ dry = 0
    BY DEF ToolInit
  <1>9. Ring
    BY <1>4, <1>5, <1>8 DEF Ring
  <1>10. Card
    BY <1>4, <1>5, <1>8, ToolSizes DEF Card, Rising
  <1> QED
    BY <1>1, <1>3, <1>6, <1>7, <1>9, <1>10 DEF ToolInv

LEMMA ToolTypesNext ==
  ASSUME ToolInv, ToolNext, TypeOK'
  PROVE  ToolTypeOK'
  <1>1. /\ TypeOK /\ frame \in Nat /\ frames \in Nat /\ Block \in Nat \ {0}
        /\ stage \in {"opening", "song", "closed", "failed"} /\ outs \in Sinks
        /\ open \in 0 .. 2 /\ wav \in [says : Nat \cup {-1}, holds : Nat]
        /\ pcm \in [Bufs -> Nat \cup {-1}] /\ wb \in Bufs /\ queue \in Seq(Nat)
        /\ dry \in 0 .. MaxDry + 1 /\ heard \in Seq(Nat) /\ MaxDry \in Nat
        /\ (~refused => dry <= MaxDry) /\ (refused => pc = "done")
        /\ NBuf \in Nat \ {0}
    BY ToolSizes DEF ToolInv, ToolTypeOK, TypeOK, Over, LoopInv, Counted
  <1>2. WavHolds \in [says : Nat \cup {-1}, holds : Nat]
    BY <1>1 DEF WavHolds
  <1>3. Header(0) \in [says : Nat \cup {-1}, holds : Nat]
        /\ Header(frames) \in [says : Nat \cup {-1}, holds : Nat]
    BY <1>1 DEF Header
  <1>4. CASE OpeningStep
    <2>1. ToolTypeOK
      BY DEF ToolInv
    <2> QED
      BY <1>1, <1>3, <1>4, <2>1, OpeningFacts DEF ToolTypeOK, device
  <1>5. CASE Sending
    BY <1>1, <1>5, SendingFacts DEF ToolTypeOK, tool, device
  <1>6. CASE DeliverFile
    BY <1>1, <1>2, <1>6 DEF DeliverFile, ToolTypeOK, device
  <1>7. CASE DeliverCard
    BY <1>1, <1>2, <1>7 DEF DeliverCard, ToolTypeOK
  <1>8. CASE DeliverDry
    BY <1>1, <1>2, <1>8 DEF DeliverDry, ToolTypeOK
  <1>9. CASE DeliverRefused
    BY <1>1, <1>2, <1>9, RefuseFacts DEF DeliverRefused, ToolTypeOK
  <1>10. CASE DeliverWaveOut
    <2>1. wb \in Nat /\ (wb + 1) % NBuf \in Bufs
      BY <1>1 DEF Bufs
    <2> QED
      BY <1>1, <1>10, <2>1 DEF DeliverWaveOut, ToolTypeOK
  <1>11. CASE Finish
    BY <1>1, <1>3, <1>11 DEF Finish, ToolTypeOK
  <1>12. CASE FinishWaveOut
    BY <1>1, <1>12 DEF FinishWaveOut, ToolTypeOK, device
  <1>13. CASE Play
    <2>1. /\ Len(queue) \in Nat \ {0} /\ Tail(queue) \in Seq(Nat) /\ Head(queue) \in Nat
          /\ Head(queue) = queue[1]
      BY <1>1, <1>13 DEF Play
    <2>2. (IF outs = {"waveout"} THEN pcm[Head(queue)] ELSE Head(queue)) \in Nat
      <3>1. CASE outs = {"waveout"}
        <4>1. /\ queue[1] \in Bufs
              /\ pcm[queue[1]] = Block * (Len(heard) + 1 - 1)
          BY <2>1, <3>1 DEF ToolInv, Ring
        <4>2. Len(heard) \in Nat
          BY <1>1
        <4> QED
          BY <1>1, <2>1, <3>1, <4>1, <4>2, NatProduct
      <3>2. CASE outs # {"waveout"}
        BY <2>1, <3>2
      <3> QED BY <3>1, <3>2
    <2> QED
      BY <1>1, <1>13, <2>1, <2>2 DEF Play, ToolTypeOK
  <1> QED
    BY <1>4, <1>5, <1>6, <1>7, <1>8, <1>9, <1>10, <1>11, <1>12, <1>13
       DEF ToolNext, Tool, OpeningStep

-----------------------------------------------------------------------------
(* The stages, and the file. *)

LEMMA StagesNext ==
  ASSUME ToolInv, ToolNext
  PROVE  Opening' /\ Quiet' /\ Silent' /\ Over'
  <1>1. /\ ToolTypeOK /\ Opening /\ Quiet /\ Silent /\ Over
        /\ (refused => pc = "done") /\ stage \in {"opening", "song", "closed", "failed"}
        /\ outs \in Sinks /\ dry \in Nat /\ queue \in Seq(Nat) /\ MaxDry \in Nat
    BY ToolSizes DEF ToolInv, ToolTypeOK, LoopInv, Counted
  <1>2. CASE OpeningStep
    <2>1. /\ stage = "opening" /\ outs' = outs /\ queue' = queue /\ heard' = heard /\ dry' = dry
          /\ frame' = frame /\ refused' = refused /\ pc' = pc
          /\ stage' \in {"opening", "song", "failed"}
      BY <1>1, <1>2, OpeningFacts DEF device, loop, vars
    <2>2. stage' = "opening" => wav' = wav
      BY <1>2 DEF OpeningStep, OpenSynth, SynthFails, OpenCore, CoreFails, OutputFails, Start
    <2> QED
      BY <1>1, <2>1, <2>2 DEF Opening, Quiet, Silent, Over
  <1>3. CASE Sending
    BY <1>1, <1>3, SendingFacts DEF Opening, Quiet, Silent, Over, tool, device
  <1>4. CASE DeliverFile
    BY <1>1, <1>4, DeliverFacts DEF DeliverFile, Opening, Quiet, Silent, Over, device
  <1>5. CASE DeliverCard
    BY <1>1, <1>5, DeliverFacts DEF DeliverCard, Opening, Quiet, Silent, Over
  <1>6. CASE DeliverDry
    BY <1>1, <1>6, DeliverFacts DEF DeliverDry, Opening, Quiet, Silent, Over
  <1>7. CASE DeliverRefused
    BY <1>1, <1>7, RefuseFacts DEF DeliverRefused, Opening, Quiet, Silent, Over
  <1>8. CASE DeliverWaveOut
    BY <1>1, <1>8, DeliverFacts DEF DeliverWaveOut, Opening, Quiet, Silent, Over
  <1>9. CASE Finish
    BY <1>1, <1>9 DEF Finish, Opening, Quiet, Silent, Over, loop, vars
  <1>10. CASE FinishWaveOut
    <2>1. queue = <<>>
      <3>1. outs = {"waveout"}
        BY <1>10 DEF FinishWaveOut
      <3>2. ASSUME queue # <<>> PROVE FALSE
        <4>1. Len(queue) \in Nat /\ 1 \in 1 .. Len(queue)
          BY <1>1, <3>2
        <4>2. queue[1] \in Bufs
          BY <3>1, <4>1 DEF ToolInv, Ring
        <4> QED
          BY <1>10, <4>1, <4>2 DEF FinishWaveOut, Drained, Free
      <3> QED BY <3>2
    <2> QED
      BY <1>1, <1>10, <2>1 DEF FinishWaveOut, Opening, Quiet, Silent, Over, loop, vars, device
  <1>11. CASE Play
    BY <1>1, <1>11 DEF Play, Opening, Quiet, Silent, Over, loop, vars
  <1> QED
    BY <1>2, <1>3, <1>4, <1>5, <1>6, <1>7, <1>8, <1>9, <1>10, <1>11
       DEF ToolNext, Tool, OpeningStep

(* deliver and refuse write the file alike; the block counts only when it was
   not refused. *)
LEMMA FileNext ==
  ASSUME ToolInv, ToolNext
  PROVE  FileHolds'
  <1>1. /\ ToolTypeOK /\ FileHolds /\ Opening /\ Over
        /\ (refused => pc = "done") /\ stage \in {"opening", "song", "closed", "failed"}
        /\ outs \in Sinks /\ frames \in Nat /\ frame \in Nat /\ frames = frame
        /\ Block \in Nat \ {0}
    BY ToolSizes DEF ToolInv, ToolTypeOK, TypeOK, LoopInv, Counted
  <1>2. CASE OpeningStep
    <2>1. /\ stage = "opening" /\ outs' = outs /\ wav = NoFile
          /\ frames' = 0 /\ refused' = FALSE
          /\ stage' \in {"opening", "song", "failed"}
          /\ wav' \in {wav, Header(0)}
          /\ stage' = "song" => wav' = Header(0)
      <3>1. refused = FALSE
        BY <1>1, <1>2, OpeningFacts DEF Opening, ToolTypeOK, TypeOK
      <3> QED
        BY <1>1, <1>2, <3>1, OpeningFacts DEF loop, vars, Opening
    <2> QED
      BY <2>1 DEF FileHolds, FileSaysWhatItHolds, NoFile, Header
  <1>3. CASE Sending
    BY <1>1, <1>3, SendingFacts DEF FileHolds, FileSaysWhatItHolds, tool
  <1>4. CASE \/ DeliverFile \/ DeliverCard \/ DeliverDry \/ DeliverWaveOut
    <2>1. /\ Deliver /\ stage = "song" /\ stage' = stage /\ outs' = outs
          /\ wav' = IF "wav" \in outs THEN [wav EXCEPT !.holds = @ + Block] ELSE wav
      BY <1>4 DEF DeliverFile, DeliverCard, DeliverDry, DeliverWaveOut, WavHolds
    <2>2. ~refused /\ refused' = refused /\ frames' = frames + Block
      BY <1>1, <2>1, DeliverFacts
    <2> QED
      BY <1>1, <2>1, <2>2 DEF FileHolds, FileSaysWhatItHolds, NoFile
  <1>5. CASE DeliverRefused
    <2>1. /\ Refuse /\ stage = "song" /\ stage' = stage /\ outs' = outs
          /\ wav' = IF "wav" \in outs THEN [wav EXCEPT !.holds = @ + Block] ELSE wav
      BY <1>5 DEF DeliverRefused, WavHolds
    <2>2. ~refused /\ refused' = TRUE /\ frames' = frames
      BY <1>1, <2>1, RefuseFacts
    <2> QED
      BY <1>1, <2>1, <2>2 DEF FileHolds, FileSaysWhatItHolds, NoFile
  <1>6. CASE Finish
    BY <1>1, <1>6 DEF Finish, FileHolds, FileSaysWhatItHolds, Header, loop, vars
  <1>7. CASE FinishWaveOut
    BY <1>1, <1>7 DEF FinishWaveOut, FileHolds, FileSaysWhatItHolds, NoFile, loop, vars
  <1>8. CASE Play
    BY <1>1, <1>8 DEF Play, FileHolds, FileSaysWhatItHolds, loop, vars
  <1> QED
    BY <1>2, <1>3, <1>4, <1>5, <1>6, <1>7, <1>8 DEF ToolNext, Tool, OpeningStep

-----------------------------------------------------------------------------
(* The devices. *)

(* Blocks are counted by their frames. *)
LEMMA BlockUp == \A n \in Nat : /\ Block * (n + 1) = Block * n + Block
                                /\ Block * n \in Nat
  BY ToolSizes, NatProduct

LEMMA BlockRise == \A m, n \in Nat : m < n => Block * m < Block * n
  <1> SUFFICES ASSUME NEW m \in Nat, NEW n \in Nat, m < n PROVE Block * m < Block * n
    OBVIOUS
  <1>1. PICK d \in Nat : n = (m + 1) + d
    <2>1. n - (m + 1) \in Nat /\ n = (m + 1) + (n - (m + 1))
      OBVIOUS
    <2> QED BY <2>1
  <1>2. Block * n = (Block * m + Block) + Block * d
    BY <1>1, ToolSizes
  <1>3. Block * d \in Nat /\ Block * m \in Nat /\ Block \in Nat \ {0}
    BY ToolSizes, NatProduct
  <1> QED
    BY <1>2, <1>3

(* Actions that touch nothing a device has. *)
LEMMA DeviceStill ==
  ASSUME ToolInv, ToolNext,
         OpeningStep \/ Sending \/ DeliverFile \/ FinishWaveOut
  PROVE  /\ UNCHANGED <<outs, pcm, wb, queue, dry, heard>>
         /\ outs # {"wav"} => frame' = frame /\ refused' = refused
  <1>1. ToolTypeOK
    BY DEF ToolInv
  <1>2. CASE OpeningStep
    BY <1>1, <1>2, OpeningFacts DEF device, loop, vars
  <1>3. CASE Sending
    BY <1>3, SendingFacts DEF tool, device
  <1>4. CASE DeliverFile
    BY <1>4 DEF DeliverFile, device
  <1>5. CASE FinishWaveOut
    BY <1>5 DEF FinishWaveOut, device, loop, vars
  <1> QED
    BY <1>2, <1>3, <1>4, <1>5

(* waveOut's ring. *)
LEMMA RingNext ==
  ASSUME ToolInv, ToolNext
  PROVE  Ring'
  <1> SUFFICES ASSUME outs' = {"waveout"} PROVE Ring'
    BY DEF Ring
  <1>1. outs = {"waveout"}
    BY DeviceStill DEF ToolNext, Tool, OpeningStep, DeliverCard, DeliverDry, DeliverRefused,
                       DeliverWaveOut, Finish, Play
  <1>2. /\ Block \in Nat \ {0} /\ frame \in Nat
        /\ queue \in Seq(Nat) /\ heard \in Seq(Nat) /\ wb \in Bufs
        /\ pcm \in [Bufs -> Nat \cup {-1}]
        /\ Len(queue) \in Nat /\ Len(heard) \in Nat
    <2>1. ToolTypeOK
      BY DEF ToolInv
    <2>2. /\ TypeOK /\ queue \in Seq(Nat) /\ heard \in Seq(Nat) /\ wb \in Bufs
          /\ pcm \in [Bufs -> Nat \cup {-1}]
      BY <2>1 DEF ToolTypeOK
    <2>3. frame \in Nat
      BY <2>2 DEF TypeOK
    <2> QED
      BY <2>2, <2>3, ToolSizes
  <1>r. /\ ~refused /\ dry = 0
        /\ \A k \in 1 .. Len(queue) : /\ queue[k] \in Bufs
                                      /\ pcm[queue[k]] = Block * (Len(heard) + k - 1)
        /\ \A i \in 1 .. Len(heard) : heard[i] = Block * (i - 1)
        /\ Block * (Len(heard) + Len(queue)) = frame
    BY <1>1 DEF ToolInv, Ring
  <1>3. CASE OpeningStep \/ Sending \/ FinishWaveOut
    BY <1>1, <1>r, <1>3, DeviceStill DEF Ring
  <1>4. CASE DeliverWaveOut
    <2>1. /\ Free(wb) /\ Deliver /\ outs' = outs /\ dry' = dry /\ heard' = heard
          /\ pcm' = [pcm EXCEPT ![wb] = frame] /\ queue' = Append(queue, wb)
      BY <1>4 DEF DeliverWaveOut
    <2>2. /\ Len(queue') = Len(queue) + 1 /\ queue'[Len(queue) + 1] = wb
          /\ \A k \in 1 .. Len(queue) : queue'[k] = queue[k]
      BY <1>2, <2>1 DEF Bufs
    <2>3. \A k \in 1 .. Len(queue) : pcm'[queue'[k]] = pcm[queue[k]]
      BY <1>2, <1>r, <2>1, <2>2 DEF Free
    <2>4. /\ pcm'[wb] = frame
          /\ frame = Block * (Len(heard) + (Len(queue) + 1) - 1)
      <3>1. Len(heard) + (Len(queue) + 1) - 1 = Len(heard) + Len(queue)
        BY <1>2
      <3> QED BY <1>2, <1>r, <2>1, <3>1
    <2>5. \A k \in 1 .. Len(queue') :
            queue'[k] \in Bufs /\ pcm'[queue'[k]] = Block * (Len(heard') + k - 1)
      <3> SUFFICES ASSUME NEW k \in 1 .. Len(queue')
                   PROVE queue'[k] \in Bufs /\ pcm'[queue'[k]] = Block * (Len(heard') + k - 1)
        OBVIOUS
      <3>1. CASE k \in 1 .. Len(queue)
        BY <1>r, <2>1, <2>2, <2>3, <3>1
      <3>2. CASE k = Len(queue) + 1
        BY <1>2, <2>1, <2>2, <2>4, <3>2
      <3> QED BY <1>2, <2>2, <3>1, <3>2
    <2>6. Block * (Len(heard') + Len(queue')) = frame'
      <3>1. Len(heard') + Len(queue') = (Len(heard) + Len(queue)) + 1
        BY <1>2, <2>1, <2>2
      <3>2. Block * ((Len(heard) + Len(queue)) + 1) = Block * (Len(heard) + Len(queue)) + Block
        BY <1>2, BlockUp
      <3> QED BY <1>r, <2>1, <3>1, <3>2, DeliverFacts
    <2> QED
      BY <1>1, <1>r, <2>1, <2>5, <2>6, DeliverFacts DEF Ring
  <1>5. CASE Play
    <2>1. /\ queue # <<>> /\ queue' = Tail(queue) /\ heard' = Append(heard, pcm[Head(queue)])
          /\ pcm' = pcm /\ dry' = dry /\ refused' = refused /\ frame' = frame
      BY <1>1, <1>5 DEF Play, loop, vars
    <2>2. /\ Len(queue) \in Nat \ {0} /\ Head(queue) = queue[1]
          /\ Len(queue') = Len(queue) - 1
          /\ \A k \in 1 .. Len(queue) - 1 : queue'[k] = queue[k + 1]
      BY <1>2, <2>1
    <2>3. pcm[queue[1]] = Block * Len(heard)
      <3>1. Len(heard) + 1 - 1 = Len(heard)
        BY <1>2
      <3> QED BY <1>r, <2>2, <3>1
    <2>4. /\ Len(heard') = Len(heard) + 1 /\ heard'[Len(heard) + 1] = Block * Len(heard)
          /\ \A i \in 1 .. Len(heard) : heard'[i] = heard[i]
      <3>1. pcm[queue[1]] \in Nat
        BY <1>2, <2>3, NatProduct
      <3> QED BY <1>2, <2>1, <2>2, <2>3, <3>1
    <2>5. \A k \in 1 .. Len(queue') :
            queue'[k] \in Bufs /\ pcm'[queue'[k]] = Block * (Len(heard') + k - 1)
      <3> SUFFICES ASSUME NEW k \in 1 .. Len(queue')
                   PROVE queue'[k] \in Bufs /\ pcm'[queue'[k]] = Block * (Len(heard') + k - 1)
        OBVIOUS
      <3>1. k + 1 \in 1 .. Len(queue) /\ queue'[k] = queue[k + 1]
        BY <2>2
      <3>2. Len(heard) + (k + 1) - 1 = Len(heard') + k - 1
        BY <1>2, <2>2, <2>4
      <3> QED BY <1>r, <2>1, <3>1, <3>2
    <2>6. \A i \in 1 .. Len(heard') : heard'[i] = Block * (i - 1)
      <3> SUFFICES ASSUME NEW i \in 1 .. Len(heard') PROVE heard'[i] = Block * (i - 1)
        OBVIOUS
      <3>1. CASE i \in 1 .. Len(heard)
        BY <1>r, <2>4, <3>1
      <3>2. CASE i = Len(heard) + 1
        <4>1. i - 1 = Len(heard)
          BY <1>2, <3>2
        <4> QED BY <2>4, <3>2, <4>1
      <3> QED BY <1>2, <2>4, <3>1, <3>2
    <2>7. Len(heard') + Len(queue') = Len(heard) + Len(queue)
      BY <1>2, <2>2, <2>4
    <2> QED
      BY <1>1, <1>r, <2>1, <2>5, <2>6, <2>7 DEF Ring
  <1> QED
    BY <1>1, <1>3, <1>4, <1>5
       DEF ToolNext, Tool, OpeningStep, DeliverFile, DeliverCard, DeliverDry, DeliverRefused,
           Finish

LEMMA AppendRises ==
  ASSUME NEW s \in Seq(Nat), NEW f \in Nat, Rising(s),
         \A i \in 1 .. Len(s) : s[i] < f
  PROVE  Rising(Append(s, f))
  <1>1. /\ Len(s) \in Nat /\ Len(Append(s, f)) = Len(s) + 1
        /\ Append(s, f)[Len(s) + 1] = f
        /\ \A i \in 1 .. Len(s) : Append(s, f)[i] = s[i]
    OBVIOUS
  <1>2. SUFFICES ASSUME NEW i \in 1 .. Len(s) + 1, NEW j \in 1 .. Len(s) + 1, i < j
                 PROVE  Append(s, f)[i] < Append(s, f)[j]
    BY <1>1 DEF Rising
  <1>3. i \in 1 .. Len(s)
    BY <1>1, <1>2
  <1>4. CASE j \in 1 .. Len(s)
    BY <1>1, <1>2, <1>3, <1>4 DEF Rising
  <1>5. CASE j = Len(s) + 1
    BY <1>1, <1>3, <1>5
  <1> QED BY <1>1, <1>4, <1>5

LEMMA TailRises ==
  ASSUME NEW s \in Seq(Nat), s # <<>>, Rising(s)
  PROVE  /\ Rising(Tail(s))
         /\ \A j \in 1 .. Len(Tail(s)) : s[1] < Tail(s)[j]
  <1>1. /\ Len(s) \in Nat \ {0} /\ Len(Tail(s)) = Len(s) - 1
        /\ \A i \in 1 .. Len(s) - 1 : Tail(s)[i] = s[i + 1]
    OBVIOUS
  <1> QED
    BY <1>1 DEF Rising

(* An ALSA card: what it plays comes from the front of what it holds, and
   what it is given is later than both. *)
LEMMA CardNext ==
  ASSUME ToolInv, ToolNext
  PROVE  Card'
  <1> SUFFICES ASSUME "card" \in outs' PROVE Card'
    BY DEF Card
  <1>1. outs' = outs
    BY DeviceStill DEF ToolNext, Tool, OpeningStep, DeliverCard, DeliverDry, DeliverRefused,
                       DeliverWaveOut, Finish, Play
  <1>2. /\ Block \in Nat \ {0} /\ frame \in Nat /\ dry \in Nat
        /\ queue \in Seq(Nat) /\ heard \in Seq(Nat)
        /\ Len(queue) \in Nat /\ Len(heard) \in Nat /\ CardDepth \in Nat \ {0}
        /\ outs # {"waveout"} /\ outs # {"wav"}
    <2>1. ToolTypeOK
      BY DEF ToolInv
    <2>2. /\ TypeOK /\ queue \in Seq(Nat) /\ heard \in Seq(Nat) /\ dry \in Nat
      BY <2>1, ToolSizes DEF ToolTypeOK
    <2>3. frame \in Nat
      BY <2>2 DEF TypeOK
    <2> QED
      BY <1>1, <2>2, <2>3, ToolSizes
  <1>c. /\ Rising(heard) /\ Rising(queue)
        /\ \A i \in 1 .. Len(heard), j \in 1 .. Len(queue) : heard[i] < queue[j]
        /\ \A i \in 1 .. Len(heard) : heard[i] < frame
        /\ \A j \in 1 .. Len(queue) : queue[j] < frame
        /\ Len(queue) <= CardDepth
        /\ stage \in {"opening", "song"} /\ ~refused =>
             Block * (Len(heard) + Len(queue) + dry) = frame
    BY <1>1 DEF ToolInv, Card
  <1>3. CASE OpeningStep \/ Sending
    <2>1. stage \in {"opening", "song"}
      BY <1>3, OpeningFacts, SendingFacts DEF ToolInv
    <2>2. /\ queue' = queue /\ heard' = heard /\ dry' = dry /\ frame' = frame
          /\ refused' = refused
      BY <1>2, <1>3, DeviceStill
    <2> QED
      BY <1>1, <1>c, <2>1, <2>2 DEF Card, Rising
  <1>4. CASE DeliverCard
    <2>1. /\ Deliver /\ stage = "song" /\ Len(queue) < CardDepth
          /\ queue' = Append(queue, frame) /\ heard' = heard /\ dry' = dry
          /\ frame' = frame + Block /\ refused' = refused
      BY <1>4, DeliverFacts DEF DeliverCard
    <2>2. /\ Len(queue') = Len(queue) + 1 /\ queue'[Len(queue) + 1] = frame
          /\ \A i \in 1 .. Len(queue) : queue'[i] = queue[i]
      BY <1>2, <2>1
    <2>3. Rising(queue') /\ Rising(heard')
      BY <1>2, <1>c, <2>1, AppendRises
    <2>4. \A i \in 1 .. Len(heard'), j \in 1 .. Len(queue') : heard'[i] < queue'[j]
      <3> SUFFICES ASSUME NEW i \in 1 .. Len(heard), NEW j \in 1 .. Len(queue) + 1
                   PROVE heard[i] < queue'[j]
        BY <2>1, <2>2
      <3>1. CASE j \in 1 .. Len(queue)
        BY <1>c, <2>2, <3>1
      <3>2. CASE j = Len(queue) + 1
        BY <1>c, <2>2, <3>2
      <3> QED BY <1>2, <3>1, <3>2
    <2>5. \A j \in 1 .. Len(queue') : queue'[j] < frame'
      <3> SUFFICES ASSUME NEW j \in 1 .. Len(queue) + 1 PROVE queue'[j] < frame + Block
        BY <2>1, <2>2
      <3>1. CASE j \in 1 .. Len(queue)
        <4>1. queue'[j] = queue[j] /\ queue[j] < frame /\ queue[j] \in Nat
          BY <1>2, <1>c, <2>2, <3>1
        <4> QED BY <1>2, <4>1
      <3>2. CASE j = Len(queue) + 1
        BY <1>2, <2>2, <3>2
      <3> QED BY <1>2, <3>1, <3>2
    <2>6. \A i \in 1 .. Len(heard') : heard'[i] < frame'
      <3> SUFFICES ASSUME NEW i \in 1 .. Len(heard) PROVE heard[i] < frame + Block
        BY <2>1
      <3>1. heard[i] \in Nat /\ heard[i] < frame
        BY <1>2, <1>c
      <3> QED BY <1>2, <3>1
    <2>7. ~refused => Block * (Len(heard') + Len(queue') + dry') = frame'
      <3>1. Len(heard') + Len(queue') + dry' = (Len(heard) + Len(queue) + dry) + 1
        BY <1>2, <2>1, <2>2
      <3>2. Block * ((Len(heard) + Len(queue) + dry) + 1)
              = Block * (Len(heard) + Len(queue) + dry) + Block
        BY <1>2, BlockUp
      <3> QED BY <1>c, <2>1, <3>1, <3>2
    <2>8. Len(queue') <= CardDepth
      BY <1>2, <2>1, <2>2
    <2> QED
      BY <1>1, <2>1, <2>3, <2>4, <2>5, <2>6, <2>7, <2>8 DEF Card
  <1>5. CASE DeliverDry
    <2>1. /\ Deliver /\ stage = "song" /\ queue' = queue /\ heard' = heard
          /\ dry' = dry + 1 /\ frame' = frame + Block /\ refused' = refused
      BY <1>5, DeliverFacts DEF DeliverDry
    <2>2. ~refused => Block * (Len(heard) + Len(queue) + (dry + 1)) = frame + Block
      <3>1. Len(heard) + Len(queue) + (dry + 1) = (Len(heard) + Len(queue) + dry) + 1
        BY <1>2
      <3>2. Block * ((Len(heard) + Len(queue) + dry) + 1)
              = Block * (Len(heard) + Len(queue) + dry) + Block
        BY <1>2, BlockUp
      <3> QED BY <1>c, <2>1, <3>1, <3>2
    <2>3. \A i \in 1 .. Len(heard) : heard[i] < frame + Block
      <3> SUFFICES ASSUME NEW i \in 1 .. Len(heard) PROVE heard[i] < frame + Block
        OBVIOUS
      <3>1. heard[i] \in Nat /\ heard[i] < frame
        BY <1>2, <1>c
      <3> QED BY <1>2, <3>1
    <2>4. \A j \in 1 .. Len(queue) : queue[j] < frame + Block
      <3> SUFFICES ASSUME NEW j \in 1 .. Len(queue) PROVE queue[j] < frame + Block
        OBVIOUS
      <3>1. queue[j] \in Nat /\ queue[j] < frame
        BY <1>2, <1>c
      <3> QED BY <1>2, <3>1
    <2> QED
      BY <1>1, <1>c, <2>1, <2>2, <2>3, <2>4 DEF Card, Rising
  <1>6. CASE DeliverRefused
    <2>1. /\ queue' = <<>> /\ heard' = heard /\ frame' = frame /\ refused'
      BY <1>6, RefuseFacts DEF DeliverRefused
    <2>2. Len(queue') = 0
      BY <2>1
    <2> QED
      BY <1>1, <1>2, <1>c, <2>1, <2>2 DEF Card, Rising
  <1>7. CASE Finish
    <2>1. /\ queue' = <<>> /\ heard' = heard /\ frame' = frame /\ stage' = "closed"
      BY <1>7 DEF Finish, loop, vars
    <2>2. Len(queue') = 0
      BY <2>1
    <2> QED
      BY <1>1, <1>2, <1>c, <2>1, <2>2 DEF Card, Rising
  <1>8. CASE Play
    <2>1. /\ queue # <<>> /\ queue' = Tail(queue) /\ heard' = Append(heard, queue[1])
          /\ stage' = stage /\ dry' = dry /\ refused' = refused /\ frame' = frame
      BY <1>2, <1>8 DEF Play, loop, vars
    <2>2. /\ Len(queue) \in Nat \ {0} /\ queue[1] \in Nat
          /\ Len(queue') = Len(queue) - 1
          /\ \A k \in 1 .. Len(queue) - 1 : queue'[k] = queue[k + 1]
      BY <1>2, <2>1
    <2>3. /\ Len(heard') = Len(heard) + 1 /\ heard'[Len(heard) + 1] = queue[1]
          /\ \A i \in 1 .. Len(heard) : heard'[i] = heard[i]
      BY <1>2, <2>1, <2>2
    <2>4. Rising(queue') /\ \A j \in 1 .. Len(queue') : queue[1] < queue'[j]
      BY <1>2, <1>c, <2>1, TailRises
    <2>5. Rising(heard')
      <3>1. \A i \in 1 .. Len(heard) : heard[i] < queue[1]
        BY <1>c, <2>2
      <3> QED BY <1>2, <1>c, <2>1, <2>2, <3>1, AppendRises
    <2>6. \A i \in 1 .. Len(heard'), j \in 1 .. Len(queue') : heard'[i] < queue'[j]
      <3> SUFFICES ASSUME NEW i \in 1 .. Len(heard) + 1, NEW j \in 1 .. Len(queue) - 1
                   PROVE heard'[i] < queue'[j]
        BY <2>2, <2>3
      <3>1. CASE i \in 1 .. Len(heard)
        <4>1. j + 1 \in 1 .. Len(queue) /\ queue'[j] = queue[j + 1]
          BY <2>2
        <4> QED BY <1>c, <2>3, <3>1, <4>1
      <3>2. CASE i = Len(heard) + 1
        BY <2>2, <2>3, <2>4, <3>2
      <3> QED BY <1>2, <3>1, <3>2
    <2>7. \A i \in 1 .. Len(heard') : heard'[i] < frame'
      <3> SUFFICES ASSUME NEW i \in 1 .. Len(heard) + 1 PROVE heard'[i] < frame
        BY <2>1, <2>3
      <3>1. CASE i \in 1 .. Len(heard)
        BY <1>c, <2>3, <3>1
      <3>2. CASE i = Len(heard) + 1
        BY <1>c, <2>2, <2>3, <3>2
      <3> QED BY <1>2, <3>1, <3>2
    <2>8. \A j \in 1 .. Len(queue') : queue'[j] < frame'
      <3> SUFFICES ASSUME NEW j \in 1 .. Len(queue) - 1 PROVE queue'[j] < frame
        BY <2>1, <2>2
      <3>1. j + 1 \in 1 .. Len(queue) /\ queue'[j] = queue[j + 1]
        BY <2>2
      <3> QED BY <1>c, <3>1
    <2>9. Len(heard') + Len(queue') + dry' = Len(heard) + Len(queue) + dry
      BY <1>2, <2>1, <2>2, <2>3
    <2>10. Len(queue') <= CardDepth
      BY <1>2, <1>c, <2>2
    <2> QED
      BY <1>1, <1>c, <2>1, <2>4, <2>5, <2>6, <2>7, <2>8, <2>9, <2>10 DEF Card
  <1> QED
    BY <1>1, <1>2, <1>3, <1>4, <1>5, <1>6, <1>7, <1>8
       DEF ToolNext, Tool, OpeningStep, DeliverFile, DeliverWaveOut, FinishWaveOut

-----------------------------------------------------------------------------
(* The end. *)

LEMMA AllHeardNext ==
  ASSUME ToolInv, ToolNext
  PROVE  AllHeard'
  <1> SUFFICES ASSUME stage' = "closed" PROVE AllHeard'
    BY DEF AllHeard
  <1>1. /\ Block \in Nat \ {0} /\ frame \in Nat /\ frames = frame /\ dry \in Nat
        /\ queue \in Seq(Nat) /\ heard \in Seq(Nat)
        /\ Len(queue) \in Nat /\ Len(heard) \in Nat /\ CardDepth \in Nat \ {0}
    <2>1. ToolTypeOK
      BY DEF ToolInv
    <2>2. /\ TypeOK /\ queue \in Seq(Nat) /\ heard \in Seq(Nat) /\ dry \in Nat
      BY <2>1, ToolSizes DEF ToolTypeOK
    <2>3. frame \in Nat /\ frames = frame
      BY <2>2 DEF TypeOK, ToolInv, LoopInv, Counted
    <2> QED
      BY <2>2, <2>3, ToolSizes
  <1>2. CASE Finish
    <2>1. /\ stage = "song" /\ outs # {"waveout"} /\ outs' = outs /\ heard' = heard
          /\ dry' = dry /\ frames' = frames /\ refused' = refused
      BY <1>2 DEF Finish, loop, vars
    <2>2. ASSUME "card" \in outs, ~refused
          PROVE  frames - Block * (Len(heard) + dry) \in 0 .. Block * CardDepth
      <3>1. Block * (Len(heard) + Len(queue) + dry) = frame /\ Len(queue) <= CardDepth
        BY <2>1, <2>2 DEF ToolInv, Card
      <3>2. Block * (Len(heard) + Len(queue) + dry)
              = Block * (Len(heard) + dry) + Block * Len(queue)
        BY <1>1
      <3>3. Block * Len(queue) <= Block * CardDepth
        <4>1. CASE Len(queue) = CardDepth
          BY <1>1, <4>1, BlockUp
        <4>2. CASE Len(queue) < CardDepth
          <5>1. Block * Len(queue) < Block * CardDepth
            BY <1>1, <4>2, BlockRise
          <5> QED BY <1>1, <5>1, BlockUp
        <4> QED BY <1>1, <3>1, <4>1, <4>2
      <3>4. /\ Block * (Len(heard) + dry) \in Nat /\ Block * Len(queue) \in Nat
            /\ Block * CardDepth \in Nat
        BY <1>1, BlockUp
      <3> QED
        BY <1>1, <3>1, <3>2, <3>3, <3>4
    <2> QED
      BY <2>1, <2>2 DEF AllHeard
  <1>3. CASE FinishWaveOut
    <2>1. /\ outs = {"waveout"} /\ outs' = outs /\ heard' = heard /\ frames' = frames
      BY <1>3 DEF FinishWaveOut, device, loop, vars
    <2>2. /\ \A k \in 1 .. Len(queue) : queue[k] \in Bufs
          /\ Block * (Len(heard) + Len(queue)) = frame
      BY <2>1 DEF ToolInv, Ring
    <2>3. Len(queue) = 0
      <3> SUFFICES ASSUME Len(queue) # 0 PROVE FALSE
        OBVIOUS
      <3>1. 1 \in 1 .. Len(queue) /\ queue[1] \in Bufs
        BY <1>1, <2>2
      <3> QED
        BY <1>3, <3>1 DEF FinishWaveOut, Drained, Free
    <2>4. Block * Len(heard) = frame
      BY <1>1, <2>2, <2>3
    <2>5. "card" \notin outs
      BY <2>1
    <2> QED
      BY <1>1, <2>1, <2>4, <2>5 DEF AllHeard
  <1>4. CASE stage # "song"
    <2>1. stage = "closed"
      BY <1>4, OpeningFacts DEF ToolInv, ToolNext, Tool, OpeningStep, Sending, DeliverFile,
         DeliverCard, DeliverDry, DeliverRefused, DeliverWaveOut, Finish, FinishWaveOut, Play
    <2>2. queue = <<>> /\ AllHeard
      BY <2>1 DEF ToolInv, Quiet
    <2> QED
      BY <2>1, <2>2 DEF ToolNext, Tool, OpenSynth, SynthFails, OpenCore, CoreFails, OutputFails,
         Start, Sending, DeliverFile, DeliverCard, DeliverDry, DeliverRefused,
         DeliverWaveOut, Finish, FinishWaveOut, Play
  <1> QED
    BY <1>2, <1>3, <1>4 DEF ToolNext, Tool, OpenSynth, SynthFails, OpenCore, CoreFails,
       OutputFails, Start, Sending, DeliverFile, DeliverCard, DeliverDry, DeliverRefused,
       DeliverWaveOut, Play, tool

LEMMA ToolNextInv == ToolInv /\ [ToolNext]_allvars => ToolInv'
  <1> SUFFICES ASSUME ToolInv, [ToolNext]_allvars PROVE ToolInv'
    OBVIOUS
  <1>1. LoopInv'
    BY ToolStepsLoop, LoopNext DEF ToolInv
  <1>2. CASE ToolNext
    <2>1. TypeOK'
      BY <1>1 DEF LoopInv
    <2> QED
      BY <1>1, <1>2, <2>1, ToolTypesNext, StagesNext, FileNext, RingNext, CardNext, AllHeardNext
         DEF ToolInv
  <1>3. CASE UNCHANGED allvars
    <2>1. UNCHANGED <<frame, frames, refused, pc, song, stage, outs, open, wav, pcm, wb, queue,
                      dry, heard>>
      BY <1>3 DEF allvars, loop, vars, args, tool, device
    <2>2. TypeOK'
      BY <1>1 DEF LoopInv
    <2>3. ToolTypeOK'
      BY <2>1, <2>2 DEF ToolInv, ToolTypeOK
    <2>4. Opening' /\ Quiet' /\ Silent' /\ Over'
      BY <2>1 DEF ToolInv, Opening, Quiet, Silent, Over
    <2>5. FileHolds' /\ AllHeard'
      BY <2>1 DEF ToolInv, FileHolds, FileSaysWhatItHolds, AllHeard
    <2>6. Ring' /\ Card'
      BY <2>1 DEF ToolInv, Ring, Card, Rising
    <2> QED
      BY <1>1, <2>3, <2>4, <2>5, <2>6 DEF ToolInv
  <1> QED BY <1>2, <1>3

LEMMA InvDelivers == ToolInv => Delivered
  <1> SUFFICES ASSUME ToolInv PROVE Delivered
    OBVIOUS
  <1>1. PlaysOut /\ FileSaysWhatItHolds /\ AllHeard
    BY DEF ToolInv, LoopInv, Ahead, FileHolds
  <1>2. outs \in Sinks /\ Len(heard) \in Nat
    BY DEF ToolInv, ToolTypeOK
  <1>3. ASSUME NEW i \in 1 .. Len(heard) - 1 PROVE heard[i] < heard[i + 1]
    <2>1. i \in 1 .. Len(heard) /\ i + 1 \in 1 .. Len(heard) /\ i < i + 1
      BY <1>2
    <2>2. CASE "card" \in outs
      BY <2>1, <2>2 DEF ToolInv, Card, Rising
    <2>3. CASE outs = {"waveout"}
      <3>1. heard[i] = Block * (i - 1) /\ heard[i + 1] = Block * ((i + 1) - 1)
        BY <2>1, <2>3 DEF ToolInv, Ring
      <3>2. i - 1 \in Nat /\ (i + 1) - 1 \in Nat /\ i - 1 < (i + 1) - 1
        BY <1>2
      <3> QED BY <3>1, <3>2, BlockRise
    <2>4. CASE outs = {"wav"}
      <3>1. Len(heard) = 0
        BY <2>4 DEF ToolInv, Silent
      <3> QED BY <2>1, <3>1
    <2> QED BY <1>2, <2>2, <2>3, <2>4 DEF Sinks
  <1> QED
    BY <1>1, <1>3 DEF Delivered, HeardInOrder

(* A renderer's state is of its types. *)
THEOREM ToolTypes == ToolSpec => []ToolTypeOK
  <1>1. ToolInv => ToolTypeOK
    BY DEF ToolInv
  <1> QED
    BY <1>1, ToolInitInv, ToolNextInv, PTL DEF ToolSpec

(* What was rendered arrives, whatever the song, the outputs, the number of
   waveOut's buffers and the depth of the card: the song plays out its tail,
   the file says what it holds, and a device plays each block once, in order,
   to the song's end but for what a card ran dry at or still held. *)
THEOREM RenderDelivers == ToolSpec => []Delivered
  BY ToolInitInv, ToolNextInv, InvDelivers, PTL DEF ToolSpec

(* Each engine of a renderer is sent the events that are its own, each once
   and in the song's order, whatever becomes of the outputs. *)
THEOREM RenderRoutes == ToolSpec => []Routed
  <1>1. ToolInit => Routed
    BY RoutedInit DEF ToolInit
  <1>2. ToolInv /\ Routed /\ [ToolNext]_allvars => Routed'
    BY ToolStepsLoop, RoutedNext DEF ToolInv, LoopInv
  <1> QED
    BY <1>1, <1>2, ToolInitInv, ToolNextInv, PTL DEF ToolSpec

-----------------------------------------------------------------------------

(* Every event is sent ahead of its block, through any tempo changes, songs
   and sizes: the one whose boundary is nearest its time with nearest-block
   timing; with block-start timing one that is not late for it, and early by a
   block and a frame for each event at most. *)
THEOREM RenderOnTime == ToolSpec => []InItsBlock
  <1>1. ToolInit => Timed /\ InItsBlock
    BY TimedInit DEF ToolInit
  <1>2. ToolInv /\ Timed /\ InItsBlock /\ [ToolNext]_allvars => Timed' /\ InItsBlock'
    BY ToolStepsLoop, TimedNext DEF ToolInv
  <1> QED
    BY <1>1, <1>2, ToolInitInv, ToolNextInv, PTL DEF ToolSpec

(***************************************************************************)
(* The song file: what a track says of its events.                         *)
(***************************************************************************)

LEMMA ItemTyped ==
  ASSUME NEW x \in Items
  PROVE  /\ x.delta \in Nat
         /\ x.kind = "message" => x.arg \in Statuses \cup {System, None} /\ x.good \in BOOLEAN
         /\ x.kind = "port" => x.arg \in {0, 1}
         /\ x.kind \in {"message", "tempo", "sysex", "port", "name", "meta",
                        "empty sysex", "end", "damage"}
         /\ x.kind \notin {"message", "port"} => x.arg = None
  <1>1. x \in Item
    BY FileAssumption
  <1>2. CASE x \in [kind : {"message"}, delta : Deltas,
                    arg : Statuses \cup {System, None}, good : BOOLEAN]
    BY <1>2, FileAssumption
  <1>3. CASE x \in [kind : {"tempo", "sysex"}, delta : Deltas, arg : {None}, good : {TRUE}]
    BY <1>3, FileAssumption
  <1>4. CASE x \in [kind : {"port"}, delta : Deltas, arg : {0, 1}, good : {TRUE}]
    BY <1>4, FileAssumption
  <1>5. CASE x \in [kind : {"name", "meta", "empty sysex", "end", "damage"},
                    delta : Deltas, arg : {None}, good : {TRUE}]
    BY <1>5, FileAssumption
  <1> QED
    BY <1>1, <1>2, <1>3, <1>4, <1>5, Zenon DEF Item

(* Places of a track have a last one. *)
LEMMA LatestIs ==
  ASSUME NEW n \in Nat, NEW places, places \subseteq 1 .. n, places # {}
  PROVE  Latest(places) \in places /\ \A j \in places : j <= Latest(places)
  <1> DEFINE D == {d \in Nat : n - d \in places}
  <1>1. D # {}
    <2>1. PICK j \in places : TRUE
      OBVIOUS
    <2>2. n - (n - j) = j /\ n - j \in Nat
      BY <2>1
    <2> QED
      BY <2>1, <2>2
  <1>2. PICK d \in D : \A e \in D : ~ e < d
    <2>1. D \subseteq Nat
      OBVIOUS
    <2> HIDE DEF D
    <2> QED BY <1>1, <2>1, Least
  <1>3. \A j \in places : j <= n - d
    <2> TAKE j \in places
    <2>1. n - (n - j) = j /\ n - j \in Nat
      OBVIOUS
    <2>2. ~ n - j < d
      BY <1>2, <2>1
    <2> QED
      BY <2>1, <2>2
  <1>4. \E i \in places : \A j \in places : j <= i
    BY <1>3
  <1> QED
    BY <1>4, Zenon DEF Latest

LEMMA LatestNext ==
  ASSUME NEW n \in Nat, NEW places, places \subseteq 1 .. n
  PROVE  Latest(places \cup {n + 1}) = n + 1
  <1> DEFINE all == places \cup {n + 1}
             last == Latest(all)
  <1>1. last \in all /\ \A j \in all : j <= last
    BY LatestIs, n + 1 \in Nat, all \subseteq 1 .. n + 1, all # {}
  <1>2. n + 1 <= last
    BY <1>1
  <1>3. last \in 1 .. n \/ last = n + 1
    BY <1>1
  <1> HIDE DEF last
  <1>4. last = n + 1
    BY <1>2, <1>3
  <1> QED
    BY <1>4 DEF last

(* The sums of the deltas of a track, up to its n-th event. *)
Summing(f, s, n) == f = [j \in 0 .. n |-> IF j = 0 THEN 0 ELSE f[j - 1] + s[j].delta]

LEMMA SummingExists ==
  ASSUME NEW s, NEW n \in Nat
  PROVE  \E f : Summing(f, s, n)
  <1> DEFINE S == {m \in Nat : \E f : Summing(f, s, m)}
  <1>1. 0 \in S
    <2> DEFINE f == [j \in 0 .. 0 |-> 0]
    <2>1. Summing(f, s, 0)
      BY DEF Summing
    <2> QED
      BY <2>1
  <1>2. ASSUME NEW m \in Nat, m \in S
        PROVE  m + 1 \in S
    <2>1. PICK f : Summing(f, s, m)
      BY <1>2
    <2> DEFINE g == [j \in 0 .. m + 1 |-> IF j = m + 1 THEN f[m] + s[m + 1].delta
                                          ELSE f[j]]
    <2>2. ASSUME NEW j \in 0 .. m + 1
          PROVE  g[j] = IF j = 0 THEN 0 ELSE g[j - 1] + s[j].delta
      <3>1. CASE j = m + 1
        BY <3>1
      <3>2. CASE j \in 0 .. m
        <4>1. f[j] = IF j = 0 THEN 0 ELSE f[j - 1] + s[j].delta
          BY <2>1, <3>2 DEF Summing
        <4> QED
          BY <3>2, <4>1
      <3> QED
        BY <3>1, <3>2
    <2>3. Summing(g, s, m + 1)
      BY <2>2, Zenon DEF Summing
    <2> QED
      BY <2>3
  <1>3. Nat \subseteq S
    <2> HIDE DEF S
    <2> QED BY <1>1, <1>2, SetInduction
  <1> QED
    BY <1>3

LEMMA TickIsSum ==
  ASSUME NEW s, NEW n \in Nat
  PROVE  \E f : Summing(f, s, n) /\ TickOf(s, n) = f[n]
  <1> DEFINE g == CHOOSE f : Summing(f, s, n)
  <1>1. Summing(g, s, n)
    BY SummingExists
  <1>2. TickOf(s, n) = g[n]
    BY Zenon DEF TickOf, Summing
  <1> QED
    BY <1>1, <1>2

(* Tracks with the same first events have the same sums over them. *)
LEMMA SummingAgree ==
  ASSUME NEW s, NEW u, NEW m \in Nat, NEW n \in Nat,
         NEW f, NEW g, Summing(f, s, m), Summing(g, u, n),
         NEW l \in Nat, l <= m, l <= n,
         \A j \in 1 .. l : s[j].delta = u[j].delta
  PROVE  f[l] = g[l]
  <1> DEFINE S == {k \in Nat : k <= l => f[k] = g[k]}
  <1>1. 0 \in S
    BY DEF Summing
  <1>2. ASSUME NEW k \in Nat, k \in S
        PROVE  k + 1 \in S
    <2> SUFFICES ASSUME k + 1 <= l
                 PROVE  f[k + 1] = g[k + 1]
      OBVIOUS
    <2>1. k + 1 \in 0 .. m /\ k + 1 \in 0 .. n /\ k + 1 # 0 /\ (k + 1) - 1 = k
      OBVIOUS
    <2>2. f[k + 1] = f[k] + s[k + 1].delta
      BY <2>1 DEF Summing
    <2>3. g[k + 1] = g[k] + u[k + 1].delta
      BY <2>1 DEF Summing
    <2>4. s[k + 1].delta = u[k + 1].delta
      BY k + 1 \in 1 .. l
    <2> QED
      BY <1>2, <2>2, <2>3, <2>4
  <1>3. Nat \subseteq S
    <2> HIDE DEF S
    <2> QED BY <1>1, <1>2, SetInduction
  <1> QED
    BY <1>3

LEMMA TickNext ==
  ASSUME NEW s, NEW n \in Nat
  PROVE  TickOf(s, 0) = 0 /\ TickOf(s, n + 1) = TickOf(s, n) + s[n + 1].delta
  <1>1. PICK f : Summing(f, s, n + 1) /\ TickOf(s, n + 1) = f[n + 1]
    BY TickIsSum, n + 1 \in Nat
  <1>2. PICK g : Summing(g, s, n) /\ TickOf(s, n) = g[n]
    BY TickIsSum
  <1>3. PICK h : Summing(h, s, 0) /\ TickOf(s, 0) = h[0]
    BY TickIsSum, 0 \in Nat
  <1>4. f[n] = g[n]
    BY <1>1, <1>2, SummingAgree, n + 1 \in Nat, n <= n + 1, n <= n
  <1>5. f[n + 1] = f[n] + s[n + 1].delta
    BY <1>1 DEF Summing
  <1>6. h[0] = 0
    BY <1>3 DEF Summing
  <1> QED
    BY <1>1, <1>2, <1>3, <1>4, <1>5, <1>6

(* s is the beginning of u. *)
Begins(s, u) == Len(s) <= Len(u) /\ \A j \in 1 .. Len(s) : u[j] = s[j]

(* What a track says of the events it has does not change as it is read on. *)
LEMMA SaidForGood ==
  ASSUME NEW s \in Seq(Items), NEW u \in Seq(Items), Begins(s, u),
         NEW i \in 1 .. Len(s)
  PROVE  /\ TickOf(u, i) = TickOf(s, i)
         /\ StatusAt(u, i) = StatusAt(s, i)
         /\ Playable(u, i) <=> Playable(s, i)
  <1>1. TickOf(u, i) = TickOf(s, i)
    <2>1. PICK f : Summing(f, s, i) /\ TickOf(s, i) = f[i]
      BY TickIsSum, i \in Nat
    <2>2. PICK g : Summing(g, u, i) /\ TickOf(u, i) = g[i]
      BY TickIsSum, i \in Nat
    <2>3. f[i] = g[i]
      <3>1. \A j \in 1 .. i : s[j].delta = u[j].delta
        BY DEF Begins
      <3> QED
        BY <2>1, <2>2, <3>1, SummingAgree, i \in Nat, i <= i
    <2> QED
      BY <2>1, <2>2, <2>3
  <1>2. RunsOn(u, i - 1) = RunsOn(s, i - 1)
    <2> DEFINE given(w) == {j \in 1 .. i - 1 : w[j].kind = "message" /\ w[j].arg \in Statuses}
    <2>1. \A j \in 1 .. i - 1 : u[j] = s[j]
      BY DEF Begins
    <2>2. given(u) = given(s)
      BY <2>1
    <2>3. given(s) # {} => Latest(given(s)) \in 1 .. i - 1
      BY LatestIs, i - 1 \in Nat, given(s) \subseteq 1 .. i - 1
    <2> QED
      BY <2>1, <2>2, <2>3 DEF RunsOn
  <1>3. u[i] = s[i]
    BY DEF Begins
  <1>4. StatusAt(u, i) = StatusAt(s, i)
    BY <1>2, <1>3 DEF StatusAt
  <1> QED
    BY <1>1, <1>3, <1>4 DEF Playable

LEMMA TickAppend ==
  ASSUME NEW s \in Seq(Items), NEW x \in Items
  PROVE  TickOf(Append(s, x), Len(s) + 1) = TickOf(s, Len(s)) + x.delta
  <1> DEFINE u == Append(s, x)
             n == Len(s)
  <1>1. n \in Nat /\ u \in Seq(Items) /\ Len(u) = n + 1 /\ u[n + 1] = x
        /\ \A j \in 1 .. n : u[j] = s[j]
    OBVIOUS
  <1>2. TickOf(u, n + 1) = TickOf(u, n) + x.delta
    BY <1>1, TickNext
  <1>3. Begins(s, u)
    BY <1>1 DEF Begins
  <1>4. CASE n = 0
    <2>1. TickOf(u, 0) = 0 /\ TickOf(s, 0) = 0
      BY TickNext, 0 \in Nat
    <2> QED
      BY <1>2, <1>4, <2>1
  <1>5. CASE n # 0
    <2>1. n \in 1 .. Len(s)
      BY <1>1, <1>5
    <2>2. TickOf(u, n) = TickOf(s, n)
      BY <1>1, <1>3, <2>1, SaidForGood
    <2> QED
      BY <1>2, <2>2
  <1> QED
    BY <1>4, <1>5

(* An event more: what the track runs on and its port after it. *)
LEMMA RunsOnNext ==
  ASSUME NEW s \in Seq(Items), NEW x \in Items
  PROVE  LET u == Append(s, x)
         IN /\ StatusAt(u, Len(u)) = IF x.arg # None THEN x.arg ELSE RunsOn(s, Len(s))
            /\ RunsOn(u, Len(u)) = IF x.kind = "message" /\ x.arg \in Statuses
                                   THEN x.arg ELSE RunsOn(s, Len(s))
  <1> DEFINE u == Append(s, x)
             n == Len(s)
             given(w, m) == {j \in 1 .. m : w[j].kind = "message" /\ w[j].arg \in Statuses}
  <1>1. n \in Nat /\ Len(u) = n + 1 /\ u[n + 1] = x /\ \A j \in 1 .. n : u[j] = s[j]
    OBVIOUS
  <1>2. given(u, n) = given(s, n)
    BY <1>1
  <1>3. given(s, n) # {} => Latest(given(s, n)) \in 1 .. n
    BY <1>1, LatestIs, given(s, n) \subseteq 1 .. n
  <1>4. RunsOn(u, n) = RunsOn(s, n)
    BY <1>1, <1>2, <1>3 DEF RunsOn
  <1>5. StatusAt(u, n + 1) = IF x.arg # None THEN x.arg ELSE RunsOn(u, n)
    BY <1>1 DEF StatusAt
  <1>6. CASE x.kind = "message" /\ x.arg \in Statuses
    <2>1. given(u, n + 1) = given(s, n) \cup {n + 1}
      BY <1>1, <1>2, <1>6
    <2>2. Latest(given(u, n + 1)) = n + 1
      BY <1>1, <2>1, LatestNext, given(s, n) \subseteq 1 .. n
    <2>3. RunsOn(u, n + 1) = x.arg
      BY <1>1, <2>1, <2>2 DEF RunsOn
    <2> QED
      BY <1>1, <1>4, <1>5, <1>6, <2>3
  <1>7. CASE ~ (x.kind = "message" /\ x.arg \in Statuses)
    <2>1. given(u, n + 1) = given(u, n)
      BY <1>1, <1>7
    <2>2. RunsOn(u, n + 1) = RunsOn(u, n)
      BY <2>1 DEF RunsOn
    <2> QED
      BY <1>1, <1>4, <1>5, <1>7, <2>2
  <1> QED
    BY <1>6, <1>7

(* FF 21 names the port of the track. *)
Explicit(s) == \E j \in 1 .. Len(s) : s[j].kind = "port"

LEMMA PortNext ==
  ASSUME NEW s \in Seq(Items), NEW x \in Items
  PROVE  LET u == Append(s, x)
         IN /\ Explicit(u) <=> Explicit(s) \/ x.kind = "port"
            /\ PortOf(u) = IF x.kind = "port" THEN x.arg
                           ELSE IF x.kind = "name" /\ ~ Explicit(s) THEN 1 ELSE PortOf(s)
  <1> DEFINE u == Append(s, x)
             n == Len(s)
             explicit(w) == {j \in 1 .. Len(w) : w[j].kind = "port"}
  <1>1. n \in Nat /\ Len(u) = n + 1 /\ u[n + 1] = x /\ \A j \in 1 .. n : u[j] = s[j]
    OBVIOUS
  <1>2. Explicit(u) <=> Explicit(s) \/ x.kind = "port"
    BY <1>1 DEF Explicit
  <1>3. CASE x.kind = "port"
    <2>1. explicit(u) = explicit(s) \cup {n + 1}
      BY <1>1, <1>3
    <2>2. Latest(explicit(u)) = n + 1
      BY <1>1, <2>1, LatestNext, explicit(s) \subseteq 1 .. n
    <2>3. PortOf(u) = x.arg
      BY <1>1, <2>1, <2>2 DEF PortOf
    <2> QED
      BY <1>2, <1>3, <2>3
  <1>4. CASE x.kind # "port"
    <2>1. explicit(u) = explicit(s)
      BY <1>1, <1>4
    <2>2. CASE explicit(s) # {}
      <3>1. Latest(explicit(s)) \in 1 .. n
        BY <1>1, <2>2, LatestIs, explicit(s) \subseteq 1 .. n
      <3>2. PortOf(u) = PortOf(s)
        BY <1>1, <2>1, <2>2, <3>1 DEF PortOf
      <3>3. Explicit(s)
        BY <2>2 DEF Explicit
      <3> QED
        BY <1>2, <1>4, <3>2, <3>3
    <2>3. CASE explicit(s) = {}
      <3>1. ~ Explicit(s)
        BY <2>3 DEF Explicit
      <3>2. PortOf(s) = IF \E j \in 1 .. n : s[j].kind = "name" THEN 1 ELSE 0
        BY <2>3 DEF PortOf
      <3>3. PortOf(u) = IF \E j \in 1 .. n + 1 : u[j].kind = "name" THEN 1 ELSE 0
        BY <1>1, <2>1, <2>3 DEF PortOf
      <3>4. (\E j \in 1 .. n + 1 : u[j].kind = "name")
            <=> x.kind = "name" \/ \E j \in 1 .. n : s[j].kind = "name"
        BY <1>1
      <3> QED
        BY <1>2, <1>4, <3>1, <3>2, <3>3, <3>4
    <2> QED
      BY <2>2, <2>3
  <1> QED
    BY <1>3, <1>4

(***************************************************************************)
(* What the song holds while the file is read: event k has order k - 1 and *)
(* comes from a later place than the one before it, is what its track says *)
(* of it, and no place that plays is passed over.  Only the track that is  *)
(* read has no port yet, and its locals are what it says so far.           *)
(***************************************************************************)

PlaceBefore(p, q) == p[1] < q[1] \/ (p[1] = q[1] /\ p[2] < q[2])

LEMMA PlayedTyped ==
  ASSUME NEW e \in PlayedEvent
  PROVE  e.tick \in Nat /\ e.from \in Nat \X Nat /\ e.from = <<e.from[1], e.from[2]>>
  BY DEF PlayedEvent

(* What the tracks r say of event e, but for its port. *)
Said(e, r) ==
  /\ e \in PlayedEvent
  /\ e.from[1] \in 1 .. Len(r) /\ e.from[2] \in 1 .. Len(r[e.from[1]])
  /\ Playable(r[e.from[1]], e.from[2])
  /\ e.tick = TickOf(r[e.from[1]], e.from[2])
  /\ e.kind = "message" => e.status = StatusAt(r[e.from[1]], e.from[2])

InFileOrder ==
  /\ \A k \in 1 .. Len(ev) : ev[k].order = k - 1
  /\ \A k, l \in 1 .. Len(ev) : k < l => PlaceBefore(ev[k].from, ev[l].from)

(* Place i of track t is in the song. *)
Held(t, i) == \E k \in 1 .. Len(ev) : ev[k].from = <<t, i>>

NonePassed ==
  \A t \in 1 .. Len(read) : \A i \in 1 .. Len(read[t]) : Playable(read[t], i) => Held(t, i)

PortsGiven ==
  \A k \in 1 .. Len(ev) :
    IF parsing = "track" /\ k > first THEN ev[k].from[1] = Here /\ ev[k].port = 0
    ELSE /\ ev[k].port = PortOf(read[ev[k].from[1]])
         /\ parsing = "track" => ev[k].from[1] < Here

Locals ==
  parsing = "track" =>
    /\ Here > 0
    /\ first <= Len(ev)
    /\ tick = TickOf(read[Here], Len(read[Here]))
    /\ running = RunsOn(read[Here], Len(read[Here]))
    /\ port = PortOf(read[Here])
    /\ port_from_meta <=> Explicit(read[Here])

Gathered ==
  /\ \A k \in 1 .. Len(ev) : Said(ev[k], read)
  /\ InFileOrder
  /\ NonePassed
  /\ PortsGiven
  /\ Locals

SongInv ==
  /\ SongTypeOK
  /\ parsing \in {"chunk", "track"} => Gathered
  /\ AsWritten
  /\ InOrder

(* Reading on takes nothing back of what was said of an event. *)
LEMMA SaidStays ==
  ASSUME NEW r \in Seq(Seq(Items)), NEW q \in Seq(Seq(Items)),
         Len(r) <= Len(q), \A t \in 1 .. Len(r) : Begins(r[t], q[t]),
         NEW e, Said(e, r)
  PROVE  Said(e, q)
  <1> DEFINE t == e.from[1]
             i == e.from[2]
  <1>1. t \in 1 .. Len(r) /\ i \in 1 .. Len(r[t]) /\ t \in 1 .. Len(q)
    BY DEF Said
  <1>2. r[t] \in Seq(Items) /\ q[t] \in Seq(Items) /\ Begins(r[t], q[t])
    BY <1>1
  <1>3. i \in 1 .. Len(q[t])
    <2>1. Len(r[t]) <= Len(q[t]) /\ Len(r[t]) \in Nat /\ Len(q[t]) \in Nat
      BY <1>2 DEF Begins
    <2>2. \A j \in 1 .. Len(r[t]) : j \in 1 .. Len(q[t])
      BY <2>1
    <2> QED
      BY <1>1, <2>2, Zenon
  <1>4. /\ TickOf(q[t], i) = TickOf(r[t], i)
        /\ StatusAt(q[t], i) = StatusAt(r[t], i)
        /\ Playable(q[t], i) <=> Playable(r[t], i)
    BY <1>1, <1>2, SaidForGood
  <1> QED
    BY <1>1, <1>3, <1>4, Zenon DEF Said

LEMMA SongInitInv == SongInit => SongInv
  <1> SUFFICES ASSUME SongInit PROVE SongInv
    OBVIOUS
  <1>1. ev = <<>> /\ read = <<>> /\ parsing = "chunk"
    BY DEF SongInit
  <1>2. SongTypeOK
    <2>1. port_from_meta \in BOOLEAN
      BY DEF SongInit
    <2>2. ev \in Seq(PlayedEvent) /\ read \in Seq(Seq(Items))
      BY <1>1
    <2> QED
      BY <2>1, <2>2 DEF SongInit, SongTypeOK
  <1>3. Gathered
    BY <1>1 DEF Gathered, InFileOrder, NonePassed, PortsGiven, Locals
  <1> QED
    BY <1>1, <1>2, <1>3 DEF SongInv, AsWritten, InOrder

(* A step that brings no event and no place that plays. *)
LEMMA NothingNew ==
  ASSUME SongTypeOK, Gathered, SongTypeOK',
         Len(ev') = Len(ev),
         \A k \in 1 .. Len(ev) :
           /\ ev'[k].from = ev[k].from /\ ev'[k].tick = ev[k].tick
           /\ ev'[k].order = ev[k].order /\ ev'[k].kind = ev[k].kind
           /\ ev'[k].status = ev[k].status,
         Len(read) <= Len(read'),
         \A t \in 1 .. Len(read) : Begins(read[t], read'[t]),
         \A t \in 1 .. Len(read') : \A i \in 1 .. Len(read'[t]) :
           Playable(read'[t], i) => t \in 1 .. Len(read) /\ i \in 1 .. Len(read[t])
  PROVE  /\ \A k \in 1 .. Len(ev') : Said(ev'[k], read')
         /\ InFileOrder'
         /\ NonePassed'
  <1>1. read \in Seq(Seq(Items)) /\ read' \in Seq(Seq(Items)) /\ ev' \in Seq(PlayedEvent)
    BY DEF SongTypeOK
  <1>2. ASSUME NEW k \in 1 .. Len(ev')
        PROVE  Said(ev'[k], read')
    <2>1. Said(ev[k], read)
      BY DEF Gathered
    <2>2. Said(ev[k], read')
      BY <1>1, <2>1, SaidStays
    <2>3. ev'[k] \in PlayedEvent
      BY <1>1
    <2>4. /\ ev'[k].from = ev[k].from /\ ev'[k].tick = ev[k].tick
          /\ ev'[k].kind = ev[k].kind /\ ev'[k].status = ev[k].status
      OBVIOUS
    <2> QED
      BY <2>2, <2>3, <2>4, Zenon DEF Said
  <1>3. InFileOrder'
    BY DEF Gathered, InFileOrder
  <1>4. NonePassed'
    <2> SUFFICES ASSUME NEW t \in 1 .. Len(read'), NEW i \in 1 .. Len(read'[t]),
                        Playable(read'[t], i)
                 PROVE  \E k \in 1 .. Len(ev') : ev'[k].from = <<t, i>>
      BY DEF NonePassed, Held
    <2>1. t \in 1 .. Len(read) /\ i \in 1 .. Len(read[t])
      OBVIOUS
    <2>2. Playable(read[t], i)
      <3>1. read[t] \in Seq(Items) /\ read'[t] \in Seq(Items) /\ Begins(read[t], read'[t])
        BY <1>1, <2>1
      <3> QED
        BY <2>1, <3>1, SaidForGood
    <2>3. PICK k \in 1 .. Len(ev) : ev[k].from = <<t, i>>
      BY <2>1, <2>2 DEF Gathered, NonePassed, Held
    <2> QED
      BY <2>3
  <1> QED
    BY <1>2, <1>3, <1>4

(* One event more is read of the track. *)
LEMMA ReadsOn ==
  ASSUME SongTypeOK, Gathered, NEW item \in Items, Reads(item)
  PROVE  LET s == read[Here]
         IN /\ s \in Seq(Items) /\ read' \in Seq(Seq(Items)) /\ Len(read') = Len(read)
            /\ Here \in 1 .. Len(read) /\ read'[Here] = Append(s, item)
            /\ \A t \in 1 .. Len(read) : t # Here => read'[t] = read[t]
            /\ \A t \in 1 .. Len(read) : Begins(read[t], read'[t])
            /\ first' = first /\ tick' \in Nat
            /\ tick' = TickOf(read'[Here], Len(s) + 1)
            /\ Len(s) \in Nat /\ Len(read'[Here]) = Len(s) + 1
            /\ parsing = "track"
  <1> DEFINE s == read[Here]
  <1>1. /\ parsing = "track" /\ read' = [read EXCEPT ![Here] = Append(@, item)]
        /\ tick' = tick + item.delta /\ first' = first
    BY DEF Reads
  <1>2. Here \in 1 .. Len(read) /\ read \in Seq(Seq(Items))
    BY <1>1 DEF SongTypeOK, Gathered, Locals, Here
  <1>3. s \in Seq(Items) /\ Append(s, item) \in Seq(Items) /\ Len(s) \in Nat
        /\ Len(Append(s, item)) = Len(s) + 1
    BY <1>2
  <1>4. /\ read' \in Seq(Seq(Items)) /\ Len(read') = Len(read)
        /\ read'[Here] = Append(s, item)
        /\ \A t \in 1 .. Len(read) : t # Here => read'[t] = read[t]
    BY <1>1, <1>2, <1>3
  <1>5. \A t \in 1 .. Len(read) : Begins(read[t], read'[t])
    <2> TAKE t \in 1 .. Len(read)
    <2>1. CASE t = Here
      BY <1>3, <1>4, <2>1 DEF Begins
    <2>2. CASE t # Here
      <3>1. read'[t] = read[t] /\ read[t] \in Seq(Items)
        BY <1>2, <1>4, <2>2
      <3> QED
        BY <3>1 DEF Begins
    <2> QED
      BY <2>1, <2>2
  <1>6. tick' = TickOf(read'[Here], Len(s) + 1)
    BY <1>1, <1>3, <1>4, TickAppend DEF Gathered, Locals
  <1>7. tick' \in Nat
    <2>1. item.delta \in Nat
      BY ItemTyped
    <2> QED
      BY <1>1, <2>1 DEF SongTypeOK
  <1> QED
    BY <1>1, <1>2, <1>3, <1>4, <1>5, <1>6, <1>7

(* What the track says of an event just read. *)
LEMMA SaidOfItem ==
  ASSUME NEW s \in Seq(Items), NEW item \in Items
  PROVE  LET u == Append(s, item)
             status == IF item.arg # None THEN item.arg ELSE RunsOn(s, Len(s))
         IN /\ StatusAt(u, Len(s) + 1) = status
            /\ Playable(u, Len(s) + 1) <=> \/ item.kind \in {"tempo", "sysex"}
                                           \/ /\ item.kind = "message" /\ item.good
                                              /\ status # None
  <1> DEFINE u == Append(s, item)
  <1>1. Len(u) = Len(s) + 1 /\ u[Len(s) + 1] = item
    OBVIOUS
  <1>2. StatusAt(u, Len(s) + 1) = IF item.arg # None THEN item.arg ELSE RunsOn(s, Len(s))
    BY <1>1, RunsOnNext
  <1> QED
    BY <1>1, <1>2, Zenon DEF Playable

LEMMA PortedIs ==
  ASSUME SongTypeOK
  PROVE  /\ Ported \in Seq(PlayedEvent) /\ Len(Ported) = Len(ev)
         /\ \A k \in 1 .. Len(ev) :
              /\ Ported[k].from = ev[k].from /\ Ported[k].tick = ev[k].tick
              /\ Ported[k].order = ev[k].order /\ Ported[k].kind = ev[k].kind
              /\ Ported[k].status = ev[k].status
              /\ Ported[k].port = IF port # 0 /\ k > first THEN port ELSE ev[k].port
  <1>1. ev \in Seq(PlayedEvent) /\ port \in {0, 1}
    BY DEF SongTypeOK
  <1>2. ASSUME NEW k \in 1 .. Len(ev)
        PROVE  /\ Ported[k] \in PlayedEvent
               /\ Ported[k].from = ev[k].from /\ Ported[k].tick = ev[k].tick
               /\ Ported[k].order = ev[k].order /\ Ported[k].kind = ev[k].kind
               /\ Ported[k].status = ev[k].status
               /\ Ported[k].port = IF port # 0 /\ k > first THEN port ELSE ev[k].port
    <2>1. ev[k] \in PlayedEvent
      BY <1>1
    <2>2. Ported[k] = IF port # 0 /\ k > first THEN [ev[k] EXCEPT !.port = port] ELSE ev[k]
      BY DEF Ported
    <2>3. CASE port # 0 /\ k > first
      BY <1>1, <2>1, <2>2, <2>3 DEF PlayedEvent
    <2>4. CASE ~ (port # 0 /\ k > first)
      BY <2>1, <2>2, <2>4
    <2> QED
      BY <2>3, <2>4
  <1>3. Len(ev) \in Nat
    BY <1>1
  <1>4. Ported = [k \in 1 .. Len(ev) |-> Ported[k]]
    BY DEF Ported
  <1>5. Ported \in Seq(PlayedEvent) /\ Len(Ported) = Len(ev)
    <2> HIDE DEF Ported
    <2> QED BY <1>2, <1>3, <1>4
  <1> QED
    BY <1>2, <1>5

(* A track that is left, at its end or before, gives its events its port. *)
LEMMA TrackLeft ==
  ASSUME SongTypeOK, Gathered, parsing = "track", SongTypeOK',
         ev' = Ported, parsing' = "chunk",
         Len(read') = Len(read),
         \A t \in 1 .. Len(read) : t # Here => read'[t] = read[t],
         PortOf(read'[Here]) = port,
         \A k \in 1 .. Len(ev') : Said(ev'[k], read'), InFileOrder', NonePassed'
  PROVE  Gathered'
  <1>1. PortsGiven'
    <2> SUFFICES ASSUME NEW k \in 1 .. Len(ev)
                 PROVE  ev'[k].port = PortOf(read'[ev'[k].from[1]])
      BY PortedIs DEF PortsGiven
    <2>1. ev'[k].from = ev[k].from
          /\ ev'[k].port = IF port # 0 /\ k > first THEN port ELSE ev[k].port
      BY PortedIs
    <2>2. CASE k > first
      <3>1. ev[k].from[1] = Here /\ ev[k].port = 0
        BY <2>2 DEF Gathered, PortsGiven
      <3> QED
        BY <2>1, <2>2, <3>1
    <2>3. CASE ~ k > first
      <3>1. ev[k].port = PortOf(read[ev[k].from[1]]) /\ ev[k].from[1] < Here
        BY <2>3 DEF Gathered, PortsGiven
      <3>2. ev[k].from[1] \in 1 .. Len(read)
        BY DEF Gathered, Said
      <3>3. ev[k].from[1] # Here
        BY <3>1, <3>2 DEF Here
      <3>4. read'[ev[k].from[1]] = read[ev[k].from[1]]
        BY <3>2, <3>3
      <3> QED
        BY <2>1, <2>3, <3>1, <3>4
    <2> QED
      BY <2>2, <2>3
  <1>2. Locals'
    BY DEF Locals
  <1> QED
    BY <1>1, <1>2 DEF Gathered

(* A track read on keeps the ports of what was there. *)
LEMMA PortsStay ==
  ASSUME SongTypeOK, Gathered, parsing = "track", parsing' = "track",
         Len(read') = Len(read), first' = first,
         \A t \in 1 .. Len(read) : t # Here => read'[t] = read[t],
         NEW k \in 1 .. Len(ev)
  PROVE  IF k > first THEN ev[k].from[1] = Here' /\ ev[k].port = 0
         ELSE ev[k].port = PortOf(read'[ev[k].from[1]]) /\ ev[k].from[1] < Here'
  <1>1. Here' = Here
    BY DEF Here
  <1>2. CASE k > first
    BY <1>1, <1>2 DEF Gathered, PortsGiven
  <1>3. CASE ~ k > first
    <2>1. ev[k].port = PortOf(read[ev[k].from[1]]) /\ ev[k].from[1] < Here
      BY <1>3 DEF Gathered, PortsGiven
    <2>2. ev[k].from[1] \in 1 .. Len(read)
      BY DEF Gathered, Said
    <2>3. ev[k].from[1] # Here
      BY <2>1, <2>2 DEF Here
    <2> QED
      BY <1>1, <1>3, <2>1, <2>2, <2>3
  <1> QED
    BY <1>2, <1>3

LEMMA SongBegin ==
  ASSUME SongInv, BeginTrack
  PROVE  SongInv'
  <1>1. /\ parsing = "chunk" /\ parsing' = "track"
        /\ read' = Append(read, <<>>) /\ ev' = ev /\ first' = Len(ev)
        /\ tick' = 0 /\ running' = None /\ port' = 0 /\ port_from_meta' = FALSE
    BY DEF BeginTrack
  <1>2. SongTypeOK /\ Gathered
    BY <1>1 DEF SongInv
  <1>3. read \in Seq(Seq(Items)) /\ ev \in Seq(PlayedEvent)
    BY <1>2 DEF SongTypeOK
  <1>4. /\ read' \in Seq(Seq(Items)) /\ Len(read') = Len(read) + 1 /\ Len(read) \in Nat
        /\ read'[Len(read) + 1] = <<>>
        /\ \A t \in 1 .. Len(read) : read'[t] = read[t]
    BY <1>1, <1>3
  <1>5. SongTypeOK'
    <2>1. port_from_meta' \in BOOLEAN
      BY <1>1
    <2> QED
      BY <1>1, <1>3, <1>4, <2>1 DEF SongTypeOK
  <1>6. /\ \A k \in 1 .. Len(ev') : Said(ev'[k], read')
        /\ InFileOrder'
        /\ NonePassed'
    <2>1. \A t \in 1 .. Len(read) : Begins(read[t], read'[t])
      <3> TAKE t \in 1 .. Len(read)
      <3>1. read'[t] = read[t] /\ read[t] \in Seq(Items)
        BY <1>3, <1>4
      <3> QED
        BY <3>1 DEF Begins
    <2>2. \A t \in 1 .. Len(read') : \A i \in 1 .. Len(read'[t]) :
            Playable(read'[t], i) => t \in 1 .. Len(read) /\ i \in 1 .. Len(read[t])
      <3> SUFFICES ASSUME NEW t \in 1 .. Len(read'), NEW i \in 1 .. Len(read'[t])
                   PROVE  t \in 1 .. Len(read) /\ i \in 1 .. Len(read[t])
        OBVIOUS
      <3>1. t # Len(read) + 1
        BY <1>4
      <3>2. t \in 1 .. Len(read)
        BY <1>4, <3>1
      <3> QED
        BY <1>4, <3>2
    <2>3. Len(read) <= Len(read') /\ Len(ev') = Len(ev)
      BY <1>1, <1>4
    <2> QED
      BY <1>1, <1>2, <1>5, <2>1, <2>2, <2>3, NothingNew
  <1>7. PortsGiven'
    <2>0. \A k \in 1 .. Len(ev) : ~ k > Len(ev)
      BY <1>3
    <2> SUFFICES ASSUME NEW k \in 1 .. Len(ev)
                 PROVE  ev[k].port = PortOf(read'[ev[k].from[1]]) /\ ev[k].from[1] < Here'
      BY <1>1, <2>0, Zenon DEF PortsGiven
    <2>1. ev[k].from[1] \in 1 .. Len(read)
      BY <1>2 DEF Gathered, Said
    <2>2. ev[k].port = PortOf(read[ev[k].from[1]])
      BY <1>1, <1>2 DEF Gathered, PortsGiven
    <2> QED
      BY <1>4, <2>1, <2>2 DEF Here
  <1>8. Locals'
    <2>1. Here' = Len(read) + 1 /\ read'[Here'] = <<>>
      BY <1>4 DEF Here
    <2>2. TickOf(<<>>, 0) = 0
      BY TickNext, 0 \in Nat
    <2>3. RunsOn(<<>>, 0) = None
      BY DEF RunsOn
    <2>4. PortOf(<<>>) = 0 /\ ~ Explicit(<<>>)
      BY DEF PortOf, Explicit
    <2>5. (read[Here])' = <<>> /\ Len((read[Here])') = 0
      BY <2>1
    <2> QED
      BY <1>1, <1>4, <2>1, <2>2, <2>3, <2>4, <2>5 DEF Locals
  <1> QED
    BY <1>1, <1>5, <1>6, <1>7, <1>8 DEF SongInv, Gathered, AsWritten, InOrder

LEMMA SongTrackEnds ==
  ASSUME SongInv, TrackEnds
  PROVE  SongInv'
  <1>1. /\ parsing = "track" /\ ev' = Ported /\ parsing' = "chunk" /\ read' = read
        /\ tick' = tick /\ running' = running /\ first' = first /\ port' = port
        /\ port_from_meta' = port_from_meta
    BY DEF TrackEnds, track
  <1>2. SongTypeOK /\ Gathered
    BY <1>1 DEF SongInv
  <1>3. SongTypeOK'
    BY <1>1, <1>2, PortedIs DEF SongTypeOK
  <1>4. \A t \in 1 .. Len(read) : Begins(read[t], read'[t])
    <2> TAKE t \in 1 .. Len(read)
    <2>1. read[t] \in Seq(Items)
      BY <1>2 DEF SongTypeOK
    <2> QED
      BY <1>1, <2>1 DEF Begins
  <1>5. Len(read) \in Nat
    BY <1>2 DEF SongTypeOK
  <1>6. /\ \A k \in 1 .. Len(ev') : Said(ev'[k], read')
        /\ InFileOrder'
        /\ NonePassed'
    BY <1>1, <1>2, <1>3, <1>4, <1>5, PortedIs, NothingNew
  <1>7. PortOf(read'[Here]) = port
    BY <1>1, <1>2 DEF Gathered, Locals
  <1>8. Gathered'
    BY <1>1, <1>2, <1>3, <1>6, <1>7, TrackLeft
  <1> QED
    BY <1>1, <1>3, <1>8 DEF SongInv, AsWritten, InOrder

(* An event that stops the track. *)
LEMMA SongStops ==
  ASSUME SongInv, NEW item \in Items, Stops(item),
         item.kind \in {"end", "damage"} \/ (item.kind = "message" /\ item.arg = None /\ running = None)
  PROVE  SongInv'
  <1>1. /\ Reads(item) /\ ev' = Ported /\ parsing' = "chunk" /\ parsing = "track"
        /\ running' = running /\ port' = port /\ port_from_meta' = port_from_meta
    BY DEF Stops, Reads
  <1>2. SongTypeOK /\ Gathered
    BY <1>1 DEF SongInv
  <1> DEFINE s == read[Here]
  <1>3. /\ s \in Seq(Items) /\ read' \in Seq(Seq(Items)) /\ Len(read') = Len(read)
        /\ Here \in 1 .. Len(read) /\ read'[Here] = Append(s, item)
        /\ \A t \in 1 .. Len(read) : t # Here => read'[t] = read[t]
        /\ \A t \in 1 .. Len(read) : Begins(read[t], read'[t])
        /\ first' = first /\ tick' \in Nat
        /\ Len(s) \in Nat /\ Len(read'[Here]) = Len(s) + 1
    BY <1>1, <1>2, ReadsOn
  <1>4. SongTypeOK'
    BY <1>1, <1>2, <1>3, PortedIs DEF SongTypeOK
  <1>5. ~ Playable(read'[Here], Len(s) + 1)
    <2>1. running = RunsOn(s, Len(s))
      BY <1>1, <1>2 DEF Gathered, Locals
    <2>2. Playable(Append(s, item), Len(s) + 1) =>
            item.kind = "message" /\ item.arg = None /\ RunsOn(s, Len(s)) # None
      BY <1>3, SaidOfItem
    <2> QED
      BY <1>3, <2>1, <2>2
  <1>6. /\ \A k \in 1 .. Len(ev') : Said(ev'[k], read')
        /\ InFileOrder'
        /\ NonePassed'
    <2>1. \A t \in 1 .. Len(read') : \A i \in 1 .. Len(read'[t]) :
            Playable(read'[t], i) => t \in 1 .. Len(read) /\ i \in 1 .. Len(read[t])
      <3> SUFFICES ASSUME NEW t \in 1 .. Len(read'), NEW i \in 1 .. Len(read'[t]),
                          Playable(read'[t], i)
                   PROVE  t \in 1 .. Len(read) /\ i \in 1 .. Len(read[t])
        OBVIOUS
      <3>1. CASE t = Here
        <4>1. i \in 1 .. Len(s) + 1 /\ i # Len(s) + 1
          BY <1>3, <1>5, <3>1
        <4>2. i \in 1 .. Len(s)
          BY <1>3, <4>1
        <4> QED
          BY <1>3, <3>1, <4>2
      <3>2. CASE t # Here
        BY <1>3, <3>2
      <3> QED
        BY <3>1, <3>2
    <2>2. Len(read) <= Len(read')
      BY <1>3
    <2> QED
      BY <1>1, <1>2, <1>3, <1>4, <2>1, <2>2, PortedIs, NothingNew
  <1>7. PortOf(read'[Here]) = port
    <2>1. item.kind # "port" /\ item.kind # "name"
      OBVIOUS
    <2>2. PortOf(Append(s, item)) = PortOf(s)
      BY <1>3, <2>1, PortNext
    <2> QED
      BY <1>1, <1>2, <1>3, <2>2 DEF Gathered, Locals
  <1>8. Gathered'
    BY <1>1, <1>2, <1>3, <1>4, <1>6, <1>7, TrackLeft
  <1> QED
    BY <1>1, <1>4, <1>8 DEF SongInv, AsWritten, InOrder

(* What the locals are after an event that does not stop the track. *)
Follows(item) ==
  /\ running' = IF item.kind = "message" /\ item.arg \in Statuses THEN item.arg ELSE running
  /\ port' = IF item.kind = "port" THEN item.arg
             ELSE IF item.kind = "name" /\ ~ port_from_meta THEN 1 ELSE port
  /\ port_from_meta' <=> port_from_meta \/ item.kind = "port"
  /\ port_from_meta' \in BOOLEAN
  /\ parsing' = "track"

LEMMA LocalsFollow ==
  ASSUME SongTypeOK, Gathered, NEW item \in Items, Reads(item), Follows(item),
         ev' \in Seq(PlayedEvent), Len(ev) <= Len(ev')
  PROVE  SongTypeOK' /\ Locals'
  <1> DEFINE s == read[Here]
             u == Append(s, item)
  <1>1. /\ s \in Seq(Items) /\ read' \in Seq(Seq(Items)) /\ Len(read') = Len(read)
        /\ Here \in 1 .. Len(read) /\ read'[Here] = u
        /\ first' = first /\ tick' \in Nat
        /\ tick' = TickOf(read'[Here], Len(s) + 1)
        /\ Len(s) \in Nat /\ Len(read'[Here]) = Len(s) + 1 /\ parsing = "track"
    BY ReadsOn
  <1>2. /\ running = RunsOn(s, Len(s)) /\ port = PortOf(s)
        /\ port_from_meta <=> Explicit(s)
    BY <1>1 DEF Gathered, Locals
  <1>3. running' = RunsOn(u, Len(u))
    BY <1>1, <1>2, RunsOnNext DEF Follows
  <1>4. port' = PortOf(u) /\ (port_from_meta' <=> Explicit(u))
    BY <1>1, <1>2, PortNext DEF Follows
  <1>5. Here' = Here /\ (read[Here])' = u /\ Len(u) = Len(s) + 1
    BY <1>1 DEF Here
  <1>6. Locals'
    <2>1. Here' > 0 /\ Here > 0 /\ tick' = TickOf(u, Len(u))
      BY <1>1, <1>5
    <2>2. first' <= Len(ev')
      BY <1>1 DEF SongTypeOK, Gathered, Locals
    <2> QED
      BY <1>3, <1>4, <1>5, <2>1, <2>2, Zenon DEF Locals
  <1>7. SongTypeOK'
    <2>1. port' \in {0, 1} /\ running' \in Statuses \cup {None}
      BY ItemTyped DEF SongTypeOK, Follows
    <2>2. first' \in Nat
      BY <1>1 DEF SongTypeOK
    <2> QED
      BY <1>1, <2>1, <2>2 DEF SongTypeOK, Follows
  <1> QED
    BY <1>6, <1>7

(* An event that is not played. *)
LEMMA SongPasses ==
  ASSUME SongInv, NEW item \in Items, Reads(item), Follows(item), ev' = ev,
         item.kind \notin {"tempo", "sysex"}, item.kind = "message" => ~ item.good
  PROVE  SongInv'
  <1>1. SongTypeOK /\ Gathered /\ parsing = "track" /\ parsing' = "track"
    BY DEF SongInv, Reads, Follows
  <1> DEFINE s == read[Here]
  <1>2. /\ s \in Seq(Items) /\ read' \in Seq(Seq(Items)) /\ Len(read') = Len(read)
        /\ Here \in 1 .. Len(read) /\ read'[Here] = Append(s, item)
        /\ \A t \in 1 .. Len(read) : t # Here => read'[t] = read[t]
        /\ \A t \in 1 .. Len(read) : Begins(read[t], read'[t])
        /\ first' = first
        /\ Len(s) \in Nat /\ Len(read'[Here]) = Len(s) + 1
    BY <1>1, ReadsOn
  <1>3. SongTypeOK' /\ Locals'
    <2>1. ev' \in Seq(PlayedEvent) /\ Len(ev) <= Len(ev')
      BY <1>1 DEF SongTypeOK
    <2> QED
      BY <1>1, <2>1, LocalsFollow
  <1>4. ~ Playable(read'[Here], Len(s) + 1)
    BY <1>2, SaidOfItem
  <1>5. /\ \A k \in 1 .. Len(ev') : Said(ev'[k], read')
        /\ InFileOrder'
        /\ NonePassed'
    <2>1. \A t \in 1 .. Len(read') : \A i \in 1 .. Len(read'[t]) :
            Playable(read'[t], i) => t \in 1 .. Len(read) /\ i \in 1 .. Len(read[t])
      <3> SUFFICES ASSUME NEW t \in 1 .. Len(read'), NEW i \in 1 .. Len(read'[t]),
                          Playable(read'[t], i)
                   PROVE  t \in 1 .. Len(read) /\ i \in 1 .. Len(read[t])
        OBVIOUS
      <3>1. CASE t = Here
        <4>1. i \in 1 .. Len(s) + 1 /\ i # Len(s) + 1
          BY <1>2, <1>4, <3>1
        <4>2. i \in 1 .. Len(s)
          BY <1>2, <4>1
        <4> QED
          BY <1>2, <3>1, <4>2
      <3>2. CASE t # Here
        BY <1>2, <3>2
      <3> QED
        BY <3>1, <3>2
    <2>2. Len(read) <= Len(read')
      BY <1>2
    <2> QED
      BY <1>1, <1>2, <1>3, <2>1, <2>2, NothingNew
  <1>6. PortsGiven'
    BY <1>1, <1>2, PortsStay DEF PortsGiven
  <1> QED
    BY <1>1, <1>3, <1>5, <1>6 DEF SongInv, Gathered, AsWritten, InOrder

(* An event that is played. *)
LEMMA SongPlays ==
  ASSUME SongInv, NEW item \in Items, Reads(item), Follows(item),
         NEW status, Push(item, status),
         \/ item.kind \in {"tempo", "sysex"} /\ status = None
         \/ /\ item.kind = "message" /\ item.good
            /\ status = IF item.arg = None THEN running ELSE item.arg
            /\ status # None
  PROVE  SongInv'
  <1>1. SongTypeOK /\ Gathered /\ parsing = "track" /\ parsing' = "track"
    BY DEF SongInv, Reads, Follows
  <1> DEFINE s == read[Here]
             i == Len(s) + 1
             e == [tick |-> tick', order |-> Len(ev), kind |-> item.kind,
                   status |-> status, port |-> 0, from |-> <<Here, i>>]
             n == Len(ev)
  <1>2. /\ s \in Seq(Items) /\ read' \in Seq(Seq(Items)) /\ Len(read') = Len(read)
        /\ Here \in 1 .. Len(read) /\ read'[Here] = Append(s, item)
        /\ \A t \in 1 .. Len(read) : t # Here => read'[t] = read[t]
        /\ \A t \in 1 .. Len(read) : Begins(read[t], read'[t])
        /\ first' = first /\ tick' \in Nat
        /\ tick' = TickOf(read'[Here], Len(s) + 1)
        /\ Len(s) \in Nat /\ Len(read'[Here]) = Len(s) + 1
    BY <1>1, ReadsOn
  <1>3. ev' = Append(ev, e) /\ ev \in Seq(PlayedEvent) /\ n \in Nat
    BY <1>1 DEF Push, SongTypeOK
  <1>4. running = RunsOn(s, Len(s)) /\ running \in Statuses \cup {None}
    BY <1>1 DEF Gathered, Locals, SongTypeOK
  <1>5. e \in PlayedEvent
    <2>1. status \in Statuses \cup {System, None}
      BY <1>4, ItemTyped
    <2>2. item.kind \in {"message", "tempo", "sysex"}
      OBVIOUS
    <2>3. <<Here, i>> \in Nat \X Nat
      BY <1>2
    <2> QED
      BY <1>2, <1>3, <2>1, <2>2, <2>3 DEF PlayedEvent
  <1>6. /\ ev' \in Seq(PlayedEvent) /\ Len(ev') = n + 1 /\ ev'[n + 1] = e
        /\ \A k \in 1 .. n : ev'[k] = ev[k]
    BY <1>3, <1>5
  <1>7. SongTypeOK' /\ Locals'
    <2>1. Len(ev) <= Len(ev')
      BY <1>3, <1>6
    <2> QED
      BY <1>1, <1>6, <2>1, LocalsFollow
  <1>8. Said(e, read')
    <2>1. /\ StatusAt(read'[Here], i) = (IF item.arg # None THEN item.arg ELSE running)
          /\ Playable(read'[Here], i)
      BY <1>2, <1>4, SaidOfItem
    <2>2. e.kind = "message" => e.status = StatusAt(read'[Here], i)
      <3>1. e.kind = item.kind /\ e.status = status
        OBVIOUS
      <3> HIDE DEF e
      <3> QED BY <2>1, <3>1
    <2>3. e.from[1] = Here /\ e.from[2] = i /\ e.tick = tick'
      OBVIOUS
    <2>4. Here \in 1 .. Len(read') /\ i \in 1 .. Len(read'[Here])
      BY <1>2
    <2>5. e.tick = TickOf(read'[Here], i)
      BY <1>2, <2>3
    <2> HIDE DEF e, i
    <2> QED
      BY <1>5, <2>1, <2>2, <2>3, <2>4, <2>5, Zenon DEF Said
  <1> HIDE DEF e
  <1>9. \A k \in 1 .. Len(ev') : Said(ev'[k], read')
    <2> TAKE k \in 1 .. Len(ev')
    <2>1. CASE k = n + 1
      BY <1>6, <1>8, <2>1
    <2>2. CASE k # n + 1
      <3>1. k \in 1 .. n /\ ev'[k] = ev[k]
        BY <1>3, <1>6, <2>2
      <3>2. Said(ev[k], read)
        BY <1>1, <3>1 DEF Gathered
      <3>3. read \in Seq(Seq(Items)) /\ Len(read) <= Len(read')
        BY <1>1, <1>2 DEF SongTypeOK
      <3>4. Said(ev[k], read')
        BY <1>2, <3>2, <3>3, SaidStays
      <3> QED
        BY <3>1, <3>4
    <2> QED
      BY <2>1, <2>2
  <1>10. e.from = <<Here, i>> /\ e.order = n /\ e.port = 0
    BY DEF e
  <1>11. \A k \in 1 .. n : PlaceBefore(ev[k].from, <<Here, i>>)
    <2> TAKE k \in 1 .. n
    <2>1. ev[k].from[1] \in 1 .. Len(read) /\ ev[k].from[2] \in 1 .. Len(read[ev[k].from[1]])
      BY <1>1 DEF Gathered, Said
    <2>2. CASE ev[k].from[1] = Here
      <3>1. ev[k].from[2] \in 1 .. Len(s)
        BY <2>1, <2>2
      <3> QED
        BY <1>2, <2>2, <3>1 DEF PlaceBefore
    <2>3. CASE ev[k].from[1] # Here
      <3>1. ev[k].from[1] < Here
        BY <1>2, <2>1, <2>3 DEF Here
      <3> QED
        BY <3>1 DEF PlaceBefore
    <2> QED
      BY <2>2, <2>3
  <1>12. InFileOrder'
    <2>1. \A k \in 1 .. Len(ev') : ev'[k].order = k - 1
      <3> TAKE k \in 1 .. Len(ev')
      <3>1. CASE k = n + 1
        BY <1>3, <1>6, <1>10, <3>1
      <3>2. CASE k # n + 1
        <4>1. k \in 1 .. n
          BY <1>3, <1>6, <3>2
        <4> QED
          BY <1>1, <1>6, <4>1 DEF Gathered, InFileOrder
      <3> QED
        BY <3>1, <3>2
    <2>2. ASSUME NEW k \in 1 .. Len(ev'), NEW l \in 1 .. Len(ev'), k < l
          PROVE  PlaceBefore(ev'[k].from, ev'[l].from)
      <3>1. k \in 1 .. n
        BY <1>3, <1>6, <2>2
      <3>2. CASE l = n + 1
        BY <1>6, <1>10, <1>11, <3>1, <3>2
      <3>3. CASE l # n + 1
        <4>1. l \in 1 .. n
          BY <1>3, <1>6, <3>3
        <4> QED
          BY <1>1, <1>6, <2>2, <3>1, <4>1 DEF Gathered, InFileOrder
      <3> QED
        BY <3>2, <3>3
    <2> QED
      BY <2>1, <2>2 DEF InFileOrder
  <1>13. NonePassed'
    <2> SUFFICES ASSUME NEW t \in 1 .. Len(read'), NEW j \in 1 .. Len(read'[t]),
                        Playable(read'[t], j)
                 PROVE  \E k \in 1 .. Len(ev') : ev'[k].from = <<t, j>>
      BY DEF NonePassed, Held
    <2>1. CASE t = Here /\ j = i
      <3>1. n + 1 \in 1 .. Len(ev') /\ ev'[n + 1].from = <<t, j>>
        BY <1>3, <1>6, <1>10, <2>1
      <3> QED
        BY <3>1
    <2>2. CASE ~ (t = Here /\ j = i)
      <3>1. t \in 1 .. Len(read) /\ j \in 1 .. Len(read[t])
        <4>1. CASE t = Here
          <5>1. j \in 1 .. Len(s) + 1 /\ j # Len(s) + 1
            BY <1>2, <2>2, <4>1
          <5>2. j \in 1 .. Len(s)
            BY <1>2, <5>1
          <5> QED
            BY <1>2, <4>1, <5>2
        <4>2. CASE t # Here
          BY <1>2, <4>2
        <4> QED
          BY <4>1, <4>2
      <3>2. read[t] \in Seq(Items) /\ read'[t] \in Seq(Items) /\ Begins(read[t], read'[t])
        <4>1. read \in Seq(Seq(Items)) /\ read' \in Seq(Seq(Items)) /\ t \in 1 .. Len(read')
          BY <1>1, <1>2 DEF SongTypeOK
        <4>2. read[t] \in Seq(Items) /\ read'[t] \in Seq(Items)
          BY <3>1, <4>1
        <4>3. Begins(read[t], read'[t])
          BY <1>2, <3>1, Zenon
        <4> QED
          BY <4>2, <4>3
      <3>3. Playable(read[t], j)
        BY <3>1, <3>2, SaidForGood
      <3>4. PICK k \in 1 .. n : ev[k].from = <<t, j>>
        BY <1>1, <3>1, <3>3 DEF Gathered, NonePassed, Held
      <3>5. k \in 1 .. Len(ev') /\ ev'[k].from = <<t, j>>
        BY <1>3, <1>6, <3>4
      <3> QED
        BY <3>5
    <2> QED
      BY <2>1, <2>2
  <1>14. PortsGiven'
    <2>1. first <= n
      BY <1>1 DEF Gathered, Locals
    <2> SUFFICES ASSUME NEW k \in 1 .. Len(ev')
                 PROVE  IF k > first THEN ev'[k].from[1] = Here' /\ ev'[k].port = 0
                        ELSE ev'[k].port = PortOf(read'[ev'[k].from[1]]) /\ ev'[k].from[1] < Here'
      BY <1>1, <1>2, Zenon DEF PortsGiven
    <2>2. CASE k = n + 1
      <3>1. k > first
        BY <1>1, <1>3, <2>1, <2>2 DEF SongTypeOK
      <3> QED
        BY <1>2, <1>6, <1>10, <2>2, <3>1 DEF Here
    <2>3. CASE k # n + 1
      <3>1. k \in 1 .. n /\ ev'[k] = ev[k]
        BY <1>3, <1>6, <2>3
      <3> QED
        BY <1>1, <1>2, <3>1, PortsStay
    <2> QED
      BY <2>2, <2>3
  <1> QED
    BY <1>1, <1>7, <1>9, <1>12, <1>13, <1>14 DEF SongInv, Gathered, AsWritten, InOrder

(* The sort moves the events and changes none. *)
LEMMA SongSorts ==
  ASSUME SongInv, SongEnds
  PROVE  SongInv'
  <1>1. /\ parsing = "chunk" /\ ev' \in Sorted /\ read' = read
        /\ parsing' = (IF ev # <<>> THEN "done" ELSE "refused")
        /\ tick' = tick /\ running' = running /\ first' = first /\ port' = port
        /\ port_from_meta' = port_from_meta
    BY DEF SongEnds, track
  <1>2. SongTypeOK /\ Gathered
    BY <1>1 DEF SongInv
  <1> DEFINE n == Len(ev)
             events == {ev[k] : k \in 1 .. n}
  <1>3. ev \in Seq(PlayedEvent) /\ n \in Nat /\ read \in Seq(Seq(Items))
    BY <1>2 DEF SongTypeOK
  <1>4. \A a \in 1 .. n : ev[a] \in PlayedEvent
    BY <1>3
  <1>5. /\ ev' \in [1 .. n -> events] /\ {ev'[k] : k \in 1 .. n} = events
    BY <1>1 DEF Sorted
  <1>6. \A k, l \in 1 .. n : k < l => Before(ev'[k], ev'[l])
    BY <1>1, Zenon DEF Sorted
  <1>7. ev' \in Seq(PlayedEvent) /\ Len(ev') = n
    <2>1. events \subseteq PlayedEvent
      BY <1>3
    <2> QED
      BY <1>3, <1>5, <2>1
  <1>8. \A k \in 1 .. n : \E a \in 1 .. n : ev'[k] = ev[a]
    BY <1>5
  <1>9. \A a \in 1 .. n : \E k \in 1 .. n : ev'[k] = ev[a]
    BY <1>5
  <1>10. SongTypeOK'
    BY <1>1, <1>2, <1>7 DEF SongTypeOK
  <1>11. \A a \in 1 .. n : /\ Said(ev[a], read) /\ ev[a].order = a - 1
                         /\ ev[a].port = PortOf(read[ev[a].from[1]])
                         /\ ev[a].from = <<ev[a].from[1], ev[a].from[2]>>
    <2> TAKE a \in 1 .. n
    <2>1. Said(ev[a], read) /\ ev[a].order = a - 1
      BY <1>2 DEF Gathered, InFileOrder
    <2>2. ev[a].port = PortOf(read[ev[a].from[1]])
      BY <1>1, <1>2 DEF Gathered, PortsGiven
    <2>3. ev[a].from = <<ev[a].from[1], ev[a].from[2]>>
      BY <1>4, PlayedTyped
    <2> QED
      BY <2>1, <2>2, <2>3
  <1>12. ASSUME NEW k \in 1 .. n, NEW l \in 1 .. n, k < l
         PROVE  \E a, b \in 1 .. n : /\ ev'[k] = ev[a] /\ ev'[l] = ev[b]
                                     /\ \/ ev[a].tick < ev[b].tick
                                        \/ ev[a].tick = ev[b].tick /\ a < b
    <2>1. PICK a \in 1 .. n : ev'[k] = ev[a]
      BY <1>8
    <2>2. PICK b \in 1 .. n : ev'[l] = ev[b]
      BY <1>8
    <2>3. Before(ev[a], ev[b])
      BY <1>12, <1>6, <2>1, <2>2, Zenon
    <2>4. ev[a].order = a - 1 /\ ev[b].order = b - 1
      BY <1>11
    <2> QED
      BY <2>1, <2>2, <2>3, <2>4 DEF Before
  <1>13. \A k, l \in 1 .. n : k # l => ev'[k].from # ev'[l].from
    <2>1. ASSUME NEW k \in 1 .. n, NEW l \in 1 .. n, k < l
          PROVE  ev'[k].from # ev'[l].from
      <3>1. PICK a, b \in 1 .. n : /\ ev'[k] = ev[a] /\ ev'[l] = ev[b]
                                    /\ \/ ev[a].tick < ev[b].tick
                                       \/ ev[a].tick = ev[b].tick /\ a < b
        BY <1>12, <2>1
      <3>2. ev[a].tick \in Nat /\ ev[b].tick \in Nat
        BY <1>4, PlayedTyped
      <3>3. a # b
        BY <3>1, <3>2
      <3>4. a < b \/ b < a
        BY <3>3
      <3>5. PlaceBefore(ev[a].from, ev[b].from) \/ PlaceBefore(ev[b].from, ev[a].from)
        BY <1>2, <3>4 DEF Gathered, InFileOrder
      <3>6. ev[a].from \in Nat \X Nat /\ ev[b].from \in Nat \X Nat
        BY <1>4, PlayedTyped
      <3> QED
        BY <3>1, <3>5, <3>6 DEF PlaceBefore
    <2>2. \A k, l \in 1 .. n : k # l => k < l \/ l < k
      OBVIOUS
    <2> QED
      BY <2>1, <2>2
  <1>14. NothingLost'
    <2> DEFINE froms == {ev'[k].from : k \in 1 .. Len(ev')}
               playable == {p \in Positions' : Playable(read'[p[1]], p[2])}
    <2>1. ASSUME NEW p \in froms PROVE p \in playable
      <3>1. PICK k \in 1 .. n : p = ev'[k].from
        BY <1>7
      <3>2. PICK a \in 1 .. n : p = ev[a].from
        BY <1>8, <3>1
      <3>3. /\ p = <<p[1], p[2]>> /\ p[1] \in 1 .. Len(read)
            /\ p[2] \in 1 .. Len(read[p[1]]) /\ Playable(read[p[1]], p[2])
        BY <1>11, <3>2 DEF Said
      <3>4. p \in {p[1]} \X (1 .. Len(read[p[1]]))
        BY <3>3
      <3>5. p \in Positions
        BY <3>3, <3>4 DEF Positions
      <3>6. Positions' = Positions
        BY <1>1 DEF Positions
      <3> QED
        BY <1>1, <3>3, <3>5, <3>6
    <2>2. ASSUME NEW p \in playable PROVE p \in froms
      <3>1. p \in Positions /\ Playable(read[p[1]], p[2])
        BY <1>1, <2>2 DEF Positions
      <3>2. PICK t \in 1 .. Len(read) : p \in {t} \X (1 .. Len(read[t]))
        BY <3>1 DEF Positions
      <3>3. p[1] = t /\ p[2] \in 1 .. Len(read[t]) /\ p = <<p[1], p[2]>>
        BY <3>2
      <3>4. PICK a \in 1 .. n : ev[a].from = <<t, p[2]>>
        BY <1>2, <3>1, <3>3 DEF Gathered, NonePassed, Held
      <3>5. PICK k \in 1 .. n : ev'[k] = ev[a]
        BY <1>9
      <3> QED
        BY <1>7, <3>3, <3>4, <3>5
    <2>3. froms = playable
      BY <2>1, <2>2
    <2> QED
      BY <1>7, <1>13, <2>3 DEF NothingLost
  <1>15. \A k \in 1 .. Len(ev') : TrackSays(k)'
    <2> TAKE k \in 1 .. Len(ev')
    <2>1. PICK a \in 1 .. n : ev'[k] = ev[a]
      BY <1>7, <1>8
    <2>2. /\ Said(ev[a], read) /\ ev[a].port = PortOf(read[ev[a].from[1]])
      BY <1>11
    <2> QED
      BY <1>1, <2>1, <2>2, Zenon DEF TrackSays, Said
  <1>16. AsWritten'
    BY <1>14, <1>15 DEF AsWritten
  <1>17. InOrder'
    <2> SUFFICES ASSUME NEW k \in 1 .. n, NEW l \in 1 .. n, k < l
                 PROVE  \/ ev'[k].tick < ev'[l].tick
                        \/ ev'[k].tick = ev'[l].tick /\ PlaceBefore(ev'[k].from, ev'[l].from)
      BY <1>7 DEF InOrder, PlaceBefore
    <2>1. PICK a, b \in 1 .. n : /\ ev'[k] = ev[a] /\ ev'[l] = ev[b]
                                  /\ \/ ev[a].tick < ev[b].tick
                                     \/ ev[a].tick = ev[b].tick /\ a < b
      BY <1>12
    <2>2. a < b => PlaceBefore(ev[a].from, ev[b].from)
      BY <1>2 DEF Gathered, InFileOrder
    <2> QED
      BY <2>1, <2>2
  <1> QED
    BY <1>1, <1>10, <1>16, <1>17 DEF SongInv

LEMMA SongStep == SongInv /\ [SongNext]_songVars => SongInv'
  <1> SUFFICES ASSUME SongInv, [SongNext]_songVars
               PROVE  SongInv'
    OBVIOUS
  <1>1. CASE BeginTrack
    BY <1>1, SongBegin
  <1>2. CASE TrackEnds
    BY <1>2, SongTrackEnds
  <1>3. CASE SongEnds
    BY <1>3, SongSorts
  <1>4. ASSUME NEW item \in Items, Message(item)
        PROVE  SongInv'
    <2>1. SongTypeOK /\ Reads(item)
      BY <1>4 DEF SongInv, Message
    <2>2. Follows(item)
      BY <1>4 DEF Message, Reads, Follows, SongInv, SongTypeOK
    <2>3. CASE item.good
      <3>1. Push(item, IF item.arg = None THEN running ELSE item.arg)
        BY <1>4, <2>3 DEF Message
      <3> QED
        BY <1>4, <2>1, <2>2, <2>3, <3>1, SongPlays DEF Message
    <2>4. CASE ~ item.good
      <3>1. ev' = ev /\ item.kind = "message"
        BY <1>4, <2>4 DEF Message
      <3> QED
        BY <2>1, <2>2, <2>4, <3>1, SongPasses
    <2> QED
      BY <2>3, <2>4
  <1>5. ASSUME NEW item \in Items, Damage(item) \/ EndOfTrack(item)
        PROVE  SongInv'
    BY <1>5, SongStops DEF Damage, EndOfTrack
  <1>6. ASSUME NEW item \in Items, TempoOrSysex(item)
        PROVE  SongInv'
    <2>1. Reads(item) /\ Push(item, None) /\ item.kind \in {"tempo", "sysex"}
      BY <1>6 DEF TempoOrSysex
    <2>2. Follows(item)
      BY <1>6 DEF TempoOrSysex, Reads, Follows, SongInv, SongTypeOK
    <2> QED
      BY <2>1, <2>2, SongPlays
  <1>7. ASSUME NEW item \in Items, Name(item) \/ PortMeta(item) \/ Passed(item)
        PROVE  SongInv'
    <2>1. Reads(item) /\ ev' = ev /\ item.kind \in {"name", "port", "meta", "empty sysex"}
      BY <1>7 DEF Name, PortMeta, Passed
    <2>2. Follows(item)
      <3>1. running' = running /\ parsing' = "track" /\ port_from_meta \in BOOLEAN
        BY <1>7 DEF Name, PortMeta, Passed, Reads, SongInv, SongTypeOK
      <3>2. CASE Name(item)
        BY <3>1, <3>2 DEF Name, Follows
      <3>3. CASE PortMeta(item)
        BY <3>1, <3>3 DEF PortMeta, Follows
      <3>4. CASE Passed(item)
        BY <3>1, <3>4 DEF Passed, Follows
      <3> QED
        BY <1>7, <3>2, <3>3, <3>4
    <2> QED
      BY <2>1, <2>2, SongPasses
  <1>8. CASE UNCHANGED songVars
    <2>1. /\ ev' = ev /\ read' = read /\ parsing' = parsing /\ tick' = tick
          /\ running' = running /\ first' = first /\ port' = port
          /\ port_from_meta' = port_from_meta
      BY <1>8 DEF songVars, track
    <2>2. SongTypeOK' <=> SongTypeOK
      BY <2>1 DEF SongTypeOK
    <2>3. Gathered' <=> Gathered
      BY <2>1 DEF Gathered, InFileOrder, NonePassed, Held, PortsGiven, Locals, Here
    <2>4. AsWritten' <=> AsWritten
      BY <2>1 DEF AsWritten, NothingLost, TrackSays, Positions
    <2>5. InOrder' <=> InOrder
      BY <2>1 DEF InOrder
    <2> QED
      BY <2>1, <2>2, <2>3, <2>4, <2>5 DEF SongInv
  <1> QED
    BY <1>1, <1>2, <1>3, <1>4, <1>5, <1>6, <1>7, <1>8, Zenon DEF SongNext, Read

(* The song is what the file says: every event that can be played is in it
   once, at its time, with its status and its whole track's port, whatever
   damage stops a track (parse, parse_track). *)
THEOREM SongAsWritten == SongSpec => []AsWritten
  <1>1. SongInv => AsWritten
    BY DEF SongInv
  <1> QED
    BY SongInitInv, SongStep, <1>1, PTL DEF SongSpec

(* The song is in time order, events of the same time in file order (cmp and
   the order push gives). *)
THEOREM SongInOrder == SongSpec => []InOrder
  <1>1. SongInv => InOrder
    BY DEF SongInv
  <1> QED
    BY SongInitInv, SongStep, <1>1, PTL DEF SongSpec

(***************************************************************************)
(* The name files: how much is allocated and stored.                       *)
(***************************************************************************)

(* The lines a source may hold. *)
LinesOf(s) ==
  IF s \in {OwnTable, BesideCore} THEN TableLines
  ELSE IF s \in Vendor THEN VendorLines ELSE Sounds

Stored == [kind : {"t", "d", "k"}, map : Int, a : Int, b : Int, name : Int,
           at : Nat \X Nat \X Nat]

Shelved ==
  /\ names \in [patch : Seq(Stored), key : Seq(Stored)]
  /\ room \in [patch : Nat, key : Nat] /\ cap \in [patch : Nat, key : Nat]

Turned ==
  /\ progress \in {"look", "read", "told"}
  /\ source \in 0 .. NSources /\ (source = GM => progress # "read")
  /\ told \in Int

Marked == dir \in BOOLEAN /\ short \in BOOLEAN

Scanned ==
  /\ map \in Int /\ axis \in Seq(Int) /\ pending \in Seq(Stored)
  /\ progress # "read" => pending = <<>> /\ map = -1 /\ axis = <<>>

TextTyped == DOMAIN text = 1 .. NSources /\ \A s \in 1 .. NSources : text[s] \in Seq(LinesOf(s))

NamesTypeOK == Shelved /\ Turned /\ Marked /\ Scanned /\ TextTyped

(* What is allocated is what the reader takes it to be, and is used. *)
RoomKept ==
  /\ progress # "told" =>
       /\ cap.patch = room.patch
       /\ Len(names.patch) <= cap.patch
       /\ names.patch = <<>> => cap.patch = 0
  /\ progress = "look" /\ source \in {OwnTable, BesideCore} => names.patch = <<>>
  /\ progress = "look" /\ source = 9 => names = Nothing

NamesKept == NamesTypeOK /\ RoomKept /\ ZeroIsEmpty

LEMMA NamesNumbers ==
  /\ Maps \in Nat /\ 1 < Maps /\ Programs \in Nat /\ Byte \in Nat /\ 0 < Byte
  /\ Columns \in Nat /\ FirstRoom \in Nat /\ 0 < FirstRoom /\ Programs <= Byte
  /\ NSources \in Nat /\ 8 < NSources
  BY NamesAssumption DEF NSources

(* Where a source is left, and what becomes of the names. *)
LEMMA AfterIs ==
  ASSUME After, NamesTypeOK
  PROVE  \/ source \in {1, 2, 5, 8} /\ NPatch > 0 /\ Tell(NPatch) /\ Keep
         \/ source = 1 /\ dir /\ NPatch = 0 /\ TurnTo(2) /\ Keep
         \/ /\ source \in {1, 2} /\ ~ (source = 1 /\ dir) /\ NPatch = 0
            /\ TurnTo(IF dir THEN 3 ELSE GM) /\ Forget
         \/ /\ source \in {3, 4, 6, 7} \/ (source = 5 /\ NPatch = 0)
            /\ TurnTo(source + 1) /\ Keep
         \/ source = 8 /\ NPatch = 0 /\ TurnTo(GM) /\ Keep
         \/ source \notin 1 .. 8 /\ source < NSources /\ TurnTo(source + 1) /\ Keep
         \/ source \notin 1 .. 8 /\ ~ source < NSources /\ NPatch > 0 /\ Tell(1) /\ Keep
         \/ source \notin 1 .. 8 /\ ~ source < NSources /\ NPatch = 0 /\ Tell(0) /\ Forget
  <1>1. NPatch \in Nat /\ source \in 0 .. NSources /\ NSources \in Nat
    BY NamesNumbers DEF NamesTypeOK, NPatch, Shelved, Turned
  <1>2. CASE source \in {1, 2}
    <2>1. AfterTable
      BY <1>2, Zenon DEF After, OwnTable, BesideCore
    <2> QED
      <3>1. CASE NPatch > 0
        BY <1>2, <2>1, <3>1, Zenon DEF AfterTable
      <3>2. CASE ~ NPatch > 0 /\ source = 1 /\ dir
        BY <1>1, <2>1, <3>2 DEF AfterTable, OwnTable, BesideCore
      <3>3. CASE ~ NPatch > 0 /\ ~ (source = 1 /\ dir)
        <4>1. TurnTo(IF dir THEN 3 ELSE GM) /\ Forget
          BY <2>1, <3>3, Zenon DEF AfterTable, OwnTable
        <4> QED
          BY <1>1, <1>2, <3>3, <4>1
      <3> QED
        BY <3>1, <3>2, <3>3, Zenon
  <1>3. CASE source \in 3 .. 8
    <2>1. AfterVendor
      BY <1>3 DEF After, OwnTable, BesideCore, Vendor
    <2>2. source \in {3, 4, 5, 6, 7, 8}
      BY <1>3
    <2>3. CASE source \in {5, 8} /\ NPatch > 0
      BY <2>1, <2>3 DEF AfterVendor
    <2>4. CASE ~ (source \in {5, 8} /\ NPatch > 0)
      <3>1. TurnTo(IF source = 8 THEN GM ELSE source + 1) /\ Keep
        BY <2>1, <2>4, Zenon DEF AfterVendor
      <3> QED
        BY <1>1, <2>2, <2>4, <3>1
    <2> QED
      BY <2>3, <2>4, Zenon
  <1>4. CASE source \notin 1 .. 8
    <2>1. AfterSet
      BY <1>4 DEF After, OwnTable, BesideCore, Vendor
    <2> QED
      BY <1>1, <1>4, <2>1 DEF AfterSet
  <1> QED
    BY <1>1, <1>2, <1>3, <1>4

(* Leaving a source, with the names kept or given up, leaves the types. *)
LEMMA LeavingTyped ==
  ASSUME NamesTypeOK, Keep \/ Forget, LeaveFile, text' = text, dir' = dir, short' \in BOOLEAN,
         progress' \in {"look", "told"}, source' \in 0 .. NSources, told' \in Int
  PROVE  NamesTypeOK'
  <1>1. Shelved /\ Marked /\ TextTyped
    BY DEF NamesTypeOK
  <1>2. Shelved'
    <2>1. CASE Keep
      BY <1>1, <2>1, Zenon DEF Shelved, Keep
    <2>2. CASE Forget
      BY <2>2 DEF Shelved, Forget, Nothing, NoRoom
    <2> QED
      BY <2>1, <2>2, Zenon
  <1>3. Turned'
    BY DEF Turned
  <1>4. Marked'
    BY <1>1 DEF Marked
  <1>5. Scanned'
    BY DEF Scanned, LeaveFile
  <1>6. TextTyped'
    BY <1>1 DEF TextTyped
  <1> QED
    BY <1>2, <1>3, <1>4, <1>5, <1>6 DEF NamesTypeOK

LEMMA AfterKeeps ==
  ASSUME NamesKept, source # GM, progress # "told", After,
         dir' = dir, text' = text, short' \in BOOLEAN
  PROVE  NamesKept'
  <1>1. NamesTypeOK /\ RoomKept /\ Shelved /\ Turned
    BY DEF NamesKept, NamesTypeOK
  <1>2. NPatch \in Nat /\ source \in 0 .. NSources /\ NSources \in Nat /\ 8 < NSources
    BY <1>1, NamesNumbers DEF Shelved, Turned, NPatch
  <1>5. names.patch = <<>> <=> NPatch = 0
    BY <1>1 DEF Shelved, NPatch
  <1> DEFINE Goal == /\ Keep \/ Forget
                     /\ LeaveFile
                     /\ progress' \in {"look", "told"}
                     /\ source' \in 0 .. NSources
                     /\ told' \in Int
                     /\ RoomKept'
                     /\ ZeroIsEmpty'
  <1>a. ASSUME NPatch > 0, \/ Tell(NPatch)
                           \/ Tell(1), Keep
        PROVE  Goal
    BY <1>1, <1>2, <1>5, <1>a DEF Tell, Keep, RoomKept, ZeroIsEmpty, Turned, NPatch
  <1>b. ASSUME NPatch = 0, source = 1, TurnTo(2), Keep
        PROVE  Goal
    BY <1>1, <1>2, <1>5, <1>b DEF TurnTo, Keep, RoomKept, ZeroIsEmpty, Turned, NPatch, OwnTable,
       BesideCore
  <1>c. ASSUME NEW s \in {3, GM}, TurnTo(s), Forget
        PROVE  Goal
    BY <1>1, <1>2, <1>5, <1>c DEF TurnTo, Forget, Nothing, NoRoom, RoomKept, ZeroIsEmpty, Turned,
       NPatch, OwnTable, BesideCore, GM
  <1>d. ASSUME NEW s \in (4 .. 8) \cup {GM} \cup (10 .. NSources), TurnTo(s), Keep
        PROVE  Goal
    <2>1. s \in 0 .. NSources /\ s # 9 /\ s # 1 /\ s # 2
      BY <1>2 DEF GM
    <2>2. names' = names /\ room' = room /\ cap' = cap /\ progress' = "look" /\ source' = s
      BY <1>d DEF TurnTo, Keep
    <2>3. RoomKept'
      BY <1>1, <2>1, <2>2 DEF RoomKept, OwnTable, BesideCore
    <2>4. ZeroIsEmpty'
      BY <1>1, <2>2 DEF RoomKept, ZeroIsEmpty
    <2> QED
      BY <1>1, <1>d, <2>1, <2>2, <2>3, <2>4 DEF TurnTo, Turned
  <1>e. ASSUME Tell(0), Forget
        PROVE  Goal
    BY <1>1, <1>2, <1>e DEF Tell, Forget, Nothing, NoRoom, RoomKept, ZeroIsEmpty, Turned
  <1>6. Goal
    <2> HIDE DEF Goal
    <2> QED
      <3> DEFINE Onward(t) == TurnTo(t) /\ Keep
      <3>1. CASE NPatch > 0 /\ Tell(NPatch) /\ Keep
        BY <3>1, <1>a
      <3>2. CASE NPatch = 0 /\ source = 1 /\ TurnTo(2) /\ Keep
        BY <3>2, <1>b
      <3>3. CASE TurnTo(IF dir THEN 3 ELSE GM) /\ Forget
        BY <3>3, <1>c
      <3>4. ASSUME NEW t \in (4 .. 8) \cup {GM} \cup (10 .. NSources), TurnTo(t), Keep
            PROVE  Goal
        BY <3>4, <1>d
      <3>5. CASE (source \in {3, 4, 6, 7} \/ (source = 5 /\ NPatch = 0)) /\ Onward(source + 1)
        <4>1. source + 1 \in 4 .. 8
          BY <3>5
        <4> QED
          BY <3>4, <3>5, <4>1
      <3>6. CASE Onward(GM)
        BY <3>4, <3>6
      <3>7. CASE source \notin 1 .. 8 /\ source < NSources /\ Onward(source + 1)
        <4>1. source + 1 \in 10 .. NSources
          BY <1>2, <3>7 DEF GM
        <4> QED
          BY <3>4, <3>7, <4>1
      <3>8. CASE NPatch > 0 /\ Tell(1) /\ Keep
        BY <3>8, <1>a
      <3>9. CASE Tell(0) /\ Forget
        BY <3>9, <1>e
      <3> QED
        BY <1>1, <3>1, <3>2, <3>3, <3>5, <3>6, <3>7, <3>8, <3>9, AfterIs, Zenon
  <1>7. NamesTypeOK'
    BY <1>1, <1>6, LeavingTyped
  <1> QED
    BY <1>6, <1>7 DEF NamesKept

LEMMA NamesInitKept == NamesInit => NamesKept
  <1> SUFFICES ASSUME NamesInit PROVE NamesKept
    OBVIOUS
  <1>1. Shelved
    BY DEF NamesInit, Shelved, Nothing, NoRoom
  <1>2. Turned
    BY NamesNumbers DEF NamesInit, Turned, OwnTable, GM
  <1>3. Marked
    BY Zenon DEF NamesInit, Marked
  <1>4. Scanned
    BY DEF NamesInit, Scanned
  <1>5. TextTyped
    BY NamesNumbers DEF NamesInit, TextTyped
  <1>6. RoomKept /\ ZeroIsEmpty
    BY DEF NamesInit, RoomKept, ZeroIsEmpty, Nothing, NoRoom
  <1> QED
    BY <1>1, <1>2, <1>3, <1>4, <1>5, <1>6 DEF NamesKept, NamesTypeOK


(* What an entry of a line is made of. *)
LEMMA EntryStored ==
  ASSUME NEW kind \in {"t", "d", "k"}, NEW m \in Int, NEW a \in Int, NEW b \in Int,
         NEW name \in Int, NEW spot \in Nat \X Nat \X Nat
  PROVE  Entry(kind, m, a, b, name, spot) \in Stored
  BY DEF Entry, Stored

LEMMA LineTyped ==
  /\ TableLines \subseteq [kind : STRING, map : Int, a : Int, b : Int, name : Int]
  /\ \A line \in VendorLines :
       \/ line.kind = "page" /\ line.map \in Int
       \/ line.kind = "tabbed" /\ line.label \in Int /\ line.cells \in Seq(Int) /\ line.cells # <<>>
  /\ Sounds \subseteq [kind : {"t", "d"}, map : Int, a : Int, b : Int, name : Int]
  BY NamesAssumption

(* The value an unsigned char has. *)
LEMMA ValueIs ==
  ASSUME NEW cell \in Int
  PROVE  Value(cell) \in 0 .. Byte - 1
  <1>1. Byte \in Nat /\ 0 < Byte
    BY NamesNumbers
  <1>2. \A x \in Int : x % Byte \in 0 .. Byte - 1
    BY <1>1
  <1> QED
    BY <1>2 DEF Value, Blank

LEMMA SpotTyped ==
  ASSUME NamesTypeOK, NEW s, source \in s, progress = "read", NEW j \in Nat
  PROVE  /\ Spot(j) \in Nat \X Nat \X Nat
         /\ source \in 1 .. NSources /\ text[source] \in Seq(LinesOf(source))
  <1>1. source \in 1 .. NSources
    BY NamesNumbers DEF NamesTypeOK, Turned, GM
  <1>2. text[source] \in Seq(LinesOf(source))
    BY <1>1 DEF NamesTypeOK, TextTyped
  <1>3. Len(text[source]) + 1 \in Nat
    BY <1>2
  <1> QED
    BY <1>1, <1>2, <1>3 DEF Spot

LEMMA TableTyped ==
  ASSUME NamesTypeOK, source \in {OwnTable, BesideCore}, progress = "read",
         NEW line \in TableLines
  PROVE  TableEntries(line) \in Seq(Stored) /\ Len(TableEntries(line)) \in {0, 1}
  <1>1. line.map \in Int /\ line.a \in Int /\ line.b \in Int /\ line.name \in Int
    BY LineTyped
  <1>2. Spot(1) \in Nat \X Nat \X Nat
    BY SpotTyped
  <1> DEFINE name == IF line.name = Blank THEN Junk ELSE line.name
  <1>3. name \in Int
    BY <1>1 DEF Junk
  <1> HIDE DEF name
  <1>4. CASE line.kind \in {"t", "d", "k"}
    <2>1. Entry(line.kind, line.map, line.a, line.b, name, Spot(1)) \in Stored
      BY <1>1, <1>2, <1>3, <1>4, EntryStored
    <2> QED
      BY <2>1 DEF TableEntries, name
  <1>5. CASE line.kind \notin {"t", "d", "k"}
    BY <1>5 DEF TableEntries
  <1> QED
    BY <1>4, <1>5

(* How many entries a row has. *)
Columned(header, line) == Shorter(Shorter(Len(header), Columns), Len(line.cells))

LEMMA ColumnedIs ==
  ASSUME NEW header \in Seq(Int), NEW line \in VendorLines, line.kind = "tabbed"
  PROVE  /\ Columned(header, line) \in Nat
         /\ \A j \in Nat : j \in 1 .. Columned(header, line) <=>
                           j \in 1 .. Len(header) /\ j <= Columns /\ j \in 1 .. Len(line.cells)
  <1>1. Columns \in Nat /\ Len(header) \in Nat /\ Len(line.cells) \in Nat
    BY NamesNumbers, LineTyped
  <1> QED
    BY <1>1 DEF Columned, Shorter

LEMMA KindIs == \A s \in Vendor : Kind(s) \in {"t", "d", "k"}
  <1> TAKE s \in Vendor
  <1>1. s \in {3, 4, 5, 6, 7, 8}
    BY DEF Vendor
  <1> QED
    BY <1>1 DEF Kind

LEMMA CellsTyped ==
  ASSUME NamesTypeOK, source \in Vendor, progress = "read",
         NEW line \in VendorLines, line.kind = "tabbed"
  PROVE  Cells(source, map, axis, line) \in Seq(Stored)
  <1> DEFINE row == Row(source, line.label)
             entry(j) == Entry(Kind(source), map, Value(axis[j]), row, line.cells[j], Spot(j))
             n == Columned(axis, line)
  <1>1. map \in Int /\ axis \in Seq(Int)
    BY DEF NamesTypeOK, Scanned
  <1>2. line.label \in Int /\ line.cells \in Seq(Int)
    BY LineTyped
  <1>3. row \in Int
    BY <1>2 DEF Row
  <1>4. n \in Nat
    BY <1>1, ColumnedIs
  <1>5. ASSUME NEW j \in 1 .. n PROVE entry(j) \in Stored
    <2>1. j \in Nat /\ j \in 1 .. Len(axis) /\ j \in 1 .. Len(line.cells)
      BY <1>1, <1>4, ColumnedIs
    <2>2. Value(axis[j]) \in Int /\ line.cells[j] \in Int
      <3>1. axis[j] \in Int /\ line.cells[j] \in Int
        BY <1>1, <1>2, <2>1
      <3>2. Value(axis[j]) \in 0 .. Byte - 1 /\ Byte \in Nat
        BY <3>1, ValueIs, NamesNumbers
      <3> QED
        BY <3>1, <3>2
    <2>3. Spot(j) \in Nat \X Nat \X Nat
      BY <2>1, SpotTyped
    <2>4. Kind(source) \in {"t", "d", "k"}
      BY KindIs
    <2> QED
      BY <1>1, <1>3, <2>2, <2>3, <2>4, EntryStored
  <1>6. [j \in 1 .. n |-> entry(j)] \in Seq(Stored)
    <2> HIDE DEF entry, n
    <2> QED
      BY <1>4, <1>5
  <1> QED
    BY <1>6 DEF Cells, Columned

(* A line is read: what is stored stays. *)
LEMMA ReadingKeeps ==
  ASSUME NamesKept, NEW s, NEW line, Reading(s, line),
         source \in 1 .. NSources => line \in LinesOf(source),
         map' \in Int, axis' \in Seq(Int), pending' \in Seq(Stored)
  PROVE  NamesKept'
  <1> USE DEF Reading
  <1>1. NamesTypeOK /\ RoomKept /\ ZeroIsEmpty /\ Shelved /\ Turned /\ Marked /\ TextTyped
    BY DEF NamesKept, NamesTypeOK
  <1>2. Shelved'
    BY <1>1, Zenon DEF Shelved
  <1>3. Turned'
    BY <1>1, Zenon DEF Turned
  <1>4. Marked'
    BY <1>1, Zenon DEF Marked
  <1>5. Scanned'
    BY DEF Scanned
  <1>6. /\ source \in 1 .. NSources
        /\ text[source] \in Seq(LinesOf(source)) /\ line \in LinesOf(source)
    BY <1>1, SpotTyped
  <1>7. Append(text[source], line) \in Seq(LinesOf(source))
    BY <1>6
  <1>8. TextTyped'
    BY <1>1, <1>6, <1>7 DEF TextTyped
  <1>9. RoomKept' /\ ZeroIsEmpty'
    BY <1>1 DEF RoomKept, ZeroIsEmpty
  <1> QED
    BY <1>2, <1>3, <1>4, <1>5, <1>8, <1>9 DEF NamesKept, NamesTypeOK

LEMMA LineKeeps ==
  ASSUME NamesKept,
         \/ \E line \in TableLines : TableLine(line)
         \/ \E line \in VendorLines : Page(line) \/ Tabbed(line)
         \/ \E sound \in Sounds : Sound(sound)
  PROVE  NamesKept'
  <1>1. NamesTypeOK /\ Scanned
    BY DEF NamesKept, NamesTypeOK
  <1>2. map \in Int /\ axis \in Seq(Int) /\ pending \in Seq(Stored)
    BY <1>1 DEF Scanned
  <1>3. ASSUME NEW line \in TableLines, TableLine(line) PROVE NamesKept'
    <2>1. /\ source \in {OwnTable, BesideCore} /\ progress = "read"
          /\ Reading({OwnTable, BesideCore}, line)
      BY <1>3, Zenon DEF TableLine, Reading
    <2>2. line \in LinesOf(source)
      BY <2>1, Zenon DEF LinesOf
    <2>3. pending' \in Seq(Stored) /\ map' \in Int /\ axis' \in Seq(Int)
      BY <1>1, <1>2, <1>3, <2>1, TableTyped, Zenon DEF TableLine
    <2> QED
      BY <2>1, <2>2, <2>3, ReadingKeeps
  <1>4. ASSUME NEW line \in VendorLines, Page(line) \/ Tabbed(line) PROVE NamesKept'
    <2>1. source \in Vendor /\ progress = "read" /\ Reading(Vendor, line)
      BY <1>4, Zenon DEF Page, Tabbed, Reading
    <2>2. line \in LinesOf(source)
      BY <2>1 DEF LinesOf, OwnTable, BesideCore, Vendor
    <2>3. pending' \in Seq(Stored) /\ map' \in Int /\ axis' \in Seq(Int)
      <3>1. CASE Page(line)
        BY <1>2, <3>1, LineTyped DEF Page
      <3>2. CASE Tabbed(line)
        <4>1. line.kind = "tabbed" /\ line.cells \in Seq(Int)
          BY <3>2, LineTyped DEF Tabbed
        <4>2. Cells(source, map, axis, line) \in Seq(Stored)
          BY <1>1, <2>1, <4>1, CellsTyped
        <4> QED
          BY <1>2, <3>2, <4>1, <4>2, Zenon DEF Tabbed
      <3> QED
        BY <1>4, <3>1, <3>2
    <2> QED
      BY <2>1, <2>2, <2>3, ReadingKeeps
  <1>5. ASSUME NEW sound \in Sounds, Sound(sound) PROVE NamesKept'
    <2>1. source \in EngineSets /\ progress = "read" /\ Reading(EngineSets, sound)
      BY <1>5, Zenon DEF Sound, Reading
    <2>2. sound \in LinesOf(source)
      BY <2>1, NamesNumbers DEF LinesOf, OwnTable, BesideCore, Vendor, EngineSets
    <2>3. /\ sound.kind \in {"t", "d", "k"} /\ sound.a \in Int /\ sound.b \in Int
          /\ sound.name \in Int
      BY LineTyped
    <2>4. source - 8 \in Int /\ Spot(1) \in Nat \X Nat \X Nat
      BY <1>1, <2>1, SpotTyped
    <2>5. Entry(sound.kind, source - 8, sound.a, sound.b, sound.name, Spot(1)) \in Stored
      BY <2>3, <2>4, EntryStored
    <2>6. pending' \in Seq(Stored) /\ map' \in Int /\ axis' \in Seq(Int)
      BY <1>2, <1>5, <2>5 DEF Sound
    <2> QED
      BY <2>1, <2>2, <2>6, ReadingKeeps
  <1> QED
    BY <1>3, <1>4, <1>5, Zenon


LEMMA HeadTail ==
  ASSUME NEW T, NEW q \in Seq(T), q # <<>>
  PROVE  /\ Head(q) \in T /\ Tail(q) \in Seq(T) /\ Head(q) = q[1] /\ Len(q) \in Nat \ {0}
         /\ Len(Tail(q)) = Len(q) - 1
         /\ \A i \in 1 .. Len(q) - 1 : Tail(q)[i] = q[i + 1]
  OBVIOUS

(* The first entry of the line goes in, or is dropped. *)
LEMMA StoreKeeps ==
  ASSUME NamesKept, Store \/ Skip
  PROVE  NamesKept'
  <1>1. /\ NamesTypeOK /\ RoomKept /\ ZeroIsEmpty
        /\ Shelved /\ Turned /\ Marked /\ TextTyped /\ Scanned
    BY DEF NamesKept, NamesTypeOK
  <1>2. /\ progress = "read" /\ pending # <<>> /\ pending' = Tail(pending)
        /\ UNCHANGED <<progress, source, dir, map, axis, told, text, short>>
    BY Zenon DEF Store, Skip
  <1>3. Turned' /\ Marked' /\ TextTyped'
    <2>1. Turned'
      BY <1>1, <1>2, Zenon DEF Turned
    <2>2. Marked'
      BY <1>1, <1>2, Zenon DEF Marked
    <2>3. TextTyped'
      BY <1>1, <1>2, Zenon DEF TextTyped
    <2> QED
      BY <2>1, <2>2, <2>3
  <1>4. Head(pending) \in Stored /\ Tail(pending) \in Seq(Stored)
    BY <1>1, <1>2, HeadTail DEF Scanned
  <1>5. Scanned'
    BY <1>1, <1>2, <1>4 DEF Scanned
  <1>6. CASE Skip
    BY <1>1, <1>2, <1>3, <1>5, <1>6 DEF Skip, NamesKept, NamesTypeOK, Shelved, RoomKept, ZeroIsEmpty
  <1>7. CASE Store
    <2> DEFINE e == Head(pending)
               array == ArrayOf(e)
               full == Len(names[array]) = cap[array]
               more == Grown(cap[array])
    <2>1. /\ room' = IF full THEN [room EXCEPT ![array] = more] ELSE room
          /\ cap' = IF full THEN [cap EXCEPT ![array] = more] ELSE cap
          /\ names' = [names EXCEPT ![array] = Append(@, e)]
      BY <1>7 DEF Store
    <2>2. array \in {"patch", "key"}
      BY DEF ArrayOf
    <2>3. names[array] \in Seq(Stored) /\ cap[array] \in Nat /\ Len(names[array]) \in Nat
      BY <1>1, <2>2 DEF Shelved
    <2>4. more \in Nat /\ cap[array] < more
      BY <2>3, NamesNumbers DEF Grown
    <2>5. Append(names[array], e) \in Seq(Stored)
      BY <1>4, <2>3
    <2> HIDE DEF array, more, e, full
    <2>6. Shelved'
      BY <1>1, <2>1, <2>2, <2>4, <2>5 DEF Shelved
    <2>7. CASE array = "key"
      <3>1. names'.patch = names.patch /\ room'.patch = room.patch /\ cap'.patch = cap.patch
        BY <1>1, <2>1, <2>7 DEF Shelved
      <3> QED
        BY <1>1, <1>2, <1>3, <1>5, <2>6, <3>1 DEF NamesKept, NamesTypeOK, RoomKept, ZeroIsEmpty
    <2>8. CASE array = "patch"
      <3>1. /\ names'.patch = Append(names.patch, e)
            /\ room'.patch = IF full THEN more ELSE room.patch
            /\ cap'.patch = IF full THEN more ELSE cap.patch
        BY <1>1, <2>1, <2>8 DEF Shelved
      <3>2. full <=> Len(names.patch) = cap.patch
        BY <2>8 DEF full
      <3>3. names.patch \in Seq(Stored)
        BY <1>1 DEF Shelved
      <3>4. Len(names'.patch) = Len(names.patch) + 1 /\ names'.patch # <<>>
        BY <1>4, <3>1, <3>3
      <3>5. /\ Len(names.patch) <= cap.patch /\ cap.patch = room.patch
              /\ cap.patch \in Nat /\ Len(names.patch) \in Nat
        BY <1>1, <1>2, <3>3 DEF RoomKept, Shelved
      <3>6. Len(names'.patch) <= cap'.patch /\ cap'.patch = room'.patch
        BY <2>3, <2>4, <2>8, <3>1, <3>2, <3>4, <3>5
      <3>7. RoomKept' /\ ZeroIsEmpty'
        BY <1>2, <3>4, <3>6 DEF RoomKept, ZeroIsEmpty
      <3> QED
        BY <1>3, <1>5, <2>6, <3>7 DEF NamesKept, NamesTypeOK
    <2> QED
      BY <2>2, <2>7, <2>8
  <1> QED
    BY <1>6, <1>7

LEMMA TellKeeps ==
  ASSUME NamesKept, NEW n \in Int, Tell(n), dir' = dir, text' = text, short' \in BOOLEAN,
         \/ Forget /\ n = 0
         \/ Keep /\ names = Nothing /\ n = 0
         \/ Keep /\ names.patch # <<>> /\ n # 0
  PROVE  NamesKept'
  <1>1. NamesTypeOK /\ RoomKept /\ ZeroIsEmpty /\ Shelved /\ Turned
    BY DEF NamesKept, NamesTypeOK
  <1>2. progress' = "told" /\ told' = n /\ source' = source /\ LeaveFile
    BY DEF Tell
  <1>3. NamesTypeOK'
    BY <1>1, <1>2, LeavingTyped DEF Turned
  <1>4. RoomKept' /\ ZeroIsEmpty'
    <2>1. CASE Forget /\ n = 0
      BY <1>2, <2>1 DEF Forget, Nothing, NoRoom, RoomKept, ZeroIsEmpty
    <2>2. CASE Keep /\ names = Nothing /\ n = 0
      BY <1>1, <1>2, <2>2 DEF Keep, Nothing, RoomKept, ZeroIsEmpty
    <2>3. CASE Keep /\ names.patch # <<>> /\ n # 0
      BY <1>1, <1>2, <2>3 DEF Keep, RoomKept, ZeroIsEmpty
    <2> QED
      BY <2>1, <2>2, <2>3
  <1> QED
    BY <1>3, <1>4 DEF NamesKept

LEMMA GmKeeps ==
  ASSUME NamesKept, Gm
  PROVE  NamesKept'
  <1>1. NamesTypeOK /\ RoomKept /\ ZeroIsEmpty /\ Shelved /\ Turned /\ Marked /\ TextTyped
    BY DEF NamesKept, NamesTypeOK
  <1>2. progress = "look" /\ source = GM /\ dir' = dir /\ text' = text
    BY DEF Gm
  <1>3. CASE Forget /\ Tell(0) /\ short' = TRUE
    BY <1>2, <1>3, TellKeeps
  <1>4. CASE /\ names' = GmSet
             /\ room' = [patch |-> Len(GmSet.patch), key |-> Len(GmSet.key)]
             /\ Tell(Len(GmSet.patch))
             /\ UNCHANGED <<cap, short>>
    <2>1. \A n \in 1 .. 3 : <<GM, n, 1>> \in Nat \X Nat \X Nat
      BY DEF GM
    <2>2. GmSet.patch \in Seq(Stored) /\ GmSet.key \in Seq(Stored)
      BY <2>1, EntryStored DEF GmSet
    <2>3. Len(GmSet.patch) = 2 /\ Len(GmSet.key) = 1 /\ GmSet.patch # <<>>
      BY DEF GmSet
    <2>4. GmSet = [patch |-> GmSet.patch, key |-> GmSet.key]
      BY DEF GmSet
    <2>5. Shelved'
      BY <1>1, <1>4, <2>2, <2>3, <2>4 DEF Shelved
    <2>6. progress' = "told" /\ told' = 2 /\ source' = source /\ LeaveFile
      BY <1>4, <2>3 DEF Tell
    <2>7. Turned' /\ Scanned'
      BY <1>1, <2>6 DEF Turned, Scanned, LeaveFile
    <2>8. Marked'
      BY <1>1, <1>2, <1>4, Zenon DEF Marked
    <2>9. TextTyped'
      BY <1>1, <1>2, Zenon DEF TextTyped
    <2>10. RoomKept' /\ ZeroIsEmpty'
      BY <1>4, <2>3, <2>6 DEF RoomKept, ZeroIsEmpty
    <2> QED
      BY <2>5, <2>7, <2>8, <2>9, <2>10 DEF NamesKept, NamesTypeOK
  <1> QED
    BY <1>3, <1>4, Zenon DEF Gm

LEMMA OpenKeeps ==
  ASSUME NamesKept, OpenSource
  PROVE  NamesKept'
  <1>1. /\ NamesTypeOK /\ RoomKept /\ ZeroIsEmpty
        /\ Shelved /\ Turned /\ Marked /\ TextTyped /\ Scanned
    BY DEF NamesKept, NamesTypeOK
  <1>2. /\ progress = "look" /\ source # GM /\ progress' = "read"
        /\ cap' = IF source \in {OwnTable, BesideCore} THEN NoRoom ELSE cap
        /\ UNCHANGED <<names, room, source, dir, map, axis, pending, told, text, short>>
    BY DEF OpenSource
  <1>3. Shelved'
    BY <1>1, <1>2 DEF Shelved, NoRoom
  <1>4. Turned' /\ Scanned'
    BY <1>1, <1>2 DEF Turned, Scanned
  <1>5. Marked'
    BY <1>1, <1>2, Zenon DEF Marked
  <1>6. TextTyped'
    BY <1>1, <1>2, Zenon DEF TextTyped
  <1>7. RoomKept' /\ ZeroIsEmpty'
    BY <1>1, <1>2 DEF RoomKept, ZeroIsEmpty, NoRoom
  <1> QED
    BY <1>3, <1>4, <1>5, <1>6, <1>7 DEF NamesKept, NamesTypeOK

LEMMA NoMemoryKeeps ==
  ASSUME NamesKept, NoMemory
  PROVE  NamesKept'
  <1>1. /\ progress = "read" /\ dir' = dir /\ text' = text /\ short' = TRUE
        /\ IF source \in EngineSets THEN Tell(0) /\ Forget ELSE After
    BY DEF NoMemory
  <1>2. source # GM
    BY <1>1 DEF NamesKept, NamesTypeOK, Turned
  <1>3. CASE source \in EngineSets
    BY <1>1, <1>3, TellKeeps
  <1>4. CASE source \notin EngineSets
    BY <1>1, <1>2, <1>4, AfterKeeps
  <1> QED
    BY <1>3, <1>4

LEMMA NamesStep ==
  ASSUME NamesKept, [NamesNext]_namesVars
  PROVE  NamesKept'
  <1>1. NamesTypeOK /\ Marked /\ Turned /\ RoomKept
    BY DEF NamesKept, NamesTypeOK
  <1>2. CASE NoOptions
    <2>1. names = Nothing
      BY <1>1, <1>2 DEF NoOptions, RoomKept
    <2> QED
      BY <1>2, <2>1, TellKeeps DEF NoOptions
  <1>3. CASE Missing \/ SourceEnds
    <2>1. After /\ dir' = dir /\ text' = text /\ short' = short
      BY <1>3 DEF Missing, SourceEnds
    <2>2. source # GM /\ progress # "told"
      BY <1>1, <1>3 DEF Missing, SourceEnds, Turned
    <2>3. short' \in BOOLEAN
      BY <1>1, <2>1, Zenon DEF Marked
    <2> QED
      BY <2>1, <2>2, <2>3, AfterKeeps
  <1>4. CASE UNCHANGED namesVars
    BY <1>4 DEF NamesKept, NamesTypeOK, Shelved, Turned, Marked, Scanned, TextTyped, RoomKept,
       ZeroIsEmpty, namesVars, reader
  <1> QED
    BY <1>2, <1>3, <1>4, OpenKeeps, StoreKeeps, NoMemoryKeeps, GmKeeps, LineKeeps, Zenon
       DEF NamesNext

(* ZeroIsEmpty: whatever memory there is, a load that answers 0 leaves no name *)
(* behind, any other has a patch, and no patch is stored past its array's end. *)
THEOREM NamesEmptyOnZero == NamesSpec => []ZeroIsEmpty
  <1>1. NamesKept /\ [NamesNext]_namesVars => NamesKept'
    BY NamesStep
  <1>2. NamesKept => ZeroIsEmpty
    BY DEF NamesKept
  <1> QED
    BY NamesInitKept, <1>1, <1>2, PTL DEF NamesSpec


(***************************************************************************)
(* The name files: what is stored is what they say.                        *)
(***************************************************************************)

(* The sources whose patches are taken together. *)
Mates(s) ==
  IF s \in {OwnTable, BesideCore} THEN {s}
  ELSE IF s \in 3 .. 5 THEN 3 .. 5 ELSE IF s \in 6 .. 8 THEN 6 .. 8 ELSE EngineSets

SpotsIn(s, lines) == UNION {{s} \X {i} \X (1 .. Width(s, lines[i])) : i \in 1 .. Len(lines)}
SaysIn(files, spot, patch) == Says(spot[1], files[spot[1]], spot[2], spot[3], patch)

QuietIn(files, s) ==
  \A spot \in SpotsIn(s, files[s]) : \A patch \in Patches : ~SaysIn(files, spot, patch)

Sooner(x, y) ==
  \/ x[1] < y[1]
  \/ x[1] = y[1] /\ (x[2] < y[2] \/ (x[2] = y[2] /\ x[3] < y[3]))

Ascending(es) == \A k, l \in 1 .. Len(es) : k < l => Sooner(es[k].at, es[l].at)

(* An entry is as the file says it at its place. *)
ReadIn(s, files, e) ==
  /\ e.at[1] \in Mates(s) /\ e.at \in SpotsIn(e.at[1], files[e.at[1]])
  /\ SaysIn(files, e.at, Of(e))
  /\ e.name = NameAt(e.at[1], files[e.at[1]], e.at[2], e.at[3])
  /\ s \notin EngineSets => Of(e) \in Patches

IsPatch(s, e) == e.kind # "k" /\ ~(s \in Vendor /\ e.name = Blank)

StoredTrue(s, files, es) == (\A k \in 1 .. Len(es) : ReadIn(s, files, es[k])) /\ Ascending(es)

PendingTrue(s, files, es, qs) ==
  /\ \A m \in 1 .. Len(qs) :
       /\ IsPatch(s, qs[m]) => ReadIn(s, files, qs[m])
       /\ \A k \in 1 .. Len(es) : Sooner(es[k].at, qs[m].at)
  /\ Ascending(qs)

(* A place of the sources taken that names a patch is stored, or is next. *)
AllTaken(s, files, es, qs) ==
  \A t \in Mates(s) : \A spot \in SpotsIn(t, files[t]) : \A patch \in Patches :
    SaysIn(files, spot, patch) =>
      \/ \E k \in 1 .. Len(es) : es[k].at = spot /\ Of(es[k]) = patch
      \/ \E m \in 1 .. Len(qs) : qs[m].at = spot /\ Of(qs[m]) = patch /\ IsPatch(s, qs[m])

Matched(s, files, es, qs) ==
  StoredTrue(s, files, es) /\ PendingTrue(s, files, es, qs) /\ AllTaken(s, files, es, qs)

LEMMA MatesAre ==
  /\ \A s \in 1 .. NSources : s \in Mates(s) /\ Mates(s) \subseteq 1 .. NSources
  /\ \A s \in 1 .. NSources : s \notin 1 .. 8 => s \in EngineSets /\ Mates(s) = EngineSets
  <1>1. NSources \in Nat /\ 8 < NSources /\ EngineSets = 9 .. NSources
    BY NamesNumbers DEF NSources, EngineSets
  <1> QED
    BY <1>1 DEF Mates, OwnTable, BesideCore

LEMMA SpotsAre ==
  ASSUME NEW s, NEW lines, NEW spot
  PROVE  spot \in SpotsIn(s, lines) <=>
           \E i \in 1 .. Len(lines) : \E j \in 1 .. Width(s, lines[i]) : spot = <<s, i, j>>
  BY DEF SpotsIn

(* The sources taken have no line yet. *)
LEMMA MatchedFresh ==
  ASSUME NEW s, NEW files, \A t \in Mates(s) : files[t] = <<>>
  PROVE  Matched(s, files, <<>>, <<>>)
  <1>1. \A t \in Mates(s) : SpotsIn(t, files[t]) = {}
    BY DEF SpotsIn
  <1>2. \A i \in 1 .. Len(<<>>) : FALSE
    OBVIOUS
  <1> QED
    BY <1>1, <1>2 DEF Matched, StoredTrue, PendingTrue, AllTaken, Ascending

AllStored(s, files, es) ==
  \A t \in Mates(s) : \A spot \in SpotsIn(t, files[t]) : \A patch \in Patches :
    SaysIn(files, spot, patch) => \E k \in 1 .. Len(es) : es[k].at = spot /\ Of(es[k]) = patch

LEMMA Settled ==
  ASSUME NEW s, NEW files, NEW es, Matched(s, files, es, <<>>)
  PROVE  AllStored(s, files, es)
  <1>1. AllTaken(s, files, es, <<>>)
    BY Zenon DEF Matched
  <1>2. \A m \in 1 .. Len(<<>>) : FALSE
    OBVIOUS
  <1> QED
    BY <1>1, <1>2, Zenon DEF AllTaken, AllStored

(* The next of the sources taken together. *)
LEMMA MatchedMates ==
  ASSUME NEW s, NEW t, NEW files, NEW es, Mates(t) = Mates(s),
         s \in EngineSets <=> t \in EngineSets, Matched(s, files, es, <<>>)
  PROVE  Matched(t, files, es, <<>>)
  <1>1. \A i \in 1 .. Len(<<>>) : FALSE
    OBVIOUS
  <1>2. \A e : ReadIn(s, files, e) => ReadIn(t, files, e)
    BY Zenon DEF ReadIn
  <1>3. StoredTrue(t, files, es)
    BY <1>2, Zenon DEF Matched, StoredTrue
  <1>4. PendingTrue(t, files, es, <<>>)
    BY <1>1 DEF PendingTrue, Ascending
  <1>5. AllTaken(t, files, es, <<>>)
    BY <1>1, Zenon DEF Matched, AllTaken
  <1> QED
    BY <1>3, <1>4, <1>5 DEF Matched

LEMMA RestIs ==
  ASSUME NEW qs \in Seq(Stored), qs # <<>>
  PROVE  /\ \A m \in 1 .. Len(Tail(qs)) : m + 1 \in 2 .. Len(qs) /\ Tail(qs)[m] = qs[m + 1]
         /\ \A m \in 1 .. Len(qs) : m # 1 => m - 1 \in 1 .. Len(Tail(qs)) /\ Tail(qs)[m - 1] = qs[m]
         /\ Head(qs) = qs[1] /\ 1 \in 1 .. Len(qs)
         /\ Ascending(qs) => Ascending(Tail(qs))
  <1> DEFINE rest == Tail(qs)
  <1>1. /\ Len(qs) \in Nat \ {0} /\ Len(rest) = Len(qs) - 1 /\ Head(qs) = qs[1]
        /\ \A i \in 1 .. Len(qs) - 1 : rest[i] = qs[i + 1]
    BY HeadTail
  <1> HIDE DEF rest
  <1>2. \A m \in 1 .. Len(rest) : m + 1 \in 2 .. Len(qs) /\ rest[m] = qs[m + 1]
    BY <1>1
  <1>3. ASSUME NEW m \in 1 .. Len(qs), m # 1
        PROVE  m - 1 \in 1 .. Len(rest) /\ rest[m - 1] = qs[m]
    <2>1. m - 1 \in 1 .. Len(qs) - 1 /\ (m - 1) + 1 = m
      BY <1>1, <1>3
    <2> QED
      BY <1>1, <2>1
  <1>4. ASSUME Ascending(qs), NEW k \in 1 .. Len(rest), NEW l \in 1 .. Len(rest), k < l
        PROVE  Sooner(rest[k].at, rest[l].at)
    <2>1. k + 1 \in 1 .. Len(qs) /\ l + 1 \in 1 .. Len(qs) /\ k + 1 < l + 1
      BY <1>1, <1>4
    <2>2. rest[k] = qs[k + 1] /\ rest[l] = qs[l + 1]
      BY <1>2
    <2> QED
      BY <1>4, <2>1, <2>2 DEF Ascending
  <1>5. Ascending(qs) => Ascending(rest)
    BY <1>4 DEF Ascending
  <1>6. 1 \in 1 .. Len(qs)
    BY <1>1
  <1> QED
    BY <1>1, <1>2, <1>3, <1>5, <1>6 DEF rest

(* The first entry of the line is dropped, or goes in. *)
LEMMA MatchedDrop ==
  ASSUME NEW s, NEW files, NEW es \in Seq(Stored), NEW qs \in Seq(Stored), qs # <<>>,
         Matched(s, files, es, qs), ~ IsPatch(s, Head(qs))
  PROVE  Matched(s, files, es, Tail(qs))
  <1>1. /\ StoredTrue(s, files, es) /\ PendingTrue(s, files, es, qs) /\ AllTaken(s, files, es, qs)
        /\ Ascending(qs)
    BY DEF Matched, PendingTrue
  <1> DEFINE rest == Tail(qs)
  <1>2. /\ \A m \in 1 .. Len(rest) : m + 1 \in 2 .. Len(qs) /\ rest[m] = qs[m + 1]
        /\ \A m \in 1 .. Len(qs) : m # 1 => m - 1 \in 1 .. Len(rest) /\ rest[m - 1] = qs[m]
        /\ Ascending(rest) /\ ~ IsPatch(s, qs[1])
    BY <1>1, RestIs
  <1> HIDE DEF rest
  <1>3. PendingTrue(s, files, es, rest)
    <2> SUFFICES ASSUME NEW m \in 1 .. Len(rest)
                 PROVE  /\ IsPatch(s, rest[m]) => ReadIn(s, files, rest[m])
                        /\ \A k \in 1 .. Len(es) : Sooner(es[k].at, rest[m].at)
      BY <1>2 DEF PendingTrue
    <2>1. m + 1 \in 1 .. Len(qs) /\ rest[m] = qs[m + 1]
      BY <1>2
    <2> QED
      BY <1>1, <2>1 DEF PendingTrue
  <1>4. AllTaken(s, files, es, rest)
    <2> SUFFICES ASSUME NEW t \in Mates(s), NEW spot \in SpotsIn(t, files[t]),
                        NEW patch \in Patches, SaysIn(files, spot, patch)
                 PROVE  \/ \E k \in 1 .. Len(es) : es[k].at = spot /\ Of(es[k]) = patch
                        \/ \E m \in 1 .. Len(rest) :
                             rest[m].at = spot /\ Of(rest[m]) = patch /\ IsPatch(s, rest[m])
      BY Zenon DEF AllTaken
    <2>1. CASE \E k \in 1 .. Len(es) : es[k].at = spot /\ Of(es[k]) = patch
      BY <2>1
    <2>2. ASSUME NEW m \in 1 .. Len(qs), qs[m].at = spot, Of(qs[m]) = patch, IsPatch(s, qs[m])
          PROVE  \E n \in 1 .. Len(rest) :
                   rest[n].at = spot /\ Of(rest[n]) = patch /\ IsPatch(s, rest[n])
      <3>1. m # 1
        BY <1>2, <2>2
      <3>2. m - 1 \in 1 .. Len(rest) /\ rest[m - 1] = qs[m]
        BY <1>2, <3>1
      <3> QED
        BY <2>2, <3>2
    <2> QED
      BY <1>1, <2>1, <2>2, Zenon DEF AllTaken
  <1> QED
    BY <1>1, <1>3, <1>4 DEF Matched, rest

LEMMA MatchedStore ==
  ASSUME NEW s, NEW files, NEW es \in Seq(Stored), NEW qs \in Seq(Stored), qs # <<>>,
         Matched(s, files, es, qs), IsPatch(s, Head(qs))
  PROVE  Matched(s, files, Append(es, Head(qs)), Tail(qs))
  <1>1. /\ StoredTrue(s, files, es) /\ PendingTrue(s, files, es, qs) /\ AllTaken(s, files, es, qs)
        /\ Ascending(qs) /\ Ascending(es)
    BY DEF Matched, PendingTrue, StoredTrue
  <1> DEFINE rest == Tail(qs)
             more == Append(es, Head(qs))
             n == Len(es)
  <1>2. /\ \A m \in 1 .. Len(rest) : m + 1 \in 2 .. Len(qs) /\ rest[m] = qs[m + 1]
        /\ \A m \in 1 .. Len(qs) : m # 1 => m - 1 \in 1 .. Len(rest) /\ rest[m - 1] = qs[m]
        /\ Head(qs) = qs[1] /\ 1 \in 1 .. Len(qs)
        /\ Ascending(rest)
    BY <1>1, RestIs
  <1>3. /\ n \in Nat /\ Len(more) = n + 1 /\ more[n + 1] = qs[1]
        /\ \A k \in 1 .. n : more[k] = es[k]
    BY <1>2, HeadTail
  <1> HIDE DEF rest, more
  <1>4. \A k \in 1 .. n + 1 : k \in 1 .. n \/ k = n + 1
    BY <1>3
  <1>5. \A k \in 1 .. n, m \in 1 .. Len(qs) : Sooner(es[k].at, qs[m].at)
    BY <1>1 DEF PendingTrue
  <1>7. Ascending(more)
    <2> SUFFICES ASSUME NEW k \in 1 .. n + 1, NEW l \in 1 .. n + 1, k < l
                 PROVE  Sooner(more[k].at, more[l].at)
      BY <1>3 DEF Ascending
    <2>1. k \in 1 .. n
      BY <1>3
    <2>2. CASE l \in 1 .. n
      BY <1>1, <1>3, <2>1, <2>2 DEF Ascending
    <2>3. CASE l = n + 1
      BY <1>2, <1>3, <1>5, <2>1, <2>3
    <2> QED
      BY <1>4, <2>2, <2>3
  <1>8. ReadIn(s, files, qs[1])
    BY <1>1, <1>2 DEF PendingTrue
  <1>9. StoredTrue(s, files, more)
    BY <1>1, <1>3, <1>4, <1>7, <1>8 DEF StoredTrue
  <1>10. PendingTrue(s, files, more, rest)
    <2> SUFFICES ASSUME NEW m \in 1 .. Len(rest)
                 PROVE  /\ IsPatch(s, rest[m]) => ReadIn(s, files, rest[m])
                        /\ \A k \in 1 .. Len(more) : Sooner(more[k].at, rest[m].at)
      BY <1>2 DEF PendingTrue
    <2>1. m + 1 \in 1 .. Len(qs) /\ rest[m] = qs[m + 1] /\ 1 \in 1 .. Len(qs) /\ 1 < m + 1
      BY <1>2
    <2>2. Sooner(qs[1].at, qs[m + 1].at)
      BY <1>1, <2>1 DEF Ascending
    <2> QED
      BY <1>1, <1>3, <1>4, <1>5, <2>1, <2>2 DEF PendingTrue
  <1>11. AllTaken(s, files, more, rest)
    <2> SUFFICES ASSUME NEW t \in Mates(s), NEW spot \in SpotsIn(t, files[t]),
                        NEW patch \in Patches, SaysIn(files, spot, patch)
                 PROVE  \/ \E k \in 1 .. Len(more) : more[k].at = spot /\ Of(more[k]) = patch
                        \/ \E m \in 1 .. Len(rest) :
                             rest[m].at = spot /\ Of(rest[m]) = patch /\ IsPatch(s, rest[m])
      BY Zenon DEF AllTaken
    <2>1. ASSUME NEW k \in 1 .. n, es[k].at = spot, Of(es[k]) = patch
          PROVE  \E l \in 1 .. Len(more) : more[l].at = spot /\ Of(more[l]) = patch
      BY <1>3, <2>1
    <2>2. ASSUME NEW m \in 1 .. Len(qs), qs[m].at = spot, Of(qs[m]) = patch, IsPatch(s, qs[m])
          PROVE  \/ \E k \in 1 .. Len(more) : more[k].at = spot /\ Of(more[k]) = patch
                 \/ \E l \in 1 .. Len(rest) :
                      rest[l].at = spot /\ Of(rest[l]) = patch /\ IsPatch(s, rest[l])
      <3>1. CASE m = 1
        <4>1. n + 1 \in 1 .. Len(more)
          BY <1>3
        <4> QED
          BY <1>3, <2>2, <3>1, <4>1
      <3>2. CASE m # 1
        <4>1. m - 1 \in 1 .. Len(rest) /\ rest[m - 1] = qs[m]
          BY <1>2, <3>2
        <4> QED
          BY <2>2, <4>1
      <3> QED
        BY <3>1, <3>2, Zenon
    <2>3. \/ \E k \in 1 .. n : es[k].at = spot /\ Of(es[k]) = patch
          \/ \E m \in 1 .. Len(qs) : qs[m].at = spot /\ Of(qs[m]) = patch /\ IsPatch(s, qs[m])
      BY <1>1, Zenon DEF AllTaken
    <2>4. CASE \E k \in 1 .. n : es[k].at = spot /\ Of(es[k]) = patch
      BY <2>1, <2>4
    <2>5. CASE \E m \in 1 .. Len(qs) : qs[m].at = spot /\ Of(qs[m]) = patch /\ IsPatch(s, qs[m])
      <3>1. PICK m \in 1 .. Len(qs) : qs[m].at = spot /\ Of(qs[m]) = patch /\ IsPatch(s, qs[m])
        BY <2>5, Zenon
      <3> QED
        BY <2>2, <3>1
    <2> QED
      BY <2>3, <2>4, <2>5, Zenon
  <1> QED
    BY <1>9, <1>10, <1>11 DEF Matched, rest, more


(***************************************************************************)
(* A line more.                                                            *)
(***************************************************************************)

(* What a line says does not depend on the lines after it. *)
LEMMA PageStays ==
  ASSUME NEW T, NEW lines \in Seq(T), NEW more, NEW n \in Nat, n <= Len(lines),
         \A i \in 1 .. n : more[i] = lines[i],
         NEW i \in 1 .. n + 1, NEW p \in 1 .. n
  PROVE  OnPage(more, i, p) <=> OnPage(lines, i, p)
  <1>1. p < i => \A k \in p + 1 .. i - 1 : more[k] = lines[k]
    OBVIOUS
  <1>2. more[p] = lines[p]
    OBVIOUS
  <1>3. CASE p < i
    BY <1>1, <1>2, <1>3, Zenon DEF OnPage
  <1> QED
    BY <1>3, Zenon DEF OnPage

LEMMA HeaderStays ==
  ASSUME NEW T, NEW lines \in Seq(T), NEW more, NEW n \in Nat, n <= Len(lines),
         \A i \in 1 .. n : more[i] = lines[i],
         NEW i \in 1 .. n + 1, NEW p \in 1 .. n, NEW h \in 1 .. n
  PROVE  Under(more, i, p, h) <=> Under(lines, i, p, h)
  <1>1. \A k \in p + 1 .. h - 1 : more[k] = lines[k]
    OBVIOUS
  <1>2. more[h] = lines[h]
    OBVIOUS
  <1> QED
    BY <1>1, <1>2, Zenon DEF Under

LEMMA SaysStays ==
  ASSUME NEW T, NEW lines \in Seq(T), NEW line \in T, NEW s, NEW i \in 1 .. Len(lines), NEW j,
         NEW patch
  PROVE  /\ Says(s, Append(lines, line), i, j, patch) <=> Says(s, lines, i, j, patch)
         /\ NameAt(s, Append(lines, line), i, j) = NameAt(s, lines, i, j)
         /\ Width(s, Append(lines, line)[i]) = Width(s, lines[i])
  <1> DEFINE more == Append(lines, line)
             n == Len(lines)
             There(ls) == \E p, h \in 1 .. i :
                            /\ OnPage(ls, i, p) /\ Under(ls, i, p, h)
                            /\ ls[p].map = patch[2]
                            /\ j <= Columns /\ j \in DOMAIN ls[h].cells
                            /\ Value(ls[h].cells[j]) = patch[3]
  <1>1. n \in Nat /\ n <= Len(lines) /\ \A k \in 1 .. n : more[k] = lines[k]
    OBVIOUS
  <1> HIDE DEF more
  <1>2. \A p \in 1 .. i : p \in 1 .. n /\ more[p] = lines[p]
    BY <1>1
  <1>3. i \in 1 .. n + 1
    BY <1>1
  <1>4. \A p \in 1 .. i : OnPage(more, i, p) <=> OnPage(lines, i, p)
    <2> TAKE p \in 1 .. i
    <2>1. p \in 1 .. n
      BY <1>2
    <2> QED
      BY <1>1, <1>3, <2>1, PageStays
  <1>5. \A p, h \in 1 .. i : Under(more, i, p, h) <=> Under(lines, i, p, h)
    <2> TAKE p, h \in 1 .. i
    <2>1. p \in 1 .. n /\ h \in 1 .. n
      BY <1>2
    <2> QED
      BY <1>1, <1>3, <2>1, HeaderStays
  <1>6. There(more) <=> There(lines)
    BY <1>2, <1>4, <1>5, Zenon
  <1>7. more[i] = lines[i]
    BY <1>1
  <1> HIDE DEF There
  <1>8. Says(s, more, i, j, patch) <=> Says(s, lines, i, j, patch)
    <2>1. \A ls : Says(s, ls, i, j, patch) <=>
                    IF s \in Vendor
                    THEN /\ patch[1] = Kind(s)
                         /\ ls[i].kind = "tabbed" /\ ls[i].label # Blank
                         /\ Row(s, ls[i].label) = patch[4]
                         /\ ls[i].cells[j] # Blank
                         /\ There(ls)
                    ELSE /\ ls[i].kind = patch[1] /\ ls[i].a = patch[3] /\ ls[i].b = patch[4]
                         /\ IF s \in EngineSets THEN patch[2] = s - 8
                            ELSE patch[2] = ls[i].map /\ Number(patch[3], Programs)
      BY Zenon DEF Says, There
    <2> QED
      BY <1>6, <1>7, <2>1, Zenon
  <1>9. NameAt(s, more, i, j) = NameAt(s, lines, i, j)
    BY <1>7, Zenon DEF NameAt
  <1> QED
    BY <1>7, <1>8, <1>9 DEF more

(* The entries of the last line are what it says. *)
RowTrue(s, lines, qs) ==
  /\ \A m \in 1 .. Len(qs) :
       /\ qs[m].at[1] = s /\ qs[m].at[2] = Len(lines)
       /\ IsPatch(s, qs[m]) =>
            /\ qs[m].at \in SpotsIn(s, lines)
            /\ Says(s, lines, Len(lines), qs[m].at[3], Of(qs[m]))
            /\ qs[m].name = NameAt(s, lines, Len(lines), qs[m].at[3])
            /\ s \notin EngineSets => Of(qs[m]) \in Patches
  /\ Ascending(qs)
  /\ \A j \in 1 .. Width(s, lines[Len(lines)]) : \A patch \in Patches :
       Says(s, lines, Len(lines), j, patch) =>
         \E m \in 1 .. Len(qs) :
           qs[m].at = <<s, Len(lines), j>> /\ Of(qs[m]) = patch /\ IsPatch(s, qs[m])

LEMMA MatchedLine ==
  ASSUME NEW s \in 1 .. NSources, NEW files, NEW es, NEW qs, NEW line \in LinesOf(s),
         DOMAIN files = 1 .. NSources, \A t \in 1 .. NSources : files[t] \in Seq(LinesOf(t)),
         \A t \in 1 .. NSources : files[t] # <<>> => t <= s,
         Matched(s, files, es, <<>>),
         RowTrue(s, Append(files[s], line), qs)
  PROVE  Matched(s, [files EXCEPT ![s] = Append(@, line)], es, qs)
  <1>0. AllStored(s, files, es)
    BY Settled
  <1> DEFINE lines == files[s]
             last == Append(lines, line)
             more == [files EXCEPT ![s] = last]
             n == Len(lines)
  <1>1. lines \in Seq(LinesOf(s)) /\ n \in Nat /\ Len(last) = n + 1 /\ last[n + 1] = line
    OBVIOUS
  <1>2. more[s] = last /\ \A t \in 1 .. NSources : t # s => more[t] = files[t]
    OBVIOUS
  <1>3. s \in Mates(s) /\ Mates(s) \subseteq 1 .. NSources
    BY MatesAre
  <1>4. \A k \in 1 .. n : last[k] = lines[k]
    BY <1>1
  <1> HIDE DEF more, last
  <1>5. \A i \in 1 .. n : \A j, patch :
          /\ Says(s, last, i, j, patch) <=> Says(s, lines, i, j, patch)
          /\ NameAt(s, last, i, j) = NameAt(s, lines, i, j)
          /\ Width(s, last[i]) = Width(s, lines[i])
    BY <1>1, SaysStays DEF last
  (* A place that was there is still there, and says what it said. *)
  <1>6. ASSUME NEW t \in Mates(s), NEW spot \in SpotsIn(t, files[t])
        PROVE  /\ spot \in SpotsIn(t, more[t])
               /\ spot[1] = t
               /\ \A patch : SaysIn(more, spot, patch) <=> SaysIn(files, spot, patch)
               /\ NameAt(t, more[t], spot[2], spot[3]) = NameAt(t, files[t], spot[2], spot[3])
               /\ spot[1] < s \/ (spot[1] = s /\ spot[2] \in 1 .. n)
    <2>0. PICK i \in 1 .. Len(files[t]) : \E j \in 1 .. Width(t, files[t][i]) : spot = <<t, i, j>>
      BY SpotsAre
    <2>1. PICK j \in 1 .. Width(t, files[t][i]) : spot = <<t, i, j>>
      BY <2>0
    <2>2. spot[1] = t /\ spot[2] = i /\ spot[3] = j
      BY <2>1
    <2>3. t \in 1 .. NSources
      BY <1>3
    <2>4. CASE t = s
      <3>1. i \in 1 .. n /\ i \in 1 .. Len(last)
        BY <1>1, <2>4
      <3>2. j \in 1 .. Width(s, last[i])
        BY <1>4, <2>1, <2>4, <3>1
      <3>3. spot \in SpotsIn(t, more[t])
        BY <1>2, <2>1, <2>4, <3>1, <3>2, SpotsAre
      <3>4. \A patch : SaysIn(more, spot, patch) <=> SaysIn(files, spot, patch)
        BY <1>2, <1>5, <2>2, <2>4, <3>1 DEF SaysIn
      <3> QED
        BY <1>2, <1>5, <2>2, <2>4, <3>1, <3>3, <3>4
    <2>5. CASE t # s
      <3>1. more[t] = files[t]
        BY <1>2, <2>3, <2>5
      <3>2. files[t] # <<>>
        BY <2>1
      <3>3. t < s
        BY <2>3, <2>5, <3>2, NamesNumbers
      <3> QED
        BY <2>2, <3>1, <3>3 DEF SaysIn
    <2> QED
      BY <2>4, <2>5
  <1>7. ASSUME NEW e, ReadIn(s, files, e)
        PROVE  ReadIn(s, more, e)
    BY <1>6, <1>7, Zenon DEF ReadIn
  <1>8. StoredTrue(s, more, es)
    BY <1>7, Zenon DEF Matched, StoredTrue
  <1>9. PendingTrue(s, more, es, qs)
    <2> SUFFICES ASSUME NEW m \in 1 .. Len(qs)
                 PROVE  /\ IsPatch(s, qs[m]) => ReadIn(s, more, qs[m])
                        /\ \A k \in 1 .. Len(es) : Sooner(es[k].at, qs[m].at)
      BY Zenon DEF PendingTrue, RowTrue, last
    <2>1. /\ qs[m].at[1] = s /\ qs[m].at[2] = n + 1
          /\ IsPatch(s, qs[m]) =>
               /\ qs[m].at \in SpotsIn(s, last)
               /\ Says(s, last, n + 1, qs[m].at[3], Of(qs[m]))
               /\ qs[m].name = NameAt(s, last, n + 1, qs[m].at[3])
               /\ s \notin EngineSets => Of(qs[m]) \in Patches
      BY <1>1 DEF RowTrue, last
    <2>2. IsPatch(s, qs[m]) => ReadIn(s, more, qs[m])
      BY <1>2, <1>3, <2>1, Zenon DEF ReadIn, SaysIn
    <2>3. ASSUME NEW k \in 1 .. Len(es)
          PROVE  Sooner(es[k].at, qs[m].at)
      <3>1. ReadIn(s, files, es[k])
        BY DEF Matched, StoredTrue
      <3>2. es[k].at[1] \in Mates(s) /\ es[k].at \in SpotsIn(es[k].at[1], files[es[k].at[1]])
        BY <3>1 DEF ReadIn
      <3>3. es[k].at[1] < s \/ (es[k].at[1] = s /\ es[k].at[2] \in 1 .. n)
        BY <1>6, <3>2
      <3> QED
        BY <1>1, <2>1, <3>3 DEF Sooner
    <2> QED
      BY <2>2, <2>3
  <1>10. AllTaken(s, more, es, qs)
    <2> SUFFICES ASSUME NEW t \in Mates(s), NEW spot \in SpotsIn(t, more[t]), NEW patch \in Patches,
                        SaysIn(more, spot, patch)
                 PROVE  \/ \E k \in 1 .. Len(es) : es[k].at = spot /\ Of(es[k]) = patch
                        \/ \E m \in 1 .. Len(qs) :
                             qs[m].at = spot /\ Of(qs[m]) = patch /\ IsPatch(s, qs[m])
      BY Zenon DEF AllTaken
    <2>1. CASE spot \in SpotsIn(t, files[t])
      <3>1. SaysIn(files, spot, patch)
        BY <1>6, <2>1, Zenon
      <3> QED
        BY <1>0, <2>1, <3>1, Zenon DEF AllStored
    <2>2. CASE spot \notin SpotsIn(t, files[t])
      <3>0. PICK i \in 1 .. Len(more[t]) : \E j \in 1 .. Width(t, more[t][i]) : spot = <<t, i, j>>
        BY SpotsAre
      <3>1. PICK j \in 1 .. Width(t, more[t][i]) : spot = <<t, i, j>>
        BY <3>0
      <3>2. t = s
        BY <1>2, <1>3, <2>2
      <3>3. i = n + 1
        <4>1. i \in 1 .. n + 1
          BY <1>1, <1>2, <3>1, <3>2
        <4>2. ASSUME i \in 1 .. n PROVE FALSE
          <5>1. j \in 1 .. Width(s, lines[i])
            BY <1>2, <1>4, <3>1, <3>2, <4>2
          <5> QED
            BY <2>2, <3>1, <3>2, <4>2, <5>1, SpotsAre
        <4> QED
          BY <1>1, <4>1, <4>2
      <3>4. Says(s, last, n + 1, j, patch) /\ j \in 1 .. Width(s, last[n + 1])
        <4>1. spot[1] = s /\ spot[2] = n + 1 /\ spot[3] = j /\ more[s] = last
          BY <1>2, <3>1, <3>2, <3>3
        <4>2. Says(s, last, n + 1, j, patch)
          BY <4>1, Zenon DEF SaysIn
        <4> QED
          BY <3>1, <3>2, <3>3, <4>1, <4>2
      <3>5. \E m \in 1 .. Len(qs) :
              qs[m].at = <<s, n + 1, j>> /\ Of(qs[m]) = patch /\ IsPatch(s, qs[m])
        BY <1>1, <3>4 DEF RowTrue, last
      <3> QED
        BY <3>1, <3>2, <3>3, <3>5
    <2> QED
      BY <2>1, <2>2
  <1> QED
    BY <1>8, <1>9, <1>10 DEF Matched, more, last


(***************************************************************************)
(* What the lines of each kind of source give.                             *)
(***************************************************************************)

(* scva__parse's page m and header are those of the next line. *)
OnHeader(lines, p, m, header) ==
  IF header = <<>>
  THEN Number(m, Maps) => \A i \in p + 1 .. Len(lines) : lines[i].kind # "tabbed"
  ELSE \E h \in 1 .. Len(lines) : Under(lines, Len(lines) + 1, p, h) /\ header = lines[h].cells

ReaderTrue(lines, m, header) ==
  \/ /\ m = -1 /\ header = <<>>
     /\ \A i \in 1 .. Len(lines) : lines[i].kind # "page"
  \/ \E p \in 1 .. Len(lines) :
       /\ OnPage(lines, Len(lines) + 1, p) /\ m = lines[p].map
       /\ OnHeader(lines, p, m, header)

LEMMA RowEmpty ==
  ASSUME NEW s, NEW lines,
         \A j \in 1 .. Width(s, lines[Len(lines)]) : \A patch \in Patches :
           ~ Says(s, lines, Len(lines), j, patch)
  PROVE  RowTrue(s, lines, <<>>)
  <1>1. \A m \in 1 .. Len(<<>>) : FALSE
    OBVIOUS
  <1> QED
    BY <1>1 DEF RowTrue, Ascending

LEMMA RowOne ==
  ASSUME NEW s, NEW lines, NEW e, NEW n \in Nat \ {0}, Len(lines) = n, e.at = <<s, n, 1>>,
         Width(s, lines[n]) = 1,
         IsPatch(s, e) =>
           /\ Says(s, lines, n, 1, Of(e))
           /\ e.name = NameAt(s, lines, n, 1)
           /\ s \notin EngineSets => Of(e) \in Patches,
         \A patch \in Patches : Says(s, lines, n, 1, patch) => Of(e) = patch /\ IsPatch(s, e)
  PROVE  RowTrue(s, lines, <<e>>)
  <1> DEFINE qs == <<e>>
  <1>1. Len(qs) = 1 /\ qs[1] = e /\ \A m \in 1 .. Len(qs) : m = 1
    OBVIOUS
  <1> HIDE DEF qs
  <1>2. e.at \in SpotsIn(s, lines)
    <2>1. Len(lines) \in 1 .. Len(lines) /\ 1 \in 1 .. Width(s, lines[Len(lines)])
      OBVIOUS
    <2> QED
      BY <2>1, SpotsAre
  <1>3. e.at[1] = s /\ e.at[2] = Len(lines) /\ e.at[3] = 1
    OBVIOUS
  <1>4. Ascending(qs)
    BY <1>1 DEF Ascending
  <1>5. \A m \in 1 .. Len(qs) :
          /\ qs[m].at[1] = s /\ qs[m].at[2] = Len(lines)
          /\ IsPatch(s, qs[m]) =>
               /\ qs[m].at \in SpotsIn(s, lines)
               /\ Says(s, lines, Len(lines), qs[m].at[3], Of(qs[m]))
               /\ qs[m].name = NameAt(s, lines, Len(lines), qs[m].at[3])
               /\ s \notin EngineSets => Of(qs[m]) \in Patches
    BY <1>1, <1>2, <1>3
  <1>6. ASSUME NEW j \in 1 .. Width(s, lines[Len(lines)]), NEW patch \in Patches,
               Says(s, lines, Len(lines), j, patch)
        PROVE  \E m \in 1 .. Len(qs) :
                 qs[m].at = <<s, Len(lines), j>> /\ Of(qs[m]) = patch /\ IsPatch(s, qs[m])
    <2>1. j = 1 /\ 1 \in 1 .. Len(qs)
      BY <1>1
    <2> QED
      BY <1>1, <1>6, <2>1
  <1> QED
    BY <1>4, <1>5, <1>6 DEF RowTrue, qs

LEMMA PatchesAre ==
  /\ \A patch \in Patches :
       /\ patch = <<patch[1], patch[2], patch[3], patch[4]>>
       /\ patch[1] \in {"t", "d"} /\ patch[2] \in 0 .. Maps - 1
       /\ patch[3] \in 0 .. Byte - 1 /\ patch[4] \in 0 .. Programs - 1
  /\ \A kind \in {"t", "d"} : \A m \in 0 .. Maps - 1 : \A a \in 0 .. Byte - 1 :
       \A b \in 0 .. Programs - 1 : <<kind, m, a, b>> \in Patches
  BY DEF Patches

LEMMA TableRow ==
  ASSUME NamesTypeOK, source \in {OwnTable, BesideCore}, progress = "read", NEW line \in TableLines
  PROVE  RowTrue(source, Append(text[source], line), TableEntries(line))
  <1> DEFINE s == source
             more == Append(text[source], line)
             n == Len(text[source])
             name == IF line.name = Blank THEN Junk ELSE line.name
             e == Entry(line.kind, line.map, line.a, line.b, name, Spot(1))
             good == /\ line.kind \in {"t", "d", "k"} /\ Number(line.map, Maps)
                     /\ Number(line.a, Programs) /\ Number(line.b, Programs)
  <1>1. text[source] \in Seq(LinesOf(source)) /\ source \in 1 .. NSources
    BY SpotTyped
  <1>2. n \in Nat /\ Len(more) = n + 1 /\ more[n + 1] = line
    BY <1>1
  <1>3. s \notin Vendor /\ s \notin EngineSets /\ Width(s, more[n + 1]) = 1
    BY NamesNumbers DEF Vendor, EngineSets, OwnTable, BesideCore, Width
  <1>4. Spot(1) = <<s, n + 1, 1>>
    BY DEF Spot
  <1>5. /\ e.kind = line.kind /\ e.name = name /\ e.at = <<s, n + 1, 1>>
        /\ Of(e) = <<line.kind, line.map, line.a, line.b>>
    BY <1>4 DEF Entry, Of
  <1>6. TableEntries(line) = IF good THEN <<e>> ELSE <<>>
    BY DEF TableEntries
  <1>7. name = NameAt(s, more, n + 1, 1)
    BY <1>2, <1>3 DEF NameAt
  <1> HIDE DEF more, e, name
  <1>8. \A patch : Says(s, more, n + 1, 1, patch) <=>
          /\ line.kind = patch[1] /\ line.a = patch[3] /\ line.b = patch[4]
          /\ patch[2] = line.map /\ Number(patch[3], Programs)
    BY <1>2, <1>3, Zenon DEF Says
  <1>9. \A patch \in Patches : Says(s, more, n + 1, 1, patch) =>
          good /\ patch = <<line.kind, line.map, line.a, line.b>>
    <2> SUFFICES ASSUME NEW patch \in Patches, Says(s, more, n + 1, 1, patch)
                 PROVE  good /\ patch = <<line.kind, line.map, line.a, line.b>>
      OBVIOUS
    <2>1. /\ line.kind = patch[1] /\ line.a = patch[3] /\ line.b = patch[4]
          /\ patch[2] = line.map /\ Number(patch[3], Programs)
      BY <1>8
    <2>2. /\ patch = <<patch[1], patch[2], patch[3], patch[4]>>
          /\ patch[1] \in {"t", "d"} /\ patch[2] \in 0 .. Maps - 1
          /\ patch[4] \in 0 .. Programs - 1
      BY PatchesAre
    <2>3. good
      BY <2>1, <2>2 DEF Number
    <2> QED
      BY <2>1, <2>2, <2>3
  <1>10. CASE ~ good
    <2>1. RowTrue(s, more, <<>>)
      BY <1>2, <1>3, <1>9, <1>10, RowEmpty
    <2> QED
      BY <1>6, <1>10, <2>1 DEF more
  <1>11. CASE good
    <2>1. IsPatch(s, e) =>
            /\ Says(s, more, n + 1, 1, Of(e))
            /\ e.name = NameAt(s, more, n + 1, 1)
            /\ Of(e) \in Patches
      <3> SUFFICES ASSUME IsPatch(s, e)
                   PROVE  /\ Says(s, more, n + 1, 1, Of(e))
                          /\ e.name = NameAt(s, more, n + 1, 1)
                          /\ Of(e) \in Patches
        OBVIOUS
      <3>1. line.kind \in {"t", "d"}
        BY <1>5, <1>11 DEF IsPatch
      <3>2. Says(s, more, n + 1, 1, Of(e))
        BY <1>5, <1>8, <1>11
      <3>3. line.map \in 0 .. Maps - 1 /\ line.a \in 0 .. Byte - 1 /\ line.b \in 0 .. Programs - 1
        BY <1>11, NamesNumbers DEF Number
      <3>4. Of(e) \in Patches
        BY <1>5, <3>1, <3>3, PatchesAre
      <3> QED
        BY <1>5, <1>7, <3>2, <3>4
    <2>2. \A patch \in Patches : Says(s, more, n + 1, 1, patch) => Of(e) = patch /\ IsPatch(s, e)
      <3> TAKE patch \in Patches
      <3> HAVE Says(s, more, n + 1, 1, patch)
      <3>1. patch = <<line.kind, line.map, line.a, line.b>> /\ patch[1] \in {"t", "d"}
        BY <1>9, PatchesAre
      <3>2. line.kind \in {"t", "d"}
        BY <3>1
      <3> QED
        BY <1>3, <1>5, <3>1, <3>2 DEF IsPatch
    <2>0. n + 1 \in Nat \ {0}
      BY <1>2
    <2>3. RowTrue(s, more, <<e>>)
      BY <1>2, <1>3, <1>5, <2>0, <2>1, <2>2, RowOne
    <2> QED
      BY <1>6, <1>11, <2>3 DEF more
  <1> QED
    BY <1>10, <1>11

LEMMA EngineRow ==
  ASSUME NamesTypeOK, source \in EngineSets, progress = "read", NEW sound \in Sounds
  PROVE  RowTrue(source, Append(text[source], sound),
                 <<Entry(sound.kind, source - 8, sound.a, sound.b, sound.name, Spot(1))>>)
  <1> DEFINE s == source
             more == Append(text[source], sound)
             n == Len(text[source])
             e == Entry(sound.kind, source - 8, sound.a, sound.b, sound.name, Spot(1))
  <1>1. text[source] \in Seq(LinesOf(source)) /\ source \in 1 .. NSources
    BY SpotTyped
  <1>2. n \in Nat /\ Len(more) = n + 1 /\ more[n + 1] = sound
    BY <1>1
  <1>3. s \notin Vendor /\ Width(s, more[n + 1]) = 1
    BY NamesNumbers DEF Vendor, EngineSets, Width
  <1>4. Spot(1) = <<s, n + 1, 1>>
    BY DEF Spot
  <1>5. /\ e.kind = sound.kind /\ e.name = sound.name /\ e.at = <<s, n + 1, 1>>
        /\ Of(e) = <<sound.kind, s - 8, sound.a, sound.b>>
    BY <1>4 DEF Entry, Of
  <1>6. e.name = NameAt(s, more, n + 1, 1)
    BY <1>2, <1>3, <1>5 DEF NameAt
  <1> HIDE DEF more, e
  <1>7. \A patch : Says(s, more, n + 1, 1, patch) <=>
          /\ sound.kind = patch[1] /\ sound.a = patch[3] /\ sound.b = patch[4]
          /\ patch[2] = s - 8
    BY <1>2, <1>3, Zenon DEF Says
  <1>8. Says(s, more, n + 1, 1, Of(e))
    BY <1>5, <1>7
  <1>9. \A patch \in Patches : Says(s, more, n + 1, 1, patch) => Of(e) = patch
    <2> TAKE patch \in Patches
    <2> HAVE Says(s, more, n + 1, 1, patch)
    <2>1. patch = <<patch[1], patch[2], patch[3], patch[4]>>
      BY PatchesAre
    <2>2. /\ sound.kind = patch[1] /\ sound.a = patch[3] /\ sound.b = patch[4]
          /\ patch[2] = s - 8
      BY <1>7
    <2> QED
      BY <1>5, <2>1, <2>2
  <1>10. IsPatch(s, e)
    <2>1. sound.kind \in {"t", "d"}
      BY LineTyped
    <2> QED
      BY <1>3, <1>5, <2>1 DEF IsPatch
  <1>11. n + 1 \in Nat \ {0}
    BY <1>2
  <1>12. RowTrue(s, more, <<e>>)
    BY <1>2, <1>3, <1>5, <1>6, <1>8, <1>9, <1>10, <1>11, RowOne
  <1> QED
    BY <1>12 DEF more, e


(* A line has one page, and that one header. *)
LEMMA OnePage ==
  ASSUME NEW lines, NEW i \in Nat, NEW p \in Nat, NEW q \in Nat,
         OnPage(lines, i, p), OnPage(lines, i, q)
  PROVE  p = q
  BY DEF OnPage

LEMMA OneHeader ==
  ASSUME NEW lines, NEW i \in Nat, NEW p \in Nat, NEW h \in Nat, NEW k \in Nat,
         Under(lines, i, p, h), Under(lines, i, p, k)
  PROVE  h = k
  BY DEF Under

(* The page and header of a line that is read are the reader's. *)
LEMMA LastSays ==
  ASSUME NEW lines \in Seq(VendorLines), NEW line \in VendorLines, NEW m, NEW header,
         ReaderTrue(lines, m, header),
         NEW p \in 1 .. Len(lines) + 1, NEW h \in 1 .. Len(lines) + 1,
         OnPage(Append(lines, line), Len(lines) + 1, p),
         Under(Append(lines, line), Len(lines) + 1, p, h)
  PROVE  /\ p \in 1 .. Len(lines) /\ m = lines[p].map
         /\ Number(m, Maps) => header # <<>> /\ header = lines[h].cells /\ h \in 1 .. Len(lines)
  <1> DEFINE n == Len(lines)
             more == Append(lines, line)
  <1>1. n \in Nat /\ n <= Len(lines) /\ \A k \in 1 .. n : more[k] = lines[k]
    OBVIOUS
  <1> HIDE DEF more
  <1>2. p \in 1 .. n /\ h \in 1 .. n /\ p < h
    BY <1>1 DEF OnPage, Under, more
  <1>3. OnPage(lines, n + 1, p) /\ Under(lines, n + 1, p, h)
    <2>1. n + 1 \in 1 .. n + 1
      BY <1>1
    <2> QED
      BY <1>1, <1>2, <2>1, PageStays, HeaderStays DEF more
  <1>4. lines[p].kind = "page"
    BY <1>3 DEF OnPage
  <1>5. PICK q \in 1 .. n : /\ OnPage(lines, n + 1, q) /\ m = lines[q].map
                            /\ OnHeader(lines, q, m, header)
    BY <1>2, <1>4, Zenon DEF ReaderTrue
  <1>6. q = p
    BY <1>1, <1>2, <1>3, <1>5, OnePage
  <1>7. ASSUME Number(m, Maps) PROVE header # <<>> /\ header = lines[h].cells
    <2>1. header # <<>>
      <3>1. h \in p + 1 .. n /\ lines[h].kind = "tabbed"
        BY <1>1, <1>2, <1>3 DEF Under
      <3> QED
        BY <1>5, <1>6, <1>7, <3>1 DEF OnHeader
    <2>2. PICK k \in 1 .. n : Under(lines, n + 1, p, k) /\ header = lines[k].cells
      BY <1>5, <1>6, <2>1 DEF OnHeader
    <2>3. k = h
      BY <1>1, <1>2, <1>3, <2>2, OneHeader
    <2> QED
      BY <2>1, <2>2, <2>3
  <1> QED
    BY <1>2, <1>5, <1>6, <1>7

(* What scva__parse makes of a line with a tab. *)
TabbedRow(line) ==
  IF Number(map, Maps) /\ axis # <<>> THEN Cells(source, map, axis, line) ELSE <<>>
TabbedHeader(lines, m, header, line) ==
  IF Number(m, Maps) /\ header = <<>> THEN line.cells ELSE header

LEMMA VendorQuiet ==
  ASSUME NEW s \in Vendor, NEW lines \in Seq(VendorLines), NEW line \in VendorLines,
         NEW m, NEW header, ReaderTrue(lines, m, header),
         ~ (line.kind = "tabbed" /\ Number(m, Maps) /\ header # <<>>)
  PROVE  RowTrue(s, Append(lines, line), <<>>)
  <1> DEFINE n == Len(lines)
             more == Append(lines, line)
  <1>1. n \in Nat /\ Len(more) = n + 1 /\ more[n + 1] = line /\ \A k \in 1 .. n : more[k] = lines[k]
    OBVIOUS
  <1> SUFFICES ASSUME NEW j \in 1 .. Width(s, more[n + 1]), NEW patch \in Patches,
                      Says(s, more, n + 1, j, patch)
               PROVE  FALSE
    BY <1>1, RowEmpty
  <1> HIDE DEF more
  <1>2. line.kind = "tabbed"
    BY <1>1 DEF Says
  <1>3. PICK p \in 1 .. n + 1, h \in 1 .. n + 1 :
          OnPage(more, n + 1, p) /\ Under(more, n + 1, p, h) /\ more[p].map = patch[2]
    BY Zenon DEF Says
  <1>4. /\ p \in 1 .. n /\ m = lines[p].map
        /\ Number(m, Maps) => header # <<>> /\ header = lines[h].cells /\ h \in 1 .. n
    BY <1>3, LastSays DEF more
  <1>5. Number(m, Maps)
    <2>1. m = patch[2] /\ patch[2] \in 0 .. Maps - 1
      BY <1>1, <1>3, <1>4, PatchesAre
    <2> QED
      BY <2>1 DEF Number
  <1> QED
    BY <1>2, <1>4, <1>5

LEMMA VendorRow ==
  ASSUME NamesTypeOK, source \in Vendor, progress = "read", ReaderTrue(text[source], map, axis),
         NEW line \in VendorLines, line.kind = "tabbed", Number(map, Maps), axis # <<>>
  PROVE  RowTrue(source, Append(text[source], line), Cells(source, map, axis, line))
  <1> DEFINE s == source
             lines == text[source]
             more == Append(lines, line)
             n == Len(lines)
             row == Row(s, line.label)
             e(j) == Entry(Kind(s), map, Value(axis[j]), row, line.cells[j], Spot(j))
             width == Columned(axis, line)
             qs == [j \in 1 .. width |-> e(j)]
             good == ~ (line.label = Blank \/ ~ Number(row, Programs))
  <1>1. lines \in Seq(VendorLines) /\ source \in 1 .. NSources
    <2>1. lines \in Seq(LinesOf(source)) /\ source \in 1 .. NSources
      BY SpotTyped
    <2> QED
      BY <2>1 DEF LinesOf, Vendor, OwnTable, BesideCore
  <1>2. n \in Nat /\ Len(more) = n + 1 /\ more[n + 1] = line /\ \A k \in 1 .. n : more[k] = lines[k]
    BY <1>1
  <1>3. axis \in Seq(Int) /\ line.cells \in Seq(Int) /\ line.label \in Int /\ map \in 0 .. Maps - 1
    BY LineTyped DEF NamesTypeOK, Scanned, Number
  <1>a. DOMAIN axis = 1 .. Len(axis)
    BY <1>3
  <1>4. /\ s \notin EngineSets /\ Kind(s) \in {"t", "d", "k"}
        /\ Width(s, more[n + 1]) = Len(line.cells)
    <2>1. s \notin EngineSets
      BY NamesNumbers DEF Vendor, EngineSets
    <2> QED
      BY <1>2, <2>1, KindIs DEF Width
  <1>5. /\ width \in Nat
        /\ \A j \in Nat : j \in 1 .. width <=>
                            j \in 1 .. Len(axis) /\ j <= Columns /\ j \in 1 .. Len(line.cells)
    BY <1>3, ColumnedIs
  <1>6. \A j \in Nat : /\ e(j).kind = Kind(s) /\ e(j).name = line.cells[j]
                       /\ e(j).at = <<s, n + 1, j>>
                       /\ Of(e(j)) = <<Kind(s), map, Value(axis[j]), row>>
    BY DEF Entry, Of, Spot
  <1>7. Cells(s, map, axis, line) = IF good THEN qs ELSE <<>>
    BY DEF Cells, Columned
  <1> HIDE DEF more, row, e, width
  <1>8. Len(qs) = width /\ \A j \in 1 .. Len(qs) : qs[j] = e(j) /\ j \in Nat
    BY <1>5
  <1> HIDE DEF qs
  (* What the row says is under the reader's header. *)
  <1>9. ASSUME NEW j \in 1 .. Len(line.cells), NEW patch \in Patches, Says(s, more, n + 1, j, patch)
        PROVE  /\ good /\ j \in 1 .. width /\ line.cells[j] # Blank
               /\ patch = <<Kind(s), map, Value(axis[j]), row>>
    <2>1. /\ patch[1] = Kind(s) /\ line.label # Blank /\ Row(s, line.label) = patch[4]
          /\ line.cells[j] # Blank
          /\ \E p, h \in 1 .. n + 1 :
               /\ OnPage(more, n + 1, p) /\ Under(more, n + 1, p, h)
               /\ more[p].map = patch[2]
               /\ j <= Columns /\ j \in DOMAIN more[h].cells
               /\ Value(more[h].cells[j]) = patch[3]
      BY <1>2, <1>9, Zenon DEF Says
    <2>2. PICK p \in 1 .. n + 1, h \in 1 .. n + 1 :
            /\ OnPage(more, n + 1, p) /\ Under(more, n + 1, p, h)
            /\ more[p].map = patch[2]
            /\ j <= Columns /\ j \in DOMAIN more[h].cells
            /\ Value(more[h].cells[j]) = patch[3]
      BY <2>1, Zenon
    <2>3. p \in 1 .. n /\ map = lines[p].map /\ axis = lines[h].cells /\ h \in 1 .. n
      <3>1. OnPage(Append(lines, line), n + 1, p) /\ Under(Append(lines, line), n + 1, p, h)
        BY <2>2 DEF more
      <3>2. ReaderTrue(lines, map, axis) /\ n = Len(lines)
        OBVIOUS
      <3> HIDE DEF lines, n
      <3> QED
        BY <1>1, <3>1, <3>2, LastSays
    <2>4. map = patch[2] /\ Value(axis[j]) = patch[3] /\ j \in 1 .. Len(axis)
      <3>1. more[p] = lines[p] /\ more[h] = lines[h]
        BY <1>2, <2>3
      <3>2. more[h].cells = axis /\ more[p].map = map
        BY <2>3, <3>1
      <3> QED
        BY <1>a, <2>2, <3>2
    <2>5. /\ patch = <<patch[1], patch[2], patch[3], patch[4]>>
          /\ patch[4] \in 0 .. Programs - 1
      BY PatchesAre
    <2>6. good
      BY <2>1, <2>5 DEF Number, row
    <2>7. j \in 1 .. width
      BY <1>3, <1>5, <2>2, <2>4
    <2> QED
      BY <2>1, <2>4, <2>5, <2>6, <2>7 DEF row
  <1>10. CASE ~ good
    <2>1. RowTrue(s, more, <<>>)
      BY <1>2, <1>4, <1>9, <1>10, RowEmpty
    <2> QED
      BY <1>7, <1>10, <2>1 DEF more
  <1>11. CASE good
    (* The page and header the reader has are there. *)
    <2>1. PICK p \in 1 .. n, h \in 1 .. n :
            /\ OnPage(more, n + 1, p) /\ Under(more, n + 1, p, h)
            /\ more[p].map = map /\ more[h].cells = axis
      <3>1. PICK p \in 1 .. n : /\ OnPage(lines, n + 1, p) /\ map = lines[p].map
                                /\ OnHeader(lines, p, map, axis)
        BY DEF ReaderTrue
      <3>2. PICK h \in 1 .. n : Under(lines, n + 1, p, h) /\ axis = lines[h].cells
        BY <3>1 DEF OnHeader
      <3>3. n + 1 \in 1 .. n + 1 /\ n <= Len(lines)
        BY <1>2
      <3>4. OnPage(more, n + 1, p) /\ Under(more, n + 1, p, h)
        <4> HIDE DEF lines
        <4>1. OnPage(more, n + 1, p)
          BY <1>1, <1>2, <3>1, <3>3, PageStays
        <4>2. Under(more, n + 1, p, h)
          BY <1>1, <1>2, <3>2, <3>3, HeaderStays
        <4> QED
          BY <4>1, <4>2
      <3> QED
        BY <1>2, <3>1, <3>2, <3>4
    <2>2. ASSUME NEW j \in 1 .. width
          PROVE  /\ e(j).at[1] = s /\ e(j).at[2] = n + 1 /\ e(j).at[3] = j
                 /\ e(j).at \in SpotsIn(s, more)
                 /\ IsPatch(s, e(j)) =>
                      /\ Says(s, more, n + 1, j, Of(e(j)))
                      /\ e(j).name = NameAt(s, more, n + 1, j)
                      /\ Of(e(j)) \in Patches
      <3>1. j \in Nat /\ j \in 1 .. Len(axis) /\ j <= Columns /\ j \in 1 .. Len(line.cells)
        BY <1>5
      <3>2. /\ e(j).kind = Kind(s) /\ e(j).name = line.cells[j] /\ e(j).at = <<s, n + 1, j>>
            /\ Of(e(j)) = <<Kind(s), map, Value(axis[j]), row>>
        BY <1>6, <3>1
      <3>3. n + 1 \in 1 .. Len(more) /\ j \in 1 .. Width(s, more[n + 1])
        BY <1>2, <1>4, <3>1
      <3>4. e(j).at \in SpotsIn(s, more)
        BY <3>2, <3>3, SpotsAre
      <3>5. ASSUME IsPatch(s, e(j))
            PROVE  /\ Says(s, more, n + 1, j, Of(e(j)))
                   /\ e(j).name = NameAt(s, more, n + 1, j)
                   /\ Of(e(j)) \in Patches
        <4>1. Kind(s) \in {"t", "d"} /\ line.cells[j] # Blank
          BY <1>4, <3>2, <3>5 DEF IsPatch
        <4>2. Value(axis[j]) \in 0 .. Byte - 1 /\ row \in 0 .. Programs - 1
          <5>1. axis[j] \in Int
            BY <1>3, <3>1
          <5>2. row \in 0 .. Programs - 1
            BY <1>11 DEF Number
          <5> QED
            BY <5>1, <5>2, ValueIs
        <4>3. Of(e(j)) \in Patches
          BY <1>3, <3>2, <4>1, <4>2, PatchesAre
        <4>4. e(j).name = NameAt(s, more, n + 1, j)
          BY <1>2, <3>2 DEF NameAt
        <4> DEFINE patch == Of(e(j))
        <4>5. /\ patch[1] = Kind(s) /\ patch[2] = map /\ patch[3] = Value(axis[j])
              /\ patch[4] = row
          <5>1. patch = <<Kind(s), map, Value(axis[j]), row>>
            BY <3>2
          <5> HIDE DEF patch
          <5> QED
            BY <5>1
        <4> HIDE DEF patch
        <4>6. p \in 1 .. n + 1 /\ h \in 1 .. n + 1 /\ j \in DOMAIN axis
          BY <1>2, <1>a, <3>1
        <4>7. \E q, k \in 1 .. n + 1 :
                /\ OnPage(more, n + 1, q) /\ Under(more, n + 1, q, k)
                /\ more[q].map = patch[2]
                /\ j <= Columns /\ j \in DOMAIN more[k].cells
                /\ Value(more[k].cells[j]) = patch[3]
          BY <2>1, <3>1, <4>5, <4>6, Zenon
        <4>8. more[n + 1].kind = "tabbed" /\ more[n + 1].label # Blank
              /\ Row(s, more[n + 1].label) = patch[4] /\ more[n + 1].cells[j] # Blank
          BY <1>2, <1>11, <4>1, <4>5 DEF row
        <4>9. Says(s, more, n + 1, j, patch)
          BY <4>5, <4>7, <4>8, Zenon DEF Says
        <4> QED
          BY <4>3, <4>4, <4>9 DEF patch
      <3> QED
        BY <3>2, <3>4, <3>5
    <2>3. Ascending(qs)
      <3> SUFFICES ASSUME NEW k \in 1 .. Len(qs), NEW l \in 1 .. Len(qs), k < l
                   PROVE  Sooner(qs[k].at, qs[l].at)
        BY DEF Ascending
      <3>1. qs[k].at = <<s, n + 1, k>> /\ qs[l].at = <<s, n + 1, l>>
        BY <1>6, <1>8
      <3> QED
        BY <3>1 DEF Sooner
    <2>4. \A m \in 1 .. Len(qs) :
            /\ qs[m].at[1] = s /\ qs[m].at[2] = Len(more)
            /\ IsPatch(s, qs[m]) =>
                 /\ qs[m].at \in SpotsIn(s, more)
                 /\ Says(s, more, Len(more), qs[m].at[3], Of(qs[m]))
                 /\ qs[m].name = NameAt(s, more, Len(more), qs[m].at[3])
                 /\ s \notin EngineSets => Of(qs[m]) \in Patches
      <3> TAKE m \in 1 .. Len(qs)
      <3>1. m \in 1 .. width /\ qs[m] = e(m)
        BY <1>8
      <3> QED
        BY <1>2, <2>2, <3>1
    <2>5. ASSUME NEW j \in 1 .. Width(s, more[Len(more)]), NEW patch \in Patches,
                 Says(s, more, Len(more), j, patch)
          PROVE  \E m \in 1 .. Len(qs) :
                   qs[m].at = <<s, Len(more), j>> /\ Of(qs[m]) = patch /\ IsPatch(s, qs[m])
      <3>1. /\ good /\ j \in 1 .. width /\ line.cells[j] # Blank
            /\ patch = <<Kind(s), map, Value(axis[j]), row>>
        BY <1>2, <1>4, <1>9, <2>5
      <3>2. j \in 1 .. Len(qs) /\ qs[j] = e(j) /\ j \in Nat
        BY <1>8, <3>1
      <3>3. /\ e(j).kind = Kind(s) /\ e(j).name = line.cells[j] /\ e(j).at = <<s, Len(more), j>>
            /\ Of(e(j)) = patch
        BY <1>2, <1>6, <3>1, <3>2
      <3>4. Kind(s) \in {"t", "d"}
        <4>1. patch[1] = Kind(s)
          BY <3>1
        <4> QED
          BY <4>1, PatchesAre
      <3>5. IsPatch(s, e(j))
        BY <3>1, <3>3, <3>4 DEF IsPatch
      <3> QED
        BY <3>2, <3>3, <3>5
    <2>6. RowTrue(s, more, qs)
      BY <2>3, <2>4, <2>5 DEF RowTrue
    <2> QED
      BY <1>7, <1>11, <2>6 DEF more
  <1> QED
    BY <1>10, <1>11


LEMMA ReaderPage ==
  ASSUME NEW lines \in Seq(VendorLines), NEW line \in VendorLines, line.kind = "page"
  PROVE  ReaderTrue(Append(lines, line), line.map, <<>>)
  <1> DEFINE n == Len(lines)
             more == Append(lines, line)
  <1>1. n \in Nat /\ Len(more) = n + 1 /\ more[n + 1] = line /\ n + 1 \in 1 .. n + 1
    OBVIOUS
  <1> HIDE DEF more
  <1>2. OnPage(more, n + 2, n + 1)
    BY <1>1 DEF OnPage
  <1>3. OnHeader(more, n + 1, line.map, <<>>)
    BY <1>1 DEF OnHeader
  <1>4. Len(more) + 1 = n + 2
    BY <1>1
  <1> QED
    BY <1>1, <1>2, <1>3, <1>4 DEF ReaderTrue, more

LEMMA ReaderTabbed ==
  ASSUME NEW lines \in Seq(VendorLines), NEW line \in VendorLines, line.kind = "tabbed",
         NEW m, NEW header \in Seq(Int), ReaderTrue(lines, m, header)
  PROVE  ReaderTrue(Append(lines, line), m, TabbedHeader(lines, m, header, line))
  <1> DEFINE n == Len(lines)
             more == Append(lines, line)
             head == TabbedHeader(lines, m, header, line)
  <1>1. /\ n \in Nat /\ Len(more) = n + 1 /\ more[n + 1] = line /\ n <= Len(lines)
        /\ \A k \in 1 .. n : more[k] = lines[k]
    OBVIOUS
  <1>2. \A k \in 1 .. n + 1 : k \in 1 .. n \/ k = n + 1
    BY <1>1
  <1>3. "tabbed" # "page"
    OBVIOUS
  <1> HIDE DEF more, head
  <1>4. CASE m = -1 /\ header = <<>> /\ \A i \in 1 .. n : lines[i].kind # "page"
    <2>1. head = <<>>
      BY <1>4 DEF head, TabbedHeader, Number
    <2>2. \A i \in 1 .. n + 1 : more[i].kind # "page"
      BY <1>1, <1>2, <1>3, <1>4
    <2> QED
      BY <1>1, <1>4, <2>1, <2>2 DEF ReaderTrue, more, head
  <1>5. ASSUME NEW p \in 1 .. n, OnPage(lines, n + 1, p), m = lines[p].map,
               OnHeader(lines, p, m, header)
        PROVE  ReaderTrue(more, m, head)
    <2>1. OnPage(more, n + 2, p)
      <3>1. p < n + 1 /\ lines[p].kind = "page" /\ \A k \in p + 1 .. n : lines[k].kind # "page"
        BY <1>1, <1>5 DEF OnPage
      <3>2. \A k \in p + 1 .. n + 1 : k \in p + 1 .. n \/ k = n + 1
        BY <1>1
      <3>3. \A k \in p + 1 .. n + 1 : more[k].kind # "page"
        BY <1>1, <1>3, <3>1, <3>2
      <3>4. p < n + 2 /\ more[p].kind = "page" /\ (n + 2) - 1 = n + 1
        BY <1>1, <3>1
      <3> QED
        BY <3>3, <3>4 DEF OnPage
    <2>2. OnHeader(more, p, m, head)
      <3>1. CASE Number(m, Maps) /\ header = <<>>
        <4>1. head = line.cells /\ head # <<>>
          BY <3>1, LineTyped DEF head, TabbedHeader
        <4>2. \A i \in p + 1 .. n : lines[i].kind # "tabbed"
          BY <1>5, <3>1 DEF OnHeader
        <4>3. \A i \in p + 1 .. n : more[i].kind # "tabbed"
          <5>1. \A i \in p + 1 .. n : i \in 1 .. n
            BY <1>1
          <5>2. \A i \in p + 1 .. n : more[i] = lines[i]
            BY <1>1, <5>1
          <5> QED
            BY <4>2, <5>2
        <4>4. Under(more, n + 2, p, n + 1)
          BY <1>1, <4>3 DEF Under
        <4>5. n + 1 \in 1 .. Len(more) /\ Len(more) + 1 = n + 2 /\ more[n + 1].cells = head
          BY <1>1, <4>1
        <4> QED
          BY <4>1, <4>4, <4>5 DEF OnHeader
      <3>2. CASE ~ Number(m, Maps) /\ header = <<>>
        BY <3>2 DEF OnHeader, head, TabbedHeader
      <3>3. CASE header # <<>>
        <4>1. head = header
          BY <3>3 DEF head, TabbedHeader
        <4>2. PICK h \in 1 .. n : Under(lines, n + 1, p, h) /\ header = lines[h].cells
          BY <1>5, <3>3, Zenon DEF OnHeader
        <4>3. \A i \in p + 1 .. h - 1 : more[i] = lines[i]
          BY <1>1, <1>5, <4>2
        <4>4. more[h] = lines[h]
          BY <1>1
        <4>5. Under(more, n + 2, p, h)
          <5>1. /\ p < h /\ h < n + 2 /\ more[h].kind = "tabbed"
                /\ \A i \in p + 1 .. h - 1 : lines[i].kind # "tabbed"
            BY <1>1, <4>2, <4>4 DEF Under
          <5> QED
            BY <4>3, <5>1 DEF Under
        <4>6. h \in 1 .. Len(more) /\ Len(more) + 1 = n + 2
          BY <1>1
        <4> QED
          BY <3>3, <4>1, <4>2, <4>4, <4>5, <4>6 DEF OnHeader
      <3> QED
        BY <3>1, <3>2, <3>3
    <2>3. p \in 1 .. Len(more) /\ Len(more) + 1 = n + 2 /\ m = more[p].map
      BY <1>1, <1>5
    <2> QED
      BY <2>1, <2>2, <2>3 DEF ReaderTrue
  <1> QED
    BY <1>4, <1>5, Zenon DEF ReaderTrue, more, head

(***************************************************************************)
(* The invariant: what the files say is what is stored, while memory lasts. *)
(***************************************************************************)

(* No source is read before it is looked for. *)
InTurn ==
  \A s \in 1 .. NSources :
    text[s] # <<>> => source = GM \/ s < source \/ (s = source /\ progress # "look")

(* The sources given up had no patch. *)
GivenUp ==
  \A s \in 1 .. 8 :
    source = GM \/ (source \in 1 .. 8 /\ s < source /\ s \notin Mates(source)) => QuietIn(text, s)

Told == progress = "told" => IF source = GM THEN names = GmSet
                             ELSE source \in EngineSets \/ NPatch > 0

Faithful ==
  /\ InTurn
  /\ GivenUp
  /\ source # GM => Matched(source, text, names.patch, pending)
  /\ source \in Vendor /\ progress = "read" => ReaderTrue(text[source], map, axis)
  /\ Told

NamesInv == NamesKept /\ (~short => Faithful)

LEMMA NamesInitFaithful == NamesInit => NamesInv
  <1> SUFFICES ASSUME NamesInit PROVE Faithful
    BY NamesInitKept DEF NamesInv
  <1>1. /\ source \in 1 .. NSources /\ source # GM /\ source \in {1, 9} /\ progress = "look"
        /\ names.patch = <<>> /\ pending = <<>>
        /\ \A s \in 1 .. NSources : text[s] = <<>>
    BY NamesNumbers DEF NamesInit, GM, OwnTable, Nothing
  <1>2. Matched(source, text, names.patch, pending)
    <2>1. \A t \in Mates(source) : text[t] = <<>>
      BY <1>1, MatesAre
    <2> QED
      BY <1>1, <2>1, MatchedFresh
  <1>3. InTurn
    BY <1>1 DEF InTurn
  <1>4. GivenUp
    BY <1>1 DEF GivenUp
  <1> QED
    BY <1>1, <1>2, <1>3, <1>4 DEF Faithful, Told

(* A source not read says nothing. *)
LEMMA UnreadQuiet ==
  ASSUME NEW files, NEW s, files[s] = <<>>
  PROVE  QuietIn(files, s)
  <1>1. SpotsIn(s, files[s]) = {}
    BY DEF SpotsIn
  <1> QED
    BY <1>1 DEF QuietIn

(* A file without a patch: nor has any other file up to here. *)
LEMMA AllQuiet ==
  ASSUME NamesTypeOK, Faithful, source \in 1 .. 8, NPatch = 0, pending = <<>>
  PROVE  \A s \in 1 .. 8 : QuietIn(text, s)
  <1> TAKE s \in 1 .. 8
  <1>1. source # GM /\ names.patch = <<>> /\ s \in 1 .. NSources
    BY NamesNumbers DEF NamesTypeOK, Shelved, NPatch, GM
  <1>2. CASE s \in Mates(source)
    <2>1. AllStored(source, text, <<>>)
      BY <1>1, Settled DEF Faithful
    <2>2. \A k \in 1 .. Len(<<>>) : FALSE
      OBVIOUS
    <2> QED
      BY <1>2, <2>1, <2>2, Zenon DEF AllStored, QuietIn
  <1>3. CASE s \notin Mates(source) /\ s < source
    BY <1>3 DEF Faithful, GivenUp
  <1>4. CASE s \notin Mates(source) /\ ~ s < source
    <2>1. s # source
      BY <1>4, NamesNumbers, MatesAre
    <2>2. text[s] = <<>>
      BY <1>1, <1>4, <2>1 DEF Faithful, InTurn
    <2> QED
      BY <2>2, UnreadQuiet
  <1> QED
    BY <1>2, <1>3, <1>4


LEMMA TurnFaithful ==
  ASSUME NamesTypeOK, Faithful, source # GM, text' = text,
         NEW t \in 0 .. NSources, TurnTo(t), t = GM \/ source < t,
         \A s \in 1 .. 8 :
           t = GM \/ (t \in 1 .. 8 /\ s < t /\ s \notin Mates(t)) => QuietIn(text, s),
         t # GM => Matched(t, text, names'.patch, <<>>)
  PROVE  Faithful'
  <1>1. progress' = "look" /\ source' = t /\ pending' = <<>>
    BY DEF TurnTo, LeaveFile
  <1>2. source \in Nat /\ NSources \in Nat
    BY NamesNumbers DEF NamesTypeOK, Turned
  <1>3. InTurn'
    BY <1>1, <1>2 DEF Faithful, InTurn, GM
  <1>4. GivenUp'
    BY <1>1, Zenon DEF GivenUp
  <1>5. Told'
    BY <1>1 DEF Told
  <1>6. source' # GM => Matched(source', text', names'.patch, pending')
    BY <1>1
  <1>7. ~ (progress' = "read")
    BY <1>1
  <1> QED
    BY <1>3, <1>4, <1>5, <1>6, <1>7 DEF Faithful

LEMMA TellFaithful ==
  ASSUME NamesTypeOK, Faithful, source # GM, pending = <<>>, text' = text, NEW n, Tell(n),
         names'.patch = names.patch, source \in EngineSets \/ NPatch > 0
  PROVE  Faithful'
  <1>1. progress' = "told" /\ source' = source /\ pending' = <<>>
    BY DEF Tell, LeaveFile
  <1>3. InTurn'
    BY <1>1 DEF Faithful, InTurn
  <1>4. GivenUp'
    <2>1. GivenUp
      BY DEF Faithful
    <2> QED
      BY <1>1, <2>1, Zenon DEF GivenUp
  <1>5. Told'
    BY <1>1 DEF Told, NPatch
  <1>6. Matched(source', text', names'.patch, pending')
    BY <1>1 DEF Faithful
  <1>7. ~ (progress' = "read")
    BY <1>1
  <1> QED
    BY <1>3, <1>4, <1>5, <1>6, <1>7 DEF Faithful

LEMMA AfterFaithful ==
  ASSUME NamesTypeOK, Faithful, source # GM, pending = <<>>, text' = text, After
  PROVE  Faithful'
  <1>1. /\ source \in 1 .. NSources /\ NSources \in Nat /\ 8 < NSources
        /\ NPatch \in Nat /\ names.patch \in Seq(Stored)
    BY NamesNumbers DEF NamesTypeOK, Turned, Shelved, NPatch, GM
  <1>2. InTurn /\ GivenUp /\ Matched(source, text, names.patch, <<>>)
    BY DEF Faithful
  (* The next file starts afresh. *)
  <1>3. ASSUME source \in 1 .. 8, NPatch = 0, NEW t \in {GM, 2, 3, 6}, source < t \/ t = GM,
               source < 6 \/ t = GM, TurnTo(t), Keep \/ Forget,
               \A u \in Mates(t) : t # GM => source < u /\ u \in 1 .. 8
        PROVE  Faithful'
    <2>1. \A s \in 1 .. 8 : QuietIn(text, s)
      BY <1>3, AllQuiet
    <2>2. names'.patch = <<>>
      BY <1>1, <1>3 DEF Keep, Forget, Nothing, NPatch
    <2>3. t # GM => Matched(t, text, <<>>, <<>>)
      <3>1. \A u \in Mates(t) : t # GM => text[u] = <<>>
        BY <1>1, <1>2, <1>3 DEF InTurn, GM
      <3> QED
        BY <3>1, MatchedFresh
    <2>4. t \in 0 .. NSources
      BY <1>1 DEF GM
    <2> QED
      BY <1>3, <2>1, <2>2, <2>3, <2>4, TurnFaithful
  (* The next file of the set, or the next tone set. *)
  <1>4. ASSUME source \in {3, 4, 6, 7} \/ (source \notin 1 .. 8 /\ source < NSources),
               TurnTo(source + 1), Keep
        PROVE  Faithful'
    <2> DEFINE t == source + 1
    <2>1. t \in 1 .. NSources /\ source < t
      BY <1>1, <1>4
    <2>2. Mates(t) = Mates(source) /\ (source \in EngineSets <=> t \in EngineSets)
      <3>1. CASE source \in {3, 4, 6, 7}
        BY <3>1 DEF Mates, EngineSets, OwnTable, BesideCore
      <3>2. CASE source \notin 1 .. 8 /\ source < NSources
        <4>1. t \notin 1 .. 8
          BY <1>1, <3>2
        <4> QED
          BY <1>1, <2>1, <3>2, <4>1, MatesAre
      <3> QED
        BY <1>4, <3>1, <3>2
    <2>3. names'.patch = names.patch
      BY <1>4 DEF Keep
    <2>4. Matched(t, text, names.patch, <<>>)
      <3> HIDE DEF t
      <3> QED
        BY <1>2, <2>2, MatchedMates
    <2>5. ASSUME NEW s \in 1 .. 8, t \in 1 .. 8, s < t, s \notin Mates(t)
          PROVE  QuietIn(text, s)
      <3>1. source \in 1 .. 8 /\ s # source
        BY <1>1, <1>4, <2>2, <2>5, MatesAre
      <3>2. s < source
        BY <1>1, <2>5, <3>1
      <3> QED
        BY <1>2, <2>2, <2>5, <3>1, <3>2 DEF GivenUp
    <2>6. t # GM /\ t \in 0 .. NSources
      BY <2>1 DEF GM
    <2> HIDE DEF t
    <2>7. TurnTo(t)
      BY <1>4 DEF t
    <2> QED
      BY <2>1, <2>3, <2>4, <2>5, <2>6, <2>7, TurnFaithful
  <1>5. Mates(2) = {2} /\ Mates(3) = 3 .. 5 /\ Mates(6) = 6 .. 8
    BY DEF Mates, OwnTable, BesideCore
  <1>6. CASE source \in {1, 2, 5, 8} /\ NPatch > 0 /\ Tell(NPatch) /\ Keep
    BY <1>6, TellFaithful DEF Keep
  <1>7. CASE source = 1 /\ NPatch = 0 /\ TurnTo(2) /\ Keep
    BY <1>3, <1>5, <1>7
  <1>8. CASE source \in {1, 2} /\ NPatch = 0 /\ TurnTo(IF dir THEN 3 ELSE GM) /\ Forget
    <2>1. CASE dir
      BY <1>3, <1>5, <1>8, <2>1
    <2>2. CASE ~ dir
      BY <1>3, <1>8, <2>2
    <2> QED
      BY <2>1, <2>2
  <1>9. CASE source \in {3, 4, 6, 7} /\ TurnTo(source + 1) /\ Keep
    BY <1>4, <1>9
  <1>10. CASE source = 5 /\ NPatch = 0 /\ TurnTo(source + 1) /\ Keep
    <2>1. TurnTo(6)
      BY <1>10
    <2> QED
      BY <1>3, <1>5, <1>10, <2>1
  <1>11. CASE source = 8 /\ NPatch = 0 /\ TurnTo(GM) /\ Keep
    BY <1>3, <1>11
  <1>12. CASE source \notin 1 .. 8 /\ source < NSources /\ TurnTo(source + 1) /\ Keep
    BY <1>4, <1>12
  <1>13. CASE source \notin 1 .. 8 /\ Tell(1) /\ Keep
    BY <1>1, <1>13, TellFaithful, MatesAre DEF Keep
  <1>14. CASE source \notin 1 .. 8 /\ NPatch = 0 /\ Tell(0) /\ Forget
    <2>1. names'.patch = names.patch
      BY <1>1, <1>14 DEF Forget, Nothing, NPatch
    <2> QED
      BY <1>1, <1>14, <2>1, TellFaithful, MatesAre
  <1> QED
    BY <1>6, <1>7, <1>8, <1>9, <1>10, <1>11, <1>12, <1>13, <1>14, AfterIs, Zenon

LEMMA OpenFaithful ==
  ASSUME NamesTypeOK, Faithful, OpenSource
  PROVE  Faithful'
  <1>1. /\ progress = "look" /\ progress' = "read"
        /\ UNCHANGED <<names, source, map, axis, pending, text>>
    BY DEF OpenSource
  <1>2. InTurn'
    BY <1>1 DEF Faithful, InTurn
  <1>3. GivenUp'
    <2>1. GivenUp
      BY DEF Faithful
    <2> QED
      BY <1>1, <2>1, Zenon DEF GivenUp
  <1>4. source' # GM => Matched(source', text', names'.patch, pending')
    BY <1>1 DEF Faithful
  <1>5. ASSUME source' \in Vendor PROVE ReaderTrue(text'[source'], map', axis')
    <2>1. source \in 1 .. NSources /\ source # GM
      BY <1>1, <1>5, NamesNumbers DEF Vendor, GM
    <2>2. text[source] = <<>>
      BY <1>1, <2>1 DEF Faithful, InTurn
    <2>3. map = -1 /\ axis = <<>>
      BY <1>1 DEF NamesTypeOK, Scanned
    <2>4. ReaderTrue(<<>>, -1, <<>>)
      BY DEF ReaderTrue
    <2> QED
      BY <1>1, <2>2, <2>3, <2>4
  <1> QED
    BY <1>1, <1>2, <1>3, <1>4, <1>5 DEF Faithful, Told

LEMMA GmFaithful ==
  ASSUME Faithful, Gm, ~short'
  PROVE  Faithful'
  <1>1. /\ source = GM /\ progress' = "told" /\ source' = source /\ names' = GmSet /\ text' = text
    BY DEF Gm, Tell
  <1>2. InTurn'
    BY <1>1 DEF InTurn
  <1>3. GivenUp'
    <2>1. GivenUp
      BY DEF Faithful
    <2> QED
      BY <1>1, <2>1, Zenon DEF GivenUp
  <1> QED
    BY <1>1, <1>2, <1>3 DEF Faithful, Told

LEMMA StoreFaithful ==
  ASSUME NamesTypeOK, Faithful, Store \/ Skip
  PROVE  Faithful'
  <1>1. /\ progress = "read" /\ pending # <<>> /\ pending' = Tail(pending)
        /\ UNCHANGED <<progress, source, map, axis, text>>
    BY Zenon DEF Store, Skip
  <1>2. InTurn'
    BY <1>1 DEF Faithful, InTurn
  <1>3. GivenUp'
    <2>1. GivenUp
      BY DEF Faithful
    <2> QED
      BY <1>1, <2>1, Zenon DEF GivenUp
  <1>4. /\ source # GM /\ pending \in Seq(Stored) /\ names.patch \in Seq(Stored)
        /\ names \in [patch : Seq(Stored), key : Seq(Stored)]
    BY <1>1 DEF NamesTypeOK, Turned, Scanned, Shelved
  <1>5. Matched(source, text, names.patch, pending)
    BY <1>4 DEF Faithful
  <1>6. Matched(source, text, names'.patch, Tail(pending))
    <2>1. CASE Skip
      <3>1. ~ IsPatch(source, Head(pending)) /\ names' = names
        BY <2>1 DEF Skip, EmptyCell, IsPatch
      <3> QED
        BY <1>1, <1>4, <1>5, <3>1, MatchedDrop
    <2>2. CASE Store
      <3>1. /\ ~ EmptyCell
            /\ names' = [names EXCEPT ![ArrayOf(Head(pending))] = Append(@, Head(pending))]
        BY <2>2 DEF Store
      <3>2. CASE Head(pending).kind = "k"
        <4>1. names'.patch = names.patch
          BY <1>4, <3>1, <3>2 DEF ArrayOf
        <4>2. ~ IsPatch(source, Head(pending))
          BY <3>2 DEF IsPatch
        <4> QED
          BY <1>1, <1>4, <1>5, <4>1, <4>2, MatchedDrop
      <3>3. CASE Head(pending).kind # "k"
        <4>1. names'.patch = Append(names.patch, Head(pending))
          BY <1>4, <3>1, <3>3 DEF ArrayOf
        <4>2. IsPatch(source, Head(pending))
          BY <3>1, <3>3 DEF IsPatch, EmptyCell
        <4> QED
          BY <1>1, <1>4, <1>5, <4>1, <4>2, MatchedStore
      <3> QED
        BY <3>2, <3>3
    <2> QED
      BY <2>1, <2>2
  <1>7. source' # GM => Matched(source', text', names'.patch, pending')
    BY <1>1, <1>6
  <1>8. source' \in Vendor => ReaderTrue(text'[source'], map', axis')
    BY <1>1 DEF Faithful
  <1> QED
    BY <1>1, <1>2, <1>3, <1>7, <1>8 DEF Faithful, Told


(* A line of a source is read. *)
LEMMA LineFaithful ==
  ASSUME NamesTypeOK, Faithful, NEW s, NEW line, Reading(s, line),
         source \in 1 .. NSources => line \in LinesOf(source),
         RowTrue(source, Append(text[source], line), pending'),
         source \in Vendor => ReaderTrue(Append(text[source], line), map', axis')
  PROVE  Faithful'
  <1>1. /\ progress = "read" /\ pending = <<>>
        /\ text' = [text EXCEPT ![source] = Append(@, line)]
        /\ UNCHANGED <<names, progress, source>>
    BY DEF Reading
  <1>2. /\ source \in 1 .. NSources /\ source # GM /\ NSources \in Nat /\ line \in LinesOf(source)
        /\ DOMAIN text = 1 .. NSources /\ \A t \in 1 .. NSources : text[t] \in Seq(LinesOf(t))
    BY <1>1, NamesNumbers DEF NamesTypeOK, Turned, TextTyped, GM
  <1>3. /\ text'[source] = Append(text[source], line)
        /\ \A t \in 1 .. NSources : t # source => text'[t] = text[t]
    BY <1>1, <1>2
  <1>4. \A t \in 1 .. NSources : text[t] # <<>> => t <= source
    BY <1>1, <1>2 DEF Faithful, InTurn
  <1>5. InTurn'
    BY <1>1, <1>2, <1>3 DEF Faithful, InTurn
  <1>6. GivenUp'
    <2> SUFFICES ASSUME NEW u \in 1 .. 8, source \in 1 .. 8 /\ u < source /\ u \notin Mates(source)
                 PROVE  QuietIn(text', u)
      BY <1>1, <1>2, Zenon DEF GivenUp
    <2>1. QuietIn(text, u)
      BY DEF Faithful, GivenUp
    <2>2. text'[u] = text[u]
      BY <1>2, <1>3, NamesNumbers
    <2>3. \A spot \in SpotsIn(u, text[u]) : spot[1] = u
      BY DEF SpotsIn
    <2>4. \A spot \in SpotsIn(u, text[u]) :
            \A patch : SaysIn(text', spot, patch) <=> SaysIn(text, spot, patch)
      BY <2>2, <2>3, Zenon DEF SaysIn
    <2> QED
      BY <2>1, <2>2, <2>4, Zenon DEF QuietIn
  <1>7. Matched(source, text', names.patch, pending')
    <2>1. Matched(source, text, names.patch, <<>>)
      BY <1>1, <1>2 DEF Faithful
    <2> QED
      BY <1>1, <1>2, <1>4, <2>1, MatchedLine
  <1>8. source' # GM => Matched(source', text', names'.patch, pending')
    BY <1>1, <1>7
  <1>9. source' \in Vendor => ReaderTrue(text'[source'], map', axis')
    BY <1>1, <1>3
  <1>10. Told'
    BY <1>1 DEF Told
  <1> QED
    BY <1>5, <1>6, <1>8, <1>9, <1>10 DEF Faithful

LEMMA ReadFaithful ==
  ASSUME NamesTypeOK, Faithful,
         \/ \E line \in TableLines : TableLine(line)
         \/ \E line \in VendorLines : Page(line) \/ Tabbed(line)
         \/ \E sound \in Sounds : Sound(sound)
  PROVE  Faithful'
  <1>1. map \in Int /\ axis \in Seq(Int)
    BY DEF NamesTypeOK, Scanned
  <1>2. ASSUME NEW line \in TableLines, TableLine(line) PROVE Faithful'
    <2>1. /\ source \in {OwnTable, BesideCore} /\ progress = "read"
          /\ Reading({OwnTable, BesideCore}, line) /\ pending' = TableEntries(line)
      BY <1>2, Zenon DEF TableLine, Reading
    <2>2. line \in LinesOf(source) /\ source \notin Vendor
      BY <2>1 DEF LinesOf, OwnTable, BesideCore, Vendor
    <2>3. RowTrue(source, Append(text[source], line), pending')
      BY <2>1, TableRow
    <2> QED
      BY <2>1, <2>2, <2>3, LineFaithful
  <1>3. ASSUME NEW sound \in Sounds, Sound(sound) PROVE Faithful'
    <2>1. /\ source \in EngineSets /\ progress = "read" /\ Reading(EngineSets, sound)
          /\ pending' = <<Entry(sound.kind, source - 8, sound.a, sound.b, sound.name, Spot(1))>>
      BY <1>3, Zenon DEF Sound, Reading
    <2>2. sound \in LinesOf(source) /\ source \notin Vendor
      BY <2>1, NamesNumbers DEF LinesOf, OwnTable, BesideCore, Vendor, EngineSets
    <2>3. RowTrue(source, Append(text[source], sound), pending')
      BY <2>1, EngineRow
    <2> QED
      BY <2>1, <2>2, <2>3, LineFaithful
  <1>4. ASSUME NEW line \in VendorLines, Page(line) \/ Tabbed(line) PROVE Faithful'
    <2>1. source \in Vendor /\ progress = "read" /\ Reading(Vendor, line) /\ pending = <<>>
      BY <1>4, Zenon DEF Page, Tabbed, Reading
    <2>2. line \in LinesOf(source) /\ LinesOf(source) = VendorLines
      BY <2>1 DEF LinesOf, OwnTable, BesideCore, Vendor
    <2>3. ReaderTrue(text[source], map, axis)
      BY <2>1 DEF Faithful
    <2>4. text[source] \in Seq(VendorLines)
      BY <2>1, <2>2, SpotTyped
    <2>5. CASE Page(line)
      <3>1. line.kind = "page" /\ map' = line.map /\ axis' = <<>> /\ pending' = <<>>
        BY <2>1, <2>5 DEF Page
      <3>2. RowTrue(source, Append(text[source], line), <<>>)
        BY <2>1, <2>3, <2>4, <3>1, VendorQuiet
      <3>3. ReaderTrue(Append(text[source], line), map', axis')
        BY <2>4, <3>1, ReaderPage
      <3> QED
        BY <2>1, <2>2, <3>1, <3>2, <3>3, LineFaithful
    <2>6. CASE Tabbed(line)
      <3>1. /\ line.kind = "tabbed" /\ map' = map
            /\ axis' = TabbedHeader(text[source], map, axis, line)
            /\ pending' = TabbedRow(line)
        <4>1. /\ line.kind = "tabbed" /\ map' = map
              /\ IF ~Number(map, Maps) THEN axis' = axis /\ pending' = <<>>
                 ELSE IF axis = <<>> THEN axis' = line.cells /\ pending' = <<>>
                 ELSE pending' = Cells(source, map, axis, line) /\ axis' = axis
          BY <2>1, <2>6, Zenon DEF Tabbed
        <4> QED
          BY <4>1, Zenon DEF TabbedHeader, TabbedRow
      <3>2. ReaderTrue(Append(text[source], line), map', axis')
        BY <1>1, <2>3, <2>4, <3>1, ReaderTabbed
      <3>3. RowTrue(source, Append(text[source], line), pending')
        <4>1. CASE Number(map, Maps) /\ axis # <<>>
          <5>1. pending' = Cells(source, map, axis, line)
            BY <3>1, <4>1 DEF TabbedRow
          <5> QED
            BY <2>1, <2>3, <3>1, <4>1, <5>1, VendorRow
        <4>2. CASE ~ (Number(map, Maps) /\ axis # <<>>)
          <5>1. pending' = <<>>
            BY <3>1, <4>2 DEF TabbedRow
          <5> QED
            BY <2>1, <2>3, <2>4, <4>2, <5>1, VendorQuiet
        <4> QED
          BY <4>1, <4>2
      <3> QED
        BY <2>1, <2>2, <3>2, <3>3, LineFaithful
    <2> QED
      BY <1>4, <2>5, <2>6
  <1> QED
    BY <1>2, <1>3, <1>4, Zenon

LEMMA NamesInvStep ==
  ASSUME NamesInv, [NamesNext]_namesVars
  PROVE  NamesInv'
  <1>1. NamesKept' /\ NamesKept /\ NamesTypeOK
    BY NamesStep DEF NamesInv, NamesKept
  <1> SUFFICES ASSUME ~short' PROVE Faithful'
    BY <1>1 DEF NamesInv
  <1>2. CASE NoOptions \/ NoMemory
    BY <1>2, Zenon DEF NoOptions, NoMemory
  <1>3. ASSUME ~short PROVE Faithful'
    <2>1. Faithful
      BY <1>3 DEF NamesInv
    <2>2. CASE Missing \/ SourceEnds
      <3>1. After /\ text' = text
        BY <2>2 DEF Missing, SourceEnds
      <3>2. source # GM /\ pending = <<>>
        BY <1>1, <2>2 DEF Missing, SourceEnds, NamesTypeOK, Turned, Scanned
      <3> QED
        BY <1>1, <2>1, <3>1, <3>2, AfterFaithful
    <2>3. CASE UNCHANGED namesVars
      <3>1. UNCHANGED <<names, progress, source, map, axis, pending, text>>
        BY <2>3 DEF namesVars, reader
      <3>2. InTurn' /\ Told'
        BY <2>1, <3>1 DEF Faithful, InTurn, Told, NPatch
      <3>3. GivenUp'
        <4>1. GivenUp
          BY <2>1 DEF Faithful
        <4> QED
          BY <3>1, <4>1, Zenon DEF GivenUp
      <3> QED
        BY <2>1, <3>1, <3>2, <3>3 DEF Faithful
    <2> QED
      BY <1>1, <1>2, <2>1, <2>2, <2>3, OpenFaithful, StoreFaithful, GmFaithful, ReadFaithful, Zenon
         DEF NamesNext
  <1>4. short' = short \/ (NoOptions \/ NoMemory) \/ Gm
    BY Zenon DEF NamesNext, Missing, OpenSource, Skip, Store, SourceEnds, TableLine, Page, Tabbed,
       Sound, Reading, namesVars
  <1>5. Gm => short' = short
    BY Zenon DEF Gm
  <1> QED
    BY <1>2, <1>3, <1>4, <1>5, Zenon


(***************************************************************************)
(* What is found is what the first source with a patch calls it.           *)
(***************************************************************************)

LEMMA SpotsTyped ==
  ASSUME NamesTypeOK, NEW group, group \subseteq 1 .. NSources,
         NEW spot \in UNION {Spots(s) : s \in group}
  PROVE  /\ spot[1] \in group /\ spot \in SpotsIn(spot[1], text[spot[1]])
         /\ spot = <<spot[1], spot[2], spot[3]>>
         /\ spot[1] \in Nat /\ spot[2] \in Nat /\ spot[3] \in Nat
  <1>1. PICK s \in group : spot \in SpotsIn(s, text[s])
    BY DEF Spots, SpotsIn
  <1>2. PICK i \in 1 .. Len(text[s]) : \E j \in 1 .. Width(s, text[s][i]) : spot = <<s, i, j>>
    BY <1>1, SpotsAre
  <1>3. PICK j \in 1 .. Width(s, text[s][i]) : spot = <<s, i, j>>
    BY <1>2
  <1>4. i \in Nat /\ s \in Nat
    BY NamesNumbers DEF NamesTypeOK, TextTyped
  <1>5. j \in Nat
    OBVIOUS
  <1> QED
    BY <1>1, <1>3, <1>4, <1>5

LEMMA PlacesAre ==
  ASSUME NEW group, NEW patch, NEW spot
  PROVE  spot \in Places(group, patch) <=>
           spot \in UNION {Spots(s) : s \in group} /\ SaysIn(text, spot, patch)
  BY DEF Places, SaysIn

(* Of the places of the sources taken, the entry found has the first. *)
LEMMA FindIs ==
  ASSUME NamesTypeOK, source \in 1 .. NSources, Matched(source, text, names.patch, <<>>),
         NEW patch \in Patches
  PROVE  Find(patch) = Called(Mates(source), patch)
  <1> DEFINE es == names.patch
             group == Mates(source)
             found == {k \in 1 .. Len(es) : Of(es[k]) = patch}
             places == Places(group, patch)
             k0 == Lowest(found)
             earliest == CHOOSE x \in places : \A y \in places : Earlier(x, y)
  <1>1. group \subseteq 1 .. NSources
    BY MatesAre
  <1>2. AllStored(source, text, es)
    BY Settled
  <1>3. es \in Seq(Stored) /\ Len(es) \in Nat
    BY DEF NamesTypeOK, Shelved
  <1>4. StoredTrue(source, text, es) /\ Ascending(es)
    BY Zenon DEF Matched, StoredTrue
  <1>5. Find(patch) = IF found = {} THEN Blank ELSE es[k0].name
    BY DEF Find, NPatch
  <1>6. Called(group, patch) =
          IF places = {} THEN Blank
          ELSE NameAt(earliest[1], text[earliest[1]], earliest[2], earliest[3])
    BY DEF Called
  <1> HIDE DEF es, group
  <1>7. ASSUME NEW y \in places
        PROVE  \E k \in found : es[k].at = y
    <2>1. y \in UNION {Spots(s) : s \in group} /\ SaysIn(text, y, patch)
      BY <1>7, PlacesAre
    <2>2. y[1] \in group /\ y \in SpotsIn(y[1], text[y[1]])
      BY <1>1, <2>1, SpotsTyped
    <2>3. \E k \in 1 .. Len(es) : es[k].at = y /\ Of(es[k]) = patch
      BY <1>2, <2>1, <2>2, Zenon DEF AllStored, group
    <2> QED
      BY <2>3
  <1>8. ASSUME NEW k \in found
        PROVE  /\ es[k].at \in places
               /\ es[k].name = NameAt(es[k].at[1], text[es[k].at[1]], es[k].at[2], es[k].at[3])
    <2>1. ReadIn(source, text, es[k]) /\ Of(es[k]) = patch
      BY <1>4, <1>8 DEF StoredTrue
    <2>2. /\ es[k].at[1] \in group /\ es[k].at \in SpotsIn(es[k].at[1], text[es[k].at[1]])
          /\ SaysIn(text, es[k].at, patch)
          /\ es[k].name = NameAt(es[k].at[1], text[es[k].at[1]], es[k].at[2], es[k].at[3])
      BY <2>1, Zenon DEF ReadIn, group
    <2>3. es[k].at \in UNION {Spots(s) : s \in group}
      BY <2>2 DEF Spots, SpotsIn
    <2> QED
      BY <2>2, <2>3, PlacesAre
  <1>9. CASE found = {}
    <2>1. places = {}
      BY <1>7, <1>9
    <2> QED
      BY <1>5, <1>6, <1>9, <2>1 DEF group
  <1>10. CASE found # {}
    <2>1. k0 \in found /\ \A k \in found : k0 <= k
      <3>1. found \subseteq Nat
        BY <1>3
      <3>2. \E x \in found : \A y \in found : ~ y < x
        BY <1>10, <3>1, Least
      <3>3. \E x \in found : \A y \in found : x <= y
        BY <3>1, <3>2
      <3> HIDE DEF found
      <3> QED
        BY <3>3 DEF Lowest
    <2> HIDE DEF k0
    <2> DEFINE x0 == es[k0].at
    <2>2. x0 \in places
      BY <1>8, <2>1
    <2>3. ASSUME NEW x \in places
          PROVE  x = <<x[1], x[2], x[3]>> /\ x[1] \in Nat /\ x[2] \in Nat /\ x[3] \in Nat
      <3>1. x \in UNION {Spots(s) : s \in group}
        BY <2>3, PlacesAre
      <3> QED
        BY <1>1, <3>1, SpotsTyped
    <2>4. ASSUME NEW y \in places PROVE Earlier(x0, y)
      <3>1. PICK k \in found : es[k].at = y
        BY <1>7, <2>4
      <3>2. CASE k = k0
        <4>1. x0 = y
          BY <3>1, <3>2
        <4> QED
          BY <2>3, <4>1 DEF Earlier
      <3>3. CASE k # k0
        <4>1. k0 < k /\ k0 \in 1 .. Len(es) /\ k \in 1 .. Len(es)
          BY <1>3, <2>1, <3>3
        <4>2. Sooner(x0, y)
          BY <1>4, <3>1, <4>1 DEF Ascending
        <4> QED
          BY <2>2, <2>3, <4>2 DEF Sooner, Earlier
      <3> QED
        BY <3>2, <3>3
    <2> HIDE DEF places, x0
    <2>5. earliest \in places /\ \A y \in places : Earlier(earliest, y)
      BY <2>2, <2>4
    <2> HIDE DEF earliest
    <2>6. earliest = x0
      <3>1. Earlier(earliest, x0) /\ Earlier(x0, earliest)
        BY <2>2, <2>4, <2>5
      <3>2. /\ earliest[1] \in Nat /\ earliest[2] \in Nat /\ earliest[3] \in Nat
            /\ x0[1] \in Nat /\ x0[2] \in Nat /\ x0[3] \in Nat
            /\ earliest = <<earliest[1], earliest[2], earliest[3]>> /\ x0 = <<x0[1], x0[2], x0[3]>>
        BY <2>2, <2>3, <2>5
      <3>3. earliest[1] = x0[1] /\ earliest[2] = x0[2] /\ earliest[3] = x0[3]
        BY <3>1, <3>2 DEF Earlier
      <3> QED
        BY <3>2, <3>3
    <2>7. places # {} /\ es[k0].name = NameAt(x0[1], text[x0[1]], x0[2], x0[3])
      BY <1>8, <2>1, <2>2 DEF x0
    <2> QED
      BY <1>5, <1>6, <1>10, <2>6, <2>7 DEF group
  <1> QED
    BY <1>9, <1>10

LEMMA QuietGroup ==
  ASSUME NamesTypeOK, NEW group, group \subseteq 1 .. 8, \A s \in group : QuietIn(text, s)
  PROVE  ~ Offers(group)
  <1> SUFFICES ASSUME NEW patch \in Patches, NEW spot \in Places(group, patch) PROVE FALSE
    BY DEF Offers
  <1>1. spot \in UNION {Spots(s) : s \in group} /\ SaysIn(text, spot, patch)
    BY PlacesAre
  <1>2. spot[1] \in group /\ spot \in SpotsIn(spot[1], text[spot[1]])
    BY <1>1, SpotsTyped, NamesNumbers
  <1> QED
    BY <1>1, <1>2, Zenon DEF QuietIn

LEMMA Answered ==
  ASSUME NamesInv
  PROVE  FirstSourceAsWritten
  <1> DEFINE offering == {g \in DOMAIN Groups : Offers(Groups[g])}
             chosen == Groups[CHOOSE g \in offering : \A h \in offering : g <= h]
  <1> SUFFICES ASSUME progress = "told", ~short
               PROVE  LET group == IF source \in EngineSets THEN EngineSets ELSE chosen
                      IN IF source \notin EngineSets /\ offering = {} THEN names = GmSet
                         ELSE \A patch \in Patches : Find(patch) = Called(group, patch)
    BY DEF FirstSourceAsWritten
  <1>1. /\ NamesTypeOK /\ Faithful /\ pending = <<>> /\ source \in 0 .. NSources
        /\ NSources \in Nat /\ 8 < NSources
    BY NamesNumbers DEF NamesInv, NamesKept, NamesTypeOK, Scanned, Turned
  <1>2. /\ DOMAIN Groups = 1 .. 4 /\ Groups[1] = {1} /\ Groups[2] = {2} /\ Groups[3] = {3, 4, 5}
        /\ Groups[4] = {6, 7, 8}
    BY DEF Groups, OwnTable, BesideCore
  <1>3. \A g \in 1 .. 4 : Groups[g] \subseteq 1 .. 8
    <2> TAKE g \in 1 .. 4
    <2>1. g \in {1, 2, 3, 4}
      OBVIOUS
    <2> QED
      BY <1>2, <2>1
  <1>4. CASE source = GM
    <2>1. source \notin EngineSets /\ names = GmSet
      BY <1>1, <1>4 DEF EngineSets, GM, Faithful, Told
    <2>2. ASSUME NEW g \in 1 .. 4 PROVE ~ Offers(Groups[g])
      <3>1. \A s \in Groups[g] : QuietIn(text, s)
        BY <1>1, <1>3, <1>4 DEF Faithful, GivenUp
      <3> QED
        BY <1>1, <1>3, <3>1, QuietGroup
    <2>3. offering = {}
      BY <1>2, <2>2
    <2> HIDE DEF offering
    <2> QED
      BY <2>1, <2>3
  <1>5. CASE source # GM
    <2>1. source \in 1 .. NSources /\ Matched(source, text, names.patch, <<>>)
      BY <1>1, <1>5 DEF GM, Faithful
    <2>2. \A patch \in Patches : Find(patch) = Called(Mates(source), patch)
      BY <1>1, <2>1, FindIs
    <2>3. CASE source \in EngineSets
      <3>1. Mates(source) = EngineSets
        <4>1. source \notin 1 .. 8
          BY <2>3 DEF EngineSets
        <4> QED
          BY <2>1, <4>1, MatesAre
      <3> HIDE DEF offering, chosen
      <3> QED
        BY <2>2, <2>3, <3>1
    <2>4. CASE source \notin EngineSets
      <3>1. source \in {1, 2, 3, 4, 5, 6, 7, 8}
        <4>1. source \in 1 .. 8
          BY <2>1, <2>4, MatesAre
        <4> QED
          BY <4>1
      <3>2. PICK g0 \in 1 .. 4 : /\ Groups[g0] = Mates(source)
                                 /\ \A g \in 1 .. g0 - 1 : \A s \in Groups[g] :
                                      s \in 1 .. 8 /\ s < source /\ s \notin Mates(source)
        <4>1. CASE source = 1
          <5>1. Groups[1] = Mates(source) /\ \A g \in 1 .. 1 - 1 : FALSE
            BY <1>2, <4>1 DEF Mates, OwnTable
          <5> QED
            BY <5>1
        <4>2. CASE source = 2
          <5>1. Groups[2] = Mates(source) /\ \A g \in 1 .. 2 - 1 : g = 1
            BY <1>2, <4>2 DEF Mates, BesideCore
          <5> QED
            BY <1>2, <4>2, <5>1
        <4>3. CASE source \in {3, 4, 5}
          <5>1. Groups[3] = Mates(source) /\ Mates(source) = 3 .. 5
            BY <1>2, <4>3 DEF Mates, OwnTable, BesideCore
          <5>2. \A g \in 1 .. 3 - 1 : g \in {1, 2}
            OBVIOUS
          <5>3. \A g \in 1 .. 3 - 1 : \A s \in Groups[g] :
                  s \in 1 .. 8 /\ s < source /\ s \notin Mates(source)
            BY <1>2, <4>3, <5>1, <5>2
          <5> QED
            BY <5>1, <5>3
        <4>4. CASE source \in {6, 7, 8}
          <5>1. Groups[4] = Mates(source) /\ Mates(source) = 6 .. 8
            BY <1>2, <4>4 DEF Mates, OwnTable, BesideCore
          <5>2. \A g \in 1 .. 4 - 1 : g \in {1, 2, 3}
            OBVIOUS
          <5>3. \A g \in 1 .. 4 - 1 : \A s \in Groups[g] :
                  s \in 1 .. 8 /\ s < source /\ s \notin Mates(source)
            BY <1>2, <4>4, <5>1, <5>2
          <5> QED
            BY <5>1, <5>3
        <4> QED
          BY <3>1, <4>1, <4>2, <4>3, <4>4
      <3>3. Offers(Groups[g0])
        <4>1. NPatch > 0 /\ names.patch \in Seq(Stored)
          BY <1>1, <1>5, <2>4 DEF Faithful, Told, NamesTypeOK, Shelved
        <4>2. 1 \in 1 .. Len(names.patch)
          BY <4>1 DEF NPatch
        <4> DEFINE e == names.patch[1]
        <4>3. ReadIn(source, text, e)
          BY <2>1, <4>2 DEF Matched, StoredTrue
        <4>4. /\ e.at[1] \in Mates(source) /\ e.at \in SpotsIn(e.at[1], text[e.at[1]])
              /\ SaysIn(text, e.at, Of(e)) /\ Of(e) \in Patches
          BY <2>4, <4>3, Zenon DEF ReadIn
        <4> HIDE DEF e
        <4>5. e.at \in UNION {Spots(s) : s \in Groups[g0]}
          BY <3>2, <4>4 DEF Spots, SpotsIn
        <4>6. e.at \in Places(Groups[g0], Of(e))
          BY <4>4, <4>5, PlacesAre
        <4> QED
          BY <4>4, <4>6 DEF Offers
      <3>4. ASSUME NEW g \in 1 .. g0 - 1 PROVE ~ Offers(Groups[g])
        <4>1. \A s \in Groups[g] : s \in 1 .. 8 /\ s < source /\ s \notin Mates(source)
          BY <3>2
        <4>2. source \in 1 .. 8
          BY <3>1
        <4>3. \A s \in Groups[g] : QuietIn(text, s)
          BY <1>1, <4>1, <4>2 DEF Faithful, GivenUp
        <4>4. Groups[g] \subseteq 1 .. 8
          BY <4>1
        <4> QED
          BY <1>1, <4>3, <4>4, QuietGroup
      <3>5. g0 \in offering /\ \A h \in offering : g0 <= h /\ h \in 1 .. 4
        <4>1. ASSUME NEW h \in offering PROVE g0 <= h /\ h \in 1 .. 4
          <5>1. h \in 1 .. 4 /\ Offers(Groups[h])
            BY <1>2
          <5> QED
            BY <3>4, <5>1
        <4> QED
          BY <1>2, <3>3, <4>1
      <3> HIDE DEF offering
      <3>6. (CHOOSE g \in offering : \A h \in offering : g <= h) = g0
        <4> DEFINE c == CHOOSE g \in offering : \A h \in offering : g <= h
        <4>1. c \in offering /\ \A h \in offering : c <= h
          BY <3>5
        <4> HIDE DEF c
        <4>2. c <= g0 /\ g0 <= c /\ c \in 1 .. 4
          BY <3>5, <4>1
        <4>3. c = g0
          BY <4>2
        <4> QED
          BY <4>3 DEF c
      <3>7. chosen = Mates(source)
        BY <3>2, <3>6
      <3> HIDE DEF chosen
      <3> QED
        BY <2>2, <2>4, <3>5, <3>7
    <2> QED
      BY <2>3, <2>4
  <1> QED
    BY <1>4, <1>5

(* FirstSourceAsWritten: while memory lasts, the patches offered are those of *)
(* the first source that has one, each under the name its file gives it under *)
(* the last page before it, the first row of that page and its own label; or  *)
(* the General MIDI set, where no file has a patch.                           *)
THEOREM NamesFirstSource == NamesSpec => []FirstSourceAsWritten
  <1>1. NamesInv /\ [NamesNext]_namesVars => NamesInv'
    BY NamesInvStep
  <1>2. NamesInv => FirstSourceAsWritten
    BY Answered
  <1> QED
    BY NamesInitFaithful, <1>1, <1>2, PTL DEF NamesSpec

=============================================================================
