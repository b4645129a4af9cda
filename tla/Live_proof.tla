----------------------------- MODULE Live_proof -----------------------------
(***************************************************************************)
(* The live tools for any number of parts, maps and sets: the types, what  *)
(* an engine with one tone set shows and plays, and that an engine with a  *)
(* map per part implements PartMaps.  And their timing, for any rate,      *)
(* block, latency and counter: the 64-bit count of what the device has     *)
(* played loses nothing to the wraps of its own counter, and no message is *)
(* late, nor early by more than a block but for what the device did.       *)
(***************************************************************************)
EXTENDS LiveEngine, LiveTiming, FiniteSetTheorems, WellFoundedInduction, TLAPS

(* Before the engine is open nothing has been sent to it. *)
Fresh == ~Begun => /\ last_pc = [ch \in Parts |-> FirstProgram]
                   /\ part = PowerOn

(* The inductive invariant.  The types need ShownSetPlays (a failed switch
   looks its map up among the sets), which needs OptionIsOpenSet's and
   ModeFitsEngine's steps; the refinement needs Fresh. *)
IInv ==
  /\ TypeOK
  /\ ModeFitsEngine
  /\ Fresh
  /\ ShownSetPlays
  /\ OptionIsOpenSet

LEMMA PartOps ==
  /\ PowerOnPart \in Part
  /\ \A pt \in Part :
       /\ \A v \in Maps : LatchMap(pt, v) \in Part
       /\ \A bk \in Banks : LatchBank(pt, bk) \in Part
       /\ \A p \in Programs : SelectProgram(pt, p) \in Part
BY EngineAssumption DEF PowerOnPart, PowerOnSound, Part, Sound, LatchMap,
                        LatchBank, SelectProgram

LEMMA PutOps ==
  ASSUME PolicyTypeOK, NEW ch \in Parts, NEW map \in Maps
  PROVE  Put(part[ch], ch, map) \in Part
BY PartOps DEF PolicyTypeOK, Put

(* A Program Change keeps the policy's and the parts' types. *)
LEMMA ProgramChangeType ==
  ASSUME PolicyTypeOK, NEW ch \in Parts, NEW p \in Programs,
         PolicyProgramChange(ch, p)
  PROVE  PolicyTypeOK'
<1> DEFINE carrying == IF Injects(ch) THEN LatchMap(part[ch], map_of[ch])
                                      ELSE part[ch]
<1>1. carrying \in Part
  BY PartOps DEF PolicyTypeOK
<1>2. part' = [part EXCEPT ![ch] = SelectProgram(carrying, p)]
  BY DEF PolicyProgramChange
<1>3. SelectProgram(carrying, p) \in Part
  BY <1>1, PartOps
<1>4. part' \in [Parts -> Part]
  BY <1>2, <1>3 DEF PolicyTypeOK
<1> QED
  BY <1>4 DEF PolicyTypeOK, PolicyProgramChange

LEMMA SetType ==
  ASSUME PolicyTypeOK, NEW chs \in SUBSET Parts, NEW map \in Maps,
         PolicySet(chs, map)
  PROVE  PolicyTypeOK'
BY PutOps DEF PolicyTypeOK, PolicySet

LEMMA FreshPolicyType ==
  ASSUME NEW map \in Maps
  PROVE  /\ [ch \in Parts |-> map] \in [Parts -> Maps]
         /\ [ch \in Parts |-> FirstProgram] \in [Parts -> Programs]
         /\ PowerOn \in [Parts -> Part]
BY PartOps, EngineAssumption DEF PowerOn

(* The map a failed switch goes back to has a set. *)
LEMMA ShownHasSet ==
  ASSUME IInv, phase = "playing", ~per_part
  PROVE  map_of[FirstPart] \in DOMAIN SetOf
<1>1. CASE MapNamed
  BY <1>1, LiveAssumption DEF IInv, ShownSetPlays
<1>2. CASE ~MapNamed
  BY <1>2, LiveAssumption DEF MapNamed, Begun
<1> QED
  BY <1>1, <1>2

THEOREM Inductive == Spec => []IInv
<1>1. Init => IInv
  BY FreshPolicyType, EngineAssumption
  DEF Init, PolicyInit, IInv, TypeOK, PolicyTypeOK, Modes, Phases,
      ModeFitsEngine, Begun, Fresh, ShownSetPlays, OptionIsOpenSet, MapNamed
<1>2. IInv /\ [Next]_vars => IInv'
  <2> SUFFICES ASSUME IInv, [Next]_vars PROVE IInv'
    OBVIOUS
  <2> USE DEF IInv, TypeOK, ModeFitsEngine, Fresh, Begun
  <2>1. ASSUME NEW map \in Maps, NEW literal \in BOOLEAN, Open(map, literal)
        PROVE  IInv'
    <3>1. map_of' = [ch \in Parts |-> map]
      BY <2>1 DEF Open, NewPolicy
    <3>2. PolicyTypeOK'
      BY <2>1, <3>1, FreshPolicyType
      DEF Open, NewPolicy, PolicyTypeOK, Modes
    <3>3. option' \in Sets /\ toneset' = option'
      BY <2>1, LiveAssumption DEF Open, NamesSet
    <3>4. ~per_part /\ map # Default => /\ map \in DOMAIN SetOf
                                       /\ option' = SetOf[map]
      BY <2>1 DEF Open, NamesSet
    <3>5. ~set' /\ map_of'[FirstPart] = map /\ per_part' = per_part
      BY <2>1, <3>1, LiveAssumption DEF Open, NewPolicy
    <3>6. ShownSetPlays' /\ OptionIsOpenSet'
      BY <3>1, <3>3, <3>4, <3>5 DEF ShownSetPlays, OptionIsOpenSet, MapNamed
    <3> QED
      BY <2>1, <3>2, <3>3, <3>6 DEF Open, NewPolicy, Phases
  <2>2. CASE OpenFails
    BY <2>2 DEF OpenFails, policyVars, engineVars, PolicyTypeOK, Phases,
                ShownSetPlays, OptionIsOpenSet, MapNamed
  <2>3. ASSUME NEW ch \in Parts, NEW p \in Programs, WireProgram(ch, p)
        PROVE  IInv'
    <3>1. PolicyTypeOK'
      BY <2>3, ProgramChangeType DEF WireProgram
    <3> QED
      BY <2>3, <3>1 DEF WireProgram, PolicyProgramChange, engineVars,
                        ShownSetPlays, OptionIsOpenSet, MapNamed
  <2>4. ASSUME NEW ch \in Parts, NEW v \in Maps, WireBankLSB(ch, v)
        PROVE  IInv'
    BY <2>4, PartOps
    DEF WireBankLSB, PolicyBankLSB, policyVars, engineVars, PolicyTypeOK,
        ShownSetPlays, OptionIsOpenSet, MapNamed
  <2>5. ASSUME NEW ch \in Parts, NEW bk \in Banks, WireBankMSB(ch, bk)
        PROVE  IInv'
    BY <2>5, PartOps
    DEF WireBankMSB, PolicyBankMSB, policyVars, engineVars, PolicyTypeOK,
        ShownSetPlays, OptionIsOpenSet, MapNamed
  <2>6. CASE WireSysexReset
    BY <2>6, FreshPolicyType, EngineAssumption
    DEF WireSysexReset, WireReset, policyVars, engineVars, PolicyTypeOK,
        ShownSetPlays, OptionIsOpenSet, MapNamed
  <2>7. ASSUME NEW ch \in Parts, NEW map \in Maps, ConsolePart(ch, map)
        PROVE  IInv'
    <3>1. PolicyTypeOK'
      BY <2>7, SetType DEF ConsolePart
    <3> QED
      BY <2>7, <3>1 DEF ConsolePart, PolicySet, engineVars, ShownSetPlays,
                        OptionIsOpenSet, MapNamed
  <2>8. ASSUME NEW map \in Maps, ConsoleAll(map)
        PROVE  IInv'
    <3>1. PolicyTypeOK'
      BY <2>8, SetType DEF ConsoleAll
    <3> QED
      BY <2>8, <3>1 DEF ConsoleAll, PolicySet, engineVars, ShownSetPlays,
                        OptionIsOpenSet, MapNamed
  <2>9. ASSUME NEW map \in Maps, SetAllOpens(map)
        PROVE  IInv'
    <3>1. PolicyTypeOK'
      BY <2>9, FreshPolicyType DEF SetAllOpens, PolicyTypeOK, Modes
    <3> QED
      BY <2>9, <3>1, LiveAssumption
      DEF SetAllOpens, ShownSetPlays, OptionIsOpenSet, MapNamed
  <2>10. ASSUME NEW map \in Maps, SetAllFails(map)
         PROVE  IInv'
    <3>1. map_of[FirstPart] \in DOMAIN SetOf
      BY <2>10, ShownHasSet DEF SetAllFails
    <3>2. option' \in Sets
      BY <2>10, <3>1, LiveAssumption DEF SetAllFails
    <3> QED
      BY <2>10, <3>2, LiveAssumption
      DEF SetAllFails, policyVars, PolicyTypeOK, ShownSetPlays,
          OptionIsOpenSet, MapNamed
  <2>11. CASE Quit
    BY <2>11 DEF Quit, policyVars, engineVars, PolicyTypeOK, Phases,
                 ShownSetPlays, OptionIsOpenSet, MapNamed
  <2>12. CASE UNCHANGED vars
    BY <2>12 DEF vars, engineVars, policyVars, PolicyTypeOK, ShownSetPlays,
                 OptionIsOpenSet, MapNamed
  <2> QED
    BY <2>1, <2>2, <2>3, <2>4, <2>5, <2>6, <2>7, <2>8, <2>9, <2>10, <2>11,
       <2>12 DEF Next, Wire, Console
<1> QED
  BY <1>1, <1>2, PTL DEF Spec

(* The types in every reachable state of every instance. *)
THEOREM TypeCorrect == Spec => []TypeOK
BY Inductive, PTL DEF IInv

(* With one set: what the console shows plays, through any sequence of
   switches that work and switches that fail. *)
THEOREM ShownSet == Spec => []ShownSetPlays
BY Inductive, PTL DEF IInv

(* A switch that failed leaves the options naming the set that plays. *)
THEOREM OptionSet == Spec => []OptionIsOpenSet
BY Inductive, PTL DEF IInv

-----------------------------------------------------------------------------
(* Refinement: with a map per part, every step of the tools is a step of
   PartMaps or leaves its four variables alone. *)
LEMMA Fields ==
  /\ PowerOnPart.sound.map = Default
  /\ PowerOnPart.sound.prog = FirstProgram
  /\ \A pt \in Part :
       /\ \A v \in Maps : /\ LatchMap(pt, v).sound = pt.sound
                          /\ LatchMap(pt, v).cc32 = v
       /\ \A bk \in Banks : LatchBank(pt, bk).sound = pt.sound
       /\ \A p \in Programs : /\ SelectProgram(pt, p).sound.map = pt.cc32
                              /\ SelectProgram(pt, p).sound.prog = p
BY DEF PowerOnPart, PowerOnSound, Part, Sound, LatchMap, LatchBank,
       SelectProgram

(* What PartMaps sees of a part. *)
Heard(pt) == [map |-> pt.sound.map, prog |-> pt.sound.prog]

LEMMA PowerOnPlays == part' = PowerOn => Plays' = Promise!AtPowerOn
BY Fields DEF Plays, PowerOn, Promise!AtPowerOn

(* In live mode a Program Change is heard on the part's own map. *)
LEMMA ProgramHeard ==
  ASSUME PolicyTypeOK, mode = "live", NEW ch \in Parts, NEW p \in Programs,
         PolicyProgramChange(ch, p)
  PROVE  Plays' = [Plays EXCEPT ![ch] = [map |-> map_of[ch], prog |-> p]]
<1> DEFINE carrying == LatchMap(part[ch], map_of[ch])
<1>1. carrying \in Part /\ carrying.cc32 = map_of[ch]
  BY PartOps, Fields DEF PolicyTypeOK
<1>2. part' = [part EXCEPT ![ch] = SelectProgram(carrying, p)]
  BY DEF PolicyProgramChange, Injects
<1> HIDE DEF carrying
<1>3. /\ SelectProgram(carrying, p).sound.map = map_of[ch]
      /\ SelectProgram(carrying, p).sound.prog = p
  BY <1>1, Fields
<1> QED
  BY <1>2, <1>3 DEF Plays, PolicyTypeOK

(* A put part is heard on its new map and the program it last got. *)
LEMMA PutHeard ==
  ASSUME PolicyTypeOK, NEW ch \in Parts, NEW map \in Maps
  PROVE  Heard(Put(part[ch], ch, map)) = [map |-> map, prog |-> last_pc[ch]]
<1> DEFINE pt == LatchMap(part[ch], map)
<1>1. pt \in Part /\ pt.cc32 = map
  BY PartOps, Fields DEF PolicyTypeOK
<1>2. last_pc[ch] \in Programs
  BY DEF PolicyTypeOK
<1>3. Put(part[ch], ch, map) = SelectProgram(pt, last_pc[ch])
  BY DEF Put
<1> HIDE DEF pt
<1> QED
  BY <1>1, <1>2, <1>3, Fields DEF Heard

LEMMA SetHeard ==
  ASSUME PolicyTypeOK, NEW chs \in SUBSET Parts, NEW map \in Maps,
         PolicySet(chs, map)
  PROVE  Plays' = [ch \in Parts |-> IF ch \in chs
                                    THEN [map |-> map, prog |-> last_pc[ch]]
                                    ELSE Plays[ch]]
<1>1. ASSUME NEW ch \in chs
      PROVE  Heard(part'[ch]) = [map |-> map, prog |-> last_pc[ch]]
  BY PutHeard DEF PolicySet
<1>2. ASSUME NEW ch \in Parts, ch \notin chs
      PROVE  part'[ch] = part[ch]
  BY <1>2 DEF PolicySet
<1> QED
  BY <1>1, <1>2 DEF Plays, Heard

(* The live tools implement PartMaps: an engine with a map per part step by
   step, and one with one set by never beginning. *)
LEMMA OneSetIdle ==
  ASSUME ~per_part, ~per_part'
  PROVE  UNCHANGED Promise!vars
BY DEF IfPerPart, Promise!vars

LEMMA KindKept ==
  ASSUME [Next]_vars
  PROVE  per_part' = per_part
BY DEF Next, Open, OpenFails, Wire, WireProgram, WireBankLSB, WireBankMSB,
       WireSysexReset, Console, ConsolePart, ConsoleAll, SetAllOpens,
       SetAllFails, Quit, vars, engineVars

THEOREM Refines == Spec => ImplementsPartMaps
<1>1. Init => Promise!Init
  <2> SUFFICES ASSUME Init PROVE Promise!Init
    OBVIOUS
  <2>1. part = PowerOn => Plays = Promise!AtPowerOn
    BY Fields DEF Plays, PowerOn, Promise!AtPowerOn
  <2> QED
    BY <2>1 DEF Init, PolicyInit, Begun, Promise!Init, Promise!AtPowerOn,
                IfPerPart
<1>2. ASSUME IInv, [Next]_vars, per_part
      PROVE  [Promise!Next]_(Promise!vars)
  <2> USE <1>2 DEF IInv, TypeOK, ModeFitsEngine, Begun
  <2>p. per_part /\ per_part'
    BY KindKept
  <2>0. part' = part => Plays' = Plays
    BY DEF Plays
  <2>1. ASSUME NEW map \in Maps, NEW literal \in BOOLEAN, Open(map, literal)
        PROVE  Promise!Begin(map)
    <3>1. Plays' = Plays
      BY <2>1 DEF Open, Fresh, Plays
    <3> QED
      BY <2>p, <2>1, <3>1
      DEF Open, NewPolicy, Fresh, IfPerPart, Promise!Begin
  <2>2. ASSUME NEW ch \in Parts, NEW p \in Programs, WireProgram(ch, p)
        PROVE  Promise!Play(ch, p)
    <3>1. Plays' = [Plays EXCEPT ![ch] = [map |-> map_of[ch], prog |-> p]]
      BY <2>2, ProgramHeard DEF WireProgram
    <3> QED
      BY <2>p, <2>2, <3>1
      DEF WireProgram, PolicyProgramChange, IfPerPart, Promise!Play
  <2>3. ASSUME NEW ch \in Parts, NEW v \in Maps, WireBankLSB(ch, v)
        PROVE  Plays' = Plays
    BY <2>3, Fields DEF WireBankLSB, PolicyBankLSB, Plays, PolicyTypeOK
  <2>4. ASSUME NEW ch \in Parts, NEW bk \in Banks, WireBankMSB(ch, bk)
        PROVE  Plays' = Plays
    BY <2>4, Fields DEF WireBankMSB, PolicyBankMSB, Plays, PolicyTypeOK
  <2>5. CASE WireSysexReset
    <3>1. Plays' = Promise!AtPowerOn
      BY <2>5, PowerOnPlays DEF WireSysexReset, WireReset
    <3>2. Promise!Reset
      BY <2>p, <2>5, <3>1
      DEF WireSysexReset, WireReset, policyVars, IfPerPart, Promise!Reset
    <3> QED
      BY <3>2 DEF Promise!Next
  <2>6. ASSUME NEW ch \in Parts, NEW map \in Maps, ConsolePart(ch, map)
        PROVE  Promise!Choose({ch}, map)
    <3>1. PolicySet({ch}, map) /\ phase' = phase
      BY <2>6 DEF ConsolePart
    <3> QED
      BY <2>p, <2>6, <3>1, SetHeard
      DEF ConsolePart, PolicySet, IfPerPart, Promise!Choose
  <2>7. ASSUME NEW map \in Maps, ConsoleAll(map)
        PROVE  Promise!Choose(Parts, map)
    <3>1. PolicySet(Parts, map) /\ phase' = phase
      BY <2>7 DEF ConsoleAll
    <3> QED
      BY <2>p, <2>7, <3>1, SetHeard
      DEF ConsoleAll, PolicySet, IfPerPart, Promise!Choose
  <2>8. CASE OpenFails \/ Quit \/ UNCHANGED vars
    BY <2>p, <2>8, <2>0
    DEF OpenFails, Quit, vars, policyVars, engineVars, IfPerPart,
        Promise!vars
  <2>9. ASSUME NEW ch \in Parts, NEW v \in Maps, WireBankLSB(ch, v)
        PROVE  UNCHANGED Promise!vars
    BY <2>p, <2>9, <2>3 DEF WireBankLSB, PolicyBankLSB, policyVars,
                            engineVars, IfPerPart, Promise!vars
  <2>10. ASSUME NEW ch \in Parts, NEW bk \in Banks, WireBankMSB(ch, bk)
         PROVE  UNCHANGED Promise!vars
    BY <2>p, <2>10, <2>4 DEF WireBankMSB, PolicyBankMSB, policyVars,
                             engineVars, IfPerPart, Promise!vars
  <2>11. ASSUME NEW map \in Maps, SetAllOpens(map) \/ SetAllFails(map)
         PROVE  FALSE
    BY <2>11 DEF SetAllOpens, SetAllFails
  <2> QED
    BY <2>1, <2>2, <2>5, <2>6, <2>7, <2>8, <2>9, <2>10, <2>11
    DEF Next, Wire, Console, Promise!Next
<1>3. ASSUME [Next]_vars, ~per_part
      PROVE  [Promise!Next]_(Promise!vars)
  <2>1. ~per_part'
    BY <1>3, KindKept
  <2>2. UNCHANGED Promise!vars
    BY <1>3, <2>1, OneSetIdle
  <2> QED
    BY <2>2
<1>4. IInv /\ [Next]_vars => [Promise!Next]_(Promise!vars)
  BY <1>2, <1>3
<1> QED
  BY <1>1, <1>4, Inductive, PTL DEF Spec, Promise!Spec, ImplementsPartMaps


-----------------------------------------------------------------------------
(* The timing: what the device has played. *)

(* The device holds no more than the buffers, and each block it holds is one
   buffer's. *)
BufferOf(e) == \E i \in Bufs : out[i] = e

Buffered ==
  /\ played <= rendered /\ rendered - played <= NBuf * Block
  /\ \A j \in Nat : rendered - j * Block > played => BufferOf(rendered - j * Block)

(* What the device has played since it was read: what the loop was kept from
   running, or what it held then and nothing was added to since. *)
ByLag == played - readAt <= lag * FPM
ByBuffers == rendered - readAt <= NBuf * Block

Since ==
  /\ pc = "scan" => ByLag
  /\ pc = "scan" /\ ~did => ByBuffers
  /\ pc = "wait" => ByBuffers
  /\ pc = "top" => (ByLag \/ ByBuffers)

ReadOnce ==
  IF sched.have_pos
  THEN /\ reading # "none" /\ readAt <= played /\ Since
       /\ sched.pos_total = readAt /\ sched.pos_last = readAt % Wrap
  ELSE (reading = "none" \/ (pc = "top" /\ rendered = 0))

LoopTypes ==
  /\ reading \in Readings
  /\ played \in Nat /\ rendered \in Nat /\ readAt \in Nat
  /\ out \in [Bufs -> Nat] /\ lag \in 0 .. MaxLag
  /\ now \in Nat
  /\ sched \in [origin : Int, have_origin : BOOLEAN, pos_last : 0 .. Wrap - 1,
                pos_total : Nat, have_pos : BOOLEAN]
  /\ pc \in {"top", "scan", "wait"} /\ b \in 0 .. NBuf /\ did \in BOOLEAN

TimingInv == LoopTypes /\ Buffered /\ ReadOnce

LEMMA Division ==
  \A a \in Nat, d \in Nat \ {0} :
    /\ a \div d \in Nat /\ a % d \in 0 .. d - 1
    /\ a = d * (a \div d) + (a % d)
  OBVIOUS

LEMMA DivBelow ==
  \A a \in Nat, d \in Nat \ {0} : a \div d \in Nat /\ d * (a \div d) <= a
  OBVIOUS

(* The remainder is the only one. *)
LEMMA Remainder ==
  ASSUME NEW d \in Nat \ {0}, NEW r \in 0 .. d - 1
  PROVE  r % d = r /\ (r - d) % d = r
  OBVIOUS

LEMMA MulMono ==
  \A m, n, d \in Nat : m <= n => d * m <= d * n
  OBVIOUS

(* Counts less than a wrap apart are told apart by their counters. *)
LEMMA WrapUndone ==
  ASSUME NEW d \in Nat \ {0}, NEW x \in Nat, NEW y \in Nat,
         x <= y, y - x < d
  PROVE  ((y % d) - (x % d)) % d = y - x
  <1> DEFINE p == x \div d  q == y \div d  r == x % d  s == y % d
  <1>1. p \in Nat /\ q \in Nat /\ r \in 0 .. d - 1 /\ s \in 0 .. d - 1
    BY Division
  <1>2. x = d * p + r /\ y = d * q + s
    BY Division
  <1>3. q = p \/ q = p + 1
    <2>1. CASE q < p
      <3>1. d * (q + 1) <= d * p
        BY <2>1, <1>1, MulMono
      <3>2. d * (q + 1) = d * q + d
        BY <1>1
      <3> HIDE DEF p, q, r, s
      <3> QED
        BY <3>1, <3>2, <1>1, <1>2
    <2>2. CASE q > p + 1
      <3>1. d * (p + 2) <= d * q
        BY <2>2, <1>1, MulMono
      <3>2. d * (p + 2) = d * p + d + d
        BY <1>1
      <3> HIDE DEF p, q, r, s
      <3> QED
        BY <3>1, <3>2, <1>1, <1>2
    <2> QED
      BY <2>1, <2>2, <1>1
  <1>4. d * (p + 1) = d * p + d
    BY <1>1
  <1>5. y - x = s - r \/ y - x = s - r + d
    <2> HIDE DEF p, q, r, s
    <2> QED
      BY <1>1, <1>2, <1>3, <1>4
  <1>6. CASE y - x = s - r
    <2>1. y - x \in 0 .. d - 1
      OBVIOUS
    <2> HIDE DEF p, q
    <2> QED
      BY <2>1, <1>6, Remainder
  <1>7. CASE y - x = s - r + d
    <2>1. s - r = (y - x) - d
      BY <1>7, <1>1
    <2>2. y - x \in 0 .. d - 1
      OBVIOUS
    <2>3. ((y - x) - d) % d = y - x
      BY <2>2, Remainder
    <2> QED
      BY <2>1, <2>3
  <1> QED
    BY <1>5, <1>6, <1>7

LEMMA Constants ==
  /\ FPM \in Nat \ {0} /\ Wrap \in Nat \ {0} /\ Smooth \in Nat \ {0}
  /\ Sub \in Nat \ {0} /\ Block \in Nat \ {0}
  /\ Latency \in Nat /\ MaxLag \in Nat
  /\ NBuf \in Nat /\ NBuf >= 2
  <1>1. Latency * FPM \in Nat
    BY TimingAssumption
  <1>2. (Latency * FPM) \div Block \in Nat
    BY <1>1, TimingAssumption, Division
  <1>3. NBuf \in Nat /\ NBuf >= 2
    BY <1>2, TimingAssumption DEF NBuf
  <1> QED
    BY <1>3, TimingAssumption

LEMMA TimingStarts == TimingInit => TimingInv
  <1> SUFFICES ASSUME TimingInit PROVE TimingInv
    OBVIOUS
  <1> USE Constants DEF TimingInit
  <1>1. LoopTypes
    BY DEF LoopTypes, Bufs, NewSched
  <1>2. Buffered
    <2>1. NBuf * Block >= 0
      OBVIOUS
    <2>2. \A j \in Nat : ~(0 - j * Block > 0)
      OBVIOUS
    <2> QED
      BY <2>1, <2>2 DEF Buffered
  <1>3. ReadOnce
    BY DEF ReadOnce, NewSched
  <1> QED
    BY <1>1, <1>2, <1>3 DEF TimingInv

(* A step of the world or of the scan that leaves the device alone. *)
LEMMA BufferedKept ==
  ASSUME Buffered, UNCHANGED <<played, out, rendered>>
  PROVE  Buffered'
  BY DEF Buffered, BufferOf

(* The device's buffers are in order, so a free one means that there is room
   for a block. *)
LEMMA Room ==
  ASSUME LoopTypes, Buffered, NEW i \in Bufs, IsFree(i)
  PROVE  rendered - played <= (NBuf - 1) * Block
  <1> SUFFICES ASSUME rendered - played > (NBuf - 1) * Block
               PROVE  FALSE
    BY Constants DEF LoopTypes
  <1> DEFINE S == 0 .. NBuf - 1
             T == Bufs \ {i}
             f == [j \in S |-> CHOOSE k \in Bufs : out[k] = rendered - j * Block]
  <1>1. ASSUME NEW j \in S
        PROVE  /\ f[j] \in T
               /\ out[f[j]] = rendered - j * Block
    <2>1. j * Block <= (NBuf - 1) * Block
      <3>1. Block * j <= Block * (NBuf - 1)
        BY MulMono, Constants
      <3> QED
        BY <3>1, Constants
    <2>2. j * Block \in Nat /\ (NBuf - 1) * Block \in Nat
      BY Constants
    <2>3. rendered - j * Block > played
      BY <2>1, <2>2 DEF LoopTypes
    <2>4. \E k \in Bufs : out[k] = rendered - j * Block
      BY <2>3 DEF Buffered, BufferOf
    <2>5. f[j] \in Bufs /\ out[f[j]] = rendered - j * Block
      BY <2>4
    <2>6. f[j] # i
      BY <2>5, <2>3, <2>2 DEF IsFree, LoopTypes
    <2> QED
      BY <2>5, <2>6
  <1>2. IsFiniteSet(S) /\ Cardinality(S) = NBuf
    BY FS_Interval, Constants
  <1>3. IsFiniteSet(T) /\ Cardinality(T) = NBuf - 1
    BY <1>2, FS_RemoveElement DEF Bufs
  <1>4. f \in [S -> T]
    BY <1>1
  <1>5. PICK x, y \in S : x # y /\ f[x] = f[y]
    <2> HIDE DEF f, S, T
    <2> QED
      BY <1>2, <1>3, <1>4, FS_PigeonHole, Constants
  <1>6. rendered - x * Block = rendered - y * Block
    BY <1>5, <1>1
  <1>7. x * Block = y * Block
    <2>1. x * Block \in Nat /\ y * Block \in Nat
      BY Constants
    <2> QED
      BY <1>6, <2>1 DEF LoopTypes
  <1> QED
    BY <1>7, <1>5, Constants

LEMMA TickKeeps ==
  ASSUME TimingInv, Tick
  PROVE  TimingInv'
  <1> USE DEF TimingInv
  <1>1. LoopTypes'
    BY Constants DEF LoopTypes, Tick, loopVars
  <1>2. played <= played' /\ played' <= rendered /\ played' - played <= FPM
    BY Constants DEF LoopTypes, Tick, Buffered
  <1>3. Buffered'
    <2>1. rendered - played' <= NBuf * Block
      BY <1>2, Constants DEF LoopTypes, Buffered, Tick
    <2>2. ASSUME NEW j \in Nat, rendered - j * Block > played'
          PROVE  BufferOf(rendered - j * Block)
      <3>1. j * Block \in Nat
        BY Constants
      <3>2. rendered - j * Block > played
        BY <3>1, <2>2, <1>2, <1>1 DEF LoopTypes
      <3> QED
        BY <3>2 DEF Buffered
    <2> QED
      BY <2>1, <2>2, <1>2 DEF Buffered, BufferOf, Tick, loopVars
  <1>4. ReadOnce'
    <2>1. ASSUME sched.have_pos
          PROVE  Since'
      <3>1. CASE Asleep
        BY <3>1, <2>1 DEF Asleep, ReadOnce, Since, ByBuffers, Tick, loopVars
      <3>2. CASE ~Asleep
        <4>1. lag' = lag + 1
          BY <3>2 DEF Tick
        <4>2. lag' * FPM = lag * FPM + FPM
          BY <4>1, Constants DEF LoopTypes
        <4>3. lag * FPM \in Nat
          BY Constants DEF LoopTypes
        <4>4. ByLag => ByLag'
          BY <4>2, <4>3, <1>2, <1>1, Constants DEF ByLag, LoopTypes, Tick
        <4>5. ByBuffers <=> ByBuffers'
          BY DEF ByBuffers, Tick
        <4> QED
          BY <4>4, <4>5, <2>1 DEF Since, ReadOnce, Tick, loopVars
      <3> QED
        BY <3>1, <3>2
    <2>2. sched.have_pos => readAt <= played'
      BY <1>2, <1>1 DEF ReadOnce, LoopTypes
    <2> QED
      BY <2>1, <2>2 DEF ReadOnce, Tick, loopVars
  <1> QED
    BY <1>1, <1>3, <1>4

LEMMA FillKeeps ==
  ASSUME TimingInv, Fill
  PROVE  TimingInv'
  <1> USE DEF TimingInv
  <1>0. b \in Bufs /\ IsFree(b)
    BY Constants DEF Fill, Bufs, LoopTypes
  <1>1. LoopTypes'
    BY <1>0, Constants DEF LoopTypes, Fill
  <1>2. rendered' - played' <= NBuf * Block
    <2>1. rendered - played <= (NBuf - 1) * Block
      BY <1>0, Room
    <2>2. NBuf * Block = (NBuf - 1) * Block + Block /\ (NBuf - 1) * Block \in Nat
      BY Constants
    <2> QED
      BY <2>1, <2>2, Constants DEF Fill, LoopTypes
  <1>3. ASSUME NEW j \in Nat, rendered' - j * Block > played
        PROVE  \E i \in Bufs : out'[i] = rendered' - j * Block
    <2>1. CASE j = 0
      <3>1. rendered' - j * Block = rendered'
        <4>1. j * Block = 0
          BY <2>1, Constants
        <4>2. rendered' \in Nat
          BY <1>1 DEF LoopTypes
        <4> QED
          BY <4>1, <4>2
      <3>2. out'[b] = rendered'
        BY <1>0 DEF Fill, LoopTypes
      <3> QED
        BY <3>1, <3>2, <1>0
    <2>2. CASE j # 0
      <3>1. j - 1 \in Nat
        BY <2>2
      <3>2. j * Block = (j - 1) * Block + Block /\ (j - 1) * Block \in Nat
        BY <3>1, Constants
      <3>3. rendered' - j * Block = rendered - (j - 1) * Block
        BY <3>2, Constants DEF Fill, LoopTypes
      <3>4. PICK i \in Bufs : out[i] = rendered - (j - 1) * Block
        BY <3>1, <3>3, <1>3 DEF Buffered, BufferOf
      <3>5. i # b
        BY <3>4, <3>3, <1>3, <1>0, <3>2 DEF IsFree, LoopTypes
      <3>6. out'[i] = out[i]
        BY <3>5, <1>0 DEF Fill, LoopTypes
      <3> QED
        BY <3>4, <3>6, <3>3
    <2> QED
      BY <2>1, <2>2
  <1>4. Buffered'
    <2>1. played' <= rendered'
      BY Constants DEF Fill, LoopTypes, Buffered
    <2> QED
      BY <2>1, <1>2, <1>3 DEF Buffered, BufferOf, Fill
  <1>5. ReadOnce'
    BY DEF ReadOnce, Since, ByLag, Fill
  <1> QED
    BY <1>1, <1>4, <1>5

LEMMA MeasuredKeeps ==
  ASSUME NEW s, NEW at \in Int, NEW ms \in Nat,
         s \in [origin : Int, have_origin : BOOLEAN, pos_last : 0 .. Wrap - 1,
                pos_total : Nat, have_pos : BOOLEAN]
  PROVE  LET t == Measured(s, at, ms)
         IN /\ t \in [origin : Int, have_origin : BOOLEAN,
                       pos_last : 0 .. Wrap - 1, pos_total : Nat,
                       have_pos : BOOLEAN]
            /\ t.pos_last = s.pos_last /\ t.pos_total = s.pos_total
            /\ t.have_pos = s.have_pos
  <1> DEFINE measured == Sub * (at - ms * FPM)
             origin == IF s.have_origin
                       THEN s.origin + (measured - s.origin) \div Smooth
                       ELSE measured
  <1>1. measured \in Int
    BY Constants
  <1>2. \A x \in Int, d \in Nat \ {0} : x \div d \in Int
    OBVIOUS
  <1>3. origin \in Int
    BY <1>1, <1>2, Constants
  <1>4. Measured(s, at, ms) = [s EXCEPT !.origin = origin, !.have_origin = TRUE]
    BY DEF Measured
  <1> HIDE DEF origin
  <1> QED
    BY <1>3, <1>4

(* The scheduler's count after a reading is what the device has played. *)
LEMMA Counted ==
  ASSUME TimingInv, pc = "top", reading = "samples",
         MaxLag * FPM < Wrap, NBuf * Block < Wrap
  PROVE  LET s == Position(sched, Sample)
         IN /\ s \in [origin : Int, have_origin : BOOLEAN,
                       pos_last : 0 .. Wrap - 1, pos_total : Nat,
                       have_pos : BOOLEAN]
            /\ s.have_pos /\ s.pos_total = played /\ s.pos_last = played % Wrap
  <1> USE DEF TimingInv
  <1> DEFINE total == IF sched.have_pos
                      THEN sched.pos_total + ((Sample - sched.pos_last) % Wrap)
                      ELSE Sample
  <1>1. Sample = played % Wrap /\ Sample \in 0 .. Wrap - 1
    BY Constants, Division DEF Sample, LoopTypes
  <1>2. ASSUME sched.have_pos
        PROVE  total = played
    <2>1. played - readAt < Wrap
      <3>1. CASE ByLag
        <4>1. lag * FPM <= MaxLag * FPM
          <5>1. FPM * lag <= FPM * MaxLag
            BY Constants, MulMono DEF LoopTypes
          <5> QED
            BY <5>1, Constants DEF LoopTypes
        <4>2. lag * FPM \in Nat /\ MaxLag * FPM \in Nat
          BY Constants DEF LoopTypes
        <4> QED
          BY <3>1, <4>1, <4>2, Constants DEF ByLag, LoopTypes
      <3>2. CASE ByBuffers
        <4>1. NBuf * Block \in Nat
          BY Constants
        <4> QED
          BY <3>2, <4>1, Constants DEF ByBuffers, LoopTypes, Buffered
      <3> QED
        BY <1>2, <3>1, <3>2 DEF ReadOnce, Since
    <2>2. /\ sched.pos_last = readAt % Wrap /\ sched.pos_total = readAt
          /\ readAt \in Nat /\ played \in Nat /\ readAt <= played
      BY <1>2 DEF ReadOnce, LoopTypes
    <2>3. ((played % Wrap) - (readAt % Wrap)) % Wrap = played - readAt
      <3>1. Wrap \in Nat \ {0}
        BY Constants
      <3> QED
        BY <3>1, <2>1, <2>2, WrapUndone
    <2>4. (Sample - sched.pos_last) % Wrap = played - readAt
      BY <1>1, <2>2, <2>3
    <2> QED
      BY <2>2, <2>4, <1>2
  <1>3. ASSUME ~sched.have_pos
        PROVE  total = played
    <2>1. played = 0
      BY <1>3 DEF ReadOnce, Buffered, LoopTypes
    <2>2. played % Wrap = 0
      BY <2>1, Constants, Remainder
    <2> QED
      BY <2>1, <2>2, <1>1, <1>3
  <1>4. total = played /\ played \in Nat
    BY <1>2, <1>3 DEF LoopTypes
  <1>5. Position(sched, Sample) =
          [sched EXCEPT !.pos_total = total, !.pos_last = Sample, !.have_pos = TRUE]
    BY DEF Position
  <1>6. sched \in [origin : Int, have_origin : BOOLEAN, pos_last : 0 .. Wrap - 1,
                   pos_total : Nat, have_pos : BOOLEAN]
    BY DEF LoopTypes
  <1> HIDE DEF total
  <1> QED
    BY <1>1, <1>4, <1>5, <1>6

LEMMA MeasureKeeps ==
  ASSUME "bytes" \notin Readings, MaxLag * FPM < Wrap, NBuf * Block < Wrap,
         TimingInv, Measure
  PROVE  TimingInv'
  <1> USE DEF TimingInv
  <1>1. Buffered'
    BY BufferedKept DEF Measure
  <1>2. lag' * FPM = 0
    BY Constants DEF Measure
  <1>3. reading = "samples" \/ reading = "none"
    BY TimingAssumption DEF LoopTypes
  <1>4. CASE reading = "samples"
    <2> DEFINE s == Position(sched, Sample)
    <2>1. /\ s \in [origin : Int, have_origin : BOOLEAN, pos_last : 0 .. Wrap - 1,
                    pos_total : Nat, have_pos : BOOLEAN]
          /\ s.have_pos /\ s.pos_total = played /\ s.pos_last = played % Wrap
      BY <1>4, Counted DEF Measure
    <2>2. sched' = Measured(s, s.pos_total, now) /\ readAt' = played
      BY <1>4 DEF Measure
    <2>3. s.pos_total \in Int /\ now \in Nat
      BY <2>1 DEF LoopTypes
    <2> HIDE DEF s
    <2>4. /\ sched' \in [origin : Int, have_origin : BOOLEAN,
                         pos_last : 0 .. Wrap - 1, pos_total : Nat,
                         have_pos : BOOLEAN]
          /\ sched'.pos_last = s.pos_last /\ sched'.pos_total = s.pos_total
          /\ sched'.have_pos = s.have_pos
      BY <2>1, <2>2, <2>3, MeasuredKeeps
    <2>5. LoopTypes'
      <3>1. lag' \in 0 .. MaxLag /\ b' \in 0 .. NBuf
        BY Constants DEF Measure
      <3>2. /\ pc' = "scan" /\ did' = FALSE
            /\ UNCHANGED <<reading, now, played, out, rendered>>
        BY DEF Measure
      <3> QED
        BY <3>1, <3>2, <2>2, <2>4 DEF LoopTypes, Bufs
    <2>6. ByLag' /\ ByBuffers'
      BY <1>2, <2>2 DEF ByLag, ByBuffers, Measure, LoopTypes, Buffered
    <2>7. Since'
      BY <2>6 DEF Since, Measure
    <2>8. reading' # "none" /\ readAt' <= played'
      BY <1>4, <2>2 DEF Measure, LoopTypes
    <2>9. ReadOnce'
      BY <2>1, <2>2, <2>4, <2>7, <2>8 DEF ReadOnce
    <2> QED
      BY <1>1, <2>5, <2>9
  <1>5. CASE reading = "none"
    <2> DEFINE at == Played(FALSE, 0, rendered)
    <2>1. NBuf * Block \in Nat
      BY Constants
    <2>2. at \in Int
      BY <2>1 DEF Played, LoopTypes
    <2>3. sched' = Measured(sched, at, now) /\ readAt' = readAt /\ reading' = reading
      BY <1>5 DEF Measure
    <2> HIDE DEF at
    <2>4. /\ sched' \in [origin : Int, have_origin : BOOLEAN,
                         pos_last : 0 .. Wrap - 1, pos_total : Nat,
                         have_pos : BOOLEAN]
          /\ sched'.have_pos = sched.have_pos
      BY <2>2, <2>3, MeasuredKeeps DEF LoopTypes
    <2>5. LoopTypes'
      <3>1. lag' \in 0 .. MaxLag /\ b' \in 0 .. NBuf
        BY Constants DEF Measure
      <3>2. /\ pc' = "scan" /\ did' = FALSE
            /\ UNCHANGED <<now, played, out, rendered>>
        BY DEF Measure
      <3> QED
        BY <3>1, <3>2, <2>3, <2>4 DEF LoopTypes, Bufs
    <2>6. ReadOnce'
      BY <1>5, <2>3, <2>4 DEF ReadOnce
    <2> QED
      BY <1>1, <2>5, <2>6
  <1> QED
    BY <1>3, <1>4, <1>5

(* The loop's other steps, which neither read nor write. *)
LEMMA RestKeeps ==
  ASSUME TimingInv, Arrive \/ Skip \/ EndScan \/ Wake \/ UNCHANGED timingVars
  PROVE  TimingInv'
  <1> USE DEF TimingInv
  <1>1. UNCHANGED <<reading, now, played, out, sched, rendered, lag, readAt>>
    BY DEF Arrive, Skip, EndScan, Wake, timingVars
  <1>2. Buffered'
    BY <1>1, BufferedKept
  <1>3. /\ pc' \in {"top", "scan", "wait"} /\ b' \in 0 .. NBuf /\ did' \in BOOLEAN
    BY Constants DEF LoopTypes, Arrive, Skip, EndScan, Wake, timingVars, loopVars
  <1>4. LoopTypes'
    BY <1>1, <1>3 DEF LoopTypes, Bufs
  <1>5. Since => Since'
    BY <1>1 DEF Since, ByLag, ByBuffers, Arrive, Skip, EndScan, Wake, timingVars,
                loopVars
  <1>6. ReadOnce'
    BY <1>1, <1>5 DEF ReadOnce, Arrive, Skip, EndScan, Wake, timingVars, loopVars
  <1> QED
    BY <1>2, <1>4, <1>6

(* live_sched_position's 64-bit count is exactly what the device had played,
   for any counter width, block, latency and run, as long as a device counts
   in frames and the counter cannot go round between two readings: neither in
   the time the loop may be kept from running nor over all that is buffered. *)
THEOREM CountExact ==
  ASSUME "bytes" \notin Readings, MaxLag * FPM < Wrap, NBuf * Block < Wrap
  PROVE  TimingSpec => []PositionExact
  <1>1. TimingInit => TimingInv
    BY TimingStarts
  <1>2. TimingInv /\ [TimingNext]_timingVars => TimingInv'
    BY TickKeeps, FillKeeps, MeasureKeeps, RestKeeps DEF TimingNext
  <1>3. TimingInv => PositionExact
    BY DEF TimingInv, ReadOnce, PositionExact
  <1> QED
    BY <1>1, <1>2, <1>3, PTL DEF TimingSpec

-----------------------------------------------------------------------------
(* How late a message may be. *)

(* Where the frames stand to the milliseconds: a device that never stood still
   has played this many more frames than the time's. *)
Offset == played + dry - now * FPM

(* A message's stamp, in frames, is on the air's frame or later by what the
   device had stood still. *)
Stamped(msg) ==
  /\ msg.air <= msg.when * FPM + Offset
  /\ msg.when * FPM + Offset <= msg.air + dry

(* The origin is never ahead of the device. *)
OriginHeld ==
  /\ sched.have_origin => sched.origin <= Sub * Offset
  /\ pc # "top" => sched.have_origin

QueueHeld ==
  /\ queue \in Seq([when : Nat, air : Nat])
  /\ \A i \in 1 .. Len(queue) :
       /\ queue[i].when <= now /\ Stamped(queue[i])
       /\ (queue[i].when + Latency) * FPM + Offset >= rendered
  /\ \A i, j \in 1 .. Len(queue) : i <= j => queue[i].when <= queue[j].when

HeardHeld ==
  \A h \in heard : /\ h.msg \in [when : Nat, air : Nat] /\ h.at \in Nat
                   /\ Stamped(h.msg)
                   /\ (h.msg.when + Latency) * FPM + Offset >= h.at

WaitInv == OriginHeld /\ QueueHeld /\ HeardHeld /\ dry \in Nat

LEMMA Least ==
  ASSUME NEW S, S \subseteq Nat, S # {}
  PROVE  \E x \in S : \A y \in S : ~ y < x
  <1>1. \E x \in S : \A y \in S : ~ (<<y, x>> \in OpToRel(<, Nat))
    BY NatLessThanWellFounded, WFMin
  <1>2. \A x, y \in S : y < x => <<y, x>> \in OpToRel(<, Nat)
    BY Zenon DEF OpToRel
  <1> QED
    BY <1>1, <1>2, Zenon

(* What a block takes: messages up to the first that is not due. *)
LEMMA TakenAll ==
  ASSUME NEW until, NEW q, q = queue, queue \in Seq([when : Nat, air : Nat])
  PROVE  /\ Taken(until) \in 0 .. Len(q)
         /\ \A i \in 1 .. Taken(until) : Due(sched, q[i].when, until)
         /\ Taken(until) < Len(q) => ~Due(sched, q[Taken(until) + 1].when, until)
  <1> DEFINE Stop(n) == n < Len(queue) => ~Due(sched, queue[n + 1].when, until)
             S == {n \in 0 .. Len(queue) : Stop(n)}
  <1>1. Len(queue) \in Nat
    OBVIOUS
  <1>2. Len(queue) \in S /\ S \subseteq Nat
    BY <1>1
  <1>3. PICK n \in S : \A m \in S : ~ m < n
    <2> HIDE DEF S
    <2> QED
      BY <1>2, Least
  <1>4. ASSUME NEW i \in 1 .. n
        PROVE  Due(sched, queue[i].when, until)
    <2>1. i - 1 \in 0 .. Len(queue) /\ i - 1 < n /\ i - 1 < Len(queue) /\ (i - 1) + 1 = i
      BY <1>1
    <2>2. i - 1 \notin S
      BY <1>3, <2>1
    <2> QED
      BY <2>1, <2>2
  <1>5. \E k \in 0 .. Len(queue) :
          /\ \A i \in 1 .. k : Due(sched, queue[i].when, until)
          /\ k < Len(queue) => ~Due(sched, queue[k + 1].when, until)
    BY <1>4
  <1> QED
    BY <1>5, Zenon DEF Taken

(* The latency's buffers hold no more than the latency. *)
LEMMA HorizonWithin ==
  ASSUME 2 * Block <= Latency * FPM
  PROVE  NBuf * Block <= Latency * FPM
  <1> DEFINE L == Latency * FPM
             n == L \div Block
  <1>1. L \in Nat /\ Block \in Nat \ {0}
    BY Constants
  <1>2. n \in Nat /\ L = Block * n + (L % Block) /\ L % Block \in 0 .. Block - 1
    BY <1>1, Division
  <1>3. n >= 2
    <2> SUFFICES ASSUME n <= 1 PROVE FALSE
      BY <1>2
    <2>1. Block * n <= Block * 1
      BY <1>1, <1>2, MulMono
    <2> HIDE DEF n, L
    <2> QED
      BY <2>1, <1>1, <1>2 DEF L
  <1>4. NBuf <= n /\ NBuf \in Nat
    BY <1>3, Constants DEF NBuf
  <1>5. Block * NBuf <= Block * n
    BY <1>4, <1>1, <1>2, MulMono
  <1> HIDE DEF n, L
  <1>6. n \in Nat /\ Block \in Nat /\ NBuf \in Nat
    BY <1>1, <1>2, <1>4
  <1>7. Block * n \in Nat /\ Block * NBuf \in Nat /\ Block * NBuf = NBuf * Block
    BY <1>6
  <1>8. Block * n <= L
    <2> DEFINE y == Block * n
    <2>1. y \in Nat /\ L = y + (L % Block) /\ L % Block \in 0 .. Block - 1
      BY <1>2, <1>7
    <2> HIDE DEF y
    <2>2. y <= L
      BY <2>1, <1>1
    <2> QED
      BY <2>2 DEF y
  <1>9. Block * NBuf <= L
    BY <1>1, <1>5, <1>7, <1>8
  <1> QED
    BY <1>7, <1>9 DEF L

LEMMA ScaleMono ==
  \A d \in Nat, m, n \in Int : m <= n => d * m <= d * n
  OBVIOUS

(* A new origin between the old and what was measured. *)
LEMMA Smoothed ==
  ASSUME NEW o \in Int, NEW m \in Int, NEW u \in Int, o <= u, m <= u
  PROVE  o + (m - o) \div Smooth <= u
  <1>1. \A x \in Int, d \in Nat \ {0} :
          /\ x \div d \in Int
          /\ x <= 0 => x \div d <= 0
          /\ x >= 0 => x \div d <= x
    OBVIOUS
  <1>2. m - o \in Int /\ Smooth \in Nat \ {0}
    BY Constants
  <1> DEFINE e == (m - o) \div Smooth
  <1>3. e \in Int /\ (m <= o => e <= 0) /\ (m >= o => e <= m - o)
    BY <1>1, <1>2
  <1> HIDE DEF e
  <1> QED
    BY <1>3 DEF e

(* A message not yet due belongs to a frame past the block's end. *)
LEMMA NotDue ==
  ASSUME NEW s, NEW w \in Nat, NEW until \in Nat, NEW k \in Int,
         s.origin \in Int, s.origin <= Sub * k, ~(DueAt(s, w) <= until)
  PROVE  (w + Latency) * FPM + k > until
  <1> DEFINE x == (w + Latency) * FPM
             at == s.origin + Sub * (w + Latency) * FPM
  <1>1. x \in Nat /\ Sub \in Nat \ {0}
    BY Constants
  <1>2. Sub * (w + Latency) * FPM = Sub * x
    BY Constants
  <1>3. Sub * (x + k) = Sub * x + Sub * k
    BY <1>1
  <1>4. at \in Int /\ at <= Sub * (x + k)
    <2>1. Sub * x \in Int /\ Sub * k \in Int
      BY <1>1
    <2> HIDE DEF x
    <2> QED
      BY <2>1, <1>2, <1>3
  <1>5. ~(DueAt(s, w) <= until)
    OBVIOUS
  <1>6. DueAt(s, w) = IF at > 0 THEN at \div Sub ELSE 0
    BY DEF DueAt
  <1>7. at > 0 /\ at \div Sub > until
    <2> HIDE DEF at
    <2>1. at > 0
      BY <1>5, <1>6
    <2>2. at \div Sub \in Nat
      BY <2>1, <1>4, <1>1, DivBelow
    <2> QED
      BY <1>5, <1>6, <2>1, <2>2
  <1>8. at \div Sub \in Nat /\ Sub * (at \div Sub) <= at
    <2>1. at \in Nat
      BY <1>4, <1>7
    <2> HIDE DEF at
    <2> QED
      BY <2>1, <1>1, DivBelow, Zenon
  <1>9. ~(x + k <= until)
    <2> SUFFICES ASSUME x + k <= until PROVE FALSE
      OBVIOUS
    <2>1. x + k <= at \div Sub - 1 /\ x + k \in Int
      BY <1>1, <1>7, <1>8
    <2>2. Sub * (x + k) <= Sub * (at \div Sub - 1)
      BY <2>1, <1>1, <1>8, ScaleMono
    <2>3. Sub * (at \div Sub - 1) = Sub * (at \div Sub) - Sub
      BY <1>1, <1>8
    <2> QED
      <3> DEFINE y == Sub * (x + k)  z == Sub * (at \div Sub)
      <3>1. y \in Int /\ z \in Int
        BY <2>1, <1>1, <1>8
      <3>2. at <= y /\ y <= z - Sub /\ z <= at
        BY <2>2, <2>3, <1>4, <1>8
      <3> HIDE DEF y, z, at
      <3> QED
        BY <3>1, <3>2, <1>1, <1>4
  <1> QED
    BY <1>1, <1>9

LEMMA Element ==
  ASSUME NEW M, NEW q \in Seq(M), NEW i \in 1 .. Len(q)
  PROVE  q[i] \in M
  OBVIOUS

LEMMA Rest ==
  ASSUME NEW M, NEW q \in Seq(M), NEW n \in 0 .. Len(q),
         NEW r, r = SubSeq(q, n + 1, Len(q))
  PROVE  /\ r \in Seq(M) /\ Len(r) = Len(q) - n /\ Len(q) \in Nat
         /\ \A i \in 1 .. Len(r) : n + i \in 1 .. Len(q) /\ r[i] = q[n + i]
  <1>1. Len(q) \in Nat
    OBVIOUS
  <1>2. Len(r) = Len(q) - n
    BY <1>1
  <1> QED
    BY <1>1, <1>2

LEMMA Queued ==
  ASSUME QueueHeld, NEW i \in 1 .. Len(queue)
  PROVE  /\ queue[i] \in [when : Nat, air : Nat]
         /\ queue[i].when \in Nat /\ queue[i].air \in Nat
  <1>1. queue[i] \in [when : Nat, air : Nat]
    BY Element DEF QueueHeld
  <1> QED
    BY <1>1

LEMMA WaitStarts == TimingInit => WaitInv
  <1> SUFFICES ASSUME TimingInit PROVE WaitInv
    OBVIOUS
  <1>1. OriginHeld
    BY DEF TimingInit, OriginHeld, NewSched
  <1>2. QueueHeld
    BY DEF TimingInit, QueueHeld
  <1> QED
    BY <1>1, <1>2 DEF TimingInit, HeardHeld, WaitInv

LEMMA InFrames ==
  \A w \in Nat : /\ (w + Latency) * FPM = w * FPM + Latency * FPM
                 /\ w * FPM \in Nat /\ Latency * FPM \in Nat
  BY Constants

LEMMA OffsetType ==
  ASSUME LoopTypes, dry \in Nat
  PROVE  Offset \in Int /\ now * FPM \in Nat
  <1>1. now * FPM \in Nat
    BY Constants DEF LoopTypes
  <1> QED
    BY <1>1 DEF LoopTypes, Offset

LEMMA OnTheAir ==
  ASSUME NEW m, m.when \in Nat, m.air \in Nat, Stamped(m), Offset \in Int,
         dry \in Nat, NEW r \in Nat, (m.when + Latency) * FPM + Offset >= r
  PROVE  Ideal(m) + dry >= r
  <1> DEFINE x == m.when * FPM
             l == Latency * FPM
  <1>1. (m.when + Latency) * FPM = x + l /\ x \in Nat /\ l \in Nat
    BY InFrames
  <1>2. Ideal(m) = m.air + l
    BY DEF Ideal
  <1>3. x + Offset <= m.air + dry
    BY DEF Stamped
  <1> HIDE DEF x, l
  <1> QED
    BY <1>1, <1>2, <1>3

LEMMA LaterStill ==
  ASSUME NEW w \in Nat, NEW x \in Nat, w <= x, NEW k \in Int, NEW r \in Nat,
         (w + Latency) * FPM + k >= r
  PROVE  (x + Latency) * FPM + k >= r
  <1>1. FPM * (w + Latency) <= FPM * (x + Latency)
    BY Constants, MulMono
  <1>2. /\ (w + Latency) * FPM = FPM * (w + Latency) /\ FPM * (w + Latency) \in Nat
        /\ (x + Latency) * FPM = FPM * (x + Latency) /\ FPM * (x + Latency) \in Nat
    BY Constants
  <1> QED
    BY <1>1, <1>2

(* The facts of a message survive a step that loses none of its terms. *)
LEMMA WaitKept ==
  ASSUME TimingInv, WaitInv, Offset' = Offset, dry' \in Nat, dry <= dry',
         rendered' = rendered, queue' = queue, heard' = heard, now' \in Nat, now <= now'
  PROVE  QueueHeld' /\ HeardHeld'
  <1> USE DEF WaitInv
  <1>1. Offset \in Int
    BY OffsetType DEF TimingInv
  <1>2. ASSUME NEW m, Stamped(m), m \in [when : Nat, air : Nat]
        PROVE  Stamped(m)'
    <2>1. m.air \in Nat /\ m.when * FPM \in Nat
      BY <1>2, Constants
    <2> QED
      BY <1>1, <1>2, <2>1 DEF Stamped
  <1>3. QueueHeld'
    <2>1. ASSUME NEW i \in 1 .. Len(queue)
          PROVE  queue[i].when <= now' /\ Stamped(queue[i])'
      <3>1. queue[i] \in [when : Nat, air : Nat] /\ queue[i].when \in Nat
        BY Queued
      <3>2. queue[i].when <= now /\ Stamped(queue[i])
        BY DEF QueueHeld
      <3>3. Stamped(queue[i])'
        BY <3>1, <3>2, <1>2
      <3> QED
        BY <3>1, <3>2, <3>3 DEF TimingInv, LoopTypes
    <2> QED
      BY <2>1 DEF QueueHeld
  <1>4. HeardHeld'
    BY <1>2 DEF HeardHeld
  <1> QED
    BY <1>3, <1>4

(* The device plays what time brings, or stands still for it. *)
LEMMA TickOffset ==
  ASSUME TimingInv, dry \in Nat, Tick
  PROVE  Offset' = Offset
  <1>1. played' - played \in 0 .. FPM
    BY Constants DEF TimingInv, LoopTypes, Tick, Buffered
  <1>2. dry' = dry + FPM - (played' - played) /\ now' = now + 1
    BY DEF Tick
  <1>3. now' * FPM = now * FPM + FPM /\ now * FPM \in Nat
    BY <1>2, Constants DEF TimingInv, LoopTypes
  <1> SUFFICES ASSUME NEW x \in Nat, x = now * FPM PROVE Offset' = Offset
    BY <1>3
  <1>4. played \in Nat /\ played' \in Int /\ now' * FPM = x + FPM
    BY <1>1, <1>3 DEF TimingInv, LoopTypes, Tick
  <1>5. Offset = played + dry - x
    BY DEF Offset
  <1>6. Offset' = played' + dry' - (x + FPM)
    BY <1>4 DEF Offset
  <1> QED
    BY <1>1, <1>2, <1>4, <1>5, <1>6, Constants

LEMMA TickWaits ==
  ASSUME TimingInv, WaitInv, Tick
  PROVE  WaitInv'
  <1> USE DEF WaitInv
  <1>1. played' - played \in 0 .. FPM
    BY Constants DEF TimingInv, LoopTypes, Tick, Buffered
  <1>2. dry' = dry + FPM - (played' - played) /\ now' = now + 1
    BY DEF Tick
  <1>3. dry' \in Nat /\ dry <= dry'
    BY <1>1, <1>2, Constants DEF TimingInv, LoopTypes, Tick
  <1>5. Offset' = Offset
    BY TickOffset
  <1>6. QueueHeld' /\ HeardHeld'
    BY <1>2, <1>3, <1>5, WaitKept DEF Tick, TimingInv, LoopTypes
  <1>7. OriginHeld'
    BY <1>5 DEF OriginHeld, Tick, loopVars
  <1> QED
    BY <1>3, <1>6, <1>7

LEMMA ArriveWaits ==
  ASSUME 2 * Block <= Latency * FPM, TimingInv, WaitInv, Arrive
  PROVE  WaitInv'
  <1> USE DEF WaitInv
  <1> DEFINE new == [when |-> now, air |-> played]
  <1>1. /\ Offset' = Offset /\ dry' = dry /\ rendered' = rendered /\ now' = now
        /\ queue' = Append(queue, new)
    BY DEF Offset, Arrive
  <1>2. /\ new \in [when : Nat, air : Nat] /\ new.when = now /\ new.air = played
        /\ queue \in Seq([when : Nat, air : Nat])
    BY DEF TimingInv, LoopTypes, QueueHeld
  <1>3. Offset \in Int /\ now * FPM \in Nat
    BY OffsetType DEF TimingInv
  <1>4. now * FPM + Offset = played + dry
    BY <1>3 DEF Offset, TimingInv, LoopTypes
  <1>5. Stamped(new)
    BY <1>2, <1>3, <1>4 DEF Stamped, TimingInv, LoopTypes
  <1>6. (now + Latency) * FPM + Offset >= rendered
    <2>1. (now + Latency) * FPM = now * FPM + Latency * FPM /\ Latency * FPM \in Nat
          /\ NBuf * Block \in Nat
      BY Constants DEF TimingInv, LoopTypes
    <2>2. rendered - played <= Latency * FPM
      BY <2>1, HorizonWithin DEF TimingInv, LoopTypes, Buffered
    <2> QED
      BY <2>1, <2>2, <1>3, <1>4 DEF TimingInv, LoopTypes
  <1>7. QueueHeld'
    <2> HIDE DEF new
    <2>1. /\ queue' \in Seq([when : Nat, air : Nat])
          /\ Len(queue') = Len(queue) + 1 /\ Len(queue) \in Nat
          /\ \A i \in 1 .. Len(queue) : queue'[i] = queue[i]
          /\ queue'[Len(queue) + 1] = new
      BY <1>1, <1>2
    <2>2. ASSUME NEW i \in 1 .. Len(queue')
          PROVE  /\ queue'[i].when <= now /\ Stamped(queue'[i])
                 /\ (queue'[i].when + Latency) * FPM + Offset >= rendered
      <3>1. CASE i \in 1 .. Len(queue)
        BY <3>1, <2>1 DEF QueueHeld
      <3>2. CASE i = Len(queue) + 1
        BY <3>2, <2>1, <1>2, <1>5, <1>6 DEF TimingInv, LoopTypes
      <3> QED
        BY <3>1, <3>2, <2>1
    <2>3. ASSUME NEW i \in 1 .. Len(queue'), NEW j \in 1 .. Len(queue'), i <= j
          PROVE  queue'[i].when <= queue'[j].when
      <3>1. CASE j \in 1 .. Len(queue)
        <4>1. i \in 1 .. Len(queue)
          BY <3>1, <2>1, <2>3
        <4>2. queue'[i] = queue[i] /\ queue'[j] = queue[j]
          BY <4>1, <3>1, <2>1
        <4> QED
          BY <4>1, <4>2, <3>1, <2>3 DEF QueueHeld
      <3>2. CASE j = Len(queue) + 1
        <4>1. queue'[j].when = now /\ now \in Nat
          BY <3>2, <2>1, <1>2 DEF TimingInv, LoopTypes
        <4> QED
          BY <4>1, <2>2
      <3> QED
        BY <3>1, <3>2, <2>1
    <2> QED
      BY <1>1, <2>1, <2>2, <2>3 DEF QueueHeld, Stamped
  <1>8. HeardHeld' /\ OriginHeld'
    BY <1>1 DEF HeardHeld, OriginHeld, Stamped, Arrive, loopVars
  <1> QED
    BY <1>1, <1>7, <1>8

(* What the loop measures with: the device's count where it has one, a guess
   where not. *)
LEMMA MeasuredWith ==
  ASSUME "bytes" \notin Readings, MaxLag * FPM < Wrap, NBuf * Block < Wrap,
         TimingInv, Measure
  PROVE  \E s, at : /\ sched' = Measured(s, at, now)
                    /\ at = IF reading = "none" THEN Played(FALSE, 0, rendered) ELSE played
                    /\ at \in Int /\ at <= played
                    /\ s \in [origin : Int, have_origin : BOOLEAN,
                              pos_last : 0 .. Wrap - 1, pos_total : Nat,
                              have_pos : BOOLEAN]
                    /\ s.origin = sched.origin /\ s.have_origin = sched.have_origin
  <1>1. CASE reading # "none"
    <2>1. reading = "samples" /\ pc = "top"
      BY <1>1, TimingAssumption DEF TimingInv, LoopTypes, Measure
    <2> DEFINE s == Position(sched, Sample)
    <2>2. /\ s \in [origin : Int, have_origin : BOOLEAN,
                    pos_last : 0 .. Wrap - 1, pos_total : Nat,
                    have_pos : BOOLEAN]
          /\ s.pos_total = played
      BY <2>1, Counted
    <2>3. s.origin = sched.origin /\ s.have_origin = sched.have_origin
      BY DEF Position, TimingInv, LoopTypes
    <2>4. sched' = Measured(s, s.pos_total, now)
      BY <1>1 DEF Measure
    <2> HIDE DEF s
    <2> QED
      BY <2>2, <2>3, <2>4, <1>1 DEF TimingInv, LoopTypes
  <1>2. CASE reading = "none"
    <2> DEFINE at == Played(FALSE, 0, rendered)
    <2>1. NBuf * Block \in Nat
      BY Constants
    <2>2. at \in Int /\ at <= played
      BY <2>1 DEF Played, TimingInv, LoopTypes, Buffered
    <2>3. sched' = Measured(sched, at, now)
      BY <1>2 DEF Measure
    <2>4. at = IF reading = "none" THEN Played(FALSE, 0, rendered) ELSE played
      BY <1>2
    <2> HIDE DEF at
    <2> QED
      BY <2>2, <2>3, <2>4 DEF TimingInv, LoopTypes
  <1> QED
    BY <1>1, <1>2

LEMMA MeasureWaits ==
  ASSUME "bytes" \notin Readings, MaxLag * FPM < Wrap, NBuf * Block < Wrap,
         TimingInv, WaitInv, Measure
  PROVE  WaitInv'
  <1> USE DEF WaitInv
  <1>1. /\ Offset' = Offset /\ dry' = dry /\ rendered' = rendered /\ now' = now
        /\ queue' = queue /\ heard' = heard
    BY DEF Offset, Measure
  <1>2. QueueHeld' /\ HeardHeld'
    BY <1>1, WaitKept DEF TimingInv, LoopTypes
  <1>4. PICK s, at :
          /\ sched' = Measured(s, at, now)
          /\ at \in Int /\ at <= played
          /\ s \in [origin : Int, have_origin : BOOLEAN, pos_last : 0 .. Wrap - 1,
                    pos_total : Nat, have_pos : BOOLEAN]
          /\ s.origin = sched.origin /\ s.have_origin = sched.have_origin
    BY MeasuredWith
  <1> DEFINE measured == Sub * (at - now * FPM)
             top == Sub * Offset
  <1>5. Offset \in Int /\ now * FPM \in Nat
    BY OffsetType DEF TimingInv
  <1>6. at - now * FPM <= Offset /\ at - now * FPM \in Int
    BY <1>4, <1>5 DEF Offset, TimingInv, LoopTypes
  <1>7. measured <= top /\ measured \in Int /\ top \in Int
    BY <1>5, <1>6, Constants, ScaleMono
  <1>8. sched'.have_origin /\ sched'.origin = IF sched.have_origin
                   THEN sched.origin + (measured - sched.origin) \div Smooth
                   ELSE measured
    BY <1>4 DEF Measured
  <1> HIDE DEF measured, top
  <1>9. sched'.origin <= top
    <2>1. CASE sched.have_origin
      <3>1. sched.origin \in Int /\ sched.origin <= top
        BY <2>1 DEF OriginHeld, TimingInv, LoopTypes, top
      <3>2. sched.origin + (measured - sched.origin) \div Smooth <= top
        BY <3>1, <1>7, Smoothed
      <3> QED
        BY <3>2, <2>1, <1>8
    <2>2. CASE ~sched.have_origin
      BY <2>2, <1>7, <1>8
    <2> QED
      BY <2>1, <2>2
  <1>10. OriginHeld'
    BY <1>1, <1>8, <1>9 DEF OriginHeld, top
  <1> QED
    BY <1>1, <1>2, <1>10

LEMMA FillWaits ==
  ASSUME TimingInv, WaitInv, Fill
  PROVE  WaitInv'
  <1> USE DEF WaitInv
  <1> SUFFICES ASSUME NEW n, n = Taken(rendered')
               PROVE  WaitInv'
    OBVIOUS
  <1>1. /\ Offset' = Offset /\ dry' = dry /\ now' = now
        /\ rendered' = rendered + Block
        /\ heard' = {[msg |-> queue[i], at |-> rendered] : i \in 1 .. n}
        /\ queue' = SubSeq(queue, n + 1, Len(queue))
    BY DEF Offset, Fill
  <1>2. queue \in Seq([when : Nat, air : Nat])
    BY DEF QueueHeld
  <1>3. /\ n \in 0 .. Len(queue)
        /\ n < Len(queue) => ~Due(sched, queue[n + 1].when, rendered')
    BY <1>2, TakenAll
  <1>4. Offset \in Int /\ rendered \in Nat /\ rendered' \in Nat
    BY <1>1, OffsetType, Constants DEF TimingInv, LoopTypes
  <1>5. ASSUME n < Len(queue)
        PROVE  (queue[n + 1].when + Latency) * FPM + Offset >= rendered'
    <2>1. n + 1 \in 1 .. Len(queue)
      BY <1>2, <1>3, <1>5
    <2>3. queue[n + 1].when \in Nat /\ ~Due(sched, queue[n + 1].when, rendered')
      BY <2>1, <1>3, <1>5, Queued
    <2>2. sched.origin \in Int /\ sched.origin <= Sub * Offset
      BY DEF TimingInv, LoopTypes, OriginHeld, Fill
    <2>4. ~(DueAt(sched, queue[n + 1].when) <= rendered')
      BY <2>3 DEF Due
    <2>5. (queue[n + 1].when + Latency) * FPM + Offset > rendered'
      BY <2>2, <2>3, <2>4, <1>4, NotDue
    <2>6. (queue[n + 1].when + Latency) * FPM \in Nat
      BY <2>3, Constants
    <2> QED
      BY <2>5, <2>6, <1>4
  <1>6. /\ queue' \in Seq([when : Nat, air : Nat])
        /\ Len(queue') = Len(queue) - n /\ Len(queue) \in Nat
        /\ \A i \in 1 .. Len(queue') : /\ n + i \in 1 .. Len(queue)
                                       /\ queue'[i] = queue[n + i]
    <2> DEFINE M == [when : Nat, air : Nat]
    <2>1. queue \in Seq(M)
      BY <1>2
    <2> HIDE DEF M
    <2>2. \A r : r = SubSeq(queue, n + 1, Len(queue)) =>
            /\ r \in Seq(M) /\ Len(r) = Len(queue) - n /\ Len(queue) \in Nat
            /\ \A i \in 1 .. Len(r) : n + i \in 1 .. Len(queue) /\ r[i] = queue[n + i]
      BY <2>1, <1>3, Rest
    <2> QED
      BY <2>2, <1>1, Zenon DEF M
  <1>7. ASSUME NEW i \in 1 .. Len(queue')
        PROVE  (queue'[i].when + Latency) * FPM + Offset >= rendered'
    <2>1. /\ n < Len(queue) /\ n + 1 \in 1 .. Len(queue) /\ n + 1 <= n + i
          /\ n + i \in 1 .. Len(queue) /\ queue'[i] = queue[n + i]
      BY <1>3, <1>6, <1>7
    <2>2. queue[n + 1].when <= queue[n + i].when
      BY <2>1 DEF QueueHeld
    <2>3. queue[n + 1].when \in Nat /\ queue[n + i].when \in Nat
      BY <2>1, Queued
    <2> QED
      BY <1>4, <1>5, <2>1, <2>2, <2>3, LaterStill
  <1>8. QueueHeld'
    <2>1. ASSUME NEW i \in 1 .. Len(queue')
          PROVE  queue'[i].when <= now /\ Stamped(queue'[i])
      BY <1>6 DEF QueueHeld
    <2>2. ASSUME NEW i \in 1 .. Len(queue'), NEW j \in 1 .. Len(queue'), i <= j
          PROVE  queue'[i].when <= queue'[j].when
      <3>1. n + i <= n + j
        BY <2>2, <1>3
      <3> QED
        BY <3>1, <1>6 DEF QueueHeld
    <2> QED
      BY <1>1, <1>6, <1>7, <2>1, <2>2 DEF QueueHeld, Stamped
  <1>9. HeardHeld'
    <2>1. ASSUME NEW h \in heard'
          PROVE  /\ h.msg \in [when : Nat, air : Nat] /\ h.at \in Nat
                 /\ Stamped(h.msg)
                 /\ (h.msg.when + Latency) * FPM + Offset >= h.at
      <3>1. PICK i \in 1 .. n : h = [msg |-> queue[i], at |-> rendered]
        BY <1>1
      <3>2. i \in 1 .. Len(queue)
        BY <1>3, <1>6
      <3>3. h.msg = queue[i] /\ h.at = rendered
        BY <3>1
      <3>4. queue[i] \in [when : Nat, air : Nat]
        BY <3>2, Queued
      <3>5. Stamped(queue[i]) /\ (queue[i].when + Latency) * FPM + Offset >= rendered
        BY <3>2 DEF QueueHeld
      <3> QED
        BY <3>3, <3>4, <3>5, <1>4
    <2> QED
      BY <1>1, <2>1 DEF HeardHeld, Stamped
  <1>10. OriginHeld'
    BY <1>1 DEF OriginHeld, Fill
  <1> QED
    BY <1>1, <1>8, <1>9, <1>10

LEMMA RestWaits ==
  ASSUME TimingInv, WaitInv, Skip \/ EndScan \/ Wake \/ UNCHANGED timingVars
  PROVE  WaitInv'
  <1> USE DEF WaitInv
  <1>1. UNCHANGED <<now, played, queue, sched, rendered, heard, dry>>
    BY DEF Skip, EndScan, Wake, timingVars
  <1>2. Offset' = Offset
    BY <1>1 DEF Offset
  <1>3. QueueHeld' /\ HeardHeld'
    BY <1>1, <1>2, WaitKept DEF TimingInv, LoopTypes
  <1>4. OriginHeld'
    BY <1>1, <1>2 DEF OriginHeld, Skip, EndScan, Wake, timingVars, loopVars
  <1> QED
    BY <1>1, <1>3, <1>4

LEMMA Waits ==
  ASSUME "bytes" \notin Readings, MaxLag * FPM < Wrap, NBuf * Block < Wrap,
         2 * Block <= Latency * FPM
  PROVE  TimingSpec => [](TimingInv /\ WaitInv)
  <1>1. TimingInit => TimingInv /\ WaitInv
    BY TimingStarts, WaitStarts
  <1>2. TimingInv /\ [TimingNext]_timingVars => TimingInv'
    BY TickKeeps, FillKeeps, MeasureKeeps, RestKeeps DEF TimingNext
  <1>3. TimingInv /\ WaitInv /\ [TimingNext]_timingVars => WaitInv'
    BY TickWaits, ArriveWaits, FillWaits, MeasureWaits, RestWaits DEF TimingNext
  <1> QED
    BY <1>1, <1>2, <1>3, PTL DEF TimingSpec

(* No message is left waiting past its frame but for the time the device stood
   still, for any rate, block and latency of two blocks or more, whatever way
   of telling its place the device has: the loop renders no block before it has
   taken all that is due by the block's end. *)
THEOREM NeverOverdue ==
  ASSUME "bytes" \notin Readings, MaxLag * FPM < Wrap, NBuf * Block < Wrap,
         2 * Block <= Latency * FPM
  PROVE  TimingSpec => []NoneOverdue
  <1>1. ASSUME TimingInv, WaitInv, NEW i \in 1 .. Len(queue)
        PROVE  Ideal(queue[i]) + dry >= rendered
    <2>1. /\ queue[i].when \in Nat /\ queue[i].air \in Nat /\ Stamped(queue[i])
          /\ (queue[i].when + Latency) * FPM + Offset >= rendered
      BY <1>1, Queued DEF WaitInv, QueueHeld
    <2>2. Offset \in Int /\ dry \in Nat /\ rendered \in Nat
      BY <1>1, OffsetType DEF TimingInv, LoopTypes, WaitInv
    <2> QED
      BY <2>1, <2>2, OnTheAir
  <1>2. TimingInv /\ WaitInv => NoneOverdue
    BY <1>1 DEF NoneOverdue
  <1> QED
    BY <1>2, Waits, PTL

(* The late half of HeardOnTime. *)
LEMMA NeverLate ==
  ASSUME TimingInv, WaitInv, NEW h \in heard
  PROVE  h.at <= Ideal(h.msg) + dry
  <1>1. /\ h.msg.when \in Nat /\ h.msg.air \in Nat /\ Stamped(h.msg)
        /\ (h.msg.when + Latency) * FPM + Offset >= h.at /\ h.at \in Nat
    BY DEF WaitInv, HeardHeld
  <1>2. Offset \in Int /\ dry \in Nat
    BY OffsetType DEF TimingInv, WaitInv
  <1> QED
    BY <1>1, <1>2, OnTheAir

-----------------------------------------------------------------------------
(* How early a message may be. *)

(* Each buffer written holds a block of its own. *)
Laid ==
  /\ \A i \in Bufs : out[i] # 0 => \E k \in Nat : out[i] = rendered - k * Block
  /\ \A i, j \in Bufs : out[i] = out[j] /\ out[i] # 0 => i = j

(* A buffer the loop has been at was busy then: what has been played of the
   blocks that it found or left in them was played since. *)
StillAhead(i, ms) == out[i] + ms * FPM > played

Visited ==
  /\ pc = "scan" => \A i \in 0 .. b - 1 : StillAhead(i, lag)
  /\ pc = "wait" \/ (pc = "top" /\ rendered # 0) => \A i \in Bufs : StillAhead(i, lag + 1)

(* The origin is behind the device by no more than that. *)
OriginNear == sched.have_origin => sched.origin >= Sub * (Offset - dry - Behind)

QueueAired == \A i \in 1 .. Len(queue) : queue[i].air <= played

(* The early half of HeardOnTime. *)
Near(h) ==
  \/ h.at >= Ideal(h.msg) - Block - dry - Behind
  \/ h.at >= h.msg.air /\ dry > Block + NBuf * Block - Latency * FPM

HeardNear == \A h \in heard : Near(h)

EarlyInv == Laid /\ Visited /\ OriginNear /\ QueueAired /\ HeardNear

LEMMA BehindType == Behind \in Nat /\ NBuf * Block \in Nat /\ Latency * FPM \in Nat
  <1>1. (MaxLag + 1) * FPM \in Nat
    BY Constants
  <1> QED
    BY <1>1, Constants DEF Behind

LEMMA SmoothedUp ==
  ASSUME NEW o \in Int, NEW m \in Int, NEW u \in Int, u <= o, u <= m
  PROVE  u <= o + (m - o) \div Smooth
  <1>1. \A x \in Int, d \in Nat \ {0} :
          /\ x \div d \in Int
          /\ x >= 0 => x \div d >= 0
          /\ x <= 0 => x \div d >= x
    OBVIOUS
  <1>2. m - o \in Int /\ Smooth \in Nat \ {0}
    BY Constants
  <1> DEFINE e == (m - o) \div Smooth
  <1>3. e \in Int /\ (m >= o => e >= 0) /\ (m <= o => e >= m - o)
    BY <1>1, <1>2
  <1> HIDE DEF e
  <1> QED
    BY <1>3 DEF e

(* A message that is due belongs to a frame before the block's end. *)
LEMMA DueBefore ==
  ASSUME NEW s, NEW w \in Nat, NEW until \in Nat, NEW k \in Int,
         s.origin \in Int, s.origin >= Sub * k, DueAt(s, w) <= until
  PROVE  (w + Latency) * FPM + k <= until
  <1> DEFINE x == (w + Latency) * FPM
             at == s.origin + Sub * (w + Latency) * FPM
  <1>1. x \in Nat /\ Sub \in Nat \ {0}
    BY Constants
  <1>2. Sub * (w + Latency) * FPM = Sub * x
    BY Constants
  <1>3. Sub * (x + k) = Sub * x + Sub * k
    BY <1>1
  <1>4. at \in Int /\ at >= Sub * (x + k)
    <2>1. Sub * x \in Int /\ Sub * k \in Int
      BY <1>1
    <2> HIDE DEF x
    <2> QED
      BY <2>1, <1>2, <1>3
  <1>5. DueAt(s, w) = IF at > 0 THEN at \div Sub ELSE 0
    BY DEF DueAt
  <1>6. at < Sub * (until + 1)
    <2>1. Sub * (until + 1) = Sub * until + Sub /\ Sub * until \in Nat
      BY <1>1
    <2>2. CASE at > 0
      <3> HIDE DEF at
      <3>1. at \in Nat
        BY <2>2, <1>4
      <3>2. /\ at \div Sub \in Nat /\ at % Sub \in 0 .. Sub - 1
            /\ at = Sub * (at \div Sub) + (at % Sub)
        BY <3>1, <1>1, Division
      <3>3. at \div Sub <= until
        BY <2>2, <1>5
      <3>4. Sub * (at \div Sub) <= Sub * until /\ Sub * (at \div Sub) \in Nat
        BY <3>2, <3>3, <1>1, MulMono
      <3> DEFINE q == Sub * (at \div Sub)  r == at % Sub  z == Sub * until
      <3>5. q \in Nat /\ r \in 0 .. Sub - 1 /\ z \in Nat /\ at = q + r /\ q <= z
            /\ Sub * (until + 1) = z + Sub
        BY <3>2, <3>4, <2>1
      <3> HIDE DEF q, r, z
      <3> QED
        BY <3>5, <1>1
    <2>3. CASE at <= 0
      <3> HIDE DEF at
      <3> QED
        BY <2>1, <2>3, <1>1, <1>4
    <2> QED
      BY <2>2, <2>3, <1>4
  <1>7. ~(x + k >= until + 1)
    <2> SUFFICES ASSUME x + k >= until + 1 PROVE FALSE
      OBVIOUS
    <2>1. Sub * (until + 1) <= Sub * (x + k)
      <3>1. until + 1 \in Int /\ x + k \in Int
        BY <1>1
      <3> HIDE DEF x
      <3> QED
        BY <3>1, <1>1, ScaleMono
    <2> DEFINE y == Sub * (x + k)  z == Sub * (until + 1)
    <2>2. y \in Int /\ z \in Int /\ z <= y /\ at < z /\ y <= at
      BY <2>1, <1>1, <1>4, <1>6
    <2> HIDE DEF y, z, at
    <2> QED
      BY <2>2, <1>4
  <1> QED
    BY <1>1, <1>7

(* Of so many blocks apart one lies as deep as all of them. *)
LEMMA Deepest ==
  ASSUME LoopTypes, Laid, \A i \in Bufs : out[i] # 0
  PROVE  \E i \in Bufs : out[i] <= rendered - (NBuf - 1) * Block
  <1> SUFFICES ASSUME \A i \in Bufs : ~(out[i] <= rendered - (NBuf - 1) * Block)
               PROVE  FALSE
    OBVIOUS
  <1> DEFINE T == 0 .. NBuf - 2
             f == [i \in Bufs |-> CHOOSE k \in Nat : out[i] = rendered - k * Block]
  <1>1. ASSUME NEW i \in Bufs
        PROVE  f[i] \in T /\ out[i] = rendered - f[i] * Block
    <2>1. \E k \in Nat : out[i] = rendered - k * Block
      BY DEF Laid
    <2>2. PICK k \in Nat : f[i] = k /\ out[i] = rendered - k * Block
      BY <2>1
    <2>3. ~(NBuf - 1 <= k)
      <3> SUFFICES ASSUME NBuf - 1 <= k PROVE FALSE
        OBVIOUS
      <3>1. Block * (NBuf - 1) <= Block * k
        BY MulMono, Constants
      <3>2. Block * (NBuf - 1) = (NBuf - 1) * Block /\ Block * k = k * Block
            /\ (NBuf - 1) * Block \in Nat /\ k * Block \in Nat
        BY Constants
      <3>3. out[i] \in Nat /\ ~(out[i] <= rendered - (NBuf - 1) * Block)
        BY DEF LoopTypes
      <3> DEFINE y == (NBuf - 1) * Block  z == k * Block
      <3>4. y \in Nat /\ z \in Nat /\ y <= z /\ out[i] = rendered - z
            /\ ~(out[i] <= rendered - y)
        BY <3>1, <3>2, <3>3, <2>2
      <3> HIDE DEF y, z
      <3> QED
        BY <3>4 DEF LoopTypes
    <2>4. k \in T
      BY <2>3, Constants
    <2> HIDE DEF f, T
    <2> QED
      BY <2>2, <2>4
  <1>2. IsFiniteSet(Bufs) /\ Cardinality(Bufs) = NBuf
    BY FS_Interval, Constants DEF Bufs
  <1>3. IsFiniteSet(T) /\ Cardinality(T) = NBuf - 1
    BY FS_Interval, Constants
  <1>4. f \in [Bufs -> T]
    BY <1>1
  <1>5. PICK x, y \in Bufs : x # y /\ f[x] = f[y]
    <2> HIDE DEF f, T
    <2> QED
      BY <1>2, <1>3, <1>4, FS_PigeonHole, Constants
  <1>6. out[x] = out[y]
    BY <1>1, <1>5
  <1> QED
    BY <1>5, <1>6 DEF Laid

(* The guess of a whole buffer is short of the truth by less than a block and
   what was played while the loop was kept from running. *)
LEMMA GuessNear ==
  ASSUME TimingInv, Laid, Visited, pc = "top", reading = "none"
  PROVE  Played(FALSE, 0, rendered) >= played - Behind
  <1> DEFINE at == Played(FALSE, 0, rendered)
             l == (lag + 1) * FPM
             h == NBuf * Block
  <1>1. /\ played \in Nat /\ rendered \in Nat /\ lag \in 0 .. MaxLag /\ played <= rendered
        /\ \A i \in Bufs : out[i] \in Nat
    BY DEF TimingInv, LoopTypes, Buffered
  <1>2. l \in Nat /\ h \in Nat /\ h = (NBuf - 1) * Block + Block /\ (NBuf - 1) * Block \in Nat
    BY <1>1, Constants
  <1>3. at \in Nat /\ at >= rendered - h
    BY <1>1, <1>2 DEF Played
  <1>4. Behind >= Block + l - 1 /\ Behind \in Nat
    <2>1. FPM * (lag + 1) <= FPM * (MaxLag + 1)
      BY <1>1, Constants, MulMono
    <2>2. l <= (MaxLag + 1) * FPM /\ (MaxLag + 1) * FPM \in Nat
      BY <2>1, <1>1, Constants
    <2>3. Behind = Block + (MaxLag + 1) * FPM - 1
      BY DEF Behind
    <2> HIDE DEF l
    <2> QED
      BY <2>2, <2>3, <1>2, Constants
  <1> SUFFICES at >= played - Behind
    OBVIOUS
  <1> HIDE DEF at
  <1>5. CASE rendered = 0
    BY <1>5, <1>1, <1>3, <1>4
  <1>6. CASE rendered # 0
    <2>1. \A i \in Bufs : out[i] + l > played
      BY <1>6 DEF Visited, StillAhead
    <2> HIDE DEF l, h
    <2>2. CASE \E i \in Bufs : out[i] = 0
      <3>1. l > played
        BY <2>1, <2>2, <1>1, <1>2
      <3> QED
        BY <3>1, <1>1, <1>2, <1>3, <1>4, Constants
    <2>3. CASE \A i \in Bufs : out[i] # 0
      <3>1. PICK i \in Bufs : out[i] <= rendered - (NBuf - 1) * Block
        BY <2>3, Deepest DEF TimingInv
      <3> DEFINE y == (NBuf - 1) * Block
      <3>2. y \in Nat /\ h = y + Block /\ out[i] <= rendered - y /\ out[i] + l > played
            /\ out[i] \in Nat
        BY <3>1, <2>1, <1>1, <1>2
      <3> HIDE DEF y
      <3> QED
        BY <3>2, <1>1, <1>2, <1>3, <1>4, Constants
    <2> QED
      BY <2>2, <2>3
  <1> QED
    BY <1>5, <1>6

LEMMA EarlyStarts == TimingInit => EarlyInv
  <1> SUFFICES ASSUME TimingInit PROVE EarlyInv
    OBVIOUS
  <1>1. Laid
    BY DEF TimingInit, Laid
  <1>2. Visited
    BY DEF TimingInit, Visited
  <1> QED
    BY <1>1, <1>2 DEF TimingInit, NewSched, OriginNear, QueueAired, HeardNear, EarlyInv

LEMMA ScaledDown ==
  ASSUME NEW o \in Int, NEW k \in Int, NEW m \in Int, m <= k, o >= Sub * k
  PROVE  o >= Sub * m
  <1> DEFINE y == Sub * k  z == Sub * m
  <1>1. y \in Int /\ z \in Int /\ z <= y /\ o >= y
    BY Constants, ScaleMono
  <1> HIDE DEF y, z
  <1> QED
    BY <1>1 DEF z

(* What a longer standing still takes nothing from. *)
LEMMA EarlyKept ==
  ASSUME TimingInv, WaitInv, EarlyInv,
         UNCHANGED <<reading, sched, queue, heard, Offset>>,
         dry' \in Nat, dry <= dry', played' \in Nat, played <= played'
  PROVE  OriginNear' /\ QueueAired' /\ HeardNear'
  <1>1. Behind' = Behind /\ Behind \in Nat /\ Offset \in Int /\ dry \in Nat
    BY BehindType, OffsetType DEF Behind, TimingInv, WaitInv
  <1>2. OriginNear'
    <2> SUFFICES ASSUME sched.have_origin
                 PROVE  sched.origin >= Sub * (Offset - dry' - Behind)
      BY <1>1 DEF OriginNear
    <2>1. sched.origin >= Sub * (Offset - dry - Behind) /\ sched.origin \in Int
      BY DEF EarlyInv, OriginNear, TimingInv, LoopTypes
    <2> DEFINE k == Offset - dry - Behind  m == Offset - dry' - Behind
    <2>2. k \in Int /\ m \in Int /\ m <= k
      <3>1. \A o, g, d, e \in Int : d <= e => /\ o - d - g \in Int /\ o - e - g \in Int
                                           /\ o - e - g <= o - d - g
        OBVIOUS
      <3>2. Offset \in Int /\ Behind \in Int /\ dry \in Int /\ dry' \in Int /\ dry <= dry'
        BY <1>1
      <3> QED
        BY <3>1, <3>2
    <2> HIDE DEF k, m
    <2> QED
      BY <2>1, <2>2, ScaledDown DEF k, m
  <1>3. QueueAired'
    <2>1. ASSUME NEW i \in 1 .. Len(queue)
          PROVE  queue[i].air <= played'
      <3>1. queue[i].air \in Nat /\ queue[i].air <= played /\ played \in Nat
        BY Queued DEF EarlyInv, QueueAired, WaitInv, TimingInv, LoopTypes
      <3> QED
        BY <3>1
    <2> QED
      BY <2>1 DEF QueueAired
  <1>4. HeardNear'
    <2>1. ASSUME NEW e \in heard
          PROVE  Near(e)'
      <3>1. e.at \in Nat /\ Ideal(e.msg) \in Nat /\ Near(e)
        BY BehindType DEF EarlyInv, HeardNear, WaitInv, HeardHeld, Ideal
      <3>2. /\ Block + NBuf * Block - Latency * FPM \in Int /\ Block \in Nat
            /\ Ideal(e.msg)' = Ideal(e.msg)
        BY BehindType, Constants DEF Ideal
      <3> QED
        BY <1>1, <3>1, <3>2 DEF Near
    <2> QED
      BY <2>1 DEF HeardNear
  <1> QED
    BY <1>2, <1>3, <1>4

LEMMA TickEarly ==
  ASSUME TimingInv, WaitInv, EarlyInv, Tick
  PROVE  EarlyInv'
  <1> USE DEF TimingInv
  <1>1. /\ played \in Nat /\ played' \in Nat /\ played <= played' /\ played' <= played + FPM
        /\ dry \in Nat /\ dry' \in Nat /\ dry <= dry'
    BY Constants DEF LoopTypes, Tick, Buffered, WaitInv
  <1>2. Offset' = Offset
    BY TickOffset DEF WaitInv
  <1>3. OriginNear' /\ QueueAired' /\ HeardNear'
    BY <1>1, <1>2, EarlyKept DEF Tick
  <1>4. Laid'
    BY DEF EarlyInv, Laid, Tick, Bufs
  <1>5. lag \in Nat /\ \A i \in Bufs : out[i] \in Nat
    BY DEF LoopTypes
  <1>6. ASSUME NEW i \in Bufs, NEW k \in Nat, NEW l \in Nat, k < l, StillAhead(i, k)
        PROVE  out'[i] + l * FPM > played'
    <2>1. l * FPM >= k * FPM + FPM /\ l * FPM \in Nat /\ k * FPM \in Nat
      <3>1. FPM * (k + 1) <= FPM * l
        BY <1>6, Constants, MulMono
      <3> QED
        BY <3>1, Constants
    <2>2. out'[i] = out[i] /\ out[i] \in Nat /\ out[i] + k * FPM > played
      BY <1>5, <1>6 DEF StillAhead, Tick
    <2> HIDE DEF StillAhead
    <2>3. out'[i] + l * FPM > played'
      <3> DEFINE y == k * FPM  z == l * FPM
      <3>1. y \in Nat /\ z \in Nat /\ z >= y + FPM /\ out[i] + y > played
        BY <2>1, <2>2
      <3> HIDE DEF y, z
      <3>2. out[i] + z > played'
        BY <3>1, <2>2, <1>1, Constants
      <3> QED
        BY <3>2, <2>2 DEF z
    <2> QED
      BY <2>3
  <1>7. Visited'
    <2>1. CASE Asleep
      <3>1. lag' = 0 /\ pc = "wait" /\ pc' = "wait"
        BY <2>1 DEF Tick, Asleep, loopVars
      <3>2. ASSUME NEW i \in Bufs
            PROVE  StillAhead(i, lag + 1)'
        <4>1. StillAhead(i, 0)
          BY <2>1, <1>1, <1>5, Constants DEF Asleep, IsFree, StillAhead
        <4>2. out'[i] + 1 * FPM > played'
          BY <4>1, <1>6
        <4>3. lag' + 1 = 1
          BY <3>1
        <4> QED
          BY <4>2, <4>3 DEF StillAhead
      <3> QED
        BY <3>1, <3>2 DEF Visited, Bufs
    <2>2. CASE ~Asleep
      <3>1. lag' = lag + 1 /\ UNCHANGED <<pc, b, rendered>>
        BY <2>2 DEF Tick, loopVars
      <3>2. ASSUME NEW i \in Bufs, StillAhead(i, lag)
            PROVE  StillAhead(i, lag)'
        <4>1. out'[i] + (lag + 1) * FPM > played'
          BY <3>2, <1>5, <1>6
        <4> QED
          BY <4>1, <3>1 DEF StillAhead
      <3>3. ASSUME NEW i \in Bufs, StillAhead(i, lag + 1)
            PROVE  StillAhead(i, lag + 1)'
        <4>1. out'[i] + (lag + 2) * FPM > played'
          BY <3>3, <1>5, <1>6
        <4>2. lag' + 1 = lag + 2
          BY <3>1, <1>5
        <4> QED
          BY <4>1, <4>2 DEF StillAhead
      <3>4. pc = "scan" => 0 .. b - 1 \subseteq Bufs
        BY Constants DEF LoopTypes, Bufs
      <3> QED
        BY <3>1, <3>2, <3>3, <3>4 DEF EarlyInv, Visited, Bufs
    <2> QED
      BY <2>1, <2>2
  <1> QED
    BY <1>3, <1>4, <1>7 DEF EarlyInv

LEMMA ArriveEarly ==
  ASSUME TimingInv, WaitInv, EarlyInv, Arrive
  PROVE  EarlyInv'
  <1> USE DEF TimingInv, EarlyInv
  <1> DEFINE new == [when |-> now, air |-> played]
  <1>1. /\ UNCHANGED <<reading, now, played, out, sched, rendered, pc, b, lag, heard, dry>>
        /\ queue' = Append(queue, new)
    BY DEF Arrive, loopVars
  <1>2. Laid' /\ Visited'
    BY <1>1 DEF Laid, Visited, StillAhead, Bufs
  <1>3. Offset' = Offset /\ Behind' = Behind
    BY <1>1 DEF Offset, Behind
  <1>4. OriginNear' /\ HeardNear'
    BY <1>1, <1>3 DEF OriginNear, HeardNear, Near
  <1>5. QueueAired'
    <2>1. queue \in Seq([when : Nat, air : Nat]) /\ new.air = played /\ played \in Nat
      BY DEF WaitInv, QueueHeld, LoopTypes
    <2> HIDE DEF new
    <2>2. /\ Len(queue') = Len(queue) + 1 /\ Len(queue) \in Nat
          /\ \A i \in 1 .. Len(queue) : queue'[i] = queue[i]
          /\ queue'[Len(queue) + 1] = new
      BY <1>1, <2>1
    <2>3. ASSUME NEW i \in 1 .. Len(queue')
          PROVE  queue'[i].air <= played
      <3>1. CASE i \in 1 .. Len(queue)
        BY <3>1, <2>2 DEF QueueAired
      <3>2. CASE i = Len(queue) + 1
        BY <3>2, <2>1, <2>2
      <3> QED
        BY <3>1, <3>2, <2>2
    <2> QED
      BY <2>3, <1>1 DEF QueueAired
  <1> QED
    BY <1>2, <1>4, <1>5

LEMMA MeasureEarly ==
  ASSUME "bytes" \notin Readings, MaxLag * FPM < Wrap, NBuf * Block < Wrap,
         TimingInv, WaitInv, EarlyInv, Measure
  PROVE  EarlyInv'
  <1> USE DEF EarlyInv
  <1>1. /\ UNCHANGED <<reading, now, played, out, rendered, queue, heard, dry>>
        /\ pc = "top" /\ pc' = "scan" /\ b' = 0
    BY DEF Measure
  <1>2. Laid' /\ Visited' /\ QueueAired'
    BY <1>1 DEF Laid, Visited, QueueAired, Bufs
  <1>3. Offset' = Offset /\ Behind' = Behind
    BY <1>1 DEF Offset, Behind
  <1>4. HeardNear'
    BY <1>1, <1>3 DEF HeardNear, Near
  <1>5. /\ Offset \in Int /\ now * FPM \in Nat /\ Behind \in Nat /\ dry \in Nat
        /\ played \in Nat /\ sched.origin \in Int
    BY OffsetType, BehindType DEF WaitInv, TimingInv, LoopTypes
  <1> DEFINE k == Offset - dry - Behind
  <1>6. PICK s, at :
          /\ sched' = Measured(s, at, now)
          /\ at = IF reading = "none" THEN Played(FALSE, 0, rendered) ELSE played
          /\ at \in Int
          /\ s.origin = sched.origin /\ s.have_origin = sched.have_origin
          /\ s \in [origin : Int, have_origin : BOOLEAN, pos_last : 0 .. Wrap - 1,
                    pos_total : Nat, have_pos : BOOLEAN]
    BY MeasuredWith
  <1>7. at >= played - Behind
    <2>1. CASE reading = "none"
      BY <2>1, <1>1, <1>6, GuessNear
    <2>2. CASE reading # "none"
      BY <2>2, <1>5, <1>6
    <2> QED
      BY <2>1, <2>2
  <1>8. at - now * FPM >= k /\ at - now * FPM \in Int /\ k \in Int
    <2> DEFINE n == now * FPM
    <2>1. Offset = played + dry - n /\ n \in Nat
      BY <1>5 DEF Offset
    <2> HIDE DEF n
    <2>2. \A u, v, p, d, g, o \in Int : o = p + d - v /\ u >= p - g =>
            u - v >= o - d - g /\ u - v \in Int /\ o - d - g \in Int
      OBVIOUS
    <2>3. at \in Int /\ at >= played - Behind
      BY <1>6, <1>7
    <2>4. /\ n \in Int /\ played \in Int /\ dry \in Int /\ Behind \in Int
          /\ Offset \in Int
      BY <2>1, <1>5
    <2>5. at - n >= Offset - dry - Behind /\ at - n \in Int /\ Offset - dry - Behind \in Int
      BY <2>1, <2>2, <2>3, <2>4
    <2> QED
      BY <2>5 DEF n
  <1> DEFINE measured == Sub * (at - now * FPM)
             low == Sub * k
  <1> HIDE DEF k
  <1>9. measured >= low /\ measured \in Int /\ low \in Int
    BY <1>8, Constants, ScaleMono
  <1>10. sched'.have_origin /\ sched'.origin = IF sched.have_origin
                   THEN sched.origin + (measured - sched.origin) \div Smooth
                   ELSE measured
    BY <1>6 DEF Measured
  <1> HIDE DEF measured, low
  <1>11. sched'.origin >= low
    <2>1. CASE sched.have_origin
      <3>1. sched.origin >= low
        BY <2>1 DEF OriginNear, low, k
      <3>2. low <= sched.origin + (measured - sched.origin) \div Smooth
        BY <3>1, <1>5, <1>9, SmoothedUp
      <3>3. sched'.origin = sched.origin + (measured - sched.origin) \div Smooth
        BY <2>1, <1>10
      <3>4. \A x \in Int, d \in Nat \ {0} : x \div d \in Int
        OBVIOUS
      <3>5. (measured - sched.origin) \div Smooth \in Int
        BY <3>4, <1>5, <1>9, Constants
      <3> QED
        BY <3>2, <3>3, <3>5, <1>5, <1>9
    <2>2. CASE ~sched.have_origin
      BY <2>2, <1>9, <1>10
    <2> QED
      BY <2>1, <2>2
  <1>12. OriginNear'
    <2>1. sched'.origin >= Sub * (Offset - dry - Behind)
      BY <1>11 DEF low, k
    <2> QED
      BY <2>1, <1>1, <1>3 DEF OriginNear
  <1> QED
    BY <1>2, <1>4, <1>12

(* What a block takes was due by its end or is let through. *)
LEMMA TakenNear ==
  ASSUME TimingInv, WaitInv, EarlyInv, Fill, NEW i \in 1 .. Len(queue),
         Due(sched, queue[i].when, rendered')
  PROVE  Near([msg |-> queue[i], at |-> rendered])
  <1> DEFINE m == queue[i]
             x == (m.when + Latency) * FPM
  <1>1. /\ m \in [when : Nat, air : Nat] /\ m.when \in Nat /\ m.air \in Nat
        /\ Stamped(m) /\ m.air <= played
    BY Queued DEF WaitInv, QueueHeld, EarlyInv, QueueAired
  <1>2. /\ Offset \in Int /\ dry \in Nat /\ Behind \in Nat
        /\ played \in Nat /\ rendered \in Nat /\ played <= rendered
        /\ rendered' = rendered + Block /\ Block \in Nat \ {0}
        /\ sched.origin \in Int
    BY OffsetType, BehindType, Constants DEF WaitInv, TimingInv, LoopTypes, Buffered, Fill
  <1>3. /\ sched.origin <= Sub * Offset
        /\ sched.origin >= Sub * (Offset - dry - Behind)
    BY DEF WaitInv, OriginHeld, EarlyInv, OriginNear, Fill
  <1> DEFINE l == Latency * FPM
             h == NBuf * Block
             w == m.when * FPM
  <1>4. x = w + l /\ w \in Nat /\ l \in Nat /\ h \in Nat /\ Ideal(m) = m.air + l
    BY <1>1, InFrames, BehindType DEF Ideal
  <1>5. m.air <= w + Offset /\ w + Offset <= m.air + dry
    BY <1>1 DEF Stamped
  <1>6. rendered' \in Nat /\ rendered' + h \in Nat
    BY <1>2, <1>4
  <1> DEFINE e == [msg |-> m, at |-> rendered]
  <1>7. e.msg = m /\ e.at = rendered
    OBVIOUS
  <1>8. CASE DueAt(sched, m.when) <= rendered'
    <2>1. Offset - dry - Behind \in Int
      BY <1>2
    <2>2. x + (Offset - dry - Behind) <= rendered'
      <3> HIDE DEF m
      <3> QED
        BY <2>1, <1>1, <1>2, <1>3, <1>6, <1>8, DueBefore
    <2> HIDE DEF m, x, w, l
    <2>3. rendered >= m.air + l - Block - dry - Behind
      BY <2>2, <1>1, <1>2, <1>4, <1>5
    <2> HIDE DEF e
    <2>4. rendered >= Ideal(m) - Block - dry - Behind
      BY <2>3, <1>1, <1>2, <1>4
    <2>5. e.at >= Ideal(e.msg) - Block - dry - Behind
      BY <2>4, <1>7
    <2> QED
      BY <2>5 DEF Near, e, m
  <1>9. CASE ~(DueAt(sched, m.when) <= rendered')
    <2>1. ~(DueAt(sched, m.when) <= rendered' + h)
      <3>1. DueAt(sched, m.when) \in Int
        <4> DEFINE at == sched.origin + Sub * (m.when + Latency) * FPM
        <4>1. at \in Int
          BY <1>1, <1>2, Constants
        <4>2. \A y \in Int, d \in Nat \ {0} : y \div d \in Int
          OBVIOUS
        <4>3. DueAt(sched, m.when) = IF at > 0 THEN at \div Sub ELSE 0
          BY DEF DueAt
        <4> HIDE DEF at
        <4> QED
          BY <4>1, <4>2, <4>3, Constants
      <3>2. DueAt(sched, m.when) > rendered' + h
        BY <1>9 DEF Due
      <3> HIDE DEF m, h
      <3> QED
        BY <3>1, <3>2, <1>6
    <2>2. x + Offset > rendered' + h
      <3> HIDE DEF m, h
      <3> QED
        BY <2>1, <1>1, <1>2, <1>3, <1>6, NotDue
    <2> HIDE DEF m, x, w, l, h
    <2>3. rendered >= m.air /\ dry > Block + h - l
      BY <2>2, <1>1, <1>2, <1>4, <1>5
    <2> HIDE DEF e
    <2> QED
      BY <2>3, <1>7 DEF Near, e, m, h, l
  <1> QED
    BY <1>8, <1>9

LEMMA FillEarly ==
  ASSUME TimingInv, WaitInv, EarlyInv, Fill
  PROVE  EarlyInv'
  <1> SUFFICES ASSUME NEW n, n = Taken(rendered')
               PROVE  EarlyInv'
    OBVIOUS
  <1>1. /\ UNCHANGED <<reading, now, played, sched, pc, lag, dry>>
        /\ rendered' = rendered + Block /\ pc = "scan"
        /\ heard' = {[msg |-> queue[i], at |-> rendered] : i \in 1 .. n}
        /\ queue' = SubSeq(queue, n + 1, Len(queue))
        /\ out' = [out EXCEPT ![b] = rendered'] /\ b' = b + 1
    BY DEF Fill
  <1>2. queue \in Seq([when : Nat, air : Nat])
    BY DEF WaitInv, QueueHeld
  <1>3. /\ n \in 0 .. Len(queue)
        /\ \A i \in 1 .. n : Due(sched, queue[i].when, rendered')
    BY <1>2, TakenAll
  <1>4. Offset' = Offset /\ Behind' = Behind
    BY <1>1 DEF Offset, Behind
  <1>5. OriginNear'
    BY <1>1, <1>4 DEF EarlyInv, OriginNear
  <1>6. QueueAired'
    <2> DEFINE M == [when : Nat, air : Nat]
    <2>1. queue \in Seq(M)
      BY <1>2
    <2> HIDE DEF M
    <2>2. \A r : r = SubSeq(queue, n + 1, Len(queue)) =>
            \A i \in 1 .. Len(r) : n + i \in 1 .. Len(queue) /\ r[i] = queue[n + i]
      BY <2>1, <1>3, Rest
    <2>3. \A i \in 1 .. Len(queue') : n + i \in 1 .. Len(queue) /\ queue'[i] = queue[n + i]
      BY <2>2, <1>1, Zenon
    <2> QED
      BY <2>3, <1>1 DEF EarlyInv, QueueAired
  <1>7. HeardNear'
    <2>1. ASSUME NEW g \in heard'
          PROVE  Near(g)
      <3>1. PICK i \in 1 .. n : g = [msg |-> queue[i], at |-> rendered]
        BY <1>1
      <3>2. i \in 1 .. Len(queue) /\ Due(sched, queue[i].when, rendered')
        BY <1>2, <1>3
      <3> QED
        BY <3>1, <3>2, TakenNear
    <2> QED
      BY <2>1, <1>1, <1>4 DEF HeardNear, Near, Ideal
  <1>8. /\ b \in Bufs /\ rendered \in Nat /\ Block \in Nat \ {0} /\ played \in Nat
        /\ played <= rendered /\ \A i \in Bufs : out[i] \in Nat
        /\ \A i \in Bufs : out'[i] = IF i = b THEN rendered + Block ELSE out[i]
    BY <1>1, Constants DEF Fill, Bufs, TimingInv, LoopTypes, Buffered
  <1>9. Laid'
    <2>1. ASSUME NEW i \in Bufs, out[i] # 0
          PROVE  out[i] < rendered' /\ \E k \in Nat : out[i] = rendered' - k * Block
      <3>1. PICK k \in Nat : out[i] = rendered - k * Block
        BY <2>1 DEF EarlyInv, Laid
      <3>2. k * Block \in Nat /\ (k + 1) * Block = k * Block + Block /\ k + 1 \in Nat
        BY <1>8
      <3>3. out[i] = rendered' - (k + 1) * Block
        BY <3>1, <3>2, <1>1, <1>8
      <3>4. out[i] < rendered'
        BY <3>1, <3>2, <1>1, <1>8
      <3> QED
        BY <3>2, <3>3, <3>4
    <2>2. rendered' = rendered' - 0 * Block /\ rendered' = rendered + Block
      BY <1>1, <1>8
    <2>3. ASSUME NEW i \in Bufs, out'[i] # 0
          PROVE  \E k \in Nat : out'[i] = rendered' - k * Block
      BY <2>1, <2>2, <2>3, <1>8
    <2>4. ASSUME NEW i \in Bufs, NEW j \in Bufs, out'[i] = out'[j], out'[i] # 0
          PROVE  i = j
      <3>1. CASE i = b \/ j = b
        BY <3>1, <2>1, <2>2, <2>4, <1>8
      <3>2. CASE i # b /\ j # b
        BY <3>2, <2>4, <1>8 DEF EarlyInv, Laid
      <3> QED
        BY <3>1, <3>2
    <2> QED
      BY <2>3, <2>4 DEF Laid, Bufs
  <1>10. Visited'
    <2>1. lag \in 0 .. MaxLag /\ lag * FPM \in Nat /\ b \in Nat /\ b < NBuf
      BY <1>8, Constants DEF TimingInv, LoopTypes, Bufs
    <2>2. ASSUME NEW i \in 0 .. b
          PROVE  out'[i] + lag * FPM > played
      <3>1. i \in Bufs
        BY <2>1, Constants DEF Bufs
      <3>2. CASE i = b
        BY <3>1, <3>2, <2>1, <1>8
      <3>3. CASE i # b
        BY <3>1, <3>3, <2>1, <1>1, <1>8 DEF EarlyInv, Visited, StillAhead
      <3> QED
        BY <3>2, <3>3
    <2>3. 0 .. b' - 1 = 0 .. b
      BY <2>1, <1>1
    <2> QED
      BY <2>2, <2>3, <1>1 DEF Visited, StillAhead
  <1> QED
    BY <1>5, <1>6, <1>7, <1>9, <1>10 DEF EarlyInv

LEMMA RestEarly ==
  ASSUME TimingInv, WaitInv, EarlyInv, Skip \/ EndScan \/ Wake \/ UNCHANGED timingVars
  PROVE  EarlyInv'
  <1> USE DEF EarlyInv
  <1>1. UNCHANGED <<reading, now, played, out, queue, sched, rendered, lag, heard, dry>>
    BY DEF Skip, EndScan, Wake, timingVars
  <1>2. Offset' = Offset /\ Behind' = Behind
    BY <1>1 DEF Offset, Behind
  <1>3. OriginNear' /\ QueueAired' /\ HeardNear' /\ Laid'
    BY <1>1, <1>2 DEF OriginNear, QueueAired, HeardNear, Near, Laid, Bufs
  <1>4. /\ played \in Nat /\ lag \in Nat /\ \A i \in Bufs : out[i] \in Nat
        /\ lag * FPM \in Nat /\ (lag + 1) * FPM = lag * FPM + FPM /\ FPM \in Nat
    BY Constants DEF TimingInv, LoopTypes
  <1>5. CASE Skip
    <2>1. pc = "scan" /\ pc' = "scan" /\ b' = b + 1 /\ b \in Bufs /\ ~IsFree(b)
      BY <1>5, Constants DEF Skip, TimingInv, LoopTypes, Bufs
    <2>2. out[b] + lag * FPM > played
      BY <2>1, <1>4 DEF IsFree
    <2>3. \A i \in 0 .. b' - 1 : i = b \/ i \in 0 .. b - 1
      BY <2>1 DEF Bufs
    <2>4. ASSUME NEW i \in 0 .. b' - 1
          PROVE  out[i] + lag * FPM > played
      BY <2>1, <2>2, <2>3 DEF Visited, StillAhead
    <2>5. Visited'
      BY <2>1, <2>4, <1>1 DEF Visited, StillAhead
    <2> QED
      BY <2>5, <1>3
  <1>6. CASE EndScan
    <2>1. pc = "scan" /\ pc' # "scan" /\ b = NBuf
      BY <1>6 DEF EndScan
    <2>2. ASSUME NEW i \in Bufs
          PROVE  out[i] + (lag + 1) * FPM > played
      <3>1. i \in 0 .. b - 1
        BY <2>1 DEF Bufs
      <3>2. out[i] + lag * FPM > played
        BY <3>1, <2>1 DEF Visited, StillAhead
      <3> QED
        BY <3>2, <1>4
    <2>3. Visited'
      BY <2>1, <2>2, <1>1 DEF Visited, StillAhead, Bufs
    <2> QED
      BY <2>3, <1>3
  <1>7. CASE Wake
    <2>1. Visited'
      BY <1>7, <1>1 DEF Visited, StillAhead, Bufs, Wake
    <2> QED
      BY <2>1, <1>3
  <1>8. CASE UNCHANGED timingVars
    <2>1. Visited'
      BY <1>8, <1>1 DEF Visited, StillAhead, Bufs, timingVars, loopVars
    <2> QED
      BY <2>1, <1>3
  <1> QED
    BY <1>5, <1>6, <1>7, <1>8

(* A message is heard at most a block before the frame it belongs to and never
   after it, but for the time the device stood still and, where the device
   cannot say where it is playing, for how far its place may be guessed short;
   and while the device stood still for no longer than a block, and the buffers
   are deep enough for the latency, none is let through as it comes. For any
   rate, block, latency of two blocks or more, smoothing and run. *)
THEOREM TimelyHeard ==
  ASSUME "bytes" \notin Readings, MaxLag * FPM < Wrap, NBuf * Block < Wrap,
         2 * Block <= Latency * FPM
  PROVE  TimingSpec => []HeardOnTime
  <1>1. TimingInit => EarlyInv
    BY EarlyStarts
  <1>2. TimingInv /\ WaitInv /\ EarlyInv /\ [TimingNext]_timingVars => EarlyInv'
    BY TickEarly, ArriveEarly, FillEarly, MeasureEarly, RestEarly DEF TimingNext
  <1>3. TimingInv /\ WaitInv /\ EarlyInv => HeardOnTime
    BY NeverLate DEF EarlyInv, HeardNear, Near, HeardOnTime
  <1> QED
    BY <1>1, <1>2, <1>3, Waits, PTL DEF TimingSpec

=============================================================================
