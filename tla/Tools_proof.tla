----------------------------- MODULE Tools_proof -----------------------------
(***************************************************************************)
(* Proofs about what stands before the engine in a live tool: the policy,  *)
(* for any parts, maps, banks and programs; the two threads of MidiIn, for *)
(* a ring of any size, any buffers and messages; and the loops of any      *)
(* number of daemons, with any clients and events.                         *)
(***************************************************************************)
EXTENDS PolicyModes, MidiIn, DaemonLoop, SequenceTheorems, TLAPS

-----------------------------------------------------------------------------
(* The policy.  Each of the three invariants is inductive together with the
   types, so each needs only that and its own step. *)

(* The operations on one part stay in its type. *)
LEMMA PartOperations ==
  /\ PowerOnPart \in Part
  /\ \A pt \in Part :
       /\ \A v \in Maps : LatchMap(pt, v) \in Part
       /\ \A bk \in Banks : LatchBank(pt, bk) \in Part
       /\ \A p \in Programs : SelectProgram(pt, p) \in Part
BY EngineAssumption DEF PowerOnPart, PowerOnSound, Part, Sound, LatchMap,
                        LatchBank, SelectProgram

(* Whatever a Program Change carries in front of it, the part is a part. *)
LEMMA PutType ==
  ASSUME PolicyTypeOK, NEW ch \in Parts, NEW map \in Maps
  PROVE  Put(part[ch], ch, map) \in Part
BY PartOperations DEF PolicyTypeOK, Put

(* Types: every field holds a value of its kind in every reachable state. *)
THEOREM TypeCorrect == ModesSpec => []ModesTypeOK
<1>1. ModesInit => ModesTypeOK
  BY PartOperations, EngineAssumption
  DEF ModesInit, PolicyInit, Modes, ModesTypeOK, PolicyTypeOK, PowerOn
<1>2. ModesTypeOK /\ [ModesNext]_modesVars => ModesTypeOK'
  <2> SUFFICES ASSUME ModesTypeOK, [ModesNext]_modesVars PROVE ModesTypeOK'
    OBVIOUS
  <2> USE PartOperations DEF ModesTypeOK, PolicyTypeOK, policyVars
  <2>1. ASSUME NEW ch \in Parts, NEW p \in Programs, ProgramChange(ch, p)
        PROVE  ModesTypeOK'
    <3> DEFINE carrying == IF Injects(ch) THEN LatchMap(part[ch], map_of[ch])
                                          ELSE part[ch]
    <3>1. carrying \in Part
      OBVIOUS
    <3>2. SelectProgram(carrying, p) \in Part
      BY <3>1
    <3>3. part' = [part EXCEPT ![ch] = SelectProgram(carrying, p)]
      BY <2>1 DEF ProgramChange, PolicyProgramChange
    <3>4. part' \in [Parts -> Part]
      BY <3>2, <3>3
    <3> QED
      BY <2>1, <3>4 DEF ProgramChange, PolicyProgramChange
  <2>2. ASSUME NEW ch \in Parts, NEW v \in Maps, BankLSB(ch, v)
        PROVE  ModesTypeOK'
    BY <2>2 DEF BankLSB, PolicyBankLSB
  <2>3. ASSUME NEW ch \in Parts, NEW bk \in Banks, BankMSB(ch, bk)
        PROVE  ModesTypeOK'
    BY <2>3 DEF BankMSB, PolicyBankMSB
  <2>4. CASE Reset
    BY <2>4 DEF Reset, WireReset, PowerOn
  <2>5. ASSUME NEW ch \in Parts, NEW map \in Maps, SetPart(ch, map)
        PROVE  ModesTypeOK'
    BY <2>5, PutType DEF SetPart, PolicySet
  <2>6. ASSUME NEW map \in Maps, SetAll(map)
        PROVE  ModesTypeOK'
    BY <2>6, PutType DEF SetAll, PolicySet
  <2>7. ASSUME NEW map \in Maps, Reopen(map)
        PROVE  ModesTypeOK'
    BY <2>7, EngineAssumption DEF Reopen, PowerOn
  <2>8. ASSUME NEW ch \in Parts, NEW map \in Maps, NEW bk \in Banks,
               NEW p \in Programs, Patch(ch, map, bk, p)
        PROVE  ModesTypeOK'
    <3> DEFINE on(pt) == IF mode = "plugin" THEN LatchMap(pt, map) ELSE pt
               patched(pt) == SelectProgram(LatchBank(on(pt), bk), p)
    <3>1. \A pt \in Part : patched(pt) \in Part
      OBVIOUS
    <3>2. /\ part' = [part EXCEPT ![ch] = patched(part[ch])]
          /\ direct' = [direct EXCEPT ![ch] = patched(direct[ch])]
      BY <2>8 DEF Patch
    <3>3. part' \in [Parts -> Part] /\ direct' \in [Parts -> Part]
      BY <3>1, <3>2
    <3> QED
      BY <2>8, <3>3 DEF Patch, PolicyProgram
  <2>9. CASE UNCHANGED modesVars
    BY <2>9 DEF modesVars
  <2> QED
    BY <2>1, <2>2, <2>3, <2>4, <2>5, <2>6, <2>7, <2>8, <2>9 DEF ModesNext
<1> QED
  BY <1>1, <1>2, PTL DEF ModesSpec

-----------------------------------------------------------------------------
(* What an operation leaves in the part. *)
LEMMA PartFields ==
  \A pt \in Part :
    /\ \A v \in Maps : /\ LatchMap(pt, v).sound = pt.sound
                       /\ LatchMap(pt, v).cc32 = v
    /\ \A bk \in Banks : LatchBank(pt, bk).sound = pt.sound
    /\ \A p \in Programs : /\ SelectProgram(pt, p).sound.map = pt.cc32
                           /\ SelectProgram(pt, p).sound.prog = p
BY DEF Part, Sound, LatchMap, LatchBank, SelectProgram

(* A put part plays the map it is put on and the program it was last sent. *)
LEMMA PutPlays ==
  ASSUME PolicyTypeOK, NEW ch \in Parts, NEW map \in Maps
  PROVE  /\ Put(part[ch], ch, map).sound.map = map
         /\ Put(part[ch], ch, map).sound.prog = last_pc[ch]
<1> DEFINE pt == LatchMap(part[ch], map)
<1>1. /\ pt \in Part
      /\ pt.cc32 = map
  BY PartOperations, PartFields DEF PolicyTypeOK
<1>2. last_pc[ch] \in Programs
  BY DEF PolicyTypeOK
<1>3. Put(part[ch], ch, map) = SelectProgram(pt, last_pc[ch])
  BY DEF Put
<1> HIDE DEF pt
<1> QED
  BY <1>1, <1>2, <1>3, PartFields

(* So does a part sent a program through the policy; on the map chosen for
   it, if one was. *)
LEMMA ProgramPlays ==
  ASSUME PolicyTypeOK, NEW ch \in Parts, NEW p \in Programs,
         PolicyProgramChange(ch, p)
  PROVE  /\ part'[ch].sound.prog = p
         /\ Injects(ch) => part'[ch].sound.map = map_of[ch]
<1> DEFINE carrying == IF Injects(ch) THEN LatchMap(part[ch], map_of[ch])
                                      ELSE part[ch]
<1>1. carrying \in Part /\ (Injects(ch) => carrying.cc32 = map_of[ch])
  BY PartOperations, PartFields DEF PolicyTypeOK
<1>2. part'[ch] = SelectProgram(carrying, p)
  BY DEF PolicyProgramChange, PolicyTypeOK
<1> HIDE DEF carrying
<1>3. /\ SelectProgram(carrying, p).sound.map = carrying.cc32
      /\ SelectProgram(carrying, p).sound.prog = p
  BY <1>1, PartFields
<1> QED
  BY <1>1, <1>2, <1>3

(* The policy injects exactly for the parts whose map is the tool's to
   choose; a plugin's and a renderer's Default is nobody's choice. *)
LEMMA InjectsChosen == \A ch \in Parts : Chosen(ch) <=> Injects(ch)
BY DEF Chosen, Injects

(* ChosenMapHolds: no sequence of messages moves a part off the map chosen
   for it once it has been sent a program or a map.  The step that carries
   the weight is the Program Change, in front of which the policy latches the
   map again, whatever the wire latched meanwhile. *)
THEOREM ChosenMap == ModesSpec => []ChosenMapHolds
<1>1. ModesInit => ChosenMapHolds
  BY DEF ModesInit, ChosenMapHolds
<1>2. ModesTypeOK /\ ChosenMapHolds /\ [ModesNext]_modesVars => ChosenMapHolds'
  <2> SUFFICES ASSUME ModesTypeOK, ChosenMapHolds, [ModesNext]_modesVars,
                      NEW c \in heard', Chosen(c)'
               PROVE  part'[c].sound.map = map_of'[c]
    BY DEF ChosenMapHolds
  <2> USE DEF ModesTypeOK, PolicyTypeOK, policyVars
  <2>1. ASSUME NEW ch \in Parts, NEW p \in Programs, ProgramChange(ch, p)
        PROVE  part'[c].sound.map = map_of'[c]
    <3>1. CASE c = ch
      BY <2>1, <3>1, ProgramPlays, InjectsChosen
      DEF ProgramChange, PolicyProgramChange, Chosen
    <3>2. CASE c # ch
      BY <2>1, <3>2
      DEF ProgramChange, PolicyProgramChange, Chosen, ChosenMapHolds
    <3> QED
      BY <3>1, <3>2
  <2>2. ASSUME NEW ch \in Parts, NEW v \in Maps, BankLSB(ch, v)
        PROVE  part'[c].sound.map = map_of'[c]
    BY <2>2, PartFields DEF BankLSB, PolicyBankLSB, Chosen, ChosenMapHolds
  <2>3. ASSUME NEW ch \in Parts, NEW bk \in Banks, BankMSB(ch, bk)
        PROVE  part'[c].sound.map = map_of'[c]
    BY <2>3, PartFields DEF BankMSB, PolicyBankMSB, Chosen, ChosenMapHolds
  <2>4. CASE Reset
    BY <2>4 DEF Reset
  <2>5. ASSUME NEW ch \in Parts, NEW map \in Maps, SetPart(ch, map)
        PROVE  part'[c].sound.map = map_of'[c]
    BY <2>5, PutPlays DEF SetPart, PolicySet, Chosen, ChosenMapHolds
  <2>6. ASSUME NEW map \in Maps, SetAll(map)
        PROVE  part'[c].sound.map = map_of'[c]
    BY <2>6, PutPlays DEF SetAll, PolicySet
  <2>7. ASSUME NEW map \in Maps, Reopen(map)
        PROVE  part'[c].sound.map = map_of'[c]
    BY <2>7 DEF Reopen
  <2>8. ASSUME NEW ch \in Parts, NEW map \in Maps, NEW bk \in Banks,
               NEW p \in Programs, Patch(ch, map, bk, p)
        PROVE  part'[c].sound.map = map_of'[c]
    BY <2>8 DEF Patch, PolicyProgram, Chosen, ChosenMapHolds
  <2>9. CASE UNCHANGED modesVars
    BY <2>9 DEF modesVars, Chosen, ChosenMapHolds
  <2> QED
    BY <2>1, <2>2, <2>3, <2>4, <2>5, <2>6, <2>7, <2>8, <2>9 DEF ModesNext
<1> QED
  BY <1>1, <1>2, TypeCorrect, PTL DEF ModesSpec

(* ProgramRemembered: the program the policy would send again is the one the
   part plays. *)
THEOREM Remembered == ModesSpec => []ProgramRemembered
<1>1. ModesInit => ProgramRemembered
  BY DEF ModesInit, ProgramRemembered
<1>2. ModesTypeOK /\ ProgramRemembered /\ [ModesNext]_modesVars => ProgramRemembered'
  <2> SUFFICES ASSUME ModesTypeOK, ProgramRemembered, [ModesNext]_modesVars, NEW c \in heard'
               PROVE  part'[c].sound.prog = last_pc'[c]
    BY DEF ProgramRemembered
  <2> USE DEF ModesTypeOK, PolicyTypeOK, policyVars
  <2>1. ASSUME NEW ch \in Parts, NEW p \in Programs, ProgramChange(ch, p)
        PROVE  part'[c].sound.prog = last_pc'[c]
    BY <2>1, ProgramPlays
    DEF ProgramChange, PolicyProgramChange, ProgramRemembered
  <2>2. ASSUME NEW ch \in Parts, NEW v \in Maps, BankLSB(ch, v)
        PROVE  part'[c].sound.prog = last_pc'[c]
    BY <2>2, PartFields DEF BankLSB, PolicyBankLSB, ProgramRemembered
  <2>3. ASSUME NEW ch \in Parts, NEW bk \in Banks, BankMSB(ch, bk)
        PROVE  part'[c].sound.prog = last_pc'[c]
    BY <2>3, PartFields DEF BankMSB, PolicyBankMSB, ProgramRemembered
  <2>4. CASE Reset
    BY <2>4 DEF Reset
  <2>5. ASSUME NEW ch \in Parts, NEW map \in Maps, SetPart(ch, map)
        PROVE  part'[c].sound.prog = last_pc'[c]
    BY <2>5, PutPlays DEF SetPart, PolicySet, ProgramRemembered
  <2>6. ASSUME NEW map \in Maps, SetAll(map)
        PROVE  part'[c].sound.prog = last_pc'[c]
    BY <2>6, PutPlays DEF SetAll, PolicySet
  <2>7. ASSUME NEW map \in Maps, Reopen(map)
        PROVE  part'[c].sound.prog = last_pc'[c]
    BY <2>7 DEF Reopen
  <2>8. ASSUME NEW ch \in Parts, NEW map \in Maps, NEW bk \in Banks,
               NEW p \in Programs, Patch(ch, map, bk, p)
        PROVE  part'[c].sound.prog = last_pc'[c]
    BY <2>8 DEF Patch, PolicyProgram, ProgramRemembered
  <2>9. CASE UNCHANGED modesVars
    BY <2>9 DEF modesVars, ProgramRemembered
  <2> QED
    BY <2>1, <2>2, <2>3, <2>4, <2>5, <2>6, <2>7, <2>8, <2>9 DEF ModesNext
<1> QED
  BY <1>1, <1>2, TypeCorrect, PTL DEF ModesSpec

(* Transparent: a part nobody chose a map for is in the state the same
   messages would have brought it to without the policy.  Its Program Changes
   get nothing in front of them, and a map set for it ends its being left
   alone. *)
LEMMA LeftAloneNotChosen == \A ch \in Parts : LeftAlone(ch) => ~Injects(ch)
BY DEF LeftAlone, Injects

THEOREM LeavesAlone == ModesSpec => []Transparent
<1>1. ModesInit => Transparent
  <2> SUFFICES ASSUME ModesInit, NEW c \in Parts, LeftAlone(c)
               PROVE  part[c] = direct[c]
    BY DEF Transparent
  <2>1. LatchMap(PowerOnPart, Default) = PowerOnPart
    BY EngineAssumption DEF LatchMap, PowerOnPart
  <2> QED
    BY <2>1 DEF ModesInit, PolicyInit, LeftAlone, PowerOn
<1>2. ModesTypeOK /\ Transparent /\ [ModesNext]_modesVars => Transparent'
  <2> SUFFICES ASSUME ModesTypeOK, Transparent, [ModesNext]_modesVars,
                      NEW c \in Parts, LeftAlone(c)'
               PROVE  part'[c] = direct'[c]
    BY DEF Transparent
  <2> USE DEF ModesTypeOK, PolicyTypeOK, policyVars
  <2>1. ASSUME NEW ch \in Parts, NEW p \in Programs, ProgramChange(ch, p)
        PROVE  part'[c] = direct'[c]
    <3>1. LeftAlone(c)
      BY <2>1 DEF ProgramChange, PolicyProgramChange, LeftAlone
    <3>2. part[c] = direct[c] /\ ~Injects(c)
      BY <3>1, LeftAloneNotChosen DEF Transparent
    <3> QED
      BY <2>1, <3>2 DEF ProgramChange, PolicyProgramChange
  <2>2. ASSUME NEW ch \in Parts, NEW v \in Maps, BankLSB(ch, v)
        PROVE  part'[c] = direct'[c]
    BY <2>2 DEF BankLSB, PolicyBankLSB, LeftAlone, Transparent
  <2>3. ASSUME NEW ch \in Parts, NEW bk \in Banks, BankMSB(ch, bk)
        PROVE  part'[c] = direct'[c]
    BY <2>3 DEF BankMSB, PolicyBankMSB, LeftAlone, Transparent
  <2>4. CASE Reset
    BY <2>4 DEF Reset, WireReset
  <2>5. ASSUME NEW ch \in Parts, NEW map \in Maps, SetPart(ch, map)
        PROVE  part'[c] = direct'[c]
    BY <2>5 DEF SetPart, PolicySet, LeftAlone
  <2>6. ASSUME NEW map \in Maps, SetAll(map)
        PROVE  part'[c] = direct'[c]
    BY <2>6 DEF SetAll, PolicySet, LeftAlone
  <2>7. ASSUME NEW map \in Maps, Reopen(map)
        PROVE  part'[c] = direct'[c]
    BY <2>7 DEF Reopen
  <2>8. ASSUME NEW ch \in Parts, NEW map \in Maps, NEW bk \in Banks,
               NEW p \in Programs, Patch(ch, map, bk, p)
        PROVE  part'[c] = direct'[c]
    <3>1. part[c] = direct[c]
      BY <2>8 DEF Patch, LeftAlone, Transparent
    <3> QED
      BY <2>8, <3>1 DEF Patch
  <2>9. CASE UNCHANGED modesVars
    BY <2>9 DEF modesVars, LeftAlone, Transparent
  <2> QED
    BY <2>1, <2>2, <2>3, <2>4, <2>5, <2>6, <2>7, <2>8, <2>9 DEF ModesNext
<1> QED
  BY <1>1, <1>2, TypeCorrect, PTL DEF ModesSpec

(* SetIsHeard: the step that changes a part's map is the step in which the
   part is heard on it, playing the program it was last sent. *)
THEOREM SetHeard == ModesSpec => SetIsHeard
<1> DEFINE Heard == \A ch \in Parts :
                      map_of'[ch] # map_of[ch] /\ mode # "none" =>
                        /\ part'[ch].sound.map = map_of'[ch]
                        /\ part'[ch].sound.prog = last_pc[ch]
<1>1. ModesTypeOK /\ [ModesNext]_modesVars => [Heard]_modesVars
  <2> SUFFICES ASSUME ModesTypeOK, [ModesNext]_modesVars, NEW c \in Parts,
                      map_of'[c] # map_of[c], mode # "none"
               PROVE  /\ part'[c].sound.map = map_of'[c]
                      /\ part'[c].sound.prog = last_pc[c]
    OBVIOUS
  <2> USE DEF ModesTypeOK, PolicyTypeOK, policyVars
  <2>1. ASSUME NEW chs \in SUBSET Parts, NEW map \in Maps, PolicySet(chs, map)
        PROVE  /\ part'[c].sound.map = map_of'[c]
               /\ part'[c].sound.prog = last_pc[c]
    <3>1. c \in chs
      BY <2>1 DEF PolicySet
    <3> QED
      BY <2>1, <3>1, PutPlays DEF PolicySet
  <2>2. \/ \E ch \in Parts, map \in Maps : PolicySet({ch}, map)
        \/ \E map \in Maps : PolicySet(Parts, map)
    BY DEF ModesNext, ProgramChange, PolicyProgramChange, BankLSB, PolicyBankLSB,
           BankMSB, PolicyBankMSB, Reset, WireReset, SetPart, SetAll, Reopen,
           Patch, modesVars
  <2> QED
    BY <2>1, <2>2
<1>2. ModesSpec => [][Heard]_modesVars
  BY <1>1, TypeCorrect, PTL DEF ModesSpec
<1> QED
  BY <1>2 DEF SetIsHeard

-----------------------------------------------------------------------------
(* The Windows tool's threads: they amount to the queue of MidiPath, and a
   sysex buffer is in one place at a time, so that what the callback copies is
   the message the driver made the call for. *)

-----------------------------------------------------------------------------
(* The ring as a queue. *)

LEMMA Wrap ==
  ASSUME NEW n \in Nat, n < 2 * QCap
  PROVE  n % QCap = IF n < QCap THEN n ELSE n - QCap
  BY MidiInAssumption, SMTT(30)

Count == (q_head + QCap - q_tail) % QCap

Place(i) == (q_tail + i - 1) % QCap

RingOK == q_head \in Slots /\ q_tail \in Slots /\ q \in [Slots -> OptMsg]

LEMMA RingFacts ==
  ASSUME RingOK
  PROVE  /\ QCap \in Nat \ {0, 1}
         /\ q_head \in 0 .. QCap - 1 /\ q_tail \in 0 .. QCap - 1
         /\ Count = IF q_head >= q_tail THEN q_head - q_tail ELSE q_head + QCap - q_tail
         /\ Count \in 0 .. QCap - 1
         /\ \A i \in 1 .. QCap :
              /\ Place(i) = IF q_tail + i - 1 < QCap THEN q_tail + i - 1
                                                     ELSE q_tail + i - 1 - QCap
              /\ Place(i) \in Slots
         /\ \A i \in Slots : /\ After(i) = IF i = QCap - 1 THEN 0 ELSE i + 1
                             /\ After(i) \in Slots
  <1>1. /\ QCap \in Nat \ {0, 1}
        /\ q_head \in 0 .. QCap - 1 /\ q_tail \in 0 .. QCap - 1
    BY MidiInAssumption DEF RingOK, Slots
  <1>2. Count = IF q_head >= q_tail THEN q_head - q_tail ELSE q_head + QCap - q_tail
    <2>1. q_head + QCap - q_tail \in Nat /\ q_head + QCap - q_tail < 2 * QCap
      BY <1>1
    <2> QED BY <1>1, <2>1, Wrap DEF Count
  <1>3. Count \in 0 .. QCap - 1
    BY <1>1, <1>2
  <1>4. ASSUME NEW i \in 1 .. QCap
        PROVE  /\ Place(i) = IF q_tail + i - 1 < QCap THEN q_tail + i - 1
                                                      ELSE q_tail + i - 1 - QCap
               /\ Place(i) \in Slots
    <2>1. q_tail + i - 1 \in Nat /\ q_tail + i - 1 < 2 * QCap
      BY <1>1
    <2>2. Place(i) = IF q_tail + i - 1 < QCap THEN q_tail + i - 1
                                              ELSE q_tail + i - 1 - QCap
      BY <1>1, <2>1, Wrap DEF Place
    <2> QED BY <1>1, <2>2 DEF Slots
  <1>5. ASSUME NEW i \in Slots
        PROVE  /\ After(i) = IF i = QCap - 1 THEN 0 ELSE i + 1
               /\ After(i) \in Slots
    <2>1. i \in 0 .. QCap - 1 /\ i + 1 \in Nat /\ i + 1 < 2 * QCap
      BY <1>1 DEF Slots
    <2>2. After(i) = IF i = QCap - 1 THEN 0 ELSE i + 1
      BY <1>1, <2>1, Wrap DEF After
    <2> QED BY <1>1, <2>1, <2>2 DEF Slots
  <1> QED
    BY <1>1, <1>2, <1>3, <1>4, <1>5

LEMMA WaitingFacts ==
  ASSUME RingOK
  PROVE  /\ Waiting \in Seq(OptMsg) /\ Len(Waiting) = Count
         /\ \A i \in 1 .. Count : Waiting[i] = q[Place(i)]
  <1>1. Count \in Nat /\ \A i \in 1 .. Count : q[Place(i)] \in OptMsg
    BY RingFacts DEF RingOK
  <1>2. Waiting = [i \in 1 .. Count |-> q[Place(i)]]
    BY DEF Waiting, Count, Place
  <1> QED
    BY <1>1, <1>2

LEMMA Full ==
  ASSUME RingOK
  PROVE  After(q_head) = q_tail <=> Count = QCap - 1
  <1>1. After(q_head) = IF q_head = QCap - 1 THEN 0 ELSE q_head + 1
    BY RingFacts DEF RingOK
  <1> QED
    BY <1>1, RingFacts

LEMMA Empty ==
  ASSUME RingOK
  PROVE  q_tail = q_head <=> Count = 0
  BY RingFacts

(* A message put goes behind those that wait. *)
LEMMA PutWaits ==
  ASSUME RingOK, NEW msg \in OptMsg, After(q_head) # q_tail,
         q' = [q EXCEPT ![q_head] = msg], q_head' = After(q_head), q_tail' = q_tail
  PROVE  RingOK' /\ Waiting' = Append(Waiting, msg) /\ Len(Waiting) < QCap - 1
  <1>1. RingOK'
    BY RingFacts DEF RingOK
  <1>2. Count < QCap - 1 /\ Count \in Nat
    BY Full, RingFacts
  <1>3. q_head' = IF q_head = QCap - 1 THEN 0 ELSE q_head + 1
    BY RingFacts DEF RingOK
  <1>4. Count' = Count + 1
    <2>1. Count' = IF q_head' >= q_tail' THEN q_head' - q_tail' ELSE q_head' + QCap - q_tail'
      <3>1. q_head' + QCap - q_tail' \in Nat /\ q_head' + QCap - q_tail' < 2 * QCap
        BY <1>3, RingFacts
      <3> QED BY <1>3, <3>1, Wrap, RingFacts DEF Count
    <2> QED BY <1>2, <1>3, <2>1, RingFacts
  <1>5. \A i : Place(i)' = Place(i)
    BY DEF Place
  <1>6. Place(Count + 1) = q_head
    <2>1. Count + 1 \in 1 .. QCap
      BY <1>2, RingFacts
    <2> QED BY <2>1, RingFacts
  <1>7. \A i \in 1 .. Count : Place(i) # q_head /\ Place(i) \in Slots
    <2> SUFFICES ASSUME NEW i \in 1 .. Count PROVE Place(i) # q_head /\ Place(i) \in Slots
      OBVIOUS
    <2>1. i \in 1 .. QCap
      BY <1>2, RingFacts
    <2> QED BY <1>2, <2>1, RingFacts
  <1>8. /\ Waiting \in Seq(OptMsg) /\ Len(Waiting) = Count
        /\ \A i \in 1 .. Count : Waiting[i] = q[Place(i)]
    BY WaitingFacts
  <1>9. Waiting' = [i \in 1 .. Count' |-> q'[Place(i)']]
    BY DEF Waiting, Count, Place
  <1>10. /\ Waiting' \in Seq(OptMsg) /\ Len(Waiting') = Count + 1
         /\ \A i \in 1 .. Count + 1 : Waiting'[i] = q'[Place(i)]
    <2>1. \A i \in 1 .. Count + 1 : q'[Place(i)] \in OptMsg
      <3>1. \A i \in 1 .. Count + 1 : Place(i) \in Slots
        BY <1>2, RingFacts
      <3> QED BY <1>1, <3>1 DEF RingOK
    <2>2. Waiting' = [i \in 1 .. Count + 1 |-> q'[Place(i)]]
      BY <1>4, <1>5, <1>9
    <2> QED BY <1>2, <2>1, <2>2
  <1>11. \A i \in 1 .. Count + 1 : Waiting'[i] = Append(Waiting, msg)[i]
    <2> SUFFICES ASSUME NEW i \in 1 .. Count + 1 PROVE Waiting'[i] = Append(Waiting, msg)[i]
      OBVIOUS
    <2>0. q \in [Slots -> OptMsg] /\ q_head \in Slots
      BY DEF RingOK
    <2>1. CASE i \in 1 .. Count
      <3>1. Waiting'[i] = q[Place(i)]
        BY <1>7, <1>10, <2>0, <2>1
      <3>2. Append(Waiting, msg)[i] = Waiting[i]
        BY <1>8, <2>1
      <3> QED BY <1>8, <2>1, <3>1, <3>2
    <2>2. CASE i = Count + 1
      <3>1. Waiting'[i] = msg
        BY <1>6, <1>10, <2>0, <2>2
      <3>2. Append(Waiting, msg)[i] = msg
        BY <1>8, <2>2
      <3> QED BY <3>1, <3>2
    <2>3. i \in 1 .. Count \/ i = Count + 1
      BY <1>2
    <2> QED BY <2>1, <2>2, <2>3
  <1>12. Append(Waiting, msg) \in Seq(OptMsg) /\ Len(Append(Waiting, msg)) = Count + 1
    BY <1>8
  <1>13. Waiting' = Append(Waiting, msg)
    BY <1>10, <1>11, <1>12, SeqEqual
  <1> QED
    BY <1>1, <1>2, <1>8, <1>13

(* The message taken is the one that waited longest. *)
LEMMA GetTakes ==
  ASSUME RingOK, q_tail # q_head, q_tail' = After(q_tail), UNCHANGED <<q, q_head>>
  PROVE  /\ RingOK' /\ Waiting # <<>>
         /\ q[q_tail] = Head(Waiting) /\ Waiting' = Tail(Waiting)
  <1>1. RingOK'
    BY RingFacts DEF RingOK
  <1>2. Count \in 1 .. QCap - 1
    BY Empty, RingFacts
  <1>3. q_tail' = IF q_tail = QCap - 1 THEN 0 ELSE q_tail + 1
    BY RingFacts DEF RingOK
  <1>4. Count' = Count - 1
    <2>1. Count' = IF q_head' >= q_tail' THEN q_head' - q_tail' ELSE q_head' + QCap - q_tail'
      <3>1. q_head' + QCap - q_tail' \in Nat /\ q_head' + QCap - q_tail' < 2 * QCap
        BY <1>3, RingFacts
      <3>2. q_head' = q_head /\ q_tail' \in 0 .. QCap - 1 /\ QCap \in Nat
        BY <1>3, RingFacts
      <3>3. q_head \in 0 .. QCap - 1
        BY RingFacts
      <3> QED BY <3>1, <3>2, <3>3, Wrap DEF Count
    <2> QED BY <1>2, <1>3, <2>1, RingFacts
  <1>5. \A i \in 1 .. Count - 1 : Place(i)' = Place(i + 1)
    <2> SUFFICES ASSUME NEW i \in 1 .. Count - 1 PROVE Place(i)' = Place(i + 1)
      OBVIOUS
    <2>1. i \in 1 .. QCap /\ i + 1 \in 1 .. QCap
      BY <1>2, RingFacts
    <2>2. Place(i)' = IF q_tail' + i - 1 < QCap THEN q_tail' + i - 1
                                                ELSE q_tail' + i - 1 - QCap
      <3>1. q_tail' + i - 1 \in Nat /\ q_tail' + i - 1 < 2 * QCap
        BY <1>2, <1>3, RingFacts
      <3> QED BY <1>3, <3>1, Wrap, RingFacts DEF Place
    <2> QED BY <1>2, <1>3, <2>1, <2>2, RingFacts
  <1>6. /\ Waiting \in Seq(OptMsg) /\ Len(Waiting) = Count
        /\ \A i \in 1 .. Count : Waiting[i] = q[Place(i)]
    BY WaitingFacts
  <1>7. Waiting # <<>> /\ Head(Waiting) = q[q_tail]
    <2>1. Place(1) = q_tail
      BY <1>2, RingFacts
    <2> QED BY <1>2, <1>6, <2>1
  <1>8. Waiting' = [i \in 1 .. Count - 1 |-> q[Place(i)']]
    BY <1>4 DEF Waiting, Count, Place
  <1>9. /\ Tail(Waiting) \in Seq(OptMsg) /\ Len(Tail(Waiting)) = Count - 1
        /\ \A i \in 1 .. Count - 1 : Tail(Waiting)[i] = Waiting[i + 1]
    BY <1>6, <1>7
  <1>10. \A i \in 1 .. Count - 1 : q[Place(i)'] = Tail(Waiting)[i]
    <2> SUFFICES ASSUME NEW i \in 1 .. Count - 1 PROVE q[Place(i)'] = Tail(Waiting)[i]
      OBVIOUS
    <2>1. i + 1 \in 1 .. Count
      BY <1>2
    <2> QED BY <1>5, <1>6, <1>9, <2>1
  <1>11. \A i \in 1 .. Count - 1 : q[Place(i)'] \in OptMsg
    BY <1>2, <1>9, <1>10
  <1>12. /\ Waiting' \in Seq(OptMsg) /\ Len(Waiting') = Count - 1
         /\ \A i \in 1 .. Count - 1 : Waiting'[i] = q[Place(i)']
    BY <1>2, <1>8, <1>11
  <1>13. Waiting' = Tail(Waiting)
    BY <1>9, <1>10, <1>12, SeqEqual
  <1> QED
    BY <1>1, <1>7, <1>13

-----------------------------------------------------------------------------
(* The driver and the callback. *)

(* The message of the head event is queued or lost before its flag is set. *)
Owed == IF cbpc = "flag" THEN 1 ELSE 0

FieldTypes ==
  /\ received \in 0 .. MaxMsgs /\ split \in BOOLEAN
  /\ added \in Seq(SysBufs) /\ sys_buf \in [SysBufs -> OptMsg]
  /\ events \in Seq([msg : Msg, buf : SysBufs \cup {None}])
  /\ cbpc \in {"put", "flag"} /\ sys_returned \in [SysBufs -> BOOLEAN]
  /\ pc \in {"console", "readd", "scan", "drain", "stopped"}
  /\ b \in Nat /\ m \in OptMsg /\ dealt \in Nat
  /\ q_dropped \in 0 .. dealt
  /\ pc = "readd" => b \in SysBufs

(* The events are the messages not dealt with yet, in order. *)
Numbered ==
  /\ dealt + Len(events) = received + Owed
  /\ \A k \in 1 .. Len(events) : events[k].msg.id = dealt + k - Owed
  /\ cbpc = "flag" => /\ events # <<>>
                      /\ events[1].buf # None /\ events[1].msg.kind # "broken"

(* A buffer that an event is for holds the event's message. *)
Filled ==
  \A k \in 1 .. Len(events) :
    events[k].buf # None => sys_buf[events[k].buf] = events[k].msg

(* A buffer is with the driver, in an event, or flagged: one of the three,
   and once.  (One that came back broken is in none.) *)
Apart ==
  /\ \A j, k \in 1 .. Len(added) : j # k => added[j] # added[k]
  /\ \A j, k \in 1 .. Len(events) :
       events[j].buf # None /\ j # k => events[j].buf # events[k].buf
  /\ \A j \in 1 .. Len(added), k \in 1 .. Len(events) :
       events[k].buf # None => events[k].buf # added[j]
  /\ \A i \in SysBufs : sys_returned[i] =>
       /\ \A j \in 1 .. Len(added) : added[j] # i
       /\ \A k \in 1 .. Len(events) : events[k].buf = None \/ events[k].buf # i

PathInv == RingOK /\ FieldTypes /\ Numbered /\ Filled /\ Apart

EventsOf == [msg : Msg, buf : SysBufs \cup {None}]

LEMMA PathInit == Init => PathInv
  <1> SUFFICES ASSUME Init PROVE PathInv
    OBVIOUS
  <1>1. /\ QCap \in Nat /\ QCap >= 2 /\ NSysBuf \in Nat \ {0} /\ MaxMsgs \in Nat
    BY MidiInAssumption
  <1>2. RingOK
    BY <1>1 DEF Init, RingOK, Slots, OptMsg
  <1>3. /\ added \in Seq(SysBufs) /\ Len(added) = NSysBuf
        /\ \A j \in 1 .. NSysBuf : added[j] = j - 1
    BY <1>1 DEF Init, SysBufs
  <1>4. Len(events) = 0 /\ events \in Seq([msg : Msg, buf : SysBufs \cup {None}])
    BY DEF Init
  <1>5. FieldTypes
    <2>1. /\ sys_buf \in [SysBufs -> OptMsg] /\ sys_returned \in [SysBufs -> BOOLEAN]
          /\ m \in OptMsg /\ split \in BOOLEAN /\ cbpc \in {"put", "flag"} /\ pc = "console"
      BY DEF Init, OptMsg
    <2>2. received = 0 /\ b = 0 /\ dealt = 0 /\ q_dropped = 0
      BY DEF Init
    <2>3. received \in 0 .. MaxMsgs /\ b \in Nat /\ dealt \in Nat /\ q_dropped \in 0 .. dealt
      BY <1>1, <2>2
    <2> QED
      BY <1>3, <1>4, <2>1, <2>3 DEF FieldTypes
  <1>6. Numbered /\ Filled
    BY <1>4 DEF Init, Numbered, Filled, Owed
  <1>7. Apart
    BY <1>1, <1>3, <1>4 DEF Init, Apart, SysBufs
  <1> QED
    BY <1>2, <1>5, <1>6, <1>7 DEF PathInv

(* A message arrives: an event at the end of those that wait. *)
LEMMA ArrivesFacts ==
  ASSUME PathInv, NEW e \in EventsOf, received < MaxMsgs, received' = received + 1,
         e.msg.id = received + 1, events' = Append(events, e),
         UNCHANGED <<cbpc, sys_returned, queueVars, audioVars, dealt>>
  PROVE  /\ RingOK' /\ Numbered' /\ received' \in 0 .. MaxMsgs /\ events' \in Seq(EventsOf)
         /\ Len(events) \in Nat /\ Len(events') = Len(events) + 1
         /\ events'[Len(events) + 1] = e
         /\ \A k \in 1 .. Len(events) : events'[k] = events[k]
  <1>1. /\ RingOK /\ FieldTypes /\ Numbered
    BY DEF PathInv
  <1>2. /\ received \in 0 .. MaxMsgs /\ MaxMsgs \in Nat /\ events \in Seq(EventsOf)
        /\ dealt \in Nat /\ Owed \in {0, 1} /\ Owed' = Owed /\ dealt' = dealt
        /\ cbpc' = cbpc
    BY <1>1, MidiInAssumption DEF FieldTypes, EventsOf, Owed
  <1>3. /\ Len(events) \in Nat /\ Len(events') = Len(events) + 1
        /\ events'[Len(events) + 1] = e /\ events' \in Seq(EventsOf)
        /\ \A k \in 1 .. Len(events) : events'[k] = events[k]
    BY <1>2
  <1>4. RingOK'
    BY <1>1 DEF RingOK, queueVars
  <1>5. dealt + Len(events) = received + Owed
    BY <1>1 DEF Numbered
  <1>6. \A k \in 1 .. Len(events') : events'[k].msg.id = dealt' + k - Owed'
    <2> SUFFICES ASSUME NEW k \in 1 .. Len(events) + 1
                 PROVE  events'[k].msg.id = dealt + k - Owed
      BY <1>2, <1>3
    <2>1. CASE k \in 1 .. Len(events)
      BY <1>1, <1>3, <2>1 DEF Numbered
    <2>2. CASE k = Len(events) + 1
      <3>1. received + 1 = dealt + (Len(events) + 1) - Owed
        BY <1>2, <1>3, <1>5
      <3> QED BY <1>3, <2>2, <3>1
    <2> QED BY <1>3, <2>1, <2>2
  <1>7. cbpc' = "flag" => /\ events' # <<>>
                          /\ events'[1].buf # None /\ events'[1].msg.kind # "broken"
    <2> SUFFICES ASSUME cbpc = "flag"
                 PROVE  /\ events' # <<>>
                        /\ events'[1].buf # None /\ events'[1].msg.kind # "broken"
      BY <1>2
    <2>1. events # <<>> /\ events[1].buf # None /\ events[1].msg.kind # "broken"
      BY <1>1 DEF Numbered
    <2>2. 1 \in 1 .. Len(events)
      BY <1>2, <1>3, <2>1
    <2> QED BY <1>3, <2>1, <2>2
  <1>8. dealt' + Len(events') = received' + Owed'
    BY <1>2, <1>3, <1>5
  <1> QED
    BY <1>2, <1>3, <1>4, <1>6, <1>7, <1>8 DEF Numbered

LEMMA ShortKeeps ==
  ASSUME PathInv, ShortArrives,
         UNCHANGED <<cbpc, sys_returned, queueVars, audioVars, dealt>>
  PROVE  PathInv'
  <1> DEFINE e == [msg |-> [id |-> received + 1, kind |-> "short"], buf |-> None]
  <1>1. FieldTypes /\ Filled /\ Apart
    BY DEF PathInv
  <1>2. e \in EventsOf
    BY <1>1, MidiInAssumption DEF FieldTypes, ShortArrives, EventsOf, Msg, Kinds
  <1>3. /\ received < MaxMsgs /\ received' = received + 1 /\ events' = Append(events, e)
        /\ split' = split /\ added' = added /\ sys_buf' = sys_buf
    BY DEF ShortArrives
  <1>4. e.msg.id = received + 1 /\ e.buf = None
    OBVIOUS
  <1> HIDE DEF e
  <1>5. /\ RingOK' /\ Numbered' /\ received' \in 0 .. MaxMsgs /\ events' \in Seq(EventsOf)
        /\ Len(events) \in Nat /\ Len(events') = Len(events) + 1
        /\ events'[Len(events) + 1] = e
        /\ \A k \in 1 .. Len(events) : events'[k] = events[k]
    BY <1>2, <1>3, <1>4, ArrivesFacts
  <1>6. FieldTypes'
    BY <1>1, <1>3, <1>5 DEF FieldTypes, EventsOf, audioVars, queueVars
  <1>7. \A k \in 1 .. Len(events') : events'[k].buf # None =>
          k \in 1 .. Len(events) /\ events'[k] = events[k]
    <2> SUFFICES ASSUME NEW k \in 1 .. Len(events) + 1, events'[k].buf # None
                 PROVE  k \in 1 .. Len(events) /\ events'[k] = events[k]
      BY <1>5
    <2>1. k # Len(events) + 1
      BY <1>4, <1>5
    <2> QED BY <1>5, <2>1
  <1>8. Filled'
    BY <1>1, <1>3, <1>7 DEF Filled
  <1>9. \A j, k \in 1 .. Len(events') : events'[j].buf # None /\ j # k =>
          events'[j].buf # events'[k].buf
    <2> SUFFICES ASSUME NEW j \in 1 .. Len(events'), NEW k \in 1 .. Len(events'),
                        events'[j].buf # None, j # k, events'[j].buf = events'[k].buf
                 PROVE  FALSE
      OBVIOUS
    <2> QED BY <1>1, <1>7 DEF Apart
  <1>10. Apart'
    BY <1>1, <1>3, <1>7, <1>9 DEF Apart
  <1> QED
    BY <1>5, <1>6, <1>8, <1>10 DEF PathInv

LEMMA LongKeeps ==
  ASSUME PathInv, NEW kind \in LongKinds, LongArrives(kind),
         UNCHANGED <<cbpc, sys_returned, queueVars, audioVars, dealt>>
  PROVE  PathInv'
  <1> DEFINE msg == [id |-> received + 1, kind |-> kind]
             e == [msg |-> msg, buf |-> Head(added)]
  <1>1. FieldTypes /\ Filled /\ Apart
    BY DEF PathInv
  <1>2. /\ received < MaxMsgs /\ received' = received + 1 /\ added # <<>>
        /\ split' \in BOOLEAN /\ added' = Tail(added)
        /\ sys_buf' = [sys_buf EXCEPT ![Head(added)] = msg]
        /\ events' = Append(events, e)
    BY DEF LongArrives
  <1>3. /\ added \in Seq(SysBufs) /\ Len(added) \in Nat \ {0} /\ Head(added) = added[1]
        /\ added[1] \in SysBufs /\ added' \in Seq(SysBufs) /\ Len(added') = Len(added) - 1
        /\ \A j \in 1 .. Len(added) - 1 : added'[j] = added[j + 1]
    BY <1>1, <1>2 DEF FieldTypes
  <1>4. msg \in Msg
    BY <1>1, <1>2, MidiInAssumption DEF FieldTypes, Msg, Kinds
  <1>5. e \in EventsOf
    BY <1>3, <1>4 DEF EventsOf
  <1>6. e.msg = msg /\ e.msg.id = received + 1 /\ e.buf = added[1]
    BY <1>3
  <1> HIDE DEF e, msg
  <1>7. /\ RingOK' /\ Numbered' /\ received' \in 0 .. MaxMsgs /\ events' \in Seq(EventsOf)
        /\ Len(events) \in Nat /\ Len(events') = Len(events) + 1
        /\ events'[Len(events) + 1] = e
        /\ \A k \in 1 .. Len(events) : events'[k] = events[k]
    BY <1>2, <1>5, <1>6, ArrivesFacts
  <1>8. /\ sys_buf' \in [SysBufs -> OptMsg] /\ sys_buf'[added[1]] = msg
        /\ \A i \in SysBufs : i # added[1] => sys_buf'[i] = sys_buf[i]
    BY <1>1, <1>2, <1>3, <1>4 DEF FieldTypes, OptMsg
  <1>9. FieldTypes'
    BY <1>1, <1>2, <1>3, <1>7, <1>8 DEF FieldTypes, EventsOf, audioVars, queueVars
  <1>10. /\ \A k \in 1 .. Len(events) : events[k].buf # None =>
              events[k].buf \in SysBufs /\ events[k].buf # added[1]
    <2> SUFFICES ASSUME NEW k \in 1 .. Len(events), events[k].buf # None
                 PROVE  events[k].buf \in SysBufs /\ events[k].buf # added[1]
      OBVIOUS
    <2>1. events \in Seq(EventsOf)
      BY <1>1 DEF FieldTypes, EventsOf
    <2>2. events[k] \in EventsOf
      BY <2>1
    <2>3. 1 \in 1 .. Len(added)
      BY <1>3
    <2>4. events[k].buf # added[1]
      BY <1>1, <2>3 DEF Apart
    <2> QED BY <2>2, <2>4 DEF EventsOf
  <1>11. Filled'
    <2> SUFFICES ASSUME NEW k \in 1 .. Len(events) + 1, events'[k].buf # None
                 PROVE  sys_buf'[events'[k].buf] = events'[k].msg
      BY <1>7 DEF Filled
    <2>1. CASE k \in 1 .. Len(events)
      BY <1>1, <1>7, <1>8, <1>10, <2>1 DEF Filled
    <2>2. CASE k = Len(events) + 1
      BY <1>6, <1>7, <1>8, <2>2
    <2> QED BY <1>7, <2>1, <2>2
  <1>12. Apart'
    <2>1. \A j, k \in 1 .. Len(added') : j # k => added'[j] # added'[k]
      <3> SUFFICES ASSUME NEW j \in 1 .. Len(added) - 1, NEW k \in 1 .. Len(added) - 1, j # k
                   PROVE  added[j + 1] # added[k + 1]
        BY <1>3
      <3>1. j + 1 \in 1 .. Len(added) /\ k + 1 \in 1 .. Len(added) /\ j + 1 # k + 1
        BY <1>3
      <3> QED BY <1>1, <3>1 DEF Apart
    <2>2. \A j \in 1 .. Len(added') : added'[j] # added[1] /\ j + 1 \in 1 .. Len(added)
      <3> SUFFICES ASSUME NEW j \in 1 .. Len(added) - 1
                   PROVE  added[j + 1] # added[1] /\ j + 1 \in 1 .. Len(added)
        BY <1>3
      <3>1. j + 1 \in 1 .. Len(added) /\ 1 \in 1 .. Len(added) /\ j + 1 # 1
        BY <1>3
      <3> QED BY <1>1, <3>1 DEF Apart
    <2>3. \A j, k \in 1 .. Len(events') :
            events'[j].buf # None /\ j # k => events'[j].buf # events'[k].buf
      <3> SUFFICES ASSUME NEW j \in 1 .. Len(events) + 1, NEW k \in 1 .. Len(events) + 1,
                          events'[j].buf # None, j # k, events'[j].buf = events'[k].buf
                   PROVE  FALSE
        BY <1>7
      <3>1. CASE j \in 1 .. Len(events) /\ k \in 1 .. Len(events)
        BY <1>1, <1>7, <3>1 DEF Apart
      <3>2. CASE j \in 1 .. Len(events) /\ k = Len(events) + 1
        BY <1>6, <1>7, <1>10, <3>2
      <3>3. CASE j = Len(events) + 1 /\ k \in 1 .. Len(events)
        BY <1>6, <1>7, <1>10, <3>3
      <3> QED BY <1>7, <3>1, <3>2, <3>3
    <2>4. \A j \in 1 .. Len(added'), k \in 1 .. Len(events') :
            events'[k].buf # None => events'[k].buf # added'[j]
      <3> SUFFICES ASSUME NEW j \in 1 .. Len(added) - 1, NEW k \in 1 .. Len(events) + 1,
                          events'[k].buf # None
                   PROVE  events'[k].buf # added'[j]
        BY <1>3, <1>7
      <3>1. CASE k \in 1 .. Len(events)
        <4>1. added'[j] = added[j + 1] /\ j + 1 \in 1 .. Len(added)
          BY <1>3
        <4> QED BY <1>1, <1>7, <3>1, <4>1 DEF Apart
      <3>2. CASE k = Len(events) + 1
        BY <1>3, <1>6, <1>7, <2>2, <3>2
      <3> QED BY <1>7, <3>1, <3>2
    <2>5. \A i \in SysBufs : sys_returned[i] =>
            /\ \A j \in 1 .. Len(added') : added'[j] # i
            /\ \A k \in 1 .. Len(events') : events'[k].buf = None \/ events'[k].buf # i
      <3> SUFFICES ASSUME NEW i \in SysBufs, sys_returned[i]
                   PROVE  /\ \A j \in 1 .. Len(added') : added'[j] # i
                          /\ \A k \in 1 .. Len(events) + 1 :
                               events'[k].buf = None \/ events'[k].buf # i
        BY <1>7
      <3>1. \A j \in 1 .. Len(added) : added[j] # i
        BY <1>1 DEF Apart
      <3>2. \A j \in 1 .. Len(added') : added'[j] # i
        BY <1>3, <2>2, <3>1
      <3>3. ASSUME NEW k \in 1 .. Len(events) + 1
            PROVE  events'[k].buf = None \/ events'[k].buf # i
        <4>1. CASE k \in 1 .. Len(events)
          BY <1>1, <1>7, <4>1 DEF Apart
        <4>2. CASE k = Len(events) + 1
          <5>1. 1 \in 1 .. Len(added)
            BY <1>3
          <5> QED BY <1>6, <1>7, <3>1, <4>2, <5>1
        <4> QED BY <1>7, <4>1, <4>2
      <3> QED BY <3>2, <3>3
    <2> QED
      BY <2>1, <2>3, <2>4, <2>5 DEF Apart
  <1> QED
    BY <1>7, <1>9, <1>11, <1>12 DEF PathInv

(* The event at the head is done with. *)
LEMMA DoneFacts ==
  ASSUME PathInv, events # <<>>
  PROVE  /\ Len(events) \in Nat \ {0} /\ Event = events[1] /\ 1 \in 1 .. Len(events)
         /\ Event \in EventsOf /\ Event.msg \in Msg
         /\ Event.buf # None => Event.buf \in SysBufs /\ sys_buf[Event.buf] = Event.msg
         /\ Event.msg.id = dealt + 1 - Owed
         /\ Tail(events) \in Seq(EventsOf) /\ Len(Tail(events)) = Len(events) - 1
         /\ \A k \in 1 .. Len(events) - 1 : /\ Tail(events)[k] = events[k + 1]
                                           /\ k + 1 \in 1 .. Len(events)
  <1>1. events \in Seq(EventsOf)
    BY DEF PathInv, FieldTypes, EventsOf
  <1>2. /\ Len(events) \in Nat \ {0} /\ Event = events[1] /\ 1 \in 1 .. Len(events)
        /\ Event \in EventsOf
    BY <1>1 DEF Event
  <1>3. Event.msg \in Msg /\ (Event.buf # None => Event.buf \in SysBufs)
    BY <1>2 DEF EventsOf
  <1>4. /\ Tail(events) \in Seq(EventsOf) /\ Len(Tail(events)) = Len(events) - 1
        /\ \A k \in 1 .. Len(events) - 1 : /\ Tail(events)[k] = events[k + 1]
                                          /\ k + 1 \in 1 .. Len(events)
    BY <1>1, <1>2
  <1>5. /\ events[1].msg.id = dealt + 1 - Owed
        /\ events[1].buf # None => sys_buf[events[1].buf] = events[1].msg
    BY <1>2 DEF PathInv, Numbered, Filled
  <1> QED
    BY <1>2, <1>3, <1>4, <1>5

LEMMA DoneKeeps ==
  ASSUME PathInv, events # <<>>, events' = Tail(events), cbpc' = "put",
         UNCHANGED <<received, added, sys_buf>>,
         dealt' \in Nat, dealt' = dealt + 1 - Owed
  PROVE  /\ events' \in Seq(EventsOf) /\ Numbered' /\ Filled'
         /\ sys_returned' = sys_returned => Apart'
  <1>1. /\ Len(events) \in Nat \ {0}
        /\ events' \in Seq(EventsOf) /\ Len(events') = Len(events) - 1
        /\ \A k \in 1 .. Len(events) - 1 : /\ events'[k] = events[k + 1]
                                          /\ k + 1 \in 1 .. Len(events)
    BY DoneFacts
  <1>2. dealt \in Nat /\ Owed \in {0, 1} /\ Owed' = 0 /\ received \in Nat
    BY MidiInAssumption DEF PathInv, FieldTypes, Owed
  <1>3. Numbered'
    <2>1. /\ dealt + Len(events) = received + Owed
          /\ \A k \in 1 .. Len(events) : events[k].msg.id = dealt + k - Owed
      BY DEF PathInv, Numbered
    <2>2. dealt' + Len(events') = received' + Owed'
      BY <1>1, <1>2, <2>1
    <2>3. ASSUME NEW k \in 1 .. Len(events) - 1
          PROVE  events'[k].msg.id = dealt' + k - Owed'
      <3>1. events'[k].msg.id = dealt + (k + 1) - Owed
        BY <1>1, <2>1
      <3> QED BY <1>2, <3>1
    <2> QED
      BY <1>1, <2>2, <2>3 DEF Numbered
  <1>4. Filled'
    BY <1>1 DEF PathInv, Filled
  <1>5. ASSUME sys_returned' = sys_returned PROVE Apart'
    <2>1. Apart
      BY DEF PathInv
    <2>2. \A j, k \in 1 .. Len(events') :
            events'[j].buf # None /\ j # k => events'[j].buf # events'[k].buf
      <3> SUFFICES ASSUME NEW j \in 1 .. Len(events) - 1, NEW k \in 1 .. Len(events) - 1,
                          events[j + 1].buf # None, j # k
                   PROVE  events[j + 1].buf # events[k + 1].buf
        BY <1>1
      <3>1. j + 1 # k + 1
        BY <1>1
      <3> QED BY <1>1, <2>1, <3>1 DEF Apart
    <2> QED
      BY <1>1, <1>5, <2>1, <2>2 DEF Apart
  <1> QED
    BY <1>1, <1>3, <1>4, <1>5

(* What the callback copies is the message the call was made for. *)
LEMMA Copied ==
  ASSUME PathInv, events # <<>>, cbpc = "put", NEW msg,
         msg = IF Event.buf = None THEN Event.msg ELSE sys_buf[Event.buf]
  PROVE  /\ msg = Event.msg /\ msg \in Msg /\ msg \in OptMsg
         /\ msg = [id |-> dealt + 1, kind |-> msg.kind] /\ msg.kind \in Kinds
  <1>1. msg = Event.msg /\ msg \in Msg /\ msg.id = dealt + 1 - Owed
    BY DoneFacts
  <1>2. Owed = 0 /\ dealt \in Nat
    BY DEF Owed, PathInv, FieldTypes
  <1>3. msg.id = dealt + 1 /\ msg = [id |-> msg.id, kind |-> msg.kind] /\ msg.kind \in Kinds
    BY <1>1, <1>2 DEF Msg
  <1> QED
    BY <1>1, <1>3 DEF OptMsg

LEMMA QueuePutFacts ==
  ASSUME RingOK, NEW msg \in OptMsg, QueuePut(msg), q_dropped \in Nat
  PROVE  /\ RingOK' /\ q_dropped' \in {q_dropped, q_dropped + 1}
         /\ \/ /\ msg.kind \notin Fitting \/ Len(Waiting) = QCap - 1
               /\ Waiting' = Waiting
            \/ /\ msg.kind \in Fitting /\ Len(Waiting) < QCap - 1
               /\ Waiting' = Append(Waiting, msg)
  <1>1. CASE msg.kind \notin Fitting /\ UNCHANGED queueVars
    BY <1>1 DEF queueVars, RingOK, Waiting
  <1>2. CASE /\ msg.kind \in Fitting /\ After(q_head) = q_tail /\ q_dropped' = q_dropped + 1
             /\ UNCHANGED <<q, q_head, q_tail>>
    <2>1. Len(Waiting) = QCap - 1
      BY <1>2, Full, WaitingFacts
    <2> QED
      BY <1>2, <2>1 DEF RingOK, Waiting
  <1>3. CASE /\ msg.kind \in Fitting /\ After(q_head) # q_tail
             /\ q' = [q EXCEPT ![q_head] = msg] /\ q_head' = After(q_head)
             /\ UNCHANGED <<q_tail, q_dropped>>
    BY <1>3, PutWaits
  <1> QED
    BY <1>1, <1>2, <1>3 DEF QueuePut

LEMMA PutKeeps ==
  ASSUME PathInv, CallbackPut
  PROVE  PathInv'
  <1> DEFINE msg == IF Event.buf = None THEN Event.msg ELSE sys_buf[Event.buf]
  <1>1. RingOK /\ FieldTypes /\ Numbered /\ Filled /\ Apart
    BY DEF PathInv
  <1>2. /\ events # <<>> /\ cbpc = "put" /\ QueuePut(msg) /\ dealt' = dealt + 1
        /\ Event.msg.kind # "broken"
        /\ UNCHANGED <<received, split, added, sys_buf, sys_returned, audioVars>>
    BY DEF CallbackPut
  <1>3. msg \in OptMsg
    BY <1>2, Copied
  <1>4. dealt \in Nat /\ q_dropped \in 0 .. dealt
    BY <1>1 DEF FieldTypes
  <1>5. RingOK' /\ q_dropped' \in {q_dropped, q_dropped + 1}
    BY <1>1, <1>2, <1>3, <1>4, QueuePutFacts
  <1>6. dealt' \in Nat /\ q_dropped' \in 0 .. dealt'
    BY <1>2, <1>4, <1>5
  <1>7. Owed = 0
    BY <1>2 DEF Owed
  <1>8. CASE Event.buf = None
    <2>1. cbpc' = "put" /\ events' = Tail(events)
      BY <1>8 DEF CallbackPut
    <2>2. events' \in Seq(EventsOf) /\ Numbered' /\ Filled' /\ Apart'
      BY <1>2, <1>4, <1>6, <1>7, <2>1, DoneKeeps
    <2>3. FieldTypes'
      BY <1>1, <1>2, <1>6, <2>1, <2>2 DEF FieldTypes, EventsOf, audioVars
    <2> QED
      BY <1>5, <2>2, <2>3 DEF PathInv
  <1>9. CASE Event.buf # None
    <2>1. cbpc' = "flag" /\ events' = events
      BY <1>9 DEF CallbackPut
    <2>2. FieldTypes'
      BY <1>1, <1>2, <1>6, <2>1 DEF FieldTypes, audioVars
    <2>3. Numbered'
      <3>1. /\ dealt + Len(events) = received + 0
            /\ \A k \in 1 .. Len(events) : events[k].msg.id = dealt + k - 0
        BY <1>1, <1>7 DEF Numbered
      <3>2. Owed' = 1 /\ received' = received /\ received \in Nat /\ Len(events) \in Nat
        BY <1>1, <1>2, <2>1, MidiInAssumption DEF Owed, FieldTypes
      <3>3. events[1].buf # None /\ events[1].msg.kind # "broken"
        BY <1>2, <1>9, DoneFacts
      <3>4. \A k \in 1 .. Len(events) : dealt + k - 0 = (dealt + 1) + k - 1
        BY <1>4
      <3> QED
        BY <1>2, <1>4, <2>1, <3>1, <3>2, <3>3, <3>4 DEF Numbered
    <2>4. Filled' /\ Apart'
      BY <1>1, <1>2, <2>1 DEF Filled, Apart
    <2> QED
      BY <1>5, <2>2, <2>3, <2>4 DEF PathInv
  <1> QED
    BY <1>8, <1>9

LEMMA FlagKeeps ==
  ASSUME PathInv, CallbackFlag
  PROVE  PathInv'
  <1>1. RingOK /\ FieldTypes /\ Numbered /\ Filled /\ Apart
    BY DEF PathInv
  <1>2. /\ cbpc = "flag" /\ cbpc' = "put" /\ events' = Tail(events)
        /\ sys_returned' = [sys_returned EXCEPT ![Event.buf] = TRUE]
        /\ UNCHANGED <<received, split, added, sys_buf, queueVars, audioVars, dealt>>
    BY DEF CallbackFlag
  <1>3. events # <<>> /\ events[1].buf # None
    BY <1>1, <1>2 DEF Numbered
  <1>4. Owed = 1 /\ dealt \in Nat /\ dealt' = dealt + 1 - Owed /\ dealt' \in Nat
    BY <1>1, <1>2 DEF Owed, FieldTypes
  <1>5. events' \in Seq(EventsOf) /\ Numbered' /\ Filled'
    BY <1>2, <1>3, <1>4, DoneKeeps
  <1>6. /\ Len(events) \in Nat \ {0} /\ Event = events[1] /\ Event.buf \in SysBufs
        /\ 1 \in 1 .. Len(events) /\ Event.buf # None /\ Len(events') = Len(events) - 1
        /\ \A k \in 1 .. Len(events) - 1 : /\ events'[k] = events[k + 1]
                                          /\ k + 1 \in 1 .. Len(events)
    BY <1>2, <1>3, DoneFacts
  <1>7. FieldTypes'
    BY <1>1, <1>2, <1>5, <1>6 DEF FieldTypes, EventsOf, audioVars, queueVars
  <1>8. \A j, k \in 1 .. Len(events') :
          events'[j].buf # None /\ j # k => events'[j].buf # events'[k].buf
    <2> SUFFICES ASSUME NEW j \in 1 .. Len(events) - 1, NEW k \in 1 .. Len(events) - 1,
                        events[j + 1].buf # None, j # k
                 PROVE  events[j + 1].buf # events[k + 1].buf
      BY <1>6
    <2>1. j + 1 # k + 1
      BY <1>6
    <2> QED BY <1>1, <1>6, <2>1 DEF Apart
  <1>9. \A k \in 1 .. Len(events') : events'[k].buf = None \/ events'[k].buf # Event.buf
    <2> SUFFICES ASSUME NEW k \in 1 .. Len(events) - 1
                 PROVE  events[k + 1].buf = None \/ events[k + 1].buf # events[1].buf
      BY <1>6
    <2>1. k + 1 # 1
      BY <1>6
    <2> QED BY <1>1, <1>6, <2>1 DEF Apart
  <1>10. \A j \in 1 .. Len(added) : added[j] # Event.buf
    BY <1>1, <1>6 DEF Apart
  <1>11. ASSUME NEW i \in SysBufs, sys_returned'[i]
         PROVE  /\ \A j \in 1 .. Len(added) : added[j] # i
                /\ \A k \in 1 .. Len(events') : events'[k].buf = None \/ events'[k].buf # i
    <2>1. CASE i = Event.buf
      BY <1>9, <1>10, <2>1
    <2>2. CASE i # Event.buf
      <3>1. sys_returned[i]
        BY <1>1, <1>2, <1>6, <1>11, <2>2 DEF FieldTypes
      <3> QED BY <1>1, <1>6, <3>1 DEF Apart
    <2> QED BY <2>1, <2>2
  <1>12. \A j \in 1 .. Len(added), k \in 1 .. Len(events') :
           events'[k].buf # None => events'[k].buf # added[j]
    BY <1>1, <1>6 DEF Apart
  <1>13. Apart'
    BY <1>1, <1>2, <1>8, <1>11, <1>12 DEF Apart
  <1>14. RingOK'
    BY <1>1, <1>2 DEF RingOK, queueVars
  <1> QED
    BY <1>5, <1>7, <1>13, <1>14 DEF PathInv

LEMMA IgnoreKeeps ==
  ASSUME PathInv, CallbackIgnores
  PROVE  PathInv' /\ dealt' = dealt + 1
  <1>1. RingOK /\ FieldTypes /\ Numbered
    BY DEF PathInv
  <1>2. /\ events # <<>> /\ Event.msg.kind = "broken" /\ dealt' = dealt + 1
        /\ events' = Tail(events)
        /\ UNCHANGED <<received, split, added, sys_buf, cbpc, sys_returned,
                       queueVars, audioVars>>
    BY DEF CallbackIgnores
  <1>3. cbpc = "put"
    <2>1. events[1].msg.kind = "broken"
      BY <1>2, DoneFacts
    <2> QED BY <1>1, <2>1 DEF Numbered, FieldTypes
  <1>4. Owed = 0 /\ dealt \in Nat /\ dealt' \in Nat /\ q_dropped \in 0 .. dealt
    BY <1>1, <1>2, <1>3 DEF Owed, FieldTypes
  <1>5. events' \in Seq(EventsOf) /\ Numbered' /\ Filled' /\ Apart'
    BY <1>2, <1>3, <1>4, DoneKeeps
  <1>6. q_dropped' \in 0 .. dealt'
    BY <1>2, <1>4 DEF queueVars
  <1>7. FieldTypes'
    BY <1>1, <1>2, <1>4, <1>5, <1>6 DEF FieldTypes, EventsOf, audioVars
  <1>8. RingOK'
    BY <1>1, <1>2 DEF RingOK, queueVars
  <1> QED
    BY <1>2, <1>5, <1>7, <1>8 DEF PathInv

-----------------------------------------------------------------------------
(* The audio loop. *)

LEMMA ReAddKeeps ==
  ASSUME PathInv, ReAdd
  PROVE  PathInv'
  <1>1. RingOK /\ FieldTypes /\ Numbered /\ Filled /\ Apart
    BY DEF PathInv
  <1>2. /\ sys_returned' = [sys_returned EXCEPT ![b] = FALSE]
        /\ added' = IF sys_returned[b] THEN Append(added, b) ELSE added
        /\ UNCHANGED <<received, split, sys_buf, events, cbpc, queueVars, m, dealt>>
        /\ \/ b + 1 < NSysBuf /\ pc' = pc /\ b' = b + 1
           \/ pc' = "scan" /\ b' = 0
        /\ pc = "readd"
    BY DEF ReAdd
  <1>3. /\ b \in SysBufs /\ b \in Nat /\ added \in Seq(SysBufs) /\ Len(added) \in Nat
        /\ sys_returned \in [SysBufs -> BOOLEAN]
    BY <1>1, <1>2 DEF FieldTypes
  <1>4. b' \in Nat /\ (pc' = "readd" => b' \in SysBufs)
    BY <1>2, <1>3, MidiInAssumption DEF SysBufs
  <1>5. added' \in Seq(SysBufs) /\ sys_returned' \in [SysBufs -> BOOLEAN]
    BY <1>2, <1>3
  <1>6. pc' \in {"console", "readd", "scan", "drain", "stopped"}
    BY <1>2
  <1>7. FieldTypes'
    BY <1>1, <1>2, <1>4, <1>5, <1>6 DEF FieldTypes, queueVars
  <1>8. Numbered' /\ Filled' /\ RingOK'
    BY <1>1, <1>2 DEF Numbered, Filled, RingOK, Owed, queueVars
  <1>9. \A i \in SysBufs : sys_returned'[i] => sys_returned[i] /\ i # b
    BY <1>2, <1>3
  <1>10. CASE ~sys_returned[b]
    <2>1. added' = added
      BY <1>2, <1>10
    <2> QED
      BY <1>1, <1>2, <1>7, <1>8, <1>9, <2>1 DEF Apart, PathInv
  <1>11. CASE sys_returned[b]
    <2>1. /\ Len(added') = Len(added) + 1 /\ added'[Len(added) + 1] = b
          /\ \A j \in 1 .. Len(added) : added'[j] = added[j]
      BY <1>2, <1>3, <1>11
    <2>2. /\ \A j \in 1 .. Len(added) : added[j] # b
          /\ \A k \in 1 .. Len(events) : events[k].buf = None \/ events[k].buf # b
      BY <1>1, <1>3, <1>11 DEF Apart
    <2>3. \A j, k \in 1 .. Len(added') : j # k => added'[j] # added'[k]
      <3> SUFFICES ASSUME NEW j \in 1 .. Len(added) + 1, NEW k \in 1 .. Len(added) + 1, j # k
                   PROVE  added'[j] # added'[k]
        BY <2>1
      <3>1. CASE j \in 1 .. Len(added) /\ k \in 1 .. Len(added)
        BY <1>1, <2>1, <3>1 DEF Apart
      <3>2. CASE j \in 1 .. Len(added) /\ k = Len(added) + 1
        BY <2>1, <2>2, <3>2
      <3>3. CASE j = Len(added) + 1 /\ k \in 1 .. Len(added)
        BY <2>1, <2>2, <3>3
      <3> QED BY <1>3, <3>1, <3>2, <3>3
    <2>4. \A j \in 1 .. Len(added') : j \in 1 .. Len(added) \/ j = Len(added) + 1
      BY <1>3, <2>1
    <2>5. \A j \in 1 .. Len(added'), k \in 1 .. Len(events) :
            events[k].buf # None => events[k].buf # added'[j]
      BY <1>1, <2>1, <2>2, <2>4 DEF Apart
    <2>6. \A i \in SysBufs : sys_returned'[i] => \A j \in 1 .. Len(added') : added'[j] # i
      BY <1>1, <1>9, <2>1, <2>4 DEF Apart
    <2>7. \A i \in SysBufs : sys_returned'[i] =>
            \A k \in 1 .. Len(events) : events[k].buf = None \/ events[k].buf # i
      BY <1>1, <1>9 DEF Apart
    <2>8. Apart'
      BY <1>1, <1>2, <2>3, <2>5, <2>6, <2>7 DEF Apart
    <2> QED
      BY <1>7, <1>8, <2>8 DEF PathInv
  <1> QED
    BY <1>10, <1>11

(* The steps that only move the loop on. *)
LEMMA LoopKeeps ==
  ASSUME PathInv, PollConsole \/ Scan \/ DrainEnd
  PROVE  PathInv' /\ UNCHANGED <<q, q_head, q_tail, dealt, m>>
  <1>1. RingOK /\ FieldTypes /\ Numbered /\ Filled /\ Apart
    BY DEF PathInv
  <1>2. UNCHANGED <<driverVars, cbpc, sys_returned, queueVars, m, dealt>>
    BY DEF PollConsole, Scan, DrainEnd
  <1>3. RingOK' /\ Numbered' /\ Filled' /\ Apart'
    BY <1>1, <1>2 DEF RingOK, Numbered, Owed, Filled, Apart, driverVars, queueVars
  <1>4. b \in Nat /\ 0 \in SysBufs
    BY <1>1, MidiInAssumption DEF FieldTypes, SysBufs
  <1>5. /\ pc' \in {"console", "readd", "scan", "drain", "stopped"} /\ b' \in Nat
        /\ pc' = "readd" => b' \in SysBufs
    BY <1>4 DEF PollConsole, Scan, DrainEnd
  <1>6. FieldTypes'
    BY <1>1, <1>2, <1>5 DEF FieldTypes, driverVars, queueVars
  <1> QED
    BY <1>2, <1>3, <1>6 DEF PathInv, queueVars

LEMMA TakeKeeps ==
  ASSUME PathInv, DrainTake
  PROVE  /\ PathInv' /\ dealt' = dealt
         /\ Waiting # <<>> /\ m' = Head(Waiting) /\ Waiting' = Tail(Waiting)
  <1>1. RingOK /\ FieldTypes /\ Numbered /\ Filled /\ Apart
    BY DEF PathInv
  <1>2. /\ q_tail # q_head /\ m' = q[q_tail] /\ q_tail' = After(q_tail)
        /\ UNCHANGED <<q, q_head, q_dropped>> /\ pc = "drain"
        /\ UNCHANGED <<driverVars, cbpc, sys_returned, pc, b, dealt>>
    BY DEF DrainTake, QueueGet
  <1>3. /\ RingOK' /\ Waiting # <<>> /\ q[q_tail] = Head(Waiting)
        /\ Waiting' = Tail(Waiting)
    BY <1>1, <1>2, GetTakes
  <1>4. m' \in OptMsg
    BY <1>1, <1>2 DEF RingOK
  <1>5. FieldTypes'
    BY <1>1, <1>2, <1>4 DEF FieldTypes, driverVars
  <1>6. Numbered' /\ Filled' /\ Apart'
    BY <1>1, <1>2 DEF Numbered, Owed, Filled, Apart, driverVars
  <1> QED
    BY <1>2, <1>3, <1>5, <1>6 DEF PathInv

LEMMA DriverKeeps ==
  ASSUME PathInv, Driver
  PROVE  PathInv' /\ UNCHANGED <<q, q_head, q_tail, dealt, m>>
  <1>1. UNCHANGED <<cbpc, sys_returned, queueVars, audioVars, dealt>>
    BY DEF Driver
  <1>2. PathInv'
    BY <1>1, ShortKeeps, LongKeeps DEF Driver
  <1> QED
    BY <1>1, <1>2 DEF queueVars, audioVars

LEMMA PathNext == PathInv /\ [Next]_vars => PathInv'
  <1> SUFFICES ASSUME PathInv, [Next]_vars PROVE PathInv'
    OBVIOUS
  <1>1. CASE Driver
    BY <1>1, DriverKeeps
  <1>2. CASE Callback
    BY <1>2, PutKeeps, FlagKeeps, IgnoreKeeps DEF Callback
  <1>3. CASE Audio
    BY <1>3, ReAddKeeps, LoopKeeps, TakeKeeps DEF Audio
  <1>4. CASE UNCHANGED vars
    BY <1>4 DEF PathInv, RingOK, FieldTypes, Numbered, Owed, Filled, Apart,
                vars, driverVars, queueVars, audioVars
  <1> QED
    BY <1>1, <1>2, <1>3, <1>4 DEF Next

-----------------------------------------------------------------------------
(* The two threads amount to the queue. *)

LEMMA PathMapsInit == Init => Path!Init
  <1> SUFFICES ASSUME Init PROVE Path!Init
    OBVIOUS
  <1>1. RingOK /\ q_tail = q_head /\ dealt = 0 /\ m = None
    BY PathInit DEF Init, PathInv
  <1>2. Waiting \in Seq(OptMsg) /\ Len(Waiting) = 0
    BY <1>1, WaitingFacts, Empty
  <1>3. Waiting = <<>>
    BY <1>2
  <1> QED
    BY <1>1, <1>3 DEF Path!Init

LEMMA PathMapsStep == PathInv /\ [Next]_vars => [Path!Next]_(Path!vars)
  <1> SUFFICES ASSUME PathInv, [Next]_vars PROVE [Path!Next]_(Path!vars)
    OBVIOUS
  <1>1. RingOK /\ FieldTypes
    BY DEF PathInv
  <1>2. ASSUME UNCHANGED <<q, q_head, q_tail, dealt, m>> PROVE UNCHANGED Path!vars
    BY <1>2 DEF Path!vars, Waiting
  <1>3. CASE CallbackPut
    <2> DEFINE msg == IF Event.buf = None THEN Event.msg ELSE sys_buf[Event.buf]
    <2>1. /\ events # <<>> /\ cbpc = "put" /\ QueuePut(msg) /\ dealt' = dealt + 1 /\ m' = m
      BY <1>3 DEF CallbackPut, audioVars
    <2>2. /\ msg \in OptMsg /\ msg = [id |-> dealt + 1, kind |-> msg.kind] /\ msg.kind \in Kinds
      BY <2>1, Copied
    <2>3. q_dropped \in Nat /\ dealt \in Nat
      BY <1>1 DEF FieldTypes
    <2> HIDE DEF msg
    <2>4. \/ /\ msg.kind \notin Fitting \/ Len(Waiting) = QCap - 1
             /\ Waiting' = Waiting
          \/ /\ msg.kind \in Fitting /\ Len(Waiting) < QCap - 1
             /\ Waiting' = Append(Waiting, msg)
      BY <1>1, <2>1, <2>2, <2>3, QueuePutFacts
    <2>5. Path!Lose(msg.kind) \/ Path!Queue(msg.kind)
      BY <2>1, <2>2, <2>4 DEF Path!Lose, Path!Queue
    <2> QED
      BY <2>2, <2>5 DEF Path!Next
  <1>4. CASE CallbackIgnores
    <2>1. dealt' = dealt + 1 /\ UNCHANGED <<q, q_head, q_tail, m>>
      BY <1>4 DEF CallbackIgnores, queueVars, audioVars
    <2>2. "broken" \in Kinds /\ "broken" \notin Fitting
      BY DEF Kinds, LongKinds, Fitting
    <2>3. Path!Lose("broken")
      BY <2>1, <2>2 DEF Path!Lose, Waiting
    <2> QED
      BY <2>2, <2>3 DEF Path!Next
  <1>5. CASE DrainTake
    <2>1. /\ dealt' = dealt /\ Waiting # <<>> /\ m' = Head(Waiting)
          /\ Waiting' = Tail(Waiting)
      BY <1>5, TakeKeeps
    <2> QED
      BY <2>1 DEF Path!Next, Path!Take
  <1>6. CASE CallbackFlag
    BY <1>2, <1>6 DEF CallbackFlag, queueVars, audioVars
  <1>7. CASE ReAdd
    BY <1>2, <1>7 DEF ReAdd, queueVars
  <1>8. CASE Driver \/ PollConsole \/ Scan \/ DrainEnd
    BY <1>2, <1>8, DriverKeeps, LoopKeeps
  <1>9. CASE UNCHANGED vars
    BY <1>2, <1>9 DEF vars, queueVars, audioVars
  <1> QED
    BY <1>3, <1>4, <1>5, <1>6, <1>7, <1>8, <1>9 DEF Next, Callback, Audio

LEMMA InvTypes == PathInv => TypeOK
  <1> SUFFICES ASSUME PathInv PROVE TypeOK
    OBVIOUS
  <1>1. RingOK /\ FieldTypes /\ Numbered
    BY DEF PathInv
  <1>2. /\ received \in 0 .. MaxMsgs /\ MaxMsgs \in Nat /\ dealt \in Nat
        /\ q_dropped \in 0 .. dealt /\ cbpc \in {"put", "flag"} /\ Len(events) \in Nat
        /\ events \in Seq(EventsOf)
    BY <1>1, MidiInAssumption DEF FieldTypes, EventsOf
  <1>3. dealt <= received
    <2>1. dealt + Len(events) = received + Owed
      BY <1>1 DEF Numbered
    <2>2. CASE cbpc = "put"
      BY <1>2, <2>1, <2>2 DEF Owed
    <2>3. CASE cbpc = "flag"
      <3>1. Len(events) # 0
        BY <1>1, <1>2, <2>3 DEF Numbered
      <3> QED BY <1>2, <2>1, <2>3, <3>1 DEF Owed
    <2> QED BY <1>2, <2>2, <2>3
  <1>4. dealt \in 0 .. MaxMsgs /\ q_dropped \in 0 .. MaxMsgs
    BY <1>2, <1>3
  <1> QED
    BY <1>1, <1>4 DEF TypeOK, FieldTypes, RingOK

(* The state of driver, callback and audio loop keeps its types. *)
THEOREM PathTypes == Spec => []TypeOK
  BY PathInit, PathNext, InvTypes, PTL DEF Spec

(* A sysex buffer is with the driver, in one of the callbacks it owes, or
   flagged to be given back: in one of them, and once. *)
THEOREM BufferOnce == Spec => []Apart
  <1>1. PathInv => Apart
    BY DEF PathInv
  <1> QED
    BY <1>1, PathInit, PathNext, PTL DEF Spec

(* Whatever the interleaving of callback and audio loop, the size of the ring
   and the number of buffers, messages are taken in the order they arrived,
   each once and as it arrived, and lost only to their size or to a full
   ring. *)
THEOREM PathImplements == Spec => ImplementsMidiPath
  <1>1. Spec => Path!Init /\ [][Path!Next]_(Path!vars)
    BY PathInit, PathNext, PathMapsInit, PathMapsStep, PTL DEF Spec
  <1> QED
    BY <1>1 DEF ImplementsMidiPath, Path!Spec

-----------------------------------------------------------------------------
(* The daemons, with names that are each a path of its own: no event misses two
   blocks, a running daemon's socket is its own, and a command is run by the
   daemon it was meant for. *)

Turns == {"off", "poll", "console", "read", "midi", "render", "write", "end"}
Sources == {"stdin", "control", "midi", "card"}
Stages == {"away", "open", "sent", "closed", "served", "dropped", "refused"}
Someone == Daemons \cup {Nobody}
ClientRecs == [at : Stages, for : Someone, by : Someone, says : {"map", "quit"}]

LoopTypes ==
  /\ loop \in [Daemons -> [pc : Turns, fired : SUBSET Sources]]
  /\ stop \in [Daemons -> BOOLEAN] /\ console \in [Daemons -> BOOLEAN]
  /\ ctl \in [Daemons -> BOOLEAN]
  /\ typed \in [Daemons -> {"nothing", "quit", "end"}]
  /\ midi \in [Daemons -> Seq(Nat)]
  /\ card \in [Daemons -> {"full", "room", "xrun"}]
  /\ socket \in [Paths -> Someone]
  /\ waiting \in [Daemons -> Seq(Clients)]
  /\ client \in [Clients -> ClientRecs]

(* A daemon that is about to read has a client to read from: one was there
   when it polled, and only its own loop takes one away.  Between the drain
   and the block, only events that came since are held. *)
InTurn(d) ==
  /\ At(d, "read") \/ (At(d, "console") /\ Fired(d, "control")) => waiting[d] # <<>>
  /\ ctl[d] => Looping(d)
  /\ \A k \in DOMAIN midi[d] : midi[d][k] <= (IF At(d, "render") THEN 0 ELSE 1)

Owns ==
  /\ \A d \in Daemons : ctl[d] => socket[PathOf(d)] = d
  /\ \A p \in Paths : socket[p] # Nobody => PathOf(socket[p]) = p

(* Those who wait at a daemon meant it. *)
Meant ==
  /\ \A d \in Daemons : \A k \in 1 .. Len(waiting[d]) :
       /\ client[waiting[d][k]].at # "away"
       /\ client[waiting[d][k]].at \in {"open", "sent", "closed"} =>
            client[waiting[d][k]].for = d
  /\ \A c \in Clients : client[c].at = "served" => client[c].by = client[c].for

LoopInv == LoopTypes /\ \A d \in Daemons : InTurn(d)

LEMMA LoopInit == DaemonInit => LoopInv /\ Owns /\ Meant
  <1> SUFFICES ASSUME DaemonInit PROVE LoopInv /\ Owns /\ Meant
    OBVIOUS
  <1>1. LoopTypes
    BY DEF DaemonInit, LoopTypes, Away, Turns, Sources, Stages, Someone, Nobody, ClientRecs
  <1>2. ASSUME NEW d \in Daemons PROVE InTurn(d)
    BY DEF DaemonInit, InTurn, At
  <1>3. Owns
    BY DEF DaemonInit, Owns, Nobody
  <1>4. Meant
    BY DEF DaemonInit, Meant, Away
  <1> QED
    BY <1>1, <1>2, <1>3, <1>4 DEF LoopInv

-----------------------------------------------------------------------------
(* What each action does to the types. *)

LEMMA LeaveTypes ==
  ASSUME LoopTypes, NEW d \in Daemons, Leave(d), socket' \in [Paths -> Someone]
  PROVE  LoopTypes'
  <1>1. Dropped \in ClientRecs
    BY DEF Dropped, Away, Stages, Someone, ClientRecs
  <1>2. client' \in [Clients -> ClientRecs]
    BY <1>1 DEF Leave, Drop, LoopTypes
  <1>3. <<>> \in Seq(Nat) /\ <<>> \in Seq(Clients)
    OBVIOUS
  <1>4. loop' \in [Daemons -> [pc : Turns, fired : SUBSET Sources]]
    BY DEF Leave, LoopTypes, Turns
  <1> QED
    BY <1>2, <1>3, <1>4 DEF Leave, LoopTypes

LEMMA GotoTypes ==
  ASSUME LoopTypes, NEW d \in Daemons, NEW to \in Turns, Goto(d, to)
  PROVE  /\ loop' \in [Daemons -> [pc : Turns, fired : SUBSET Sources]]
         /\ \A e \in Daemons : e # d => loop'[e] = loop[e]
         /\ loop'[d].pc = to
         /\ loop'[d].fired = IF to = "poll" THEN {} ELSE loop[d].fired
  BY DEF Goto, LoopTypes

(* A client that moves on keeps the daemon it means. *)
LEMMA Moves ==
  ASSUME NEW r \in ClientRecs, NEW at \in Stages
  PROVE  /\ [r EXCEPT !.at = at] \in ClientRecs
         /\ [r EXCEPT !.at = at].at = at /\ [r EXCEPT !.at = at].for = r.for
  BY DEF ClientRecs

LEMMA ServedFacts ==
  ASSUME LoopTypes, NEW c \in Clients, NEW d \in Daemons,
         client' = [client EXCEPT ![c].at = "served", ![c].by = d]
  PROVE  /\ client' \in [Clients -> ClientRecs]
         /\ client'[c].at = "served" /\ client'[c].by = d /\ client'[c].for = client[c].for
         /\ \A x \in Clients : x # c => client'[x] = client[x]
  <1>1. client \in [Clients -> ClientRecs] /\ "served" \in Stages /\ d \in Someone
    BY DEF LoopTypes, Stages, Someone
  <1>2. client' = [x \in Clients |-> IF x = c THEN [client[c] EXCEPT !.at = "served", !.by = d]
                                      ELSE client[x]]
    BY <1>1
  <1>3. /\ [client[c] EXCEPT !.at = "served", !.by = d] \in ClientRecs
        /\ [client[c] EXCEPT !.at = "served", !.by = d].at = "served"
        /\ [client[c] EXCEPT !.at = "served", !.by = d].for = client[c].for
        /\ [client[c] EXCEPT !.at = "served", !.by = d].by = d
    <2>1. client[c] \in ClientRecs
      BY <1>1
    <2> QED
      BY <1>1, <2>1 DEF ClientRecs
  <1> QED
    BY <1>1, <1>2, <1>3

LEMMA MovedFacts ==
  ASSUME LoopTypes, NEW c \in Clients, NEW at \in Stages,
         client' = [client EXCEPT ![c].at = at]
  PROVE  /\ client' \in [Clients -> ClientRecs]
         /\ client'[c].at = at /\ client'[c].for = client[c].for
         /\ \A x \in Clients : x # c => client'[x] = client[x]
  <1>1. client \in [Clients -> ClientRecs]
    BY DEF LoopTypes
  <1>2. client' = [x \in Clients |-> IF x = c THEN [client[c] EXCEPT !.at = at] ELSE client[x]]
    BY <1>1
  <1>3. /\ [client[c] EXCEPT !.at = at] \in ClientRecs
        /\ [client[c] EXCEPT !.at = at].at = at
        /\ [client[c] EXCEPT !.at = at].for = client[c].for
    BY <1>1, Moves
  <1> QED
    BY <1>1, <1>2, <1>3

(* What a poll that told of something leaves, whether the card's part of it
   could be read or not. *)
LEMMA PolledTypes ==
  ASSUME LoopTypes, NEW d \in Daemons, NEW fired, Polled(d, fired),
         fired \in {Ready(d), Ready(d) \cup {"card"}}
  PROVE  /\ LoopTypes'
         /\ "control" \in fired => waiting[d] # <<>>
  <1>1. fired \in SUBSET Sources
    BY DEF Ready, Sources
  <1>2. loop' \in [Daemons -> [pc : Turns, fired : SUBSET Sources]]
    BY <1>1 DEF Polled, LoopTypes, Turns
  <1>3. "control" \in fired => waiting[d] # <<>>
    BY DEF Ready
  <1> QED
    BY <1>2, <1>3 DEF Polled, LoopTypes

LEMMA TurnTypes ==
  ASSUME LoopTypes, NEW d \in Daemons, InTurn(d), Turn(d)
  PROVE  LoopTypes'
  <1>1. CASE Poll(d)
    BY <1>1, PolledTypes DEF Poll
  <1>2. CASE Console(d)
    <2>1. loop' \in [Daemons -> [pc : Turns, fired : SUBSET Sources]]
      BY <1>2, GotoTypes DEF Console, Turns
    <2>2. /\ stop' \in [Daemons -> BOOLEAN] /\ console' \in [Daemons -> BOOLEAN]
          /\ typed' \in [Daemons -> {"nothing", "quit", "end"}]
      BY <1>2 DEF Console, Command, LoopTypes
    <2> QED
      BY <1>2, <2>1, <2>2 DEF Console, LoopTypes
  <1>3. CASE Read(d)
    <2> DEFINE c == Head(waiting[d])
    <2>1. waiting[d] \in Seq(Clients) /\ waiting[d] # <<>>
      BY <1>3 DEF Read, InTurn, LoopTypes
    <2>2. c \in Clients /\ Tail(waiting[d]) \in Seq(Clients)
      BY <2>1
    <2>3. loop' \in [Daemons -> [pc : Turns, fired : SUBSET Sources]]
      BY <1>3, GotoTypes DEF Read, Turns
    <2>4. client' \in [Clients -> ClientRecs]
      <3>1. Dropped \in ClientRecs
        BY DEF Dropped, Away, Stages, Someone, ClientRecs
      <3>2. \/ client' = [client EXCEPT ![c].at = "served", ![c].by = d]
            \/ client' = [client EXCEPT ![c] = Dropped]
        BY <1>3 DEF Read
      <3>3. CASE client' = [client EXCEPT ![c] = Dropped]
        BY <2>2, <3>1, <3>3 DEF LoopTypes
      <3> HIDE DEF c
      <3> QED
        BY <2>2, <3>2, <3>3, ServedFacts
    <2>5. stop' \in [Daemons -> BOOLEAN]
      BY <1>3 DEF Read, Command, LoopTypes
    <2>6. waiting' \in [Daemons -> Seq(Clients)]
      BY <1>3, <2>2 DEF Read, LoopTypes
    <2> QED
      BY <1>3, <2>3, <2>4, <2>5, <2>6 DEF Read, LoopTypes
  <1>4. CASE Drain(d)
    <2>1. loop' \in [Daemons -> [pc : Turns, fired : SUBSET Sources]]
      BY <1>4, GotoTypes DEF Drain, Turns
    <2>2. midi' \in [Daemons -> Seq(Nat)]
      BY <1>4 DEF Drain, LoopTypes
    <2> QED
      BY <1>4, <2>1, <2>2 DEF Drain, LoopTypes
  <1>5. CASE Render(d)
    <2>1. loop' \in [Daemons -> [pc : Turns, fired : SUBSET Sources]]
      BY <1>5, GotoTypes DEF Render, Turns
    <2>2. [k \in DOMAIN midi[d] |-> midi[d][k] + 1] \in Seq(Nat)
      <3>1. midi[d] \in Seq(Nat)
        BY DEF LoopTypes
      <3>2. DOMAIN midi[d] = 1 .. Len(midi[d]) /\ Len(midi[d]) \in Nat
        BY <3>1
      <3>3. \A k \in 1 .. Len(midi[d]) : midi[d][k] + 1 \in Nat
        BY <3>1
      <3> QED BY <3>2, <3>3
    <2>3. midi' \in [Daemons -> Seq(Nat)]
      BY <1>5, <2>2 DEF Render, LoopTypes
    <2> QED
      BY <1>5, <2>1, <2>3 DEF Render, LoopTypes
  <1>6. CASE End(d)
    <2>1. socket' \in [Paths -> Someone]
      BY <1>6 DEF End, LoopTypes, Someone
    <2> QED
      BY <1>6, <2>1, LeaveTypes DEF End
  <1>7. CASE Write(d)
    <2>1. loop' \in [Daemons -> [pc : Turns, fired : SUBSET Sources]]
      BY <1>7, GotoTypes DEF Write, Turns
    <2>2. card' \in [Daemons -> {"full", "room", "xrun"}]
      BY <1>7 DEF Write, LoopTypes
    <2> QED
      BY <1>7, <2>1, <2>2 DEF Write, LoopTypes
  <1> QED
    BY <1>1, <1>2, <1>3, <1>4, <1>5, <1>6, <1>7 DEF Turn

LEMMA AroundTypes ==
  ASSUME LoopTypes, Around
  PROVE  LoopTypes'
  <1>1. ASSUME NEW d \in Daemons, Start(d) PROVE LoopTypes'
    <2>1. loop' \in [Daemons -> [pc : Turns, fired : SUBSET Sources]]
      BY <1>1, GotoTypes DEF Start, Begin, Turns
    <2>2. card' \in [Daemons -> {"full", "room", "xrun"}]
      BY <1>1 DEF Start, Begin, LoopTypes
    <2>3. socket' \in [Paths -> Someone] /\ ctl' \in [Daemons -> BOOLEAN]
      <3>1. PICK owner \in {d, Nobody, socket[PathOf(d)]}, ok \in BOOLEAN :
              /\ socket' = [socket EXCEPT ![PathOf(d)] = owner]
              /\ ctl' = [ctl EXCEPT ![d] = ok]
        BY <1>1 DEF Start
      <3>2. owner \in Someone
        BY DEF Someone, LoopTypes, Paths
      <3>3. socket' \in [Paths -> Someone]
        BY <3>1, <3>2 DEF LoopTypes
      <3>4. ctl' \in [Daemons -> BOOLEAN]
        BY <3>1 DEF LoopTypes
      <3> QED BY <3>3, <3>4
    <2> QED
      BY <1>1, <2>1, <2>2, <2>3 DEF Start, Begin, LoopTypes
  <1>2. ASSUME NEW d \in Daemons, Killed(d) PROVE LoopTypes'
    BY <1>2, LeaveTypes DEF Killed, LoopTypes
  <1>3. ASSUME NEW d \in Daemons, MidiArrives(d) PROVE LoopTypes'
    <2>1. midi' \in [Daemons -> Seq(Nat)]
      BY <1>3 DEF MidiArrives, LoopTypes
    <2> QED
      BY <1>3, <2>1 DEF MidiArrives, LoopTypes
  <1>4. ASSUME NEW d \in Daemons, CardDrains(d) PROVE LoopTypes'
    <2>1. card' \in [Daemons -> {"full", "room", "xrun"}]
      BY <1>4 DEF CardDrains, LoopTypes
    <2> QED
      BY <1>4, <2>1 DEF CardDrains, LoopTypes
  <1>5. ASSUME NEW d \in Daemons, Signal(d) PROVE LoopTypes'
    <2>1. stop' \in [Daemons -> BOOLEAN]
      BY <1>5 DEF Signal, LoopTypes
    <2> QED
      BY <1>5, <2>1 DEF Signal, LoopTypes
  <1>6. ASSUME NEW d \in Daemons, NEW what \in {"quit", "end"}, Types(d, what) PROVE LoopTypes'
    <2>1. typed' \in [Daemons -> {"nothing", "quit", "end"}]
      BY <1>6 DEF Types, LoopTypes
    <2> QED
      BY <1>6, <2>1 DEF Types, LoopTypes
  <1>7. ASSUME NEW d \in Daemons, NEW c \in Clients, NEW says \in {"map", "quit"},
               Connect(c, d, says)
        PROVE  LoopTypes'
    <2>1. PathOf(d) \in Paths
      BY DEF Paths
    <2>2. client' \in [Clients -> ClientRecs]
      <3>1. [at |-> "open", for |-> d, by |-> Nobody, says |-> says] \in ClientRecs
        BY DEF ClientRecs, Stages, Someone
      <3>2. \/ client' = [client EXCEPT ![c] = [at |-> "open", for |-> d,
                                               by |-> Nobody, says |-> says]]
            \/ client' = [client EXCEPT ![c].at = "refused"]
        BY <1>7 DEF Connect
      <3>3. "refused" \in Stages
        BY DEF Stages
      <3> QED
        BY <3>1, <3>2, <3>3, MovedFacts DEF LoopTypes
    <2>3. waiting' \in [Daemons -> Seq(Clients)]
      <3>1. CASE waiting' = waiting
        BY <3>1 DEF LoopTypes
      <3>2. CASE socket[PathOf(d)] # Nobody /\ ctl[socket[PathOf(d)]]
        <4>1. waiting' = [waiting EXCEPT ![socket[PathOf(d)]] = Append(@, c)]
          BY <1>7, <3>2 DEF Connect
        <4>2. socket[PathOf(d)] \in Daemons
          BY <2>1, <3>2 DEF LoopTypes, Someone
        <4> QED BY <4>1, <4>2 DEF LoopTypes
      <3> QED BY <1>7, <3>1, <3>2 DEF Connect
    <2> QED
      BY <1>7, <2>2, <2>3 DEF Connect, LoopTypes
  <1>8. ASSUME NEW c \in Clients, Writes(c) PROVE LoopTypes'
    <2>1. client' \in [Clients -> ClientRecs]
      <3>1. PICK at \in {"sent", "closed"} : client' = [client EXCEPT ![c].at = at]
        BY <1>8 DEF Writes
      <3> QED
        BY <3>1, MovedFacts DEF Stages
    <2> QED
      BY <1>8, <2>1 DEF Writes, LoopTypes
  <1>9. ASSUME NEW d \in Daemons, PollBlind(d) PROVE LoopTypes'
    BY <1>9, PolledTypes DEF PollBlind
  <1>10. ASSUME NEW d \in Daemons, PollFails(d) PROVE LoopTypes'
    <2>1. loop' \in [Daemons -> [pc : Turns, fired : SUBSET Sources]]
      BY <1>10, GotoTypes DEF PollFails, Turns
    <2> QED
      BY <1>10, <2>1 DEF PollFails, LoopTypes
  <1> QED
    BY <1>1, <1>2, <1>3, <1>4, <1>5, <1>6, <1>7, <1>8, <1>9, <1>10 DEF Around

-----------------------------------------------------------------------------
(* What is sound about each daemon stays so. *)

LEMMA Others ==
  ASSUME NEW e \in Daemons, InTurn(e), loop'[e] = loop[e], ctl'[e] = ctl[e],
         midi'[e] = midi[e], waiting'[e] = waiting[e]
  PROVE  InTurn(e)'
  BY DEF InTurn, At, Fired, Looping

LEMMA PolledSound ==
  ASSUME LoopInv, NEW d \in Daemons, NEW fired, Polled(d, fired),
         fired \in {Ready(d), Ready(d) \cup {"card"}}, NEW e \in Daemons
  PROVE  InTurn(e)'
  <1>1. /\ LoopTypes /\ InTurn(d) /\ InTurn(e)
        /\ loop \in [Daemons -> [pc : Turns, fired : SUBSET Sources]]
    BY DEF LoopInv, LoopTypes
  <1>2. CASE e = d
    <2>1. /\ loop'[d].pc = "console" /\ loop'[d].fired = fired /\ At(d, "poll")
          /\ UNCHANGED <<ctl, midi, waiting>>
      BY <1>1 DEF Polled
    <2>2. "control" \in fired => waiting[d] # <<>>
      BY <1>1, PolledTypes
    <2> QED
      BY <1>1, <1>2, <2>1, <2>2 DEF InTurn, At, Fired, Looping
  <1>3. CASE e # d
    BY <1>1, <1>3, Others DEF Polled
  <1> QED BY <1>2, <1>3

LEMMA TurnSound ==
  ASSUME LoopInv, NEW d \in Daemons, Turn(d), NEW e \in Daemons
  PROVE  InTurn(e)'
  <1>1. /\ LoopTypes /\ InTurn(d) /\ InTurn(e) /\ ctl \in [Daemons -> BOOLEAN]
        /\ midi \in [Daemons -> Seq(Nat)] /\ waiting \in [Daemons -> Seq(Clients)]
        /\ loop \in [Daemons -> [pc : Turns, fired : SUBSET Sources]]
    BY DEF LoopInv, LoopTypes
  <1>2. CASE Poll(d)
    BY <1>2, PolledSound DEF Poll
  <1>3. CASE Console(d)
    <2> DEFINE to == IF Fired(d, "control") THEN "read" ELSE "midi"
    <2>1. /\ Goto(d, to) /\ to \in Turns /\ UNCHANGED <<ctl, midi, waiting>> /\ At(d, "console")
      BY <1>3 DEF Console, Turns
    <2>2. CASE e = d
      <3>1. loop'[d].pc = to
        BY <1>1, <2>1, GotoTypes
      <3> QED
        BY <1>1, <2>1, <2>2, <3>1 DEF InTurn, At, Fired, Looping
    <2>3. CASE e # d
      BY <1>1, <2>1, <2>3, GotoTypes, Others
    <2> QED BY <2>2, <2>3
  <1>4. CASE Read(d)
    <2>1. /\ Goto(d, "midi") /\ "midi" \in Turns /\ UNCHANGED <<ctl, midi>> /\ At(d, "read")
          /\ waiting' = [waiting EXCEPT ![d] = Tail(@)]
      BY <1>4 DEF Read, Turns
    <2>2. CASE e = d
      <3>1. loop'[d].pc = "midi"
        BY <1>1, <2>1, GotoTypes
      <3> QED
        BY <1>1, <2>1, <2>2, <3>1 DEF InTurn, At, Fired, Looping
    <2>3. CASE e # d
      BY <1>1, <2>1, <2>3, GotoTypes, Others
    <2> QED BY <2>2, <2>3
  <1>5. CASE Drain(d)
    <2> DEFINE to == IF Fired(d, "card") THEN "render" ELSE "poll"
    <2>1. /\ Goto(d, to) /\ to \in Turns /\ UNCHANGED <<ctl, waiting>> /\ At(d, "midi")
          /\ midi' = [midi EXCEPT ![d] = <<>>]
      BY <1>5 DEF Drain, Turns
    <2>2. CASE e = d
      <3>1. loop'[d].pc = to /\ midi'[d] = <<>>
        BY <1>1, <2>1, GotoTypes
      <3> QED
        BY <1>1, <2>1, <2>2, <3>1 DEF InTurn, At, Fired, Looping
    <2>3. CASE e # d
      BY <1>1, <2>1, <2>3, GotoTypes, Others
    <2> QED BY <2>2, <2>3
  <1>6. CASE Render(d)
    <2>1. /\ Goto(d, "write") /\ "write" \in Turns /\ UNCHANGED <<ctl, waiting>>
          /\ At(d, "render") /\ midi' = [midi EXCEPT ![d] = [k \in DOMAIN @ |-> @[k] + 1]]
      BY <1>6 DEF Render, Turns
    <2>3. CASE e = d
      <3>1. loop'[d].pc = "write"
        BY <1>1, <2>1, GotoTypes
      <3>2. midi'[d] = [k \in DOMAIN midi[d] |-> midi[d][k] + 1]
        BY <1>1, <2>1
      <3>3. ASSUME NEW k \in DOMAIN midi'[d] PROVE midi'[d][k] <= 1
        <4>1. k \in DOMAIN midi[d] /\ midi'[d][k] = midi[d][k] + 1
          BY <3>2
        <4>2. midi[d] \in Seq(Nat)
          BY <1>1
        <4>3. midi[d][k] \in Nat
          BY <4>1, <4>2
        <4>4. midi[d][k] <= 0
          BY <1>1, <2>1, <4>1 DEF InTurn
        <4> QED BY <4>1, <4>3, <4>4
      <3> QED
        BY <1>1, <2>1, <2>3, <3>1, <3>3 DEF InTurn, At, Fired, Looping
    <2>4. CASE e # d
      BY <1>1, <2>1, <2>4, GotoTypes, Others
    <2> QED BY <2>3, <2>4
  <1>7. CASE End(d)
    <2>1. Leave(d)
      BY <1>7 DEF End
    <2>2. CASE e = d
      BY <1>1, <2>1, <2>2 DEF Leave, InTurn, At, Fired, Looping
    <2>3. CASE e # d
      BY <1>1, <2>1, <2>3, Others DEF Leave
    <2> QED BY <2>2, <2>3
  <1>8. CASE Write(d)
    <2>1. PICK to \in {"poll", "end"} : Goto(d, to)
      BY <1>8 DEF Write
    <2>2. to \in Turns /\ UNCHANGED <<ctl, midi, waiting>> /\ At(d, "write")
      BY <1>8 DEF Write, Turns
    <2>3. CASE e = d
      <3>1. loop'[d].pc = to
        BY <1>1, <2>1, <2>2, GotoTypes
      <3> QED
        BY <1>1, <2>1, <2>2, <2>3, <3>1 DEF InTurn, At, Fired, Looping
    <2>4. CASE e # d
      BY <1>1, <2>1, <2>2, <2>4, GotoTypes, Others
    <2> QED BY <2>3, <2>4
  <1> QED
    BY <1>2, <1>3, <1>4, <1>5, <1>6, <1>7, <1>8 DEF Turn

LEMMA AroundSound ==
  ASSUME LoopInv, Around, NEW e \in Daemons
  PROVE  InTurn(e)'
  <1>1. /\ LoopTypes /\ InTurn(e) /\ ctl \in [Daemons -> BOOLEAN]
        /\ midi \in [Daemons -> Seq(Nat)] /\ waiting \in [Daemons -> Seq(Clients)]
        /\ loop \in [Daemons -> [pc : Turns, fired : SUBSET Sources]]
    BY DEF LoopInv, LoopTypes
  <1>2. ASSUME NEW d \in Daemons, Start(d) PROVE InTurn(e)'
    <2>1. /\ Goto(d, "poll") /\ "poll" \in Turns /\ UNCHANGED <<midi, waiting>> /\ At(d, "off")
          /\ \E ok \in BOOLEAN : ctl' = [ctl EXCEPT ![d] = ok]
      BY <1>2 DEF Start, Begin, Turns
    <2>2. CASE e = d
      <3>1. loop'[d].pc = "poll"
        BY <1>1, <2>1, GotoTypes
      <3> QED
        BY <1>1, <2>1, <2>2, <3>1 DEF InTurn, At, Fired, Looping
    <2>3. CASE e # d
      BY <1>1, <2>1, <2>3, GotoTypes, Others
    <2> QED BY <2>2, <2>3
  <1>3. ASSUME NEW d \in Daemons, Killed(d) PROVE InTurn(e)'
    <2>1. Leave(d)
      BY <1>3 DEF Killed
    <2>2. CASE e = d
      BY <1>1, <2>1, <2>2 DEF Leave, InTurn, At, Fired, Looping
    <2>3. CASE e # d
      BY <1>1, <2>1, <2>3, Others DEF Leave
    <2> QED BY <2>2, <2>3
  <1>4. ASSUME NEW d \in Daemons, MidiArrives(d) PROVE InTurn(e)'
    <2>1. midi' = [midi EXCEPT ![d] = Append(@, 0)] /\ UNCHANGED <<loop, ctl, waiting>>
      BY <1>4 DEF MidiArrives
    <2>2. CASE e = d
      <3>1. midi[d] \in Seq(Nat) /\ midi'[d] = Append(midi[d], 0)
        BY <1>1, <2>1
      <3>2. ASSUME NEW k \in DOMAIN midi'[d]
            PROVE  midi'[d][k] <= (IF At(d, "render") THEN 0 ELSE 1)
        <4>1. k \in 1 .. Len(midi[d]) \/ k = Len(midi[d]) + 1
          BY <3>1
        <4>2. CASE k \in 1 .. Len(midi[d])
          <5>1. k \in DOMAIN midi[d] /\ midi'[d][k] = midi[d][k]
            BY <3>1, <4>2
          <5> QED BY <1>1, <2>2, <5>1 DEF InTurn
        <4>3. CASE k = Len(midi[d]) + 1
          <5>1. midi'[d][k] = 0
            BY <3>1, <4>3
          <5> QED BY <5>1
        <4> QED BY <4>1, <4>2, <4>3
      <3> QED
        BY <1>1, <2>1, <2>2, <3>2 DEF InTurn, At, Fired, Looping
    <2>3. CASE e # d
      BY <1>1, <2>1, <2>3, Others
    <2> QED BY <2>2, <2>3
  <1>5. ASSUME NEW d \in Daemons, NEW c \in Clients, NEW says \in {"map", "quit"},
               Connect(c, d, says)
        PROVE  InTurn(e)'
    <2>1. /\ UNCHANGED <<loop, ctl, midi>>
          /\ \/ waiting' = waiting
             \/ waiting' = [waiting EXCEPT ![socket[PathOf(d)]] = Append(@, c)]
      BY <1>5 DEF Connect
    <2>2. waiting'[e] = waiting[e] \/ waiting'[e] = Append(waiting[e], c)
      BY <1>1, <2>1
    <2>3. waiting[e] # <<>> => waiting'[e] # <<>>
      BY <1>1, <2>2
    <2> QED
      BY <1>1, <2>1, <2>3 DEF InTurn, At, Fired, Looping
  <1>6. CASE \/ \E d \in Daemons : \/ CardDrains(d) \/ Signal(d)
                                 \/ \E what \in {"quit", "end"} : Types(d, what)
             \/ \E c \in Clients : Writes(c)
    BY <1>1, <1>6, Others DEF CardDrains, Signal, Types, Writes
  <1>7. ASSUME NEW d \in Daemons, PollBlind(d) PROVE InTurn(e)'
    BY <1>7, PolledSound DEF PollBlind
  <1>8. ASSUME NEW d \in Daemons, PollFails(d) PROVE InTurn(e)'
    <2>1. /\ Goto(d, "end") /\ "end" \in Turns /\ UNCHANGED <<ctl, midi, waiting>>
          /\ At(d, "poll")
      BY <1>8 DEF PollFails, Turns
    <2>2. CASE e = d
      <3>1. loop'[d].pc = "end"
        BY <1>1, <2>1, GotoTypes
      <3> QED
        BY <1>1, <2>1, <2>2, <3>1 DEF InTurn, At, Fired, Looping
    <2>3. CASE e # d
      BY <1>1, <2>1, <2>3, GotoTypes, Others
    <2> QED BY <2>2, <2>3
  <1> QED
    BY <1>2, <1>3, <1>4, <1>5, <1>6, <1>7, <1>8 DEF Around

LEMMA LoopNext == LoopInv /\ [DaemonNext]_daemonVars => LoopInv'
  <1> SUFFICES ASSUME LoopInv, [DaemonNext]_daemonVars PROVE LoopInv'
    OBVIOUS
  <1>1. ASSUME NEW d \in Daemons, Turn(d) PROVE LoopInv'
    <2>1. LoopTypes /\ InTurn(d)
      BY DEF LoopInv
    <2> QED
      BY <1>1, <2>1, TurnTypes, TurnSound DEF LoopInv
  <1>2. CASE Around
    <2>1. LoopTypes
      BY DEF LoopInv
    <2> QED
      BY <1>2, <2>1, AroundTypes, AroundSound DEF LoopInv
  <1>3. CASE UNCHANGED daemonVars
    BY <1>3 DEF LoopInv, LoopTypes, InTurn, At, Fired, Looping, daemonVars
  <1> QED
    BY <1>1, <1>2, <1>3 DEF DaemonNext

-----------------------------------------------------------------------------
(* The sockets and who waits at them. *)

OwnPaths == \A d, e \in Daemons : PathOf(d) = PathOf(e) => d = e

LEMMA OwnsNext ==
  ASSUME OwnPaths, LoopInv, Owns, [DaemonNext]_daemonVars
  PROVE  Owns'
  <1>1. /\ ctl \in [Daemons -> BOOLEAN] /\ socket \in [Paths -> Someone]
        /\ \A d \in Daemons : PathOf(d) \in Paths
    BY DEF LoopInv, LoopTypes, Paths
  <1>2. ASSUME NEW d \in Daemons, Start(d) PROVE Owns'
    <2>1. PICK owner \in {d, Nobody, socket[PathOf(d)]}, ok \in BOOLEAN :
            /\ ok => owner = d
            /\ socket' = [socket EXCEPT ![PathOf(d)] = owner]
            /\ ctl' = [ctl EXCEPT ![d] = ok]
      BY <1>2 DEF Start
    <2>2. ASSUME NEW e \in Daemons, ctl'[e] PROVE socket'[PathOf(e)] = e
      <3>1. CASE e = d
        BY <1>1, <2>1, <2>2, <3>1
      <3>2. CASE e # d
        <4>1. PathOf(e) # PathOf(d) /\ ctl[e]
          BY <1>1, <2>1, <2>2, <3>2 DEF OwnPaths
        <4> QED BY <1>1, <2>1, <4>1 DEF Owns
      <3> QED BY <3>1, <3>2
    <2>3. ASSUME NEW p \in Paths, socket'[p] # Nobody PROVE PathOf(socket'[p]) = p
      <3>1. CASE p = PathOf(d)
        BY <1>1, <2>1, <2>3, <3>1 DEF Owns
      <3>2. CASE p # PathOf(d)
        BY <1>1, <2>1, <2>3, <3>2 DEF Owns
      <3> QED BY <3>1, <3>2
    <2>4. \A e : PathOf(e)' = PathOf(e)
      BY DEF PathOf, SafeName
    <2> QED
      BY <2>2, <2>3, <2>4 DEF Owns
  <1>3. ASSUME NEW d \in Daemons, End(d) PROVE Owns'
    <2>1. /\ socket' = [socket EXCEPT ![PathOf(d)] = IF ctl[d] THEN Nobody ELSE @]
          /\ ctl' = [ctl EXCEPT ![d] = FALSE]
      BY <1>3 DEF End, Leave
    <2>2. ASSUME NEW e \in Daemons, ctl'[e] PROVE socket'[PathOf(e)] = e
      <3>1. e # d /\ ctl[e]
        BY <1>1, <2>1, <2>2
      <3>2. PathOf(e) # PathOf(d)
        BY <3>1 DEF OwnPaths
      <3> QED BY <1>1, <2>1, <3>1, <3>2 DEF Owns
    <2>3. ASSUME NEW p \in Paths, socket'[p] # Nobody PROVE PathOf(socket'[p]) = p
      <3>1. socket'[p] = socket[p]
        BY <1>1, <2>1, <2>3
      <3> QED BY <2>3, <3>1 DEF Owns
    <2> QED
      BY <2>2, <2>3 DEF Owns
  <1>4. ASSUME NEW d \in Daemons, Killed(d) PROVE Owns'
    BY <1>1, <1>4 DEF Killed, Leave, Owns
  <1>5. ASSUME UNCHANGED <<socket, ctl>> PROVE Owns'
    BY <1>5 DEF Owns
  <1> QED
    BY <1>2, <1>3, <1>4, <1>5 DEF DaemonNext, Turn, Around, Poll, PollBlind, PollFails,
       Polled, Console, Read, Drain, Render, Write,
       MidiArrives, CardDrains, Signal, Types, Connect, Writes, daemonVars

(* Those that a daemon leaves see their end. *)
LEMMA LeaveMeant ==
  ASSUME LoopInv, Meant, NEW d \in Daemons, Leave(d)
  PROVE  Meant'
  <1>1. /\ client \in [Clients -> ClientRecs] /\ waiting \in [Daemons -> Seq(Clients)]
    BY DEF LoopInv, LoopTypes
  <1>2. /\ client' = [c \in Clients |-> IF c \in Range(waiting[d]) THEN Dropped ELSE client[c]]
        /\ waiting' = [waiting EXCEPT ![d] = <<>>]
    BY DEF Leave, Drop
  <1>3. Dropped.at = "dropped"
    BY DEF Dropped, Away
  <1>4. \A c \in Clients : client'[c] = client[c] \/ client'[c].at = "dropped"
    BY <1>2, <1>3
  <1>5. ASSUME NEW e \in Daemons, NEW k \in 1 .. Len(waiting'[e])
        PROVE  /\ client'[waiting'[e][k]].at # "away"
               /\ client'[waiting'[e][k]].at \in {"open", "sent", "closed"} =>
                    client'[waiting'[e][k]].for = e
    <2>1. e # d
      BY <1>1, <1>2, <1>5
    <2>2. waiting'[e] = waiting[e] /\ waiting[e] \in Seq(Clients)
      BY <1>1, <1>2, <2>1
    <2>3. k \in 1 .. Len(waiting[e]) /\ waiting[e][k] \in Clients
      BY <2>2
    <2> QED
      BY <1>4, <2>2, <2>3 DEF Meant
  <1>6. \A c \in Clients : client'[c].at = "served" => client'[c].by = client'[c].for
    BY <1>4 DEF Meant
  <1> QED
    BY <1>5, <1>6 DEF Meant

(* A client moved on, and nobody else did: to be served, by the daemon it
   meant. *)
LEMMA MovedMeant ==
  ASSUME LoopInv, Meant, NEW c \in Clients, waiting' = waiting,
         client[c].at # "away", client'[c].at # "away",
         client'[c].for = client[c].for \/ client'[c].at \notin {"open", "sent", "closed"},
         client'[c].at \in {"open", "sent", "closed"} =>
           client[c].at \in {"open", "sent", "closed"},
         client'[c].at = "served" => client'[c].by = client'[c].for,
         \A x \in Clients : x # c => client'[x] = client[x]
  PROVE  Meant'
  <1>1. waiting \in [Daemons -> Seq(Clients)]
    BY DEF LoopInv, LoopTypes
  <1>2. ASSUME NEW e \in Daemons, NEW k \in 1 .. Len(waiting[e])
        PROVE  /\ client'[waiting[e][k]].at # "away"
               /\ client'[waiting[e][k]].at \in {"open", "sent", "closed"} =>
                    client'[waiting[e][k]].for = e
    <2>1. waiting[e][k] \in Clients
      BY <1>1
    <2>2. CASE waiting[e][k] = c
      BY <1>2, <2>2 DEF Meant
    <2>3. CASE waiting[e][k] # c
      BY <1>2, <2>1, <2>3 DEF Meant
    <2> QED BY <2>2, <2>3
  <1>3. \A x \in Clients : client'[x].at = "served" => client'[x].by = client'[x].for
    BY DEF Meant
  <1> QED
    BY <1>2, <1>3 DEF Meant

LEMMA ReadMeant ==
  ASSUME LoopInv, Meant, NEW d \in Daemons, Read(d)
  PROVE  Meant'
  <1> DEFINE c == Head(waiting[d])
  <1>1. /\ client \in [Clients -> ClientRecs] /\ waiting \in [Daemons -> Seq(Clients)]
        /\ waiting[d] # <<>> /\ LoopTypes
    BY DEF LoopInv, LoopTypes, InTurn, Read
  <1>2. /\ Len(waiting[d]) \in Nat \ {0} /\ c = waiting[d][1] /\ c \in Clients
        /\ 1 \in 1 .. Len(waiting[d])
    BY <1>1
  <1>3. /\ waiting' = [waiting EXCEPT ![d] = Tail(@)] /\ client[c].at \in {"sent", "closed"}
        /\ \/ client' = [client EXCEPT ![c].at = "served", ![c].by = d]
           \/ client' = [client EXCEPT ![c] = Dropped]
    BY DEF Read
  <1>4. client[c].for = d
    BY <1>2, <1>3 DEF Meant
  <1> HIDE DEF c
  <1>5. /\ client'[c].at \in {"served", "dropped"}
        /\ client'[c].at = "served" => client'[c].by = client'[c].for
        /\ \A x \in Clients : x # c => client'[x] = client[x]
    <2>1. CASE client' = [client EXCEPT ![c].at = "served", ![c].by = d]
      BY <1>1, <1>2, <1>4, <2>1, ServedFacts
    <2>2. CASE client' = [client EXCEPT ![c] = Dropped]
      <3>1. Dropped.at = "dropped"
        BY DEF Dropped, Away
      <3> QED BY <1>1, <1>2, <2>2, <3>1
    <2> QED BY <1>3, <2>1, <2>2
  <1>6. ASSUME NEW e \in Daemons, NEW k \in 1 .. Len(waiting'[e])
        PROVE  \E j \in 1 .. Len(waiting[e]) : waiting'[e][k] = waiting[e][j]
    <2>1. CASE e = d
      <3>1. /\ waiting'[d] = Tail(waiting[d]) /\ waiting[d] \in Seq(Clients)
            /\ Len(waiting'[d]) = Len(waiting[d]) - 1
        BY <1>1, <1>2, <1>3
      <3>2. k + 1 \in 1 .. Len(waiting[d]) /\ waiting'[d][k] = waiting[d][k + 1]
        BY <1>1, <1>2, <1>6, <2>1, <3>1
      <3> QED BY <2>1, <3>2
    <2>2. CASE e # d
      BY <1>1, <1>3, <1>6, <2>2
    <2> QED BY <2>1, <2>2
  <1>7. ASSUME NEW e \in Daemons, NEW k \in 1 .. Len(waiting'[e])
        PROVE  /\ client'[waiting'[e][k]].at # "away"
               /\ client'[waiting'[e][k]].at \in {"open", "sent", "closed"} =>
                    client'[waiting'[e][k]].for = e
    <2>1. PICK j \in 1 .. Len(waiting[e]) : waiting'[e][k] = waiting[e][j]
      BY <1>6
    <2>2. waiting[e][j] \in Clients
      BY <1>1
    <2>3. CASE waiting[e][j] = c
      BY <1>5, <2>1, <2>3
    <2>4. CASE waiting[e][j] # c
      BY <1>5, <2>1, <2>2, <2>4 DEF Meant
    <2> QED BY <2>3, <2>4
  <1>8. \A x \in Clients : client'[x].at = "served" => client'[x].by = client'[x].for
    BY <1>5 DEF Meant
  <1> QED
    BY <1>7, <1>8 DEF Meant

(* A client that connects is at the path of the daemon it means, and so at
   that daemon. *)
LEMMA ConnectMeant ==
  ASSUME OwnPaths, LoopInv, Owns, Meant,
         NEW c \in Clients, NEW d \in Daemons, NEW says \in {"map", "quit"},
         Connect(c, d, says)
  PROVE  Meant'
  <1> DEFINE there == socket[PathOf(d)]
  <1>1. /\ client \in [Clients -> ClientRecs] /\ waiting \in [Daemons -> Seq(Clients)]
        /\ LoopTypes /\ there \in Someone /\ client[c].at = "away"
    BY DEF LoopInv, LoopTypes, Paths, Connect
  <1>2. \A e \in Daemons : \A k \in 1 .. Len(waiting[e]) :
          waiting[e][k] \in Clients /\ waiting[e][k] # c
    <2> SUFFICES ASSUME NEW e \in Daemons, NEW k \in 1 .. Len(waiting[e])
                 PROVE  waiting[e][k] \in Clients /\ waiting[e][k] # c
      OBVIOUS
    <2>1. waiting[e][k] \in Clients
      BY <1>1
    <2>2. client[waiting[e][k]].at # "away"
      BY DEF Meant
    <2> QED BY <1>1, <2>1, <2>2
  <1>3. CASE there # Nobody /\ ctl[there]
    <2>1. there \in Daemons
      BY <1>1, <1>3 DEF Someone
    <2>2. there = d
      <3>1. PathOf(d) \in Paths
        BY DEF Paths
      <3>2. PathOf(there) = PathOf(d)
        BY <1>3, <3>1 DEF Owns
      <3> QED BY <2>1, <3>2 DEF OwnPaths
    <2> DEFINE new == [at |-> "open", for |-> d, by |-> Nobody, says |-> says]
    <2>3. /\ client' = [client EXCEPT ![c] = new] /\ waiting' = [waiting EXCEPT ![d] = Append(@, c)]
      BY <1>3, <2>2 DEF Connect
    <2>4. new.at = "open" /\ new.for = d
      OBVIOUS
    <2> HIDE DEF new
    <2>5. client'[c] = new /\ \A x \in Clients : x # c => client'[x] = client[x]
      BY <1>1, <2>3
    <2>6. ASSUME NEW e \in Daemons, NEW k \in 1 .. Len(waiting'[e])
          PROVE  \/ k \in 1 .. Len(waiting[e]) /\ waiting'[e][k] = waiting[e][k]
                 \/ e = d /\ waiting'[e][k] = c
      <3>1. CASE e = d
        <4>1. waiting[d] \in Seq(Clients) /\ waiting'[d] = Append(waiting[d], c)
          BY <1>1, <2>3
        <4>2. k \in 1 .. Len(waiting[d]) \/ k = Len(waiting[d]) + 1
          BY <2>6, <3>1, <4>1
        <4> QED BY <3>1, <4>1, <4>2
      <3>2. CASE e # d
        BY <1>1, <2>3, <2>6, <3>2
      <3> QED BY <3>1, <3>2
    <2>7. ASSUME NEW e \in Daemons, NEW k \in 1 .. Len(waiting'[e])
          PROVE  /\ client'[waiting'[e][k]].at # "away"
                 /\ client'[waiting'[e][k]].at \in {"open", "sent", "closed"} =>
                      client'[waiting'[e][k]].for = e
      <3>1. CASE e = d /\ waiting'[e][k] = c
        BY <2>4, <2>5, <3>1
      <3>2. CASE k \in 1 .. Len(waiting[e]) /\ waiting'[e][k] = waiting[e][k]
        BY <1>2, <2>5, <3>2 DEF Meant
      <3> QED BY <2>6, <3>1, <3>2
    <2>8. \A x \in Clients : client'[x].at = "served" => client'[x].by = client'[x].for
      BY <2>4, <2>5 DEF Meant
    <2> QED
      BY <2>7, <2>8 DEF Meant
  <1>4. CASE ~(there # Nobody /\ ctl[there])
    <2>1. client' = [client EXCEPT ![c].at = "refused"] /\ waiting' = waiting
      BY <1>4 DEF Connect
    <2>2. client'[c].at = "refused" /\ \A x \in Clients : x # c => client'[x] = client[x]
      BY <1>1, <2>1, MovedFacts DEF Stages
    <2>3. \A x \in Clients : client'[x].at = "served" => client'[x].by = client'[x].for
      BY <2>2 DEF Meant
    <2>4. \A e \in Daemons : \A k \in 1 .. Len(waiting[e]) :
            client'[waiting[e][k]] = client[waiting[e][k]]
      BY <1>2, <2>2
    <2> QED
      BY <2>1, <2>3, <2>4 DEF Meant
  <1> QED
    BY <1>3, <1>4

LEMMA MeantNext ==
  ASSUME OwnPaths, LoopInv, Owns, Meant, [DaemonNext]_daemonVars
  PROVE  Meant'
  <1>1. ASSUME NEW d \in Daemons, Read(d) PROVE Meant'
    BY <1>1, ReadMeant
  <1>2. ASSUME NEW d \in Daemons, End(d) \/ Killed(d) PROVE Meant'
    BY <1>2, LeaveMeant DEF End, Killed
  <1>3. ASSUME NEW c \in Clients, NEW d \in Daemons, NEW says \in {"map", "quit"},
               Connect(c, d, says)
        PROVE  Meant'
    BY <1>3, ConnectMeant
  <1>4. ASSUME NEW c \in Clients, Writes(c) PROVE Meant'
    <2>1. PICK at \in {"sent", "closed"} : client' = [client EXCEPT ![c].at = at]
      BY <1>4 DEF Writes
    <2>2. /\ client'[c].at = at /\ client'[c].for = client[c].for
          /\ \A x \in Clients : x # c => client'[x] = client[x]
      BY <2>1, MovedFacts DEF LoopInv, Stages
    <2>3. client[c].at = "open" /\ waiting' = waiting
      BY <1>4 DEF Writes
    <2> QED
      BY <2>2, <2>3, MovedMeant
  <1>5. ASSUME UNCHANGED <<client, waiting>> PROVE Meant'
    BY <1>5 DEF Meant
  <1> QED
    BY <1>1, <1>2, <1>3, <1>4, <1>5 DEF DaemonNext, Turn, Around, Poll, PollBlind, PollFails,
       Polled, Console, Drain, Render, Write,
       Start, Begin, MidiArrives, CardDrains, Signal, Types, daemonVars

LEMMA LoopInvTypes == LoopInv => DaemonTypeOK
  <1> SUFFICES ASSUME LoopInv PROVE DaemonTypeOK
    OBVIOUS
  <1>1. /\ LoopTypes /\ \A d \in Daemons : InTurn(d)
    BY DEF LoopInv
  <1>2. ASSUME NEW d \in Daemons
        PROVE  /\ loop[d].pc \in Turns /\ loop[d].fired \subseteq Sources
               /\ {stop[d], console[d], ctl[d]} \subseteq BOOLEAN
               /\ typed[d] \in {"nothing", "quit", "end"}
               /\ card[d] \in {"full", "room", "xrun"}
    BY <1>1 DEF LoopTypes
  <1>3. \A d \in Daemons : (At(d, "read") => waiting[d] # <<>>) /\ (ctl[d] => Looping(d))
    BY <1>1 DEF InTurn
  <1>4. \A p \in Paths : socket[p] \in Daemons \cup {Nobody}
    BY <1>1 DEF LoopTypes, Someone
  <1> QED
    BY <1>2, <1>3, <1>4 DEF DaemonTypeOK, Turns, Sources

-----------------------------------------------------------------------------
(* The theorems. *)

(* No event misses two blocks, whatever arrives at the daemons: the order in
   which the loop serves terminal, clients, MIDI and card lets none through. *)
THEOREM EventsInTime == DaemonSpec => []NoneMissesTwoBlocks
  <1>1. LoopInv => NoneMissesTwoBlocks
    <2> SUFFICES ASSUME LoopInv, NEW d \in Daemons, NEW k \in DOMAIN midi[d]
                 PROVE  midi[d][k] <= 1
      BY DEF NoneMissesTwoBlocks
    <2>1. midi[d] \in Seq(Nat) /\ midi[d][k] <= (IF At(d, "render") THEN 0 ELSE 1)
      BY DEF LoopInv, LoopTypes, InTurn
    <2>2. midi[d][k] \in Nat
      BY <2>1
    <2> QED BY <2>1, <2>2
  <1> QED
    BY <1>1, LoopInit, LoopNext, PTL DEF DaemonSpec

(* With names that are each a path of its own, a running daemon's socket is
   the one at its path and a command is run by the daemon it was meant for,
   through any starts, ends and kills. *)
THEOREM SocketsOwned ==
  ASSUME OwnPaths
  PROVE  DaemonSpec => []SocketIsItsOwn
  <1>1. LoopInv /\ Owns /\ Meant /\ [DaemonNext]_daemonVars => (LoopInv /\ Owns /\ Meant)'
    BY LoopNext, OwnsNext, MeantNext
  <1>2. Owns /\ Meant => SocketIsItsOwn
    BY DEF Owns, Meant, SocketIsItsOwn
  <1> QED
    BY <1>1, <1>2, LoopInit, PTL DEF DaemonSpec

(* The loops' state keeps its types; a daemon about to read has somebody to
   read from. *)
THEOREM DaemonTypes == DaemonSpec => []DaemonTypeOK
  <1>1. LoopInv => DaemonTypeOK
    BY LoopInvTypes
  <1> QED
    BY <1>1, LoopInit, LoopNext, PTL DEF DaemonSpec
=============================================================================
