---------------------------- MODULE Plugin_proof ----------------------------
(***************************************************************************)
(* What the proofs about both plugins rest on: what the tone lists hold,   *)
(* for any table of patches, and what the engine's operations do to a part.*)
(***************************************************************************)
EXTENDS PluginEngine, ToneLists, WellFoundedInduction, TLAPS

-----------------------------------------------------------------------------
(* The lists. *)

LEMMA Least ==
  ASSUME NEW S, S \subseteq Nat, S # {}
  PROVE  \E x \in S : \A y \in S : ~ y < x
  <1>1. \E x \in S : \A y \in S : ~ (<<y, x>> \in OpToRel(<, Nat))
    BY NatLessThanWellFounded, WFMin
  <1>2. \A x, y \in S : y < x => <<y, x>> \in OpToRel(<, Nat)
    BY Zenon DEF OpToRel
  <1> QED
    BY <1>1, <1>2, Zenon

LEMMA SetInduction ==
  ASSUME NEW S, 0 \in S, \A n \in Nat : n \in S => n + 1 \in S
  PROVE  Nat \subseteq S
  <1> DEFINE T == Nat \ S
  <1> SUFFICES ASSUME T # {} PROVE FALSE
    OBVIOUS
  <1>1. PICK x \in T : \A y \in T : ~ y < x
    BY Least
  <1> QED
    BY <1>1

LEMMA MinIn ==
  ASSUME NEW S, S \subseteq Nat, S # {}
  PROVE  Min(S) \in S
  <1>1. PICK x \in S : \A y \in S : ~ y < x
    BY Least
  <1>2. \A y \in S : x <= y
    BY <1>1
  <1> QED
    BY <1>2 DEF Min

LEMMA Numbers ==
  /\ Maps \subseteq Nat /\ Banks \subseteq Nat /\ Programs \subseteq Nat
  /\ DefaultMap \in Maps /\ Default = DefaultMap /\ 0 \in Banks /\ 0 \in Programs
  /\ Len(Patches) \in Nat /\ DOMAIN Patches = 1 .. Len(Patches)
  /\ \A i \in 1 .. Len(Patches) :
       /\ Patches[i] \in [map : Maps, bank : Banks, prog : Programs, drum : BOOLEAN]
       /\ Patches[i].map \in Maps /\ Patches[i].bank \in Banks
       /\ Patches[i].prog \in Programs /\ Patches[i].drum \in BOOLEAN
  /\ FirstProgram \in Programs /\ PowerOnPart \in Part
  <1>1. Patches \in Seq([map : Maps, bank : Banks, prog : Programs, drum : BOOLEAN])
    BY PatchesAssumption
  <1>2. /\ Len(Patches) \in Nat /\ DOMAIN Patches = 1 .. Len(Patches)
        /\ \A i \in 1 .. Len(Patches) :
             Patches[i] \in [map : Maps, bank : Banks, prog : Programs, drum : BOOLEAN]
    <2> DEFINE T == [map : Maps, bank : Banks, prog : Programs, drum : BOOLEAN]
    <2> HIDE DEF T
    <2>1. Patches \in Seq(T)
      BY <1>1 DEF T
    <2>2. /\ Len(Patches) \in Nat /\ DOMAIN Patches = 1 .. Len(Patches)
          /\ \A i \in 1 .. Len(Patches) : Patches[i] \in T
      BY <2>1, SMT
    <2> QED
      BY <2>2 DEF T
  <1>3. PowerOnPart \in Part
    BY EngineAssumption DEF PowerOnPart, PowerOnSound, Part, Sound
  <1> QED
    BY <1>2, <1>3, PatchesAssumption, EngineAssumption

(* A map that stands for another stands for itself. *)
LEMMA SourceTwice ==
  ASSUME NEW m
  PROVE  Source(Source(m)) = Source(m)
  BY DEF Source, HasMaps

(* The list of the first n patches. *)
Building(f, N, drum, m) ==
  f = [n \in 0 .. N |->
         IF n = 0 THEN <<>>
         ELSE IF Patches[n].map = Source(m) /\ Patches[n].drum = drum
              THEN Append(f[n - 1], n) ELSE f[n - 1]]

LEMMA BuildingExists ==
  ASSUME NEW drum, NEW m, NEW N \in Nat
  PROVE  \E f : Building(f, N, drum, m)
  <1> DEFINE S == {n \in Nat : \E f : Building(f, n, drum, m)}
             Grown(l, n) == IF Patches[n].map = Source(m) /\ Patches[n].drum = drum
                           THEN Append(l, n) ELSE l
  <1>1. 0 \in S
    <2> DEFINE f == [n \in 0 .. 0 |-> <<>>]
    <2>1. Building(f, 0, drum, m)
      BY DEF Building
    <2> QED
      BY <2>1
  <1>2. ASSUME NEW n \in Nat, n \in S
        PROVE  n + 1 \in S
    <2>1. PICK f : Building(f, n, drum, m)
      BY <1>2
    <2> DEFINE g == [k \in 0 .. n + 1 |-> IF k = n + 1 THEN Grown(f[n], n + 1)
                                          ELSE f[k]]
    <2>2. ASSUME NEW k \in 0 .. n + 1
          PROVE  g[k] = IF k = 0 THEN <<>> ELSE Grown(g[k - 1], k)
      <3>1. CASE k = n + 1
        BY <3>1
      <3>2. CASE k \in 0 .. n
        <4>1. f[k] = IF k = 0 THEN <<>> ELSE Grown(f[k - 1], k)
          BY <2>1, <3>2 DEF Building
        <4> QED
          BY <3>2, <4>1
      <3> QED
        BY <3>1, <3>2
    <2>3. Building(g, n + 1, drum, m)
      BY <2>2, Zenon DEF Building
    <2> QED
      BY <2>3
  <1>3. Nat \subseteq S
    <2> HIDE DEF S
    <2> QED BY <1>1, <1>2, SetInduction
  <1> QED
    BY <1>3

(* A map's list holds patches of its source, tones or kits, in the table's
   order. *)
Holding(l, drum, m) ==
  /\ l \in Seq(1 .. Len(Patches))
  /\ \A k \in 1 .. Len(l) : Patches[l[k]].map = Source(m) /\ Patches[l[k]].drum = drum
  /\ \A j, k \in 1 .. Len(l) : j < k => l[j] < l[k]

LEMMA ListHolds ==
  ASSUME NEW drum \in BOOLEAN, NEW m \in Maps
  PROVE  Holding(List(drum, m), drum, m)
  <1> DEFINE N == Len(Patches)
  <1>1. N \in Nat
    BY Numbers
  <1>2. PICK f : Building(f, N, drum, m)
    BY <1>1, BuildingExists
  <1>3. \E g : Building(g, N, drum, m) /\ Listed(drum, m) = g[N]
    <2> DEFINE g == CHOOSE g : Building(g, N, drum, m)
    <2>1. Building(g, N, drum, m)
      BY <1>2
    <2>2. Listed(drum, m) = g[N]
      BY Zenon DEF Listed, Building
    <2> QED
      BY <2>1, <2>2
  <1>4. PICK g : Building(g, N, drum, m) /\ Listed(drum, m) = g[N]
    BY <1>3
  <1> DEFINE Far(n) == Holding(g[n], drum, m) /\ \A k \in 1 .. Len(g[n]) : g[n][k] <= n
             S == {n \in Nat : n <= N => Far(n)}
  <1>5. 0 \in S
    BY <1>1, <1>4 DEF Building, Holding
  <1>6. ASSUME NEW n \in Nat, n \in S
        PROVE  n + 1 \in S
    <2> SUFFICES ASSUME n + 1 <= N
                 PROVE  Far(n + 1)
      OBVIOUS
    <2>1. Far(n)
      BY <1>1, <1>6
    <2>2. g[n + 1] = IF Patches[n + 1].map = Source(m) /\ Patches[n + 1].drum = drum
                     THEN Append(g[n], n + 1) ELSE g[n]
      <3>1. n + 1 \in 0 .. N /\ n + 1 # 0 /\ (n + 1) - 1 = n
        BY <1>1
      <3> QED
        BY <1>4, <3>1 DEF Building
    <2>3. CASE Patches[n + 1].map = Source(m) /\ Patches[n + 1].drum = drum
      <3> DEFINE l == g[n]
      <3>1. g[n + 1] = Append(l, n + 1)
        BY <2>2, <2>3
      <3>2. n + 1 \in 1 .. N /\ l \in Seq(1 .. N) /\ Len(l) \in Nat
        BY <1>1, <2>1 DEF Holding
      <3>3. Append(l, n + 1) \in Seq(1 .. N) /\ Len(Append(l, n + 1)) = Len(l) + 1
        BY <3>2
      <3>4. /\ Append(l, n + 1)[Len(l) + 1] = n + 1
            /\ \A k \in 1 .. Len(l) : Append(l, n + 1)[k] = l[k]
        BY <3>2
      <3>5. /\ \A k \in 1 .. Len(l) : Patches[l[k]].map = Source(m) /\ Patches[l[k]].drum = drum
            /\ \A j, k \in 1 .. Len(l) : j < k => l[j] < l[k]
            /\ \A k \in 1 .. Len(l) : l[k] \in Nat /\ l[k] <= n
        BY <2>1, <3>2 DEF Holding
      <3> DEFINE a == Append(l, n + 1)
      <3>6. /\ a \in Seq(1 .. N) /\ Len(a) = Len(l) + 1 /\ Len(l) \in Nat
            /\ a[Len(l) + 1] = n + 1 /\ \A k \in 1 .. Len(l) : a[k] = l[k]
        BY <3>2, <3>3, <3>4
      <3>7. g[n + 1] = a
        BY <3>1
      <3> HIDE DEF l, a
      <3>8. ASSUME NEW k \in 1 .. Len(a)
            PROVE  Patches[a[k]].map = Source(m) /\ Patches[a[k]].drum = drum /\ a[k] <= n + 1
        <4>1. CASE k = Len(l) + 1
          BY <2>3, <3>6, <4>1
        <4>2. CASE k \in 1 .. Len(l)
          BY <3>5, <3>6, <4>2
        <4> QED
          BY <3>6, <4>1, <4>2
      <3>9. ASSUME NEW j \in 1 .. Len(a), NEW k \in 1 .. Len(a), j < k
            PROVE  a[j] < a[k]
        <4>1. j \in 1 .. Len(l)
          BY <3>6, <3>9
        <4>2. CASE k = Len(l) + 1
          BY <3>5, <3>6, <4>1, <4>2
        <4>3. CASE k \in 1 .. Len(l)
          BY <3>5, <3>6, <3>9, <4>1, <4>3
        <4> QED
          BY <3>6, <4>2, <4>3
      <3> QED
        BY <3>6, <3>7, <3>8, <3>9 DEF Holding
    <2>4. CASE ~(Patches[n + 1].map = Source(m) /\ Patches[n + 1].drum = drum)
      <3>1. g[n + 1] = g[n]
        BY <2>2, <2>4
      <3>2. Len(g[n]) \in Nat /\ \A k \in 1 .. Len(g[n]) : g[n][k] \in Nat
        BY <1>1, <2>1 DEF Holding
      <3> QED
        BY <2>1, <3>1, <3>2
    <2> QED
      BY <2>3, <2>4
  <1>7. Nat \subseteq S
    <2> HIDE DEF S
    <2> QED BY <1>5, <1>6, SetInduction
  <1>8. Holding(g[N], drum, m)
    BY <1>1, <1>7
  <1> QED
    BY <1>4, <1>8 DEF List, Lists

LEMMA FindIn ==
  ASSUME NEW drum \in BOOLEAN, NEW m \in Maps, NEW l, l = List(drum, m),
         NEW bank, NEW prog, NEW k, k = Find(l, bank, prog), k # 0
  PROVE  k \in 1 .. Len(l) /\ Patches[l[k]].bank = bank /\ Patches[l[k]].prog = prog
  <1> DEFINE at == {j \in DOMAIN l : /\ Patches[l[j]].bank = bank
                                     /\ Patches[l[j]].prog = prog}
  <1>1. l \in Seq(1 .. Len(Patches))
    BY ListHolds DEF Holding
  <1>2. DOMAIN l = 1 .. Len(l) /\ Len(l) \in Nat
    BY <1>1
  <1>3. at # {} /\ k = Min(at)
    BY DEF Find
  <1>4. at \subseteq Nat
    BY <1>2
  <1>5. k \in at
    <2> HIDE DEF at
    <2> QED
      BY <1>3, <1>4, MinIn
  <1> QED
    BY <1>2, <1>5

LEMMA FindType ==
  ASSUME NEW drum \in BOOLEAN, NEW m \in Maps, NEW bank, NEW prog
  PROVE  Find(List(drum, m), bank, prog) \in Nat
  <1>1. List(drum, m) \in Seq(1 .. Len(Patches))
    BY ListHolds DEF Holding
  <1>2. Len(List(drum, m)) \in Nat
    BY <1>1
  <1> QED
    BY <1>2, FindIn

LEMMA CarryType ==
  ASSUME NEW drum \in BOOLEAN, NEW m \in Maps, NEW i
  PROVE  Carry(List(drum, m), i) \in Nat \ {0}
  BY FindType DEF Carry

(* What a position resolves to: a patch of the map's source, the one an editor
   shows at the position cut to the list. *)
LEMMA AtPosition ==
  ASSUME NEW drum \in BOOLEAN, NEW m \in Maps, NEW k \in Nat \ {0},
         NEW l, l = List(drum, m), NEW i, i = PatchAt(l, k)
  PROVE  /\ i \in Nat
         /\ i # 0 => i \in 1 .. Len(Patches) /\ Patches[i].map = Source(m)
         /\ l # <<>> => i # 0 /\ i = l[IF k > Len(l) THEN Len(l) ELSE k]
  <1>1. Holding(l, drum, m)
    BY ListHolds
  <1>2. l \in Seq(1 .. Len(Patches)) /\ Len(l) \in Nat
    BY <1>1 DEF Holding
  <1>3. CASE l = <<>>
    BY <1>3 DEF PatchAt
  <1>4. CASE l # <<>>
    <2> DEFINE j == IF k > Len(l) THEN Len(l) ELSE k
    <2>1. Len(l) # 0
      BY <1>2, <1>4
    <2>2. j \in 1 .. Len(l)
      BY <1>2, <2>1
    <2>3. i = l[j]
      BY <1>4 DEF PatchAt
    <2> HIDE DEF j
    <2>4. l[j] \in 1 .. Len(Patches) /\ Patches[l[j]].map = Source(m)
      BY <1>1, <1>2, <2>2 DEF Holding
    <2> QED
      BY <2>3, <2>4, Numbers DEF j
  <1> QED
    BY <1>3, <1>4

-----------------------------------------------------------------------------
(* What the engine's operations do to a part. *)

EngineTypes ==
  /\ mode \in Modes /\ running \in BOOLEAN
  /\ map_of \in [Parts -> Maps] /\ last_pc \in [Parts -> Programs]
  /\ part \in [Parts -> Part]


(* A part holds these numbers, to be put on again with every map. *)
Holds(ch, bank, prog) ==
  /\ part[ch].cc0 = bank /\ part[ch].sound.bank = bank
  /\ last_pc[ch] = prog /\ part[ch].sound.prog = prog

SamePart(ch) == part'[ch] = part[ch] /\ last_pc'[ch] = last_pc[ch]

LEMMA PatchDoes ==
  ASSUME EngineTypes, NEW ch \in Parts, NEW m \in Maps, NEW b \in Banks,
         NEW p \in Programs, Patch(ch, m, b, p)
  PROVE  /\ EngineTypes' /\ UNCHANGED <<mode, map_of, running>>
         /\ \A c \in Parts \ {ch} : SamePart(c)
         /\ Holds(ch, b, p)' /\ (PerPart => part'[ch].sound.map = m)
  <1> DEFINE on == IF PerPart THEN LatchMap(part[ch], m) ELSE part[ch]
             new == SelectProgram(LatchBank(on, b), p)
  <1>1. /\ part' = [part EXCEPT ![ch] = new]
        /\ last_pc' = [last_pc EXCEPT ![ch] = p]
        /\ UNCHANGED <<mode, set, map_of, running>>
    BY DEF Patch, PolicyProgram
  <1>2. part[ch] \in Part
    BY DEF EngineTypes
  <1>3. on \in Part /\ (PerPart => on.cc32 = m)
    BY <1>2 DEF LatchMap, Part, Sound
  <1>4. /\ new \in Part /\ new.cc0 = b /\ new.sound.bank = b /\ new.sound.prog = p
        /\ PerPart => new.sound.map = m
    <2> HIDE DEF on
    <2> QED
      BY <1>3 DEF SelectProgram, LatchBank, Part, Sound
  <1> QED
    <2> HIDE DEF new
    <2> QED
      BY <1>1, <1>4 DEF EngineTypes, SamePart, Holds

(* The map is put on every part, around the numbers each holds. *)
LEMMA SetMapDoes ==
  ASSUME EngineTypes, NEW m \in Maps, SetMapOnParts(m)
  PROVE  /\ EngineTypes' /\ UNCHANGED <<mode, last_pc, running>> /\ HasSet(m)'
         /\ \A ch \in Parts : \A b, p : Holds(ch, b, p) => Holds(ch, b, p)'
         /\ \A ch \in Parts : part'[ch].sound.map = m \/ (SamePart(ch) /\ map_of[ch] = m)
  <1>1. CASE PolicySetAgain(Parts, m) /\ UNCHANGED <<policyVars, part>>
    BY <1>1 DEF SetMapOnParts, PolicySetAgain, policyVars, EngineTypes, HasSet, Holds,
                SamePart
  <1>2. CASE PolicySet(Parts, m)
    <2>1. /\ map_of' = [ch \in Parts |-> m]
          /\ part' = [ch \in Parts |-> Put(part[ch], ch, m)]
          /\ UNCHANGED <<mode, last_pc, running>>
      BY <1>2 DEF PolicySet, SetMapOnParts
    <2>2. ASSUME NEW ch \in Parts
          PROVE  LET new == Put(part[ch], ch, m)
                 IN /\ new \in Part /\ new.cc0 = part[ch].cc0
                    /\ new.sound.bank = part[ch].cc0 /\ new.sound.prog = last_pc[ch]
                    /\ new.sound.map = m
      <3>1. part[ch] \in Part /\ last_pc[ch] \in Programs
        BY DEF EngineTypes
      <3> QED
        BY <3>1 DEF Put, SelectProgram, LatchMap, Part, Sound
    <2> QED
      BY <2>1, <2>2 DEF EngineTypes, HasSet, Holds
  <1> QED
    BY <1>1, <1>2 DEF SetMapOnParts

LEMMA StartTypes ==
  ASSUME EngineTypes, NEW m \in Maps, Start(m)
  PROVE  EngineTypes' /\ UNCHANGED mode
  BY Numbers DEF EngineTypes, Start, PowerOn

(* The wire reaches the parts it names. *)
LEMMA WireDoes ==
  ASSUME EngineTypes, NEW ch \in Parts, NEW p \in Programs, NEW b \in Banks,
         MidiProgram(ch, p) \/ MidiBank(ch, b)
  PROVE  /\ EngineTypes' /\ UNCHANGED <<mode, map_of, running>>
         /\ \A c \in Parts \ {ch} : SamePart(c)
  <1>1. part[ch] \in Part /\ map_of[ch] \in Maps
    BY DEF EngineTypes
  <1>2. CASE MidiProgram(ch, p)
    <2> DEFINE carrying == IF Injects(ch) THEN LatchMap(part[ch], map_of[ch])
                                          ELSE part[ch]
               new == SelectProgram(carrying, p)
    <2>1. /\ part' = [part EXCEPT ![ch] = new]
          /\ last_pc' = [last_pc EXCEPT ![ch] = p]
          /\ UNCHANGED <<mode, map_of, running>>
      BY <1>2 DEF MidiProgram, PolicyProgramChange
    <2>2. carrying \in Part
      BY <1>1 DEF LatchMap, Part, Sound
    <2>3. new \in Part
      <3> HIDE DEF carrying
      <3> QED
        BY <2>2 DEF SelectProgram, Part, Sound
    <2> HIDE DEF new
    <2> QED
      BY <2>1, <2>3 DEF EngineTypes, SamePart
  <1>3. CASE MidiBank(ch, b)
    <2>1. LatchBank(part[ch], b) \in Part
      BY <1>1 DEF LatchBank, Part, Sound
    <2> QED
      BY <1>3, <2>1 DEF MidiBank, PolicyBankMSB, policyVars, EngineTypes, SamePart
  <1> QED
    BY <1>2, <1>3

LEMMA WireResetTypes ==
  ASSUME EngineTypes, MidiReset
  PROVE  EngineTypes' /\ UNCHANGED <<mode, map_of, running>>
  BY Numbers DEF EngineTypes, MidiReset, WireReset, policyVars, PowerOn
=============================================================================
