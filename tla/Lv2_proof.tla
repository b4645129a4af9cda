----------------------------- MODULE Lv2_proof ------------------------------
(***************************************************************************)
(* Proofs about Lv2Plugin, for any patches, maps, inputs and window sizes: *)
(* whatever is on its way between the editor and the ports, once it has    *)
(* arrived the editor shows what the plugin plays; another map keeps the   *)
(* instrument; and what is selected for the user is in sight.              *)
(***************************************************************************)
EXTENDS Lv2Plugin, Plugin_proof

-----------------------------------------------------------------------------
(* The types. *)

Ports == {"map", "kit", "inst"}

(* What a port may hold. *)
Fit(p, v) == v \in Nat /\ (p = "map" => v \in Maps) /\ (p = "inst" => v # 0)

Message == {e \in [port : Ports, v : Nat] : Fit(e.port, e.v)}

Lv2Types ==
  /\ EngineTypes
  /\ ports \in [Ports -> Nat] /\ \A p \in Ports : Fit(p, ports[p])
  /\ sent \in [Both -> Nat]
  /\ pc \in {"idle", "tone", "kit", "midi"}
  /\ ui \in [open : BOOLEAN, map : Maps, kit : Nat, tone : Nat \ {0}]
  /\ shown_map \in Maps /\ rows \in RowCounts
  /\ top \in [Both -> Nat] /\ sel \in [Both -> Nat]
  /\ writes \in Seq(Message) /\ events \in Seq(Message)
  /\ echoes \in BOOLEAN /\ chosen \subseteq Both

-----------------------------------------------------------------------------
(* What the editor holds and shows. *)

(* What the editor has of a port. *)
Has(p) == CASE p = "map" -> ui.map [] p = "kit" -> ui.kit [] p = "inst" -> ui.tone

Silent(seq, p) == \A k \in 1 .. Len(seq) : seq[k].port # p

(* The last message of a port. *)
Says(seq, p, v) ==
  \E k \in 1 .. Len(seq) :
    /\ seq[k].port = p /\ seq[k].v = v
    /\ \A j \in k + 1 .. Len(seq) : seq[j].port # p

(* A port and the editor agree, or the message that will make them is on its
   way: to the editor or, where the host echoes none, from it. *)
Agreeing(p) ==
  \/ Says(events, p, ports[p])
  \/ Silent(events, p) /\ Silent(writes, p) /\ Has(p) = ports[p]
  \/ IF echoes THEN ~Silent(writes, p)
     ELSE Silent(events, p) /\ Says(writes, p, Has(p))

(* The editor is not told of a port it is writing to. *)
OneWay == ~echoes => events = <<>> \/ writes = <<>>

Carried == ui.open => OneWay /\ \A p \in Ports : Agreeing(p)

(* The kits of a map are told apart by their programs: send_kit and kit_pos
   look for a kit of bank 0 and a program, and find the first. *)
KitsApart ==
  \A i, j \in 1 .. Len(Patches) :
    Patches[i].drum /\ Patches[j].drum =>
      /\ Patches[i].bank = 0
      /\ Patches[i].map = Patches[j].map /\ Patches[i].prog = Patches[j].prog => i = j

(* The position a list is to show. *)
Wanted(l) == IF l = "tone" THEN ui.tone ELSE KitAt(ui.map, ui.kit)
Cut(k, n) == IF k > n THEN n ELSE k
Shows(l) == sel[l] = Cut(Wanted(l), Len(Entries(l, ui.map)))

(* Of kits that cannot be told apart a list may show another than the one the
   editor holds. *)
Drawn ==
  ui.open =>
    /\ shown_map = ui.map
    /\ \A l \in Both :
         \/ Shows(l)
         \/ l = "kit" /\ ~KitsApart

-----------------------------------------------------------------------------
(* What the plugin plays. *)

(* A patch a port resolves to is the one sent. *)
Sent(l) == Resolved(l) # 0 => sent[l] = Resolved(l)

(* Block by block: the map, the tone, the kit. *)
Dealt ==
  /\ pc # "idle" /\ PerPart => HasSet(ports["map"])
  /\ pc \in {"kit", "midi"} => Sent("tone")
  /\ pc = "midi" => Sent("kit")

(* A part nothing else chose for plays the patch sent, on that patch's map or
   the one set since. *)
PlaysOf(l) ==
  /\ sent[l] \in 1 .. Len(Patches)
  /\ Holds(ChOf(l), Patches[sent[l]].bank, Patches[sent[l]].prog)
  /\ PerPart => part[ChOf(l)].sound.map \in {Patches[sent[l]].map, map_of[ChOf(l)]}

PlaysChosen == \A l \in chosen : PlaysOf(l)

Lv2Inv == Lv2Types /\ Carried /\ Drawn /\ Dealt /\ PlaysChosen

-----------------------------------------------------------------------------
(* The lists. *)

LEMMA Constants ==
  /\ ToneCh \in Parts /\ DrumCh \in Parts /\ ToneCh # DrumCh
  /\ \A l \in Both : ChOf(l) \in Parts
  /\ \A l, other \in Both : l # other => ChOf(l) # ChOf(other)
  /\ Kinds \subseteq Modes /\ RowCounts \subseteq Nat \ {0}
  BY Lv2Assumption, WindowAssumption DEF ChOf, Both, Modes

LEMMA EntriesTyped ==
  ASSUME NEW l \in Both, NEW m \in Maps, NEW list, list = Entries(l, m)
  PROVE  /\ list \in Seq(1 .. Len(Patches)) /\ Len(list) \in Nat
         /\ \A k \in 1 .. Len(list) : /\ list[k] \in 1 .. Len(Patches)
                                      /\ Patches[list[k]].map = Source(m)
                                      /\ Patches[list[k]].drum = (l = "kit")
         /\ \A j, k \in 1 .. Len(list) : j < k => list[j] < list[k]
  <1>1. Holding(list, l = "kit", m)
    BY ListHolds DEF Entries
  <1>2. list \in Seq(1 .. Len(Patches)) /\ Len(list) \in Nat
    BY <1>1 DEF Holding
  <1> QED
    BY <1>1, <1>2 DEF Holding

LEMMA KitAtTyped ==
  ASSUME NEW m \in Maps, NEW prog
  PROVE  /\ KitAt(m, prog) \in Nat
         /\ KitAt(m, prog) # 0 => KitAt(m, prog) \in 1 .. Len(Entries("kit", m))
  <1>1. /\ Find(List(TRUE, m), 0, prog) \in Nat /\ Find(List(TRUE, m), 0, 0) \in Nat
    BY FindType
  <1>2. /\ Find(List(TRUE, m), 0, prog) # 0 =>
             Find(List(TRUE, m), 0, prog) \in 1 .. Len(List(TRUE, m))
        /\ Find(List(TRUE, m), 0, 0) # 0 =>
             Find(List(TRUE, m), 0, 0) \in 1 .. Len(List(TRUE, m))
    BY FindIn
  <1> QED
    BY <1>1, <1>2 DEF KitAt, Entries

(* A kit picked is the one its program finds. *)
LEMMA KitFound ==
  ASSUME KitsApart, NEW m \in Maps, NEW k \in 1 .. Len(Entries("kit", m))
  PROVE  KitAt(m, Patches[Entries("kit", m)[k]].prog) = k
  <1> DEFINE list == Entries("kit", m)
             prog == Patches[list[k]].prog
             at == {j \in DOMAIN list : Patches[list[j]].bank = 0
                                        /\ Patches[list[j]].prog = prog}
  <1>1. /\ list \in Seq(1 .. Len(Patches)) /\ Len(list) \in Nat
        /\ \A j \in 1 .. Len(list) : /\ list[j] \in 1 .. Len(Patches)
                                     /\ Patches[list[j]].map = Source(m)
                                     /\ Patches[list[j]].drum = TRUE
        /\ \A i, j \in 1 .. Len(list) : i < j => list[i] < list[j]
    BY EntriesTyped DEF Both
  <1>2. DOMAIN list = 1 .. Len(list)
    BY <1>1
  <1>3. k \in at
    BY <1>1, <1>2 DEF KitsApart
  <1>4. ASSUME NEW j \in at
        PROVE  j = k
    <2>1. j \in 1 .. Len(list) /\ Patches[list[j]].prog = prog
      BY <1>2
    <2>2. list[j] = list[k]
      BY <1>1, <2>1 DEF KitsApart
    <2>3. list[j] \in Nat /\ ~(list[j] < list[k]) /\ ~(list[k] < list[j])
      BY <1>1, <2>1, <2>2
    <2> QED
      BY <1>1, <2>1, <2>3
  <1>5. at = {k}
    BY <1>3, <1>4
  <1>6. Find(list, 0, prog) = Min(at)
    BY <1>3 DEF Find
  <1>7. Min(at) = k
    <2>1. at \subseteq Nat /\ at # {}
      BY <1>5
    <2> QED
      BY <1>5, <2>1, MinIn
  <1> QED
    BY <1>6, <1>7 DEF KitAt

LEMMA ResolvedTyped ==
  ASSUME Lv2Types, NEW l \in Both, NEW i, i = Resolved(l)
  PROVE  /\ i \in Nat
         /\ i # 0 => i \in 1 .. Len(Patches) /\ Patches[i].map = Source(ports["map"])
  <1>1. ports["map"] \in Maps /\ ports["inst"] \in Nat \ {0}
    BY DEF Lv2Types, Fit, Ports
  <1>2. CASE l = "tone"
    <2>1. PICK drum \in BOOLEAN : drum = FALSE
      OBVIOUS
    <2>2. PICK list : list = List(drum, ports["map"])
      OBVIOUS
    <2>3. i = PatchAt(list, ports["inst"])
      BY <1>2, <2>1, <2>2 DEF Resolved, Entries
    <2> QED
      BY <1>1, <2>2, <2>3, AtPosition
  <1>3. CASE l = "kit"
    <2>1. i = IF KitAt(ports["map"], ports["kit"]) = 0 THEN 0
              ELSE Entries("kit", ports["map"])[KitAt(ports["map"], ports["kit"])]
      BY <1>3 DEF Resolved
    <2>2. CASE KitAt(ports["map"], ports["kit"]) # 0
      <3>1. KitAt(ports["map"], ports["kit"]) \in 1 .. Len(Entries("kit", ports["map"]))
        BY <1>1, <2>2, KitAtTyped
      <3> QED
        BY <1>1, <1>3, <2>1, <2>2, <3>1, EntriesTyped
    <2> QED
      BY <2>1, <2>2
  <1> QED
    BY <1>2, <1>3 DEF Both

-----------------------------------------------------------------------------
(* Messages on their way. *)

LEMMA SaidNothing == \A p, v : Silent(<<>>, p) /\ ~Says(<<>>, p, v)
  BY DEF Silent, Says

LEMMA SaidMore ==
  ASSUME NEW seq \in Seq(Message), NEW e \in Message, NEW p, NEW more,
         more = Append(seq, e)
  PROVE  /\ Silent(more, p) <=> Silent(seq, p) /\ e.port # p
         /\ \A v : Says(more, p, v) <=> IF e.port = p THEN e.v = v ELSE Says(seq, p, v)
  <1> DEFINE n == Len(seq)
  <1>1. n \in Nat /\ Len(more) = n + 1 /\ more[n + 1] = e
        /\ \A k \in 1 .. n : more[k] = seq[k]
    OBVIOUS
  <1> HIDE DEF n
  <1>2. Silent(more, p) <=> Silent(seq, p) /\ e.port # p
    <2>1. \A k \in 1 .. n + 1 : k = n + 1 \/ k \in 1 .. n
      BY <1>1
    <2> QED
      BY <1>1, <2>1 DEF Silent, n
  <1>3. ASSUME NEW v, e.port = p
        PROVE  Says(more, p, v) <=> e.v = v
    <2>1. \A k \in 1 .. n : n + 1 \in k + 1 .. n + 1
      BY <1>1
    <2>2. Says(more, p, v) => e.v = v
      <3> SUFFICES ASSUME NEW k \in 1 .. n + 1, more[k].v = v,
                          \A j \in k + 1 .. n + 1 : more[j].port # p
                   PROVE  e.v = v
        BY <1>1 DEF Says
      <3>1. k = n + 1
        BY <1>1, <1>3, <2>1
      <3> QED
        BY <1>1, <3>1
    <2>3. e.v = v => Says(more, p, v)
      <3>1. n + 1 \in 1 .. Len(more) /\ (n + 1) + 1 .. Len(more) = {}
        BY <1>1
      <3> QED
        BY <1>1, <1>3, <3>1 DEF Says
    <2> QED
      BY <2>2, <2>3
  <1>4. ASSUME NEW v, e.port # p
        PROVE  Says(more, p, v) <=> Says(seq, p, v)
    <2>1. ASSUME NEW k \in 1 .. n
          PROVE  (\A j \in k + 1 .. n + 1 : more[j].port # p)
                   <=> (\A j \in k + 1 .. n : seq[j].port # p)
      <3>1. \A j \in k + 1 .. n + 1 : j = n + 1 \/ (j \in k + 1 .. n /\ j \in 1 .. n)
        BY <1>1
      <3>2. \A j \in k + 1 .. n : j \in k + 1 .. n + 1 /\ j \in 1 .. n
        BY <1>1
      <3> QED
        BY <1>1, <1>4, <3>1, <3>2
    <2>2. \A k \in 1 .. n + 1 : k \in 1 .. n \/ more[k].port # p
      BY <1>1, <1>4
    <2>3. \A k \in 1 .. n : k \in 1 .. n + 1
      BY <1>1
    <2> QED
      BY <1>1, <2>1, <2>2, <2>3 DEF Says, n
  <1> QED
    BY <1>2, <1>3, <1>4

LEMMA SaidLess ==
  ASSUME NEW seq \in Seq(Message), seq # <<>>, NEW p, NEW rest, rest = Tail(seq),
         NEW e, e = Head(seq)
  PROVE  /\ e \in Message /\ rest \in Seq(Message)
         /\ Silent(seq, p) <=> Silent(rest, p) /\ e.port # p
         /\ \A v : Says(seq, p, v) <=>
                     Says(rest, p, v) \/ (Silent(rest, p) /\ e.port = p /\ e.v = v)
  <1> DEFINE n == Len(rest)
  <1>1. /\ e \in Message /\ rest \in Seq(Message)
        /\ n \in Nat /\ Len(seq) = n + 1 /\ e = seq[1]
        /\ \A k \in 1 .. n : rest[k] = seq[k + 1]
    OBVIOUS
  <1> HIDE DEF n
  <1>2. \A k \in 2 .. n + 1 : k - 1 \in 1 .. n /\ seq[k] = rest[k - 1]
    BY <1>1
  <1>3. Silent(seq, p) <=> Silent(rest, p) /\ e.port # p
    <2>1. Silent(seq, p) => Silent(rest, p) /\ e.port # p
      <3>1. 1 \in 1 .. n + 1 /\ \A k \in 1 .. n : k + 1 \in 1 .. n + 1
        BY <1>1
      <3> QED
        BY <1>1, <3>1 DEF Silent, n
    <2>2. Silent(rest, p) /\ e.port # p => Silent(seq, p)
      <3>1. \A k \in 1 .. n + 1 : k = 1 \/ k \in 2 .. n + 1
        BY <1>1
      <3> QED
        BY <1>1, <1>2, <3>1 DEF Silent, n
    <2> QED
      BY <2>1, <2>2
  <1>4. ASSUME NEW v, Says(seq, p, v)
        PROVE  Says(rest, p, v) \/ (Silent(rest, p) /\ e.port = p /\ e.v = v)
    <2>1. PICK k \in 1 .. n + 1 : /\ seq[k].port = p /\ seq[k].v = v
                                  /\ \A j \in k + 1 .. n + 1 : seq[j].port # p
      BY <1>1, <1>4 DEF Says
    <2>2. CASE k = 1
      <3>1. \A j \in 1 .. n : j + 1 \in k + 1 .. n + 1
        BY <1>1, <2>2
      <3> QED
        BY <1>1, <2>1, <2>2, <3>1 DEF Silent, n
    <2>3. CASE k \in 2 .. n + 1
      <3>1. k - 1 \in 1 .. n /\ \A j \in (k - 1) + 1 .. n : j \in 1 .. n /\ j + 1 \in k + 1 .. n + 1
        BY <1>1, <2>3
      <3> QED
        BY <1>1, <1>2, <2>1, <2>3, <3>1 DEF Says, n
    <2> QED
      BY <1>1, <2>2, <2>3
  <1>5. ASSUME NEW v, Says(rest, p, v)
        PROVE  Says(seq, p, v)
    <2>1. PICK k \in 1 .. n : /\ rest[k].port = p /\ rest[k].v = v
                              /\ \A j \in k + 1 .. n : rest[j].port # p
      BY <1>5 DEF Says, n
    <2>2. /\ k + 1 \in 1 .. n + 1
          /\ \A j \in (k + 1) + 1 .. n + 1 : j \in 2 .. n + 1 /\ j - 1 \in k + 1 .. n
      BY <1>1
    <2>3. seq[k + 1].port = p /\ seq[k + 1].v = v
      BY <1>1, <2>1
    <2>4. \A j \in (k + 1) + 1 .. Len(seq) : seq[j].port # p
      BY <1>1, <1>2, <2>1, <2>2
    <2>5. k + 1 \in 1 .. Len(seq)
      BY <1>1
    <2> QED
      BY <2>3, <2>4, <2>5, Zenon DEF Says
  <1>6. ASSUME NEW v, Silent(rest, p), e.port = p, e.v = v
        PROVE  Says(seq, p, v)
    <2>1. 1 \in 1 .. Len(seq) /\ seq[1].port = p /\ seq[1].v = v
      BY <1>1, <1>6
    <2>2. \A j \in 1 + 1 .. Len(seq) : seq[j].port # p
      <3>1. \A j \in 1 .. n : rest[j].port # p
        BY <1>6 DEF Silent, n
      <3>2. \A j \in 1 + 1 .. Len(seq) : j \in 2 .. n + 1
        BY <1>1
      <3> QED
        BY <1>2, <3>1, <3>2
    <2> QED
      BY <2>1, <2>2, Zenon DEF Says
  <1> QED
    BY <1>1, <1>3, <1>4, <1>5, <1>6
-----------------------------------------------------------------------------
(* Types are kept. *)

LEMMA MessageTyped ==
  ASSUME NEW p \in Ports, NEW v, Fit(p, v)
  PROVE  /\ [port |-> p, v |-> v] \in Message
         /\ To(p, v) = <<[port |-> p, v |-> v]>>
         /\ \A seq \in Seq(Message) : seq \o To(p, v) = Append(seq, [port |-> p, v |-> v])
  <1>1. [port |-> p, v |-> v] \in Message /\ To(p, v) = <<[port |-> p, v |-> v]>>
    BY DEF Message, Fit, To
  <1> DEFINE e == [port |-> p, v |-> v]
  <1>2. ASSUME NEW seq \in Seq(Message)
        PROVE  seq \o <<e>> = Append(seq, e)
    <2> HIDE DEF e
    <2> QED
      OBVIOUS
  <1> QED
    BY <1>1, <1>2

LEMMA ValueFits ==
  ASSUME NEW p \in Ports, NEW v \in Values(p)
  PROVE  Fit(p, v)
  <1>1. CASE p = "inst"
    <2>1. v \in 1 .. Longest(FALSE, Maps)
      BY <1>1 DEF Values
    <2> QED
      BY <1>1, <2>1 DEF Fit
  <1>2. CASE p = "map"
    BY <1>2, Numbers DEF Values, Fit
  <1>3. CASE p = "kit"
    BY <1>3, Numbers DEF Values, Fit
  <1> QED
    BY <1>1, <1>2, <1>3 DEF Ports

(* What a list shows of an editor that is drawn. *)
LEMMA ShowDraws ==
  ASSUME NEW u, u.map \in Maps, u.tone \in Nat \ {0}, rows \in Nat,
         top \in [Both -> Nat], Show(u)
  PROVE  /\ shown_map' = u.map /\ rows' = rows
         /\ sel' \in [Both -> Nat]
         /\ \A l \in Both : sel'[l] = Cut(IF l = "tone" THEN u.tone ELSE KitAt(u.map, u.kit),
                                          Len(Entries(l, u.map)))
         /\ top' \in [Both -> Nat]
  <1> DEFINE want == Positions(u)
             n(l) == Len(Entries(l, u.map))
  <1>1. /\ shown_map' = u.map /\ rows' = rows
        /\ sel' = [l \in Both |-> IF want[l] > n(l) THEN n(l) ELSE want[l]]
        /\ \E old : top' = [l \in Both |-> IF sel'[l] \in {0, old[l]} THEN top[l]
                                           ELSE Reveal(top[l], sel'[l], n(l), rows)]
    <2>1. ShowAt(u.map, want)
      BY DEF Show
    <2> DEFINE old == [l \in Both |-> IF u.map # shown_map THEN 0 ELSE sel[l]]
    <2>2. top' = [l \in Both |-> IF sel'[l] \in {0, old[l]} THEN top[l]
                                 ELSE Reveal(top[l], sel'[l], n(l), rows)]
      BY <2>1 DEF ShowAt
    <2> HIDE DEF want
    <2> QED
      BY <2>1, <2>2 DEF ShowAt
  <1>2. \A l \in Both : /\ want[l] = IF l = "tone" THEN u.tone ELSE KitAt(u.map, u.kit)
                        /\ want[l] \in Nat /\ n(l) \in Nat
    BY KitAtTyped, EntriesTyped DEF Positions
  <1>3. sel' \in [Both -> Nat]
    <2> HIDE DEF want, n
    <2> QED
      BY <1>1, <1>2
  <1>4. ASSUME NEW l \in Both
        PROVE  Reveal(top[l], sel'[l], n(l), rows) \in Nat \/ sel'[l] = 0
    <2> HIDE DEF n
    <2>1. top[l] \in Nat /\ sel'[l] \in Nat /\ n(l) \in Nat /\ rows \in Nat
      BY <1>2, <1>3
    <2> QED
      BY <2>1 DEF Reveal, ClampTop
  <1>5. top' \in [Both -> Nat]
    <2>1. PICK old : top' = [l \in Both |-> IF sel'[l] \in {0, old[l]} THEN top[l]
                                            ELSE Reveal(top[l], sel'[l], n(l), rows)]
      BY <1>1
    <2> HIDE DEF n
    <2> QED
      BY <1>4, <2>1
  <1>6. \A l \in Both : sel'[l] = Cut(want[l], n(l))
    <2> HIDE DEF want, n
    <2> QED
      BY <1>1 DEF Cut
  <1> HIDE DEF want
  <1> QED
    BY <1>1, <1>2, <1>3, <1>5, <1>6

LEMMA InitTypes == Init => Lv2Types
  <1> SUFFICES ASSUME Init PROVE Lv2Types
    OBVIOUS
  <1>1. EngineTypes
    BY Constants, Numbers DEF Init, EngineTypes, PolicyInit, PowerOn
  <1>2. ports \in [Ports -> Nat] /\ \A p \in Ports : Fit(p, ports[p])
    BY Numbers DEF Init, Ports, Fit
  <1>3. NoRows \in RowCounts
    BY WindowAssumption DEF NoRows
  <1> QED
    BY <1>1, <1>2, <1>3, Numbers DEF Init, Lv2Types, NoEditor, NoWindow, Unrolled, FirstEntry

(* run() and its MIDI leave the ports and the editor alone. *)
LEMMA RunTypes ==
  ASSUME Lv2Types, Run \/ RunMidi
  PROVE  Lv2Types' /\ UNCHANGED <<hostVars, ui, windowVars, echoes>>
  <1>1. CASE RunMap
    <2>1. /\ UNCHANGED <<sent, hostVars, ui, windowVars, echoes>>
          /\ pc' = "tone" /\ chosen' \subseteq Both
      BY <1>1 DEF RunMap, Lv2Types
    <2>2. EngineTypes'
      <3>1. ports.map \in Maps /\ EngineTypes
        BY DEF Lv2Types, Fit, Ports
      <3>2. CASE SetMapOnParts(ports.map)
        BY <3>1, <3>2, SetMapDoes
      <3>3. CASE SetMapKept(ports.map) \/ ReopenFails(ports.map)
        BY <3>1, <3>3 DEF SetMapKept, ReopenFails, EngineTypes, engineVars, policyVars
      <3>4. CASE Reopen(ports.map)
        BY <3>1, <3>4, StartTypes DEF Reopen
      <3> QED
        BY <1>1, <3>2, <3>3, <3>4 DEF RunMap
    <2> QED
      BY <2>1, <2>2 DEF Lv2Types, hostVars, windowVars
  <1>2. ASSUME NEW l \in Both, RunSend(l)
        PROVE  Lv2Types' /\ UNCHANGED <<hostVars, ui, windowVars, echoes>>
    <2>1. UNCHANGED <<hostVars, ui, windowVars, echoes>> /\ pc' \in {"kit", "midi"}
      BY <1>2 DEF RunSend
    <2>2. PICK i : i = Resolved(l)
      OBVIOUS
    <2>3. CASE i \notin {0, sent[l]}
      <3>1. i \in 1 .. Len(Patches)
        BY <2>2, <2>3, ResolvedTyped
      <3>2. /\ Patch(ChOf(l), Patches[i].map, Patches[i].bank, Patches[i].prog)
            /\ sent' = [sent EXCEPT ![l] = i] /\ chosen' = chosen \cup {l}
        BY <1>2, <2>2, <2>3 DEF RunSend
      <3>3. EngineTypes'
        BY <3>1, <3>2, PatchDoes, Numbers, Constants DEF Lv2Types
      <3> QED
        BY <2>1, <3>1, <3>2, <3>3 DEF Lv2Types, hostVars, windowVars
    <2>4. CASE i \in {0, sent[l]}
      <3>1. UNCHANGED <<engineVars, sent, chosen>>
        BY <1>2, <2>2, <2>4 DEF RunSend
      <3> QED
        BY <2>1, <3>1 DEF Lv2Types, EngineTypes, engineVars, policyVars, hostVars, windowVars
    <2> QED
      BY <2>3, <2>4
  <1>3. CASE RunMidi
    <2>1. UNCHANGED <<sent, pc, hostVars, ui, windowVars, echoes>>
      BY <1>3 DEF RunMidi
    <2>2. EngineTypes' /\ chosen' \subseteq Both
      <3>1. EngineTypes /\ chosen \subseteq Both
        BY DEF Lv2Types
      <3>2. ASSUME NEW l \in Both, NEW p \in Programs, MidiProgram(ChOf(l), p),
                   chosen' = chosen \ {l}
            PROVE  EngineTypes' /\ chosen' \subseteq Both
        BY <3>1, <3>2, WireDoes, Numbers, Constants
      <3>3. ASSUME NEW l \in Both, NEW b \in Banks, MidiBank(ChOf(l), b),
                   chosen' = chosen \ {l}
            PROVE  EngineTypes' /\ chosen' \subseteq Both
        BY <3>1, <3>3, WireDoes, Numbers, Constants
      <3>4. CASE MidiReset /\ chosen' = {}
        BY <3>1, <3>4, WireResetTypes
      <3> QED
        BY <1>3, <3>2, <3>3, <3>4 DEF RunMidi
    <2> QED
      BY <2>1, <2>2 DEF Lv2Types, hostVars, windowVars
  <1>4. CASE RunEnds
    BY <1>4 DEF RunEnds, Lv2Types, EngineTypes, engineVars, policyVars, hostVars, windowVars
  <1> QED
    BY <1>1, <1>2, <1>3, <1>4 DEF Run

LEMMA HostTypes ==
  ASSUME Lv2Types, Host
  PROVE  Lv2Types' /\ pc = "idle" /\ UNCHANGED <<pluginVars, ui, windowVars, echoes>>
  <1>1. CASE DeliverWrite
    <2>1. /\ Head(writes) \in Message /\ Tail(writes) \in Seq(Message)
      BY <1>1, SaidLess DEF DeliverWrite, Lv2Types
    <2>2. /\ ports' = [ports EXCEPT ![Head(writes).port] = Head(writes).v]
          /\ writes' = Tail(writes)
          /\ events' = IF echoes /\ ui.open THEN Append(events, Head(writes)) ELSE events
          /\ pc = "idle" /\ UNCHANGED <<pluginVars, ui, windowVars, echoes>>
      BY <1>1 DEF DeliverWrite
    <2>3. ports' \in [Ports -> Nat] /\ \A p \in Ports : Fit(p, ports'[p])
      BY <2>1, <2>2 DEF Lv2Types, Message
    <2>4. events' \in Seq(Message)
      BY <2>1, <2>2 DEF Lv2Types
    <2> QED
      BY <2>1, <2>2, <2>3, <2>4
      DEF Lv2Types, EngineTypes, pluginVars, engineVars, policyVars, windowVars
  <1>2. ASSUME NEW p \in {"map", "kit", "inst"}, NEW v \in Values(p), SetPort(p, v)
        PROVE  Lv2Types' /\ pc = "idle" /\ UNCHANGED <<pluginVars, ui, windowVars, echoes>>
    <2>1. p \in Ports /\ Fit(p, v)
      BY ValueFits DEF Ports
    <2>2. /\ ports' = [ports EXCEPT ![p] = v]
          /\ events' = IF ui.open THEN events \o To(p, v) ELSE events
          /\ pc = "idle" /\ UNCHANGED <<pluginVars, ui, windowVars, echoes, writes>>
      BY <1>2 DEF SetPort
    <2>3. ports' \in [Ports -> Nat] /\ \A q \in Ports : Fit(q, ports'[q])
      BY <2>1, <2>2 DEF Lv2Types, Fit
    <2>4. events' \in Seq(Message)
      <3>1. events \in Seq(Message)
        BY DEF Lv2Types
      <3>2. PICK e \in Message : events \o To(p, v) = Append(events, e)
        BY <2>1, <3>1, MessageTyped
      <3> QED
        BY <2>2, <3>1, <3>2
    <2> QED
      BY <2>2, <2>3, <2>4
      DEF Lv2Types, EngineTypes, pluginVars, engineVars, policyVars, windowVars
  <1> QED
    BY <1>1, <1>2 DEF Host
(* The editor leaves the plugin and the ports alone. *)
Apart == UNCHANGED <<pluginVars, ports, echoes>>

LEMMA ApartTypes ==
  ASSUME Lv2Types, Apart
  PROVE  /\ EngineTypes' /\ UNCHANGED <<ports, sent, pc, echoes, chosen>>
         /\ ports' \in [Ports -> Nat] /\ \A p \in Ports : Fit(p, ports'[p])
  BY DEF Apart, Lv2Types, EngineTypes, pluginVars, engineVars, policyVars

LEMMA SaidAll ==
  ASSUME NEW a \in Message, NEW b \in Message, NEW c \in Message,
         a.port = "map", b.port = "kit", c.port = "inst",
         NEW said, said = Append(Append(Append(<<>>, a), b), c)
  PROVE  /\ said \in Seq(Message) /\ said # <<>>
         /\ Says(said, "map", a.v) /\ Says(said, "kit", b.v) /\ Says(said, "inst", c.v)
  <1>1. PICK one : one = Append(<<>>, a)
    OBVIOUS
  <1>2. PICK two : two = Append(one, b)
    OBVIOUS
  <1>3. one \in Seq(Message) /\ two \in Seq(Message)
    BY <1>1, <1>2
  <1>4. said = Append(two, c)
    BY <1>1, <1>2
  <1>5. <<>> \in Seq(Message)
    OBVIOUS
  <1>6. Says(one, "map", a.v)
    BY <1>1, <1>5, SaidMore
  <1>7. Says(two, "map", a.v) /\ Says(two, "kit", b.v)
    BY <1>2, <1>3, <1>6, SaidMore
  <1>8. Says(said, "map", a.v) /\ Says(said, "kit", b.v) /\ Says(said, "inst", c.v)
    <2>1. \A q, v : Says(said, q, v) <=> IF c.port = q THEN c.v = v ELSE Says(two, q, v)
      BY <1>3, <1>4, SaidMore
    <2> QED
      BY <1>7, <2>1
  <1>9. said \in Seq(Message) /\ said # <<>>
    BY <1>3, <1>4
  <1> QED
    BY <1>8, <1>9

(* What the lists show of a new editor. *)
LEMMA OpenDraws ==
  ASSUME NEW r \in RowCounts, OpenWindow(r, Positions(NoEditor))
  PROVE  /\ shown_map' = DefaultMap /\ rows' = r
         /\ sel' \in [Both -> Nat] /\ top' \in [Both -> Nat]
         /\ \A l \in Both : sel'[l] = Cut(IF l = "tone" THEN 1 ELSE KitAt(DefaultMap, 0),
                                          Len(Entries(l, DefaultMap)))
  <1> DEFINE want == Positions(NoEditor)
             n(l) == Len(Entries(l, DefaultMap))
  <1>1. /\ shown_map' = DefaultMap /\ rows' = r
        /\ sel' = [l \in Both |-> IF want[l] > n(l) THEN n(l) ELSE want[l]]
        /\ top' = [l \in Both |-> IF sel'[l] \in {0, FirstEntry[l]} THEN Unrolled[l]
                                  ELSE Reveal(Unrolled[l], sel'[l], n(l), r)]
    <2>1. OpenWindow(r, want)
      OBVIOUS
    <2> HIDE DEF want
    <2> QED
      BY <2>1 DEF OpenWindow
  <1>2. \A l \in Both : /\ want[l] = IF l = "tone" THEN 1 ELSE KitAt(DefaultMap, 0)
                        /\ want[l] \in Nat /\ n(l) \in Nat
    BY KitAtTyped, EntriesTyped, Numbers DEF Positions, NoEditor
  <1>3. r \in Nat /\ \A l \in Both : Unrolled[l] = 0
    BY WindowAssumption DEF Unrolled
  <1>4. sel' \in [Both -> Nat]
    <2> HIDE DEF want, n
    <2> QED
      BY <1>1, <1>2
  <1>5. ASSUME NEW l \in Both
        PROVE  Reveal(Unrolled[l], sel'[l], n(l), r) \in Nat \/ sel'[l] = 0
    <2> HIDE DEF n
    <2>1. Unrolled[l] = 0 /\ sel'[l] \in Nat /\ n(l) \in Nat
      BY <1>2, <1>3, <1>4
    <2> QED
      BY <1>3, <2>1 DEF Reveal, ClampTop
  <1>6. top' \in [Both -> Nat]
    <2> HIDE DEF n
    <2> QED
      BY <1>1, <1>3, <1>5
  <1>7. \A l \in Both : sel'[l] = Cut(want[l], n(l))
    <2> HIDE DEF want, n
    <2> QED
      BY <1>1 DEF Cut
  <1> HIDE DEF want
  <1> QED
    BY <1>1, <1>2, <1>4, <1>6, <1>7

(* A new editor is told every port. *)
LEMMA OpenTypes ==
  ASSUME Lv2Types, OpenEditor
  PROVE  /\ Lv2Types' /\ Apart /\ UNCHANGED writes /\ (echoes \/ writes = <<>>)
         /\ ui' = [open |-> TRUE, map |-> DefaultMap, kit |-> 0, tone |-> 1]
         /\ shown_map' = DefaultMap
         /\ \A l \in Both : sel'[l] = Cut(IF l = "tone" THEN 1 ELSE KitAt(DefaultMap, 0),
                                          Len(Entries(l, DefaultMap)))
         /\ \A p \in Ports : Says(events', p, ports[p])
  <1>1. /\ Apart /\ UNCHANGED writes /\ (echoes \/ writes = <<>>)
        /\ ui' = [open |-> TRUE, map |-> DefaultMap, kit |-> 0, tone |-> 1]
        /\ events' = To("map", ports.map) \o To("kit", ports.kit) \o To("inst", ports.inst)
    BY DEF OpenEditor, Apart, NoEditor
  <1>2. /\ shown_map' = DefaultMap /\ rows' \in RowCounts
        /\ sel' \in [Both -> Nat] /\ top' \in [Both -> Nat]
        /\ \A l \in Both : sel'[l] = Cut(IF l = "tone" THEN 1 ELSE KitAt(DefaultMap, 0),
                                         Len(Entries(l, DefaultMap)))
    BY OpenDraws DEF OpenEditor
  <1>3. PICK a, b, c : /\ a = [port |-> "map", v |-> ports.map]
                       /\ b = [port |-> "kit", v |-> ports.kit]
                       /\ c = [port |-> "inst", v |-> ports.inst]
    OBVIOUS
  <1>4. /\ a \in Message /\ b \in Message /\ c \in Message /\ To("map", ports.map) = <<a>>
        /\ \A seq \in Seq(Message) : /\ seq \o To("kit", ports.kit) = Append(seq, b)
                                     /\ seq \o To("inst", ports.inst) = Append(seq, c)
    <2>1. /\ Fit("map", ports.map) /\ Fit("kit", ports.kit) /\ Fit("inst", ports.inst)
          /\ "map" \in Ports /\ "kit" \in Ports /\ "inst" \in Ports
      BY DEF Lv2Types, Ports
    <2> QED
      BY <1>3, <2>1, MessageTyped
  <1>5. events' = Append(Append(Append(<<>>, a), b), c)
    <2>1. <<a>> = Append(<<>>, a) /\ <<a>> \in Seq(Message) /\ Append(<<a>>, b) \in Seq(Message)
      BY <1>4
    <2> QED
      BY <1>1, <1>4, <2>1
  <1>6. /\ events' \in Seq(Message) /\ events' # <<>>
        /\ \A p \in Ports : Says(events', p, ports[p])
    <2>1. a.port = "map" /\ b.port = "kit" /\ c.port = "inst"
          /\ a.v = ports["map"] /\ b.v = ports["kit"] /\ c.v = ports["inst"]
      BY <1>3
    <2>2. /\ events' \in Seq(Message) /\ events' # <<>>
          /\ Says(events', "map", a.v) /\ Says(events', "kit", b.v) /\ Says(events', "inst", c.v)
      BY <1>4, <1>5, <2>1, SaidAll
    <2> QED
      BY <2>1, <2>2 DEF Ports
  <1>7. ui' \in [open : BOOLEAN, map : Maps, kit : Nat, tone : Nat \ {0}] /\ DefaultMap \in Maps
    BY <1>1, Numbers
  <1>8. writes' \in Seq(Message)
    BY <1>1 DEF Lv2Types
  <1> QED
    BY <1>1, <1>2, <1>6, <1>7, <1>8, ApartTypes DEF Lv2Types

LEMMA CloseTypes ==
  ASSUME Lv2Types, CloseEditor
  PROVE  Lv2Types' /\ Apart /\ ~ui'.open
  <1>1. /\ Apart /\ ui' = NoEditor /\ events' = <<>> /\ UNCHANGED writes
        /\ shown_map' = DefaultMap /\ top' = Unrolled /\ sel' = FirstEntry /\ rows' = NoRows
    BY DEF CloseEditor, Apart, CloseWindow
  <1>2. sel' \in [Both -> Nat] /\ top' \in [Both -> Nat] /\ rows' \in RowCounts
    BY <1>1, WindowAssumption DEF FirstEntry, Unrolled, NoRows
  <1>3. writes' \in Seq(Message) /\ events' \in Seq(Message)
    BY <1>1 DEF Lv2Types
  <1>4. ui' \in [open : BOOLEAN, map : Maps, kit : Nat, tone : Nat \ {0}] /\ ~ui'.open
    <2>1. DefaultMap \in Maps
      BY Numbers
    <2> QED
      BY <1>1, <2>1 DEF NoEditor
  <1>5. DefaultMap \in Maps
    BY Numbers
  <1> QED
    BY <1>1, <1>2, <1>3, <1>4, <1>5, ApartTypes DEF Lv2Types

(* Another map is written with the instrument's place in its list. *)
LEMMA MapTypes ==
  ASSUME Lv2Types, NEW m \in Buttons, OnMap(m)
  PROVE  \E tone \in Nat \ {0} :
           /\ tone = IF PatchAt(Entries("tone", ui.map), ui.tone) = 0 THEN ui.tone
                     ELSE Carry(Entries("tone", m), PatchAt(Entries("tone", ui.map), ui.tone))
           /\ ui' = [ui EXCEPT !.map = m, !.tone = tone]
           /\ writes' = Append(Append(writes, [port |-> "map", v |-> m]),
                               [port |-> "inst", v |-> tone])
           /\ Fit("map", m) /\ Fit("inst", tone)
           /\ Lv2Types' /\ Apart /\ UNCHANGED events /\ Show(ui')
  <1>1. m \in Maps
    BY DEF Buttons
  <1> DEFINE i == PatchAt(Entries("tone", ui.map), ui.tone)
  <1>2. PICK tone : tone = IF i = 0 THEN ui.tone ELSE Carry(Entries("tone", m), i)
    OBVIOUS
  <1>3. /\ ui' = [ui EXCEPT !.map = m, !.tone = tone]
        /\ writes' = writes \o To("map", m) \o To("inst", tone)
        /\ Apart /\ UNCHANGED events /\ Show(ui')
    BY <1>2 DEF OnMap, Apart
  <1>4. ui.tone \in Nat \ {0} /\ ui \in [open : BOOLEAN, map : Maps, kit : Nat, tone : Nat \ {0}]
    BY DEF Lv2Types
  <1>5. tone \in Nat \ {0}
    <2>1. Carry(Entries("tone", m), i) \in Nat \ {0}
      BY <1>1, CarryType DEF Entries
    <2> QED
      BY <1>2, <1>4, <2>1
  <1>6. Fit("map", m) /\ Fit("inst", tone)
    BY <1>1, <1>5, Numbers DEF Fit
  <1> HIDE DEF i
  <1> DEFINE a == [port |-> "map", v |-> m]
             b == [port |-> "inst", v |-> tone]
  <1>7. /\ writes' = Append(Append(writes, a), b) /\ writes' \in Seq(Message)
    <2>1. /\ a \in Message /\ b \in Message /\ writes \in Seq(Message)
          /\ \A seq \in Seq(Message) : /\ seq \o To("map", m) = Append(seq, a)
                                       /\ seq \o To("inst", tone) = Append(seq, b)
      BY <1>6, MessageTyped DEF Ports, Lv2Types
    <2> HIDE DEF a, b
    <2>2. Append(writes, a) \in Seq(Message) /\ Append(Append(writes, a), b) \in Seq(Message)
      BY <2>1
    <2> QED
      BY <1>3, <2>1, <2>2
  <1>8. ui'.map = m /\ ui'.tone = tone
        /\ ui' \in [open : BOOLEAN, map : Maps, kit : Nat, tone : Nat \ {0}]
    BY <1>1, <1>3, <1>4, <1>5
  <1>9. /\ shown_map' = ui'.map /\ rows' = rows
        /\ sel' \in [Both -> Nat] /\ top' \in [Both -> Nat]
    <2>1. rows \in Nat /\ top \in [Both -> Nat]
      BY WindowAssumption DEF Lv2Types
    <2> QED
      BY <1>1, <1>3, <1>5, <1>8, <2>1, ShowDraws
  <1>10. Lv2Types'
    BY <1>1, <1>3, <1>7, <1>8, <1>9, ApartTypes DEF Lv2Types
  <1> QED
    BY <1>2, <1>3, <1>5, <1>6, <1>7, <1>10 DEF i

(* A pick is written to its port: the position of a tone, the program of a
   kit. *)
Picked(l, p, v) ==
  /\ Fit(p, v) /\ writes' = Append(writes, [port |-> p, v |-> v])
  /\ p = "inst" <=> l = "tone"
  /\ ui' = IF l = "tone" THEN [ui EXCEPT !.tone = v] ELSE [ui EXCEPT !.kit = v]
  /\ sel'[l] \in 1 .. Len(Entries(l, ui.map))
  /\ \A other \in Both \ {l} : sel'[other] = sel[other]
  /\ v = IF l = "tone" THEN sel'[l] ELSE Patches[Entries(l, ui.map)[sel'[l]]].prog
  /\ Lv2Types' /\ Apart /\ UNCHANGED <<events, shown_map>>

LEMMA PickTypes ==
  ASSUME Lv2Types, shown_map = ui.map, NEW l \in Both, NEW k \in 1 .. (rows + 1), OnPick(l, k)
  PROVE  \E p \in {"inst", "kit"}, v \in Nat : Picked(l, p, v)
  <1>1. /\ Apart /\ UNCHANGED <<events, shown_map, top, rows>>
        /\ Row(l, k) <= Count(l) /\ sel' = [sel EXCEPT ![l] = Row(l, k)]
    BY DEF OnPick, Apart, PressRow
  <1>2. ui \in [open : BOOLEAN, map : Maps, kit : Nat, tone : Nat \ {0}] /\ ui.map \in Maps
    BY DEF Lv2Types
  <1>3. sel'[l] \in 1 .. Len(Entries(l, ui.map)) /\ sel' \in [Both -> Nat]
        /\ \A other \in Both \ {l} : sel'[other] = sel[other]
    <2>1. Row(l, k) \in Nat \ {0} /\ sel \in [Both -> Nat]
      <3>1. rows \in Nat /\ top[l] \in Nat /\ sel \in [Both -> Nat]
        BY WindowAssumption DEF Lv2Types
      <3> QED
        BY <3>1 DEF Row
    <2>2. Row(l, k) <= Len(Entries(l, ui.map)) /\ Len(Entries(l, ui.map)) \in Nat
      BY <1>1, <1>2, EntriesTyped DEF Count
    <2> QED
      BY <1>1, <2>1, <2>2
  <1>4. PICK v : v = IF l = "tone" THEN sel'[l]
                     ELSE Patches[Entries(l, ui.map)[sel'[l]]].prog
    OBVIOUS
  <1>5. PICK p \in {"inst", "kit"} : p = "inst" <=> l = "tone"
    OBVIOUS
  <1>6. v \in Nat /\ Fit(p, v)
    <2>1. CASE l = "tone"
      BY <1>3, <1>4, <1>5, <2>1 DEF Fit
    <2>2. CASE l # "tone"
      <3>1. Entries(l, ui.map)[sel'[l]] \in 1 .. Len(Patches)
        BY <1>2, <1>3, EntriesTyped
      <3> QED
        BY <1>4, <1>5, <2>2, <3>1, Numbers DEF Fit
    <2> QED
      BY <2>1, <2>2
  <1>7. /\ ui' = IF l = "tone" THEN [ui EXCEPT !.tone = v] ELSE [ui EXCEPT !.kit = v]
        /\ writes' = writes \o To(p, v)
    BY <1>4, <1>5 DEF OnPick
  <1>8. writes' = Append(writes, [port |-> p, v |-> v]) /\ writes' \in Seq(Message)
    <2>1. /\ [port |-> p, v |-> v] \in Message /\ writes \in Seq(Message)
          /\ writes' = Append(writes, [port |-> p, v |-> v])
      BY <1>6, <1>7, MessageTyped DEF Ports, Lv2Types
    <2> QED
      BY <2>1
  <1>9. ui' \in [open : BOOLEAN, map : Maps, kit : Nat, tone : Nat \ {0}]
    <2>1. l = "tone" => v # 0
      BY <1>5, <1>6 DEF Fit
    <2> QED
      BY <1>2, <1>6, <1>7, <2>1
  <1>10. Lv2Types'
    BY <1>1, <1>3, <1>8, <1>9, ApartTypes DEF Lv2Types
  <1> QED
    BY <1>1, <1>3, <1>4, <1>5, <1>6, <1>7, <1>8, <1>10 DEF Picked

LEMMA EventTypes ==
  ASSUME Lv2Types, PortEvent
  PROVE  \E e \in Message :
           /\ e = Head(events) /\ events # <<>> /\ events' = Tail(events)
           /\ ui' = CASE e.port = "map" -> [ui EXCEPT !.map = e.v]
                      [] e.port = "kit" -> [ui EXCEPT !.kit = e.v]
                      [] e.port = "inst" -> [ui EXCEPT !.tone = e.v]
           /\ ui'.open = ui.open
           /\ Lv2Types' /\ Apart /\ UNCHANGED writes /\ Show(ui')
  <1>1. PICK e : e = Head(events)
    OBVIOUS
  <1>2. /\ events # <<>> /\ events' = Tail(events)
        /\ ui' = CASE e.port = "map" -> [ui EXCEPT !.map = e.v]
                   [] e.port = "kit" -> [ui EXCEPT !.kit = e.v]
                   [] e.port = "inst" -> [ui EXCEPT !.tone = e.v]
        /\ Apart /\ UNCHANGED writes /\ Show(ui')
    BY <1>1 DEF PortEvent, Apart
  <1>3. e \in Message /\ events' \in Seq(Message) /\ writes' \in Seq(Message)
    BY <1>1, <1>2, SaidLess DEF Lv2Types
  <1>4. ui' \in [open : BOOLEAN, map : Maps, kit : Nat, tone : Nat \ {0}] /\ ui'.open = ui.open
    <2>1. ui \in [open : BOOLEAN, map : Maps, kit : Nat, tone : Nat \ {0}]
      BY DEF Lv2Types
    <2>2. /\ e.port \in {"map", "kit", "inst"} /\ e.v \in Nat
          /\ (e.port = "map" => e.v \in Maps) /\ (e.port = "inst" => e.v # 0)
      BY <1>3 DEF Message, Ports, Fit
    <2>3. CASE e.port = "map"
      <3>1. ui' = [ui EXCEPT !.map = e.v]
        BY <1>2, <2>3
      <3> QED
        BY <2>1, <2>2, <2>3, <3>1
    <2>4. CASE e.port = "kit"
      <3>1. ui' = [ui EXCEPT !.kit = e.v]
        BY <1>2, <2>4
      <3> QED
        BY <2>1, <2>2, <2>4, <3>1
    <2>5. CASE e.port = "inst"
      <3>1. ui' = [ui EXCEPT !.tone = e.v]
        BY <1>2, <2>5
      <3> QED
        BY <2>1, <2>2, <2>5, <3>1
    <2> QED
      BY <2>2, <2>3, <2>4, <2>5
  <1>5. /\ shown_map' = ui'.map /\ rows' = rows
        /\ sel' \in [Both -> Nat] /\ top' \in [Both -> Nat]
    <2>1. rows \in Nat /\ top \in [Both -> Nat]
      BY WindowAssumption DEF Lv2Types
    <2> QED
      BY <1>2, <1>4, <2>1, ShowDraws
  <1>6. Lv2Types'
    BY <1>3, <1>4, <1>5, ApartTypes, <1>2 DEF Lv2Types
  <1> QED
    BY <1>1, <1>2, <1>3, <1>4, <1>6

(* Scrolling and resizing move the rows shown. *)
LEMMA ViewTypes ==
  ASSUME Lv2Types, View
  PROVE  Lv2Types' /\ Apart /\ UNCHANGED <<writes, events, ui, shown_map, sel>>
  <1>1. Apart /\ UNCHANGED <<writes, events, ui, shown_map, sel>>
    BY DEF View, Apart, Wheel, ScrollTo, Resize, hostVars
  <1>2. rows \in Nat /\ top \in [Both -> Nat] /\ rows \in RowCounts
    BY WindowAssumption DEF Lv2Types
  <1>3. \A l \in Both : Count(l) \in Nat
    BY EntriesTyped DEF Count, Lv2Types
  <1>4. \A t \in Int, n \in Nat, r \in Nat : ClampTop(t, n, r) \in Nat
    BY DEF ClampTop
  <1>5. top' \in [Both -> Nat] /\ rows' \in RowCounts
    <2>1. ASSUME NEW l \in Both, NEW by \in {-3, 3}, Wheel(l, by)
          PROVE  top' \in [Both -> Nat] /\ rows' \in RowCounts
      <3>1. /\ top' = [top EXCEPT ![l] = ClampTop(top[l] + by, Count(l), rows)]
            /\ rows' = rows /\ top[l] + by \in Int
        BY <1>2, <2>1 DEF Wheel
      <3> QED
        BY <1>2, <1>3, <1>4, <3>1
    <2>2. ASSUME NEW l \in Both, NEW t \in 0 .. Count(l), ScrollTo(l, t)
          PROVE  top' \in [Both -> Nat] /\ rows' \in RowCounts
      <3>1. /\ top' = [top EXCEPT ![l] = ClampTop(t, Count(l), rows)]
            /\ rows' = rows /\ t \in Int
        BY <2>2 DEF ScrollTo
      <3> QED
        BY <1>2, <1>3, <1>4, <3>1
    <2>3. ASSUME NEW r \in RowCounts, Resize(r)
          PROVE  top' \in [Both -> Nat] /\ rows' \in RowCounts
      <3>1. /\ top' = [l \in Both |-> ClampTop(top[l], Count(l), r)]
            /\ rows' = r /\ r \in Nat /\ \A l \in Both : top[l] \in Int
        BY <1>2, <2>3, WindowAssumption DEF Resize
      <3> QED
        BY <1>3, <1>4, <3>1
    <2> QED
      BY <2>1, <2>2, <2>3 DEF View
  <1> QED
    BY <1>1, <1>5, ApartTypes DEF Lv2Types

-----------------------------------------------------------------------------
(* Ports and editor come to agree. *)

LEMMA CarriedStill ==
  ASSUME Carried, UNCHANGED <<ports, writes, events, ui, echoes>>
  PROVE  Carried'
  <1>1. OneWay' <=> OneWay
    BY DEF OneWay
  <1>2. \A p : Has(p)' = Has(p)
    BY DEF Has
  <1>3. ASSUME NEW p \in Ports
        PROVE  Agreeing(p) => Agreeing(p)'
    <2>1. /\ Silent(events, p)' <=> Silent(events, p)
          /\ Silent(writes, p)' <=> Silent(writes, p)
          /\ Says(events, p, ports[p])' <=> Says(events, p, ports[p])
      BY DEF Silent, Says
    <2>2. Says(writes, p, Has(p))' <=> Says(writes, p, Has(p))
      BY <1>2 DEF Says
    <2> QED
      BY <1>2, <2>1, <2>2 DEF Agreeing
  <1> QED
    BY <1>1, <1>3 DEF Carried

LEMMA CarriedDeliver ==
  ASSUME Lv2Types, Carried, DeliverWrite
  PROVE  Carried'
  <1>1. PICK e : e = Head(writes)
    OBVIOUS
  <1>2. /\ writes # <<>> /\ writes' = Tail(writes)
        /\ ports' = [ports EXCEPT ![e.port] = e.v]
        /\ events' = IF echoes /\ ui.open THEN Append(events, e) ELSE events
        /\ UNCHANGED <<ui, echoes>>
    BY <1>1 DEF DeliverWrite
  <1>3. /\ writes \in Seq(Message) /\ events \in Seq(Message) /\ ports \in [Ports -> Nat]
        /\ echoes \in BOOLEAN
    BY DEF Lv2Types
  <1>4. /\ e \in Message
        /\ \A p : Silent(writes, p) <=> Silent(writes', p) /\ e.port # p
        /\ \A p, v : Says(writes, p, v) <=>
                       Says(writes', p, v) \/ (Silent(writes', p) /\ e.port = p /\ e.v = v)
    BY <1>1, <1>2, <1>3, SaidLess
  <1>5. \A p \in Ports : ports'[p] = IF p = e.port THEN e.v ELSE ports[p]
    BY <1>2, <1>3
  <1>6. \A p : Has(p)' = Has(p)
    BY <1>2 DEF Has
  <1> SUFFICES ASSUME ui.open PROVE OneWay' /\ \A p \in Ports : Agreeing(p)'
    BY <1>2 DEF Carried
  <1>7. OneWay /\ \A p \in Ports : Agreeing(p)
    BY DEF Carried
  <1>8. CASE echoes
    <2>1. \A p : /\ Silent(events', p) <=> Silent(events, p) /\ e.port # p
                 /\ \A v : Says(events', p, v) <=> IF e.port = p THEN e.v = v ELSE Says(events, p, v)
      <3>1. events' = Append(events, e)
        BY <1>2, <1>8
      <3> QED
        BY <1>3, <1>4, <3>1, SaidMore
    <2>2. ASSUME NEW p \in Ports
          PROVE  \/ Says(events', p, ports'[p])
                 \/ Silent(events', p) /\ Silent(writes', p) /\ Has(p)' = ports'[p]
                 \/ ~Silent(writes', p)
      <3>1. \/ Says(events, p, ports[p])
            \/ Silent(events, p) /\ Silent(writes, p) /\ Has(p) = ports[p]
            \/ ~Silent(writes, p)
        BY <1>7, <1>8 DEF Agreeing
      <3> QED
        BY <1>4, <1>5, <1>6, <2>1, <3>1
    <2>3. OneWay'
      BY <1>2, <1>8 DEF OneWay
    <2> QED
      BY <1>2, <1>8, <2>2, <2>3 DEF Agreeing
  <1>9. CASE ~echoes
    <2>1. events = <<>> /\ events' = <<>>
      BY <1>2, <1>7, <1>9 DEF OneWay
    <2>2. ASSUME NEW p \in Ports
          PROVE  \/ Silent(events', p) /\ Silent(writes', p) /\ Has(p)' = ports'[p]
                 \/ Silent(events', p) /\ Says(writes', p, Has(p)')
      <3>1. Silent(events', p)
        BY <2>1, SaidNothing
      <3>2. \/ Silent(writes, p) /\ Has(p) = ports[p]
            \/ Says(writes, p, Has(p))
        BY <1>7, <1>9, <2>1, SaidNothing DEF Agreeing
      <3> QED
        BY <1>4, <1>5, <1>6, <3>1, <3>2
    <2>3. OneWay'
      BY <2>1 DEF OneWay
    <2> QED
      BY <1>2, <1>9, <2>2, <2>3 DEF Agreeing
  <1> QED
    BY <1>8, <1>9

LEMMA CarriedSet ==
  ASSUME Lv2Types, Carried, NEW q \in Ports, NEW v \in Values(q), SetPort(q, v)
  PROVE  Carried'
  <1>1. /\ ports' = [ports EXCEPT ![q] = v] /\ echoes
        /\ events' = IF ui.open THEN events \o To(q, v) ELSE events
        /\ UNCHANGED <<ui, echoes, writes>>
    BY DEF SetPort
  <1> SUFFICES ASSUME ui.open PROVE OneWay' /\ \A p \in Ports : Agreeing(p)'
    BY <1>1 DEF Carried
  <1>2. events \in Seq(Message) /\ ports \in [Ports -> Nat]
    BY DEF Lv2Types
  <1>3. PICK e \in Message : e.port = q /\ e.v = v /\ events' = Append(events, e)
    <2>1. Fit(q, v)
      BY ValueFits
    <2>2. [port |-> q, v |-> v] \in Message
          /\ events' = Append(events, [port |-> q, v |-> v])
      BY <1>1, <1>2, <2>1, MessageTyped
    <2> QED
      BY <2>2
  <1>4. \A p : /\ Silent(events', p) <=> Silent(events, p) /\ e.port # p
               /\ \A w : Says(events', p, w) <=> IF e.port = p THEN e.v = w ELSE Says(events, p, w)
    BY <1>2, <1>3, SaidMore
  <1>5. ASSUME NEW p \in Ports
        PROVE  Agreeing(p)'
    <2>1. \/ Says(events, p, ports[p])
          \/ Silent(events, p) /\ Silent(writes, p) /\ Has(p) = ports[p]
          \/ ~Silent(writes, p)
      BY <1>1 DEF Carried, Agreeing
    <2>2. ports'[p] = IF p = q THEN v ELSE ports[p]
      BY <1>1, <1>2
    <2>3. Has(p)' = Has(p) /\ (Silent(writes, p)' <=> Silent(writes, p))
      BY <1>1 DEF Has, Silent
    <2>4. \/ Says(events', p, ports'[p])
          \/ Silent(events', p) /\ Silent(writes', p) /\ Has(p)' = ports'[p]
          \/ ~Silent(writes', p)
      BY <1>3, <1>4, <2>1, <2>2, <2>3
    <2> QED
      BY <1>1, <2>4 DEF Agreeing
  <1>6. OneWay'
    BY <1>1 DEF OneWay
  <1> QED
    BY <1>5, <1>6

LEMMA CarriedOpen ==
  ASSUME Lv2Types, OpenEditor
  PROVE  Carried'
  <1>1. /\ UNCHANGED <<writes, ports, echoes>> /\ (echoes \/ writes = <<>>)
        /\ \A p \in Ports : Says(events', p, ports[p])
    BY OpenTypes DEF Apart
  <1> QED
    BY <1>1 DEF Carried, OneWay, Agreeing

(* The user presses nothing before the editor was told, where nothing comes
   back. *)
LEMMA CarriedMap ==
  ASSUME Lv2Types, Carried, NEW m \in Buttons, OnMap(m)
  PROVE  Carried'
  <1>1. PICK tone \in Nat \ {0} :
          /\ ui' = [ui EXCEPT !.map = m, !.tone = tone]
          /\ writes' = Append(Append(writes, [port |-> "map", v |-> m]),
                              [port |-> "inst", v |-> tone])
          /\ Fit("map", m) /\ Fit("inst", tone)
          /\ Apart /\ UNCHANGED events
    BY MapTypes
  <1>2. /\ ui \in [open : BOOLEAN, map : Maps, kit : Nat, tone : Nat \ {0}]
        /\ writes \in Seq(Message) /\ ui.open /\ (echoes \/ events = <<>>)
        /\ UNCHANGED <<ports, echoes>>
    BY <1>1 DEF Lv2Types, OnMap, Told, Apart
  <1>3. OneWay /\ \A p \in Ports : Agreeing(p)
    BY <1>2 DEF Carried
  <1>4. PICK a \in Message : a = [port |-> "map", v |-> m]
    BY <1>1, MessageTyped DEF Ports
  <1>5. PICK b \in Message : b = [port |-> "inst", v |-> tone]
    BY <1>1, MessageTyped DEF Ports
  <1>6. PICK one : one = Append(writes, a)
    OBVIOUS
  <1>7. writes' = Append(one, b) /\ one \in Seq(Message)
    BY <1>1, <1>2, <1>4, <1>5, <1>6
  <1>8. /\ a.port = "map" /\ a.v = m /\ b.port = "inst" /\ b.v = tone
        /\ Has("map")' = m /\ Has("inst")' = tone /\ Has("kit")' = Has("kit")
    BY <1>1, <1>2, <1>4, <1>5 DEF Has
  <1>9. \A p : /\ Silent(one, p) <=> Silent(writes, p) /\ a.port # p
               /\ \A v : Says(one, p, v) <=> IF a.port = p THEN a.v = v ELSE Says(writes, p, v)
    BY <1>2, <1>6, SaidMore
  <1>10. \A p : /\ Silent(writes', p) <=> Silent(one, p) /\ b.port # p
                /\ \A v : Says(writes', p, v) <=> IF b.port = p THEN b.v = v ELSE Says(one, p, v)
    BY <1>7, SaidMore
  <1>11. /\ Says(writes', "map", m) /\ Says(writes', "inst", tone)
         /\ ~Silent(writes', "map") /\ ~Silent(writes', "inst")
         /\ Silent(writes', "kit") <=> Silent(writes, "kit")
         /\ \A v : Says(writes', "kit", v) <=> Says(writes, "kit", v)
    BY <1>8, <1>9, <1>10
  <1>12. ASSUME NEW p \in Ports
         PROVE  Agreeing(p)'
    <2>1. CASE p = "kit"
      <3>1. /\ Silent(writes', p) <=> Silent(writes, p)
            /\ \A v : Says(writes', p, v) <=> Says(writes, p, v)
            /\ Has(p)' = Has(p)
        BY <1>8, <1>11, <2>1
      <3> QED
        BY <1>1, <1>2, <1>3, <3>1 DEF Agreeing
    <2>2. CASE p # "kit"
      <3>1. ~Silent(writes', p) /\ Says(writes', p, Has(p)')
        BY <1>8, <1>11, <2>2 DEF Ports
      <3>2. ~echoes => Silent(events', p)
        BY <1>1, <1>2, SaidNothing
      <3> QED
        BY <1>2, <3>1, <3>2 DEF Agreeing
    <2> QED
      BY <2>1, <2>2
  <1>13. OneWay'
    BY <1>1, <1>2 DEF OneWay
  <1> QED
    BY <1>12, <1>13 DEF Carried

LEMMA CarriedPick ==
  ASSUME Lv2Types, Carried, shown_map = ui.map, NEW l \in Both, NEW k \in 1 .. (rows + 1),
         OnPick(l, k)
  PROVE  Carried'
  <1>1. PICK q \in {"inst", "kit"}, w \in Nat : Picked(l, q, w)
    BY PickTypes, Zenon
  <1>a. /\ Fit(q, w) /\ writes' = Append(writes, [port |-> q, v |-> w])
        /\ q = "inst" <=> l = "tone"
        /\ ui' = IF l = "tone" THEN [ui EXCEPT !.tone = w] ELSE [ui EXCEPT !.kit = w]
        /\ Apart /\ UNCHANGED events
    BY <1>1 DEF Picked
  <1>2. /\ ui \in [open : BOOLEAN, map : Maps, kit : Nat, tone : Nat \ {0}]
        /\ writes \in Seq(Message) /\ ui.open /\ (echoes \/ events = <<>>)
        /\ UNCHANGED <<ports, echoes>>
    BY <1>a DEF Lv2Types, OnPick, Told, Apart
  <1>3. OneWay /\ \A p \in Ports : Agreeing(p)
    BY <1>2 DEF Carried
  <1>4. PICK e \in Message : e = [port |-> q, v |-> w]
    BY <1>a, MessageTyped DEF Ports
  <1>5. \A p : /\ Silent(writes', p) <=> Silent(writes, p) /\ e.port # p
               /\ \A v : Says(writes', p, v) <=> IF e.port = p THEN e.v = v ELSE Says(writes, p, v)
    <2>1. writes' = Append(writes, e) /\ writes \in Seq(Message)
      BY <1>a, <1>2, <1>4
    <2> QED
      BY <2>1, SaidMore
  <1>6. e.port = q /\ e.v = w
    BY <1>4
  <1>7. Has(q)' = w /\ \A p \in Ports : p # q => Has(p)' = Has(p)
    BY <1>a, <1>2 DEF Has, Ports
  <1>8. ASSUME NEW p \in Ports
        PROVE  Agreeing(p)'
    <2>1. CASE p # q
      <3>1. /\ Silent(writes', p) <=> Silent(writes, p)
            /\ \A v : Says(writes', p, v) <=> Says(writes, p, v)
            /\ Has(p)' = Has(p)
        BY <1>5, <1>6, <1>7, <2>1
      <3> QED
        BY <1>a, <1>2, <1>3, <3>1 DEF Agreeing
    <2>2. CASE p = q
      <3>1. ~Silent(writes', p) /\ Says(writes', p, Has(p)')
        BY <1>5, <1>6, <1>7, <2>2
      <3>2. ~echoes => Silent(events', p)
        BY <1>a, <1>2, SaidNothing
      <3> QED
        BY <1>2, <3>1, <3>2 DEF Agreeing
    <2> QED
      BY <2>1, <2>2
  <1>9. OneWay'
    BY <1>a, <1>2 DEF OneWay
  <1> QED
    BY <1>8, <1>9 DEF Carried

LEMMA CarriedEvent ==
  ASSUME Lv2Types, Carried, PortEvent
  PROVE  Carried'
  <1>1. PICK e \in Message :
          /\ e = Head(events) /\ events # <<>> /\ events' = Tail(events)
          /\ ui' = CASE e.port = "map" -> [ui EXCEPT !.map = e.v]
                     [] e.port = "kit" -> [ui EXCEPT !.kit = e.v]
                     [] e.port = "inst" -> [ui EXCEPT !.tone = e.v]
          /\ Apart /\ UNCHANGED writes
    BY EventTypes
  <1>2. /\ ui \in [open : BOOLEAN, map : Maps, kit : Nat, tone : Nat \ {0}]
        /\ events \in Seq(Message) /\ ui.open /\ UNCHANGED <<ports, echoes>>
    BY <1>1 DEF Lv2Types, PortEvent, Apart
  <1>3. OneWay /\ \A p \in Ports : Agreeing(p)
    BY <1>2 DEF Carried
  <1>4. \A p : /\ Silent(events, p) <=> Silent(events', p) /\ e.port # p
               /\ \A v : Says(events, p, v) <=>
                     Says(events', p, v) \/ (Silent(events', p) /\ e.port = p /\ e.v = v)
    BY <1>1, <1>2, SaidLess
  <1>5. \A p \in Ports : Has(p)' = IF p = e.port THEN e.v ELSE Has(p)
    <2>1. e.port \in Ports
      BY DEF Message
    <2>2. CASE e.port = "map"
      <3>1. ui' = [ui EXCEPT !.map = e.v]
        BY <1>1, <2>2
      <3> QED
        BY <1>2, <2>2, <3>1 DEF Has, Ports
    <2>3. CASE e.port = "kit"
      <3>1. ui' = [ui EXCEPT !.kit = e.v]
        BY <1>1, <2>3
      <3> QED
        BY <1>2, <2>3, <3>1 DEF Has, Ports
    <2>4. CASE e.port = "inst"
      <3>1. ui' = [ui EXCEPT !.tone = e.v]
        BY <1>1, <2>4
      <3> QED
        BY <1>2, <2>4, <3>1 DEF Has, Ports
    <2> QED
      BY <2>1, <2>2, <2>3, <2>4 DEF Ports
  <1>6. ~echoes => writes = <<>>
    BY <1>1, <1>3 DEF OneWay
  <1>7. ASSUME NEW p \in Ports
        PROVE  Agreeing(p)'
    <2>1. ~echoes => Silent(writes, p) /\ \A v : ~Says(writes, p, v)
      BY <1>6, SaidNothing
    <2>2. \/ Says(events, p, ports[p])
          \/ Silent(events, p) /\ Silent(writes, p) /\ Has(p) = ports[p]
          \/ echoes /\ ~Silent(writes, p)
      BY <1>3, <2>1 DEF Agreeing
    <2>3. \/ Says(events', p, ports[p])
          \/ Silent(events', p) /\ Silent(writes, p) /\ Has(p)' = ports[p]
          \/ echoes /\ ~Silent(writes, p)
      BY <1>4, <1>5, <2>1, <2>2
    <2> QED
      BY <1>1, <1>2, <2>3 DEF Agreeing
  <1>8. OneWay'
    BY <1>1, <1>2, <1>6 DEF OneWay
  <1> QED
    BY <1>7, <1>8 DEF Carried

LEMMA CarriedStep ==
  ASSUME Lv2Types, Carried, Drawn, Next
  PROVE  Carried'
  <1>1. CASE Run \/ RunMidi
    BY <1>1, RunTypes, CarriedStill DEF hostVars
  <1>2. CASE Host
    <2>1. ASSUME NEW p \in {"map", "kit", "inst"}, NEW v \in Values(p), SetPort(p, v)
          PROVE  Carried'
      BY <2>1, CarriedSet DEF Ports
    <2> QED
      BY <1>2, <2>1, CarriedDeliver DEF Host
  <1>3. CASE OpenEditor
    BY <1>3, CarriedOpen
  <1>4. CASE CloseEditor
    BY <1>4, CloseTypes DEF Carried
  <1>5. ASSUME NEW m \in Buttons, OnMap(m)
        PROVE  Carried'
    BY <1>5, CarriedMap
  <1>6. ASSUME NEW l \in Both, NEW k \in 1 .. (rows + 1), OnPick(l, k)
        PROVE  Carried'
    <2>1. shown_map = ui.map
      BY <1>6 DEF OnPick, Drawn
    <2> QED
      BY <1>6, <2>1, CarriedPick
  <1>7. CASE PortEvent
    BY <1>7, CarriedEvent
  <1>8. CASE View
    BY <1>8, ViewTypes, CarriedStill DEF Apart
  <1> QED
    BY <1>1, <1>2, <1>3, <1>4, <1>5, <1>6, <1>7, <1>8 DEF Next, Editor

-----------------------------------------------------------------------------
(* The lists show what the editor holds. *)

LEMMA DrawnStill ==
  ASSUME Drawn, UNCHANGED <<ui, shown_map, sel>>
  PROVE  Drawn'
  BY DEF Drawn, Shows, Wanted

LEMMA DrawnOpen ==
  ASSUME Lv2Types, OpenEditor
  PROVE  Drawn'
  BY OpenTypes DEF Drawn, Shows, Wanted

LEMMA DrawnShow ==
  ASSUME Lv2Types, Lv2Types', Show(ui')
  PROVE  Drawn' /\ \A l \in Both : Shows(l)'
  <1>1. ui'.map \in Maps /\ ui'.tone \in Nat \ {0} /\ rows \in Nat /\ top \in [Both -> Nat]
    BY WindowAssumption DEF Lv2Types
  <1>2. /\ shown_map' = ui'.map
        /\ \A l \in Both : sel'[l] = Cut(IF l = "tone" THEN ui'.tone ELSE KitAt(ui'.map, ui'.kit),
                                         Len(Entries(l, ui'.map)))
    BY <1>1, ShowDraws
  <1>3. ASSUME NEW l \in Both
        PROVE  Shows(l)'
    BY <1>2 DEF Shows, Wanted
  <1> QED
    BY <1>2, <1>3 DEF Drawn

LEMMA DrawnPick ==
  ASSUME Lv2Types, Drawn, NEW l \in Both, NEW k \in 1 .. (rows + 1), OnPick(l, k)
  PROVE  Drawn'
  <1>1. ui.open /\ shown_map = ui.map
    BY DEF OnPick, Drawn
  <1>2. PICK p \in {"inst", "kit"}, v \in Nat : Picked(l, p, v)
    BY <1>1, PickTypes, Zenon
  <1>3. /\ ui' = IF l = "tone" THEN [ui EXCEPT !.tone = v] ELSE [ui EXCEPT !.kit = v]
        /\ sel'[l] \in 1 .. Len(Entries(l, ui.map))
        /\ \A other \in Both \ {l} : sel'[other] = sel[other]
        /\ v = IF l = "tone" THEN sel'[l] ELSE Patches[Entries(l, ui.map)[sel'[l]]].prog
        /\ UNCHANGED <<events, shown_map>>
    BY <1>2 DEF Picked
  <1>4. ui \in [open : BOOLEAN, map : Maps, kit : Nat, tone : Nat \ {0}] /\ ui.map \in Maps
    BY DEF Lv2Types
  <1>5. /\ ui'.map = ui.map /\ ui'.open = ui.open
        /\ l = "tone" => ui'.tone = v /\ ui'.kit = ui.kit
        /\ l = "kit" => ui'.kit = v /\ ui'.tone = ui.tone
    <2>1. CASE l = "tone"
      BY <1>3, <1>4, <2>1
    <2>2. CASE l = "kit"
      BY <1>3, <1>4, <2>2
    <2> QED
      BY <2>1, <2>2 DEF Both
  <1>6. Len(Entries(l, ui.map)) \in Nat
    BY <1>4, EntriesTyped
  <1>7. Shows(l)' \/ (l = "kit" /\ ~KitsApart)
    <2>1. CASE l = "tone"
      <3>1. Cut(sel'[l], Len(Entries(l, ui.map))) = sel'[l]
        BY <1>3, <1>6 DEF Cut
      <3>2. ui'.tone = sel'[l]
        BY <1>3, <1>5, <2>1
      <3> QED
        BY <1>5, <2>1, <3>1, <3>2 DEF Shows, Wanted
    <2>2. CASE l = "kit" /\ KitsApart
      <3>1. KitAt(ui.map, v) = sel'[l]
        BY <1>3, <1>4, <2>2, KitFound
      <3>2. Cut(sel'[l], Len(Entries(l, ui.map))) = sel'[l]
        BY <1>3, <1>6 DEF Cut
      <3> QED
        BY <1>5, <2>2, <3>1, <3>2 DEF Shows, Wanted
    <2> QED
      BY <2>1, <2>2 DEF Both
  <1>8. ASSUME NEW other \in Both \ {l}
        PROVE  Shows(other)' <=> Shows(other)
    <2>1. Wanted(other)' = Wanted(other)
      BY <1>5, <1>8 DEF Wanted, Both
    <2> QED
      BY <1>3, <1>5, <2>1 DEF Shows
  <1>9. ASSUME NEW other \in Both
        PROVE  \/ Shows(other)'
               \/ other = "kit" /\ ~KitsApart
    <2>1. CASE other = l
      BY <1>7, <2>1
    <2>2. CASE other # l
      <3>1. \/ Shows(other)
            \/ other = "kit" /\ ~KitsApart
        BY <1>1, <1>9 DEF Drawn
      <3> QED
        BY <1>3, <1>5, <1>8, <2>2, <3>1
    <2> QED
      BY <2>1, <2>2
  <1> QED
    BY <1>1, <1>3, <1>5, <1>9 DEF Drawn

LEMMA DrawnStep ==
  ASSUME Lv2Types, Drawn, Next
  PROVE  Drawn'
  <1>1. CASE Run \/ RunMidi
    BY <1>1, RunTypes, DrawnStill DEF hostVars, windowVars
  <1>2. CASE Host
    BY <1>2, HostTypes, DrawnStill DEF windowVars
  <1>3. CASE OpenEditor
    BY <1>3, DrawnOpen
  <1>4. CASE CloseEditor
    BY <1>4, CloseTypes DEF Drawn
  <1>5. ASSUME NEW m \in Buttons, OnMap(m)
        PROVE  Drawn'
    <2>1. Lv2Types' /\ Show(ui')
      BY <1>5, MapTypes
    <2> QED
      BY <2>1, DrawnShow
  <1>6. ASSUME NEW l \in Both, NEW k \in 1 .. (rows + 1), OnPick(l, k)
        PROVE  Drawn'
    BY <1>6, DrawnPick
  <1>7. CASE PortEvent
    <2>1. Lv2Types' /\ Show(ui')
      BY <1>7, EventTypes
    <2> QED
      BY <2>1, DrawnShow
  <1>8. CASE View
    BY <1>8, ViewTypes, DrawnStill
  <1> QED
    BY <1>1, <1>2, <1>3, <1>4, <1>5, <1>6, <1>7, <1>8 DEF Next, Editor

-----------------------------------------------------------------------------
(* The plugin plays what its ports resolve to. *)

LEMMA ResolvedStill ==
  ASSUME NEW l, UNCHANGED ports
  PROVE  Resolved(l)' = Resolved(l)
  BY DEF Resolved

LEMMA DealtApart ==
  ASSUME Dealt, UNCHANGED <<pluginVars, ports>>
  PROVE  Dealt'
  <1>1. \A l : Sent(l)' <=> Sent(l)
    BY ResolvedStill DEF Sent, pluginVars
  <1> QED
    BY <1>1 DEF Dealt, PerPart, HasSet, pluginVars, engineVars, policyVars

LEMMA DealtMap ==
  ASSUME Lv2Types, RunMap
  PROVE  Dealt'
  <1>1. pc' = "tone" /\ ports' = ports /\ EngineTypes /\ ports["map"] \in Maps
    BY DEF RunMap, Lv2Types, hostVars, Fit, Ports
  <1>2. CASE SetMapOnParts(ports["map"])
    BY <1>1, <1>2, SetMapDoes DEF Dealt, HasSet
  <1>3. CASE SetMapKept(ports["map"]) \/ ReopenFails(ports["map"])
    BY <1>1, <1>3 DEF Dealt, SetMapKept, ReopenFails, PerPart, engineVars, policyVars
  <1>4. CASE Reopen(ports["map"])
    BY <1>1, <1>4, StartTypes DEF Dealt, Reopen, PerPart
  <1> QED
    BY <1>2, <1>3, <1>4 DEF RunMap

(* A patch sent leaves the maps and the other part alone. *)
LEMMA SendDoes ==
  ASSUME Lv2Types, NEW l \in Both, RunSend(l), NEW i, i = Resolved(l)
  PROVE  /\ pc = l /\ pc' = (IF l = "tone" THEN "kit" ELSE "midi")
         /\ UNCHANGED <<ports, mode, map_of>>
         /\ \A other \in Both \ {l} : sent'[other] = sent[other] /\ SamePart(ChOf(other))
         /\ \/ /\ i \in 1 .. Len(Patches) /\ sent'[l] = i
               /\ Holds(ChOf(l), Patches[i].bank, Patches[i].prog)'
               /\ PerPart => part'[ChOf(l)].sound.map = Patches[i].map
               /\ chosen' = chosen \cup {l}
            \/ i \in {0, sent[l]} /\ UNCHANGED <<engineVars, sent, chosen>>
  <1>2. /\ pc = l /\ pc' = (IF l = "tone" THEN "kit" ELSE "midi") /\ UNCHANGED ports
        /\ sent \in [Both -> Nat] /\ EngineTypes
    BY DEF RunSend, hostVars, Lv2Types
  <1>3. CASE i \notin {0, sent[l]}
    <2>1. i \in 1 .. Len(Patches)
      BY <1>3, ResolvedTyped
    <2>2. /\ Patch(ChOf(l), Patches[i].map, Patches[i].bank, Patches[i].prog)
          /\ sent' = [sent EXCEPT ![l] = i] /\ chosen' = chosen \cup {l}
      BY <1>3 DEF RunSend
    <2>3. /\ UNCHANGED <<mode, map_of>>
          /\ \A c \in Parts \ {ChOf(l)} : SamePart(c)
          /\ Holds(ChOf(l), Patches[i].bank, Patches[i].prog)'
          /\ PerPart => part'[ChOf(l)].sound.map = Patches[i].map
      BY <1>2, <2>1, <2>2, PatchDoes, Numbers, Constants
    <2>4. \A other \in Both \ {l} : sent'[other] = sent[other] /\ SamePart(ChOf(other))
      BY <1>2, <2>2, <2>3, Constants
    <2> QED
      BY <1>2, <2>1, <2>2, <2>3, <2>4
  <1>4. CASE i \in {0, sent[l]}
    <2>1. UNCHANGED <<engineVars, sent, chosen>>
      BY <1>4 DEF RunSend
    <2> QED
      BY <1>2, <1>4, <2>1 DEF engineVars, policyVars, SamePart
  <1> QED
    BY <1>3, <1>4

LEMMA DealtSend ==
  ASSUME Lv2Types, Dealt, NEW l \in Both, RunSend(l)
  PROVE  Dealt'
  <1>1. /\ pc = l /\ pc' = (IF l = "tone" THEN "kit" ELSE "midi")
        /\ UNCHANGED <<ports, mode, map_of>>
        /\ \A other \in Both \ {l} : sent'[other] = sent[other]
        /\ Resolved(l) # 0 => sent'[l] = Resolved(l)
    <2>1. PICK i : i = Resolved(l)
      OBVIOUS
    <2> QED
      BY <2>1, SendDoes
  <1>2. PerPart => HasSet(ports["map"])
    BY <1>1 DEF Dealt, Both
  <1>3. Sent(l)' /\ \A other \in Both \ {l} : Sent(other)' <=> Sent(other)
    BY <1>1, ResolvedStill DEF Sent
  <1>4. l = "kit" => Sent("tone")
    BY <1>1 DEF Dealt
  <1> QED
    BY <1>1, <1>2, <1>3, <1>4 DEF Dealt, PerPart, HasSet, Both

LEMMA MidiDoes ==
  ASSUME Lv2Types, RunMidi
  PROVE  /\ UNCHANGED <<sent, pc, ports, mode, map_of>>
         /\ \/ chosen' = {}
            \/ \E l \in Both : /\ chosen' = chosen \ {l}
                               /\ \A other \in Both \ {l} : SamePart(ChOf(other))
  <1>1. UNCHANGED <<sent, pc, ports>> /\ EngineTypes
    BY DEF RunMidi, hostVars, Lv2Types
  <1>2. ASSUME NEW l \in Both, NEW p \in Programs, MidiProgram(ChOf(l), p)
        PROVE  UNCHANGED <<mode, map_of>> /\ \A other \in Both \ {l} : SamePart(ChOf(other))
    BY <1>1, <1>2, WireDoes, Numbers, Constants
  <1>3. ASSUME NEW l \in Both, NEW b \in Banks, MidiBank(ChOf(l), b)
        PROVE  UNCHANGED <<mode, map_of>> /\ \A other \in Both \ {l} : SamePart(ChOf(other))
    BY <1>1, <1>3, WireDoes, Numbers, Constants
  <1>4. MidiReset => UNCHANGED <<mode, map_of>>
    BY <1>1, WireResetTypes
  <1> QED
    BY <1>1, <1>2, <1>3, <1>4 DEF RunMidi

LEMMA DealtStep ==
  ASSUME Lv2Types, Dealt, Next
  PROVE  Dealt'
  <1>1. CASE RunMap
    BY <1>1, DealtMap
  <1>2. ASSUME NEW l \in Both, RunSend(l)
        PROVE  Dealt'
    BY <1>2, DealtSend
  <1>3. CASE RunMidi
    <2>1. UNCHANGED <<sent, pc, ports, mode, map_of>>
      BY <1>3, MidiDoes
    <2>2. \A l : Sent(l)' <=> Sent(l)
      BY <2>1, ResolvedStill DEF Sent
    <2> QED
      BY <2>1, <2>2 DEF Dealt, PerPart, HasSet
  <1>4. CASE RunEnds
    BY <1>4 DEF RunEnds, Dealt
  <1>5. CASE Host
    <2>1. pc' = "idle"
      BY <1>5, HostTypes DEF pluginVars
    <2> QED
      BY <2>1 DEF Dealt
  <1>6. CASE Editor
    <2>1. UNCHANGED <<pluginVars, ports>>
      BY <1>6 DEF Editor, OpenEditor, CloseEditor, OnMap, OnPick, PortEvent, View, hostVars
    <2> QED
      BY <2>1, DealtApart
  <1> QED
    BY <1>1, <1>2, <1>3, <1>4, <1>5, <1>6 DEF Next, Run

(* What a part plays stays until a message to it. *)
LEMMA PlaysStill ==
  ASSUME NEW l, PlaysOf(l), sent'[l] = sent[l], SamePart(ChOf(l)), UNCHANGED <<mode, map_of>>
  PROVE  PlaysOf(l)'
  BY DEF PlaysOf, Holds, SamePart, PerPart

LEMMA PlaysMap ==
  ASSUME Lv2Types, PlaysChosen, RunMap
  PROVE  PlaysChosen'
  <1>1. sent' = sent /\ EngineTypes /\ ports["map"] \in Maps /\ chosen \subseteq Both
    BY DEF RunMap, Lv2Types, Fit, Ports
  <1>2. CASE SetMapOnParts(ports["map"]) /\ UNCHANGED chosen
    <2>1. /\ UNCHANGED mode /\ \A ch \in Parts : map_of'[ch] = ports["map"]
          /\ \A ch \in Parts : \A b, p : Holds(ch, b, p) => Holds(ch, b, p)'
          /\ \A ch \in Parts : \/ part'[ch].sound.map = ports["map"]
                               \/ SamePart(ch) /\ map_of[ch] = ports["map"]
      BY <1>1, <1>2, SetMapDoes DEF HasSet
    <2>2. ASSUME NEW l \in chosen
          PROVE  PlaysOf(l)'
      <3>1. ChOf(l) \in Parts /\ PlaysOf(l)
        BY <1>1, Constants DEF PlaysChosen
      <3>2. map_of'[ChOf(l)] = ports["map"]
        BY <2>1, <3>1
      <3>3. part'[ChOf(l)].sound.map \in {part[ChOf(l)].sound.map, ports["map"]}
            /\ (part'[ChOf(l)].sound.map # ports["map"] => map_of[ChOf(l)] = ports["map"])
        BY <2>1, <3>1 DEF SamePart
      <3> QED
        BY <1>1, <2>1, <3>1, <3>2, <3>3 DEF PlaysOf, PerPart
    <2> QED
      BY <1>2, <2>2 DEF PlaysChosen
  <1>3. CASE (SetMapKept(ports["map"]) \/ ReopenFails(ports["map"])) /\ UNCHANGED chosen
    <2>1. UNCHANGED engineVars
      BY <1>3 DEF SetMapKept, ReopenFails
    <2> QED
      BY <1>1, <1>3, <2>1, PlaysStill DEF PlaysChosen, engineVars, policyVars, SamePart
  <1>4. CASE chosen' = {}
    BY <1>4 DEF PlaysChosen
  <1> QED
    BY <1>2, <1>3, <1>4 DEF RunMap

LEMMA PlaysSend ==
  ASSUME Lv2Types, PlaysChosen, NEW l \in Both, RunSend(l)
  PROVE  PlaysChosen'
  <1>1. PICK i : i = Resolved(l)
    OBVIOUS
  <1>2. /\ UNCHANGED <<mode, map_of>> /\ chosen \subseteq Both
        /\ \A other \in Both \ {l} : sent'[other] = sent[other] /\ SamePart(ChOf(other))
    BY SendDoes DEF Lv2Types
  <1>3. CASE /\ i \in 1 .. Len(Patches) /\ sent'[l] = i
             /\ Holds(ChOf(l), Patches[i].bank, Patches[i].prog)'
             /\ PerPart => part'[ChOf(l)].sound.map = Patches[i].map
             /\ chosen' = chosen \cup {l}
    <2>1. PlaysOf(l)'
      BY <1>2, <1>3 DEF PlaysOf, PerPart
    <2>2. \A other \in chosen \ {l} : PlaysOf(other)'
      BY <1>2, PlaysStill DEF PlaysChosen
    <2> QED
      BY <1>3, <2>1, <2>2 DEF PlaysChosen
  <1>4. CASE UNCHANGED <<engineVars, sent, chosen>>
    BY <1>4, PlaysStill DEF PlaysChosen, engineVars, policyVars, SamePart
  <1> QED
    BY <1>1, <1>3, <1>4, SendDoes

LEMMA PlaysStep ==
  ASSUME Lv2Types, PlaysChosen, Next
  PROVE  PlaysChosen'
  <1>1. CASE RunMap
    BY <1>1, PlaysMap
  <1>2. ASSUME NEW l \in Both, RunSend(l)
        PROVE  PlaysChosen'
    BY <1>2, PlaysSend
  <1>3. CASE RunMidi
    <2>1. UNCHANGED <<sent, mode, map_of>> /\ chosen \subseteq Both
      BY <1>3, MidiDoes DEF Lv2Types
    <2>2. ASSUME NEW l \in Both, chosen' = chosen \ {l},
                 \A other \in Both \ {l} : SamePart(ChOf(other))
          PROVE  PlaysChosen'
      BY <2>1, <2>2, PlaysStill DEF PlaysChosen
    <2>3. CASE chosen' = {}
      BY <2>3 DEF PlaysChosen
    <2> QED
      BY <1>3, <2>2, <2>3, MidiDoes
  <1>4. CASE RunEnds \/ Host \/ Editor
    <2>1. UNCHANGED <<engineVars, sent, chosen>>
      <3>1. Editor => UNCHANGED <<engineVars, sent, chosen>>
        BY DEF Editor, OpenEditor, CloseEditor, OnMap, OnPick, PortEvent, View, pluginVars
      <3>2. Host => UNCHANGED <<engineVars, sent, chosen>>
        BY HostTypes DEF pluginVars
      <3> QED
        BY <1>4, <3>1, <3>2 DEF RunEnds
    <2> QED
      BY <2>1, PlaysStill DEF PlaysChosen, engineVars, policyVars, SamePart
  <1> QED
    BY <1>1, <1>2, <1>3, <1>4 DEF Next, Run

-----------------------------------------------------------------------------
(* The invariant. *)

LEMMA Lv2Start == Init => Lv2Inv
  <1> SUFFICES ASSUME Init PROVE Lv2Inv
    OBVIOUS
  <1>1. ~ui.open /\ pc = "idle" /\ chosen = {}
    BY DEF Init, NoEditor
  <1> QED
    BY <1>1, InitTypes DEF Lv2Inv, Carried, Drawn, Dealt, PlaysChosen

LEMMA Lv2Stutters ==
  ASSUME Lv2Inv, UNCHANGED vars
  PROVE  Lv2Inv'
  <1>1. Lv2Types'
    BY DEF Lv2Inv, Lv2Types, EngineTypes, vars, pluginVars, engineVars, policyVars, hostVars,
           windowVars
  <1>2. Carried'
    BY CarriedStill DEF Lv2Inv, vars, hostVars
  <1>3. Drawn'
    BY DrawnStill DEF Lv2Inv, vars, hostVars, windowVars
  <1>4. Dealt'
    BY DealtApart DEF Lv2Inv, vars, hostVars
  <1>5. PlaysChosen'
    BY PlaysStill DEF Lv2Inv, PlaysChosen, vars, pluginVars, engineVars, policyVars, SamePart
  <1> QED
    BY <1>1, <1>2, <1>3, <1>4, <1>5 DEF Lv2Inv

LEMMA TypesStep ==
  ASSUME Lv2Types, Drawn, Next
  PROVE  Lv2Types'
  <1>1. ASSUME NEW l \in Both, NEW k \in 1 .. (rows + 1), OnPick(l, k)
        PROVE  Lv2Types'
    <2>1. shown_map = ui.map
      BY <1>1 DEF OnPick, Drawn
    <2>2. PICK p \in {"inst", "kit"}, v \in Nat : Picked(l, p, v)
      BY <1>1, <2>1, PickTypes, Zenon
    <2> QED
      BY <2>2 DEF Picked
  <1>2. ASSUME NEW m \in Buttons, OnMap(m)
        PROVE  Lv2Types'
    BY <1>2, MapTypes
  <1>3. PortEvent => Lv2Types'
    BY EventTypes
  <1>4. Run \/ RunMidi => Lv2Types'
    BY RunTypes
  <1> QED
    BY <1>1, <1>2, <1>3, <1>4, HostTypes, OpenTypes, CloseTypes, ViewTypes DEF Next, Editor

LEMMA Lv2Always == Spec => []Lv2Inv
  <1>1. Init => Lv2Inv
    BY Lv2Start
  <1>2. Lv2Inv /\ [Next]_vars => Lv2Inv'
    <2> SUFFICES ASSUME Lv2Inv, [Next]_vars PROVE Lv2Inv'
      OBVIOUS
    <2>1. CASE Next
      BY <2>1, TypesStep, CarriedStep, DrawnStep, DealtStep, PlaysStep DEF Lv2Inv
    <2>2. CASE UNCHANGED vars
      BY <2>2, Lv2Stutters
    <2> QED
      BY <2>1, <2>2
  <1> QED
    BY <1>1, <1>2, PTL DEF Spec

-----------------------------------------------------------------------------
(* What the editor and the plugin promise. *)

(* What a list shows selected is what its port resolves to. *)
LEMMA ShownResolves ==
  ASSUME Lv2Types, NEW l \in Both, Shows(l), sel[l] # 0,
         ui.map = ports["map"], ui.kit = ports["kit"], ui.tone = ports["inst"],
         NEW i, i = Entries(l, ui.map)[sel[l]]
  PROVE  i \in 1 .. Len(Patches) /\ Resolved(l) = i /\ Patches[i].map = Source(ui.map)
  <1> DEFINE list == Entries(l, ui.map)
             n == Len(list)
  <1>1. /\ ui.map \in Maps /\ ui.tone \in Nat \ {0} /\ sel[l] \in Nat
    BY DEF Lv2Types
  <1>2. /\ list \in Seq(1 .. Len(Patches)) /\ n \in Nat
        /\ \A k \in 1 .. n : /\ list[k] \in 1 .. Len(Patches)
                             /\ Patches[list[k]].map = Source(ui.map)
    BY <1>1, EntriesTyped
  <1>3. sel[l] = Cut(Wanted(l), n)
    BY DEF Shows
  <1>4. CASE l = "tone"
    <2>1. sel[l] = Cut(ui.tone, n)
      BY <1>3, <1>4 DEF Wanted
    <2>2. sel[l] \in 1 .. n /\ list # <<>>
      BY <1>1, <1>2, <2>1 DEF Cut
    <2>3. Resolved(l) = list[Cut(ui.tone, n)]
      BY <1>4, <2>2 DEF Resolved, PatchAt, Cut
    <2> QED
      BY <1>2, <2>1, <2>2, <2>3
  <1>5. CASE l = "kit"
    <2>1. sel[l] = Cut(KitAt(ui.map, ui.kit), n)
      BY <1>3, <1>5 DEF Wanted
    <2>2. KitAt(ui.map, ui.kit) \in Nat
          /\ (KitAt(ui.map, ui.kit) # 0 => KitAt(ui.map, ui.kit) \in 1 .. n)
      BY <1>1, <1>5, KitAtTyped
    <2>3. sel[l] = KitAt(ui.map, ui.kit) /\ sel[l] \in 1 .. n
      BY <1>2, <2>1, <2>2 DEF Cut
    <2>4. Resolved(l) = list[sel[l]]
      BY <1>5, <2>3 DEF Resolved
    <2> QED
      BY <1>2, <2>3, <2>4
  <1> QED
    BY <1>4, <1>5 DEF Both

(* Once what was on its way has arrived, the editor's map is the port's, every
   part is on it, and what each list shows selected is the patch its part was
   sent last and plays until MIDI or a reopened engine's reset.  Kits are
   written as their programs, so a map's kits have one of each. *)
THEOREM EditorShowsPlugin ==
  ASSUME KitsApart
  PROVE  Spec => []EditorAgrees
  <1>1. Lv2Inv => EditorAgrees
    <2> SUFFICES ASSUME Lv2Inv, Quiet, ui.open
                 PROVE  /\ shown_map = ports.map
                        /\ PerPart => HasSet(shown_map)
                        /\ \A l \in Both :
                             sel[l] # 0 =>
                               LET i == Entries(l, shown_map)[sel[l]]
                               IN sent[l] = i /\ (l \in chosen => Plays(l, i))
      BY DEF EditorAgrees
    <2>1. /\ Lv2Types /\ pc = "midi" /\ writes = <<>> /\ events = <<>>
          /\ \A p \in Ports : Agreeing(p)
      BY DEF Lv2Inv, Quiet, Carried
    <2>2. \A p \in Ports : Has(p) = ports[p]
      BY <2>1, SaidNothing DEF Agreeing
    <2>3. ui.map = ports["map"] /\ ui.kit = ports["kit"] /\ ui.tone = ports["inst"]
      BY <2>2 DEF Ports, Has
    <2>4. shown_map = ui.map /\ \A l \in Both : Shows(l)
      BY <2>1 DEF Lv2Inv, Drawn
    <2>5. PerPart => HasSet(ports["map"])
      BY <2>1 DEF Lv2Inv, Dealt
    <2>6. ASSUME NEW l \in Both, sel[l] # 0, NEW i, i = Entries(l, shown_map)[sel[l]]
          PROVE  sent[l] = i /\ (l \in chosen => Plays(l, i))
      <3>1. i \in 1 .. Len(Patches) /\ Resolved(l) = i /\ Patches[i].map = Source(ui.map)
        BY <2>1, <2>3, <2>4, <2>6, ShownResolves
      <3>2. sent[l] = i
        <4>1. Sent(l)
          BY <2>1 DEF Lv2Inv, Dealt, Both
        <4>2. i # 0
          BY <3>1
        <4> QED
          BY <3>1, <4>1, <4>2 DEF Sent
      <3>3. ASSUME l \in chosen
            PROVE  Plays(l, i)
        <4>1. PlaysOf(l)
          BY <3>3 DEF Lv2Inv, PlaysChosen
        <4>2. ASSUME PerPart
              PROVE  Source(part[ChOf(l)].sound.map) = Patches[i].map
          <5>1. map_of[ChOf(l)] = ui.map
            BY <2>3, <2>5, <4>2, Constants DEF HasSet
          <5>2. part[ChOf(l)].sound.map \in {Source(ui.map), ui.map}
            BY <3>1, <3>2, <4>1, <4>2, <5>1 DEF PlaysOf
          <5> QED
            BY <3>1, <5>2, SourceTwice
        <4> QED
          BY <3>2, <4>1, <4>2 DEF Plays, PlaysOf, Holds
      <3> QED
        BY <3>2, <3>3
    <2> QED
      BY <2>3, <2>4, <2>5, <2>6
  <1> QED
    BY <1>1, Lv2Always, PTL

(* The instrument shown is the one carried. *)
LEMMA CarriedInstrument ==
  ASSUME Lv2Inv, NEW m \in Buttons, OnMap(m), Entries("tone", ui.map) # <<>>,
         NEW old, old = Patches[Entries("tone", shown_map)[sel["tone"]]],
         NEW new, new = Patches[Entries("tone", shown_map')[sel'["tone"]]]
  PROVE  new.prog = old.prog \/ Find(Entries("tone", shown_map'), 0, old.prog) = 0
  <1>0. PICK was : was = Entries("tone", ui.map)
    OBVIOUS
  <1>1. PICK list : list = Entries("tone", m)
    OBVIOUS
  <1>2. PICK i : i = PatchAt(was, ui.tone)
    OBVIOUS
  <1>3. PICK tone \in Nat \ {0} :
          /\ tone = IF i = 0 THEN ui.tone ELSE Carry(list, i)
          /\ ui' = [ui EXCEPT !.map = m, !.tone = tone]
          /\ Lv2Types' /\ Show(ui')
    <2>1. Lv2Types
      BY DEF Lv2Inv
    <2> QED
      BY <1>0, <1>1, <1>2, <2>1, MapTypes, Zenon
  <1>4. /\ m \in Maps /\ ui.open /\ ui.map \in Maps /\ ui.tone \in Nat \ {0}
        /\ ui'.map = m /\ ui'.tone = tone
    BY <1>3 DEF OnMap, Buttons, Lv2Inv, Lv2Types
  <1>5. /\ shown_map = ui.map /\ sel["tone"] = Cut(ui.tone, Len(was))
    BY <1>0, <1>4 DEF Lv2Inv, Drawn, Shows, Wanted, Both
  <1>6. i # 0 /\ old = Patches[i]
    <2>1. PICK drum \in BOOLEAN : drum = FALSE
      OBVIOUS
    <2>2. was = List(drum, ui.map) /\ was # <<>>
      BY <1>0, <2>1 DEF Entries
    <2>3. ui.map \in Maps /\ ui.tone \in Nat \ {0}
      BY <1>4
    <2>4. /\ PatchAt(was, ui.tone) # 0
          /\ PatchAt(was, ui.tone) = was[IF ui.tone > Len(was) THEN Len(was) ELSE ui.tone]
      BY <2>2, <2>3, AtPosition
    <2>5. i # 0 /\ i = was[Cut(ui.tone, Len(was))]
      BY <1>2, <2>4 DEF Cut
    <2> QED
      BY <1>0, <1>5, <2>5
  <1>7. shown_map' = m /\ sel'["tone"] = Cut(tone, Len(list))
    <2>1. Lv2Types
      BY DEF Lv2Inv
    <2>2. Drawn' /\ Shows("tone")'
      BY <1>3, <2>1, DrawnShow DEF Both
    <2>3. ui'.open
      BY <1>3, <1>4 DEF Lv2Inv, Lv2Types
    <2> QED
      BY <1>1, <1>4, <2>2, <2>3 DEF Drawn, Shows, Wanted
  <1>8. \A bank, prog, k : k = Find(list, bank, prog) /\ k # 0 =>
          k \in 1 .. Len(list) /\ Patches[list[k]].prog = prog
    <2>1. PICK drum \in BOOLEAN : drum = FALSE
      OBVIOUS
    <2>2. list = List(drum, m)
      BY <1>1, <2>1 DEF Entries
    <2> QED
      BY <1>4, <2>2, FindIn
  <1>9. PICK same : same = Find(list, Patches[i].bank, Patches[i].prog)
    OBVIOUS
  <1>10. PICK capital : capital = Find(list, 0, Patches[i].prog)
    OBVIOUS
  <1>11. tone = IF same # 0 THEN same ELSE IF capital # 0 THEN capital ELSE 1
    BY <1>3, <1>6, <1>9, <1>10 DEF Carry
  <1>12. CASE same # 0 \/ capital # 0
    <2>1. tone \in 1 .. Len(list) /\ Patches[list[tone]].prog = Patches[i].prog
      BY <1>8, <1>9, <1>10, <1>11, <1>12
    <2>2. Len(list) \in Nat
      BY <1>1, <1>4, EntriesTyped DEF Both
    <2>3. sel'["tone"] = tone
      BY <1>7, <2>1, <2>2 DEF Cut
    <2> QED
      BY <1>1, <1>6, <1>7, <2>1, <2>3
  <1>13. CASE capital = 0
    BY <1>1, <1>6, <1>7, <1>10, <1>13
  <1> QED
    BY <1>12, <1>13

(* A pick of another map keeps the instrument: its program, whenever the new
   map has it at all.  A map has a tone to show. *)
THEOREM InstrumentKept ==
  ASSUME \A m \in Maps : Entries("tone", m) # <<>>
  PROVE  Spec => MapKeepsInstrument
  <1> DEFINE Kept == ui'.map # ui.map /\ writes' # writes =>
               LET old == Patches[Entries("tone", shown_map)[sel["tone"]]]
                   new == Patches[Entries("tone", shown_map')[sel'["tone"]]]
               IN new.prog = old.prog
                  \/ Find(Entries("tone", shown_map'), 0, old.prog) = 0
  <1>1. Lv2Inv /\ [Next]_vars => [Kept]_vars
    <2> SUFFICES ASSUME Lv2Inv, Next, ui'.map # ui.map, writes' # writes
                 PROVE  Kept
      BY DEF vars, hostVars
    <2>1. Lv2Types /\ ui.map \in Maps
      BY DEF Lv2Inv, Lv2Types
    <2>2. ~Run /\ ~RunMidi /\ ~Host
      BY <2>1, RunTypes, HostTypes
    <2>3. ~OpenEditor /\ ~CloseEditor /\ ~PortEvent /\ ~View
      BY DEF OpenEditor, CloseEditor, PortEvent, View, hostVars
    <2>4. ASSUME NEW l \in Both, NEW k \in 1 .. (rows + 1), OnPick(l, k)
          PROVE  FALSE
      <3>1. ui'.map = ui.map
        BY <2>1, <2>4 DEF OnPick, Lv2Types
      <3> QED
        BY <3>1
    <2>5. PICK m \in Buttons : OnMap(m)
      BY <2>2, <2>3, <2>4 DEF Next, Editor
    <2> QED
      BY <2>1, <2>5, CarriedInstrument
  <1>2. MapKeepsInstrument <=> [][Kept]_vars
    BY DEF MapKeepsInstrument
  <1> QED
    BY <1>1, <1>2, Lv2Always, PTL DEF Spec

(* A position brought into sight: at the top, or past the middle. *)
LEMMA Revealed ==
  ASSUME NEW t \in Nat, NEW n \in Nat, NEW s \in 1 .. n, NEW r \in Nat \ {0},
         NEW to, to = Reveal(t, s, n, r)
  PROVE  s \in (to + 1) .. (to + r)
  <1>1. PICK h \in Nat : h = r \div 2 /\ 2 * h <= r
    OBVIOUS
  <1>2. PICK x : x = IF s <= t THEN s - 1 ELSE IF s > t + r THEN s - 1 - h ELSE t
    OBVIOUS
  <1>5. x \in Int
    BY <1>1, <1>2
  <1>3. to = ClampTop(x, n, r)
    BY <1>1, <1>2 DEF Reveal
  <1>4. to = IF x > n - r THEN IF n > r THEN n - r ELSE 0 ELSE IF x < 0 THEN 0 ELSE x
    BY <1>3 DEF ClampTop
  <1> QED
    BY <1>1, <1>2, <1>4, <1>5

(* What one step leaves in sight of a list. *)
InSight(l) ==
  \/ sel'[l] = 0 \/ (sel'[l] = sel[l] /\ shown_map' = shown_map)
  \/ sel'[l] \in (top'[l] + 1)..(top'[l] + rows')
  \/ (sel'[l] = top[l] + rows + 1 /\ top' = top)

LEMMA ShowsInSight ==
  ASSUME Lv2Types, Lv2Types', Show(ui'), NEW l \in Both
  PROVE  InSight(l)
  <1>1. /\ shown_map' = ui'.map /\ rows' = rows
        /\ sel'[l] = Cut(Wanted(l)', Len(Entries(l, ui'.map)))
    <2>1. ui'.map \in Maps /\ ui'.tone \in Nat \ {0} /\ rows \in Nat /\ top \in [Both -> Nat]
      BY WindowAssumption DEF Lv2Types
    <2> QED
      BY <2>1, ShowDraws DEF Wanted
  <1> DEFINE n == Len(Entries(l, ui'.map))
  <1>2. n \in Nat /\ top[l] \in Nat /\ rows \in Nat \ {0} /\ sel'[l] \in Nat
    BY EntriesTyped, WindowAssumption DEF Lv2Types
  <1>3. sel'[l] <= n
    BY <1>1, <1>2 DEF Cut
  <1>4. \/ sel'[l] = 0 \/ (sel'[l] = sel[l] /\ shown_map' = shown_map)
        \/ top'[l] = Reveal(top[l], sel'[l], n, rows)
    <2> DEFINE want == Positions(ui')
    <2>1. ShowAt(ui'.map, want)
      BY DEF Show
    <2> HIDE DEF want
    <2> QED
      BY <2>1 DEF ShowAt
  <1> HIDE DEF n
  <1>5. CASE sel'[l] # 0 /\ top'[l] = Reveal(top[l], sel'[l], n, rows)
    <2>1. sel'[l] \in 1 .. n
      BY <1>2, <1>3, <1>5
    <2>2. sel'[l] \in (top'[l] + 1) .. (top'[l] + rows)
      BY <1>2, <1>5, <2>1, Revealed
    <2> QED
      BY <1>1, <2>2 DEF InSight
  <1> QED
    BY <1>4, <1>5 DEF InSight

(* A selection the editor is given is brought into the rows shown; a pick
   leaves the rows where they are. *)
THEOREM SelectionInSight == Spec => SelectionShown
  <1> DEFINE Seen == ui.open /\ ui'.open => \A l \in Both : InSight(l)
  <1>1. Lv2Inv /\ [Next]_vars => [Seen]_vars
    <2> SUFFICES ASSUME Lv2Inv, Next, ui.open, ui'.open, NEW l \in Both
                 PROVE  InSight(l)
      OBVIOUS
    <2>1. Lv2Types /\ shown_map = ui.map
      BY DEF Lv2Inv, Drawn
    <2>2. CASE UNCHANGED <<sel, shown_map>>
      BY <2>2 DEF InSight
    <2>3. Run \/ RunMidi \/ Host \/ View => UNCHANGED <<sel, shown_map>>
      BY <2>1, RunTypes, HostTypes, ViewTypes DEF windowVars
    <2>4. ~OpenEditor /\ ~CloseEditor
      BY <2>1, CloseTypes DEF OpenEditor
    <2>5. ASSUME NEW m \in Buttons, OnMap(m)
          PROVE  InSight(l)
      <3>1. Lv2Types' /\ Show(ui')
        BY <2>1, <2>5, MapTypes
      <3> QED
        BY <2>1, <3>1, ShowsInSight
    <2>6. CASE PortEvent
      <3>1. Lv2Types' /\ Show(ui')
        BY <2>1, <2>6, EventTypes
      <3> QED
        BY <2>1, <3>1, ShowsInSight
    <2>7. ASSUME NEW p \in Both, NEW k \in 1 .. (rows + 1), OnPick(p, k)
          PROVE  InSight(l)
      <3>1. /\ sel' = [sel EXCEPT ![p] = top[p] + k] /\ UNCHANGED <<shown_map, top, rows>>
        BY <2>7 DEF OnPick, PressRow, Row
      <3>2. rows \in Nat /\ top[p] \in Nat /\ sel \in [Both -> Nat]
        BY <2>1, WindowAssumption DEF Lv2Types
      <3>3. CASE l = p
        <4>1. sel'[l] = top[l] + k /\ (k = rows + 1 \/ k \in 1 .. rows)
          BY <3>1, <3>2, <3>3
        <4> QED
          BY <3>1, <3>2, <3>3, <4>1 DEF InSight
      <3>4. CASE l # p
        BY <3>1, <3>2, <3>4 DEF InSight
      <3> QED
        BY <3>3, <3>4
    <2> QED
      BY <2>2, <2>3, <2>4, <2>5, <2>6, <2>7 DEF Next, Editor
  <1>2. SelectionShown <=> [][Seen]_vars
    BY DEF SelectionShown, InSight
  <1> QED
    BY <1>1, <1>2, Lv2Always, PTL DEF Spec
=============================================================================
