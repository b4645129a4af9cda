----------------------------- MODULE Lv2Plugin ------------------------------
(***************************************************************************)
(* scva_lv2.c and scva_lv2_ui.c: the LV2 plugin and its editor, which may  *)
(* run in a process of its own.  They share three control ports the host   *)
(* holds: the editor's writes travel to the ports, and the ports' values   *)
(* travel to the editor, each in order and at any later time.  A host may  *)
(* echo the editor's own writes to it, or not.  run() reads the ports,     *)
(* which the host keeps still meanwhile.                                   *)
(***************************************************************************)
EXTENDS PluginEngine, EditorWindow

CONSTANTS
  ToneCh, DrumCh,   \* SCVA_TONE_CH, SCVA_DRUM_CH
  Kinds,            \* engines with a map per part ("plugin"), or none
  Messages,         \* the MIDI a block may hold: "program", "bank", "reset"
  MaxInputs,        \* bound: picks, values the host sets, MIDI messages
  MaxViews          \* bound: scrolls and sizes of the window

ASSUME Lv2Assumption ==
  /\ Parts = {ToneCh, DrumCh} /\ ToneCh # DrumCh
  /\ Kinds \subseteq {"plugin", "none"}
  /\ Messages \subseteq {"program", "bank", "reset"}
  /\ {MaxInputs, MaxViews} \subseteq Nat

VARIABLES
  ports,     \* map_port, kit_port, inst_port (a position, from 1)
  sent,      \* tone_sent, kit_sent: patch indices, 0 before any
  pc,        \* how far run() is
  ui,        \* the editor: open, map, kit_prog, tone
  writes,    \* on their way from the editor to the ports (external)
  events,    \* on their way from the ports to the editor (external)
  echoes,    \* the host echoes the editor's writes
  left,      \* what the environment may still do (bounds)
  chosen     \* lists whose patch nothing but its port chose (history)

hostVars == <<ports, writes, events>>
pluginVars == <<engineVars, sent, pc, chosen>>
vars == <<pluginVars, hostVars, ui, windowVars, echoes, left>>

ChOf(l) == IF l = "kit" THEN DrumCh ELSE ToneCh
Spend(what) == /\ left[what] > 0
               /\ left' = [left EXCEPT ![what] = @ - 1]
To(port, v) == <<[port |-> port, v |-> v]>>

Values(port) ==
  CASE port = "map" -> Maps
    [] port = "kit" -> Programs
    [] port = "inst" -> 1..Longest(FALSE, Maps)

NoEditor == [open |-> FALSE, map |-> DefaultMap, kit |-> 0, tone |-> 1]

(* instantiate: the plugin's engine is open; the ports have their defaults. *)
Init ==
  /\ \E kind \in Kinds : PolicyInit(kind, Default)
  /\ part = PowerOn /\ running = TRUE
  /\ ports = [map |-> DefaultMap, kit |-> 0, inst |-> 1]
  /\ sent = [l \in Both |-> 0]
  /\ pc = "idle"
  /\ ui = NoEditor
  /\ NoWindow
  /\ writes = <<>> /\ events = <<>>
  /\ echoes \in BOOLEAN
  /\ left = [inputs |-> MaxInputs, views |-> MaxViews]
  /\ chosen = {}

-----------------------------------------------------------------------------
(* The plugin's run(). *)

(* scva_engine_set_map; a reopened engine plays its reset patches. *)
RunMap ==
  /\ pc = "idle"
  /\ pc' = "tone"
  /\ \/ /\ \/ SetMapOnParts(ports.map) \/ SetMapKept(ports.map)
           \/ ReopenFails(ports.map)
        /\ UNCHANGED chosen
     \/ Reopen(ports.map) /\ chosen' = {}
  /\ UNCHANGED <<sent, hostVars, ui, windowVars, echoes, left>>

(* The kit of a program in map m, or Standard where m has none. *)
KitAt(m, prog) ==
  LET kits == Entries("kit", m)
  IN IF Find(kits, 0, prog) # 0 THEN Find(kits, 0, prog) ELSE Find(kits, 0, 0)

Resolved(l) ==
  LET list == Entries(l, ports.map)
  IN IF l = "tone" THEN PatchAt(list, ports.inst)
     ELSE IF KitAt(ports.map, ports.kit) = 0 THEN 0
          ELSE list[KitAt(ports.map, ports.kit)]

(* Mutant of RunSend: a position is sent when it is another number. *)
RunSendNewProgram(l) ==
  LET i == Resolved(l)
  IN /\ pc = l
     /\ pc' = IF l = "tone" THEN "kit" ELSE "midi"
     /\ IF i # 0 /\ (sent[l] = 0 \/ Patches[i].prog # Patches[sent[l]].prog)
        THEN /\ Patch(ChOf(l), Patches[i].map, Patches[i].bank, Patches[i].prog)
             /\ sent' = [sent EXCEPT ![l] = i]
             /\ chosen' = chosen \cup {l}
        ELSE UNCHANGED <<engineVars, sent, chosen>>
     /\ UNCHANGED <<hostVars, ui, windowVars, echoes, left>>

(* send_tone and send_kit: the patch the port resolves to, when another. *)
RunSend(l) ==
  LET i == Resolved(l)
  IN /\ pc = l
     /\ pc' = IF l = "tone" THEN "kit" ELSE "midi"
     /\ IF i \notin {0, sent[l]}
        THEN /\ Patch(ChOf(l), Patches[i].map, Patches[i].bank, Patches[i].prog)
             /\ sent' = [sent EXCEPT ![l] = i]
             /\ chosen' = chosen \cup {l}
        ELSE UNCHANGED <<engineVars, sent, chosen>>
     /\ UNCHANGED <<hostVars, ui, windowVars, echoes, left>>

(* The block's MIDI. *)
RunMidi ==
  /\ pc = "midi"
  /\ Spend("inputs")
  /\ \/ \E l \in Both :
          /\ \/ "program" \in Messages /\ \E p \in Programs : MidiProgram(ChOf(l), p)
             \/ "bank" \in Messages /\ \E b \in Banks : MidiBank(ChOf(l), b)
          /\ chosen' = chosen \ {l}
     \/ "reset" \in Messages /\ MidiReset /\ chosen' = {}
  /\ UNCHANGED <<sent, pc, hostVars, ui, windowVars, echoes>>

RunEnds ==
  /\ pc = "midi"
  /\ pc' = "idle"
  /\ UNCHANGED <<engineVars, sent, chosen, hostVars, ui, windowVars, echoes, left>>

-----------------------------------------------------------------------------
(* The host (external): it delivers the editor's writes between blocks, and
   sets a port itself, from a stored session or a control of its own.  One
   that does not echo sets none: its value and a pick would cross. *)

DeliverWrite ==
  /\ pc = "idle" /\ writes # <<>>
  /\ ports' = [ports EXCEPT ![Head(writes).port] = Head(writes).v]
  /\ writes' = Tail(writes)
  /\ events' = IF echoes /\ ui.open THEN Append(events, Head(writes)) ELSE events
  /\ UNCHANGED <<pluginVars, ui, windowVars, echoes, left>>

SetPort(port, v) ==
  /\ pc = "idle" /\ echoes
  /\ Spend("inputs")
  /\ ports' = [ports EXCEPT ![port] = v]
  /\ events' = IF ui.open THEN events \o To(port, v) ELSE events
  /\ UNCHANGED <<pluginVars, ui, windowVars, writes, echoes>>

-----------------------------------------------------------------------------
(* The editor.  It handles no press before it was told the ports. *)

Told == echoes \/ events = <<>>

(* show(), with the kit the plugin plays for a program the map lacks. *)
Positions(u) ==
  [l \in Both |-> IF l = "tone" THEN u.tone ELSE KitAt(u.map, u.kit)]

Show(u) == ShowAt(u.map, Positions(u))

(* instantiate and cleanup; the host tells a new editor every port.  One that
   does not echo has taken the last editor's writes by then (external). *)
OpenEditor ==
  /\ ~ui.open /\ (echoes \/ writes = <<>>)
  /\ ui' = [NoEditor EXCEPT !.open = TRUE]
  /\ \E r \in RowCounts : OpenWindow(r, Positions(NoEditor))
  /\ events' = To("map", ports.map) \o To("kit", ports.kit)
                 \o To("inst", ports.inst)
  /\ UNCHANGED <<pluginVars, ports, writes, echoes, left>>

CloseEditor ==
  /\ ui.open
  /\ ui' = NoEditor
  /\ CloseWindow
  /\ events' = <<>>
  /\ UNCHANGED <<pluginVars, ports, writes, echoes, left>>

(* Mutant of OnMap: the instrument stays where it was in the old list. *)
OnMapPosition(m) ==
  /\ ui.open /\ Told /\ m # shown_map
  /\ Spend("inputs")
  /\ ui' = [ui EXCEPT !.map = m]
  /\ writes' = writes \o To("map", m)
  /\ Show(ui')
  /\ UNCHANGED <<pluginVars, ports, events, echoes>>

(* on_map: the instrument is carried to the new map's list. *)
OnMap(m) ==
  /\ ui.open /\ Told /\ m # shown_map
  /\ Spend("inputs")
  /\ LET i == PatchAt(Entries("tone", ui.map), ui.tone)
         tone == IF i = 0 THEN ui.tone ELSE Carry(Entries("tone", m), i)
     IN /\ ui' = [ui EXCEPT !.map = m, !.tone = tone]
        /\ writes' = writes \o To("map", m) \o To("inst", tone)
  /\ Show(ui')
  /\ UNCHANGED <<pluginVars, ports, events, echoes>>

(* on_tone and on_kit: a kit is written as its program. *)
OnPick(l, k) ==
  /\ ui.open /\ Told
  /\ Spend("inputs")
  /\ PressRow(l, k)
  /\ IF l = "tone"
     THEN /\ ui' = [ui EXCEPT !.tone = sel'[l]]
          /\ writes' = writes \o To("inst", sel'[l])
     ELSE LET prog == Patches[Entries(l, ui.map)[sel'[l]]].prog
          IN /\ ui' = [ui EXCEPT !.kit = prog]
             /\ writes' = writes \o To("kit", prog)
  /\ UNCHANGED <<pluginVars, ports, events, echoes>>

(* port_event *)
PortEvent ==
  /\ ui.open /\ events # <<>>
  /\ LET e == Head(events)
     IN ui' = CASE e.port = "map" -> [ui EXCEPT !.map = e.v]
                [] e.port = "kit" -> [ui EXCEPT !.kit = e.v]
                [] e.port = "inst" -> [ui EXCEPT !.tone = e.v]
  /\ events' = Tail(events)
  /\ Show(ui')
  /\ UNCHANGED <<pluginVars, ports, writes, echoes, left>>

View ==
  /\ ui.open
  /\ Spend("views")
  /\ \/ \E l \in Both : \/ \E by \in {-3, 3} : Wheel(l, by)
                        \/ \E t \in 0..Count(l) : ScrollTo(l, t)
     \/ \E r \in RowCounts : Resize(r)
  /\ UNCHANGED <<pluginVars, hostVars, ui, echoes>>

-----------------------------------------------------------------------------

Run == RunMap \/ (\E l \in Both : RunSend(l)) \/ RunEnds

Host == DeliverWrite \/ \E p \in {"map", "kit", "inst"} : \E v \in Values(p) : SetPort(p, v)

Editor ==
  \/ OpenEditor \/ CloseEditor \/ (\E m \in Buttons : OnMap(m))
  \/ \E l \in Both : \E k \in 1..(rows + 1) : OnPick(l, k)
  \/ PortEvent \/ View

Next == Run \/ RunMidi \/ Host \/ Editor

Spec == Init /\ [][Next]_vars

-----------------------------------------------------------------------------

TypeOK ==
  /\ EngineTypeOK /\ WindowTypeOK
  /\ \A p \in {"map", "kit", "inst"} : ports[p] \in Values(p)
  /\ sent \in [Both -> {0} \cup DOMAIN Patches]
  /\ pc \in {"idle", "tone", "kit", "midi"}
  /\ ui \in [open : BOOLEAN, map : Maps, kit : Programs, tone : Values("inst")]
  /\ shown_map = ui.map
  /\ \A e \in Range(writes) \cup Range(events) : e.v \in Values(e.port)
  /\ chosen \subseteq Both

Plays(l, i) ==
  LET sound == part[ChOf(l)].sound
  IN /\ sound.bank = Patches[i].bank /\ sound.prog = Patches[i].prog
     /\ PerPart => Source(sound.map) = Patches[i].map

(* A block that has read the ports, with nothing on its way to them or back. *)
Quiet == pc = "midi" /\ writes = <<>> /\ events = <<>>

(* Once the messages between them have arrived, the editor shows what the
   plugin plays: the map, and in each list the patch last sent, which sounds
   unless MIDI, or a reopened engine's reset, came after ("one the map lacks
   shows Standard, which is what the plugin plays for it"). *)
EditorAgrees ==
  Quiet /\ ui.open =>
    /\ shown_map = ports.map
    /\ PerPart => HasSet(shown_map)
    /\ \A l \in Both :
         sel[l] # 0 =>
           LET i == Entries(l, shown_map)[sel[l]]
           IN sent[l] = i /\ (l \in chosen => Plays(l, i))

(* A pick of another map keeps the instrument: the tone then shown has its
   bank and program, or its program, whenever the map has one ("A new map
   keeps the instrument"). *)
MapKeepsInstrument ==
  [][ui'.map # ui.map /\ writes' # writes =>
       LET old == Patches[Entries("tone", shown_map)[sel["tone"]]]
           new == Patches[Entries("tone", shown_map')[sel'["tone"]]]
       IN new.prog = old.prog
          \/ Find(Entries("tone", shown_map'), 0, old.prog) = 0]_vars

(* A selection the editor is given, by its own change of map or by the host,
   is brought into the rows shown; a pick leaves the rows where they are, and
   may be of the entry half shown below them. *)
SelectionShown ==
  [][ui.open /\ ui'.open =>
       \A l \in Both :
         \/ sel'[l] = 0 \/ (sel'[l] = sel[l] /\ shown_map' = shown_map)
         \/ sel'[l] \in (top'[l] + 1)..(top'[l] + rows')
         \/ (sel'[l] = top[l] + rows + 1 /\ top' = top)]_vars

=============================================================================
