----------------------------- MODULE Clap_proof -----------------------------
(***************************************************************************)
(* Proofs about ClapPlugin, for any patches, maps, inputs and activations, *)
(* and a host that loads a preset when the last was taken up: however the  *)
(* two threads interleave, a block the main thread leaves alone brings the *)
(* lists, the parts, the host and the editor in agreement.                 *)
(***************************************************************************)
EXTENDS ClapPlugin, Plugin_proof

LEMMA Constants ==
  /\ DefaultMap \in Maps /\ Default = DefaultMap /\ 0 \in Banks /\ 0 \in Programs
  /\ Len(Patches) \in Nat /\ DOMAIN Patches = 1 .. Len(Patches)
  /\ \A i \in 1 .. Len(Patches) :
       /\ Patches[i] \in [map : Maps, bank : Banks, prog : Programs, drum : BOOLEAN]
       /\ Patches[i].map \in Maps /\ Patches[i].bank \in Banks
       /\ Patches[i].prog \in Programs /\ Patches[i].drum \in BOOLEAN
  /\ FirstProgram \in Programs /\ PowerOnPart \in Part
  /\ Maps \subseteq Nat /\ Banks \subseteq Nat /\ Programs \subseteq Nat
  /\ ToneCh \in Parts /\ DrumCh \in Parts /\ ToneCh # DrumCh
  /\ \A id \in Picks : ChOf(id) \in Parts
  BY Numbers, ClapAssumption DEF ChOf, Picks

-----------------------------------------------------------------------------
(* The types of what the two threads share and of what each is at. *)

Preset == [map : Maps, bank : Banks, prog : Programs, drum : BOOLEAN]

AudioPlace == [pc : AudioSteps, flush : BOOLEAN, drum : BOOLEAN,
               dirty : SUBSET Ids, seen : SUBSET Ids, map : Maps, carry : [Picks -> Nat]]

MainSteps == {"idle", "map", "bank", "prog", "drum", "flag", "dirty_read",
              "dirty_write", "names", "keys"}

MainPlace == [pc : MainSteps, id : Ids, dirty : SUBSET Ids, preset : Preset]

Editor == [api : {"win32", "x11"}, open : BOOLEAN, map : Maps, shown : [Ids -> Nat]]

ClapTypes ==
  /\ EngineTypes
  /\ want \in [Ids -> Nat] /\ want["map"] \in Maps
  /\ want["inst"] # 0 /\ want["drum"] # 0
  /\ told \in [Ids -> Nat] /\ sent \in [Picks -> Nat]
  /\ list_map \in Maps
  /\ sel \in Preset /\ taken \in Preset
  /\ gui_dirty \subseteq Ids /\ swallowed \subseteq Ids /\ wired \subseteq Parts
  /\ sel_pending \in BOOLEAN /\ lists_changed \in BOOLEAN /\ calm \in BOOLEAN
  /\ kit_names_changed \in BOOLEAN /\ preset_kit \in BOOLEAN
  /\ audio \in AudioPlace /\ main \in MainPlace /\ gui \in Editor

LEMMA ResetType ==
  ASSUME NEW drum \in BOOLEAN, NEW m \in Maps
  PROVE  ResetPosition(List(drum, m)) \in Nat \ {0}
  BY FindType, Constants DEF ResetPosition

LEMMA PatchAtType ==
  ASSUME NEW drum \in BOOLEAN, NEW m \in Maps, NEW k \in Nat \ {0}
  PROVE  PatchAt(List(drum, m), k) \in Nat
  BY AtPosition

LEMMA ValueType ==
  ASSUME NEW id \in Ids, NEW v \in Values(id)
  PROVE  v \in Nat /\ (id = "map" => v \in Maps) /\ (id # "map" => v # 0)
  <1>1. CASE id = "map"
    BY <1>1, Constants DEF Values, Offered
  <1>2. CASE id # "map"
    <2>1. v \in 1 .. Longest(id = "drum", Maps)
      BY <1>2 DEF Values
    <2> QED
      BY <1>2, <2>1
  <1> QED
    BY <1>1, <1>2

LEMMA PickType ==
  ASSUME NEW id \in Ids, NEW v \in Pickable(id)
  PROVE  v \in Nat /\ (id = "map" => v \in Maps) /\ (id # "map" => v # 0)
  BY ValueType, Constants DEF Pickable

LEMMA InitTypes == Init => ClapTypes
  <1> SUFFICES ASSUME Init PROVE ClapTypes
    OBVIOUS
  <1>1. EngineTypes
    <2>1. PICK build \in Builds : EngineInit(build[1])
      BY DEF Init
    <2>2. build[1] \in Modes
      BY ClapAssumption DEF Modes
    <2> QED
      BY <2>1, <2>2, Constants
         DEF EngineTypes, EngineInit, PolicyInit, PowerOn
  <1>2. want \in [Ids -> Nat] /\ want["map"] \in Maps
        /\ want["inst"] # 0 /\ want["drum"] # 0
    <2>1. /\ ResetPosition(ListOf("inst", DefaultMap)) \in Nat \ {0}
          /\ ResetPosition(ListOf("drum", DefaultMap)) \in Nat \ {0}
      BY ResetType, Constants DEF ListOf
    <2>2. want = [map |-> DefaultMap,
                  inst |-> ResetPosition(ListOf("inst", DefaultMap)),
                  drum |-> ResetPosition(ListOf("drum", DefaultMap))]
      BY DEF Init
    <2> QED
      BY <2>1, <2>2, Constants DEF Ids
  <1>3. gui \in Editor
    <2>1. PICK build \in Builds :
            gui = [api |-> build[2], open |-> FALSE, map |-> DefaultMap, shown |-> NoValues]
      BY DEF Init
    <2>2. build[2] \in {"win32", "x11"}
      BY ClapAssumption
    <2> QED
      BY <2>1, <2>2, Constants DEF Editor, NoValues
  <1>4. NoPreset \in Preset
    BY Constants DEF NoPreset, Preset, DefaultMap
  <1>5. audio \in AudioPlace /\ main \in MainPlace
    BY <1>4, Constants DEF Init, AudioPlace, MainPlace, AudioSteps, MainSteps, Ids
  <1> QED
    BY <1>1, <1>2, <1>3, <1>4, <1>5, Constants DEF Init, ClapTypes, Ids

-----------------------------------------------------------------------------
(* Types are kept. *)

LEMMA PresetTyped == Presets \subseteq Preset
  <1>1. \A i \in Loaded : i \in 1 .. Len(Patches)
    BY ClapAssumption, Constants
  <1> QED
    BY <1>1, Constants DEF Presets, Preset

LEMMA SelTyped ==
  ASSUME ClapTypes
  PROVE  /\ sel.map \in Maps /\ sel.bank \in Banks /\ sel.prog \in Programs
         /\ sel.drum \in BOOLEAN
  BY DEF ClapTypes, Preset

LEMMA AtTyped ==
  ASSUME ClapTypes, NEW id \in Picks
  PROVE  LET i == PatchAt(ListOf(id, list_map), want[id])
         IN /\ i \in Nat /\ want[id] \in Nat \ {0}
            /\ i # 0 => /\ i \in 1 .. Len(Patches) /\ Patches[i].map = Source(list_map)
                        /\ Patches[i].map \in Maps /\ Patches[i].bank \in Banks
                        /\ Patches[i].prog \in Programs
  <1>1. want[id] \in Nat \ {0} /\ list_map \in Maps /\ (id = "drum") \in BOOLEAN
    BY DEF ClapTypes, Ids, Picks
  <1> DEFINE i == PatchAt(List(id = "drum", list_map), want[id])
  <1>2. i \in Nat /\ (i # 0 => i \in 1 .. Len(Patches) /\ Patches[i].map = Source(list_map))
    <2>1. \A drum \in BOOLEAN :
            LET j == PatchAt(List(drum, list_map), want[id])
            IN j \in Nat /\ (j # 0 => j \in 1 .. Len(Patches) /\ Patches[j].map = Source(list_map))
      BY <1>1, AtPosition
    <2> QED
      BY <1>1, <2>1
  <1>3. i # 0 => /\ Patches[i].map \in Maps /\ Patches[i].bank \in Banks
                 /\ Patches[i].prog \in Programs
    BY <1>2, Constants
  <1> HIDE DEF i
  <1> QED
    BY <1>1, <1>2, <1>3 DEF ListOf, i

LEMMA AudioTypes ==
  ASSUME ClapTypes, Audio
  PROVE  ClapTypes'
  <1> USE DEF ClapTypes, AudioPlace, AudioSteps, At, Goto, shared, notes, ghosts,
              engineVars, policyVars, EngineTypes
  <1>1. CASE Process
    BY <1>1 DEF Process
  <1>2. CASE SelectionPart
    BY <1>2, SelTyped DEF SelectionPart
  <1>3. CASE SelectionClear
    BY <1>3 DEF SelectionClear
  <1>4. CASE SelectionPatch
    <2> DEFINE ch == IF audio.drum THEN DrumCh ELSE ToneCh
    <2>1. EngineTypes'
      <3>1. Patch(ch, sel.map, sel.bank, sel.prog)
        BY <1>4 DEF SelectionPatch
      <3> QED
        BY <3>1, SelTyped, PatchDoes, Constants
    <2>2. [sel EXCEPT !.drum = audio.drum] \in Preset
      BY DEF Preset
    <2> QED
      BY <1>4, <2>1, <2>2, SelTyped, Constants DEF SelectionPatch
  <1>5. CASE SelectionAgree
    <2>1. Find(List(audio.drum, list_map), sel.bank, sel.prog) \in Nat
      BY FindType
    <2> DEFINE k == Find(List(audio.drum, list_map), sel.bank, sel.prog)
               id == IF sel.drum THEN "drum" ELSE "inst"
    <2>2. k # 0 => List(audio.drum, list_map)[k] \in Nat
      <3>1. Holding(List(audio.drum, list_map), audio.drum, list_map)
        BY ListHolds
      <3>2. k # 0 => k \in 1 .. Len(List(audio.drum, list_map))
        BY FindIn
      <3> HIDE DEF k
      <3> QED
        BY <3>1, <3>2 DEF Holding
    <2>3. /\ \/ /\ k # 0
                /\ want' = [want EXCEPT ![id] = k]
                /\ sent' = [sent EXCEPT ![id] = List(audio.drum, list_map)[k]]
                /\ told' = [told EXCEPT ![id] = k]
                /\ wired' = wired \ {ChOf(id)}
                /\ swallowed' = swallowed \ {id}
             \/ UNCHANGED <<want, sent, told, wired, swallowed>>
          /\ Goto("params")
          /\ UNCHANGED <<engineVars, list_map, sel, sel_pending, gui_dirty,
                         lists_changed, gui, main, notes, left, calm, last, taken,
                         preset_kit>>
      BY <1>5 DEF SelectionAgree
    <2> HIDE DEF k
    <2> QED
      BY <2>1, <2>2, <2>3 DEF k, Ids, Picks
  <1>6. ASSUME NEW id \in Ids, NEW v \in Values(id), ParamEvent(id, v) \/ FlushEvent(id, v)
        PROVE  ClapTypes'
    <2>1. v \in Nat /\ (id = "map" => v \in Maps) /\ (id # "map" => v # 0)
      BY ValueType
    <2>2. /\ HostSets(id, v)
          /\ \/ UNCHANGED audio
             \/ audio' = [audio EXCEPT !.pc = "report", !.flush = TRUE]
      BY <1>6 DEF ParamEvent, FlushEvent
    <2>3. audio' \in AudioPlace
      BY <2>2
    <2> QED
      BY <2>1, <2>2, <2>3 DEF HostSets, Ids
  <1>7. CASE ParamsRead
    BY <1>7 DEF ParamsRead
  <1>8. CASE FlushAsked
    BY <1>8 DEF FlushAsked
  <1>9. CASE ReportRead
    BY <1>9 DEF ReportRead
  <1>10. CASE ReportAgain \/ ReportClear
    BY <1>10 DEF ReportAgain, ReportClear
  <1>11. CASE ReportPush
    BY <1>11 DEF ReportPush
  <1>12. CASE KeepLists
    BY <1>12 DEF KeepLists, AfterLists
  <1>13. CASE LookUp
    <2>1. [id \in Picks |-> PatchAt(ListOf(id, list_map), want[id])] \in [Picks -> Nat]
      BY AtTyped
    <2> QED
      BY <1>13, <2>1 DEF LookUp
  <1>14. CASE CarryOver
    <2>1. \A id \in Picks : Carried(id) \in Nat \ {0}
      BY AtTyped, CarryType DEF Carried, ListOf
    <2>2. Carried("map") = want["map"]
      BY DEF Carried
    <2> HIDE DEF Carried
    <2> QED
      BY <1>14, <2>1, <2>2 DEF CarryOver, AfterLists, Ids, Picks
  <1>15. CASE ApplyMap
    <2>1. want.map \in Maps
      OBVIOUS
    <2>2. EngineTypes'
      BY <1>15, <2>1, SetMapDoes, StartTypes
         DEF ApplyMap, SetMapKept, ReopenFails, Reopen
    <2> QED
      BY <1>15, <2>2 DEF ApplyMap
  <1>16. ASSUME NEW id \in Picks, SendChoice(id)
         PROVE  ClapTypes'
    <2> DEFINE i == PatchAt(ListOf(id, list_map), want[id])
    <2>1. CASE i \notin {0, sent[id]}
      <3>1. Patch(ChOf(id), Patches[i].map, Patches[i].bank, Patches[i].prog)
        BY <1>16, <2>1 DEF SendChoice
      <3>2. EngineTypes'
        BY <2>1, <3>1, AtTyped, PatchDoes, Constants
      <3>3. i \in Nat
        BY AtTyped
      <3>4. /\ sent' = [sent EXCEPT ![id] = i]
            /\ wired' = wired \ {ChOf(id)}
            /\ preset_kit' = (preset_kit /\ id # "drum")
            /\ Goto(IF id = "inst" THEN "drum" ELSE "names")
            /\ UNCHANGED <<want, list_map, sel, sel_pending, gui_dirty, lists_changed,
                           kit_names_changed, keys, gui, main, told, left, calm,
                           swallowed, taken>>
        BY <1>16, <2>1 DEF SendChoice
      <3> HIDE DEF i
      <3> QED
        BY <3>2, <3>3, <3>4
    <2>2. CASE i \in {0, sent[id]}
      BY <1>16, <2>2 DEF SendChoice
    <2> QED
      BY <2>1, <2>2
  <1>17. CASE NamesChanged
    BY <1>17 DEF NamesChanged
  <1>18. CASE Midi
    <2>1. EngineTypes' /\ UNCHANGED running /\ wired' \subseteq Parts
      BY <1>18, WireDoes, WireResetTypes, Constants DEF Midi
    <2> QED
      BY <1>18, <2>1 DEF Midi
  <1>19. CASE ProcessEnds
    BY <1>19 DEF ProcessEnds
  <1> QED
    BY <1>1, <1>2, <1>3, <1>4, <1>5, <1>6, <1>7, <1>8, <1>9, <1>10, <1>11, <1>12,
       <1>13, <1>14, <1>15, <1>16, <1>17, <1>18, <1>19 DEF Audio

LEMMA MainTypes ==
  ASSUME ClapTypes, Main
  PROVE  ClapTypes'
  <1> USE DEF ClapTypes, MainPlace, MainSteps, shared, notes, ghosts,
              engineVars, policyVars, EngineTypes
  <1>1. CASE Activate
    <2>1. EngineTypes'
      BY <1>1, StartTypes, Constants DEF Activate, OpenEngine
    <2>2. running' = TRUE
      BY <1>1 DEF Activate, OpenEngine, Start
    <2> QED
      BY <1>1, <2>1, <2>2 DEF Activate
  <1>2. CASE Deactivate
    BY <1>2 DEF Deactivate, CloseEngine
  <1>3. ASSUME NEW p \in Presets, LoadPreset(p)
        PROVE  ClapTypes'
    BY <1>3, PresetTyped DEF LoadPreset
  <1>4. ASSUME NEW f \in {"map", "bank", "prog", "drum"}, StorePreset(f)
        PROVE  ClapTypes'
    <2>1. [sel EXCEPT ![f] = main.preset[f]] \in Preset
      BY DEF Preset
    <2>2. AfterField[f] \in MainSteps
      BY DEF AfterField
    <2> QED
      BY <1>4, <2>1, <2>2 DEF StorePreset, Stores
  <1>5. CASE RaiseFlag
    BY <1>5 DEF RaiseFlag, Stores
  <1>6. ASSUME NEW id \in Ids, NEW v \in Pickable(id), Pick(id, v) \/ Press(id, v)
        PROVE  ClapTypes'
    <2>1. v \in Nat /\ (id = "map" => v \in Maps) /\ (id # "map" => v # 0)
      BY PickType
    <2>2. EditorSet(id, v) /\ gui' \in {gui, [gui EXCEPT !.shown[id] = v]}
      BY <1>6 DEF Pick, Press
    <2>3. gui' \in Editor
      BY <2>1, <2>2 DEF Editor
    <2> QED
      BY <2>1, <2>2, <2>3 DEF EditorSet, Stores, Ids
  <1>7. CASE DirtyRead
    BY <1>7 DEF DirtyRead
  <1>8. CASE DirtyWrite
    BY <1>8 DEF DirtyWrite, Stores
  <1>9. CASE \/ OpenEditor \/ Tick \/ CloseEditor
             \/ OpenWindow \/ TickWindow \/ CloseWindow
    <2>1. gui' \in {Synced, Closed, XShown} /\ OnlyEditor
      BY <1>9 DEF OpenEditor, Tick, CloseEditor, OpenWindow, TickWindow, CloseWindow
    <2>2. \A id \in Picks : Clamped(id) \in Nat
      <3>1. \A drum \in BOOLEAN : List(drum, list_map) \in Seq(1 .. Len(Patches))
        BY ListHolds DEF Holding
      <3>2. \A drum \in BOOLEAN : Len(List(drum, list_map)) \in Nat
        BY <3>1
      <3>3. \A id \in Picks : want[id] \in Nat
        BY DEF Picks, Ids
      <3> QED
        BY <3>2, <3>3 DEF Clamped, ListOf
    <2>3. gui' \in Editor
      <3>1. \A m \in Maps : [id \in Ids |-> IF id = "map" THEN m ELSE Clamped(id)]
                            \in [Ids -> Nat]
        BY <2>2, Constants DEF Ids, Picks
      <3>2. gui.api \in {"win32", "x11"}
        BY DEF Editor
      <3>3. Synced \in Editor /\ XShown \in Editor
        BY <3>1, <3>2 DEF Synced, XShown, Editor
      <3>4. Closed \in Editor
        BY <3>2, Constants DEF Closed, Editor, NoValues
      <3> QED
        BY <2>1, <3>3, <3>4
    <2> QED
      BY <2>1, <2>3 DEF OnlyEditor
  <1>10. CASE OnMainThread
    BY <1>10 DEF OnMainThread
  <1>11. CASE AnnounceNames
    BY <1>11 DEF AnnounceNames
  <1>12. CASE ReadKeys
    BY <1>12 DEF ReadKeys
  <1> QED
    BY <1>1, <1>2, <1>3, <1>4, <1>5, <1>6, <1>7, <1>8, <1>9, <1>10, <1>11, <1>12
       DEF Main

LEMMA StepTypes ==
  ASSUME ClapTypes, [Next]_vars
  PROVE  ClapTypes'
  <1>1. CASE UNCHANGED vars
    BY <1>1 DEF vars, ClapTypes, shared, notes, ghosts, engineVars, policyVars,
                EngineTypes
  <1> QED
    BY <1>1, AudioTypes, MainTypes DEF Next

-----------------------------------------------------------------------------
(* A preset is taken whole. *)

Taking == {"sel_drum", "sel_clear", "sel_patch", "sel_agree"}
Storing == {"bank", "prog", "drum", "flag"}
Marking == {"dirty_read", "dirty_write"}

(* A flush is only what it has in common with a block. *)
FlushKept ==
  audio.flush => audio.pc \in {"idle", "params", "report", "again", "clear", "push",
                               "lists", "carry"}

(* The host is not loading a preset while one is taken up, and its numbers are
   all there while the flag is up. *)
PresetHeld ==
  /\ main.pc \in Storing \cup {"map"} => ~sel_pending /\ audio.pc \notin Taking
  /\ audio.pc \in {"sel_drum", "sel_clear"} => sel_pending
  /\ audio.pc \in {"sel_patch", "sel_agree"} => ~sel_pending
  /\ audio.pc \in {"sel_clear", "sel_patch", "sel_agree"} => audio.drum = sel.drum
  /\ \/ taken = sel
     \/ sel_pending \/ audio.pc = "sel_patch" \/ main.pc \in Storing

LEMMA FlushStep ==
  ASSUME ClapTypes, FlushKept, [Next]_vars
  PROVE  FlushKept'
  <1> USE DEF FlushKept, At, Goto, ClapTypes, AudioPlace
  <1>1. CASE Audio
    <2>1. CASE Process
      BY <2>1 DEF Process
    <2>2. CASE SelectionPart \/ SelectionClear \/ SelectionPatch \/ SelectionAgree
      BY <2>2 DEF SelectionPart, SelectionClear, SelectionPatch, SelectionAgree
    <2>3. ASSUME NEW id \in Ids, NEW v \in Values(id), ParamEvent(id, v) \/ FlushEvent(id, v)
          PROVE  FlushKept'
      BY <2>3 DEF ParamEvent, FlushEvent
    <2>4. CASE ParamsRead \/ FlushAsked
      BY <2>4 DEF ParamsRead, FlushAsked
    <2>5. CASE ReportRead \/ ReportAgain \/ ReportClear \/ ReportPush
      BY <2>5 DEF ReportRead, ReportAgain, ReportClear, ReportPush
    <2>6. CASE KeepLists \/ LookUp \/ CarryOver
      BY <2>6 DEF KeepLists, LookUp, CarryOver, AfterLists
    <2>7. CASE ApplyMap \/ NamesChanged \/ Midi \/ ProcessEnds
      BY <2>7 DEF ApplyMap, NamesChanged, Midi, ProcessEnds
    <2>8. ASSUME NEW id \in Picks, SendChoice(id)
          PROVE  FlushKept'
      <3>1. audio.pc = id /\ \E pc : Goto(pc)
        BY <2>8 DEF SendChoice
      <3> QED
        BY <3>1 DEF Picks
    <2> QED
      BY <1>1, <2>1, <2>2, <2>3, <2>4, <2>5, <2>6, <2>7, <2>8 DEF Audio
  <1>2. CASE Main
    <2>1. UNCHANGED audio
      BY <1>2 DEF Main, Activate, Deactivate, LoadPreset, StorePreset, RaiseFlag, Pick,
           Press, EditorSet, DirtyRead, DirtyWrite, OpenEditor, Tick, CloseEditor,
           OpenWindow, TickWindow, CloseWindow, OnlyEditor, OnMainThread,
           AnnounceNames, ReadKeys
    <2> QED
      BY <2>1
  <1>3. CASE UNCHANGED vars
    BY <1>3 DEF vars
  <1> QED
    BY <1>1, <1>2, <1>3 DEF Next

(* Past the preset, a block and a flush leave it alone. *)
Beyond ==
  /\ audio.pc \notin Taking /\ audio'.pc \notin Taking
  /\ UNCHANGED <<main, sel, sel_pending, taken>>

LEMMA GoesBeyond ==
  ASSUME ClapTypes, Audio
  PROVE  \/ Process \/ SelectionPart \/ SelectionClear \/ SelectionPatch
         \/ SelectionAgree \/ Beyond
  <1> USE DEF Beyond, At, Goto, ClapTypes, AudioPlace, Taking, shared, ghosts
  <1>1. ASSUME NEW id \in Ids, NEW v \in Values(id), ParamEvent(id, v)
        PROVE  Beyond
    BY <1>1 DEF ParamEvent, HostSets
  <1>2. ASSUME NEW id \in Ids, NEW v \in Values(id), FlushEvent(id, v)
        PROVE  Beyond
    BY <1>2 DEF FlushEvent, HostSets
  <1>3. ParamsRead => Beyond
    BY DEF ParamsRead
  <1>4. FlushAsked => Beyond
    BY DEF FlushAsked
  <1>5. ReportRead => Beyond
    BY DEF ReportRead
  <1>6. ReportAgain \/ ReportClear => Beyond
    BY DEF ReportAgain, ReportClear
  <1>7. ReportPush => Beyond
    BY DEF ReportPush
  <1>8. KeepLists => Beyond
    BY DEF KeepLists, AfterLists
  <1>9. LookUp => Beyond
    BY DEF LookUp
  <1>10. CarryOver => Beyond
    BY DEF CarryOver, AfterLists
  <1>11. ApplyMap => Beyond
    BY DEF ApplyMap
  <1>12. ASSUME NEW id \in Picks, SendChoice(id)
         PROVE  Beyond
    <2>1. audio.pc = id /\ (Goto("drum") \/ Goto("names") \/ Goto("midi"))
      BY <1>12 DEF SendChoice, Picks
    <2>2. UNCHANGED <<sel, sel_pending, taken, main>>
      BY <1>12 DEF SendChoice
    <2> QED
      BY <2>1, <2>2 DEF Picks
  <1>13. NamesChanged => Beyond
    BY DEF NamesChanged
  <1>14. Midi => Beyond
    BY DEF Midi
  <1>15. ProcessEnds => Beyond
    BY DEF ProcessEnds
  <1> QED
    BY <1>1, <1>2, <1>3, <1>4, <1>5, <1>6, <1>7, <1>8, <1>9, <1>10, <1>11, <1>12,
       <1>13, <1>14, <1>15, Zenon DEF Audio

LEMMA PresetAudio ==
  ASSUME ClapTypes, PresetHeld, Audio
  PROVE  PresetHeld'
  <1> USE DEF PresetHeld, At, Goto, ClapTypes, AudioPlace, Taking, Storing, shared,
              ghosts
  <1>1. CASE Process
    BY <1>1 DEF Process
  <1>2. CASE SelectionPart
    BY <1>2 DEF SelectionPart
  <1>3. CASE SelectionClear
    BY <1>3 DEF SelectionClear
  <1>4. CASE SelectionPatch
    <2>1. [sel EXCEPT !.drum = audio.drum] = sel
      BY <1>4 DEF SelectionPatch, Preset
    <2> QED
      BY <1>4, <2>1 DEF SelectionPatch
  <1>5. CASE SelectionAgree
    BY <1>5 DEF SelectionAgree
  <1>6. CASE Beyond
    BY <1>6 DEF Beyond
  <1> QED
    BY <1>1, <1>2, <1>3, <1>4, <1>5, <1>6, GoesBeyond

LEMMA PresetMain ==
  ASSUME HostWaits, ClapTypes, PresetHeld, Main
  PROVE  PresetHeld'
  <1> DEFINE Aside == /\ main.pc \notin Storing \cup {"map"}
                      /\ main'.pc \notin Storing \cup {"map"}
                      /\ UNCHANGED <<audio, sel, sel_pending, taken>>
  <1> USE DEF ClapTypes, MainPlace, MainSteps, Taking, Storing, shared, ghosts
  <1>1. Aside => PresetHeld'
    BY DEF PresetHeld
  <1>2. CASE Activate \/ Deactivate
    BY <1>2 DEF Activate, Deactivate, PresetHeld
  <1>3. ASSUME NEW p \in Presets, LoadPreset(p)
        PROVE  PresetHeld'
    BY <1>3 DEF LoadPreset, MainIs, PresetHeld
  <1>4. ASSUME NEW f \in {"map", "bank", "prog", "drum"}, StorePreset(f)
        PROVE  PresetHeld'
    <2>1. main.pc = f /\ main'.pc \in Storing /\ UNCHANGED <<audio, sel_pending, taken>>
      BY <1>4 DEF StorePreset, MainIs, AfterField
    <2> QED
      BY <2>1 DEF PresetHeld
  <1>5. CASE RaiseFlag
    BY <1>5 DEF RaiseFlag, MainIs, PresetHeld
  <1>6. ASSUME NEW id \in Ids, NEW v \in Pickable(id), Pick(id, v) \/ Press(id, v)
        PROVE  PresetHeld'
    <2>1. MainIs("idle") /\ EditorSet(id, v)
      BY <1>6 DEF Pick, Press
    <2>2. Aside
      BY <2>1 DEF EditorSet, MainIs
    <2> QED
      BY <1>1, <2>2
  <1>7. CASE DirtyRead
    BY <1>1, <1>7 DEF DirtyRead, MainIs
  <1>8. CASE DirtyWrite
    BY <1>1, <1>8 DEF DirtyWrite, MainIs
  <1>9. CASE \/ OpenEditor \/ Tick \/ CloseEditor
             \/ OpenWindow \/ TickWindow \/ CloseWindow
    BY <1>9 DEF OpenEditor, Tick, CloseEditor, OpenWindow, TickWindow, CloseWindow,
                OnlyEditor, PresetHeld
  <1>10. CASE OnMainThread
    BY <1>1, <1>10 DEF OnMainThread, MainIs
  <1>11. CASE AnnounceNames
    BY <1>1, <1>11 DEF AnnounceNames, MainIs
  <1>12. CASE ReadKeys
    BY <1>1, <1>12 DEF ReadKeys, MainIs
  <1> QED
    BY <1>2, <1>3, <1>4, <1>5, <1>6, <1>7, <1>8, <1>9, <1>10, <1>11, <1>12 DEF Main

LEMMA PresetStep ==
  ASSUME HostWaits, ClapTypes, PresetHeld, [Next]_vars
  PROVE  PresetHeld'
  <1>1. CASE UNCHANGED vars
    BY <1>1 DEF vars, shared, ghosts, PresetHeld
  <1> QED
    BY <1>1, PresetAudio, PresetMain DEF Next

-----------------------------------------------------------------------------
(* What an undisturbed block has dealt with stays as it is. *)

Quiet == calm /\ ~audio.flush /\ audio.pc # "idle"

(* The patch a parameter resolves to is the last sent for it. *)
Chosen(id) ==
  LET i == PatchAt(ListOf(id, list_map), want[id]) IN i # 0 => sent[id] = i

(* The main thread stores nothing in it: no preset is left to take, no dirty
   bit to report, the lists and the engine are the wanted map's, and the
   choices are sent. *)
StaysDealt ==
  Quiet =>
    /\ main.pc \notin Storing \cup Marking
    /\ audio.pc \notin {"sel_drum", "sel_clear"} => ~sel_pending
    /\ audio.pc \notin Taking \cup {"params", "report", "again", "clear"} => gui_dirty = {}
    /\ audio.pc = "again" => audio.dirty = gui_dirty
    /\ audio.pc = "clear" => audio.seen = audio.dirty
    /\ audio.pc = "carry" => audio.map = want["map"]
    /\ audio.pc \in {"map", "inst", "drum", "names", "midi"} => list_map = want["map"]
    /\ audio.pc \in {"inst", "drum", "names", "midi"} /\ PerPart => HasSet(want["map"])
    /\ audio.pc \in {"drum", "names", "midi"} => Chosen("inst")
    /\ audio.pc \in {"names", "midi"} => Chosen("drum")

(* Such a step of the main thread changes nothing of that. *)
Undisturbed ==
  /\ UNCHANGED <<audio, calm, want, list_map, sent, sel_pending, gui_dirty, mode,
                 map_of>>
  /\ main'.pc \in Storing \cup Marking => main.pc \in Storing \cup Marking

LEMMA MainDisturbs ==
  ASSUME ClapTypes, Main
  PROVE  ~calm' \/ (audio.pc = "idle" /\ UNCHANGED audio) \/ Undisturbed
  <1> USE DEF ClapTypes, MainPlace, Storing, Marking, MainIs, At, Stores,
              Undisturbed, shared, ghosts, engineVars, policyVars
  <1>1. Activate \/ Deactivate => audio.pc = "idle" /\ UNCHANGED audio
    BY DEF Activate, Deactivate
  <1>2. ASSUME NEW p \in Presets, LoadPreset(p)
        PROVE  Undisturbed
    BY <1>2 DEF LoadPreset
  <1>3. ASSUME NEW f \in {"map", "bank", "prog", "drum"}, StorePreset(f)
        PROVE  ~calm'
    BY <1>3 DEF StorePreset
  <1>4. RaiseFlag \/ DirtyWrite => ~calm'
    BY DEF RaiseFlag, DirtyWrite
  <1>5. ASSUME NEW id \in Ids, NEW v \in Pickable(id), Pick(id, v) \/ Press(id, v)
        PROVE  ~calm'
    BY <1>5 DEF Pick, Press, EditorSet
  <1>6. DirtyRead => Undisturbed
    BY DEF DirtyRead
  <1>7. OpenEditor \/ Tick \/ CloseEditor \/ OpenWindow \/ TickWindow \/ CloseWindow
          => Undisturbed
    BY DEF OpenEditor, Tick, CloseEditor, OpenWindow, TickWindow, CloseWindow, OnlyEditor
  <1>8. OnMainThread => Undisturbed
    BY DEF OnMainThread
  <1>9. AnnounceNames => Undisturbed
    BY DEF AnnounceNames
  <1>10. ReadKeys => Undisturbed
    BY DEF ReadKeys
  <1> HIDE DEF ClapTypes, Undisturbed
  <1> QED
    BY <1>1, <1>2, <1>3, <1>4, <1>5, <1>6, <1>7, <1>8, <1>9, <1>10 DEF Main

LEMMA DealtStill ==
  ASSUME StaysDealt, Undisturbed
  PROVE  StaysDealt'
  BY DEF StaysDealt, Quiet, Undisturbed, Chosen, HasSet, PerPart

LEMMA DealtAudio ==
  ASSUME ClapTypes, FlushKept, StaysDealt, Audio
  PROVE  StaysDealt'
  <1> USE DEF StaysDealt, Quiet, PerPart, At, Goto, ClapTypes, AudioPlace, Taking,
              Storing, Marking, shared, ghosts, engineVars, policyVars
  <1>1. CASE Process
    BY <1>1 DEF Process, HasSet
  <1>2. CASE SelectionPart
    BY <1>2 DEF SelectionPart
  <1>3. CASE SelectionClear
    BY <1>3 DEF SelectionClear
  <1>4. CASE SelectionPatch
    BY <1>4 DEF SelectionPatch
  <1>5. CASE SelectionAgree
    BY <1>5 DEF SelectionAgree
  <1>6. ASSUME NEW id \in Ids, NEW v \in Values(id), ParamEvent(id, v)
        PROVE  StaysDealt'
    BY <1>6 DEF ParamEvent, HostSets
  <1>7. ASSUME NEW id \in Ids, NEW v \in Values(id), FlushEvent(id, v)
        PROVE  StaysDealt'
    BY <1>7 DEF FlushEvent
  <1>8. CASE ParamsRead
    BY <1>8 DEF ParamsRead
  <1>9. CASE FlushAsked
    BY <1>9 DEF FlushAsked
  <1>10. CASE ReportRead
    BY <1>10 DEF ReportRead
  <1>11. CASE ReportAgain \/ ReportClear
    BY <1>11 DEF ReportAgain, ReportClear
  <1>12. CASE ReportPush
    BY <1>12 DEF ReportPush
  <1>13. CASE KeepLists
    BY <1>13 DEF KeepLists, AfterLists
  <1>14. CASE LookUp
    BY <1>14 DEF LookUp
  <1>15. CASE CarryOver
    <2>1. Carried("map") = want["map"]
      BY DEF Carried
    <2>2. want'["map"] = want["map"]
      BY <1>15, <2>1 DEF CarryOver, Ids
    <2> QED
      BY <1>15, <2>2 DEF CarryOver, AfterLists
  <1>16. CASE ApplyMap
    <2>1. PerPart => HasSet(want["map"])'
      <3>1. CASE SetMapOnParts(want["map"])
        <4>1. HasSet(want["map"])' = \A ch \in Parts : map_of'[ch] = want["map"]
          BY <1>16 DEF ApplyMap, HasSet
        <4>2. \A ch \in Parts : map_of'[ch] = want["map"]
          BY <3>1, SetMapDoes DEF HasSet
        <4> QED
          BY <4>1, <4>2
      <3>2. CASE ~SetMapOnParts(want["map"])
        BY <1>16, <3>2 DEF ApplyMap, SetMapKept, ReopenFails, Reopen
      <3> QED
        BY <3>1, <3>2
    <2>2. UNCHANGED mode
      BY <1>16, SetMapDoes, StartTypes
         DEF ApplyMap, SetMapKept, ReopenFails, Reopen
    <2> QED
      BY <1>16, <2>1, <2>2 DEF ApplyMap
  <1>17. ASSUME NEW id \in Picks, SendChoice(id)
         PROVE  StaysDealt'
    <2> DEFINE i == PatchAt(ListOf(id, list_map), want[id])
    <2>1. /\ sent' = [sent EXCEPT ![id] = IF i \in {0, sent[id]} THEN @ ELSE i]
          /\ audio.pc = id /\ UNCHANGED <<want, list_map, sel_pending, gui_dirty, calm, main>>
          /\ \/ id = "inst" /\ Goto("drum")
             \/ id = "drum" /\ (Goto("names") \/ Goto("midi"))
      BY <1>17 DEF SendChoice, Picks
    <2>2. UNCHANGED <<mode, map_of>>
      BY <1>17, PatchDoes DEF SendChoice, Patch
    <2>3. i # 0 => sent'[id] = i
      BY <2>1
    <2>4. Chosen(id)'
      BY <2>1, <2>3 DEF Chosen
    <2>5. id = "drum" /\ Chosen("inst") => Chosen("inst")'
      BY <2>1 DEF Chosen
    <2> QED
      BY <2>1, <2>2, <2>4, <2>5 DEF HasSet
  <1>18. CASE NamesChanged
    BY <1>18 DEF NamesChanged, HasSet, Chosen
  <1>19. CASE Midi
    <2>1. UNCHANGED <<mode, map_of>>
      BY <1>19, WireDoes, WireResetTypes, Constants DEF Midi
    <2> QED
      BY <1>19, <2>1 DEF Midi, HasSet, Chosen
  <1>20. CASE ProcessEnds
    BY <1>20 DEF ProcessEnds
  <1> HIDE DEF ClapTypes, StaysDealt
  <1> QED
    BY <1>1, <1>2, <1>3, <1>4, <1>5, <1>6, <1>7, <1>8, <1>9, <1>10, <1>11, <1>12,
       <1>13, <1>14, <1>15, <1>16, <1>17, <1>18, <1>19, <1>20 DEF Audio

LEMMA DealtStep ==
  ASSUME ClapTypes, FlushKept, StaysDealt, [Next]_vars
  PROVE  StaysDealt'
  <1>1. CASE UNCHANGED vars
    <2>1. Undisturbed
      BY <1>1 DEF vars, Undisturbed, shared, ghosts, engineVars, policyVars
    <2> QED
      BY <2>1, DealtStill
  <1>2. CASE Main
    <2>1. ~Quiet' => StaysDealt'
      BY DEF StaysDealt
    <2> QED
      BY <1>2, <2>1, MainDisturbs, DealtStill DEF Quiet
  <1> QED
    BY <1>1, <1>2, DealtAudio DEF Next

-----------------------------------------------------------------------------
(* What the parts play. *)

(* A part plays the patch last sent for its parameter, on that patch's map or
   the one set since. *)
PlaysOf(id) ==
  /\ Holds(ChOf(id), Patches[sent[id]].bank, Patches[sent[id]].prog)
  /\ PerPart => part[ChOf(id)].sound.map
                  \in {Patches[sent[id]].map, map_of[ChOf(id)]}

(* Unless something else chose for it since. *)
PlaysSent == \A id \in Picks : sent[id] # 0 /\ ChOf(id) \notin wired => PlaysOf(id)

(* Before its parameter is brought along, a part plays the preset taken. *)
PresetCh == IF sel.drum THEN DrumCh ELSE ToneCh

PlaysPreset ==
  audio.pc = "sel_agree" =>
    /\ Holds(PresetCh, sel.bank, sel.prog)
    /\ PerPart => part[PresetCh].sound.map = sel.map

(* Where no part, map or choice is touched, nothing is heard to change. *)
Untouched == UNCHANGED <<mode, map_of, last_pc, part, sent, wired>>

LEMMA PlaysStill ==
  ASSUME PlaysSent, Untouched
  PROVE  PlaysSent'
  BY DEF PlaysSent, PlaysOf, Holds, PerPart, Untouched

LEMMA PresetStill ==
  ASSUME PlaysPreset, Untouched, audio'.pc # "sel_agree" \/ UNCHANGED <<audio, sel>>
  PROVE  PlaysPreset'
  BY DEF PlaysPreset, PresetCh, Holds, PerPart, Untouched

LEMMA PlaysMain ==
  ASSUME ClapTypes, PresetHeld, PlaysSent, PlaysPreset, Main
  PROVE  PlaysSent' /\ PlaysPreset'
  <1> DEFINE Aside == Untouched /\ UNCHANGED <<audio, sel>>
  <1> USE DEF Untouched, MainIs, At, shared, ghosts, engineVars, policyVars
  <1>1. Aside => PlaysSent' /\ PlaysPreset'
    BY PlaysStill, PresetStill
  <1>2. CASE Activate
    <2>1. wired' = Parts /\ audio'.pc = "idle"
      BY <1>2 DEF Activate
    <2> QED
      BY <2>1, Constants DEF PlaysSent, PlaysPreset
  <1>3. CASE Deactivate
    BY <1>1, <1>3 DEF Deactivate, CloseEngine
  <1>4. ASSUME NEW p \in Presets, LoadPreset(p)
        PROVE  Aside
    BY <1>4 DEF LoadPreset
  <1>5. ASSUME NEW f \in {"map", "bank", "prog", "drum"}, StorePreset(f)
        PROVE  PlaysSent' /\ PlaysPreset'
    <2>1. Untouched /\ UNCHANGED audio /\ main.pc = f
      BY <1>5 DEF StorePreset
    <2>2. audio.pc # "sel_agree"
      BY <2>1 DEF PresetHeld, Storing, Taking
    <2> QED
      BY <2>1, <2>2, PlaysStill, PresetStill
  <1>6. CASE RaiseFlag
    BY <1>1, <1>6 DEF RaiseFlag
  <1>7. ASSUME NEW id \in Ids, NEW v \in Pickable(id), Pick(id, v) \/ Press(id, v)
        PROVE  Aside
    BY <1>7 DEF Pick, Press, EditorSet
  <1>8. CASE DirtyRead \/ DirtyWrite
    BY <1>1, <1>8 DEF DirtyRead, DirtyWrite
  <1>9. CASE OpenEditor \/ Tick \/ CloseEditor \/ OpenWindow \/ TickWindow \/ CloseWindow
    BY <1>1, <1>9 DEF OpenEditor, Tick, CloseEditor, OpenWindow, TickWindow,
                      CloseWindow, OnlyEditor
  <1>10. CASE OnMainThread \/ AnnounceNames \/ ReadKeys
    BY <1>1, <1>10 DEF OnMainThread, AnnounceNames, ReadKeys
  <1> HIDE DEF Aside
  <1> QED
    BY <1>1, <1>2, <1>3, <1>4, <1>5, <1>6, <1>7, <1>8, <1>9, <1>10 DEF Main

LEMMA PlaysAudio ==
  ASSUME ClapTypes, PresetHeld, PlaysSent, PlaysPreset, Audio
  PROVE  PlaysSent' /\ PlaysPreset'
  <1> DEFINE Aside == Untouched /\ audio'.pc # "sel_agree"
  <1> USE DEF At, Goto, Untouched, shared, notes, ghosts, engineVars, policyVars
  <1>1. Aside => PlaysSent' /\ PlaysPreset'
    BY PlaysStill, PresetStill
  <1>2. audio \in AudioPlace /\ EngineTypes /\ sent \in [Picks -> Nat]
    BY DEF ClapTypes
  <1>3. Process => Aside
    BY <1>2 DEF Process, AudioPlace
  <1>4. SelectionPart => Aside
    BY <1>2 DEF SelectionPart, AudioPlace
  <1>5. SelectionClear => Aside
    BY <1>2 DEF SelectionClear, AudioPlace
  <1>6. CASE SelectionPatch
    <2>1. audio.drum = sel.drum
      BY <1>6 DEF SelectionPatch, PresetHeld
    <2>2. PICK ch \in Parts : ch = PresetCh
      BY Constants DEF PresetCh
    <2>3. /\ Patch(ch, sel.map, sel.bank, sel.prog)
          /\ wired' = wired \cup {ch} /\ UNCHANGED <<sel, sent>> /\ PresetCh' = ch
      BY <1>6, <2>1, <2>2 DEF SelectionPatch, PresetCh
    <2>4. /\ UNCHANGED <<mode, map_of>>
          /\ \A c \in Parts \ {ch} : SamePart(c)
          /\ part'[ch].cc0 = sel.bank /\ part'[ch].sound.bank = sel.bank
          /\ last_pc'[ch] = sel.prog /\ part'[ch].sound.prog = sel.prog
          /\ PerPart => part'[ch].sound.map = sel.map
      BY <1>2, <2>3, SelTyped, PatchDoes DEF Holds
    <2>5. PlaysSent'
      <3>1. ASSUME NEW id \in Picks, ChOf(id) \notin wired'
            PROVE  ChOf(id) \notin wired /\ SamePart(ChOf(id))
        BY <2>3, <2>4, <3>1, Constants
      <3> QED
        BY <2>3, <2>4, <3>1 DEF PlaysSent, PlaysOf, Holds, SamePart, PerPart
    <2>6. PlaysPreset'
      BY <2>3, <2>4 DEF PlaysPreset, Holds, PerPart
    <2> QED
      BY <2>5, <2>6
  <1>7. CASE SelectionAgree
    <2> DEFINE list == List(audio.drum, list_map)
               k == Find(list, sel.bank, sel.prog)
    <2>1. audio.pc = "sel_agree" /\ audio.drum = sel.drum /\ audio'.pc = "params"
          /\ UNCHANGED <<mode, map_of, last_pc, part>>
      BY <1>2, <1>7 DEF SelectionAgree, PresetHeld, AudioPlace
    <2>2. PlaysPreset'
      BY <2>1 DEF PlaysPreset
    <2>3. CASE k # 0 /\ Patches[list[k]].map = sel.map
      <3>1. PICK id \in Picks : id = IF sel.drum THEN "drum" ELSE "inst"
        BY DEF Picks
      <3>2. ChOf(id) = PresetCh
        BY <3>1 DEF ChOf, PresetCh
      <3>3. /\ sent' = [sent EXCEPT ![id] = list[k]] /\ wired' = wired \ {ChOf(id)}
        BY <1>7, <2>3, <3>1 DEF SelectionAgree
      <3>4. Patches[list[k]].bank = sel.bank /\ Patches[list[k]].prog = sel.prog
        <4>1. audio.drum \in BOOLEAN /\ list_map \in Maps
          BY DEF ClapTypes, AudioPlace
        <4> QED
          BY <2>3, <4>1, FindIn
      <3>5. PlaysOf(id)'
        <4> HIDE DEF k, list
        <4>1. sent'[id] = list[k]
          BY <1>2, <3>3
        <4>2. Holds(PresetCh, sel.bank, sel.prog)
              /\ (PerPart => part[PresetCh].sound.map = sel.map)
          BY <2>1 DEF PlaysPreset
        <4> QED
          BY <2>1, <2>3, <3>2, <3>4, <4>1, <4>2 DEF PlaysOf, Holds, PerPart
      <3>6. ASSUME NEW other \in Picks, other # id, sent'[other] # 0,
                   ChOf(other) \notin wired'
            PROVE  PlaysOf(other)'
        <4>1. sent'[other] = sent[other] /\ ChOf(other) # ChOf(id)
          BY <1>2, <3>3, <3>6, Constants DEF ChOf, Picks
        <4>2. PlaysOf(other)
          BY <3>3, <3>6, <4>1 DEF PlaysSent
        <4> QED
          BY <2>1, <4>1, <4>2 DEF PlaysOf, Holds, PerPart
      <3>7. PlaysSent'
        BY <3>5, <3>6 DEF PlaysSent
      <3> QED
        BY <2>2, <3>7
    <2>4. CASE ~(k # 0 /\ Patches[list[k]].map = sel.map)
      <3>1. UNCHANGED <<sent, wired>>
        BY <1>7, <2>4 DEF SelectionAgree
      <3> QED
        BY <2>1, <2>2, <3>1, PlaysStill
    <2> QED
      BY <2>3, <2>4
  <1>8. ASSUME NEW id \in Ids, NEW v \in Values(id), ParamEvent(id, v)
        PROVE  Aside
    BY <1>2, <1>8 DEF ParamEvent, HostSets
  <1>9. ASSUME NEW id \in Ids, NEW v \in Values(id), FlushEvent(id, v)
        PROVE  Aside
    BY <1>2, <1>9 DEF FlushEvent, HostSets, AudioPlace
  <1>10. ParamsRead \/ FlushAsked => Aside
    BY <1>2 DEF ParamsRead, FlushAsked, AudioPlace
  <1>11. ReportRead \/ ReportAgain \/ ReportClear \/ ReportPush => Aside
    BY <1>2 DEF ReportRead, ReportAgain, ReportClear, ReportPush, AudioPlace
  <1>12. KeepLists \/ LookUp \/ CarryOver => Aside
    BY <1>2 DEF KeepLists, LookUp, CarryOver, AfterLists, AudioPlace
  <1>13. CASE ApplyMap
    <2>1. audio'.pc = "inst"
      BY <1>2, <1>13 DEF ApplyMap, AudioPlace
    <2>2. CASE SetMapOnParts(want.map) /\ UNCHANGED <<wired, last>>
      <3>1. PICK m \in Maps : m = want.map
        BY DEF ClapTypes
      <3>2. /\ UNCHANGED <<mode, sent, wired>> /\ \A ch \in Parts : map_of'[ch] = m
            /\ \A ch \in Parts : \A b, p : Holds(ch, b, p) => Holds(ch, b, p)'
            /\ \A ch \in Parts : part'[ch].sound.map = m \/ (SamePart(ch) /\ map_of[ch] = m)
        BY <1>2, <1>13, <2>2, <3>1, SetMapDoes DEF ApplyMap, HasSet
      <3>3. ASSUME NEW id \in Picks, sent'[id] # 0, ChOf(id) \notin wired'
            PROVE  PlaysOf(id)'
        <4>1. SetMapOnParts(want.map) => PerPart
          BY DEF SetMapOnParts
        <4>2. PlaysOf(id) /\ ChOf(id) \in Parts /\ sent'[id] = sent[id]
          BY <3>2, <3>3, Constants DEF PlaysSent
        <4>3. PICK ch \in Parts : ch = ChOf(id)
          BY <4>2
        <4>4. PICK b, p : b = Patches[sent[id]].bank /\ p = Patches[sent[id]].prog
          OBVIOUS
        <4>5. Holds(ch, b, p)'
          BY <3>2, <4>2, <4>3, <4>4 DEF PlaysOf
        <4>6. part'[ch].sound.map \in {Patches[sent[id]].map, map_of'[ch]}
          <5>1. part[ch].sound.map \in {Patches[sent[id]].map, map_of[ch]}
            BY <2>2, <4>1, <4>2, <4>3 DEF PlaysOf
          <5> QED
            BY <3>2, <5>1 DEF SamePart
        <4> QED
          BY <4>2, <4>3, <4>4, <4>5, <4>6 DEF PlaysOf, Holds
      <3> QED
        BY <2>1, <3>3 DEF PlaysSent, PlaysPreset
    <2>3. CASE (SetMapKept(want.map) \/ ReopenFails(want.map)) /\ UNCHANGED <<wired, last>>
      <3>1. Aside
        BY <1>13, <2>1, <2>3 DEF ApplyMap, SetMapKept, ReopenFails
      <3> QED
        BY <1>1, <3>1
    <2>4. CASE wired' = Parts
      BY <2>1, <2>4, Constants DEF PlaysSent, PlaysPreset
    <2> QED
      BY <1>13, <2>2, <2>3, <2>4 DEF ApplyMap
  <1>14. ASSUME NEW id \in Picks, SendChoice(id)
         PROVE  PlaysSent' /\ PlaysPreset'
    <2> DEFINE i == PatchAt(ListOf(id, list_map), want[id])
    <2>1. audio'.pc # "sel_agree"
      BY <1>2, <1>14 DEF SendChoice, AudioPlace, Picks
    <2>2. CASE i \notin {0, sent[id]}
      <3>1. PICK j : j = i
        OBVIOUS
      <3>2. PICK ch \in Parts : ch = ChOf(id)
        BY Constants
      <3>3. /\ Patch(ch, Patches[j].map, Patches[j].bank, Patches[j].prog)
            /\ sent' = [sent EXCEPT ![id] = j] /\ wired' = wired \ {ch}
        BY <1>14, <2>2, <3>1, <3>2 DEF SendChoice
      <3>4. /\ Patches[j].map \in Maps /\ Patches[j].bank \in Banks
            /\ Patches[j].prog \in Programs
        BY <2>2, <3>1, AtTyped
      <3>5. /\ UNCHANGED <<mode, map_of>> /\ \A c \in Parts \ {ch} : SamePart(c)
            /\ Holds(ch, Patches[j].bank, Patches[j].prog)'
            /\ PerPart => part'[ch].sound.map = Patches[j].map
        BY <1>2, <3>3, <3>4, PatchDoes
      <3>6. PlaysOf(id)'
        <4>1. sent'[id] = j
          BY <1>2, <3>3
        <4> QED
          BY <3>2, <3>5, <4>1 DEF PlaysOf, Holds, PerPart
      <3>7. ASSUME NEW other \in Picks, other # id, sent'[other] # 0,
                   ChOf(other) \notin wired'
            PROVE  PlaysOf(other)'
        <4>1. sent'[other] = sent[other] /\ ChOf(other) \in Parts \ {ch}
          BY <1>2, <3>2, <3>3, <3>7, Constants DEF ChOf, Picks
        <4>2. PlaysOf(other)
          BY <3>3, <3>7, <4>1 DEF PlaysSent
        <4> QED
          BY <3>5, <4>1, <4>2 DEF PlaysOf, Holds, PerPart, SamePart
      <3> QED
        BY <2>1, <3>6, <3>7 DEF PlaysSent, PlaysPreset
    <2>3. CASE i \in {0, sent[id]}
      <3>1. Aside
        BY <1>14, <2>1, <2>3 DEF SendChoice
      <3> QED
        BY <1>1, <3>1
    <2> QED
      BY <2>2, <2>3
  <1>15. NamesChanged \/ ProcessEnds => Aside
    BY <1>2 DEF NamesChanged, ProcessEnds, AudioPlace
  <1>16. CASE Midi
    <2>1. audio.pc = "midi" /\ UNCHANGED <<audio, sent>>
      BY <1>16 DEF Midi
    <2>2. ASSUME NEW id \in Picks, ChOf(id) \notin wired'
          PROVE  SamePart(ChOf(id)) /\ ChOf(id) \notin wired
      <3>1. ChOf(id) \in Parts
        BY Constants
      <3>2. PICK ch \in Parts : /\ wired' = wired \cup {ch}
                                /\ \/ \E p \in Programs : MidiProgram(ch, p)
                                   \/ \E b \in Banks : MidiBank(ch, b)
        BY <1>16, <2>2, <3>1 DEF Midi
      <3>3. \A c \in Parts \ {ch} : SamePart(c)
        BY <1>2, <3>2, WireDoes, Constants
      <3> QED
        BY <2>2, <3>1, <3>2, <3>3
    <2>3. UNCHANGED <<mode, map_of>>
      BY <1>2, <1>16, WireDoes, WireResetTypes, Constants DEF Midi
    <2>4. PlaysSent'
      BY <2>1, <2>2, <2>3 DEF PlaysSent, PlaysOf, Holds, PerPart, SamePart
    <2> QED
      BY <2>1, <2>4 DEF PlaysPreset
  <1> HIDE DEF Aside
  <1> QED
    BY <1>1, <1>3, <1>4, <1>5, <1>6, <1>7, <1>8, <1>9, <1>10, <1>11, <1>12, <1>13,
       <1>14, <1>15, <1>16 DEF Audio

LEMMA PlaysStep ==
  ASSUME ClapTypes, PresetHeld, PlaysSent, PlaysPreset, [Next]_vars
  PROVE  PlaysSent' /\ PlaysPreset'
  <1>1. CASE UNCHANGED vars
    <2>1. Untouched /\ UNCHANGED <<audio, sel>>
      BY <1>1 DEF vars, Untouched, shared, ghosts, engineVars, policyVars
    <2> QED
      BY <2>1, PlaysStill, PresetStill
  <1> QED
    BY <1>1, PlaysMain, PlaysAudio DEF Next

-----------------------------------------------------------------------------
(* What the host knows. *)

(* A value the host does not know is about to be told it. *)
Pending(id) ==
  \/ id \in gui_dirty
  \/ main.pc \in Marking /\ main.id = id
  \/ audio.pc = "push" /\ id \in audio.dirty

Known(id) == told[id] = want[id] \/ id \in swallowed \/ Pending(id)

TellsHost ==
  /\ audio.pc = "clear" => audio.seen \subseteq gui_dirty
  /\ main.pc = "dirty_write" => gui_dirty \subseteq main.dirty
  /\ \A id \in Ids : Known(id)

TellsKeys == KeysTold \/ audio.pc = "names"

(* Where no value, bit or mark is touched, as much is known. *)
Unmarked ==
  /\ UNCHANGED <<want, told, swallowed, gui_dirty>>
  /\ main'.pc \in Marking => UNCHANGED main
  /\ main.pc \in Marking => UNCHANGED main
  /\ audio.pc # "push" \/ UNCHANGED audio
  /\ audio'.pc \notin {"clear", "push"} \/ UNCHANGED audio

LEMMA KnownStill ==
  ASSUME TellsHost, Unmarked
  PROVE  TellsHost'
  BY DEF TellsHost, Known, Pending, Unmarked, Marking

LEMMA HostMain ==
  ASSUME ClapTypes, TellsHost, Main
  PROVE  TellsHost'
  <1> USE DEF MainIs, Marking, shared, ghosts, engineVars, policyVars
  <1>1. /\ main \in MainPlace /\ want \in [Ids -> Nat] /\ gui_dirty \subseteq Ids
    BY DEF ClapTypes
  <1>2. Activate => Unmarked
    BY <1>1 DEF Activate, Unmarked
  <1>3. Deactivate => Unmarked
    BY <1>1 DEF Deactivate, Unmarked
  <1>4. ASSUME NEW p \in Presets, LoadPreset(p)
        PROVE  Unmarked
    BY <1>1, <1>4 DEF LoadPreset, Unmarked, MainPlace
  <1>5. ASSUME NEW f \in {"map", "bank", "prog", "drum"}, StorePreset(f)
        PROVE  Unmarked
    <2>1. main.pc = f /\ main'.pc \in {"bank", "prog", "drum", "flag"}
          /\ UNCHANGED <<want, told, swallowed, gui_dirty, audio>>
      BY <1>1, <1>5 DEF StorePreset, AfterField, MainPlace
    <2> QED
      BY <2>1 DEF Unmarked
  <1>6. RaiseFlag => Unmarked
    BY <1>1 DEF RaiseFlag, Unmarked, MainPlace
  <1>7. ASSUME NEW id \in Ids, NEW v \in Pickable(id), Pick(id, v) \/ Press(id, v)
        PROVE  TellsHost'
    <2>1. /\ main.pc = "idle" /\ main'.pc = "dirty_read" /\ main'.id = id
          /\ want' = [want EXCEPT ![id] = v]
          /\ UNCHANGED <<told, swallowed, gui_dirty, audio>>
      BY <1>1, <1>7 DEF Pick, Press, EditorSet, MainPlace
    <2>2. ASSUME NEW other \in Ids
          PROVE  Known(other)'
      <3>1. Known(other)
        BY DEF TellsHost
      <3> QED
        BY <1>1, <2>1, <3>1 DEF Known, Pending
    <2> QED
      BY <2>1, <2>2 DEF TellsHost
  <1>8. CASE DirtyRead
    <2>1. /\ main.pc = "dirty_read" /\ main'.pc = "dirty_write" /\ main'.id = main.id
          /\ main'.dirty = gui_dirty
          /\ UNCHANGED <<want, told, swallowed, gui_dirty, audio>>
      BY <1>1, <1>8 DEF DirtyRead, MainPlace
    <2> QED
      BY <2>1 DEF TellsHost, Known, Pending
  <1>9. CASE DirtyWrite
    <2>1. /\ main.pc = "dirty_write" /\ main'.pc = "idle"
          /\ gui_dirty' = main.dirty \cup {main.id}
          /\ UNCHANGED <<want, told, swallowed, audio>>
      BY <1>1, <1>9 DEF DirtyWrite, MainPlace
    <2> QED
      BY <2>1 DEF TellsHost, Known, Pending
  <1>10. OpenEditor \/ Tick \/ CloseEditor \/ OpenWindow \/ TickWindow \/ CloseWindow
           => Unmarked
    BY DEF OpenEditor, Tick, CloseEditor, OpenWindow, TickWindow, CloseWindow,
           OnlyEditor, Unmarked
  <1>11. CASE OnMainThread
    <2>1. /\ main.pc = "idle" /\ main'.pc = "names" /\ UNCHANGED <<want, gui_dirty, audio>>
          /\ \/ told' = want
             \/ UNCHANGED <<told, swallowed>>
      BY <1>1, <1>11 DEF OnMainThread, MainPlace
    <2> QED
      BY <2>1 DEF TellsHost, Known, Pending
  <1>12. AnnounceNames => Unmarked
    BY <1>1 DEF AnnounceNames, Unmarked, MainPlace
  <1>13. ReadKeys => Unmarked
    BY <1>1 DEF ReadKeys, Unmarked, MainPlace
  <1> QED
    BY <1>2, <1>3, <1>4, <1>5, <1>6, <1>7, <1>8, <1>9, <1>10, <1>11, <1>12, <1>13,
       KnownStill DEF Main

LEMMA HostAudio ==
  ASSUME ClapTypes, TellsHost, Audio
  PROVE  TellsHost'
  <1> USE DEF At, Goto, shared, ghosts
  <1>1. /\ audio \in AudioPlace /\ want \in [Ids -> Nat] /\ told \in [Ids -> Nat]
        /\ gui_dirty \subseteq Ids
    BY DEF ClapTypes
  <1>2. Process => Unmarked
    BY <1>1 DEF Process, Unmarked, AudioPlace
  <1>3. SelectionPart => Unmarked
    BY <1>1 DEF SelectionPart, Unmarked, AudioPlace
  <1>4. SelectionClear => Unmarked
    BY <1>1 DEF SelectionClear, Unmarked, AudioPlace
  <1>5. SelectionPatch => Unmarked
    BY <1>1 DEF SelectionPatch, Unmarked, AudioPlace
  <1>6. CASE SelectionAgree
    <2>1. /\ audio.pc = "sel_agree" /\ audio'.pc = "params" /\ UNCHANGED <<main, gui_dirty>>
          /\ \/ UNCHANGED <<want, told, swallowed>>
             \/ \E id \in Ids : \E k : /\ want' = [want EXCEPT ![id] = k]
                                       /\ told' = [told EXCEPT ![id] = k]
                                       /\ swallowed' = swallowed \ {id}
      BY <1>1, <1>6 DEF SelectionAgree, AudioPlace, Ids
    <2> QED
      BY <1>1, <2>1 DEF TellsHost, Known, Pending
  <1>7. ASSUME NEW id \in Ids, NEW v \in Values(id), ParamEvent(id, v) \/ FlushEvent(id, v)
        PROVE  TellsHost'
    <2>1. /\ audio.pc # "push" /\ audio'.pc \notin {"clear", "push"}
          /\ UNCHANGED <<main, gui_dirty>>
          /\ want' = [want EXCEPT ![id] = v] /\ told' = [told EXCEPT ![id] = v]
          /\ swallowed' = swallowed \ {id}
      BY <1>1, <1>7 DEF ParamEvent, FlushEvent, HostSets, AudioPlace
    <2>2. ASSUME NEW other \in Ids
          PROVE  Known(other)'
      <3>1. Known(other)
        BY DEF TellsHost
      <3> QED
        BY <1>1, <2>1, <3>1 DEF Known, Pending
    <2> QED
      BY <2>1, <2>2 DEF TellsHost
  <1>8. ParamsRead => Unmarked
    BY <1>1 DEF ParamsRead, Unmarked, AudioPlace
  <1>9. FlushAsked => Unmarked
    BY <1>1 DEF FlushAsked, Unmarked, AudioPlace
  <1>10. ReportRead => Unmarked
    BY <1>1 DEF ReportRead, Unmarked, AudioPlace
  <1>11. CASE ReportClear
    <2>1. /\ audio.pc = "clear" /\ audio'.pc = "push" /\ audio'.dirty = audio.dirty
          /\ gui_dirty' = audio.seen \ audio.dirty
          /\ swallowed' = swallowed \cup (gui_dirty \ audio.seen)
          /\ UNCHANGED <<main, want, told>>
      BY <1>1, <1>11 DEF ReportClear, AudioPlace
    <2> QED
      BY <2>1 DEF TellsHost, Known, Pending
  <1>21. CASE ReportAgain
    <2>1. /\ audio.pc = "again" /\ audio'.pc = "clear" /\ audio'.seen = gui_dirty
          /\ UNCHANGED <<main, want, told, swallowed, gui_dirty>>
      BY <1>1, <1>21 DEF ReportAgain, AudioPlace
    <2> QED
      BY <2>1 DEF TellsHost, Known, Pending
  <1>12. CASE ReportPush
    <2>1. /\ audio.pc = "push" /\ audio'.pc = "lists" /\ UNCHANGED <<main, want, gui_dirty>>
          /\ \A id \in Ids : told'[id] = IF id \in audio.dirty THEN want[id] ELSE told[id]
          /\ swallowed' = swallowed \ audio.dirty
      BY <1>1, <1>12 DEF ReportPush, AudioPlace
    <2> QED
      BY <2>1 DEF TellsHost, Known, Pending
  <1>13. KeepLists => Unmarked
    BY <1>1 DEF KeepLists, AfterLists, Unmarked, AudioPlace
  <1>14. LookUp => Unmarked
    BY <1>1 DEF LookUp, Unmarked, AudioPlace
  <1>15. CASE CarryOver
    <2>1. /\ audio.pc = "carry" /\ audio'.pc \notin {"clear", "push"}
          /\ UNCHANGED <<main, gui_dirty>>
          /\ swallowed' = swallowed \ Picks
      BY <1>1, <1>15 DEF CarryOver, AfterLists, AudioPlace
    <2>2. \A id \in Picks : told'[id] = want'[id]
      BY <1>15 DEF CarryOver, Picks, Ids
    <2>3. told'["map"] = told["map"] /\ want'["map"] = want["map"]
      BY <1>1, <1>15 DEF CarryOver, Carried, Picks, Ids
    <2>4. ASSUME NEW id \in Ids
          PROVE  Known(id)'
      <3>1. Known(id)
        BY DEF TellsHost
      <3> QED
        BY <2>1, <2>2, <2>3, <3>1 DEF Known, Pending, Ids, Picks
    <2> QED
      BY <2>1, <2>4 DEF TellsHost
  <1>16. ApplyMap => Unmarked
    BY <1>1 DEF ApplyMap, Unmarked, AudioPlace
  <1>17. ASSUME NEW id \in Picks, SendChoice(id)
         PROVE  Unmarked
    <2>1. audio.pc = id /\ (Goto("drum") \/ Goto("names") \/ Goto("midi"))
      BY <1>17 DEF SendChoice, Picks
    <2>2. UNCHANGED <<main, want, told, swallowed, gui_dirty>>
      BY <1>17 DEF SendChoice
    <2> QED
      BY <1>1, <2>1, <2>2 DEF Unmarked, Picks, AudioPlace
  <1>18. NamesChanged => Unmarked
    BY <1>1 DEF NamesChanged, Unmarked, AudioPlace
  <1>19. Midi => Unmarked
    BY <1>1 DEF Midi, Unmarked
  <1>20. ProcessEnds => Unmarked
    BY <1>1 DEF ProcessEnds, Unmarked, AudioPlace
  <1> QED
    BY <1>2, <1>3, <1>4, <1>5, <1>6, <1>7, <1>8, <1>9, <1>10, <1>11, <1>12, <1>13,
       <1>14, <1>15, <1>16, <1>17, <1>18, <1>19, <1>20, <1>21, KnownStill DEF Audio

LEMMA HostStep ==
  ASSUME ClapTypes, TellsHost, [Next]_vars
  PROVE  TellsHost'
  <1>1. CASE UNCHANGED vars
    <2>1. Unmarked
      BY <1>1 DEF vars, Unmarked, shared, ghosts
    <2> QED
      BY <2>1, KnownStill
  <1> QED
    BY <1>1, HostMain, HostAudio DEF Next

(* A kit a parameter chose is shown, or about to be announced. *)
KeysStill ==
  /\ UNCHANGED <<kit, keys, preset_kit>>
  /\ kit_names_changed' \/ (UNCHANGED kit_names_changed /\ audio.pc # "names")
  /\ main.pc = "keys" => main'.pc = "keys"

LEMMA KeysKept ==
  ASSUME TellsKeys, KeysStill
  PROVE  TellsKeys'
  BY DEF TellsKeys, KeysTold, KeysStill

LEMMA KeysMain ==
  ASSUME ClapTypes, TellsKeys, Main
  PROVE  TellsKeys'
  <1> DEFINE Aside == /\ UNCHANGED <<kit, keys, preset_kit, kit_names_changed, audio>>
                      /\ main.pc = "keys" => main'.pc = "keys"
  <1> USE DEF MainIs, MainPlace, notes, ghosts
  <1>1. main \in MainPlace
    BY DEF ClapTypes
  <1>2. Aside => TellsKeys'
    BY DEF TellsKeys, KeysTold
  <1>3. Activate \/ Deactivate => Aside
    BY DEF Activate, Deactivate
  <1>4. ASSUME NEW p \in Presets, LoadPreset(p)
        PROVE  Aside
    BY <1>4 DEF LoadPreset
  <1>5. ASSUME NEW f \in {"map", "bank", "prog", "drum"}, StorePreset(f)
        PROVE  Aside
    BY <1>5 DEF StorePreset
  <1>6. RaiseFlag => Aside
    BY DEF RaiseFlag
  <1>7. ASSUME NEW id \in Ids, NEW v \in Pickable(id), Pick(id, v) \/ Press(id, v)
        PROVE  Aside
    BY <1>7 DEF Pick, Press, EditorSet
  <1>8. DirtyRead \/ DirtyWrite => Aside
    BY DEF DirtyRead, DirtyWrite
  <1>9. OpenEditor \/ Tick \/ CloseEditor \/ OpenWindow \/ TickWindow \/ CloseWindow
          => Aside
    BY DEF OpenEditor, Tick, CloseEditor, OpenWindow, TickWindow, CloseWindow, OnlyEditor
  <1>10. OnMainThread => Aside
    BY DEF OnMainThread
  <1>11. CASE AnnounceNames
    BY <1>1, <1>11 DEF AnnounceNames, TellsKeys, KeysTold
  <1>12. CASE ReadKeys
    BY <1>12 DEF ReadKeys, TellsKeys, KeysTold
  <1> HIDE DEF Aside
  <1> QED
    BY <1>2, <1>3, <1>4, <1>5, <1>6, <1>7, <1>8, <1>9, <1>10, <1>11, <1>12 DEF Main

LEMMA KeysAudio ==
  ASSUME ClapTypes, TellsKeys, Audio
  PROVE  TellsKeys'
  <1> USE DEF At, Goto, notes, ghosts
  <1>1. audio \in AudioPlace
    BY DEF ClapTypes
  <1>2. Process \/ SelectionPart \/ SelectionClear => KeysStill
    BY DEF Process, SelectionPart, SelectionClear, KeysStill
  <1>3. CASE SelectionPatch
    BY <1>3 DEF SelectionPatch, TellsKeys, KeysTold
  <1>4. SelectionAgree => KeysStill
    BY DEF SelectionAgree, KeysStill
  <1>5. ASSUME NEW id \in Ids, NEW v \in Values(id), ParamEvent(id, v) \/ FlushEvent(id, v)
        PROVE  KeysStill
    BY <1>5 DEF ParamEvent, FlushEvent, HostSets, KeysStill
  <1>6. ParamsRead \/ FlushAsked => KeysStill
    BY DEF ParamsRead, FlushAsked, KeysStill
  <1>7. ReportRead \/ ReportAgain \/ ReportClear \/ ReportPush => KeysStill
    BY DEF ReportRead, ReportAgain, ReportClear, ReportPush, KeysStill
  <1>8. KeepLists \/ LookUp \/ CarryOver => KeysStill
    BY DEF KeepLists, LookUp, CarryOver, KeysStill
  <1>9. ApplyMap => KeysStill
    BY DEF ApplyMap, KeysStill
  <1>10. ASSUME NEW id \in Picks, SendChoice(id)
         PROVE  TellsKeys'
    <2> DEFINE i == PatchAt(ListOf(id, list_map), want[id])
    <2>1. audio.pc = id /\ UNCHANGED <<keys, kit_names_changed, main>>
      BY <1>10 DEF SendChoice
    <2>2. CASE i \notin {0, sent[id]} /\ id = "drum"
      <3>1. audio'.pc = "names"
        BY <1>1, <1>10, <2>2 DEF SendChoice, AudioPlace
      <3> QED
        BY <3>1 DEF TellsKeys
    <2>3. CASE i \notin {0, sent[id]} /\ id # "drum"
      <3>1. kit' = kit /\ preset_kit' = preset_kit
        BY <1>10, <2>3 DEF SendChoice, ClapTypes
      <3> QED
        BY <2>1, <3>1 DEF TellsKeys, KeysTold, Picks
    <2>4. CASE i \in {0, sent[id]}
      <3>1. kit' = kit /\ preset_kit' = preset_kit
        BY <1>10, <2>4 DEF SendChoice
      <3> QED
        BY <2>1, <3>1 DEF TellsKeys, KeysTold, Picks
    <2> QED
      BY <2>2, <2>3, <2>4
  <1>11. NamesChanged => KeysStill
    BY DEF NamesChanged, KeysStill
  <1>12. Midi \/ ProcessEnds => KeysStill
    BY DEF Midi, ProcessEnds, KeysStill
  <1> HIDE DEF KeysStill
  <1> QED
    BY <1>2, <1>3, <1>4, <1>5, <1>6, <1>7, <1>8, <1>9, <1>10, <1>11, <1>12, KeysKept
       DEF Audio

LEMMA KeysStep ==
  ASSUME ClapTypes, TellsKeys, [Next]_vars
  PROVE  TellsKeys'
  <1>1. CASE UNCHANGED vars
    BY <1>1 DEF vars, notes, ghosts, TellsKeys, KeysTold
  <1> QED
    BY <1>1, KeysMain, KeysAudio DEF Next

-----------------------------------------------------------------------------

BlockInv ==
  ClapTypes /\ FlushKept /\ StaysDealt /\ TellsHost /\ TellsKeys

ClapInv ==
  BlockInv /\ PresetHeld /\ PlaysSent /\ PlaysPreset

LEMMA InitInv == Init => ClapInv
  <1> SUFFICES ASSUME Init PROVE ClapInv
    OBVIOUS
  <1>1. ClapTypes
    BY InitTypes
  <1>2. FlushKept /\ StaysDealt /\ PresetHeld /\ PlaysPreset /\ PlaysSent
    BY DEF Init, FlushKept, StaysDealt, Quiet, PresetHeld, PlaysPreset, PlaysSent,
           Taking, Storing, Marking
  <1>3. TellsHost /\ TellsKeys
    BY DEF Init, TellsHost, Known, TellsKeys, KeysTold
  <1> QED
    BY <1>1, <1>2, <1>3 DEF ClapInv, BlockInv

LEMMA BlockCorrect == Spec => []BlockInv
  <1>1. Init => BlockInv
    BY InitInv DEF ClapInv
  <1>2. BlockInv /\ [Next]_vars => BlockInv'
    BY StepTypes, FlushStep, DealtStep, HostStep, KeysStep DEF BlockInv
  <1> QED
    BY <1>1, <1>2, PTL DEF Spec

LEMMA ClapCorrect ==
  ASSUME HostWaits
  PROVE  Spec => []ClapInv
  <1>1. Init => ClapInv
    BY InitInv
  <1>2. ClapInv /\ [Next]_vars => ClapInv'
    <2> SUFFICES ASSUME ClapInv, [Next]_vars PROVE ClapInv'
      OBVIOUS
    <2>1. BlockInv'
      BY StepTypes, FlushStep, DealtStep, HostStep, KeysStep DEF ClapInv, BlockInv
    <2>2. PresetHeld' /\ PlaysSent' /\ PlaysPreset'
      BY PresetStep, PlaysStep DEF ClapInv, BlockInv
    <2> QED
      BY <2>1, <2>2 DEF ClapInv
  <1> QED
    BY <1>1, <1>2, PTL DEF Spec

LEMMA Quieted ==
  ASSUME BlockInv, Settled
  PROVE  /\ main.pc \notin Storing \cup Marking /\ ~sel_pending /\ gui_dirty = {}
         /\ list_map = want["map"] /\ (PerPart => HasSet(want["map"]))
         /\ Chosen("inst") /\ Chosen("drum")
  <1>1. audio.pc = "midi" /\ calm
    BY DEF Settled, At
  <1>2. Quiet
    BY <1>1 DEF BlockInv, FlushKept, Quiet
  <1> QED
    BY <1>1, <1>2 DEF BlockInv, StaysDealt, Taking

(* After a block the main thread left alone, however both threads interleaved
   before, the lists are the wanted map's, each choice is the patch last sent
   for it, and its part plays that patch unless something else chose since
   (process() of scva_clap.c). *)
THEOREM BlockSettles ==
  ASSUME HostWaits
  PROVE  Spec => []Settles
  <1>1. ClapInv => Settles
    <2> SUFFICES ASSUME ClapInv, Settled
                 PROVE  /\ list_map = want["map"]
                        /\ PerPart => HasSet(want["map"])
                        /\ \A id \in Picks :
                             LET i == PatchAt(ListOf(id, list_map), want[id])
                             IN i # 0 => /\ sent[id] = i
                                         /\ ChOf(id) \notin wired => Plays(ChOf(id), i)
      BY DEF Settles
    <2>1. /\ list_map = want["map"] /\ (PerPart => HasSet(want["map"]))
          /\ Chosen("inst") /\ Chosen("drum")
      BY Quieted DEF ClapInv
    <2>2. ASSUME NEW id \in Picks, NEW i,
                 i = PatchAt(ListOf(id, list_map), want[id]), i # 0
          PROVE  sent[id] = i /\ (ChOf(id) \notin wired => Plays(ChOf(id), i))
      <3>1. sent[id] = i
        BY <2>1, <2>2 DEF Chosen, Picks
      <3>2. Patches[i].map = Source(list_map)
        BY <2>2, AtTyped DEF ClapInv, BlockInv
      <3>3. ASSUME ChOf(id) \notin wired
            PROVE  Plays(ChOf(id), i)
        <4>1. PlaysOf(id)
          BY <2>2, <3>1, <3>3 DEF ClapInv, PlaysSent
        <4>2. PerPart => map_of[ChOf(id)] = list_map
          BY <2>1, Constants DEF HasSet
        <4>3. Source(Patches[i].map) = Patches[i].map
          BY <3>2, SourceTwice
        <4> QED
          BY <3>1, <3>2, <4>1, <4>2, <4>3 DEF PlaysOf, Holds, Plays
      <3> QED
        BY <3>1, <3>3
    <2> QED
      BY <2>1, <2>2
  <1> QED
    BY <1>1, ClapCorrect, PTL

(* By then the host knows every value, but for a change whose dirty bit was
   cleared unread, and shows the chosen kit's key names or is yet to be told
   (report_gui, plug_on_main_thread). *)
THEOREM HostKnows == Spec => []HostTold
  <1>1. BlockInv => HostTold
    <2> SUFFICES ASSUME BlockInv, Settled
                 PROVE  KeysTold /\ \A id \in Ids \ swallowed : told[id] = want[id]
      BY DEF HostTold
    <2>1. audio.pc = "midi"
      BY DEF Settled, At
    <2>2. main.pc \notin Marking /\ gui_dirty = {}
      BY Quieted
    <2> QED
      BY <2>1, <2>2 DEF BlockInv, TellsHost, Known, Pending, TellsKeys
  <1> QED
    BY <1>1, BlockCorrect, PTL

(* Such a block has taken up the last preset the host loaded, all its numbers
   and on its own part (apply_selection). *)
THEOREM PresetTaken ==
  ASSUME HostWaits
  PROVE  Spec => []PresetWhole
  <1>1. ClapInv => PresetWhole
    <2> SUFFICES ASSUME ClapInv, Settled PROVE taken = sel
      BY DEF PresetWhole
    <2>1. audio.pc = "midi"
      BY DEF Settled, At
    <2>2. main.pc \notin Storing /\ ~sel_pending
      BY Quieted DEF ClapInv
    <2> QED
      BY <2>1, <2>2 DEF ClapInv, PresetHeld
  <1> QED
    BY <1>1, ClapCorrect, PTL

(* An editor refreshed then shows the patches that were sent (gui_sync,
   xui_tick). *)
THEOREM EditorShows == Spec => ShownIsSent
  <1> DEFINE Shown == (Tick \/ TickWindow) /\ Settled =>
                        \A id \in Picks :
                          LET shown == ListOf(id, gui'.map)
                          IN shown # <<>> => shown[gui'.shown[id]] = sent[id]
  <1>1. BlockInv => Shown
    <2> SUFFICES ASSUME BlockInv, Settled, Tick \/ TickWindow,
                        NEW id \in Picks, ListOf(id, gui'.map) # <<>>
                 PROVE  ListOf(id, gui'.map)[gui'.shown[id]] = sent[id]
      OBVIOUS
    <2>1. gui'.map = list_map /\ gui'.shown[id] = Clamped(id)
      <3>1. gui \in Editor /\ id \in Ids /\ id # "map"
        BY DEF BlockInv, ClapTypes, Picks, Ids
      <3>2. gui' = Synced \/ gui' = XShown
        BY DEF Tick, TickWindow
      <3>3. Synced.map = list_map /\ Synced.shown[id] = Clamped(id)
        BY <3>1 DEF Synced, Editor
      <3>4. XShown.map = list_map /\ XShown.shown[id] = Clamped(id)
        BY <3>1 DEF XShown, Editor
      <3> QED
        BY <3>2, <3>3, <3>4, Zenon
    <2>2. PICK l : l = ListOf(id, list_map)
      OBVIOUS
    <2>3. PICK drum \in BOOLEAN : drum = (id = "drum")
      OBVIOUS
    <2>4. list_map \in Maps /\ want[id] \in Nat \ {0}
      BY DEF BlockInv, ClapTypes, Ids, Picks
    <2>5. /\ PatchAt(l, want[id]) # 0
          /\ PatchAt(l, want[id]) = l[IF want[id] > Len(l) THEN Len(l) ELSE want[id]]
      <3>1. l = List(drum, list_map) /\ l # <<>>
        BY <2>1, <2>2, <2>3 DEF ListOf
      <3> QED
        BY <2>4, <3>1, AtPosition
    <2>6. Chosen(id)
      BY Quieted DEF Picks
    <2> QED
      BY <2>1, <2>2, <2>5, <2>6 DEF Chosen, Clamped
  <1> QED
    BY <1>1, BlockCorrect, PTL DEF ShownIsSent
=============================================================================
