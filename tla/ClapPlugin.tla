----------------------------- MODULE ClapPlugin -----------------------------
(***************************************************************************)
(* scva_clap.c: the CLAP plugin between a host's two threads.  The audio   *)
(* thread runs process(); the main thread activates, loads presets and     *)
(* runs the editor.  They share the wanted parameters, the selection a     *)
(* preset leaves and the flags, with no lock: a step here is one access    *)
(* (or a run of accesses only one thread makes), in the program's order.   *)
(* flush() runs on the audio thread while the plugin is active, else on    *)
(* the main thread, which then does nothing else.                          *)
(* The editor is Windows' own controls or an X window; the host gives a    *)
(* stereo output, and asks for the key names of a kit when told to.        *)
(***************************************************************************)
EXTENDS PluginEngine, ToneLists

CONSTANTS
  ToneCh, DrumCh,   \* SCVA_TONE_CH, SCVA_DRUM_CH
  Builds,           \* an engine with a map per part ("plugin") or none, and
                    \* its editor's window system
  LastSet,          \* SCVA_MAP_88PRO: the last map of an engine without a map
                    \* per part
  Loaded,           \* the patches whose presets a host loads
  HostWaits,        \* a host loads a preset when the last was taken up
  MaxInputs,        \* bound: values, picks, presets, MIDI messages
  MaxLives          \* bound: activations

ASSUME ClapAssumption ==
  /\ Parts = {ToneCh, DrumCh} /\ ToneCh # DrumCh
  /\ Builds \subseteq {"plugin", "none"} \X {"win32", "x11"}
  /\ LastSet \in Maps
  /\ Loaded \subseteq DOMAIN Patches /\ HostWaits \in BOOLEAN
  /\ {MaxInputs, MaxLives} \subseteq Nat

VARIABLES
  want,            \* map_want, inst_want, drum_want
  list_map,        \* whose lists inst and drum are positions in
  sent,            \* inst_sent, drum_sent: patch indices, 0 before any
  sel,             \* sel_map, sel_bank, sel_prog, sel_drum
  sel_pending,
  gui_dirty,       \* ids changed in the editor and not yet reported
  lists_changed,
  kit,             \* kit_map and kit_now: whose key names a host is given
  kit_names_changed,
  gui,             \* the editor: the map listed and the values shown, 0 for none
  audio, main,     \* what each thread is at, with its locals
  told,            \* the parameter values the host knows
  keys,            \* the kit whose key names the host shows
  left,            \* what the environment may still do (bounds)
  \* history
  calm,            \* the main thread stored nothing since this block began
  wired,           \* parts whose patch something else than a parameter chose
  swallowed,       \* ids whose dirty bit was cleared unread
  last,            \* the patch last sent to each part of this engine
  taken,           \* the last preset process() took up
  preset_kit       \* the kit was named by a preset

shared == <<want, list_map, sent, sel, sel_pending, gui_dirty, lists_changed>>
notes == <<kit, kit_names_changed, keys>>
ghosts == <<calm, wired, swallowed, last, taken, preset_kit>>
vars == <<engineVars, shared, notes, gui, audio, main, told, left, ghosts>>

Ids == {"map", "inst", "drum"}
Picks == {"inst", "drum"}
ChOf(id) == IF id = "drum" THEN DrumCh ELSE ToneCh
ListOf(id, m) == List(id = "drum", m)

(* map_max: the maps the Tone Map parameter offers. *)
Offered == {m \in Maps : PerPart \/ m <= LastSet}

(* clamp_step: the values the host may set each parameter to. *)
Values(id) == IF id = "map" THEN Offered ELSE 1..Longest(id = "drum", Maps)

(* The values an editor may: a window without names has a button for every
   map. *)
Pickable(id) == IF id = "map" THEN Maps ELSE Values(id)

Presets == {[map |-> Patches[i].map, bank |-> Patches[i].bank,
             prog |-> Patches[i].prog, drum |-> Patches[i].drum]
              : i \in Loaded}
NoPreset == [map |-> 0, bank |-> 0, prog |-> 0, drum |-> FALSE]

NoValues == [id \in Ids |-> 0]

(* A kit is known by its map and program; calloc names these first. *)
NoKit == [map |-> 0, prog |-> 0]
KitOf(p) == [map |-> p.map, prog |-> p.prog]

At(pc) == audio.pc = pc
Spend(what) == /\ left[what] > 0
               /\ left' = [left EXCEPT ![what] = @ - 1]

(* make_plugin and plug_init. *)
Init ==
  /\ \E build \in Builds :
       /\ EngineInit(build[1])
       /\ gui = [api |-> build[2], open |-> FALSE, map |-> DefaultMap, shown |-> NoValues]
  /\ want = [map |-> DefaultMap,
             inst |-> ResetPosition(ListOf("inst", DefaultMap)),
             drum |-> ResetPosition(ListOf("drum", DefaultMap))]
  /\ told = want
  /\ list_map = DefaultMap
  /\ sent = [id \in Picks |-> 0]
  /\ sel = NoPreset /\ sel_pending = FALSE
  /\ gui_dirty = {} /\ lists_changed = FALSE
  /\ kit = NoKit /\ keys = NoKit /\ kit_names_changed = FALSE
  /\ audio = [pc |-> "idle", flush |-> FALSE, drum |-> FALSE,
              dirty |-> {}, seen |-> {}, map |-> DefaultMap,
              carry |-> [id \in Picks |-> 0]]
  /\ main = [pc |-> "idle", id |-> "map", dirty |-> {}, preset |-> NoPreset]
  /\ left = [inputs |-> MaxInputs, lives |-> MaxLives]
  /\ calm = FALSE /\ wired = {} /\ swallowed = {}
  /\ last = [ch \in Parts |-> 0] /\ taken = NoPreset
  /\ preset_kit = FALSE

-----------------------------------------------------------------------------
(* The audio thread. *)

Goto(pc) == audio' = [audio EXCEPT !.pc = pc]

(* process() starts: only an open engine is processed. *)
Process ==
  /\ At("idle") /\ running
  /\ audio' = [audio EXCEPT !.pc = IF sel_pending THEN "sel_drum" ELSE "params",
                            !.flush = FALSE]
  /\ calm' = (main.pc = "idle")
  /\ UNCHANGED <<engineVars, shared, gui, main, told, notes, left, wired,
                 swallowed, last, taken, preset_kit>>

(* apply_selection reads which part the preset is for, clears the flag, sends
   the patch, and reads the numbers again to bring the parameter along when
   the preset is of the current map. *)
SelectionPart ==
  /\ At("sel_drum")
  /\ audio' = [audio EXCEPT !.pc = "sel_clear", !.drum = sel.drum]
  /\ UNCHANGED <<engineVars, shared, gui, main, told, notes, left, ghosts>>

SelectionClear ==
  /\ At("sel_clear")
  /\ sel_pending' = FALSE
  /\ Goto("sel_patch")
  /\ UNCHANGED <<engineVars, want, list_map, sent, sel, gui_dirty,
                 lists_changed, gui, main, told, notes, left, ghosts>>

(* The patch of those numbers: none, when they are of two presets. *)
IndexOf(p) ==
  LET named == {i \in DOMAIN Patches :
                  /\ Patches[i].map = p.map /\ Patches[i].bank = p.bank
                  /\ Patches[i].prog = p.prog /\ Patches[i].drum = p.drum}
  IN IF named = {} THEN 0 ELSE Min(named)

SelectionPatch ==
  LET ch == IF audio.drum THEN DrumCh ELSE ToneCh
  IN /\ At("sel_patch")
     /\ Patch(ch, sel.map, sel.bank, sel.prog)
     /\ taken' = [sel EXCEPT !.drum = audio.drum]
     /\ last' = [last EXCEPT ![ch] = IndexOf(taken')]
     /\ wired' = wired \cup {ch}
     /\ kit' = IF sel.drum THEN KitOf(sel) ELSE kit
     /\ preset_kit' = (preset_kit \/ sel.drum)
     /\ Goto("sel_agree")
     /\ UNCHANGED <<shared, kit_names_changed, keys, gui, main, told, left,
                    calm, swallowed>>

SelectionAgree ==
  LET list == List(audio.drum, list_map)
      k == Find(list, sel.bank, sel.prog)
      id == IF sel.drum THEN "drum" ELSE "inst"
  IN /\ At("sel_agree")
     /\ IF k # 0 /\ Patches[list[k]].map = sel.map
        THEN /\ want' = [want EXCEPT ![id] = k]
             /\ sent' = [sent EXCEPT ![id] = list[k]]
             /\ told' = [told EXCEPT ![id] = k]
             /\ wired' = wired \ {ChOf(id)}
             /\ swallowed' = swallowed \ {id}
        ELSE UNCHANGED <<want, sent, told, wired, swallowed>>
     /\ Goto("params")
     /\ UNCHANGED <<engineVars, list_map, sel, sel_pending, gui_dirty,
                    lists_changed, gui, main, notes, left, calm, last, taken,
                    preset_kit>>

(* param_event: a value the host sets, which it knows. *)
HostSets(id, v) ==
  /\ Spend("inputs")
  /\ want' = [want EXCEPT ![id] = v]
  /\ told' = [told EXCEPT ![id] = v]
  /\ swallowed' = swallowed \ {id}
  /\ UNCHANGED <<engineVars, list_map, sent, sel, sel_pending, gui_dirty,
                 lists_changed, gui, main, calm, wired, last, taken, notes,
                 preset_kit>>

ParamEvent(id, v) ==
  /\ At("params") /\ ~audio.flush
  /\ HostSets(id, v)
  /\ UNCHANGED audio

ParamsRead ==
  /\ At("params")
  /\ Goto("report")
  /\ UNCHANGED <<engineVars, shared, gui, main, told, notes, left, ghosts>>

(* pr_flush: with a value to set, or asked for by the editor. *)
FlushEvent(id, v) ==
  /\ At("idle")
  /\ running \/ main.pc = "idle"
  /\ HostSets(id, v)
  /\ audio' = [audio EXCEPT !.pc = "report", !.flush = TRUE]

FlushAsked ==
  /\ At("idle")
  /\ running \/ main.pc = "idle"
  /\ gui_dirty # {}
  /\ audio' = [audio EXCEPT !.pc = "params", !.flush = TRUE]
  /\ UNCHANGED <<engineVars, shared, gui, main, told, notes, left, ghosts>>

(* report_gui: d is read; the bits are read again, and stored without those
   of d; and the values of d told.  What the editor sets between the second
   read and the store is cleared with them. *)
ReportRead ==
  /\ At("report")
  /\ audio' = [audio EXCEPT !.pc = IF gui_dirty = {} THEN "lists" ELSE "again",
                            !.dirty = gui_dirty]
  /\ UNCHANGED <<engineVars, shared, gui, main, told, notes, left, ghosts>>

ReportAgain ==
  /\ At("again")
  /\ audio' = [audio EXCEPT !.pc = "clear", !.seen = gui_dirty]
  /\ UNCHANGED <<engineVars, shared, gui, main, told, notes, left, ghosts>>

ReportClear ==
  /\ At("clear")
  /\ gui_dirty' = audio.seen \ audio.dirty
  /\ swallowed' = swallowed \cup (gui_dirty \ audio.seen)
  /\ audio' = [audio EXCEPT !.pc = "push", !.seen = {}]
  /\ UNCHANGED <<engineVars, want, list_map, sent, sel, sel_pending,
                 lists_changed, gui, main, told, notes, left, calm, wired, last,
                 taken, preset_kit>>

ReportPush ==
  /\ At("push")
  /\ told' = [id \in Ids |-> IF id \in audio.dirty THEN want[id] ELSE told[id]]
  /\ swallowed' = swallowed \ audio.dirty
  /\ Goto("lists")
  /\ UNCHANGED <<engineVars, shared, gui, main, notes, left, calm, wired, last,
                 taken, preset_kit>>

(* switch_lists: the current patches are looked up in the old map's lists,
   then the positions moved to the same patches in the new map's. *)
AfterLists == IF audio.flush THEN "idle" ELSE "map"

KeepLists ==
  /\ At("lists") /\ want.map = list_map
  /\ Goto(AfterLists)
  /\ UNCHANGED <<engineVars, shared, gui, main, told, notes, left, ghosts>>

LookUp ==
  /\ At("lists") /\ want.map # list_map
  /\ audio' = [audio EXCEPT
                 !.pc = "carry", !.map = want.map,
                 !.carry = [id \in Picks |->
                              PatchAt(ListOf(id, list_map), want[id])]]
  /\ UNCHANGED <<engineVars, shared, gui, main, told, notes, left, ghosts>>

Carried(id) ==
  IF id = "map" \/ audio.carry[id] = 0 THEN want[id]
  ELSE Carry(ListOf(id, audio.map), audio.carry[id])

(* Mutant of CarryOver: the host is not told of the new positions. *)
CarryOverUntold ==
  /\ At("carry")
  /\ want' = [id \in Ids |-> Carried(id)]
  /\ list_map' = audio.map
  /\ lists_changed' = TRUE
  /\ Goto(AfterLists)
  /\ UNCHANGED <<engineVars, sent, sel, sel_pending, gui_dirty, gui, main, told,
                 notes, left, ghosts>>

CarryOver ==
  /\ At("carry")
  /\ want' = [id \in Ids |-> Carried(id)]
  /\ told' = [id \in Ids |-> IF id \in Picks THEN Carried(id) ELSE told[id]]
  /\ swallowed' = swallowed \ Picks
  /\ list_map' = audio.map
  /\ lists_changed' = TRUE
  /\ Goto(AfterLists)
  /\ UNCHANGED <<engineVars, sent, sel, sel_pending, gui_dirty, gui, main,
                 notes, left, calm, wired, last, taken, preset_kit>>

(* scva_engine_set_map with the map wanted by now.  A reopened engine plays
   its reset patches. *)
ApplyMap ==
  /\ At("map")
  /\ \/ /\ \/ SetMapOnParts(want.map)
           \/ SetMapKept(want.map)
           \/ ReopenFails(want.map)
        /\ UNCHANGED <<wired, last>>
     \/ /\ Reopen(want.map)
        /\ wired' = Parts
        /\ last' = [ch \in Parts |-> 0]
  /\ Goto("inst")
  /\ UNCHANGED <<shared, gui, main, told, notes, left, calm, swallowed, taken,
                 preset_kit>>

(* Mutant of SendChoice: the patch is sent again whenever its position
   changes, so not for the same position in another list. *)
SendChoiceByPosition(id) ==
  LET i == PatchAt(ListOf(id, list_map), want[id])
  IN /\ At(id)
     /\ IF i # 0 /\ (sent[id] = 0 \/ Patches[i].prog # Patches[sent[id]].prog)
        THEN /\ Patch(ChOf(id), Patches[i].map, Patches[i].bank, Patches[i].prog)
             /\ sent' = [sent EXCEPT ![id] = i]
             /\ last' = [last EXCEPT ![ChOf(id)] = i]
             /\ wired' = wired \ {ChOf(id)}
             /\ kit' = IF id = "drum" THEN KitOf(Patches[i]) ELSE kit
             /\ preset_kit' = (preset_kit /\ id # "drum")
             /\ Goto(IF id = "inst" THEN "drum" ELSE "names")
        ELSE /\ UNCHANGED <<engineVars, sent, last, wired, kit, preset_kit>>
             /\ Goto(IF id = "inst" THEN "drum" ELSE "midi")
     /\ UNCHANGED <<want, list_map, sel, sel_pending, gui_dirty, lists_changed,
                    kit_names_changed, keys, gui, main, told, left, calm,
                    swallowed, taken>>

(* send_choices, for one of the two: the patch the parameter resolves to,
   when it is another than the last. *)
SendChoice(id) ==
  LET i == PatchAt(ListOf(id, list_map), want[id])
  IN /\ At(id)
     /\ IF i \notin {0, sent[id]}
        THEN /\ Patch(ChOf(id), Patches[i].map, Patches[i].bank, Patches[i].prog)
             /\ sent' = [sent EXCEPT ![id] = i]
             /\ last' = [last EXCEPT ![ChOf(id)] = i]
             /\ wired' = wired \ {ChOf(id)}
             /\ kit' = IF id = "drum" THEN KitOf(Patches[i]) ELSE kit
             /\ preset_kit' = (preset_kit /\ id # "drum")
             /\ Goto(IF id = "inst" THEN "drum" ELSE "names")
        ELSE /\ UNCHANGED <<engineVars, sent, last, wired, kit, preset_kit>>
             /\ Goto(IF id = "inst" THEN "drum" ELSE "midi")
     /\ UNCHANGED <<want, list_map, sel, sel_pending, gui_dirty, lists_changed,
                    kit_names_changed, keys, gui, main, told, left, calm,
                    swallowed, taken>>

(* The main thread is to say that the keys' names changed. *)
NamesChanged ==
  /\ At("names")
  /\ kit_names_changed' = TRUE
  /\ Goto("midi")
  /\ UNCHANGED <<engineVars, shared, kit, keys, gui, main, told, left, ghosts>>

(* The block's own MIDI, then its end. *)
Midi ==
  /\ At("midi")
  /\ Spend("inputs")
  /\ \/ \E ch \in Parts : /\ \/ \E p \in Programs : MidiProgram(ch, p)
                             \/ \E b \in Banks : MidiBank(ch, b)
                          /\ wired' = wired \cup {ch}
     \/ MidiReset /\ wired' = Parts
  /\ UNCHANGED <<shared, notes, gui, audio, main, told, calm, swallowed, last,
                 taken, preset_kit>>

ProcessEnds ==
  /\ At("midi")
  /\ Goto("idle")
  /\ UNCHANGED <<engineVars, shared, gui, main, told, notes, left, ghosts>>

Audio ==
  \/ Process \/ SelectionPart \/ SelectionClear \/ SelectionPatch
  \/ SelectionAgree
  \/ \E id \in Ids : \E v \in Values(id) : ParamEvent(id, v) \/ FlushEvent(id, v)
  \/ ParamsRead \/ FlushAsked
  \/ ReportRead \/ ReportAgain \/ ReportClear \/ ReportPush
  \/ KeepLists \/ LookUp \/ CarryOver \/ ApplyMap
  \/ \E id \in Picks : SendChoice(id)
  \/ NamesChanged \/ Midi \/ ProcessEnds

-----------------------------------------------------------------------------
(* The main thread. *)

MainIs(pc) == main.pc = pc /\ (running \/ At("idle") \/ ~audio.flush)

Stores == calm' = FALSE

(* plug_activate and plug_deactivate, between blocks. *)
Activate ==
  /\ MainIs("idle") /\ At("idle")
  /\ Spend("lives")
  /\ OpenEngine
  /\ sent' = [id \in Picks |-> 0]
  /\ wired' = Parts
  /\ last' = [ch \in Parts |-> 0]
  /\ UNCHANGED <<want, list_map, sel, sel_pending, gui_dirty, lists_changed,
                 gui, audio, main, told, calm, swallowed, taken, notes,
                 preset_kit>>

Deactivate ==
  /\ MainIs("idle") /\ At("idle")
  /\ CloseEngine
  /\ UNCHANGED <<shared, gui, audio, main, told, notes, left, ghosts>>

(* preset_from_location: four stores, then the flag. *)
LoadPreset(p) ==
  /\ MainIs("idle")
  /\ Spend("inputs")
  /\ HostWaits => ~sel_pending /\ audio.pc \notin {"sel_drum", "sel_clear",
                                                  "sel_patch", "sel_agree"}
  /\ main' = [main EXCEPT !.pc = "map", !.preset = p]
  /\ UNCHANGED <<engineVars, shared, notes, gui, audio, told, ghosts>>

AfterField == [map |-> "bank", bank |-> "prog", prog |-> "drum", drum |-> "flag"]

(* Mutant of StorePreset: the flag is raised before the program is stored. *)
StorePresetFlagEarly(f) ==
  /\ MainIs(f)
  /\ sel' = [sel EXCEPT ![f] = main.preset[f]]
  /\ sel_pending' = (sel_pending \/ f = "bank")
  /\ main' = [main EXCEPT !.pc = AfterField[f]]
  /\ Stores
  /\ UNCHANGED <<engineVars, want, list_map, sent, gui_dirty, lists_changed,
                 gui, audio, told, notes, left, wired, swallowed, last, taken,
                 preset_kit>>

StorePreset(f) ==
  /\ MainIs(f)
  /\ sel' = [sel EXCEPT ![f] = main.preset[f]]
  /\ main' = [main EXCEPT !.pc = AfterField[f]]
  /\ Stores
  /\ UNCHANGED <<engineVars, want, list_map, sent, sel_pending, gui_dirty,
                 lists_changed, gui, audio, told, notes, left, wired, swallowed,
                 last, taken, preset_kit>>

(* The flag; a kit's preset has the host ask for the key names at once. *)
RaiseFlag ==
  /\ MainIs("flag")
  /\ sel_pending' = TRUE
  /\ main' = [main EXCEPT !.pc = IF main.preset.drum THEN "keys" ELSE "idle"]
  /\ Stores
  /\ UNCHANGED <<engineVars, want, list_map, sent, sel, gui_dirty,
                 lists_changed, gui, audio, told, notes, left, wired, swallowed,
                 last, taken, preset_kit>>

(* editor_set: the value picked, then its dirty bit. *)
EditorSet(id, v) ==
  /\ Spend("inputs")
  /\ want' = [want EXCEPT ![id] = v]
  /\ main' = [main EXCEPT !.pc = "dirty_read", !.id = id]
  /\ Stores
  /\ UNCHANGED <<engineVars, list_map, sent, sel, sel_pending, gui_dirty,
                 lists_changed, notes, audio, told, wired, swallowed, last,
                 taken, preset_kit>>

(* gui_changed: a pick among what Windows' controls show. *)
Shows(id, m) == IF id = "map" THEN Offered ELSE DOMAIN ListOf(id, m)

Pick(id, v) ==
  /\ MainIs("idle") /\ gui.open /\ gui.api = "win32"
  /\ v \in Shows(id, gui.map)
  /\ gui' = [gui EXCEPT !.shown[id] = v]
  /\ EditorSet(id, v)

(* xui_map, xui_tone and xui_kit: a button of another map, which stays up
   until the map is listed, or a row of another entry. *)
Press(id, v) ==
  /\ MainIs("idle") /\ gui.open /\ gui.api = "x11"
  /\ v # gui.shown[id]
  /\ v \in IF id = "map" THEN Buttons ELSE Shows(id, gui.map)
  /\ gui' = IF id = "map" THEN gui ELSE [gui EXCEPT !.shown[id] = v]
  /\ EditorSet(id, v)

DirtyRead ==
  /\ MainIs("dirty_read")
  /\ main' = [main EXCEPT !.pc = "dirty_write", !.dirty = gui_dirty]
  /\ UNCHANGED <<engineVars, shared, gui, audio, told, notes, left, ghosts>>

DirtyWrite ==
  /\ MainIs("dirty_write")
  /\ gui_dirty' = main.dirty \cup {main.id}
  /\ main' = [main EXCEPT !.pc = "idle", !.dirty = {}]
  /\ Stores
  /\ UNCHANGED <<engineVars, want, list_map, sent, sel, sel_pending,
                 lists_changed, gui, audio, told, notes, left, wired, swallowed,
                 last, taken, preset_kit>>

(* gui_sync: the lists are filled again when the map has changed, then each
   control shows the value wanted, past the list's end its last entry. *)
Clamped(id) ==
  LET n == Len(ListOf(id, list_map)) IN IF want[id] > n THEN n ELSE want[id]

(* Mutant of Synced: the lists stay those of the map the editor opened on. *)
SyncedOnce ==
  [gui EXCEPT !.open = TRUE, !.shown = [id \in Ids |-> IF id = "map" THEN want.map
                                                                     ELSE Clamped(id)]]

Synced ==
  [gui EXCEPT !.open = TRUE, !.map = list_map,
              !.shown = [id \in Ids |-> IF id = "map" THEN want.map ELSE Clamped(id)]]

OnlyEditor == UNCHANGED <<engineVars, shared, notes, audio, main, told, left,
                          ghosts>>

(* gui_set_parent, the timer, gui_destroy. *)
OpenEditor ==
  /\ MainIs("idle") /\ ~gui.open /\ gui.api = "win32"
  /\ gui' = Synced
  /\ OnlyEditor

Tick ==
  /\ MainIs("idle") /\ gui.open /\ gui.api = "win32"
  /\ gui' = Synced
  /\ OnlyEditor

Closed == [gui EXCEPT !.open = FALSE, !.map = DefaultMap, !.shown = NoValues]

CloseEditor ==
  /\ MainIs("idle") /\ gui.open /\ gui.api = "win32"
  /\ gui' = Closed
  /\ OnlyEditor

(* The same of the X window, which is shown the map listed, not the one
   wanted (gui_set_parent, xui_tick, gui_destroy). *)
XShown ==
  [gui EXCEPT !.open = TRUE, !.map = list_map,
              !.shown = [id \in Ids |-> IF id = "map" THEN list_map ELSE Clamped(id)]]

OpenWindow ==
  /\ MainIs("idle") /\ ~gui.open /\ gui.api = "x11"
  /\ gui' = XShown
  /\ OnlyEditor

TickWindow ==
  /\ MainIs("idle") /\ gui.open /\ gui.api = "x11"
  /\ gui' = XShown
  /\ OnlyEditor

CloseWindow ==
  /\ MainIs("idle") /\ gui.open /\ gui.api = "x11"
  /\ gui' = Closed
  /\ OnlyEditor

(* plug_on_main_thread, called when either flag asked for it: the host is told
   that every value reads anew, and reads them; then that the key names
   changed. *)
OnMainThread ==
  /\ MainIs("idle")
  /\ lists_changed \/ kit_names_changed
  /\ lists_changed' = FALSE
  /\ told' = IF lists_changed THEN want ELSE told
  /\ swallowed' = IF lists_changed THEN {} ELSE swallowed
  /\ main' = [main EXCEPT !.pc = "names"]
  /\ UNCHANGED <<engineVars, want, list_map, sent, sel, sel_pending, gui_dirty,
                 notes, gui, audio, left, calm, wired, last, taken, preset_kit>>

AnnounceNames ==
  /\ MainIs("names")
  /\ kit_names_changed' = FALSE
  /\ main' = [main EXCEPT !.pc = IF kit_names_changed THEN "keys" ELSE "idle"]
  /\ UNCHANGED <<engineVars, shared, kit, keys, gui, audio, told, left, ghosts>>

(* kit_names_changed(): the host asks for the names of the keys, nn_get. *)
ReadKeys ==
  /\ MainIs("keys")
  /\ keys' = kit
  /\ main' = [main EXCEPT !.pc = "idle"]
  /\ UNCHANGED <<engineVars, shared, kit, kit_names_changed, gui, audio, told,
                 left, ghosts>>

Main ==
  \/ Activate \/ Deactivate
  \/ \E p \in Presets : LoadPreset(p)
  \/ \E f \in {"map", "bank", "prog", "drum"} : StorePreset(f)
  \/ RaiseFlag
  \/ \E id \in Ids : \E v \in Pickable(id) : Pick(id, v) \/ Press(id, v)
  \/ DirtyRead \/ DirtyWrite
  \/ OpenEditor \/ Tick \/ CloseEditor
  \/ OpenWindow \/ TickWindow \/ CloseWindow
  \/ OnMainThread \/ AnnounceNames \/ ReadKeys

Next == Audio \/ Main

Spec == Init /\ [][Next]_vars

-----------------------------------------------------------------------------

AudioSteps == {"idle", "sel_drum", "sel_clear", "sel_patch", "sel_agree",
               "params", "report", "again", "clear", "push", "lists", "carry",
               "map", "inst", "drum", "names", "midi"}

TypeOK ==
  /\ EngineTypeOK
  /\ \A id \in Ids : want[id] \in Pickable(id) /\ told[id] \in Pickable(id)
  /\ list_map \in Maps
  /\ sent \in [Picks -> {0} \cup DOMAIN Patches]
  /\ sel \in [map : Maps, bank : Banks, prog : Programs, drum : BOOLEAN]
  /\ gui_dirty \subseteq Ids /\ swallowed \subseteq Ids
  /\ {sel_pending, lists_changed, calm, gui.open, audio.flush} \subseteq BOOLEAN
  /\ audio.pc \in AudioSteps
  /\ main.pc \in {"idle", "map", "bank", "prog", "drum", "flag", "dirty_read",
                  "dirty_write", "names", "keys"}
  /\ \A id \in Picks : gui.shown[id] \in 0..Longest(id = "drum", Maps)
  /\ wired \subseteq Parts
  /\ {kit, keys} \subseteq [map : Maps, prog : Programs]
  /\ kit_names_changed \in BOOLEAN

(* The end of the choices of a block during which the main thread changed
   nothing. *)
Settled == At("midi") /\ calm

Plays(ch, i) ==
  /\ part[ch].sound.bank = Patches[i].bank
  /\ part[ch].sound.prog = Patches[i].prog
  /\ PerPart => Source(part[ch].sound.map) = Patches[i].map

(* However the threads interleaved before, one undisturbed block brings all
   in agreement: the lists are the wanted map's, each choice resolves to the
   patch last sent for it, and its part plays that patch, unless MIDI or a
   preset of another map has chosen since ("The Instrument and Drum Kit
   parameters are positions in list_map's lists, which follow the Tone
   Map"). *)
Settles ==
  Settled =>
    /\ list_map = want.map
    /\ PerPart => HasSet(want.map)
    /\ \A id \in Picks :
         LET i == PatchAt(ListOf(id, list_map), want[id])
         IN i # 0 => /\ sent[id] = i
                     /\ ChOf(id) \notin wired => Plays(ChOf(id), i)

(* By the end of such a block the host knows every value, but for a change
   whose dirty bit report_gui cleared without having read it ("the plugin's
   own change, which the host has to be told about like any other"); and it
   shows the key names of the kit a parameter chose, or is yet to be told
   ("The keys of whichever kit the drum part is holding").  Of a preset's kit
   it is told too early, while the kit is still the old one. *)
KeysTold ==
  \/ keys = kit
  \/ kit_names_changed \/ main.pc = "keys"
  \/ preset_kit

HostTold ==
  Settled => KeysTold /\ \A id \in Ids \ swallowed : told[id] = want[id]

(* An editor refreshed then shows the patches that were sent ("a position
   past a shorter list shows its last entry, which is what plays"). *)
ShownIsSent ==
  [][(Tick \/ TickWindow) /\ Settled =>
       \A id \in Picks :
         LET shown == ListOf(id, gui'.map)
         IN shown # <<>> => shown[gui'.shown[id]] = sent[id]]_vars

(* Such a block has taken up the last preset the host loaded, all of it and on
   its own part ("it is latched and applied at the top of the next
   process()"). *)
PresetWhole == Settled /\ sel # NoPreset => taken = sel

=============================================================================
