---------------------------- MODULE PluginEngine ----------------------------
(***************************************************************************)
(* scva_engine.c: the engine as the plugins drive it.  An engine with a    *)
(* map per part puts its parts on one through the tone map policy; an      *)
(* engine with one tone set for every part is closed, opened on another    *)
(* set and reset.  The operations are actions over the policy's fields,    *)
(* the engine's parts and the set that plays; a front end composes them.   *)
(***************************************************************************)
EXTENDS MapPolicy

VARIABLE running   \* an engine is open

engineVars == <<policyVars, part, running>>

PerPart == mode = "plugin"

EngineTypeOK == PolicyTypeOK /\ running \in BOOLEAN

EngineInit(kind) ==
  /\ PolicyInit(kind, Default)
  /\ part = PowerOn
  /\ running = FALSE

(* start(): a new engine, reset, with a new policy that has set nothing. *)
Start(map) ==
  /\ running' = TRUE
  /\ set' = FALSE
  /\ map_of' = [ch \in Parts |-> map]
  /\ last_pc' = [ch \in Parts |-> FirstProgram]
  /\ part' = PowerOn
  /\ UNCHANGED mode

(* scva_engine_open and scva_engine_close. *)
OpenEngine == ~running /\ Start(Default)

CloseEngine ==
  /\ running
  /\ running' = FALSE
  /\ UNCHANGED <<policyVars, part>>

(* scva_engine_set_map with a map per part. *)
SetMapOnParts(map) ==
  /\ PerPart
  /\ \/ PolicySet(Parts, map)
     \/ PolicySetAgain(Parts, map) /\ UNCHANGED <<policyVars, part>>
  /\ UNCHANGED running

HasSet(map) == \A ch \in Parts : map_of[ch] = map

(* scva_engine_set_map with one tone set: the engine is reopened on the
   map's.  If it will not open, the set playing stays, with its policy. *)
SetMapKept(map) == ~PerPart /\ HasSet(map) /\ UNCHANGED engineVars

Reopen(map) == ~PerPart /\ ~HasSet(map) /\ Start(map)

ReopenFails(map) == ~PerPart /\ ~HasSet(map) /\ UNCHANGED engineVars

(* scva_engine_patch: the bank pair, then the program that applies it, around
   the policy, which is told of the program. *)
Patch(ch, map, bank, prog) ==
  /\ LET on(pt) == IF PerPart THEN LatchMap(pt, map) ELSE pt
     IN part' = [part EXCEPT ![ch] =
                   SelectProgram(LatchBank(on(@), bank), prog)]
  /\ PolicyProgram(ch, prog)
  /\ UNCHANGED <<mode, set, map_of, running>>

(* scva_engine_midi: short messages through the policy, SysEx around it. *)
MidiProgram(ch, prog) == PolicyProgramChange(ch, prog) /\ UNCHANGED running
MidiBank(ch, bank) == PolicyBankMSB(ch, bank) /\ UNCHANGED running
MidiReset == WireReset /\ UNCHANGED running
=============================================================================
