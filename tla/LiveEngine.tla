----------------------------- MODULE LiveEngine -----------------------------
(***************************************************************************)
(* live_engine.c and console.c, with the way scva_daemon.c and             *)
(* scva_winmidi.c dispatch a MIDI message: the engine a live tool plays,   *)
(* its tone maps, and the console that changes them.  Both tools do all of *)
(* this on one thread, so a typed line and a message never overlap.        *)
(*                                                                         *)
(* An engine either has a tone map per part or one tone set for all of     *)
(* them, which a map at the console switches by opening a new engine.  The *)
(* command line says which backend is played: per_part is chosen once.     *)
(***************************************************************************)
EXTENDS MapPolicy

CONSTANTS
  Sets,         \* the tone sets an engine without per-part maps can open
  SetOf,        \* the set each map names; a map outside its domain is refused
  FirstPart     \* the part set_all reads the current map from

ASSUME LiveAssumption ==
  /\ FirstPart \in Parts
  /\ DOMAIN SetOf \subseteq Maps
  /\ Default \in DOMAIN SetOf
  /\ \A map \in DOMAIN SetOf : SetOf[map] \in Sets

VARIABLES
  per_part,  \* caps->tone_map_per_part of the backend played
  phase,     \* "starting", "playing", "refused" or "stopped"
  option,    \* the tone set in the backend's options
  toneset    \* the tone set of the engine that is open

engineVars == <<per_part, option, toneset>>
vars == <<policyVars, part, phase, engineVars>>

(* live_engine_open clears the struct first; the options hold a set of their
   own, the default one or the one --set named. *)
Init ==
  /\ PolicyInit("render", Default)
  /\ part = PowerOn
  /\ phase = "starting"
  /\ per_part \in BOOLEAN
  /\ option \in Sets
  /\ toneset = option

(* The policy after map_policy_init. *)
NewPolicy(m, map) ==
  /\ mode' = m
  /\ set' = FALSE
  /\ map_of' = [ch \in Parts |-> map]
  /\ last_pc' = [ch \in Parts |-> FirstProgram]

(* Whether a map at start-up names a set: only for an engine with one, and
   the Default map leaves the options as they are. *)
NamesSet(map) == ~per_part /\ map # Default

(* live_engine_open.  The name is given to the backend as typed, so of the
   spellings the console takes (literal or not) it knows one. *)
Open(map, literal) ==
  /\ phase = "starting"
  /\ NamesSet(map) => literal /\ map \in DOMAIN SetOf
  /\ option' = IF NamesSet(map) THEN SetOf[map] ELSE option
  /\ toneset' = option'
  /\ part' = PowerOn
  /\ NewPolicy(IF per_part THEN "live" ELSE "none", map)
  /\ phase' = "playing"
  /\ UNCHANGED per_part

(* A rate the engine lacks, a map it has no set for, or a core that will not
   load ends the tool before the policy exists. *)
OpenFails ==
  /\ phase = "starting"
  /\ phase' = "refused"
  /\ UNCHANGED <<policyVars, part, engineVars>>

-----------------------------------------------------------------------------
(* MIDI from the wire. *)

WireProgram(ch, p) ==
  /\ phase = "playing"
  /\ PolicyProgramChange(ch, p)
  /\ UNCHANGED <<phase, engineVars>>

WireBankLSB(ch, v) ==
  /\ phase = "playing"
  /\ PolicyBankLSB(ch, v)
  /\ UNCHANGED <<phase, engineVars>>

WireBankMSB(ch, b) ==
  /\ phase = "playing"
  /\ PolicyBankMSB(ch, b)
  /\ UNCHANGED <<phase, engineVars>>

WireSysexReset ==
  /\ phase = "playing"
  /\ WireReset
  /\ UNCHANGED <<phase, engineVars>>

-----------------------------------------------------------------------------
(* The console. *)

(* "<channel> <map>", refused by an engine with one set. *)
ConsolePart(ch, map) ==
  /\ phase = "playing"
  /\ per_part
  /\ PolicySet({ch}, map)
  /\ UNCHANGED <<phase, engineVars>>

(* "<map>" on an engine with a map per part. *)
ConsoleAll(map) ==
  /\ phase = "playing"
  /\ per_part
  /\ PolicySet(Parts, map)
  /\ UNCHANGED <<phase, engineVars>>

(* "<map>" on an engine with one set: set_all opens a new engine and resets
   it and the policy, and the console then records the map. *)
SetAllOpens(map) ==
  /\ phase = "playing" /\ ~per_part
  /\ map \in DOMAIN SetOf
  /\ option' = SetOf[map]
  /\ toneset' = SetOf[map]
  /\ part' = PowerOn
  /\ mode' = "none"
  /\ set' = TRUE
  /\ map_of' = [ch \in Parts |-> map]
  /\ last_pc' = [ch \in Parts |-> FirstProgram]
  /\ UNCHANGED <<per_part, phase>>

(* Mutants of SetAllFails: the option keeps the set that did not open; the
   console records the map whatever set_all returned. *)
SetAllFailsOptionKept(map) ==
  /\ phase = "playing" /\ ~per_part
  /\ map \in DOMAIN SetOf
  /\ option' = SetOf[map]
  /\ UNCHANGED <<policyVars, part, phase, per_part, toneset>>

SetAllFailsRecorded(map) ==
  /\ phase = "playing" /\ ~per_part
  /\ map \in DOMAIN SetOf
  /\ option' = SetOf[map_of[FirstPart]]
  /\ map_of' = [ch \in Parts |-> map]
  /\ UNCHANGED <<mode, set, last_pc, part, phase, per_part, toneset>>

(* The same, when the new engine will not open: the option is put back to
   the map the first part was on, and the engine playing stays. *)
SetAllFails(map) ==
  /\ phase = "playing" /\ ~per_part
  /\ map \in DOMAIN SetOf
  /\ option' = SetOf[map_of[FirstPart]]
  /\ UNCHANGED <<policyVars, part, phase, per_part, toneset>>

(* "q", or a signal. *)
Quit ==
  /\ phase = "playing"
  /\ phase' = "stopped"
  /\ UNCHANGED <<policyVars, part, engineVars>>

Wire ==
  \/ \E ch \in Parts, p \in Programs : WireProgram(ch, p)
  \/ \E ch \in Parts, v \in Maps : WireBankLSB(ch, v)
  \/ \E ch \in Parts, b \in Banks : WireBankMSB(ch, b)
  \/ WireSysexReset

Console ==
  \/ \E ch \in Parts, map \in Maps : ConsolePart(ch, map)
  \/ \E map \in Maps : ConsoleAll(map)
  \/ \E map \in Maps : SetAllOpens(map)
  \/ \E map \in Maps : SetAllFails(map)
  \/ Quit

Next ==
  \/ \E map \in Maps, literal \in BOOLEAN : Open(map, literal)
  \/ OpenFails
  \/ Wire
  \/ Console

Spec == Init /\ [][Next]_vars

-----------------------------------------------------------------------------

Phases == {"starting", "playing", "refused", "stopped"}

TypeOK ==
  /\ PolicyTypeOK
  /\ per_part \in BOOLEAN
  /\ phase \in Phases
  /\ option \in Sets
  /\ toneset \in Sets

(* A tool that has opened its engine drives the policy in the engine's mode:
   the guards on the mode agree with caps->tone_map_per_part. *)
Begun == phase \in {"playing", "stopped"}

ModeFitsEngine == Begun => mode = IF per_part THEN "live" ELSE "none"

(* What each part plays, as PartMaps sees it. *)
Plays == [ch \in Parts |-> [map |-> part[ch].sound.map,
                            prog |-> part[ch].sound.prog]]

(* With a map per part: the latches, the injected controllers and the wire's
   own Bank Selects amount to PartMaps, in which none of them exist.  The
   maps of the console are the only ones a part is ever heard on.  An engine
   with one set makes no such promise: PartMaps never begins for it. *)
IfPerPart(now, never) == IF per_part THEN now ELSE [ch \in Parts |-> never]

Promise == INSTANCE PartMaps WITH
  begun <- per_part /\ Begun,
  chosen <- IfPerPart(map_of, Default),
  last <- IfPerPart(last_pc, FirstProgram),
  plays <- IfPerPart(Plays, [map |-> Default, prog |-> FirstProgram])

ImplementsPartMaps == Promise!Spec

(* With one set: through switches that work and switches that fail, the map
   the console shows names the set that plays, once a map has named one. *)
MapNamed == Begun /\ ~per_part /\ (set \/ map_of[FirstPart] # Default)

ShownSetPlays ==
  MapNamed => \A ch \in Parts : /\ map_of[ch] \in DOMAIN SetOf
                                /\ toneset = SetOf[map_of[ch]]

(* A set that would not open leaves nothing behind: the options still name
   the set that plays, so the next switch starts from it. *)
OptionIsOpenSet == MapNamed => option = toneset

=============================================================================
