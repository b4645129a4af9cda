----------------------------- MODULE PolicyModes -----------------------------
(***************************************************************************)
(* The tone map policy as each kind of tool drives it: a renderer fixes    *)
(* one map, a live tool sets maps per part, a plugin host sets one for     *)
(* every part and sends patches around the policy, and an engine without   *)
(* tone maps is replaced by another.  Beside the engine the policy feeds   *)
(* runs a second one, fed the tool's input directly, to say what the       *)
(* policy must leave alone.                                                *)
(***************************************************************************)
EXTENDS MapPolicy

VARIABLES
  direct,   \* the parts of an engine fed without the policy
  heard     \* parts whose program went through the policy since they were
            \* last reset or sent a patch around it (history)

modesVars == <<policyVars, part, direct, heard>>

(* A plugin opens its engine on the Default map, the other tools on the map
   they are given.  Each has reset its engine by then, and a renderer has
   sent its map to every part. *)
ModesInit ==
  /\ \E m \in Modes, map \in Maps :
       /\ m = "plugin" => map = Default
       /\ PolicyInit(m, map)
       /\ part = IF m = "render"
                 THEN [ch \in Parts |-> LatchMap(PowerOnPart, map)]
                 ELSE PowerOn
  /\ direct = PowerOn
  /\ heard = {}

ProgramChange(ch, p) ==
  /\ PolicyProgramChange(ch, p)
  /\ direct' = [direct EXCEPT ![ch] = SelectProgram(@, p)]
  /\ heard' = heard \cup {ch}

BankLSB(ch, v) ==
  /\ PolicyBankLSB(ch, v)
  /\ direct' = [direct EXCEPT ![ch] = LatchMap(@, v)]
  /\ UNCHANGED heard

BankMSB(ch, b) ==
  /\ PolicyBankMSB(ch, b)
  /\ direct' = [direct EXCEPT ![ch] = LatchBank(@, b)]
  /\ UNCHANGED heard

Reset ==
  /\ WireReset
  /\ direct' = PowerOn
  /\ heard' = {}

(* A map chosen for one part: only the live console does that. *)
SetPart(ch, map) ==
  /\ mode = "live"
  /\ PolicySet({ch}, map)
  /\ heard' = heard \cup {ch}
  /\ UNCHANGED direct

(* A map chosen for every part.  A renderer never changes its map. *)
SetAll(map) ==
  /\ mode \in {"live", "plugin"}
  /\ PolicySet(Parts, map)
  /\ heard' = Parts
  /\ UNCHANGED direct

(* Another map for an engine without tone maps is another engine, reset, with
   a policy of its own; the console then records the map, a plugin does not. *)
Reopen(map) ==
  /\ mode = "none"
  /\ set' \in BOOLEAN
  /\ map_of' = [ch \in Parts |-> map]
  /\ last_pc' = [ch \in Parts |-> FirstProgram]
  /\ part' = PowerOn
  /\ direct' = PowerOn
  /\ heard' = {}
  /\ UNCHANGED mode

(* scva_engine_patch: a patch the host picked, sent to the engine around the
   policy.  An engine without maps is sent no CC32. *)
Patch(ch, map, bank, p) ==
  /\ mode \in {"plugin", "none"}
  /\ LET on(pt) == IF mode = "plugin" THEN LatchMap(pt, map) ELSE pt
         patched(pt) == SelectProgram(LatchBank(on(pt), bank), p)
     IN /\ part' = [part EXCEPT ![ch] = patched(@)]
        /\ direct' = [direct EXCEPT ![ch] = patched(@)]
  /\ PolicyProgram(ch, p)
  /\ heard' = heard \ {ch}
  /\ UNCHANGED <<mode, set, map_of>>

ModesNext ==
  \/ \E ch \in Parts, p \in Programs : ProgramChange(ch, p)
  \/ \E ch \in Parts, v \in Maps : BankLSB(ch, v)
  \/ \E ch \in Parts, b \in Banks : BankMSB(ch, b)
  \/ Reset
  \/ \E ch \in Parts, map \in Maps : SetPart(ch, map)
  \/ \E map \in Maps : SetAll(map)
  \/ \E map \in Maps : Reopen(map)
  \/ \E ch \in Parts, map \in Maps, b \in Banks, p \in Programs :
       Patch(ch, map, b, p)

ModesSpec == ModesInit /\ [][ModesNext]_modesVars

-----------------------------------------------------------------------------

ModesTypeOK ==
  /\ PolicyTypeOK
  /\ direct \in [Parts -> Part]
  /\ heard \in SUBSET Parts

(* The parts whose traffic the policy promises not to touch: a file rendered
   on the Default map, a plugin whose host set no map, an engine without
   tone maps. *)
LeftAlone(ch) ==
  \/ mode = "none"
  \/ mode = "render" /\ map_of[ch] = Default
  \/ mode = "plugin" /\ ~set

(* Whatever was sent, resets and patches included, a part that is to be left
   alone is in the state the same messages would have brought it to without
   the policy (map_policy.h, the comment on the modes). *)
Transparent == \A ch \in Parts : LeftAlone(ch) => part[ch] = direct[ch]

(* The parts whose map is the tool's to choose. *)
Chosen(ch) ==
  \/ mode = "live"
  \/ mode = "render" /\ map_of[ch] # Default
  \/ mode = "plugin" /\ set /\ map_of[ch] # Default

(* No sequence of wire CC32s, program changes, resets and map changes moves
   a part off the map chosen for it, from the first program it is sent:
   "the CC32 a file sends as ordinary Bank Select LSB cannot override it". *)
ChosenMapHolds ==
  \A ch \in heard : Chosen(ch) => part[ch].sound.map = map_of[ch]

(* A part plays the program the policy remembers for it, so a map change
   that re-sends it changes the map alone. *)
ProgramRemembered ==
  \A ch \in heard : part[ch].sound.prog = last_pc[ch]

(* A map change is heard at once, on the program the part was last sent
   ("re-sends each such part's last program so the map is heard now"). *)
SetIsHeard ==
  [][\A ch \in Parts :
       map_of'[ch] # map_of[ch] /\ mode # "none" =>
         /\ part'[ch].sound.map = map_of'[ch]
         /\ part'[ch].sound.prog = last_pc[ch]]_modesVars

=============================================================================
