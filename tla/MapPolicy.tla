------------------------------ MODULE MapPolicy ------------------------------
(***************************************************************************)
(* map_policy.c: which tone map each part plays from.  Every short message *)
(* passes through the policy, which puts the part's CC32 in front of its   *)
(* program changes and re-sends a part's last program when its map is      *)
(* changed.  The operations are actions over the policy's own fields and   *)
(* over the engine's parts, which each message reaches at once (the sink   *)
(* is a direct call).  The tools that use the policy compose them.         *)
(***************************************************************************)
EXTENDS ToneEngine

VARIABLES
  mode,      \* the way the tool uses a map
  set,       \* a map has been set
  map_of,    \* the map of each part
  last_pc,   \* the last program each part was sent
  part       \* the engine's parts (external)

policyVars == <<mode, set, map_of, last_pc>>

Modes == {"render", "live", "plugin", "none"}

PolicyTypeOK ==
  /\ mode \in Modes
  /\ set \in BOOLEAN
  /\ map_of \in [Parts -> Maps]
  /\ last_pc \in [Parts -> Programs]
  /\ part \in [Parts -> Part]

(* map_policy_init: every part on map, every program GM's first, and
   nothing sent. *)
PolicyInit(m, map) ==
  /\ mode = m
  /\ set = FALSE
  /\ map_of = [ch \in Parts |-> map]
  /\ last_pc = [ch \in Parts |-> FirstProgram]

(* Mutants of Injects: a live part on the Default map keeps the file's own
   CC32; a plugin imposes the map before the host set one. *)
InjectsNotDefault(ch) ==
  /\ mode \in {"render", "live"} \/ (mode = "plugin" /\ set)
  /\ map_of[ch] # Default

InjectsUnset(ch) ==
  \/ mode \in {"live", "plugin"}
  \/ mode = "render" /\ map_of[ch] # Default

(* Whether a program change on ch gets the part's CC32 in front of it. *)
Injects(ch) ==
  \/ mode = "live"
  \/ mode = "render" /\ map_of[ch] # Default
  \/ mode = "plugin" /\ set /\ map_of[ch] # Default

(* Mutant of PolicyProgramChange: the program is not remembered. *)
PolicyProgramChangeForgotten(ch, p) ==
  /\ LET carrying == IF Injects(ch) THEN LatchMap(part[ch], map_of[ch])
                                    ELSE part[ch]
     IN part' = [part EXCEPT ![ch] = SelectProgram(carrying, p)]
  /\ UNCHANGED policyVars

(* map_policy_short with a Program Change. *)
PolicyProgramChange(ch, p) ==
  /\ last_pc' = [last_pc EXCEPT ![ch] = p]
  /\ LET carrying == IF Injects(ch) THEN LatchMap(part[ch], map_of[ch])
                                    ELSE part[ch]
     IN part' = [part EXCEPT ![ch] = SelectProgram(carrying, p)]
  /\ UNCHANGED <<mode, set, map_of>>

(* map_policy_short with the bank pair's controllers, which pass through. *)
PolicyBankLSB(ch, v) ==
  /\ part' = [part EXCEPT ![ch] = LatchMap(@, v)]
  /\ UNCHANGED policyVars

PolicyBankMSB(ch, b) ==
  /\ part' = [part EXCEPT ![ch] = LatchBank(@, b)]
  /\ UNCHANGED policyVars

(* Mutant of Put: the part's CC32 goes out after its program. *)
PutSwapped(pt, ch, map) == LatchMap(SelectProgram(pt, last_pc[ch]), map)

(* put(): the part's CC32, then its last program again. *)
Put(pt, ch, map) == SelectProgram(LatchMap(pt, map), last_pc[ch])

(* map_policy_set for the parts chs, one of them or all.  A host re-sends
   its parameters constantly, so a plugin ignores the map it already has.
   An engine without tone maps only has the map recorded: the console does
   that with the map its new engine was opened on, so it is part of the
   action that opens one. *)
PolicySetAgain(chs, map) ==
  /\ mode = "plugin" /\ set
  /\ \A ch \in chs : map_of[ch] = map

PolicySet(chs, map) ==
  /\ mode # "none"
  /\ ~PolicySetAgain(chs, map)
  /\ set' = TRUE
  /\ map_of' = [ch \in Parts |-> IF ch \in chs THEN map ELSE map_of[ch]]
  /\ part' = [ch \in Parts |-> IF ch \in chs THEN Put(part[ch], ch, map)
                                                ELSE part[ch]]
  /\ UNCHANGED <<mode, last_pc>>

(* map_policy_program: a program sent around the policy. *)
PolicyProgram(ch, p) == last_pc' = [last_pc EXCEPT ![ch] = p]

(* A GS or GM Reset SysEx goes straight to the engine: the policy is not
   told. *)
WireReset ==
  /\ part' = PowerOn
  /\ UNCHANGED policyVars

==============================================================================
