----------------------------- MODULE ShimPatch ------------------------------
(***************************************************************************)
(* sse2_shim.h, sse3_shim.h, scva_runtime_patch: a core's code rewritten   *)
(* for a processor without SSE2 or SSE3.  The code is a row of             *)
(* instructions, the table says of which kind each is, and a stub takes    *)
(* some cells of the arena past the image.  What an instruction computes   *)
(* is its own number, whatever form it is given.                           *)
(***************************************************************************)
EXTENDS Integers, Sequences, FiniteSets, SequencesExt

CONSTANTS
  Length,     \* bound: instructions of a core
  ArenaLens   \* the arena's lengths, in cells

ASSUME ShimAssumption == Length \in Nat /\ ArenaLens \subseteq Nat

(* sse2_sites.h by what is done about them: "short" are rewritten in place
   (kinds 1 to 4), "load" and "root" called (5, 6), and a conversion (7) goes
   into a stub with the SSE1 instruction before it or after it. *)
InPlace == {"short"}
Called == {"load", "root"}
Converted == {"convert after", "convert before"}
Site == InPlace \cup Called \cup Converted
Kinds == Site \cup {"sse1", "add", "store"}
Needs(kind) == IF kind \in Site THEN "sse2" ELSE IF kind = "add" THEN "sse3" ELSE "sse1"

(* The cells a stub takes, and what is asked for before it is written. *)
Size(kind) == IF kind = "load" THEN 1 ELSE 2
Asked(kind) == IF kind = "load" THEN 1 ELSE 3

(* The instructions that go with conversion i: sse2_cvt.h's span. *)
Span(row, i) == IF row[i] = "convert after" THEN <<i, i + 1>> ELSE <<i - 1, i>>

(* Rows as the tables have them: each span has an instruction of its own that
   nothing else rewrites. *)
Rows ==
  {row \in [1 .. Length -> Kinds] :
     \A i \in 1 .. Length : row[i] \in Converted =>
       /\ Span(row, i)[1] >= 1 /\ Span(row, i)[2] <= Length
       /\ \A n \in Range(Span(row, i)) \ {i} : row[n] = "sse1"
       /\ \A k \in 1 .. Length :
            k # i /\ row[k] \in Converted =>
              Range(Span(row, k)) \cap Range(Span(row, i)) = {}}

VARIABLES
  row,       \* what the tables say the code is
  other,     \* the instructions that are something else in this core
  code,      \* what is at each place: what it computes, what it needs, or
             \* the cell of the arena it goes to
  arena,     \* each cell: what its stub computes, and which part it is
  used, hits, left,   \* the locals, left once it is final
  done,      \* what scva_sse2_patch returned
  at,        \* the site, or the place in the code, a pass is at
  phase,
  want3, near   \* SSE3 is shimmed; its stubs are within reach

shimVars == <<row, other, code, arena, used, hits, left, done, at, phase, want3, near>>
input == <<row, other, want3, near>>

Straight(ops, needs) == [does |-> ops, needs |-> needs, to |-> 0]
To(cell) == [does |-> <<>>, needs |-> "sse1", to |-> cell]
Nop == Straight(<<>>, "sse1")
Blank == [does |-> <<>>, part |-> 0]

Sites == {i \in 1 .. Length : row[i] \in Site}
Conversions == {i \in 1 .. Length : row[i] \in Converted}

(* SCVA_SSE2 or the processor asks for the first pass, on i386; a host maps
   its core itself and has the second one only, its stubs anywhere. *)
ShimInit ==
  /\ row \in Rows
  /\ other \in {{}} \cup {{i} : i \in {i \in 1 .. Length : row[i] \in Site \cup {"add"}}}
  /\ code = [i \in 1 .. Length |-> Straight(<<i>>, Needs(row[i]))]
  /\ used = 0 /\ hits = 0 /\ left = 0 /\ done = 0 /\ at = 1
  /\ \/ /\ phase = "check"
        /\ \E n \in ArenaLens : arena = [c \in 1 .. n |-> Blank]
        /\ want3 \in BOOLEAN /\ near = TRUE
     \/ phase = "adds" /\ arena = <<>> /\ want3 = TRUE /\ near \in BOOLEAN

-----------------------------------------------------------------------------
(* scva_sse2_patch *)

Refused ==
  /\ done' = -1 /\ phase' = "adds" /\ at' = 1
  /\ UNCHANGED <<input, code, arena, used, hits, left>>

(* The bytes of every site but the conversions'. *)
Check ==
  /\ phase = "check"
  /\ IF \E i \in Sites \ Conversions : i \in other THEN Refused
     ELSE /\ phase' = "sites"
          /\ UNCHANGED <<input, code, arena, used, hits, left, done, at>>

Turn == at' = at + 1

(* Movq to movlps and the like: the operand bytes stay where they are. *)
WriteInPlace ==
  /\ phase = "sites" /\ at <= Length /\ row[at] \in InPlace
  /\ code' = [code EXCEPT ![at] = Straight(@.does, "sse1")]
  /\ hits' = hits + 1
  /\ Turn
  /\ UNCHANGED <<input, arena, used, left, done, phase>>

Fits(kind) == used + Asked(kind) <= Len(arena)

(* The stub's cells from the first unused one on. *)
Stub(ops, size) ==
  [c \in DOMAIN arena |->
     IF c \in used + 1 .. used + size THEN [does |-> ops, part |-> c - used]
     ELSE arena[c]]

(* Mutant of WriteCall: the next stub starts where this one does. *)
WriteCallNotAdvanced ==
  /\ phase = "sites" /\ at <= Length /\ row[at] \in Called /\ Fits(row[at])
  /\ arena' = Stub(code[at].does, Size(row[at]))
  /\ code' = [code EXCEPT ![at] = To(used + 1)]
  /\ used' = used
  /\ hits' = hits + 1
  /\ Turn
  /\ UNCHANGED <<input, left, done, phase>>

(* A load whose upper lane is live, and the square root: the operand goes
   into the stub as relocation left it. *)
WriteCall ==
  /\ phase = "sites" /\ at <= Length /\ row[at] \in Called /\ Fits(row[at])
  /\ arena' = Stub(code[at].does, Size(row[at]))
  /\ code' = [code EXCEPT ![at] = To(used + 1)]
  /\ used' = used + Size(row[at])
  /\ hits' = hits + 1
  /\ Turn
  /\ UNCHANGED <<input, left, done, phase>>

(* Mutant of WriteNoRoom: a site that found no room is not counted. *)
WriteNoRoomUncounted ==
  /\ phase = "sites" /\ at <= Length /\ row[at] \in Called /\ ~Fits(row[at])
  /\ Turn
  /\ UNCHANGED <<input, code, arena, used, hits, left, done, phase>>

WriteNoRoom ==
  /\ phase = "sites" /\ at <= Length /\ row[at] \in Called /\ ~Fits(row[at])
  /\ left' = left + 1
  /\ Turn
  /\ UNCHANGED <<input, code, arena, used, hits, done, phase>>

WriteNothing ==
  /\ phase = "sites" /\ at <= Length /\ row[at] \notin InPlace \cup Called
  /\ Turn
  /\ UNCHANGED <<input, code, arena, used, hits, left, done, phase>>

-----------------------------------------------------------------------------
(* scva_sse2_patch_cvt: the conversions' own bytes, once all else is
   written. *)

CheckConversions ==
  /\ phase = "sites" /\ at > Length
  /\ IF Conversions \cap other # {} THEN Refused
     ELSE /\ phase' = "conversions" /\ at' = 1
          /\ UNCHANGED <<input, code, arena, used, hits, left, done>>

(* The span in a stub, and a jump to it and back. *)
Convert ==
  /\ phase = "conversions" /\ at <= Length /\ row[at] \in Converted /\ Fits(row[at])
  /\ LET span == Span(row, at)
     IN /\ arena' = Stub(code[span[1]].does \o code[span[2]].does, Size(row[at]))
        /\ code' = [code EXCEPT ![span[1]] = To(used + 1), ![span[2]] = Nop]
  /\ used' = used + Size(row[at])
  /\ hits' = hits + 1
  /\ Turn
  /\ UNCHANGED <<input, left, done, phase>>

ConvertNothing ==
  /\ phase = "conversions" /\ at <= Length /\ row[at] \notin Converted
  /\ Turn
  /\ UNCHANGED <<input, code, arena, used, hits, left, done, phase>>

(* After the last, or the first that finds no room. *)
ConversionsEnd ==
  /\ phase = "conversions"
  /\ at <= Length => row[at] \in Converted /\ ~Fits(row[at])
  /\ left' = left + Cardinality({i \in Conversions : i >= at})
  /\ done' = hits
  /\ phase' = "adds" /\ at' = 1
  /\ UNCHANGED <<input, code, arena, used, hits>>

-----------------------------------------------------------------------------
(* scva_sse3_patch: the pair of haddps, and in the 32-bit core the store
   between them, found wherever their bytes are. *)

Pattern == [adds |-> <<"add", "store", "add">>, pairs |-> <<"add", "add">>]

Untouched(i) == i \notin other /\ code[i] = Straight(<<i>>, Needs(row[i]))

Matches(i) ==
  LET n == Len(Pattern[phase])
  IN /\ i + n - 1 <= Length
     /\ \A k \in 0 .. n - 1 : row[i + k] = Pattern[phase][k + 1] /\ Untouched(i + k)

(* A call of the stub that does the whole pattern, and nothing after it. *)
Add ==
  /\ phase \in DOMAIN Pattern /\ want3 /\ at <= Length /\ Matches(at) /\ near
  /\ LET n == Len(Pattern[phase])
     IN /\ code' = [i \in 1 .. Length |->
                      IF i = at THEN Straight([k \in 1 .. n |-> at + k - 1], "sse1")
                      ELSE IF i \in at + 1 .. at + n - 1 THEN Nop ELSE code[i]]
        /\ at' = at + n
  /\ UNCHANGED <<input, arena, used, hits, left, done, phase>>

(* No pattern here, or its stub is too far away. *)
AddNothing ==
  /\ phase \in DOMAIN Pattern /\ want3 /\ at <= Length /\ ~(Matches(at) /\ near)
  /\ Turn
  /\ UNCHANGED <<input, code, arena, used, hits, left, done, phase>>

(* The longer pattern first. *)
AddsEnd ==
  /\ phase \in DOMAIN Pattern
  /\ ~want3 \/ at > Length
  /\ phase' = IF phase = "adds" /\ want3 THEN "pairs" ELSE "end"
  /\ at' = 1
  /\ UNCHANGED <<input, code, arena, used, hits, left, done>>

ShimNext ==
  \/ Check \/ WriteInPlace \/ WriteCall \/ WriteNoRoom \/ WriteNothing
  \/ CheckConversions \/ Convert \/ ConvertNothing \/ ConversionsEnd
  \/ Add \/ AddNothing \/ AddsEnd

ShimSpec == ShimInit /\ [][ShimNext]_shimVars

-----------------------------------------------------------------------------

(* What running the code at place i computes. *)
Runs(i) ==
  LET cell == code[i].to
      size == IF row[i] = "load" THEN 1 ELSE 2
  IN IF cell = 0 THEN code[i].does
     ELSE IF \A n \in 1 .. size :
               arena[cell + n - 1] = [does |-> arena[cell].does, part |-> n]
          THEN arena[cell].does ELSE <<0>>

(* What running all of it computes. *)
Computed ==
  LET ops[i \in 0 .. Length] == IF i = 0 THEN <<>> ELSE ops[i - 1] \o Runs(i)
  IN ops[Length]

(* After every write the code computes what it did before, each instruction
   once and in its place: no stub is written over another's, no span loses
   its neighbour and no pattern its store ("every one has an SSE1 form that
   computes the same bits"; "the audio does not change"). *)
SameProgram == Computed = [i \in 1 .. Length |-> i]

(* What the first pass reports is so: a site it counted runs on SSE1, `left`
   is every one that does not, and the second pass leaves no pattern it
   could reach. *)
LeftIsCounted ==
  /\ phase = "adds" /\ done > 0 =>
       /\ left = Cardinality({i \in Sites : code[i].needs = "sse2"})
       /\ done + left = Cardinality(Sites)
  /\ phase = "end" /\ want3 /\ near =>
       \A i \in 1 .. Length - 1 :
         ~(row[i] = "add" /\ row[i + 1] = "add" /\ Untouched(i) /\ Untouched(i + 1))
=============================================================================
