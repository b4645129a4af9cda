----------------------------- MODULE NameTables -----------------------------
(***************************************************************************)
(* scva_names.h, plugin_names.c: the patch and key names a plugin offers,  *)
(* from the first of its sources that has a patch, or from an engine that  *)
(* names its own sounds.  A file is chosen as it is read, a line at a      *)
(* time; a cell's text is the number it reads as, or Blank when it is empty *)
(* or "---".  Any growth of an array may find no memory.                   *)
(***************************************************************************)
EXTENDS Integers, Sequences, FiniteSets, Functions

CONSTANTS
  TableLines,  \* the lines a table of this project's own may hold
  VendorLines, \* the lines a vendor's file may hold
  Sounds,      \* the sounds an engine's tone set may name
  Maps,        \* SCVA_MAPS
  Programs,    \* how many programs and notes there are
  Byte,        \* how many values an unsigned char has
  Columns,     \* how many columns of a header are kept
  FirstRoom,   \* entries of an array's first allocation
  MaxLines     \* bound of the model: lines of all files together

Blank == -1
Junk == -2       \* whatever the memory of an entry held

ASSUME NamesAssumption ==
  /\ {Maps, Programs, Byte, Columns, FirstRoom} \subseteq Nat \ {0}
  /\ 1 < Maps /\ Programs <= Byte
  /\ TableLines \subseteq [kind : STRING, map : Int, a : Int, b : Int, name : Int]
  /\ VendorLines \subseteq
       [kind : {"page"}, map : Int]
       \cup [kind : {"tabbed"}, label : Int, cells : Seq(Int) \ {<<>>}]
  /\ Sounds \subseteq [kind : {"t", "d"}, map : Int, a : Int, b : Int, name : Int]
  /\ MaxLines \in Nat

(* Sources, by number: $SCVA_TONES, scva-tones.txt, SCVSC.tnf, .drf, .drk,
   GM.tnf, .drf, .drk; then the tone sets of an engine. *)
OwnTable == 1
BesideCore == 2
Vendor == 3 .. 8
EngineSets == 9 .. 8 + Maps - 1
NSources == 8 + Maps - 1

VARIABLES
  names,     \* N->patch and N->key, each with where it was read (history)
  room,      \* what is allocated for each
  cap,       \* what the reader takes that to be
  progress,     \* "look", "read" or "told"
  source,    \* the source looked for or read, GM for the built-in set
  dir,       \* whether there is a directory of the core's to look in
  map, axis, \* scva__parse's page, -1 before one, and its header row
  pending,   \* entries of the line read, still to be stored
  told,      \* what the load returned
  text,      \* what was read of each source (history)
  short      \* memory ran out (history)

reader == <<progress, source, map, axis, pending, told>>
namesVars == <<names, room, cap, dir, reader, text, short>>

GM == 0
Nothing == [patch |-> <<>>, key |-> <<>>]
NoRoom == [patch |-> 0, key |-> 0]

Entry(kind, m, a, b, name, at) ==
  [kind |-> kind, map |-> m, a |-> a, b |-> b, name |-> name, at |-> at]
ArrayOf(entry) == IF entry.kind = "k" THEN "key" ELSE "patch"

NamesInit ==
  /\ names = Nothing /\ room = NoRoom /\ cap = NoRoom
  /\ progress = "look" /\ source \in {OwnTable, 9}
  /\ dir \in BOOLEAN /\ (source = 9 => dir)
  /\ map = -1 /\ axis = <<>> /\ pending = <<>> /\ told = -1
  /\ text = [s \in 1 .. NSources |-> <<>>]
  /\ short = FALSE

-----------------------------------------------------------------------------
(* Where a reader goes after a source, and what the load returns. *)

LeaveFile == map' = -1 /\ axis' = <<>> /\ pending' = <<>>
Tell(n) == progress' = "told" /\ told' = n /\ LeaveFile /\ UNCHANGED source
TurnTo(s) == progress' = "look" /\ source' = s /\ LeaveFile /\ UNCHANGED told
NPatch == Len(names.patch)
Forget == names' = Nothing /\ room' = NoRoom /\ cap' = NoRoom
Keep == UNCHANGED <<names, room, cap>>

(* No table of this project's own with a patch: names_load starts afresh. *)
AfterTable ==
  IF NPatch > 0 THEN Tell(NPatch) /\ Keep
  ELSE IF source = OwnTable /\ dir THEN TurnTo(BesideCore) /\ Keep
  ELSE TurnTo(IF dir THEN 3 ELSE GM) /\ Forget

(* All three files of a set are read; the second set only for want of a
   patch in the first. *)
AfterVendor ==
  /\ IF source \in {5, 8} /\ NPatch > 0 THEN Tell(NPatch)
     ELSE TurnTo(IF source = 8 THEN GM ELSE source + 1)
  /\ Keep

(* The next tone set; with no sound of any, nothing is offered. *)
AfterSet ==
  IF source < NSources THEN TurnTo(source + 1) /\ Keep
  ELSE IF NPatch > 0 THEN Tell(1) /\ Keep
  ELSE Tell(0) /\ Forget

After ==
  IF source \in {OwnTable, BesideCore} THEN AfterTable
  ELSE IF source \in Vendor THEN AfterVendor
  ELSE AfterSet

-----------------------------------------------------------------------------
(* No memory for the options the engine's sets are opened with. *)
NoOptions ==
  /\ progress = "look" /\ source = 9
  /\ Tell(0) /\ short' = TRUE
  /\ Keep
  /\ UNCHANGED <<dir, text>>

(* A source is not there, will not open or cannot be slurped. *)
Missing ==
  /\ progress = "look" /\ source # GM
  /\ After
  /\ UNCHANGED <<dir, text, short>>

(* Each table is read with capacities of its own, the vendor's files with one
   pair for all and the engine's sets too. *)
OpenSource ==
  /\ progress = "look" /\ source # GM
  /\ progress' = "read"
  /\ cap' = IF source \in {OwnTable, BesideCore} THEN NoRoom ELSE cap
  /\ UNCHANGED <<names, room, source, dir, map, axis, pending, told, text, short>>

Reading(s, line) ==
  /\ progress = "read" /\ source \in s /\ pending = <<>>
  /\ text' = [text EXCEPT ![source] = Append(@, line)]
  /\ UNCHANGED <<names, room, cap, progress, source, dir, told, short>>

Number(n, limit) == n \in 0 .. limit - 1

(* Column j of the line that is read. *)
Spot(j) == <<source, Len(text[source]) + 1, j>>

(* The entries of a line of a table: a, b, c as read, in range or skipped. *)
TableEntries(line) ==
  IF line.kind \in {"t", "d", "k"} /\ Number(line.map, Maps)
     /\ Number(line.a, Programs) /\ Number(line.b, Programs)
  THEN <<Entry(line.kind, line.map, line.a, line.b,
               IF line.name = Blank THEN Junk ELSE line.name, Spot(1))>>
  ELSE <<>>

TableLine(line) ==
  /\ Reading({OwnTable, BesideCore}, line)
  /\ pending' = TableEntries(line)
  /\ UNCHANGED <<map, axis>>

(* Mutant of Page: the header of the page before is kept. *)
PageAxisKept(line) ==
  /\ line.kind = "page"
  /\ Reading(Vendor, line)
  /\ map' = line.map
  /\ UNCHANGED <<axis, pending>>

Page(line) ==
  /\ line.kind = "page"
  /\ Reading(Vendor, line)
  /\ map' = line.map /\ axis' = <<>>
  /\ UNCHANGED pending

Kind(s) == CASE s \in {3, 6} -> "t" [] s \in {4, 7} -> "d" [] s \in {5, 8} -> "k"

(* Programs are numbered from 1 in tones and kits, notes from 0 in keys. *)
Row(s, label) == IF Kind(s) = "k" THEN label ELSE label - 1

(* A cell's number: what atoi makes of it, in an unsigned char. *)
Value(cell) == (IF cell = Blank THEN 0 ELSE cell) % Byte

Shorter(m, n) == IF m < n THEN m ELSE n

(* A row of source s under a header: an entry for each column both have. *)
Cells(s, m, header, line) ==
  IF line.label = Blank \/ ~Number(Row(s, line.label), Programs) THEN <<>>
  ELSE [j \in 1 .. Shorter(Shorter(Len(header), Columns), Len(line.cells)) |->
          Entry(Kind(s), m, Value(header[j]), Row(s, line.label), line.cells[j],
                Spot(j))]

(* A line with a tab, on a page of a map there is: its header, or a row. *)
Tabbed(line) ==
  /\ line.kind = "tabbed"
  /\ Reading(Vendor, line)
  /\ IF ~Number(map, Maps) THEN UNCHANGED <<axis, pending>>
     ELSE IF axis = <<>> THEN axis' = line.cells /\ UNCHANGED pending
     ELSE pending' = Cells(source, map, axis, line) /\ UNCHANGED axis
  /\ UNCHANGED map

(* The order an engine is asked in: tones by program and bank, then kits. *)
Rank(sound) ==
  (IF sound.kind = "d" THEN Programs * Programs ELSE 0) + Programs * sound.b + sound.a

(* The open tone set names one more of the sounds it is asked for. *)
Sound(sound) ==
  /\ Reading(EngineSets, sound)
  /\ \A i \in DOMAIN text[source] : Rank(text[source][i]) < Rank(sound)
  /\ pending' = <<Entry(sound.kind, source - 8, sound.a, sound.b, sound.name, Spot(1))>>
  /\ UNCHANGED <<map, axis>>

(* An empty cell of a row says nothing. *)
EmptyCell == source \in Vendor /\ Head(pending).name = Blank

Skip ==
  /\ progress = "read" /\ pending # <<>> /\ EmptyCell
  /\ pending' = Tail(pending)
  /\ UNCHANGED <<names, room, cap, progress, source, dir, map, axis, told, text, short>>

(* An entry goes in, where the array is full with more room first. *)
Grown(n) == IF n = 0 THEN FirstRoom ELSE 2 * n

Store ==
  /\ progress = "read" /\ pending # <<>> /\ ~EmptyCell
  /\ LET array == ArrayOf(Head(pending))
         full == Len(names[array]) = cap[array]
         more == Grown(cap[array])
     IN /\ room' = IF full THEN [room EXCEPT ![array] = more] ELSE room
        /\ cap' = IF full THEN [cap EXCEPT ![array] = more] ELSE cap
        /\ names' = [names EXCEPT ![array] = Append(@, Head(pending))]
  /\ pending' = Tail(pending)
  /\ UNCHANGED <<progress, source, dir, map, axis, told, text, short>>

(* Mutant of NoMemory: what an engine named until then is left. *)
NoMemoryKept ==
  /\ progress = "read" /\ pending # <<>> /\ ~EmptyCell
  /\ LET array == ArrayOf(Head(pending)) IN Len(names[array]) = cap[array]
  /\ short' = TRUE
  /\ IF source \in EngineSets THEN Tell(0) /\ Keep ELSE After
  /\ UNCHANGED <<dir, text>>

(* realloc fails: a file is left off where it is, an engine's names are all
   given up. *)
NoMemory ==
  /\ progress = "read" /\ pending # <<>> /\ ~EmptyCell
  /\ LET array == ArrayOf(Head(pending)) IN Len(names[array]) = cap[array]
  /\ short' = TRUE
  /\ IF source \in EngineSets THEN Tell(0) /\ Forget ELSE After
  /\ UNCHANGED <<dir, text>>

SourceEnds ==
  /\ progress = "read" /\ pending = <<>>
  /\ After
  /\ UNCHANGED <<dir, text, short>>

(* The General MIDI set: its programs, one kit and that kit's keys. *)
GmSet ==
  [patch |-> <<Entry("t", 0, 0, 0, 0, <<GM, 1, 1>>), Entry("d", 0, 0, 0, 0, <<GM, 2, 1>>)>>,
   key |-> <<Entry("k", 0, 0, 0, 0, <<GM, 3, 1>>)>>]

Gm ==
  /\ progress = "look" /\ source = GM
  /\ \/ /\ names' = GmSet
        /\ room' = [patch |-> Len(GmSet.patch), key |-> Len(GmSet.key)]
        /\ Tell(Len(GmSet.patch))
        /\ UNCHANGED <<cap, short>>
     \/ Forget /\ Tell(0) /\ short' = TRUE
  /\ UNCHANGED <<dir, text>>

LinesRead == FoldFunction(LAMBDA lines, n : n + Len(lines), 0, text)

NamesNext ==
  \/ NoOptions \/ Missing \/ OpenSource \/ Skip \/ Store \/ NoMemory \/ SourceEnds \/ Gm
  \/ /\ LinesRead < MaxLines
     /\ \/ \E line \in TableLines : TableLine(line)
        \/ \E line \in VendorLines : Page(line) \/ Tabbed(line)
        \/ \E sound \in Sounds : Sound(sound)

NamesSpec == NamesInit /\ [][NamesNext]_namesVars

-----------------------------------------------------------------------------

Patches == {"t", "d"} \X (0 .. Maps - 1) \X (0 .. Byte - 1) \X (0 .. Programs - 1)

Of(entry) == <<entry.kind, entry.map, entry.a, entry.b>>

Lowest(numbers) == CHOOSE n \in numbers : \A k \in numbers : n <= k

(* scva_names_find: the first entry of a patch. *)
Find(patch) ==
  LET found == {k \in 1 .. NPatch : Of(names.patch[k]) = patch}
  IN IF found = {} THEN Blank ELSE names.patch[Lowest(found)].name

(* Line i of a vendor's file is on page p, under the header at h. *)
OnPage(lines, i, p) ==
  p < i /\ lines[p].kind = "page" /\ \A n \in p + 1 .. i - 1 : lines[n].kind # "page"
Under(lines, i, p, h) ==
  /\ p < h /\ h < i /\ lines[h].kind = "tabbed"
  /\ \A n \in p + 1 .. h - 1 : lines[n].kind # "tabbed"

(* Column j of line i of source s, the lines given, names a patch. *)
Says(s, lines, i, j, patch) ==
  IF s \in Vendor
  THEN /\ patch[1] = Kind(s)
       /\ lines[i].kind = "tabbed" /\ lines[i].label # Blank
       /\ Row(s, lines[i].label) = patch[4]
       /\ lines[i].cells[j] # Blank
       /\ \E p, h \in 1 .. i :
            /\ OnPage(lines, i, p) /\ Under(lines, i, p, h)
            /\ lines[p].map = patch[2]
            /\ j <= Columns /\ j \in DOMAIN lines[h].cells
            /\ Value(lines[h].cells[j]) = patch[3]
  ELSE /\ lines[i].kind = patch[1] /\ lines[i].a = patch[3] /\ lines[i].b = patch[4]
       /\ IF s \in EngineSets THEN patch[2] = s - 8
          ELSE patch[2] = lines[i].map /\ Number(patch[3], Programs)

NameAt(s, lines, i, j) ==
  IF s \in Vendor THEN lines[i].cells[j]
  ELSE IF s \notin EngineSets /\ lines[i].name = Blank THEN Junk ELSE lines[i].name

Width(s, line) ==
  IF s \notin Vendor THEN 1 ELSE IF line.kind = "tabbed" THEN Len(line.cells) ELSE 0

Spots(s) ==
  UNION {{s} \X {i} \X (1 .. Width(s, text[s][i])) : i \in 1 .. Len(text[s])}

(* Where the sources of a group name a patch. *)
Places(group, patch) ==
  {at \in UNION {Spots(s) : s \in group} : Says(at[1], text[at[1]], at[2], at[3], patch)}

Earlier(x, y) ==
  \/ x[1] < y[1]
  \/ x[1] = y[1] /\ (x[2] < y[2] \/ (x[2] = y[2] /\ x[3] <= y[3]))

Called(group, patch) ==
  LET places == Places(group, patch)
      first == CHOOSE x \in places : \A y \in places : Earlier(x, y)
  IN IF places = {} THEN Blank ELSE NameAt(first[1], text[first[1]], first[2], first[3])

Offers(group) == \E patch \in Patches : Places(group, patch) # {}

Groups == <<{OwnTable}, {BesideCore}, {3, 4, 5}, {6, 7, 8}>>

(* The names a plugin offers are those of the first source that has a patch,
   each as its file says it: under the last page before it, the first row of
   that page and its own label ("Names come from one of three sources, in
   order"; "the SC-8820 set first, then the GM subset"); an engine's own are
   all its sets'. *)
FirstSourceAsWritten ==
  progress = "told" /\ ~short =>
    LET offering == {g \in DOMAIN Groups : Offers(Groups[g])}
        group == IF source \in EngineSets THEN EngineSets
                 ELSE Groups[CHOOSE g \in offering : \A h \in offering : g <= h]
    IN IF source \notin EngineSets /\ offering = {} THEN names = GmSet
       ELSE \A patch \in Patches : Find(patch) = Called(group, patch)

(* Wherever memory runs out: a load that answers 0 leaves nothing behind ("0,
   with N empty, if there are no names to offer"), any other has a patch, and
   no patch is stored past the array's end or comes from a second source. *)
ZeroIsEmpty ==
  /\ progress = "told" => (told = 0 <=> names.patch = <<>>) /\ (told = 0 => names.key = <<>>)
  /\ Len(names.patch) <= room.patch

=============================================================================
