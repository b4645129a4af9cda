------------------------------ MODULE MCFiles -------------------------------
(* The two readers of files, one or the other in a behaviour: a song of two
   tracks and four events between them, at once or a tick apart (a running
   status and another to mistake it for, a status that does not run, and each
   of the other events once); or the name files, four lines in all (a page, a
   page of a map there is none of, a header with a column more than is kept and
   a bank past an unsigned char, a row with a blank cell; a patch twice, a kit
   without a name, a key, a map and a bank out of range). *)
EXTENDS SongFile, NameTables

Is(kind, delta, arg) ==
  [kind |-> kind, delta |-> delta, arg |-> arg, good |-> TRUE]

FewItems ==
  {Is("message", d, arg) : d \in {0, 1}, arg \in {"note", None}}
  \cup {Is("message", 0, "control"), Is("message", 0, System),
        [Is("message", 0, "control") EXCEPT !.good = FALSE],
        Is("tempo", 1, None), Is("sysex", 0, None),
        Is("port", 0, 0), Is("port", 1, 1), Is("name", 0, None),
        Is("meta", 1, None), Is("empty sysex", 0, None),
        Is("end", 0, None), Is("damage", 1, None)}

Line(kind, m, a, b, name) ==
  [kind |-> kind, map |-> m, a |-> a, b |-> b, name |-> name]
FewTableLines ==
  {Line("t", 1, 0, 0, 5), Line("t", 1, 0, 0, 6), Line("d", 0, 1, 0, Blank),
   Line("k", 1, 0, 1, 5), Line("t", 3, 0, 0, 5), Line("t", 0, 2, 0, 5)}
FewVendorLines ==
  {[kind |-> "page", map |-> 1], [kind |-> "page", map |-> 3],
   [kind |-> "tabbed", label |-> Blank, cells |-> <<0, 4, 1>>],
   [kind |-> "tabbed", label |-> 1, cells |-> <<Blank, 0, 1>>]}
FewSounds == {Line("t", 0, 0, 0, 5), Line("t", 0, 1, 0, 6), Line("d", 0, 0, 1, 5)}

VARIABLE reading

FilesInit ==
  \/ reading = "song" /\ SongInit /\ NamesInit /\ source = OwnTable /\ ~dir
  \/ reading = "names" /\ SongInit /\ NamesInit

FilesNext ==
  /\ UNCHANGED reading
  /\ \/ reading = "song" /\ SongNext /\ UNCHANGED namesVars
     \/ reading = "names" /\ NamesNext /\ UNCHANGED songVars

FilesSpec == FilesInit /\ [][FilesNext]_<<reading, songVars, namesVars>>
=============================================================================
