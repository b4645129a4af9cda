---------------------------- MODULE EditorWindow ----------------------------
(***************************************************************************)
(* scva_xui.c: the plugins' X window, a button per tone map over two       *)
(* scrolling lists, the map's tones and its kits.  Positions count from 1, *)
(* 0 being the code's -1; top is the number of rows scrolled past.  Sizes  *)
(* in pixels are left to the number of whole rows a list shows, and drawing *)
(* is left out.  The operations are actions over the window's own fields;  *)
(* the editor that owns the window composes them.                          *)
(***************************************************************************)
EXTENDS ToneLists

CONSTANT RowCounts   \* the numbers of rows a window can be sized to show

ASSUME WindowAssumption == RowCounts \subseteq Nat \ {0} /\ RowCounts # {}

VARIABLES
  shown_map,   \* the map whose button is down
  top, sel,    \* of each list: rows scrolled past, selected position
  rows         \* whole rows a list shows

windowVars == <<shown_map, top, sel, rows>>

Both == {"tone", "kit"}

Entries(l, m) == List(l = "kit", m)
Count(l) == Len(Entries(l, shown_map))

(* clamp_top *)
ClampTop(t, n, r) ==
  IF t > n - r THEN IF n > r THEN n - r ELSE 0 ELSE IF t < 0 THEN 0 ELSE t

(* reveal, which clamps at its end. *)
Reveal(t, s, n, r) ==
  ClampTop(IF s <= t THEN s - 1
           ELSE IF s > t + r THEN s - 1 - r \div 2 ELSE t, n, r)

(* Without a window its fields are of no account. *)
Unrolled == [l \in Both |-> 0]
FirstEntry == [l \in Both |-> 1]
NoRows == CHOOSE r \in RowCounts : TRUE

NoWindow ==
  shown_map = DefaultMap /\ top = Unrolled /\ sel = FirstEntry /\ rows = NoRows

(* scva_xui_open gives both lists, unrolled, their first entry of the default
   map; its owner's first scva_xui_show follows, before any event. *)
OpenWindow(r, want) ==
  LET last(l) == Len(Entries(l, DefaultMap))
  IN /\ shown_map' = DefaultMap /\ rows' = r
     /\ sel' = [l \in Both |-> IF want[l] > last(l) THEN last(l) ELSE want[l]]
     /\ top' = [l \in Both |-> IF sel'[l] \in {0, FirstEntry[l]} THEN Unrolled[l]
                               ELSE Reveal(Unrolled[l], sel'[l], last(l), r)]

CloseWindow ==
  shown_map' = DefaultMap /\ top' = Unrolled /\ sel' = FirstEntry /\ rows' = NoRows

(* Mutant of ShowAt: a list keeps its place when the map changes. *)
ShowAtUnrevealed(m, want) ==
  LET last(l) == Len(Entries(l, m))
  IN /\ shown_map' = m
     /\ sel' = [l \in Both |-> IF want[l] > last(l) THEN last(l) ELSE want[l]]
     /\ top' = [l \in Both |-> IF m # shown_map THEN top[l]
                               ELSE IF sel'[l] \in {0, sel[l]} THEN top[l]
                               ELSE Reveal(top[l], sel'[l], last(l), rows)]
     /\ UNCHANGED rows

(* scva_xui_show: another map forgets the selections, so that both lists are
   brought to theirs; a position past the end is the last. *)
ShowAt(m, want) ==
  LET last(l) == Len(Entries(l, m))
      old(l) == IF m # shown_map THEN 0 ELSE sel[l]
  IN /\ shown_map' = m
     /\ sel' = [l \in Both |-> IF want[l] > last(l) THEN last(l) ELSE want[l]]
     /\ top' = [l \in Both |-> IF sel'[l] \in {0, old(l)} THEN top[l]
                               ELSE Reveal(top[l], sel'[l], last(l), rows)]
     /\ UNCHANGED rows

(* press on a row: k counts from the top, and the strip below the last whole
   row counts as one more.  The owner is told of the position picked. *)
Row(l, k) == top[l] + k

PressRow(l, k) ==
  /\ k \in 1..(rows + 1)
  /\ Row(l, k) <= Count(l) /\ Row(l, k) # sel[l]
  /\ sel' = [sel EXCEPT ![l] = Row(l, k)]
  /\ UNCHANGED <<shown_map, top, rows>>

(* press with the wheel's buttons. *)
Wheel(l, by) ==
  /\ top' = [top EXCEPT ![l] = ClampTop(@ + by, Count(l), rows)]
  /\ UNCHANGED <<shown_map, sel, rows>>

(* scroll_to: the bar pressed, or moved while held, at any height. *)
ScrollTo(l, t) ==
  /\ Count(l) > rows
  /\ top' = [top EXCEPT ![l] = ClampTop(t, Count(l), rows)]
  /\ UNCHANGED <<shown_map, sel, rows>>

(* ConfigureNotify, and scva_xui_resize: layout clamps both lists. *)
Resize(r) ==
  /\ r # rows
  /\ rows' = r
  /\ top' = [l \in Both |-> ClampTop(top[l], Count(l), r)]
  /\ UNCHANGED <<shown_map, sel>>

-----------------------------------------------------------------------------

WindowTypeOK ==
  /\ shown_map \in Maps
  /\ \A l \in Both : top[l] \in Nat /\ sel[l] \in 0..Count(l)
  /\ rows \in RowCounts
=============================================================================
