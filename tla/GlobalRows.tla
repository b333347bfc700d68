----------------------------- MODULE GlobalRows -----------------------------
(***************************************************************************)
(* Global row numbers of a lake (engine/map/model.rs).  A catalog lists    *)
(* files in rel_path order; new_with_options gives each file the number of *)
(* its first row, whenever a catalog is built, healed or loaded; a lookup  *)
(* (locate_global_row) finds the file, the row in it and its row group.    *)
(*                                                                         *)
(* The vector of entries, sorted by rel_path, is a function from paths; a  *)
(* path is a number, in rel_path order.                                    *)
(***************************************************************************)
EXTENDS Integers, Sequences

CONSTANTS
  Paths,    \* rel_paths of the lake
  Layouts,  \* what a file may hold: its rows, and the row groups they are in
  MaxRow    \* usize::MAX

Group  == [first_row: Nat, row_count: Nat]
Layout == [rows: Nat, groups: Seq(Group)]

\* LocatorsTile of SliceRows, for a file whose row groups were inspected.
Tiles(layout) ==
  \A k \in 0 .. (layout.rows - 1) : \E n \in DOMAIN layout.groups :
    layout.groups[n].first_row <= k
      /\ k < layout.groups[n].first_row + layout.groups[n].row_count

ASSUME PathsAssumption == Paths \subseteq Nat
ASSUME LayoutsAssumption ==
  /\ Layouts \subseteq Layout
  /\ \A layout \in Layouts : layout.groups = <<>> \/ Tiles(layout)
ASSUME WidthAssumption ==
  /\ MaxRow \in Nat
  /\ \A layout \in Layouts : layout.rows <= MaxRow

VARIABLES
  entries,  \* LakeMap.entries in memory
  saved,    \* the catalog on disk
  todo,     \* new_with_options: entries it has not numbered yet
  next_row, \* new_with_options: the running first_global_row
  turn

globalVars == <<entries, saved, todo, next_row, turn>>

Lesser(a, b) == IF a < b THEN a ELSE b

\* usize::saturating_add
Plus(a, b) == Lesser(a + b, MaxRow)

Entry == [indexed: BOOLEAN, rows: Nat, groups: Seq(Group), first: Nat]

Missing == [indexed |-> FALSE, rows |-> 0, groups |-> <<>>, first |-> 0]

\* inspect_file_entry leaves first_global_row at 0.
Inspected(layout) ==
  [indexed |-> TRUE, rows |-> layout.rows, groups |-> layout.groups, first |-> 0]

Indexed(map) == {p \in Paths : map[p].indexed}

GlobalTypeOK ==
  /\ entries \in [Paths -> Entry]
  /\ saved \in [Paths -> Entry]
  /\ todo \in SUBSET Paths
  /\ next_row \in Nat
  /\ turn \in {"number", "ready"}

\* The loop of new_with_options over a new vector of entries.
StartNumbering(map) ==
  /\ entries' = map
  /\ todo' = Indexed(map)
  /\ next_row' = 0
  /\ turn' = "number"

\* create_map (kept = {}) or Doctor: entries that are healthy keep what they
\* hold, the files in inspected get a new entry, the others are gone.
Index(kept, inspected, layout) ==
  /\ turn = "ready"
  /\ kept \subseteq Indexed(entries) /\ kept \cap inspected = {}
  /\ StartNumbering([p \in Paths |->
       IF p \in inspected THEN Inspected(layout[p])
       ELSE IF p \in kept THEN entries[p] ELSE Missing])
  /\ UNCHANGED saved

\* Mutated: an entry Doctor retained keeps the number it had.
NumberEntryRetained ==
  /\ turn = "number"
  /\ \E p \in todo :
       /\ \A q \in todo : p <= q
       /\ entries' = [entries EXCEPT ![p].first =
                        IF entries[p].first > 0 THEN @ ELSE next_row]
       /\ next_row' = Plus(next_row, entries[p].rows)
       /\ todo' = todo \ {p}
  /\ UNCHANGED <<saved, turn>>

\* One turn of the loop.
NumberEntry ==
  /\ turn = "number"
  /\ \E p \in todo :
       /\ \A q \in todo : p <= q
       /\ entries' = [entries EXCEPT ![p].first = next_row]
       /\ next_row' = Plus(next_row, entries[p].rows)
       /\ todo' = todo \ {p}
  /\ UNCHANGED <<saved, turn>>

EndNumbering ==
  /\ turn = "number"
  /\ todo = {}
  /\ turn' = "ready"
  /\ UNCHANGED <<entries, saved, todo, next_row>>

\* Mutated: what an old file does not hold is not filled in.
LegacyBare(e) == [indexed |-> e.indexed, rows |-> e.rows]

\* What is left of an entry in the five columns an earlier version wrote: no
\* first_global_row and no row_groups_json.
Legacy(e) == [indexed |-> e.indexed, rows |-> e.rows, groups |-> <<>>, first |-> 0]

\* to_record_batch, or the file of an earlier version.
Save(legacy) ==
  /\ turn = "ready"
  /\ saved' = IF legacy
       THEN [p \in Paths |-> Legacy(entries[p])]
       ELSE entries
  /\ UNCHANGED <<entries, todo, next_row, turn>>

\* from_record_batch.  A file that is no map is an error before there are entries.
Load ==
  /\ turn = "ready"
  /\ StartNumbering(saved)
  /\ UNCHANGED saved

GlobalInit ==
  /\ entries = [p \in Paths |-> Missing]
  /\ saved = entries
  /\ todo = {}
  /\ next_row = 0
  /\ turn = "ready"

GlobalNext ==
  \/ \E kept \in SUBSET Paths, inspected \in SUBSET Paths :
       \E layout \in [inspected -> Layouts] : Index(kept, inspected, layout)
  \/ NumberEntry
  \/ EndNumbering
  \/ \E legacy \in BOOLEAN : Save(legacy)
  \/ Load

GlobalSpec == GlobalInit /\ [][GlobalNext]_globalVars
-----------------------------------------------------------------------------
(* locate_global_row. *)

EntryHolds(p, row) ==
  /\ entries[p].indexed
  /\ entries[p].first <= row
  /\ row < Plus(entries[p].first, entries[p].rows)

IsFound(row) == \E p \in Paths : EntryHolds(p, row)

\* iter().find: the first entry that holds the row.
FoundEntry(row) ==
  CHOOSE p \in Paths : EntryHolds(p, row) /\ \A q \in Paths : EntryHolds(q, row) => p <= q

\* Mutated: a row may be one past the last row of a group.
InGroupClosed(p, n, k) ==
  /\ entries[p].groups[n].first_row <= k
  /\ k <= Plus(entries[p].groups[n].first_row, entries[p].groups[n].row_count)

InGroup(p, n, k) ==
  /\ entries[p].groups[n].first_row <= k
  /\ k < Plus(entries[p].groups[n].first_row, entries[p].groups[n].row_count)

\* The location of a row: its file, its number there and its row group, 0 if none.
RowGroup(p, k) ==
  IF \E n \in DOMAIN entries[p].groups : InGroup(p, n, k)
    THEN CHOOSE n \in DOMAIN entries[p].groups :
           InGroup(p, n, k) /\ \A m \in DOMAIN entries[p].groups :
                                 InGroup(p, m, k) => n <= m
    ELSE 0

Located(row) ==
  [path |-> FoundEntry(row), offset |-> row - entries[FoundEntry(row)].first]
-----------------------------------------------------------------------------
(* Properties. *)

\* The rows of the lake, in rel_path order and then in file order.
IsRow(at) == entries[at.path].indexed /\ at.offset < entries[at.path].rows

Precedes(a, b) == a.path < b.path \/ (a.path = b.path /\ a.offset < b.offset)

\* Global row 0 is the first row of the lake and global row n+1 the row that
\* follows global row n, across files without rows, healed and reloaded maps,
\* and up to where usize saturates; a number that is not found is past the last
\* row (model.rs:424-442, 603-641).
LocateRight ==
  turn = "ready" =>
    \A row \in 0 .. (MaxRow - 1), p \in Paths, k \in 0 .. MaxRow :
      LET at == [path |-> p, offset |-> k]
          Passed == row > 0 /\ ~Precedes(Located(row - 1), at)
      IN IF IsFound(row)
           THEN /\ IsRow(Located(row))
                /\ row > 0 => /\ IsFound(row - 1)
                              /\ Precedes(Located(row - 1), Located(row))
                /\ IsRow(at) /\ Precedes(at, Located(row)) => Passed
           ELSE IsRow(at) /\ (row > 0 => IsFound(row - 1)) => Passed

\* A located row of a file whose row groups are known is in the row group that
\* is reported, which is never one without rows (model.rs:619-640).
GroupRight ==
  turn = "ready" =>
    \A row \in 0 .. (MaxRow - 1) :
      LET p == FoundEntry(row)
          k == Located(row).offset
      IN IsFound(row) /\ entries[p].groups # <<>> =>
           /\ RowGroup(p, k) \in DOMAIN entries[p].groups
           /\ entries[p].groups[RowGroup(p, k)].first_row <= k
           /\ k < entries[p].groups[RowGroup(p, k)].first_row
                    + entries[p].groups[RowGroup(p, k)].row_count

\* Global row numbers enumerate the lake, and each is found in the row group that
\* holds it, after any sequence of builds, heals, saves and loads
\* (model.rs:424-442, 603-641).
RowsNumbered == LocateRight /\ GroupRight
-----------------------------------------------------------------------------
(* The inductive invariant behind LocateRight. *)

Numbered == Indexed(entries) \ todo

EntryEnd(p) == Plus(entries[p].first, entries[p].rows)

NumberedSoFar ==
  /\ next_row <= MaxRow
  /\ todo \subseteq Indexed(entries)
  /\ \A p \in Numbered, q \in todo : p < q
  /\ \A p, q \in Numbered : p < q => EntryEnd(p) <= entries[q].first
  /\ \A p \in Numbered : entries[p].first <= next_row /\ EntryEnd(p) <= next_row
  /\ \A row \in 0 .. (next_row - 1) : \E p \in Numbered : EntryHolds(p, row)
  /\ turn = "ready" => todo = {}

WholeEntry(e) == e.rows <= MaxRow /\ (e.groups = <<>> \/ Tiles(e))

EntriesWhole == \A p \in Paths : WholeEntry(entries[p]) /\ WholeEntry(saved[p])
=============================================================================
