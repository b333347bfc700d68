----------------------------- MODULE Projection -----------------------------
(***************************************************************************)
(* The columns of a slice (slice_cols_native in src/src/engine/slice.rs).  *)
(* Each reader is told the columns and makes of it what it can: it leaves  *)
(* out the others, in the order of the file or of the request, once or as  *)
(* often as asked, or reads them all.  slice_cols_native then puts the     *)
(* columns of the batch in order by name.  If the range has no row, the    *)
(* batch is an empty one of the schema the reader reported instead, which  *)
(* need not have the columns its batches have.                             *)
(*                                                                         *)
(* A column of the file has a name and, in Parquet's view, leaves; a flat  *)
(* column is its own leaf.  A column of a batch is the number of the       *)
(* column it comes from, and the leaves of it that were read.              *)
(***************************************************************************)
EXTENDS Integers, SequencesExt

CONSTANTS
  Readers,  \* readers, see Pushdown
  Tables,   \* files: sequences of columns
  Requests  \* selected_cols: sequences of names, none of them empty

\* parquet, ipc (Arrow IPC and Feather), orc, delimited (CSV, PSV, TXT and
\* dynamic delimited formats), and tsv, whose mapped reader is that of CSV and
\* whose other reader takes no columns; all others decode whole rows.
AllReaders == {"parquet", "ipc", "orc", "delimited", "tsv", "decoded"}

ASSUME ReadersAssumption  == Readers \subseteq AllReaders
ASSUME TablesAssumption ==
  \A t \in Tables : /\ t \in Seq(Range(t))
                   /\ \A c \in DOMAIN t : t[c].leaves \in Seq(Range(t[c].leaves))
ASSUME RequestsAssumption == \A r \in Requests : r \in Seq(Range(r)) /\ r # <<>>

VARIABLES
  slice,    \* the call: reader, file, columns asked for, is a map used, does
            \* the range have rows
  reported, \* columns of the schema the reader reports
  columns,  \* columns of the batch
  step      \* "open", "read", "order", "done" or "error"

projectionVars == <<slice, reported, columns, step>>

Table == slice.table
Names == slice.names

ProjectionTypeOK ==
  /\ slice \in [reader: Readers, table: Tables, names: Requests,
                mapped: BOOLEAN, rows: BOOLEAN]
  /\ reported \in Seq([of: DOMAIN Table, leaves: SUBSET Nat])
  /\ columns \in Seq([of: DOMAIN Table, leaves: SUBSET Nat])
  /\ step \in {"open", "read", "order", "done", "error"}
-----------------------------------------------------------------------------
(* Columns by name. *)

WholeColumn(c) == [of |-> c, leaves |-> DOMAIN Table[c].leaves]

All == [c \in DOMAIN Table |-> WholeColumn(c)]

\* Schema::index_of: the first column with the name.
HasColumn(name) == \E c \in DOMAIN Table : Table[c].name = name

IndexOf(name) ==
  CHOOSE c \in DOMAIN Table :
    Table[c].name = name /\ \A d \in 1 .. c - 1 : Table[d].name # name

HasAll == \A i \in DOMAIN Names : HasColumn(Names[i])

\* The elements of s at the positions in S, in order.
Picked(s, S) ==
  LET at == CHOOSE q \in [1 .. Cardinality(S) -> S] :
              \A i, j \in DOMAIN q : i < j => q[i] < q[j]
  IN  [k \in DOMAIN at |-> s[at[k]]]

\* In the order of the request, as often as asked; names the file does not
\* have are left out (projected_fields_indices, Schema::project).
AsAsked ==
  LET known == Picked(Names, {i \in DOMAIN Names : HasColumn(Names[i])})
  IN  [i \in DOMAIN known |-> WholeColumn(IndexOf(known[i]))]

\* Each column once, where it is asked for first.
OnceAsAsked ==
  Picked(AsAsked, {i \in DOMAIN AsAsked : \A h \in 1 .. i - 1 : AsAsked[h] # AsAsked[i]})

\* Each column once, in the order of the file.
AsInFile ==
  Picked(All, {c \in DOMAIN All : \E i \in DOMAIN AsAsked : AsAsked[i] = All[c]})
-----------------------------------------------------------------------------
(* Parquet names leaves. *)

\* The leaves of the file, each by its column and its place there.
Leaves == UNION {{c} \X DOMAIN Table[c].leaves : c \in DOMAIN Table}

LeafName(l) == Table[l[1]].leaves[l[2]]
Before(l, m) == l[1] < m[1] \/ (l[1] = m[1] /\ l[2] < m[2])

\* The first leaf of each name asked for, if there is one.
Mask ==
  {l \in Leaves : /\ \E i \in DOMAIN Names : Names[i] = LeafName(l)
                  /\ \A m \in Leaves : Before(m, l) => LeafName(m) # LeafName(l)}

\* The columns with a leaf in the mask, with these leaves.
Masked ==
  LET parts == [c \in DOMAIN Table |->
                  [of |-> c, leaves |-> {l[2] : l \in {m \in Mask : m[1] = c}}]]
  IN  Picked(parts, {c \in DOMAIN parts : parts[c].leaves # {}})
-----------------------------------------------------------------------------
(* The readers. *)

\* What a reader makes of the columns: does it look for all of them, those its
\* batches have and those it may report (open_with_columns and the mapped
\* readers).  Arrow's file reader may report the schema of the file.
Pushdown ==
  CASE slice.reader = "parquet" ->
         [strict |-> FALSE, batch |-> Masked, schemas |-> {AsAsked}]
    [] slice.reader = "ipc" ->
         [strict |-> TRUE, batch |-> OnceAsAsked, schemas |-> {OnceAsAsked, All}]
    [] slice.reader = "orc" /\ slice.mapped ->
         [strict |-> TRUE, batch |-> AsInFile, schemas |-> {AsInFile}]
    [] slice.reader \in {"delimited", "tsv"} /\ slice.mapped ->
         [strict |-> TRUE, batch |-> AsAsked, schemas |-> {AsAsked}]
    [] slice.reader = "delimited" /\ ~slice.mapped ->
         [strict |-> TRUE, batch |-> AsAsked, schemas |-> {All}]
    [] OTHER ->
         [strict |-> FALSE, batch |-> All, schemas |-> {All}]

\* A reader that looks for every column fails if one is not there.
OpenColumns ==
  /\ step = "open"
  /\ IF Pushdown.strict /\ ~HasAll
       THEN step' = "error" /\ UNCHANGED reported
       ELSE step' = "read" /\ reported' \in Pushdown.schemas
  /\ UNCHANGED <<slice, columns>>

\* read_range_from_source: the batches that hold the range, or an empty batch
\* of the reported schema.
ReadColumns ==
  /\ step = "read"
  /\ columns' = IF slice.rows THEN Pushdown.batch ELSE reported
  /\ step' = "order"
  /\ UNCHANGED <<slice, reported>>

NameOf(c) == Table[c.of].name

\* Mutated: the reader's order is kept if it has as many columns as were asked for.
OrderColumnsHasty ==
  /\ step = "order"
  /\ LET at(name) == {k \in DOMAIN columns : NameOf(columns[k]) = name}
         first(S) == CHOOSE k \in S : \A h \in S : k <= h
     IN  IF \E i \in DOMAIN Names : at(Names[i]) = {}
           THEN step' = "error" /\ UNCHANGED columns
           ELSE /\ step' = "done"
                /\ columns' = IF Len(columns) = Len(Names) THEN columns
                              ELSE [i \in DOMAIN Names |-> columns[first(at(Names[i]))]]
  /\ UNCHANGED <<slice, reported>>

\* Mutated: a position is counted from one.
OrderColumnsShifted ==
  /\ step = "order"
  /\ LET at(name) == {k \in DOMAIN columns : NameOf(columns[k]) = name}
         first(S) == CHOOSE k \in S : \A h \in S : k <= h
     IN  IF \E i \in DOMAIN Names : at(Names[i]) = {}
           THEN step' = "error" /\ UNCHANGED columns
           ELSE /\ step' = "done"
                /\ columns' = [i \in DOMAIN Names |->
                      [columns[first(at(Names[i]))] EXCEPT !.of = @ + 1]]
  /\ UNCHANGED <<slice, reported>>

\* The columns of the batch, put in the order of the request by name; an error
\* if there is none of a name.
OrderColumns ==
  /\ step = "order"
  /\ LET at(name) == {k \in DOMAIN columns : NameOf(columns[k]) = name}
         first(S) == CHOOSE k \in S : \A h \in S : k <= h
     IN  IF \E i \in DOMAIN Names : at(Names[i]) = {}
           THEN step' = "error" /\ UNCHANGED columns
           ELSE /\ step' = "done"
                /\ columns' = [i \in DOMAIN Names |-> columns[first(at(Names[i]))]]
  /\ UNCHANGED <<slice, reported>>
-----------------------------------------------------------------------------
ProjectionStart == reported = <<>> /\ columns = <<>> /\ step = "open"

ProjectionInit ==
  /\ slice \in [reader: Readers, table: Tables, names: Requests,
                mapped: BOOLEAN, rows: BOOLEAN]
  /\ ProjectionStart

ProjectionNext == OpenColumns \/ ReadColumns \/ OrderColumns

ProjectionSpec == ProjectionInit /\ [][ProjectionNext]_projectionVars
-----------------------------------------------------------------------------
(* Properties. *)

\* Files whose columns are their own leaves.
Flat == \A c \in DOMAIN Table : Table[c].leaves = <<Table[c].name>>

\* Whatever the reader made of the request, mapped or not, with rows or without:
\* the columns are those of the file with the names asked for, whole, in the
\* order of the request and as often as asked, and a call fails if and only if a
\* name is missing (slice.rs:185-470).  Nested columns of Parquet are set apart.
ColumnsAsAsked ==
  slice.reader # "parquet" \/ Flat =>
    /\ step = "done"  => HasAll /\ columns = AsAsked
    /\ step = "error" => ~HasAll

\* "All slice_cols calls preserve requested order and error if a field is
\* missing" (docs/en/architecture/formats.md:55): a call for columns the file
\* has does not fail.
PresentColumnsFound == step = "error" => ~HasAll
=============================================================================
