----------------------------- MODULE SliceRows ------------------------------
(***************************************************************************)
(* One file: the inspector writes its row-group locators, then slices use  *)
(* them (ranges.rs) to start reading near the offset and stream forward    *)
(* (read_range_from_source).  A row is its number in the file, a byte      *)
(* offset the number of the row that starts there, the end of the file the *)
(* number of rows.  A batch that spans two Parquet row groups is two       *)
(* batches here; Parquet's own with_offset / with_limit skip and stop as   *)
(* read_range_from_source does.                                            *)
(***************************************************************************)
EXTENDS Integers, Sequences

CONSTANTS
  Totals,      \* row counts a file may have
  Offsets,     \* offsets a caller may ask for
  Limits,      \* limits a caller may ask for
  Kinds,       \* kinds of files
  Strides,     \* checkpoint_stride_rows (NonZeroUsize)
  GroupSizes,  \* rows of a Parquet row group, ORC stripe, Avro block, IPC batch
  BatchSizes,  \* rows of a decoded batch, empty ones included
  MaxGroups    \* bound: a group without rows is one of the first MaxGroups

\* lines: NDJSON, MessagePack, CSV, TSV, PSV, TXT;  array: a JSON array;
\* stripes: ORC, Avro;  sheet: XLSX;  batches: Arrow IPC, Feather.
AllKinds == {"lines", "array", "stripes", "sheet", "parquet", "batches"}

ASSUME RowsAssumption ==
  /\ Totals \subseteq Nat
  /\ Offsets \subseteq Nat
  /\ Limits \subseteq Nat
ASSUME LayoutAssumption ==
  /\ Kinds \subseteq AllKinds
  /\ Strides \subseteq Nat \ {0}
  /\ GroupSizes \subseteq Nat
  /\ BatchSizes \subseteq Nat
  /\ MaxGroups \in Nat

VARIABLES
  file,        \* the file: its rows, kind and checkpoint stride
  groups,      \* row_groups_json: the locators in ordinal order
  first_row,   \* inspector: first row of the current block
  row_count,   \* inspector: rows of the current block
  block_start, \* inspector: where the current block starts
  pc,
  ask,         \* the range asked for
  source,      \* where the opened reader is: see Opened
  skipped,     \* rows of the batches seen so far
  collected,   \* rows taken so far
  out          \* rows taken so far, out[k] the number of the k-th

inspectVars == <<groups, first_row, row_count, block_start>>
readVars    == <<source, skipped, collected, out>>
vars == <<file, groups, first_row, row_count, block_start, pc, ask,
          source, skipped, collected, out>>

Smaller(a, b) == IF a < b THEN a ELSE b        \* min
Less(a, b)    == IF a > b THEN a - b ELSE 0      \* saturating_sub

NoBlock  == [set |-> FALSE, row |-> 0]
Block(r) == [set |-> TRUE, row |-> r]

RowGroupLocation == [first_row: Nat, row_count: Nat, first_byte: Nat]

End(g) == groups[g].first_row + groups[g].row_count

\* A reader: next row it yields, end of the piece it is in, the row groups it
\* still has to read (Parquet only), rows to skip, and where it was opened.
Opened(next, stop, rest, skip) ==
  [next |-> next, stop |-> stop, group |-> 0, rest |-> rest, skip |-> skip,
   from |-> next]

Closed == Opened(0, 0, {}, 0)

TypeOK ==
  /\ file \in [total: Nat, kind: Kinds, stride: Strides]
  /\ groups \in Seq(RowGroupLocation)
  /\ first_row \in Nat /\ row_count \in Nat
  /\ block_start \in [set: BOOLEAN, row: Nat]
  /\ pc \in {"inspect", "idle", "read", "done", "failed"}
  /\ ask \in [offset: Nat, limit: Nat]
  /\ source \in [next: Nat, stop: Nat, group: Nat, rest: SUBSET Nat, skip: Nat,
                 from: Nat]
  /\ skipped \in Nat /\ collected \in Nat
  /\ out \in [0 .. (collected - 1) -> Nat]
-----------------------------------------------------------------------------
(* inspect.rs: the locators. *)

Strided  == file.kind \in {"lines", "array"}
Physical == file.kind \in {"stripes", "parquet", "batches"}

Push(first, count, byte) ==
  groups' = Append(groups, [first_row |-> first, row_count |-> count,
                            first_byte |-> byte])

\* Mutated: the next block starts where the last one did.
InspectRowStuck ==
  /\ pc = "inspect" /\ Strided
  /\ first_row + row_count < file.total
  /\ LET start == IF block_start.set THEN block_start.row
                                     ELSE first_row + row_count
     IN IF row_count + 1 = file.stride
          THEN /\ Push(first_row, row_count + 1, start)
               /\ first_row' = first_row + row_count + 1
               /\ row_count' = 0
               /\ UNCHANGED block_start
          ELSE /\ row_count' = row_count + 1
               /\ block_start' = Block(start)
               /\ UNCHANGED <<groups, first_row>>
  /\ UNCHANGED <<file, pc, ask, readVars>>

\* One row of NDJSON, JSON array, MessagePack or delimited text.
InspectRow ==
  /\ pc = "inspect" /\ Strided
  /\ first_row + row_count < file.total
  /\ LET start == IF block_start.set THEN block_start.row
                                     ELSE first_row + row_count
     IN IF row_count + 1 = file.stride
          THEN /\ Push(first_row, row_count + 1, start)
               /\ first_row' = first_row + row_count + 1
               /\ row_count' = 0
               /\ block_start' = NoBlock
          ELSE /\ row_count' = row_count + 1
               /\ block_start' = Block(start)
               /\ UNCHANGED <<groups, first_row>>
  /\ UNCHANGED <<file, pc, ask, readVars>>

\* One Parquet row group, ORC stripe or Avro block of the file's metadata, or
\* one IPC batch of the scan.
InspectGroup(n) ==
  /\ pc = "inspect" /\ Physical
  /\ n = 0 => Len(groups) < MaxGroups
  /\ first_row + n <= file.total
  /\ Push(first_row, n, first_row)
  /\ first_row' = first_row + n
  /\ UNCHANGED <<file, row_count, block_start, pc, ask, readVars>>

\* One turn of inspect_xlsx_row_groups, which knows the number of rows.
InspectBlock ==
  /\ pc = "inspect" /\ file.kind = "sheet"
  /\ first_row < file.total
  /\ LET n == Smaller(file.stride, file.total - first_row)
     IN /\ Push(first_row, n, 0)
        /\ first_row' = first_row + n
  /\ UNCHANGED <<file, row_count, block_start, pc, ask, readVars>>

\* End of the file: what is left is a last, shorter block.
InspectEnd ==
  /\ pc = "inspect"
  /\ first_row + row_count = file.total
  /\ IF row_count > 0
       THEN Push(first_row, row_count, block_start.row)
       ELSE UNCHANGED groups
  /\ first_row' = file.total
  /\ row_count' = 0
  /\ block_start' = NoBlock
  /\ pc' = "idle"
  /\ UNCHANGED <<file, ask, readVars>>
-----------------------------------------------------------------------------
(* ranges.rs: which reader to open, and how many rows it must skip. *)

Holds(g, row) == groups[g].first_row <= row /\ row < End(g)

\* iter().find: the first group that holds the row.
Found(row) ==
  CHOOSE g \in DOMAIN groups :
    Holds(g, row) /\ \A h \in DOMAIN groups : Holds(h, row) => g <= h

First(S) == CHOOSE g \in S : \A h \in S : g <= h

\* The streaming fallback: from the first row, skip offset rows.
Direct(o) == Opened(0, file.total, {}, o)

\* resolve_byte_checkpoint.  The inspectors of these kinds give every group its
\* first_byte.
ByteCheckpoint(o) ==
  IF o >= file.total
    THEN Opened(file.total, file.total, {}, 0)
  ELSE IF \E g \in DOMAIN groups : Holds(g, o)
    THEN Opened(groups[Found(o)].first_byte, file.total, {},
                Less(o, groups[Found(o)].first_row))
    ELSE Direct(o)

\* resolve_xlsx_range
SheetBlock(o) ==
  IF o >= file.total
    THEN Opened(file.total, file.total, {}, 0)
  ELSE IF \E g \in DOMAIN groups : Holds(g, o)
    THEN Opened(groups[Found(o)].first_row, file.total, {},
                Less(o, groups[Found(o)].first_row))
    ELSE Direct(o)

\* resolve_arrow_ipc_range, which finds nothing past the end.  Batch number g of
\* the file starts with its first row.
IpcBatch(o) ==
  IF o < file.total /\ \E g \in DOMAIN groups : Holds(g, o)
    THEN Opened(groups[Found(o)].first_row, file.total, {},
                Less(o, groups[Found(o)].first_row))
    ELSE Direct(o)

Selected(o, l) ==
  {g \in DOMAIN groups :
     groups[g].first_row < Smaller(o + l, file.total) /\ End(g) > o}

\* Mutated: a group that ends before the last row asked for is left out.
RowGroupsShort(o, l) ==
  IF o >= file.total \/ Selected(o, l) = {}
    THEN Opened(file.total, file.total, {}, 0)
    ELSE LET g == First(Selected(o, l)) IN
         [Opened(groups[g].first_row, End(g),
                 {h \in Selected(o, l) \ {g} : End(h) <= o + l},
                 Less(o, groups[g].first_row)) EXCEPT !.group = g]

\* resolve_parquet_range: only the row groups that intersect the range.
RowGroups(o, l) ==
  IF o >= file.total \/ Selected(o, l) = {}
    THEN Opened(file.total, file.total, {}, 0)
    ELSE LET g == First(Selected(o, l)) IN
         [Opened(groups[g].first_row, End(g), Selected(o, l) \ {g},
                 Less(o, groups[g].first_row)) EXCEPT !.group = g]

Resolved(o, l) ==
  CASE groups = <<>>                               -> Direct(o)
    [] groups # <<>> /\ file.kind = "parquet"      -> RowGroups(o, l)
    [] groups # <<>> /\ file.kind = "sheet"        -> SheetBlock(o)
    [] groups # <<>> /\ file.kind = "batches"      -> IpcBatch(o)
    [] groups # <<>> /\ file.kind \in {"lines", "array", "stripes"}
                                                   -> ByteCheckpoint(o)

\* slice_rows(offset, limit), healthy: resolve_healthy_map_entry returned the entry.
Slice(o, l, healthy) ==
  /\ pc = "idle"
  /\ pc' = "read"
  /\ ask' = [offset |-> o, limit |-> l]
  /\ source' = IF l > 0 /\ healthy THEN Resolved(o, l) ELSE Direct(o)
  /\ skipped' = 0
  /\ collected' = 0
  /\ out' = <<>>
  /\ UNCHANGED <<file, inspectVars>>
-----------------------------------------------------------------------------
(* formats/mod.rs: read_range_from_source. *)

\* A limit of zero rows: an empty batch, nothing is decoded.
ReadNothing ==
  /\ pc = "read"
  /\ ask.limit = 0
  /\ pc' = "done"
  /\ UNCHANGED <<file, inspectVars, ask, readVars>>

\* Takes rows start .. start+take-1 of the next batch, of n rows.
Take(n, start, take) ==
  /\ collected' = collected + take
  /\ out' = [k \in 0 .. (collected + take - 1) |->
               IF k < collected THEN out[k]
                                ELSE source.next + start + (k - collected)]
  /\ pc' = IF collected + take >= ask.limit THEN "done" ELSE "read"

NextBatch(n) ==
  /\ pc = "read"
  /\ ask.limit > 0
  /\ source.next + n <= source.stop
  /\ source' = [source EXCEPT !.next = @ + n]
  /\ skipped' = skipped + n
  /\ UNCHANGED <<file, inspectVars, ask>>

\* Mutated: a batch that lies before the range is not passed over.
ReadBatchUnskipped(n) ==
  LET start == Less(source.skip, skipped)
      take  == Smaller(ask.limit - collected, n - start)
  IN NextBatch(n) /\ Take(n, start, take)

\* One turn of the loop: pass over the batch, or slice what the range needs.
ReadBatch(n) ==
  LET start == Less(source.skip, skipped)
      take  == Smaller(ask.limit - collected, n - start)
  IN /\ NextBatch(n)
     /\ IF skipped + n <= source.skip
          THEN UNCHANGED <<collected, out, pc>>
          ELSE Take(n, start, take)

\* The Parquet reader goes on with the next selected row group.
NextGroup ==
  /\ pc = "read"
  /\ ask.limit > 0
  /\ source.next = source.stop
  /\ source.rest # {}
  /\ LET g == First(source.rest) IN
       source' = [source EXCEPT !.next = groups[g].first_row, !.stop = End(g),
                                !.group = g, !.rest = @ \ {g}]
  /\ UNCHANGED <<file, inspectVars, pc, ask, skipped, collected, out>>

\* JsonArrayStream::from_offset at the end of the file has passed the closing
\* bracket: it answers with UnexpectedEof.
PastBracket ==
  file.kind = "array" /\ source.from = file.total /\ file.total > 0

\* Mutated: a source that ends before the limit is reached is an error.
EndOfSourceShort ==
  /\ pc = "read"
  /\ ask.limit > 0
  /\ source.next = source.stop
  /\ source.rest = {}
  /\ pc' = IF file.total > 0 THEN "failed" ELSE "done"
  /\ UNCHANGED <<file, inspectVars, ask, readVars>>

EndOfSource ==
  /\ pc = "read"
  /\ ask.limit > 0
  /\ source.next = source.stop
  /\ source.rest = {}
  /\ pc' = IF PastBracket THEN "failed" ELSE "done"
  /\ UNCHANGED <<file, inspectVars, ask, readVars>>

\* The caller has the rows and may ask again.
Collect ==
  /\ pc \in {"done", "failed"}
  /\ pc' = "idle"
  /\ ask' = [offset |-> 0, limit |-> 0]
  /\ source' = Closed
  /\ skipped' = 0
  /\ collected' = 0
  /\ out' = <<>>
  /\ UNCHANGED <<file, inspectVars>>
-----------------------------------------------------------------------------
Init ==
  /\ file \in [total: Totals, kind: Kinds, stride: Strides]
  /\ groups = <<>>
  /\ first_row = 0
  /\ row_count = 0
  /\ block_start = NoBlock
  /\ pc = "inspect"
  /\ ask = [offset |-> 0, limit |-> 0]
  /\ source = Closed
  /\ skipped = 0
  /\ collected = 0
  /\ out = <<>>

Inspect ==
  \/ InspectRow
  \/ \E n \in GroupSizes : InspectGroup(n)
  \/ InspectBlock
  \/ InspectEnd

Read ==
  \/ ReadNothing
  \/ \E n \in BatchSizes : ReadBatch(n)
  \/ NextGroup
  \/ EndOfSource

Next ==
  \/ Inspect
  \/ \E o \in Offsets, l \in Limits, healthy \in BOOLEAN : Slice(o, l, healthy)
  \/ Read
  \/ Collect

Spec == Init /\ [][Next]_vars
-----------------------------------------------------------------------------
(* Properties. *)

\* The contract of slice_rows, whatever reader is behind it.
Contract == INSTANCE RowSlice WITH
  total  <- file.total,
  phase  <- CASE pc \in {"inspect", "idle"} -> "idle"
              [] pc = "read"                -> "asked"
              [] pc = "done"                -> "answered"
              [] pc = "failed"              -> "failed",
  answer <- IF pc = "done" THEN out ELSE <<>>

\* slice_rows keeps its contract for every kind of file, layout, checkpoint
\* stride, batching and range, whether the map is used or not: the caller gets
\* the rows of the range, and an error only past the end (slice.rs, ranges.rs).
KeepsContract == Contract!Spec

\* A slice that returns rows returns exactly the rows of the range.
SliceRight == pc = "done" => out = Contract!Wanted(file.total, ask)

\* The locators of an inspected file tile its rows: in order, without a gap or
\* an overlap, each checkpoint at the first row of its block, and an offset
\* inside the file is always in one of them (inspect.rs:125-528).
LocatorsTile ==
  pc # "inspect" =>
    /\ \A g \in DOMAIN groups :
         /\ groups[g].first_row = IF g = 1 THEN 0 ELSE End(g - 1)
         /\ file.kind # "sheet" => groups[g].first_byte = groups[g].first_row
    /\ \A row \in 0 .. (file.total - 1) : \E g \in DOMAIN groups : Holds(g, row)
-----------------------------------------------------------------------------
(* The inductive invariant behind LocatorsTile and SliceRight.              *)

Groups == 1 .. Len(groups)

\* The locators so far tile the rows before the current block.
TiledSoFar ==
  /\ \A g \in Groups : groups[g].first_row = IF g = 1 THEN 0 ELSE End(g - 1)
  /\ \A g, h \in Groups : g < h => End(g) <= groups[h].first_row
  /\ \A g \in Groups : End(g) <= first_row
  /\ first_row = IF groups = <<>> THEN 0 ELSE End(Len(groups))
  /\ \A row \in 0..(first_row-1) : \E g \in Groups : Holds(g, row)
  /\ file.kind # "sheet" => \A g \in Groups : groups[g].first_byte = groups[g].first_row

\* The block being counted.
BlockSoFar ==
  /\ first_row + row_count <= file.total
  /\ row_count > 0 => Strided
  /\ block_start.set <=> row_count > 0
  /\ block_start.set => block_start.row = first_row
  /\ pc # "inspect" => first_row = file.total /\ row_count = 0

\* Where a reader for the range o, l may be, and what it has still to read.
Aimed(s, o, l) ==
  /\ s.stop <= file.total
  /\ o < file.total => s.from + s.skip = o
  /\ o >= file.total => s.from + s.skip >= file.total
  /\ s.group = 0 => s.stop = file.total /\ s.rest = {}
  /\ s.group # 0 => /\ o < file.total
                    /\ s.group \in Selected(o, l)
                    /\ s.stop = End(s.group)
                    /\ s.rest = {h \in Selected(o, l) : h > s.group}

ReadSoFar ==
  pc = "read" =>
    /\ Aimed(source, ask.offset, ask.limit)
    /\ source.next = source.from + skipped
    /\ source.next <= source.stop
    /\ collected = Less(skipped, source.skip)
    /\ ask.limit > 0 => collected < ask.limit
    /\ ask.limit = 0 => collected = 0
    /\ \A k \in 0 .. (collected - 1) : out[k] = ask.offset + k

SliceInv == TiledSoFar /\ BlockSoFar /\ ReadSoFar /\ SliceRight
=============================================================================
