----------------------------- MODULE ObjectRows -----------------------------
(***************************************************************************)
(* Formats read object by object: the values of a MessagePack file         *)
(* (formats/plugins/adapters/msgpack.rs) and the rows of a worksheet       *)
(* (excel.rs).  Their inspectors divide the objects into blocks of         *)
(* `stride' rows; their readers put them into batches with a RowChunker    *)
(* (base_templates/row_chunker.rs), from the start of the file or from a   *)
(* block.  Whoever pulls the batches may go on after an error, as the lake *)
(* writer and Python programs do, or stop, as slices and the splitter do.  *)
(*                                                                         *)
(* A byte offset of a MessagePack file is the number of values before it;  *)
(* a value is "bad" if it cannot be decoded, "empty" if it is a map        *)
(* without keys.  The first row of a worksheet is its header.              *)
(***************************************************************************)
EXTENDS Integers, SequencesExt

CONSTANTS
  MaxObjects,    \* bound: values or worksheet rows in the file
  ObjectStrides, \* checkpoint_stride_rows
  ChunkSizes     \* batch_size after clamp_batch_size

ASSUME ObjectsAssumption ==
  /\ MaxObjects \in Nat
  /\ ObjectStrides \subseteq Nat \ {0}
  /\ ChunkSizes \subseteq Nat \ {0}

VARIABLES
  objects, \* the file: its kind and its values; the stride, the batch size
  look,    \* the inspector: position, current block, has it seen a map
  blocks,  \* the blocks it has recorded
  checked, \* "going", "done" or "failed"
  chunker, \* the reader's position, is it done, the rows it holds
  opened,  \* where the reader was opened
  given,   \* the batches pulled
  stage    \* "inspect", "idle", "read", "error", "refused", "end" or "stopped"

objectVars == <<objects, look, blocks, checked, chunker, opened, given, stage>>

Values == objects.values
Size   == Len(Values)

NoStart == -1

ObjectTypeOK ==
  /\ objects \in [kind: {"msgpack", "sheet"}, values: Seq({"map", "empty", "other", "bad"}),
                  stride: ObjectStrides, batch: ChunkSizes]
  /\ look \in [at: 0 .. Size, first: Nat, count: 0 .. objects.stride - 1,
               start: -1 .. Size - 1, found: BOOLEAN]
  /\ blocks \in Seq([first: Nat, count: 1 .. objects.stride, byte: 0 .. Size])
  /\ checked \in {"going", "done", "failed"}
  /\ chunker \in [at: Nat, done: BOOLEAN, buffer: Seq(1 .. Size)]
  /\ Len(chunker.buffer) <= objects.batch
  /\ opened \in Nat
  /\ given \in Seq(Seq(1 .. Size))
  /\ stage \in {"inspect", "idle", "read", "error", "refused", "end", "stopped"}
-----------------------------------------------------------------------------
(* The inspectors. *)

Record(count, byte) ==
  blocks' = Append(blocks, [first |-> look.first, count |-> count, byte |-> byte])

\* Mutated: values before the first map are rows.
InspectObjectAll ==
  /\ stage = "inspect" /\ objects.kind = "msgpack"
  /\ look.at < Size /\ Values[look.at + 1] # "bad"
  /\ LET start == IF look.start = NoStart THEN look.at ELSE look.start
         full  == look.count + 1 = objects.stride
     IN  /\ IF full THEN Record(objects.stride, start) ELSE UNCHANGED blocks
         /\ look' = [at    |-> look.at + 1, found |-> TRUE,
                     first |-> IF full THEN look.first + objects.stride ELSE look.first,
                     count |-> IF full THEN 0 ELSE look.count + 1,
                     start |-> IF full THEN NoStart ELSE start]
  /\ UNCHANGED <<objects, checked, chunker, opened, given, stage>>

\* inspect_msgpack_blocks, one value: from the first map on each is a row.
InspectObject ==
  /\ stage = "inspect" /\ objects.kind = "msgpack"
  /\ look.at < Size /\ Values[look.at + 1] # "bad"
  /\ IF ~look.found /\ Values[look.at + 1] = "other"
       THEN look' = [look EXCEPT !.at = @ + 1] /\ UNCHANGED blocks
       ELSE LET start == IF look.start = NoStart THEN look.at ELSE look.start
                full  == look.count + 1 = objects.stride
            IN  /\ IF full THEN Record(objects.stride, start) ELSE UNCHANGED blocks
                /\ look' = [at    |-> look.at + 1, found |-> TRUE,
                            first |-> IF full THEN look.first + objects.stride ELSE look.first,
                            count |-> IF full THEN 0 ELSE look.count + 1,
                            start |-> IF full THEN NoStart ELSE start]
  /\ UNCHANGED <<objects, checked, chunker, opened, given, stage>>

\* Mutated: what follows a value that cannot be decoded is left out.
InspectBadLeniently ==
  /\ stage = "inspect" /\ objects.kind = "msgpack"
  /\ look.at < Size /\ Values[look.at + 1] = "bad"
  /\ IF look.count > 0 THEN Record(look.count, look.start) ELSE UNCHANGED blocks
  /\ checked' = "done" /\ stage' = "idle"
  /\ UNCHANGED <<objects, look, chunker, opened, given>>

\* A value that cannot be decoded ends the inspection: no entry.
InspectBad ==
  /\ stage = "inspect" /\ objects.kind = "msgpack"
  /\ look.at < Size /\ Values[look.at + 1] = "bad"
  /\ checked' = "failed" /\ stage' = "idle"
  /\ UNCHANGED <<objects, look, blocks, chunker, opened, given>>

\* The end of the file closes the last block.
InspectLast ==
  /\ stage = "inspect" /\ objects.kind = "msgpack"
  /\ look.at = Size
  /\ IF look.count > 0 THEN Record(look.count, look.start) ELSE UNCHANGED blocks
  /\ checked' = "done" /\ stage' = "idle"
  /\ UNCHANGED <<objects, look, chunker, opened, given>>

\* The rows of a worksheet the scan has counted: all but the header.
SheetRows == IF Size = 0 THEN 0 ELSE Size - 1

\* One turn of inspect_xlsx_row_groups; its blocks have no byte.
InspectSheet ==
  /\ stage = "inspect" /\ objects.kind = "sheet"
  /\ LET left == SheetRows - look.first
         rows == IF left < objects.stride THEN left ELSE objects.stride
     IN  IF left = 0
           THEN checked' = "done" /\ stage' = "idle" /\ UNCHANGED <<blocks, look>>
           ELSE /\ Record(rows, 0)
                /\ look' = [look EXCEPT !.first = @ + rows]
                /\ UNCHANGED <<checked, stage>>
  /\ UNCHANGED <<objects, chunker, opened, given>>
-----------------------------------------------------------------------------
(* The readers. *)

\* Values in front of the first map.
Leading == {i \in DOMAIN Values : \A j \in 1 .. i : Values[j] = "other"}
Lead    == Cardinality(Leading)

OpenAt(p) ==
  /\ stage' = "read"
  /\ opened' = p
  /\ chunker' = [chunker EXCEPT !.at = p]
  /\ UNCHANGED <<objects, look, blocks, checked, given>>

\* MsgpackHandler::open drops the values before the first map and fails if one
\* of them cannot be decoded; open_xlsx_source passes the header.
Open ==
  /\ stage = "idle"
  /\ CASE objects.kind = "sheet" -> OpenAt(1)
       [] objects.kind = "msgpack" ->
            IF Lead < Size /\ Values[Lead + 1] = "bad"
              THEN /\ stage' = "refused"
                   /\ UNCHANGED <<objects, look, blocks, checked, chunker, opened, given>>
              ELSE OpenAt(Lead)

\* Where the reader of block b starts; Len(blocks) + 1 is the end of the file.
StartOf(b) ==
  CASE objects.kind = "sheet" ->
         1 + (IF b > Len(blocks) THEN SheetRows ELSE blocks[b].first)
    [] objects.kind = "msgpack" -> IF b > Len(blocks) THEN Size ELSE blocks[b].byte

\* read_msgpack_range and read_xlsx_range: no value is dropped.  Files without
\* rows have no blocks and are not read this way.
OpenMapped ==
  /\ stage = "idle" /\ checked = "done" /\ blocks # <<>>
  /\ \E b \in 1 .. Len(blocks) + 1 : OpenAt(StartOf(b))

\* Mutated: the limit is tested after the row is taken.
WantsOneMore == stage = "read" /\ Len(chunker.buffer) <= objects.batch

\* The loop of RowChunker::next goes on.
Wants == stage = "read" /\ Len(chunker.buffer) < objects.batch

\* The rows have no more to give.
Exhausted == chunker.done \/ chunker.at >= Size

\* RowChunker::next takes one more row.
PullRow ==
  /\ Wants /\ ~Exhausted /\ Values[chunker.at + 1] # "bad"
  /\ chunker' = [chunker EXCEPT !.at = @ + 1, !.buffer = Append(@, chunker.at + 1)]
  /\ UNCHANGED <<objects, look, blocks, checked, opened, given, stage>>

\* Mutated: the rows pulled before the error are given up with it.
PullBadClearing ==
  /\ Wants /\ ~Exhausted /\ Values[chunker.at + 1] = "bad"
  /\ chunker' = [chunker EXCEPT !.done = TRUE, !.buffer = <<>>]
  /\ stage' = "error"
  /\ UNCHANGED <<objects, look, blocks, checked, opened, given>>

\* An error is returned at once; the rows pulled before it stay in the buffer
\* and MsgpackValues has no more to come.
PullBad ==
  /\ Wants /\ ~Exhausted /\ Values[chunker.at + 1] = "bad"
  /\ chunker' = [chunker EXCEPT !.done = TRUE]
  /\ stage' = "error"
  /\ UNCHANGED <<objects, look, blocks, checked, opened, given>>

\* The columns are the keys of the first map or the cells of the header.
HasColumns ==
  \/ objects.kind = "sheet"
  \/ Lead < Size /\ Values[Lead + 1] = "map"

\* A batch, full or the last one.
Deliver ==
  /\ stage = "read" /\ (~Wants \/ Exhausted) /\ chunker.buffer # <<>>
  /\ HasColumns
  /\ given' = Append(given, chunker.buffer)
  /\ chunker' = [chunker EXCEPT !.buffer = <<>>]
  /\ UNCHANGED <<objects, look, blocks, checked, opened, stage>>

\* A batch without a column cannot be made; its rows go with the error.
DeliverError ==
  /\ stage = "read" /\ (~Wants \/ Exhausted) /\ chunker.buffer # <<>>
  /\ ~HasColumns
  /\ chunker' = [chunker EXCEPT !.buffer = <<>>]
  /\ stage' = "error"
  /\ UNCHANGED <<objects, look, blocks, checked, opened, given>>

\* None.
Finish ==
  /\ stage = "read" /\ Exhausted /\ chunker.buffer = <<>>
  /\ stage' = "end"
  /\ UNCHANGED <<objects, look, blocks, checked, chunker, opened, given>>

\* The caller asks for another batch after an error, or does not.
AfterError ==
  /\ stage = "error"
  /\ stage' \in {"read", "stopped"}
  /\ UNCHANGED <<objects, look, blocks, checked, chunker, opened, given>>
-----------------------------------------------------------------------------
SeqsUpTo(S, n) == UNION {[1 .. k -> S] : k \in 0 .. n}

ObjectStart ==
  /\ look = [at |-> 0, first |-> 0, count |-> 0, start |-> NoStart, found |-> FALSE]
  /\ blocks = <<>> /\ checked = "going"
  /\ chunker = [at |-> 0, done |-> FALSE, buffer |-> <<>>]
  /\ opened = 0 /\ given = <<>> /\ stage = "inspect"

ObjectInit ==
  /\ objects \in
       [kind: {"msgpack"}, values: SeqsUpTo({"map", "empty", "other", "bad"}, MaxObjects),
        stride: ObjectStrides, batch: ChunkSizes]
       \cup [kind: {"sheet"}, values: SeqsUpTo({"map"}, MaxObjects),
             stride: ObjectStrides, batch: ChunkSizes]
  /\ ObjectStart

ObjectNext ==
  \/ InspectObject \/ InspectBad \/ InspectLast \/ InspectSheet
  \/ Open \/ OpenMapped
  \/ PullRow \/ PullBad \/ Deliver \/ DeliverError \/ Finish \/ AfterError

ObjectSpec == ObjectInit /\ [][ObjectNext]_objectVars
-----------------------------------------------------------------------------
(* Properties. *)

\* The values that can be decoded from position p on, in order.
RowsFrom(p) ==
  LET good == {i \in p + 1 .. Size : \A j \in p + 1 .. i : Values[j] # "bad"}
  IN  [k \in 1 .. Cardinality(good) |-> p + k]

\* The rows of the file: a header is none, nor is what precedes the first map.
FileRows == RowsFrom(IF objects.kind = "sheet" THEN 1 ELSE Lead)

\* A block's reader goes on with exactly the rows the file has from the block's
\* first row on, and the blocks tile the rows: what is dropped in front of the
\* first map by the reader is also left out by the inspector
\* (msgpack.rs:97-151, 192-205; inspect.rs:346-366).
BlocksHold ==
  checked = "done" =>
    /\ \A b \in DOMAIN blocks :
         /\ RowsFrom(StartOf(b)) = SubSeq(FileRows, blocks[b].first + 1, Len(FileRows))
         /\ blocks[b].first = (b - 1) * objects.stride
         /\ b < Len(blocks) => blocks[b].count = objects.stride
    /\ (IF blocks = <<>> THEN 0 ELSE Last(blocks).first + Last(blocks).count)
         = Len(FileRows)

\* An inspected file is one the reader can read to its end, and a file whose
\* inspection fails is one its reader refuses.  Maps without keys are set apart:
\* they have rows and no columns (msgpack.rs:115-116, 51-59, 195-196).
DamageAgreed ==
  /\ checked = "done" /\ HasColumns => stage \notin {"refused", "error", "stopped"}
  /\ checked = "failed" /\ stage = "end" => chunker.done

\* Inspector and reader agree on the rows of a file, on where its blocks start
\* and on whether it is damaged (msgpack.rs:97-205; excel.rs; inspect.rs:346-366).
ObjectBlocksRight == BlocksHold /\ DamageAgreed

\* The row a batch follows: the one before the reader's first, or the last row
\* of the batch before it.
Behind(n) == IF n = 1 THEN opened ELSE Last(given[n - 1])

\* A batch, or the buffer, holds the rows that follow row p.
Follows(batch, p) == \A k \in DOMAIN batch : batch[k] = p + k

\* The batches hold every row that can be decoded once and in order, and all but
\* the last are full.  A bad value costs a caller who goes on no row, and one
\* who stops less than a batch (row_chunker.rs:36-50).
ChunksRight ==
  stage \in {"read", "error", "end", "stopped"} /\ HasColumns =>
    LET pulled == Behind(Len(given) + 1) + Len(chunker.buffer)
        last   == opened + Len(RowsFrom(opened))
    IN  /\ \A n \in DOMAIN given : given[n] # <<>> /\ Follows(given[n], Behind(n))
        /\ Follows(chunker.buffer, Behind(Len(given) + 1))
        /\ IF stage \in {"end", "stopped"} THEN pulled = last ELSE pulled <= last
        /\ stage = "stopped" => Len(chunker.buffer) < objects.batch
        /\ \A n \in 1 .. Len(given) - 1 : Len(given[n]) = objects.batch
        /\ given # <<>> /\ Len(Last(given)) < objects.batch => Exhausted
-----------------------------------------------------------------------------
(* The inductive invariants behind ObjectBlocksRight and ChunksRight. *)

\* A worksheet has no value that cannot be decoded.
SheetsAreSound == objects.kind = "sheet" => \A i \in DOMAIN Values : Values[i] = "map"

NoneBad(p, q) == \A i \in p + 1 .. q : i <= Size /\ Values[i] # "bad"

\* Blocks that tile the first n rows.
BlocksTile(list, n) ==
  /\ \A b \in DOMAIN list :
       /\ list[b].first = (b - 1) * objects.stride
       /\ b < Len(list) => list[b].count = objects.stride
       /\ objects.kind = "msgpack" => list[b].byte = Lead + list[b].first
       /\ list[b].first + list[b].count <= n
  /\ (IF list = <<>> THEN 0 ELSE Last(list).first + Last(list).count) = n

\* The inspector has passed at values, none of them bad, of which those behind
\* the first map are in its blocks or counted.
LookSoFar ==
  stage = "inspect" =>
    /\ checked = "going" /\ BlocksTile(blocks, look.first)
    /\ objects.kind = "sheet" =>
         /\ look.first <= SheetRows
         /\ look.first < SheetRows => look.first = Len(blocks) * objects.stride
    /\ objects.kind = "msgpack" =>
         /\ look.first = Len(blocks) * objects.stride
         /\ NoneBad(0, look.at)
         /\ look.found <=> look.at > Lead
         /\ look.found  => look.first + look.count = look.at - Lead
         /\ ~look.found => look.first = 0 /\ look.count = 0
         /\ look.start = IF look.count = 0 THEN NoStart ELSE Lead + look.first

\* What the inspection came to.
LookEnded ==
  stage # "inspect" =>
    /\ checked = "done" => NoneBad(0, Size) /\ BlocksTile(blocks, Len(FileRows))
    /\ checked = "failed" =>
         /\ objects.kind = "msgpack"
         /\ \E i \in DOMAIN Values : Values[i] = "bad"
    /\ checked # "going"

\* The reader has pulled the rows from where it was opened on.
PulledSoFar ==
  stage \in {"read", "error", "end", "stopped"} =>
    /\ opened <= chunker.at /\ NoneBad(opened, chunker.at)
    /\ chunker.done => chunker.at < Size /\ Values[chunker.at + 1] = "bad"
    /\ stage = "end" => Exhausted /\ chunker.buffer = <<>>
    /\ checked = "failed" => opened = Lead

\* They are in the batches, in order, or in the buffer.
GivenSoFar ==
  stage \in {"read", "error", "end", "stopped"} /\ HasColumns =>
    /\ chunker.at = Behind(Len(given) + 1) + Len(chunker.buffer)
    /\ \A n \in DOMAIN given :
         /\ given[n] # <<>> /\ Len(given[n]) <= objects.batch
         /\ Follows(given[n], Behind(n))
    /\ Follows(chunker.buffer, Behind(Len(given) + 1))
    /\ stage \in {"error", "stopped"} =>
         chunker.done /\ Len(chunker.buffer) < objects.batch
    /\ \A n \in 1 .. Len(given) - 1 : Len(given[n]) = objects.batch
    /\ given # <<>> /\ Len(Last(given)) < objects.batch =>
         Exhausted /\ chunker.buffer = <<>>

UnreadSoFar == stage \in {"inspect", "idle", "refused"} =>
  /\ chunker = [at |-> 0, done |-> FALSE, buffer |-> <<>>] /\ given = <<>>

ObjectInv ==
  /\ SheetsAreSound /\ LookSoFar /\ LookEnded /\ UnreadSoFar /\ PulledSoFar
  /\ GivenSoFar /\ DamageAgreed
=============================================================================
