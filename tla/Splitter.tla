------------------------------ MODULE Splitter ------------------------------
(***************************************************************************)
(* split_file_native (src/src/engine/splitter.rs): one pass over a source  *)
(* that cuts its rows into part files.  Rows are numbered in the order the *)
(* source delivers them, so a batch, the carry and a part are intervals    *)
(* [from, to) of row numbers.  The output directory outlives a call: a     *)
(* later call writes over the parts of an earlier one.                     *)
(***************************************************************************)
EXTENDS Naturals

CONSTANTS
  Limits,      \* values callers pass as max_rows_per_file
  BatchSizes,  \* rows a batch of the source may hold
  Formats,     \* output formats callers ask for
  Writable,    \* the formats write_batch_to_file knows
  MaxBatches,  \* bound: batches of a source
  MaxParts     \* bound: part files of a directory

ASSUME LimitsAssumption == Limits \subseteq Nat
ASSUME BatchesAssumption == BatchSizes \subseteq Nat
ASSUME SplitBoundsAssumption == MaxBatches \in Nat /\ MaxParts \in Nat

VARIABLES
  stage,    \* where the call is
  limit,    \* max_rows_per_file
  format,   \* output format
  batches,  \* batches read so far
  read,     \* rows read so far
  rows,     \* the batch in hand, the carry before it included, from "start" on
  carry,    \* rows kept for the next batch
  out,      \* the slice being written
  back,     \* where write_part returns to
  part,     \* part_index
  written,  \* total_written_parts
  dir       \* the part files of the output directory

pass      == <<batches, read>>
call      == <<limit, format>>
splitVars == <<stage, limit, format, batches, read, rows, carry, out, back, part,
               written, dir>>

Rows    == [from: Nat, to: Nat]
NoRows  == [from |-> 0, to |-> 0]
Parts   == 1 .. MaxParts
File    == [state: {"none", "created", "whole"}, rows: Rows]
IsEmpty(r) == r.from = r.to

SplitTypeOK ==
  /\ stage \in {"idle", "next", "cut", "create", "write", "done", "failed"}
  /\ limit \in Nat
  /\ format \in Formats
  /\ batches \in Nat /\ read \in Nat
  /\ rows \in Rows /\ carry \in Rows /\ out \in Rows
  /\ back \in {"cut", "done"}
  /\ part \in Nat /\ written \in Nat
  /\ dir \in [Parts -> File]
-----------------------------------------------------------------------------
Start(n, f) ==
  /\ stage = "idle"
  /\ stage' = "next"
  /\ limit' = n /\ format' = f
  /\ batches' = 0 /\ read' = 0
  /\ rows' = NoRows /\ carry' = NoRows /\ out' = NoRows
  /\ back' = "cut"
  /\ part' = 1 /\ written' = 0
  /\ UNCHANGED dir

\* Mutated: the carry is forgotten when the next batch arrives.
ReadBatchAlone(n) ==
  /\ stage = "next"
  /\ batches < MaxBatches
  /\ batches' = batches + 1
  /\ read' = read + n
  /\ rows' = [from |-> read, to |-> read + n]
  /\ carry' = NoRows
  /\ stage' = "cut"
  /\ UNCHANGED <<call, out, back, part, written, dir>>

\* The next batch, after the carry: concat_batches.
ReadBatch(n) ==
  /\ stage = "next"
  /\ batches < MaxBatches
  /\ batches' = batches + 1
  /\ read' = read + n
  /\ rows' = [from |-> IF IsEmpty(carry) THEN read ELSE carry.from, to |-> read + n]
  /\ carry' = NoRows
  /\ stage' = "cut"
  /\ UNCHANGED <<call, out, back, part, written, dir>>

Fail ==
  /\ stage' = "failed"
  /\ UNCHANGED <<call, pass, rows, carry, out, back, part, written, dir>>

ReadError == stage = "next" /\ Fail

\* write_part is called with this slice.
WriteRows(r, returnTo) ==
  /\ out' = r
  /\ back' = returnTo
  /\ stage' = "create"

CutPart ==
  /\ stage = "cut"
  /\ rows.from + limit <= rows.to
  /\ WriteRows([from |-> rows.from, to |-> rows.from + limit], "cut")
  /\ UNCHANGED <<call, pass, rows, carry, part, written, dir>>

\* Too few rows are left for a part.
KeepCarry ==
  /\ stage = "cut"
  /\ rows.to < rows.from + limit
  /\ carry' = IF IsEmpty(rows) THEN NoRows ELSE rows
  /\ stage' = "next"
  /\ UNCHANGED <<call, pass, rows, out, back, part, written, dir>>

\* The source has no more batches: the carry is the last part.
EndOfSource ==
  /\ stage = "next"
  /\ IF IsEmpty(carry)
       THEN stage' = "done" /\ UNCHANGED <<out, back>>
       ELSE WriteRows(carry, "done")
  /\ UNCHANGED <<call, pass, rows, carry, part, written, dir>>

\* File::create: whatever the part held before is gone.
CreatePart ==
  /\ stage = "create"
  /\ part \in Parts
  /\ dir' = [dir EXCEPT ![part] = [state |-> "created", rows |-> NoRows]]
  /\ stage' = "write"
  /\ UNCHANGED <<call, pass, rows, carry, out, back, part, written>>

\* Mutated: part_index is not advanced.
WritePartAgain ==
  /\ stage = "write"
  /\ format \in Writable
  /\ dir' = [dir EXCEPT ![part] = [state |-> "whole", rows |-> out]]
  /\ written' = written + 1
  /\ rows' = IF back = "cut" THEN [from |-> out.to, to |-> rows.to] ELSE rows
  /\ stage' = back
  /\ UNCHANGED <<call, pass, carry, out, back, part>>

\* Mutated: the loop continues without advancing "start".
WritePartStuck ==
  /\ stage = "write"
  /\ format \in Writable
  /\ dir' = [dir EXCEPT ![part] = [state |-> "whole", rows |-> out]]
  /\ written' = IF back = "cut" THEN written ELSE written + 1
  /\ stage' = back
  /\ UNCHANGED <<call, pass, rows, carry, out, back, part>>

WritePart ==
  /\ stage = "write"
  /\ format \in Writable
  /\ dir' = [dir EXCEPT ![part] = [state |-> "whole", rows |-> out]]
  /\ written' = written + 1
  /\ IF back = "cut"
       THEN rows' = [from |-> out.to, to |-> rows.to] /\ part' = part + 1
       ELSE UNCHANGED <<rows, part>>
  /\ stage' = back
  /\ UNCHANGED <<call, pass, carry, out, back>>

\* No file can be created, the format is unknown, the disk is full.
WriteError == stage \in {"create", "write"} /\ Fail

\* The caller has the result.
ReturnParts ==
  /\ stage \in {"done", "failed"}
  /\ stage' = "idle"
  /\ UNCHANGED <<call, pass, rows, carry, out, back, part, written, dir>>

SplitInit ==
  /\ stage = "idle"
  /\ limit = 0
  /\ format \in Formats
  /\ batches = 0 /\ read = 0
  /\ rows = NoRows /\ carry = NoRows /\ out = NoRows
  /\ back = "cut"
  /\ part = 1 /\ written = 0
  /\ dir = [k \in Parts |-> [state |-> "none", rows |-> NoRows]]

Work ==
  \/ \E n \in BatchSizes : ReadBatch(n)
  \/ ReadError
  \/ CutPart
  \/ KeepCarry
  \/ EndOfSource
  \/ CreatePart
  \/ WritePart
  \/ WriteError

SplitNext ==
  \/ \E n \in Limits, f \in Formats : Start(n, f)
  \/ Work
  \/ ReturnParts

SplitSpec == SplitInit /\ [][SplitNext]_splitVars
SplitFairSpec == SplitSpec /\ WF_splitVars(Work)
-----------------------------------------------------------------------------
(* Properties. *)

\* Parts 1 to n hold the rows from 0 up to "end" without a gap, an overlap or
\* an empty part, and no more than max_rows_per_file each.
Tiled(n, end) ==
  /\ \A k \in 1 .. n :
       /\ k \in Parts
       /\ dir[k].state = "whole"
       /\ dir[k].rows.from < dir[k].rows.to
       /\ dir[k].rows.to <= dir[k].rows.from + limit
       /\ k = 1 => dir[k].rows.from = 0
       /\ k > 1 => dir[k].rows.from = dir[k - 1].rows.to
       /\ k = n => dir[k].rows.to = end
  /\ n = 0 => end = 0

\* The call returns the number of parts it wrote, and those parts, whatever an
\* earlier call left in the directory, hold each row of the source once and in
\* order; all but the last are full (splitter.rs:16-66).
SplitRight ==
  stage = "done" /\ limit > 0 =>
    /\ Tiled(written, read)
    /\ \A k \in 1 .. (written - 1) : dir[k].rows.to = dir[k].rows.from + limit

\* What a call that failed leaves behind is a prefix of the rows in order, cut
\* after a full part.
FailureLeavesPrefix ==
  stage = "failed" /\ limit > 0 =>
    /\ \A k \in 1 .. written : dir[k].rows.to = dir[k].rows.from + limit
    /\ written = 0 \/ Tiled(written, dir[written].rows.to)

\* A call that was asked for parts of at least one row comes to an end.
SplitEnds == limit > 0 /\ stage # "idle" ~> stage \in {"done", "failed"}
-----------------------------------------------------------------------------
(* The inductive invariant behind SplitRight and FailureLeavesPrefix: what is *)
(* on disk, what is in hand and what the source has left follow each other.   *)

\* Rows that are on disk: those before the slice or the batch in hand.
OnDisk ==
  CASE stage = "next"               -> IF IsEmpty(carry) THEN read ELSE carry.from
    [] stage = "cut"                -> rows.from
    [] stage \in {"create", "write"} -> out.from
    [] OTHER                        -> read

FullParts(n) == \A k \in 1 .. n : dir[k].rows.to = dir[k].rows.from + limit

InHand ==
  /\ stage = "next" /\ ~IsEmpty(carry) =>
       carry.from < carry.to /\ carry.to = read /\ carry.to < carry.from + limit
  /\ stage = "cut" => rows.from <= rows.to /\ rows.to = read /\ IsEmpty(carry)
  /\ stage \in {"create", "write"} =>
       /\ out.from < out.to
       /\ out.to <= out.from + limit
       /\ back = "cut" => /\ out.from = rows.from /\ out.to <= rows.to
                          /\ rows.to = read /\ IsEmpty(carry)
                          /\ out.to = out.from + limit
       /\ back = "done" => out.to = read
  /\ stage = "write" => part \in Parts

SplitInv ==
  /\ limit > 0 =>
       /\ InHand
       /\ stage \in {"next", "cut", "create", "write"} =>
            /\ part = written + 1
            /\ FullParts(written)
            /\ Tiled(written, OnDisk)
       /\ SplitRight
       /\ FailureLeavesPrefix
=============================================================================
