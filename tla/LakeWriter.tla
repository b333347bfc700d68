----------------------------- MODULE LakeWriter -----------------------------
(***************************************************************************)
(* process_and_write_lake_native and generate_gold_table_native            *)
(* (src/src/engine/formats/core/parquet.rs): the files of a directory are  *)
(* filtered in parallel, each into a clean and a trash file of the same    *)
(* name; the gold job reads the clean tree back.  Errors of one file are   *)
(* swallowed: the file, the batch or the write is skipped and the job goes *)
(* on.                                                                     *)
(*                                                                         *)
(* A batch is the number of its clean and of its trash rows; a written     *)
(* file is the sequence of the batches in it, as their numbers of rows.    *)
(***************************************************************************)
EXTENDS Integers, SequencesExt

CONSTANTS
  Files,      \* Parquet files of the input directory, by relative path
  Batches,    \* the batches an input file may have
  MaxBatches, \* bound: batches of an input file
  MaxFaults   \* bound: I/O errors

ASSUME WriterBounds == IsFiniteSet(Files) /\ MaxBatches \in Nat /\ MaxFaults \in Nat
ASSUME BatchesTyped == Batches \subseteq [clean: Nat, trash: Nat]

VARIABLES
  input,   \* the input files: can they be opened, and their batches
  tree,    \* the output trees: clean, trash and gold
  job,     \* "idle", "lake", "lake done", "gold", "gold done"
  worker,  \* the closure that handles each file
  report,  \* what the two calls returned
  faults

vars == <<input, tree, job, worker, report, faults>>

Sides   == {"clean", "trash", "gold"}
NoFile  == [state |-> "none", rows |-> <<>>]
Resting == [pc |-> "wait", k |-> 1, open |-> {}, total |-> 0,
            count |-> [s \in Sides |-> 0]]
NoReport == [files |-> 0, total |-> 0, clean |-> 0, trash |-> 0, gold |-> 0]

TypeOK ==
  /\ input \in [Files -> [readable: BOOLEAN, batches: Seq(Batches)]]
  /\ tree \in [Sides -> [Files -> [state: {"none", "open", "closed"}, rows: Seq(Nat \ {0})]]]
  /\ job \in {"idle", "lake", "lake done", "gold", "gold done"}
  /\ worker \in [Files -> [pc: {"wait", "read", "clean", "trash", "gold", "close",
                                "done", "skipped"},
                           k: Nat, open: SUBSET Sides, total: Nat, count: [Sides -> Nat]]]
  /\ report \in [files: Nat, total: Nat, clean: Nat, trash: Nat, gold: Nat]
  /\ faults \in Nat

Fault == faults < MaxFaults /\ faults' = faults + 1
Well  == UNCHANGED faults
-----------------------------------------------------------------------------
(* The two calls. *)

StartLake ==
  /\ job = "idle"
  /\ job' = "lake"
  /\ UNCHANGED <<input, tree, worker, report, faults>>

\* The clean directory is the input of the gold job.
StartGold ==
  /\ job = "lake done"
  /\ job' = "gold"
  /\ worker' = [f \in Files |-> Resting]
  /\ UNCHANGED <<input, tree, report, faults>>

\* discover_data_files finds the files that exist when the call starts.
Found(f) == job = "gold" => tree["clean"][f].state # "none"

\* What the Parquet reader finds in a file.
Source(f) ==
  IF job = "lake" THEN input[f]
  ELSE [readable |-> tree["clean"][f].state = "closed",
        batches  |-> [n \in DOMAIN tree["clean"][f].rows |->
                        [clean |-> tree["clean"][f].rows[n], trash |-> 0]]]

Goto(f, pc) == worker' = [worker EXCEPT ![f].pc = pc]

\* File::open or ParquetRecordBatchReaderBuilder fails: None.
OpenFile(f) ==
  /\ job \in {"lake", "gold"}
  /\ worker[f].pc = "wait"
  /\ Found(f)
  /\ \/ ~Source(f).readable /\ Goto(f, "skipped") /\ Well
     \/ Source(f).readable  /\ Goto(f, "read")    /\ Well
     \/ Source(f).readable  /\ Goto(f, "skipped") /\ Fault
  /\ UNCHANGED <<input, tree, job, report>>

Batch(f) == Source(f).batches[worker[f].k]

\* The next batch; an Err is dropped by flatten().
ReadBatch(f) ==
  /\ worker[f].pc = "read"
  /\ worker[f].k <= Len(Source(f).batches)
  /\ \/ /\ worker' = [worker EXCEPT ![f] =
             [worker[f] EXCEPT !.total = @ + Batch(f).clean + Batch(f).trash,
                               !.pc = IF job = "gold" THEN "gold" ELSE "clean"]]
        /\ Well
     \/ worker' = [worker EXCEPT ![f].k = @ + 1] /\ Fault
  /\ UNCHANGED <<input, tree, job, report>>

EndOfFile(f) ==
  /\ worker[f].pc = "read"
  /\ worker[f].k > Len(Source(f).batches)
  /\ Goto(f, "close")
  /\ UNCHANGED <<input, tree, job, report, faults>>
-----------------------------------------------------------------------------
(* write_batch_to_file.  The rows are counted before anything is written.  *)

RowsFor(side, f) == IF side = "trash" THEN Batch(f).trash ELSE Batch(f).clean

\* The batch is done when the trash, or the gold, rows are written.
Written(side, f, w) ==
  IF side = "clean" THEN [w EXCEPT !.pc = "trash"]
                    ELSE [w EXCEPT !.pc = "read", !.k = @ + 1]

\* Mutated: the file is created for each batch.
WriteBatchAnew(side, f) ==
  LET n == RowsFor(side, f)
      w == Written(side, f, worker[f])
  IN
  /\ worker[f].pc = side
  /\ n > 0
  /\ worker' = [worker EXCEPT ![f] =
        [w EXCEPT !.count[side] = @ + n, !.open = @ \cup {side}]]
  /\ tree' = [tree EXCEPT ![side][f] = [state |-> "open", rows |-> <<n>>]]
  /\ Well
  /\ UNCHANGED <<input, job, report>>

WriteBatch(side, f) ==
  LET n == RowsFor(side, f)
      w == Written(side, f, worker[f])
      old == IF side \in w.open THEN tree[side][f].rows ELSE <<>>
  IN
  /\ worker[f].pc = side
  /\ n > 0
  /\ \/ /\ worker' = [worker EXCEPT ![f] =
             [w EXCEPT !.count[side] = @ + n, !.open = @ \cup {side}]]
        /\ tree' = [tree EXCEPT ![side][f] = [state |-> "open", rows |-> Append(old, n)]]
        /\ Well
     \/ \* No file, a file without a writer, or a writer that did not write.
        /\ \E made, kept \in BOOLEAN :
             /\ kept => made
             /\ worker' = [worker EXCEPT ![f] =
                  [w EXCEPT !.count[side] = @ + n,
                            !.open = IF kept THEN @ \cup {side} ELSE @]]
             /\ tree' = IF made /\ side \notin w.open
                          THEN [tree EXCEPT ![side][f] = [state |-> "open", rows |-> <<>>]]
                          ELSE tree
        /\ Fault
  /\ UNCHANGED <<input, job, report>>

\* An empty batch creates no file.
WriteNothing(side, f) ==
  /\ worker[f].pc = side
  /\ RowsFor(side, f) = 0
  /\ worker' = [worker EXCEPT ![f] = Written(side, f, @)]
  /\ UNCHANGED <<input, tree, job, report, faults>>

\* The footers are written; a writer that fails leaves a file nobody can read.
CloseFile(f) ==
  /\ worker[f].pc = "close"
  /\ \E lost \in SUBSET worker[f].open :
       /\ IF lost = {} THEN Well ELSE Fault
       /\ tree' = [s \in Sides |-> [tree[s] EXCEPT ![f].state =
                     IF s \in worker[f].open \ lost THEN "closed" ELSE @]]
  /\ Goto(f, "done")
  /\ UNCHANGED <<input, job, report>>

Ended == \A f \in Files : worker[f].pc \in {"done", "skipped"} \/ ~Found(f)
Results == {f \in Files : worker[f].pc = "done"}
Counted(side) == SumFunctionOnSet([f \in Files |-> worker[f].count[side]], Results)

\* Mutated: the trash rows of a file are counted only if it has clean rows.
ReturnLakePartly ==
  /\ job = "lake" /\ Ended
  /\ report' = [report EXCEPT
       !.files = Cardinality(Files),
       !.total = SumFunctionOnSet([f \in Files |-> worker[f].total], Results),
       !.clean = Counted("clean"),
       !.trash = SumFunctionOnSet([f \in Files |-> worker[f].count["trash"]],
                                  {f \in Results : worker[f].count["clean"] > 0})]
  /\ job' = "lake done"
  /\ UNCHANGED <<input, tree, worker, faults>>

ReturnLake ==
  /\ job = "lake" /\ Ended
  /\ report' = [report EXCEPT
       !.files = Cardinality(Files),
       !.total = SumFunctionOnSet([f \in Files |-> worker[f].total], Results),
       !.clean = Counted("clean"),
       !.trash = Counted("trash")]
  /\ job' = "lake done"
  /\ UNCHANGED <<input, tree, worker, faults>>

ReturnGold ==
  /\ job = "gold" /\ Ended
  /\ report' = [report EXCEPT
       !.files = Cardinality({f \in Files : Found(f)}),
       !.gold = Counted("gold")]
  /\ job' = "gold done"
  /\ UNCHANGED <<input, tree, worker, faults>>

Init ==
  /\ input \in [Files -> [readable: BOOLEAN,
                          batches: UNION {[1 .. n -> Batches] : n \in 0 .. MaxBatches}]]
  /\ tree = [s \in Sides |-> [f \in Files |-> NoFile]]
  /\ job = "idle"
  /\ worker = [f \in Files |-> Resting]
  /\ report = NoReport
  /\ faults = 0

Next ==
  \/ StartLake \/ StartGold \/ ReturnLake \/ ReturnGold
  \/ \E f \in Files :
       \/ OpenFile(f) \/ ReadBatch(f) \/ EndOfFile(f) \/ CloseFile(f)
       \/ \E s \in Sides : WriteBatch(s, f) \/ WriteNothing(s, f)

Spec == Init /\ [][Next]_vars
-----------------------------------------------------------------------------
(* Properties. *)

RowsOnDisk(side) ==
  SumFunction([f \in Files |-> IF tree[side][f].state = "closed"
                                 THEN SumFunction(tree[side][f].rows) ELSE 0])

\* The rows of the first n batches of a file that go to one side.
Kept(side, f, n) ==
  LET rows(m) == input[f].batches[m][side] IN
  FlattenSeq([m \in 1 .. n |-> IF rows(m) = 0 THEN <<>> ELSE <<rows(m)>>])

\* Without I/O errors the two trees hold the clean and the trash rows of every
\* readable file in order, and the gold tree holds the clean tree's rows; what
\* the calls returned is what is on disk.
TreesTrue ==
  faults = 0 =>
    /\ job = "lake done" =>
         /\ \A f \in Files, s \in {"clean", "trash"} :
              LET rows == IF input[f].readable THEN Kept(s, f, Len(input[f].batches))
                                               ELSE <<>> IN
              tree[s][f] = IF rows = <<>> THEN NoFile ELSE [state |-> "closed", rows |-> rows]
         /\ report.clean = RowsOnDisk("clean") /\ report.trash = RowsOnDisk("trash")
    /\ job = "gold done" =>
         /\ tree["gold"] = tree["clean"]
         /\ report.gold = RowsOnDisk("gold")

\* Whatever fails, the counts add up, no row is written twice, and the counts
\* never fall short of what is on disk.
CountsCoverDisk ==
  /\ job = "lake done" =>
       /\ report.total = report.clean + report.trash
       /\ report.clean >= RowsOnDisk("clean") /\ report.trash >= RowsOnDisk("trash")
  /\ job = "gold done" => report.clean >= report.gold /\ report.gold >= RowsOnDisk("gold")
=============================================================================
