---------------------------- MODULE MemoryPools ----------------------------
(***************************************************************************)
(* The memory budget and the pools of filter_files_parallel                *)
(* (src/src/engine/memory.rs, parallel_filter.rs).  A job sizes its        *)
(* batches by the streams it expects, then runs one stream for each file   *)
(* on a pool.  One pool of a chosen size is kept for the next job; jobs    *)
(* that run at the same time may ask for different sizes, and jobs that    *)
(* ask for the same share their pool.                                      *)
(***************************************************************************)
EXTENDS Integers, Sequences, FiniteSets

CONSTANTS
  Jobs,
  Asked,    \* values of num_threads
  Unasked,  \* num_threads is None
  MaxFiles, \* bound: files of a job
  Widths,   \* estimated bytes of a row, 0 if the schema has no columns
  Ram,      \* max_ram_bytes
  MinRows,  \* the bounds a batch is clamped to
  MaxRows,
  Cpus

ASSUME MemoryAssumption ==
  /\ IsFiniteSet(Jobs) /\ {Ram, MaxFiles} \subseteq Nat /\ Widths \subseteq Nat
  /\ {Cpus, MinRows, MaxRows} \subseteq Nat \ {0} /\ MinRows <= MaxRows
  /\ Unasked \notin Nat /\ Asked \subseteq Nat \cup {Unasked}

VARIABLES
  pools, \* the pools there are, and what each was asked for; the first is Rayon's
  cache, \* the pool that is kept, 0 if there is none
  job    \* job -> what it asked for, the rows of its batches, its pool, the
         \* files that are left and the streams that run

memoryVars == <<pools, cache, job>>

Kept == cache > 0

PoolSet == [asked: Asked \cup {Unasked}, threads: Nat \ {0}]
JobState == [pc: {"idle", "sized", "running", "done"}, asked: Asked \cup {Unasked},
             width: Nat \ {0}, rows: MinRows .. MaxRows, pool: Nat \ {0},
             left: 0 .. MaxFiles, streams: 0 .. MaxFiles]

PoolsTypeOK ==
  /\ pools \in Seq(PoolSet)
  /\ cache \in 0 .. Len(pools)
  /\ job \in [Jobs -> JobState]
  /\ \A j \in Jobs : job[j].pool <= Len(pools)
-----------------------------------------------------------------------------
AtLeastOne(n) == IF n > 0 THEN n ELSE 1

\* Mutated: the ceiling of one stream is that of all.
BudgetAlone(streams, width) ==
  LET rows == (Ram * 2) \div (7 * AtLeastOne(width))
  IN  IF rows < MinRows THEN MinRows ELSE IF rows > MaxRows THEN MaxRows ELSE rows

\* Mutated: no upper bound.
BudgetUnclamped(streams, width) ==
  LET rows == (Ram * 2) \div (7 * AtLeastOne(streams) * AtLeastOne(width))
  IN  IF rows < MinRows THEN MinRows ELSE rows

\* budget_batch_rows_for: the budget over 3.5 copies of a batch in each
\* stream.  The rounding of two divisions of floats is left out.
budget_batch_rows_for(streams, width) ==
  LET rows == (Ram * 2) \div (7 * AtLeastOne(streams) * AtLeastOne(width))
  IN  IF rows < MinRows THEN MinRows ELSE IF rows > MaxRows THEN MaxRows ELSE rows

\* filter_files_parallel_native, up to the batch size: without a number of
\* threads every file is taken for a stream.
Start(j, asked, files, width) ==
  /\ job[j].pc = "idle"
  /\ job' = [job EXCEPT ![j] =
       [@ EXCEPT !.pc = "sized", !.asked = asked, !.width = AtLeastOne(width), !.left = files,
                 !.rows = budget_batch_rows_for(IF asked = Unasked THEN files ELSE asked, width)]]
  /\ UNCHANGED <<pools, cache>>

\* A pool of no threads has as many as there are processors.
Threads(asked) == IF asked \in {Unasked, 0} THEN Cpus ELSE asked

Pool(asked) == [asked |-> asked, threads |-> Threads(asked)]

\* Mutated: the pool that is kept serves everybody.
TakePoolOfAnySize(j) ==
  /\ job[j].pc = "sized"
  /\ job[j].asked # Unasked
  /\ IF Kept
       THEN /\ job' = [job EXCEPT ![j].pc = "running", ![j].pool = cache]
            /\ UNCHANGED <<pools, cache>>
       ELSE /\ pools' = Append(pools, Pool(job[j].asked))
            /\ cache' = Len(pools')
            /\ job' = [job EXCEPT ![j].pc = "running", ![j].pool = Len(pools')]

\* global_rayon_pool, under its mutex: the pool that is kept if it was made for
\* the same number, or a new one that takes its place.  The old one lives on
\* in the jobs that hold it.
TakePool(j) ==
  /\ job[j].pc = "sized"
  /\ job[j].asked # Unasked
  /\ IF Kept /\ pools[cache].asked = job[j].asked
       THEN /\ job' = [job EXCEPT ![j].pc = "running", ![j].pool = cache]
            /\ UNCHANGED <<pools, cache>>
       ELSE /\ pools' = Append(pools, Pool(job[j].asked))
            /\ cache' = Len(pools')
            /\ job' = [job EXCEPT ![j].pc = "running", ![j].pool = Len(pools')]

\* Without a number of threads the job runs where it is, on Rayon's own pool.
RunInPlace(j) ==
  /\ job[j].pc = "sized"
  /\ job[j].asked = Unasked
  /\ job' = [job EXCEPT ![j].pc = "running"]
  /\ UNCHANGED <<pools, cache>>

\* The streams that run on a pool, whoever they work for.
Busy(pool) ==
  {t \in Jobs \X (1 .. MaxFiles) :
     job[t[1]].pc = "running" /\ job[t[1]].pool = pool /\ t[2] <= job[t[1]].streams}

\* A thread of the pool takes the next file of a job.
OpenStream(j) ==
  /\ job[j].pc = "running"
  /\ job[j].left > 0
  /\ Cardinality(Busy(job[j].pool)) < pools[job[j].pool].threads
  /\ job' = [job EXCEPT ![j].left = @ - 1, ![j].streams = @ + 1]
  /\ UNCHANGED <<pools, cache>>

\* A file is done, or has failed.
CloseStream(j) ==
  /\ job[j].streams > 0
  /\ job' = [job EXCEPT ![j].streams = @ - 1]
  /\ UNCHANGED <<pools, cache>>

Finish(j) ==
  /\ job[j].pc = "running"
  /\ job[j].left = 0 /\ job[j].streams = 0
  /\ job' = [job EXCEPT ![j].pc = "done"]
  /\ UNCHANGED <<pools, cache>>

PoolsInit ==
  /\ pools = <<Pool(Unasked)>>
  /\ cache = 0
  /\ job = [j \in Jobs |-> [pc |-> "idle", asked |-> Unasked, width |-> 1, rows |-> MinRows,
                            pool |-> 1, left |-> 0, streams |-> 0]]

Step(j) ==
  \/ \E asked \in Asked, files \in 1 .. MaxFiles, width \in Widths : Start(j, asked, files, width)
  \/ TakePool(j) \/ RunInPlace(j) \/ OpenStream(j) \/ CloseStream(j) \/ Finish(j)

PoolsNext == \E j \in Jobs : Step(j)

PoolsSpec == PoolsInit /\ [][PoolsNext]_memoryVars
-----------------------------------------------------------------------------
(* Properties. *)

\* The batches of all streams of a job, each in 3.5 copies, fit in the budget,
\* unless the smallest batch there may be is too large: the streams that run
\* are never more than those the batches were sized for, whatever pools the
\* jobs beside it take.  The width of a row is the one that was estimated, from
\* the schema of the first file.  A job that asks for no threads is left out: it
\* is given every processor and sized for one stream (memory.rs:64-69, 85-107;
\* parallel_filter.rs:85-98, 136-140).
BudgetKept ==
  \A j \in Jobs : job[j].asked # 0 =>
    \/ job[j].rows = MinRows
    \/ job[j].streams * job[j].rows * job[j].width * 7 <= Ram * 2

\* A job runs on as many threads as it asked for, although other jobs change
\* the pool that is kept (memory.rs:85-107).
PoolAsAsked ==
  \A j \in Jobs : job[j].pc = "running" => pools[job[j].pool].threads = Threads(job[j].asked)
=============================================================================
