----------------------------- MODULE MCThreads ------------------------------
(***************************************************************************)
(* What the threads of a process share: the iterator a Python program      *)
(* reads batches from (BatchIterator), the thread pool that is kept        *)
(* between jobs (MemoryPools), the progress bar of a map (ProgressTracker).*)
(* A behaviour is about one of these; the variables of the others rest in  *)
(* an initial state.                                                       *)
(***************************************************************************)
EXTENDS BatchIterator, MemoryPools, ProgressTracker

\* A file has one byte.
ASSUME ThreadsAssumption == 1 \in Sizes

VARIABLE shared  \* "iterator", "pools" or "tracker"

threadVars == <<shared, vars, memoryVars, trackerVars>>

NoIterator == /\ Init /\ source.kind = "eager" /\ source.length = 0
NoTracker  == /\ TrackerStart
              /\ show = TRUE
              /\ size = [w \in Workers |-> 1]
              /\ broken = {}

ThreadsInit ==
  \/ shared = "iterator" /\ Init /\ PoolsInit /\ NoTracker
  \/ shared = "pools"    /\ PoolsInit /\ NoIterator /\ NoTracker
  \/ shared = "tracker"  /\ TrackerInit /\ NoIterator /\ PoolsInit

OfIterator == shared = "iterator" /\ UNCHANGED <<shared, memoryVars, trackerVars>>
OfPools    == shared = "pools" /\ UNCHANGED <<shared, vars, trackerVars>>
OfTracker  == shared = "tracker" /\ UNCHANGED <<shared, vars, memoryVars>>

ThreadsNext ==
  \/ OfIterator /\ Next
  \/ OfPools /\ PoolsNext
  \/ OfTracker /\ TrackerNext

\* The fairness of FairSpec and TrackerFairSpec, each for its own behaviours.
ThreadsSpec ==
  /\ ThreadsInit /\ [][ThreadsNext]_threadVars
  /\ \A c \in Callers : WF_threadVars(OfIterator /\ Work(c))
  /\ \A w \in Workers : WF_threadVars(OfTracker /\ RunFile(w))
-----------------------------------------------------------------------------
\* The types of all three (pyapi/iterator.rs, memory.rs, map/model.rs).
ThreadsTypeOK == TypeOK /\ PoolsTypeOK /\ TrackerTypeOK

\* A map or heal job comes to its end and so does its bar, drawn to the last line
\* unless a file was left out after an error (ProgressTracker, model.rs:320-335).
ShownBarEnds == shared = "tracker" => BarEnds
=============================================================================
