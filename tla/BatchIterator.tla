--------------------------- MODULE BatchIterator ----------------------------
(***************************************************************************)
(* PyBatchIterator (src/src/pyapi/iterator.rs): the batches of a query,    *)
(* handed to the threads of a Python program one by one (__next__) or all  *)
(* that are left as a table (to_pyarrow).  A mutex guards the source; a    *)
(* call holds it to its end, and gives the GIL away while it waits for the *)
(* next batch of a lazy source.                                            *)
(*                                                                         *)
(* The batches of the source are numbered from 1.                          *)
(***************************************************************************)
EXTENDS Integers, SequencesExt

CONSTANTS
  Callers,    \* the threads of the Python program
  MaxBatches, \* bound: batches of the source
  MaxCalls    \* bound: calls of each thread

ASSUME BatchIteratorBounds == MaxBatches \in Nat /\ MaxCalls \in Nat /\ "-" \notin Callers

Nobody == "-"

VARIABLES
  source,   \* kind ("lazy" or "eager"), batches, batches pulled, whether it has ended
  lock,     \* who holds the mutex
  poisoned, \* somebody panicked while holding it
  gil,      \* who holds the GIL
  caller,   \* thread -> its call
  given,    \* the batches __next__ returned, in order
  tables,   \* the tables to_pyarrow returned
  lost      \* batches pulled from the source in a call that failed

vars == <<source, lock, poisoned, gil, caller, given, tables, lost>>

Free == [pc |-> "free", call |-> "next", item |-> 0, got |-> <<>>, calls |-> 0]

Numbers == Seq(1 .. MaxBatches)
CallState == [pc: {"free", "called", "locked", "waiting", "pulled", "deliver"},
              call: {"next", "table"}, item: {-1} \cup 0 .. MaxBatches, got: Numbers,
              calls: 0 .. MaxCalls]
TypeOK ==
  /\ source \in [kind: {"lazy", "eager"}, length: 0 .. MaxBatches,
                 pulled: 0 .. MaxBatches, ended: BOOLEAN]
  /\ {lock, gil} \subseteq Callers \cup {Nobody}
  /\ poisoned \in BOOLEAN
  /\ caller \in [Callers -> CallState]
  /\ given \in Numbers
  /\ tables \in Seq(Numbers)
  /\ lost \subseteq 1 .. MaxBatches

At(c, label) == caller[c].pc = label
Goto(c, label) == caller' = [caller EXCEPT ![c].pc = label]
-----------------------------------------------------------------------------
(* Calls. *)

\* Python enters the method: it holds the GIL.
Call(c) ==
  /\ At(c, "free")
  /\ gil = Nobody
  /\ caller[c].calls < MaxCalls
  /\ gil' = c
  /\ \E call \in {"next", "table"} :
       caller' = [caller EXCEPT ![c].pc = "called", ![c].call = call, ![c].calls = @ + 1]
  /\ UNCHANGED <<source, lock, poisoned, given, tables, lost>>

\* The method returns or raises; `kept' is what it had pulled to no avail.
Leave(c, kept) ==
  /\ gil' = Nobody
  /\ lock' = IF lock = c THEN Nobody ELSE lock
  /\ lost' = lost \cup kept
  /\ caller' = [caller EXCEPT ![c] = [Free EXCEPT !.calls = caller[c].calls]]

\* Mutated: waits for the mutex with the GIL in hand.
TryLockBlocking(c) ==
  /\ At(c, "called")
  /\ lock = Nobody
  /\ IF poisoned
       THEN Leave(c, {})
       ELSE lock' = c /\ Goto(c, "locked") /\ UNCHANGED <<gil, lost>>
  /\ UNCHANGED <<source, poisoned, given, tables>>

\* try_source_lock: a call that finds the mutex taken, or poisoned, raises.
TryLock(c) ==
  /\ At(c, "called")
  /\ IF poisoned \/ lock # Nobody
       THEN Leave(c, {})
       ELSE lock' = c /\ Goto(c, "locked") /\ UNCHANGED <<gil, lost>>
  /\ UNCHANGED <<source, poisoned, given, tables>>

\* Mutated: the mutex goes with the GIL.
DetachUnlocked(c) ==
  /\ At(c, "locked")
  /\ source.kind = "lazy"
  /\ gil' = Nobody /\ lock' = Nobody
  /\ Goto(c, "waiting")
  /\ UNCHANGED <<source, poisoned, given, tables, lost>>

\* py.detach: the GIL goes, the mutex stays.
Detach(c) ==
  /\ At(c, "locked")
  /\ source.kind = "lazy"
  /\ gil' = Nobody
  /\ Goto(c, "waiting")
  /\ UNCHANGED <<source, lock, poisoned, given, tables, lost>>

\* to_pyarrow cannot import pyarrow.
ImportFails(c) ==
  /\ At(c, "locked")
  /\ caller[c].call = "table" /\ caller[c].got = <<>>
  /\ Leave(c, {})
  /\ UNCHANGED <<source, poisoned, given, tables>>

\* Mutated: one batch past the end.
NextItemPastEnd(c, label) ==
  \/ /\ ~source.ended /\ source.pulled <= source.length
     /\ source' = [source EXCEPT !.pulled = @ + 1]
     /\ caller' = [caller EXCEPT ![c].item = source.pulled + 1, ![c].pc = label]
  \/ /\ source.pulled = source.length \/ source.ended
     /\ source' = [source EXCEPT !.ended = TRUE]
     /\ caller' = [caller EXCEPT ![c].item = 0, ![c].pc = label]
  \/ /\ source.kind = "lazy" /\ ~source.ended
     /\ \E ended \in BOOLEAN : source' = [source EXCEPT !.ended = ended]
     /\ caller' = [caller EXCEPT ![c].item = -1, ![c].pc = label]

\* The next item of the source: a batch, 0 for its end, -1 for an error.
NextItem(c, label) ==
  \/ /\ ~source.ended /\ source.pulled < source.length
     /\ source' = [source EXCEPT !.pulled = @ + 1]
     /\ caller' = [caller EXCEPT ![c].item = source.pulled + 1, ![c].pc = label]
  \/ /\ source.pulled = source.length \/ source.ended
     /\ source' = [source EXCEPT !.ended = TRUE]
     /\ caller' = [caller EXCEPT ![c].item = 0, ![c].pc = label]
  \/ /\ source.kind = "lazy" /\ ~source.ended
     /\ \E ended \in BOOLEAN : source' = [source EXCEPT !.ended = ended]
     /\ caller' = [caller EXCEPT ![c].item = -1, ![c].pc = label]

\* block_on(stream.next())
PullLazy(c) ==
  /\ At(c, "waiting")
  /\ NextItem(c, "pulled")
  /\ UNCHANGED <<lock, poisoned, gil, given, tables, lost>>

\* The query panics: the mutex is poisoned as the call unwinds.
PullPanics(c) ==
  /\ At(c, "waiting")
  /\ gil = Nobody
  /\ poisoned' = TRUE
  /\ Leave(c, Range(caller[c].got))
  /\ UNCHANGED <<source, given, tables>>

\* A batch becomes a pyarrow object by Python code, which may hand over the GIL.
PullEager(c) ==
  /\ At(c, "locked")
  /\ source.kind = "eager"
  /\ \/ NextItem(c, "deliver") /\ UNCHANGED gil
     \/ NextItem(c, "pulled") /\ gil' = Nobody
  /\ UNCHANGED <<lock, poisoned, given, tables, lost>>

\* The end of py.detach, or the GIL comes back.
Attach(c) ==
  /\ At(c, "pulled")
  /\ gil = Nobody
  /\ gil' = c
  /\ Goto(c, "deliver")
  /\ UNCHANGED <<source, lock, poisoned, given, tables, lost>>
-----------------------------------------------------------------------------
(* What a call does with the item. *)

IsBatch(c) == caller[c].item > 0
Pulled(c) == Range(caller[c].got) \cup (IF IsBatch(c) THEN {caller[c].item} ELSE {})

GiveBatch(c) ==
  /\ At(c, "deliver")
  /\ caller[c].call = "next"
  /\ IsBatch(c)
  /\ given' = Append(given, caller[c].item)
  /\ Leave(c, {})
  /\ UNCHANGED <<source, poisoned, tables>>

\* None: StopIteration.
Stop(c) ==
  /\ At(c, "deliver")
  /\ caller[c].call = "next"
  /\ caller[c].item = 0
  /\ Leave(c, {})
  /\ UNCHANGED <<source, poisoned, given, tables>>

\* Mutated: the first batch of a table is left in the iterator's hands.
GatherLate(c) ==
  /\ At(c, "deliver")
  /\ caller[c].call = "table"
  /\ IsBatch(c)
  /\ caller' = [caller EXCEPT ![c].got = IF caller[c].item = 1 THEN @ ELSE Append(@, caller[c].item),
                              ![c].pc = "locked"]
  /\ UNCHANGED <<source, lock, poisoned, gil, given, tables, lost>>

\* to_pyarrow goes on to the next batch.
Gather(c) ==
  /\ At(c, "deliver")
  /\ caller[c].call = "table"
  /\ IsBatch(c)
  /\ caller' = [caller EXCEPT ![c].got = Append(@, caller[c].item), ![c].pc = "locked"]
  /\ UNCHANGED <<source, lock, poisoned, gil, given, tables, lost>>

\* Mutated: an error ends the table.
ReturnTableOnError(c) ==
  /\ At(c, "deliver")
  /\ caller[c].call = "table"
  /\ caller[c].item <= 0
  /\ tables' = IF caller[c].got = <<>> THEN tables ELSE Append(tables, caller[c].got)
  /\ Leave(c, {})
  /\ UNCHANGED <<source, poisoned, given>>

\* Table.from_batches: pyarrow raises if there is no batch.
ReturnTable(c) ==
  /\ At(c, "deliver")
  /\ caller[c].call = "table"
  /\ caller[c].item = 0
  /\ tables' = IF caller[c].got = <<>> THEN tables ELSE Append(tables, caller[c].got)
  /\ Leave(c, {})
  /\ UNCHANGED <<source, poisoned, given>>

\* The source failed, a batch does not convert to pyarrow or the batches make no
\* table: the call raises and drops what it holds.
Raise(c) ==
  /\ At(c, "deliver")
  /\ caller[c].item # 0 \/ caller[c].call = "table"
  /\ Leave(c, Pulled(c))
  /\ UNCHANGED <<source, poisoned, given, tables>>

Init ==
  /\ source \in [kind: {"lazy", "eager"}, length: 0 .. MaxBatches, pulled: {0}, ended: {FALSE}]
  /\ lock = Nobody /\ gil = Nobody
  /\ poisoned = FALSE
  /\ caller = [c \in Callers |-> Free]
  /\ given = <<>> /\ tables = <<>> /\ lost = {}

Work(c) ==
  \/ TryLock(c) \/ Detach(c) \/ PullLazy(c) \/ PullPanics(c) \/ PullEager(c) \/ Attach(c)
  \/ ImportFails(c) \/ GiveBatch(c) \/ Stop(c) \/ Gather(c) \/ ReturnTable(c) \/ Raise(c)

Next == \E c \in Callers : Call(c) \/ Work(c)

Spec == Init /\ [][Next]_vars

\* A thread that can run does: the runtime delivers the next item and the
\* interpreter gives the GIL to each thread that waits for it.
FairSpec == Spec /\ \A c \in Callers : WF_vars(Work(c))
-----------------------------------------------------------------------------
(* Properties. *)

\* No batch is returned twice, and __next__ returns them in the order of the
\* source whichever thread asks (iterator.rs:64-91).
InTables == UNION {Range(tables[t]) : t \in DOMAIN tables}
GivenOnce ==
  /\ \A i, j \in DOMAIN given : i < j => given[i] < given[j]
  /\ Range(given) \cap InTables = {}
  /\ \A t, u \in DOMAIN tables :
       IF t = u THEN IsInjective(tables[t]) ELSE Range(tables[t]) \cap Range(tables[u]) = {}

\* A table is what was left of the source when to_pyarrow was called, up to
\* its last batch: no other thread takes a batch out of its middle
\* (iterator.rs:97-118).
TableIsTail ==
  \A i \in DOMAIN tables :
    /\ Last(tables[i]) = source.length
    /\ \A k \in DOMAIN tables[i] : tables[i][k] = tables[i][1] + k - 1

\* A batch that left the source was returned, is in the hands of a call, or
\* was dropped by a call that raised (iterator.rs:94-117).
NothingVanishes ==
  1 .. source.pulled =
    Range(given) \cup InTables \cup lost \cup UNION {Pulled(c) : c \in Callers}

\* Whatever threads call in the middle of each other's calls, every batch is given
\* to one of them, in order, or is accounted for (iterator.rs:64-118).
BatchesRight == GivenOnce /\ TableIsTail /\ NothingVanishes

\* Every call returns: nobody waits for the mutex while holding the GIL that
\* the owner of the mutex waits for (iterator.rs:38-47, 78-80).
CallsReturn == \A c \in Callers : At(c, "called") ~> At(c, "free")
=============================================================================
