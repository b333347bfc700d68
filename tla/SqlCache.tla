------------------------------ MODULE SqlCache ------------------------------
(***************************************************************************)
(* SQL over a file without a native DataFusion reader, with                *)
(* BASALTIC_RED_AUTO_NORMALIZE=1 (src/src/engine/sql.rs): cached_parquet_for *)
(* transcodes the file into a Parquet file of the cache directory unless   *)
(* one is there that is not older, the cached file is registered as a      *)
(* listing table and read by the query; when the transcoding fails the     *)
(* file is read through its format handler.                                *)
(*                                                                         *)
(* A source has Parts batches; writing it gives all of them a new version. *)
(* A cached file is what the writers put at its positions and how many     *)
(* positions its Parquet footer announces, 0 if it has none; a file        *)
(* without one holds an unknown part of what was written, the rest being   *)
(* in the buffers of the writer.                                           *)
(***************************************************************************)
EXTENDS Integers, FiniteSets

CONSTANTS
  Sources,     \* the source files
  Caches,      \* the files of the cache directories
  CacheOf,     \* source -> the cached file its name leads to
  Queries,     \* threads that run queries, one at a time each
  Parts,       \* batches of a source
  MaxVersion,  \* bound: writes to a source
  MaxClock,    \* bound: ticks of the mtime clock
  MaxFaults,   \* bound: I/O errors and crashes
  MaxAsked     \* bound: queries of a thread

ASSUME SqlAssumption ==
  /\ Sources # {} /\ CacheOf \in [Sources -> Caches]
  /\ Parts \in Nat \ {0} /\ MaxVersion \in Nat /\ MaxClock \in Nat
  /\ MaxFaults \in Nat /\ MaxAsked \in Nat

VARIABLES
  source,  \* source -> version and mtime
  cache,   \* cached file -> what is in it
  query,   \* thread -> the query it runs
  answer,  \* thread -> what its last query returned
  clock, faults,
  apart    \* history: the sources never written in the tick of an earlier
           \* write or transcoding, nor queried or written during a query

sqlVars == <<source, cache, query, answer, clock, faults, apart>>

Absent == [exists |-> FALSE, parts |-> <<>>, footer |-> 0, mtime |-> 0]
Idle == [pc |-> "idle", source |-> CHOOSE s \in Sources : TRUE, next |-> 1, length |-> 0,
         rows |-> <<>>, mtime |-> 0, version |-> 0, asked |-> 0]
NoAnswer == [kind |-> "none", source |-> CHOOSE s \in Sources : TRUE, rows |-> <<>>, from |-> 0, to |-> 0]

Part == [source: Sources, version: 0 .. MaxVersion, index: 1 .. Parts]
Fragments == UNION {[D -> Part] : D \in SUBSET (1 .. Parts)}
SourceState == [version: 0 .. MaxVersion, mtime: 0 .. MaxClock]
CacheState == [exists: BOOLEAN, parts: Fragments, footer: 0 .. Parts, mtime: 0 .. MaxClock]
QueryState == [pc: {"idle", "look", "statsource", "stattarget", "create", "open",
                    "convert", "register", "scan", "fallback", "read"},
               source: Sources, next: 1 .. Parts + 1, length: 0 .. Parts, rows: Fragments,
               mtime: 0 .. MaxClock, version: 0 .. MaxVersion, asked: 0 .. MaxAsked]
AnswerState == [kind: {"none", "rows", "error"}, source: Sources, rows: Fragments,
                from: 0 .. MaxVersion, to: 0 .. MaxVersion]

SqlTypeOK ==
  /\ source \in [Sources -> SourceState]
  /\ cache \in [Caches -> CacheState]
  /\ query \in [Queries -> QueryState]
  /\ answer \in [Queries -> AnswerState]
  /\ clock \in 0 .. MaxClock
  /\ faults \in 0 .. MaxFaults
  /\ apart \subseteq Sources

Target(q) == CacheOf[query[q].source]
AtStep(q, label) == query[q].pc = label
Goto(q, label) == query' = [query EXCEPT ![q].pc = label]
Begin(q, label, length) ==
  query' = [query EXCEPT ![q].pc = label, ![q].next = 1, ![q].length = length]
Fault == faults < MaxFaults /\ faults' = faults + 1
SourcePart(q) ==
  LET s == query[q].source
  IN [source |-> s, version |-> source[s].version, index |-> query[q].next]
\* A file or an answer with one more part.
Put(f, i, part) == [k \in DOMAIN f \cup {i} |-> IF k = i THEN part ELSE f[k]]
-----------------------------------------------------------------------------
(* The sources and the clock (environment). *)

Tick ==
  /\ clock < MaxClock
  /\ clock' = clock + 1
  /\ UNCHANGED <<source, cache, query, answer, faults, apart>>

Busy(s) == \E q \in Queries : ~AtStep(q, "idle") /\ query[q].source = s

\* A write in the current tick of the clock, or in a new one.
WriteSource(s, fresh) ==
  /\ source[s].version < MaxVersion
  /\ clock' = IF fresh THEN clock + 1 ELSE clock
  /\ clock' <= MaxClock
  /\ source' = [source EXCEPT ![s] = [version |-> @.version + 1, mtime |-> clock']]
  /\ apart' = IF fresh /\ ~Busy(s) THEN apart ELSE apart \ {s}
  /\ UNCHANGED <<cache, query, answer, faults>>
-----------------------------------------------------------------------------
(* The query. *)

\* The path has a handler but no native reader, and normalization is on.
Ask(q, s) ==
  /\ AtStep(q, "idle")
  /\ query[q].asked < MaxAsked
  /\ query' = [query EXCEPT ![q].pc = "look", ![q].source = s, ![q].version = source[s].version,
                            ![q].asked = @ + 1]
  /\ apart' = IF Busy(s) THEN apart \ {s} ELSE apart
  /\ UNCHANGED <<source, cache, answer, clock, faults>>

\* The query ends; the thread may run another one.
Reply(q, kind, rows) ==
  /\ answer' = [answer EXCEPT ![q] =
                  [kind |-> kind, source |-> query[q].source, rows |-> rows,
                   from |-> query[q].version, to |-> source[query[q].source].version]]
  /\ query' = [query EXCEPT ![q] = [Idle EXCEPT !.asked = query[q].asked]]

\* target.exists()
Look(q) ==
  /\ AtStep(q, "look")
  /\ Goto(q, IF cache[Target(q)].exists THEN "statsource" ELSE "create")
  /\ UNCHANGED <<source, cache, answer, clock, faults, apart>>

\* src.metadata(); an error counts as fresh.
StatSource(q) ==
  /\ AtStep(q, "statsource")
  /\ \/ /\ query' = [query EXCEPT ![q].pc = "stattarget",
                                  ![q].mtime = source[query[q].source].mtime]
        /\ UNCHANGED faults
     \/ Fault /\ Goto(q, "register")
  /\ UNCHANGED <<source, cache, answer, clock, apart>>

\* Mutated: an entry that exists is fresh.
IsStaleNever(srcTime, targetTime) == FALSE

\* Mutated: an entry of the source's own tick is stale.
IsStaleTied(srcTime, targetTime) == srcTime >= targetTime

IsStale(srcTime, targetTime) == srcTime > targetTime

\* target.metadata(), and the comparison.
StatTarget(q) ==
  /\ AtStep(q, "stattarget")
  /\ \/ /\ Goto(q, IF IsStale(query[q].mtime, cache[Target(q)].mtime) THEN "create" ELSE "register")
        /\ UNCHANGED faults
     \/ Fault /\ Goto(q, "register")
  /\ UNCHANGED <<source, cache, answer, clock, apart>>
-----------------------------------------------------------------------------
(* ingest_normalize into the cached file.  An error leaves what is there. *)

\* File::create truncates the file for all who have it open.
Create(q) ==
  /\ AtStep(q, "create")
  /\ \/ /\ cache' = [cache EXCEPT ![Target(q)] = [exists |-> TRUE, parts |-> <<>>, footer |-> 0, mtime |-> clock]]
        /\ Goto(q, "open")
        /\ UNCHANGED faults
     \/ Fault /\ Goto(q, "fallback") /\ UNCHANGED cache
  /\ UNCHANGED <<source, answer, clock, apart>>

OpenSource(q) ==
  /\ AtStep(q, "open")
  /\ \/ Begin(q, "convert", Parts) /\ UNCHANGED faults
     \/ Fault /\ Goto(q, "fallback")
  /\ UNCHANGED <<source, cache, answer, clock, apart>>

\* Mutated: goes on after the last batch.
ConvertPartPastEnd(q) ==
  /\ AtStep(q, "convert")
  /\ cache' = [cache EXCEPT
       ![Target(q)].parts = Put(@, query[q].next, SourcePart(q)),
       ![Target(q)].mtime = clock]
  /\ query' = [query EXCEPT ![q].next = @ + 1]
  /\ UNCHANGED <<source, answer, clock, faults, apart>>

\* One batch, written at the offset this writer has reached.
ConvertPart(q) ==
  /\ AtStep(q, "convert")
  /\ query[q].next <= query[q].length
  /\ cache' = [cache EXCEPT
       ![Target(q)].parts = Put(@, query[q].next, SourcePart(q)),
       ![Target(q)].mtime = clock]
  /\ query' = [query EXCEPT ![q].next = @ + 1]
  /\ UNCHANGED <<source, answer, clock, faults, apart>>

\* Mutated: a batch that cannot be read ends the file.
ConvertErrorCloses(q) ==
  /\ AtStep(q, "convert")
  /\ Fault
  /\ cache' = [cache EXCEPT ![Target(q)].footer = query[q].next - 1, ![Target(q)].mtime = clock]
  /\ Goto(q, "register")
  /\ UNCHANGED <<source, answer, clock, apart>>

ConvertError(q) ==
  /\ AtStep(q, "convert")
  /\ Fault
  /\ Goto(q, "fallback")
  /\ UNCHANGED <<source, cache, answer, clock, apart>>

CloseCache(q) ==
  /\ AtStep(q, "convert")
  /\ query[q].next > query[q].length
  /\ cache' = [cache EXCEPT ![Target(q)].footer = query[q].next - 1, ![Target(q)].mtime = clock]
  /\ Goto(q, "register")
  /\ UNCHANGED <<source, answer, clock, faults, apart>>
-----------------------------------------------------------------------------
(* The cached file as a listing table, or the handler. *)

\* infer_schema reads the footer.  Without one the query fails, or, while no
\* byte has left the writer's buffers, the table is empty.
Register(q) ==
  /\ AtStep(q, "register")
  /\ IF cache[Target(q)].footer > 0
       THEN Begin(q, "scan", cache[Target(q)].footer) /\ UNCHANGED answer
       ELSE \/ Reply(q, "error", <<>>)
            \/ Reply(q, "rows", <<>>)
  /\ UNCHANGED <<source, cache, clock, faults, apart>>

Collect(q, part) ==
  query' = [query EXCEPT ![q].rows = Put(@, query[q].next, part), ![q].next = @ + 1]

\* A part is decoded if the bytes the footer announced are there; the file may
\* have been created again since.
ScanPart(q) ==
  /\ AtStep(q, "scan")
  /\ query[q].next <= query[q].length
  /\ LET parts == cache[Target(q)].parts IN
     IF query[q].next \in DOMAIN parts
       THEN Collect(q, parts[query[q].next]) /\ UNCHANGED answer
       ELSE Reply(q, "error", <<>>)
  /\ UNCHANGED <<source, cache, clock, faults, apart>>

\* The source through its handler.
OpenHandler(q) ==
  /\ AtStep(q, "fallback")
  /\ \/ Begin(q, "read", Parts) /\ UNCHANGED <<answer, faults>>
     \/ Fault /\ Reply(q, "error", <<>>)
  /\ UNCHANGED <<source, cache, clock, apart>>

ReadPart(q) ==
  /\ AtStep(q, "read")
  /\ query[q].next <= query[q].length
  /\ \/ Collect(q, SourcePart(q)) /\ UNCHANGED <<answer, faults>>
     \/ Fault /\ Reply(q, "error", <<>>)
  /\ UNCHANGED <<source, cache, clock, apart>>

ReturnRows(q) ==
  /\ query[q].pc \in {"scan", "read"}
  /\ query[q].next > query[q].length
  /\ Reply(q, "rows", query[q].rows)
  /\ UNCHANGED <<source, cache, clock, faults, apart>>

\* The process dies: the cached file keeps what was written.
Crash(q) ==
  /\ ~AtStep(q, "idle")
  /\ Fault
  /\ query' = [query EXCEPT ![q] = [Idle EXCEPT !.asked = query[q].asked]]
  /\ UNCHANGED <<source, cache, answer, clock, apart>>

SqlInit ==
  /\ source = [s \in Sources |-> [version |-> 0, mtime |-> 0]]
  /\ cache = [t \in Caches |-> Absent]
  /\ query = [q \in Queries |-> Idle]
  /\ answer = [q \in Queries |-> NoAnswer]
  /\ clock = 0
  /\ faults = 0
  /\ apart = Sources

QueryStep(q) ==
  \/ \E s \in Sources : Ask(q, s)
  \/ Look(q) \/ StatSource(q) \/ StatTarget(q)
  \/ Create(q) \/ OpenSource(q) \/ ConvertPart(q) \/ ConvertError(q) \/ CloseCache(q)
  \/ Register(q) \/ ScanPart(q) \/ OpenHandler(q) \/ ReadPart(q) \/ ReturnRows(q)
  \/ Crash(q)

SqlNext ==
  \/ Tick
  \/ \E s \in Sources, fresh \in BOOLEAN : WriteSource(s, fresh)
  \/ \E q \in Queries : QueryStep(q)

SqlSpec == SqlInit /\ [][SqlNext]_sqlVars
-----------------------------------------------------------------------------
(* Properties. *)

RowsAt(s, v) == [i \in 1 .. Parts |-> [source |-> s, version |-> v, index |-> i]]
Whole(s, f) == DOMAIN f = 1 .. Parts /\ \A i \in 1 .. Parts : f[i].source = s /\ f[i].index = i

\* Queries over one file share its cached copy without a lock.  Whatever
\* their order, and whatever fails, dies or is written on the way, a query
\* returns every part of the file once, or no row, or an error: never some of
\* the rows (sql.rs:150-180, 246-263; ingest.rs:145-170).
SqlAnswersWhole ==
  \A q \in Queries :
    answer[q].kind = "rows" =>
      answer[q].rows = <<>> \/ Whole(answer[q].source, answer[q].rows)

\* When a source was always written between queries, with an mtime of its own,
\* queried by one thread at a time, and nothing failed, a query returns the rows
\* the file has: an entry made from an older file is never used
\* (sql.rs:164-178).
SqlAnswersCurrent ==
  \A q \in Queries :
    answer[q].kind # "none" /\ answer[q].source \in apart /\ faults = 0 =>
      answer[q].kind = "rows" /\ answer[q].rows = RowsAt(answer[q].source, answer[q].from)

\* sql.rs:246-247: a file is transcoded once.  The copy that has the rows of
\* such a source as it is now is not written again.
SqlTranscodedOnce ==
  [][\A s \in apart :
       LET t == CacheOf[s] IN
       faults = 0 /\ cache[t].footer > 0 /\ cache[t].parts = RowsAt(s, source[s].version) =>
         cache'[t] = cache[t]]_sqlVars
=============================================================================
