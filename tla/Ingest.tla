------------------------------- MODULE Ingest -------------------------------
(***************************************************************************)
(* ingest_native and ingest_normalize (src/src/engine/ingest.rs): the      *)
(* files of a source directory get their targets one after the other, then *)
(* a thread pool copies them or converts them to Parquet.  Each step that  *)
(* touches the disk may fail.                                              *)
(*                                                                         *)
(* A file name is the sequence of its parts between dots; the last is its  *)
(* extension.  What a file of the lake holds is who created it last, who   *)
(* has written to it since, and who has closed it.                         *)
(***************************************************************************)
EXTENDS Integers, SequencesExt

CONSTANTS
  Candidates,  \* the names a source file may have, in sorted order
  Lower,       \* extensions with capitals -> the same in lower case
  RowFormats,  \* extensions is_row_format accepts
  Kinds,       \* what a source file may hold: "rows", "header" or "broken"
  Places,      \* TRUE in it: the lake may be the source directory itself
  MaxRows      \* bound: batches (of one row) of a source file

Files == Range(Candidates)

ASSUME CandidatesAssumption ==
  /\ Candidates \in Seq(Files)
  /\ \A i, j \in DOMAIN Candidates : Candidates[i] = Candidates[j] => i = j
ASSUME NamesAssumption ==
  /\ \A f \in Files : f \in Seq(Range(f)) /\ f # <<>>
  /\ "parquet" \notin RowFormats \cup DOMAIN Lower
ASSUME KindsAssumption == Kinds \subseteq {"rows", "header", "broken"}
ASSUME IngestBounds == Places \subseteq BOOLEAN /\ MaxRows \in Nat \ {0}

VARIABLES
  in_place, \* is the lake the source directory itself?
  source,   \* the source directory: name -> what the file holds
  targets,  \* the target of each source file, once planned
  lake,     \* the destination directory: name -> what was done to the file
  worker,   \* the job of each source file
  pc,
  result    \* what the call returned: files, rows, or an error

vars == <<in_place, source, targets, lake, worker, pc, result>>

NoFile == [creator |-> <<>>, writers |-> {}, closed |-> {}, rows |-> 0]
Waiting == [pc |-> "wait", rows |-> 0, writing |-> FALSE]

WorkerState == [pc: {"wait", "convert", "copy", "done", "failed", "skipped"},
                rows: 0 .. MaxRows, writing: BOOLEAN]
LakeFile == [creator: Files \cup {<<>>}, writers: SUBSET Files, closed: SUBSET Files, rows: Nat]

TypeOK ==
  /\ in_place \in Places
  /\ source \in [DOMAIN source -> Kinds \cup {"truncated"}] /\ DOMAIN source \subseteq Files
  /\ DOMAIN targets \subseteq DOMAIN source
  /\ lake \in [DOMAIN lake -> LakeFile]
  /\ worker \in [DOMAIN source -> WorkerState]
  /\ pc \in {"plan", "refused", "work", "returned"}
  /\ result.error \in BOOLEAN
-----------------------------------------------------------------------------
(* Targets. *)

Extension(f) == LET e == Last(f) IN IF e \in DOMAIN Lower THEN Lower[e] ELSE e
Normalized(f) == Extension(f) \in RowFormats
WithExtension(f, e) == Front(f) \o e

Plain(f)    == WithExtension(f, <<"parquet">>)
Fallback(f) == WithExtension(f, <<Extension(f), "parquet">>)

\* Files are listed in sorted order.
Before(g, f) == \E i, j \in DOMAIN Candidates : i < j /\ Candidates[i] = g /\ Candidates[j] = f

\* What has been seen when a file gets its target: the files that are copied have
\* reserved their names first.
Seen(f) ==
  {g \in DOMAIN source : ~Normalized(g)}
    \cup {Plain(g) : g \in {h \in DOMAIN source : Normalized(h) /\ Before(h, f)}}

\* The fallback name is not looked up.
Target(f) ==
  IF ~Normalized(f) THEN f ELSE IF Plain(f) \in Seen(f) THEN Fallback(f) ELSE Plain(f)

\* Mutated: the listing keeps files that are gone.
PlanStale ==
  /\ pc = "plan"
  /\ targets' = [f \in Files |-> Target(f)]
  /\ pc' = "work"
  /\ UNCHANGED <<in_place, source, lake, worker, result>>

Plan ==
  /\ pc = "plan"
  /\ targets' = [f \in DOMAIN source |-> Target(f)]
  /\ pc' = "work"
  /\ UNCHANGED <<in_place, source, lake, worker, result>>

\* The lake cannot be made or the source not be listed: no job is started.
Refuse ==
  /\ pc = "plan"
  /\ pc' = "refused"
  /\ result' = [result EXCEPT !.error = TRUE]
  /\ UNCHANGED <<in_place, source, targets, lake, worker>>
-----------------------------------------------------------------------------
(* The jobs.  In place, the file that is created may be a source file. *)

At(t) == IF t \in DOMAIN lake THEN lake[t] ELSE NoFile
SetLake(t, content) == lake' = [u \in DOMAIN lake \cup {t} |-> IF u = t THEN content ELSE lake[u]]

\* File::create: the file is empty, whoever has it open goes on writing to it.
Create(f) ==
  /\ SetLake(targets[f], [NoFile EXCEPT !.creator = f])
  /\ source' = IF in_place /\ targets[f] \in DOMAIN source
                 THEN [source EXCEPT ![targets[f]] = "truncated"] ELSE source

Write(f) ==
  /\ SetLake(targets[f], [At(targets[f]) EXCEPT !.writers = @ \cup {f}, !.rows = @ + 1])
  /\ UNCHANGED source

\* Bytes of a file that will not be complete.
Spoil(f) ==
  /\ SetLake(targets[f], [At(targets[f]) EXCEPT !.writers = @ \cup {f}])
  /\ UNCHANGED source

Close(f) ==
  /\ SetLake(targets[f], [At(targets[f]) EXCEPT !.writers = @ \cup {f}, !.closed = @ \cup {f}])
  /\ UNCHANGED source

Goto(f, state) == worker' = [worker EXCEPT ![f].pc = state]

StartJob(f) ==
  /\ pc = "work"
  /\ worker[f].pc = "wait"
  /\ Create(f)
  /\ Goto(f, IF Normalized(f) THEN "convert" ELSE "copy")
  /\ UNCHANGED <<in_place, targets, pc, result>>

\* An error of the job of a file: before its target is created, or after it and
\* perhaps in the middle of writing to it.
GiveUp(f) ==
  /\ Goto(f, "failed")
  /\ \/ UNCHANGED <<source, lake>>
     \/ worker[f].pc # "wait" /\ Spoil(f)
  /\ UNCHANGED <<in_place, targets, pc, result>>

\* The directory, the source, the target or a byte in between.
CopyError(f) ==
  /\ pc = "work"
  /\ worker[f].pc \in {"wait", "copy"}
  /\ ~Normalized(f)
  /\ GiveUp(f)

\* The bytes of the file, as many as it has now.
CopyBytes(f) ==
  /\ worker[f].pc = "copy"
  /\ IF source[f] = "truncated" THEN UNCHANGED <<source, lake>> ELSE Close(f)
  /\ Goto(f, "done")
  /\ UNCHANGED <<in_place, targets, pc, result>>

\* Mutated: the first batch creates the writer and is not counted.
ConvertBatchUncounted(f) ==
  /\ worker[f].pc = "convert"
  /\ source[f] # "header"
  /\ worker[f].rows < MaxRows
  /\ worker' = [worker EXCEPT ![f].rows = IF worker[f].writing THEN @ + 1 ELSE @,
                              ![f].writing = TRUE]
  /\ Write(f)
  /\ UNCHANGED <<in_place, targets, pc, result>>

\* One batch of the source; the first one makes the Parquet writer.
ConvertBatch(f) ==
  /\ worker[f].pc = "convert"
  /\ source[f] # "header"
  /\ worker[f].rows < MaxRows
  /\ worker' = [worker EXCEPT ![f].rows = @ + 1, ![f].writing = TRUE]
  /\ Write(f)
  /\ UNCHANGED <<in_place, targets, pc, result>>

\* The directory, the target, the source (a broken one always), the writer or its
\* footer.
ConvertError(f) ==
  /\ pc = "work"
  /\ worker[f].pc \in {"wait", "convert"}
  /\ Normalized(f)
  /\ GiveUp(f)

\* The end of the source: the footer is written if there was a batch.
ConvertEnd(f) ==
  /\ worker[f].pc = "convert"
  /\ source[f] # "broken"
  /\ source[f] = "rows" => worker[f].rows > 0
  /\ IF worker[f].writing THEN Close(f) ELSE UNCHANGED <<source, lake>>
  /\ Goto(f, "done")
  /\ UNCHANGED <<in_place, targets, pc, result>>

Failed == \E f \in DOMAIN source : worker[f].pc = "failed"

\* Once a job has failed the pool may leave out those that have not started.
SkipJob(f) ==
  /\ pc = "work"
  /\ worker[f].pc = "wait"
  /\ Failed
  /\ Goto(f, "skipped")
  /\ UNCHANGED <<in_place, source, targets, lake, pc, result>>

Sum(rows) == MapThenSumSet(LAMBDA f : rows[f], DOMAIN rows)
RowsIngested == Sum([f \in DOMAIN source |-> worker[f].rows])

Ended == \A f \in DOMAIN source : worker[f].pc \in {"done", "failed", "skipped"}

\* Mutated: the failed files are left out of the counts.
ReturnLeniently ==
  /\ pc = "work" /\ Ended
  /\ pc' = "returned"
  /\ result' = [error |-> FALSE, files |-> Cardinality(DOMAIN source),
                rows |-> RowsIngested]
  /\ UNCHANGED <<in_place, source, targets, lake, worker>>

Return ==
  /\ pc = "work" /\ Ended
  /\ pc' = "returned"
  /\ result' = IF Failed THEN [error |-> TRUE, files |-> 0, rows |-> 0]
               ELSE [error |-> FALSE, files |-> Cardinality(DOMAIN source),
                     rows |-> RowsIngested]
  /\ UNCHANGED <<in_place, source, targets, lake, worker>>

Init ==
  /\ in_place \in Places
  /\ \E D \in SUBSET Files : source \in [D -> Kinds]
  /\ targets = <<>>
  /\ lake = <<>>
  /\ worker = [f \in DOMAIN source |-> Waiting]
  /\ pc = "plan"
  /\ result = [error |-> FALSE, files |-> 0, rows |-> 0]

Next ==
  \/ Plan \/ Refuse
  \/ \E f \in DOMAIN source :
       \/ StartJob(f) \/ CopyBytes(f) \/ CopyError(f) \/ ConvertBatch(f)
       \/ ConvertError(f) \/ ConvertEnd(f) \/ SkipJob(f)
  \/ Return

Spec == Init /\ [][Next]_vars
-----------------------------------------------------------------------------
(* Properties. *)

Ok == pc = "returned" /\ ~result.error

\* The target of a file holds its content and nothing else: nobody created it
\* again or wrote to it besides, and it was written to the end.
Arrived(f) ==
  LET t == At(targets[f]) IN
  t.creator = f /\ t.writers = {f} /\ t.closed = {f}

\* A source without a batch is converted to a file of no bytes.
Delivered(f) ==
  IF Normalized(f) /\ source[f] = "header"
    THEN At(targets[f]) = [NoFile EXCEPT !.creator = f]
    ELSE Arrived(f)

\* In its own directory a file that is not converted is its own target.
OntoItself(f) == in_place /\ ~Normalized(f)

\* Whatever the order in which the pool runs the jobs and whatever fails: a file
\* whose job has ended well, and every file of a call that returns its counts, is
\* delivered, also if the call then fails for another file; no source is damaged;
\* a source that cannot be read to its end fails the call.  Nothing is said of
\* files copied onto themselves, which CopiedByteForByte is about
\* (ingest.rs:30-171).
IngestRight ==
  /\ \A f \in {g \in DOMAIN source : ~OntoItself(g)} :
       /\ source[f] # "truncated"
       /\ Ok \/ worker[f].pc = "done" => Delivered(f)
       /\ Ok => source[f] # "broken" \/ ~Normalized(f)
  /\ Ok => result.files = Cardinality(DOMAIN source)

\* The rows reported are the rows the Parquet files in the lake hold.
RowsCounted ==
  Ok => result.rows = Sum([f \in DOMAIN source |->
                             IF Normalized(f) THEN At(targets[f]).rows ELSE 0])

\* Files are delivered, sources kept and rows counted as they are in the lake
\* (ingest.rs:30-171).
LakeRight == IngestRight /\ RowsCounted

\* ingest.rs:49-51: no two files share a target.
TargetsDistinct ==
  \A f, g \in DOMAIN targets : f # g => targets[f] # targets[g]

\* ingest.rs:26-27: "other files are copied byte-for-byte", whatever directory the
\* lake is.
CopiedByteForByte == Ok => \A f \in DOMAIN source : ~Normalized(f) => Arrived(f)
=============================================================================
