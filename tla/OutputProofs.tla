---------------------------- MODULE OutputProofs ----------------------------
(***************************************************************************)
(* Proofs about the two calls that write files from others: Ingest, for    *)
(* any files, any names and any order in which the pool runs the jobs, and *)
(* Splitter, for every source, every max_rows_per_file of at least one and *)
(* every number of earlier calls.                                          *)
(*                                                                         *)
(* Ingest.  As long as no two files share a target, nobody but its own job *)
(* touches the target of a file, so what is there follows from how far     *)
(* that job has come.  Whether two files share one is decided by their     *)
(* names alone, and only by the name a file falls back to.                 *)
(*                                                                         *)
(* Splitter.  SplitInv is inductive with the types: the parts on disk, the *)
(* slice or the batch in hand and the carry follow each other.             *)
(***************************************************************************)
EXTENDS MCOutput, FiniteSetTheorems, TLAPS

-----------------------------------------------------------------------------
(* Ingest: jobs and their targets. *)

\* The target of a file whose job has created it.
JobInv(f) ==
  LET job == worker[f]
      t   == At(targets[f])
  IN  /\ source[f] = "truncated" => OntoItself(f)
      /\ job.pc = "wait" => job = Waiting
      /\ job.pc = "convert" =>
           /\ Normalized(f) /\ t.creator = f /\ t.closed = {} /\ t.rows = job.rows
           /\ t.writers = IF job.writing THEN {f} ELSE {}
           /\ job.rows > 0 => job.writing
           /\ job.writing => source[f] # "header"
           /\ ~job.writing => t = [NoFile EXCEPT !.creator = f]
      /\ job.pc = "copy" =>
           /\ ~Normalized(f) /\ job.rows = 0
           /\ t.creator = f /\ t.closed = {} /\ t.writers = {}
      /\ job.pc = "done" =>
           /\ t.creator = f
           /\ Normalized(f) => t.rows = job.rows /\ source[f] # "broken"
           /\ ~Normalized(f) => job.rows = 0
           /\ ~OntoItself(f) => Delivered(f)

IngestInv ==
  /\ TypeOK
  /\ pc \in {"plan", "refused"} =>
       targets = <<>> /\ \A f \in DOMAIN source : source[f] # "truncated" /\ worker[f] = Waiting
  /\ pc \in {"work", "returned"} => targets = [f \in DOMAIN source |-> Target(f)]
  /\ (\E f \in DOMAIN source : worker[f].pc = "skipped") => Failed
  /\ pc = "returned" =>
       /\ Ended
       /\ ~result.error => ~Failed /\ result.files = Cardinality(DOMAIN source) /\ result.rows = RowsIngested
  /\ TargetsDistinct => \A f \in DOMAIN source : JobInv(f)

\* Two files share a target only if one of them got the name it falls back to.
CollisionsAreFallbacks ==
  \A f, g \in DOMAIN targets :
    f # g /\ targets[f] = targets[g] =>
      \E h \in {f, g} : Normalized(h) /\ Plain(h) \in Seen(h) /\ targets[h] = Fallback(h)
-----------------------------------------------------------------------------
(* Ingest: targets. *)

LEMMA FilesInOrder ==
  ASSUME NEW f \in Files, NEW g \in Files, f # g
  PROVE  Before(f, g) \/ Before(g, f)
  <1>1. PICK i \in DOMAIN Candidates, j \in DOMAIN Candidates : Candidates[i] = f /\ Candidates[j] = g
    BY DEF Files, Range
  <1>2. i # j
    BY <1>1
  <1>3. QED
    BY <1>1, <1>2, CandidatesAssumption DEF Before

LEMMA TargetsApart ==
  ASSUME IngestInv, pc \in {"work", "returned"}
  PROVE  CollisionsAreFallbacks
  <1> SUFFICES ASSUME NEW f \in DOMAIN targets, NEW g \in DOMAIN targets, f # g, targets[f] = targets[g]
               PROVE  \E h \in {f, g} : Normalized(h) /\ Plain(h) \in Seen(h) /\ targets[h] = Fallback(h)
    BY DEF CollisionsAreFallbacks
  <1>1. targets = [h \in DOMAIN source |-> Target(h)]
    BY DEF IngestInv
  <1>2. /\ f \in DOMAIN source /\ g \in DOMAIN source /\ f \in Files /\ g \in Files
        /\ targets[f] = Target(f) /\ targets[g] = Target(g)
    BY <1>1 DEF IngestInv, TypeOK
  <1> SUFFICES ASSUME \A h \in {f, g} : ~(Normalized(h) /\ Plain(h) \in Seen(h))
               PROVE  FALSE
    BY <1>2 DEF Target
  <1>3. \A h \in {f, g} : Target(h) = IF Normalized(h) THEN Plain(h) ELSE h
    BY DEF Target
  <1>4. ASSUME NEW h \in {f, g}, NEW k \in {f, g}, Normalized(h), ~Normalized(k) PROVE FALSE
    BY <1>2, <1>3, <1>4 DEF Seen
  <1>5. ASSUME NEW h \in {f, g}, NEW k \in {f, g}, Normalized(h), Normalized(k), Before(h, k), h # k PROVE FALSE
    BY <1>2, <1>3, <1>5 DEF Seen
  <1>6. QED
    BY <1>2, <1>3, <1>4, <1>5, FilesInOrder

\* A target that is a source file belongs to that file, or to one that is copied.
LEMMA NoConvertedTarget ==
  ASSUME IngestInv, pc \in {"work", "returned"}, NEW f \in DOMAIN source, targets[f] \in DOMAIN source
  PROVE  ~Normalized(targets[f])
  <1>1. f \in Files /\ targets[f] = Target(f)
    BY DEF IngestInv, TypeOK
  <1>2. CASE ~Normalized(f)
    BY <1>1, <1>2 DEF Target
  <1>3. CASE Normalized(f)
    <2>1. PICK e : Target(f) = WithExtension(f, e) /\ (e = <<"parquet">> \/ e = <<Extension(f), "parquet">>)
      BY <1>3 DEF Target, Plain, Fallback
    <2>2. PICK S : f \in Seq(S) /\ f # <<>>
      BY <1>1, NamesAssumption
    <2>3. Front(f) \in Seq(S)
      BY <2>2 DEF Front
    <2>4. Last(Front(f) \o e) = "parquet"
      <3>1. PICK q \in Seq(S), k \in Nat : q = Front(f) /\ k = Len(q)
        BY <2>3
      <3>2. CASE e = <<"parquet">>
        <4>1. Len(q \o e) = k + 1 /\ (q \o e)[k + 1] = "parquet"
          BY <3>1, <3>2
        <4>2. QED
          BY <3>1, <4>1 DEF Last
      <3>3. CASE e = <<Extension(f), "parquet">>
        <4>1. Len(q \o e) = k + 2 /\ (q \o e)[k + 2] = "parquet"
          BY <3>1, <3>3
        <4>2. QED
          BY <3>1, <4>1 DEF Last
      <3>4. QED
        BY <2>1, <3>2, <3>3
    <2>5. Last(targets[f]) = "parquet"
      BY <1>1, <2>1, <2>4 DEF WithExtension
    <2>6. QED
      BY <2>5, NamesAssumption DEF Normalized, Extension
  <1>4. QED
    BY <1>2, <1>3
-----------------------------------------------------------------------------
(* Ingest: types. *)

LEMMA SumsAreEqual ==
  ASSUME NEW r, NEW s, r = s
  PROVE  Sum(r) = Sum(s)
  OBVIOUS

LEMMA IngestStarts == Init => IngestInv
  <1> SUFFICES ASSUME Init PROVE IngestInv
    OBVIOUS
  <1>1. PICK D \in SUBSET Files : source \in [D -> Kinds]
    BY DEF Init
  <1>2. DOMAIN source = D /\ source \in [DOMAIN source -> Kinds \cup {"truncated"}]
    BY <1>1
  <1>3. Waiting \in WorkerState
    BY IngestBounds DEF Waiting, WorkerState
  <1>4. worker \in [DOMAIN source -> WorkerState] /\ \A f \in DOMAIN source : worker[f] = Waiting
    BY <1>3 DEF Init
  <1>5. DOMAIN lake = {} /\ lake \in [DOMAIN lake -> LakeFile] /\ DOMAIN targets = {}
    BY DEF Init
  <1>6. TypeOK
    BY <1>1, <1>2, <1>4, <1>5 DEF Init, TypeOK
  <1>7. \A f \in DOMAIN source : source[f] # "truncated"
    BY <1>1, KindsAssumption
  <1>8. \A f \in DOMAIN source : JobInv(f) /\ worker[f].pc = "wait"
    BY <1>4, <1>7 DEF JobInv, Waiting
  <1>9. QED
    BY <1>4, <1>6, <1>7, <1>8 DEF Init, IngestInv

\* What is in the lake after a file was set.
LEMMA SettingLake ==
  ASSUME TypeOK, NEW t, NEW content \in LakeFile, SetLake(t, content)
  PROVE  /\ lake' \in [DOMAIN lake' -> LakeFile]
         /\ At(t)' = content
         /\ \A u : u # t => At(u)' = At(u)
  BY DEF TypeOK, SetLake, At

LEMMA LakeFiles ==
  ASSUME TypeOK, NEW t
  PROVE  At(t) \in LakeFile
  <1>1. NoFile \in LakeFile
    BY DEF NoFile, LakeFile
  <1>2. QED
    BY <1>1 DEF TypeOK, At

\* How the job of one file changes what it does.
LEMMA GoingOn ==
  ASSUME TypeOK, NEW f \in DOMAIN source,
         NEW state \in {"convert", "copy", "done", "failed", "skipped"}, Goto(f, state)
  PROVE  /\ worker' \in [DOMAIN source -> WorkerState]
         /\ worker'[f].pc = state /\ worker'[f].rows = worker[f].rows /\ worker'[f].writing = worker[f].writing
         /\ \A g \in DOMAIN source \ {f} : worker'[g] = worker[g]
  BY DEF TypeOK, Goto, WorkerState

\* Creating, writing and closing a target.
LEMMA Created ==
  ASSUME TypeOK, NEW f \in DOMAIN source, Create(f), targets' = targets
  PROVE  /\ lake' \in [DOMAIN lake' -> LakeFile]
         /\ At(targets[f])' = [NoFile EXCEPT !.creator = f]
         /\ \A u : u # targets[f] => At(u)' = At(u)
         /\ source' \in [DOMAIN source -> Kinds \cup {"truncated"}] /\ DOMAIN source' = DOMAIN source
         /\ \A g \in DOMAIN source :
              source'[g] = source[g] \/ (in_place /\ g = targets[f] /\ source'[g] = "truncated")
  <1>1. f \in Files
    BY DEF TypeOK
  <1>2. [NoFile EXCEPT !.creator = f] \in LakeFile
    BY <1>1 DEF NoFile, LakeFile
  <1>3. SetLake(targets[f], [NoFile EXCEPT !.creator = f])
    BY DEF Create
  <1> DEFINE t == targets[f]
  <1>4. /\ lake' \in [DOMAIN lake' -> LakeFile]
        /\ lake' = [u \in DOMAIN lake \cup {t} |-> IF u = t THEN [NoFile EXCEPT !.creator = f] ELSE lake[u]]
    BY <1>2, <1>3, SettingLake DEF SetLake
  <1>5. /\ At(t)' = [NoFile EXCEPT !.creator = f]
        /\ \A u : u # t => At(u)' = At(u)
    BY <1>4 DEF At
  <1>6. /\ source' \in [DOMAIN source -> Kinds \cup {"truncated"}] /\ DOMAIN source' = DOMAIN source
        /\ \A g \in DOMAIN source : source'[g] = source[g] \/ (in_place /\ g = t /\ source'[g] = "truncated")
    BY DEF Create, TypeOK
  <1>7. QED
    BY <1>4, <1>5, <1>6
-----------------------------------------------------------------------------
(* Ingest: the jobs. *)

\* A step of one job leaves the targets of the others alone.
LEMMA JobKeeps ==
  ASSUME IngestInv, NEW f \in DOMAIN source, pc = "work", UNCHANGED <<in_place, targets, pc, result>>,
         worker' \in [DOMAIN source -> WorkerState], lake' \in [DOMAIN lake' -> LakeFile],
         source' \in [DOMAIN source -> Kinds \cup {"truncated"}], DOMAIN source' = DOMAIN source,
         \A g \in DOMAIN source : source'[g] = source[g] \/ (OntoItself(g) /\ source'[g] = "truncated"),
         \A g \in DOMAIN source \ {f} : worker'[g] = worker[g],
         \A u : u # targets[f] => At(u)' = At(u),
         worker[f].pc # "failed", worker'[f].pc = "skipped" => Failed,
         TargetsDistinct => JobInv(f)'
  PROVE  IngestInv'
  <1>1. TypeOK'
    BY DEF IngestInv, TypeOK
  <1>2. \A g : Target(g)' = Target(g)
    BY DEF Target, Seen
  <1>3. targets' = [g \in DOMAIN source' |-> Target(g)']
    BY <1>2 DEF IngestInv
  <1>4. Failed => Failed'
    BY DEF Failed
  <1>5. (\E g \in DOMAIN source' : worker'[g].pc = "skipped") => Failed'
    BY <1>4 DEF IngestInv
  <1>6. ASSUME TargetsDistinct, NEW g \in DOMAIN source \ {f} PROVE JobInv(g)'
    <2>1. targets[g] # targets[f]
      BY <1>6 DEF TargetsDistinct, IngestInv
    <2>2. At(targets[g])' = At(targets[g]) /\ worker'[g] = worker[g]
      BY <2>1
    <2>3. JobInv(g) /\ (source'[g] = source[g] \/ (OntoItself(g) /\ source'[g] = "truncated"))
      BY <1>6 DEF IngestInv
    <2>4. OntoItself(g)' = OntoItself(g) /\ (~OntoItself(g) => Delivered(g)' = Delivered(g))
      BY <2>2, <2>3 DEF OntoItself, Delivered, Arrived
    <2>5. QED
      BY <2>2, <2>3, <2>4 DEF JobInv, OntoItself
  <1>7. TargetsDistinct' => \A g \in DOMAIN source' : JobInv(g)'
    BY <1>6 DEF TargetsDistinct
  <1>8. QED
    BY <1>1, <1>3, <1>5, <1>7 DEF IngestInv

LEMMA StartJobKeeps == ASSUME IngestInv, NEW f \in DOMAIN source, StartJob(f) PROVE IngestInv'
  <1>1. /\ TypeOK /\ Create(f) /\ worker[f].pc = "wait"
        /\ Goto(f, IF Normalized(f) THEN "convert" ELSE "copy")
    BY DEF StartJob, IngestInv
  <1>2. /\ worker' \in [DOMAIN source -> WorkerState]
        /\ worker'[f].pc = IF Normalized(f) THEN "convert" ELSE "copy"
        /\ worker'[f].rows = worker[f].rows /\ worker'[f].writing = worker[f].writing
        /\ \A g \in DOMAIN source \ {f} : worker'[g] = worker[g]
    <2>1. CASE Normalized(f)
      BY <1>1, <2>1, GoingOn
    <2>2. CASE ~Normalized(f)
      BY <1>1, <2>2, GoingOn
    <2>3. QED
      BY <2>1, <2>2
  <1>3. \A g \in DOMAIN source : source'[g] = source[g] \/ (OntoItself(g) /\ source'[g] = "truncated")
    <2>1. \A g \in DOMAIN source :
            source'[g] = source[g] \/ (in_place /\ g = targets[f] /\ source'[g] = "truncated")
      BY <1>1, Created DEF StartJob
    <2>2. targets[f] \in DOMAIN source => ~Normalized(targets[f])
      BY NoConvertedTarget DEF StartJob
    <2>3. QED
      BY <2>1, <2>2 DEF OntoItself
  <1>4. ASSUME TargetsDistinct PROVE JobInv(f)'
    <2>1. worker[f] = Waiting
      BY <1>1, <1>4 DEF IngestInv, JobInv
    <2>2. worker'[f].rows = 0 /\ worker'[f].writing = FALSE
      BY <1>2, <2>1 DEF Waiting
    <2>3. At(targets[f])' = [NoFile EXCEPT !.creator = f]
      BY <1>1, Created DEF StartJob
    <2>4. /\ (At(targets[f])').creator = f /\ (At(targets[f])').writers = {}
          /\ (At(targets[f])').closed = {} /\ (At(targets[f])').rows = 0
      BY <2>3 DEF NoFile
    <2>5. source'[f] = "truncated" => OntoItself(f)'
      BY <1>3, <1>4 DEF StartJob, OntoItself, IngestInv, JobInv
    <2>6. QED
      BY <1>2, <2>2, <2>3, <2>4, <2>5 DEF JobInv
  <1>5. QED
    BY <1>1, <1>2, <1>3, <1>4, Created, JobKeeps DEF StartJob

\* What a file of the lake is after it was written to, or closed.
LEMMA FilledTypes ==
  ASSUME NEW r \in LakeFile, NEW f \in Files
  PROVE  LET filled  == [r EXCEPT !.writers = @ \cup {f}, !.rows = @ + 1]
             closed  == [r EXCEPT !.writers = @ \cup {f}, !.closed = @ \cup {f}]
         IN  /\ filled \in LakeFile /\ closed \in LakeFile
             /\ filled.creator = r.creator /\ closed.creator = r.creator
             /\ filled.writers = r.writers \cup {f} /\ closed.writers = r.writers \cup {f}
             /\ filled.closed = r.closed /\ closed.closed = r.closed \cup {f}
             /\ filled.rows = r.rows + 1 /\ closed.rows = r.rows
  <1>1. /\ r.writers \cup {f} \in SUBSET Files /\ r.closed \cup {f} \in SUBSET Files
        /\ r.rows + 1 \in Nat
    BY DEF LakeFile
  <1>2. QED
    BY <1>1 DEF LakeFile

LEMMA Written ==
  ASSUME TypeOK, NEW f \in DOMAIN source, Write(f), targets' = targets
  PROVE  LET t == At(targets[f])
         IN  /\ lake' \in [DOMAIN lake' -> LakeFile]
             /\ \A u : u # targets[f] => At(u)' = At(u)
             /\ t'.creator = t.creator /\ t'.writers = t.writers \cup {f}
             /\ t'.closed = t.closed /\ t'.rows = t.rows + 1
  <1>1. f \in Files /\ At(targets[f]) \in LakeFile
    BY LakeFiles DEF TypeOK
  <1> DEFINE filled == [At(targets[f]) EXCEPT !.writers = @ \cup {f}, !.rows = @ + 1]
             t == targets[f]
  <1>2. SetLake(t, filled)
    BY DEF Write
  <1>3. filled \in LakeFile /\ filled.creator = At(t).creator /\ filled.writers = At(t).writers \cup {f}
        /\ filled.closed = At(t).closed /\ filled.rows = At(t).rows + 1
    BY <1>1, FilledTypes
  <1> HIDE DEF filled
  <1>4. /\ lake' \in [DOMAIN lake' -> LakeFile] /\ At(t)' = filled
        /\ \A u : u # t => At(u)' = At(u)
    BY <1>2, <1>3, SettingLake
  <1>5. QED
    BY <1>3, <1>4

LEMMA Closed ==
  ASSUME TypeOK, NEW f \in DOMAIN source, Close(f), targets' = targets
  PROVE  LET t == At(targets[f])
         IN  /\ lake' \in [DOMAIN lake' -> LakeFile]
             /\ \A u : u # targets[f] => At(u)' = At(u)
             /\ t'.creator = t.creator /\ t'.writers = t.writers \cup {f}
             /\ t'.closed = t.closed \cup {f} /\ t'.rows = t.rows
  <1>1. f \in Files /\ At(targets[f]) \in LakeFile
    BY LakeFiles DEF TypeOK
  <1> DEFINE filled == [At(targets[f]) EXCEPT !.writers = @ \cup {f}, !.closed = @ \cup {f}]
             t == targets[f]
  <1>2. SetLake(t, filled)
    BY DEF Close
  <1>3. filled \in LakeFile /\ filled.creator = At(t).creator /\ filled.writers = At(t).writers \cup {f}
        /\ filled.closed = At(t).closed \cup {f} /\ filled.rows = At(t).rows
    BY <1>1, FilledTypes
  <1> HIDE DEF filled
  <1>4. /\ lake' \in [DOMAIN lake' -> LakeFile] /\ At(t)' = filled
        /\ \A u : u # t => At(u)' = At(u)
    BY <1>2, <1>3, SettingLake
  <1>5. QED
    BY <1>3, <1>4

LEMMA CopyBytesKeeps == ASSUME IngestInv, NEW f \in DOMAIN source, CopyBytes(f) PROVE IngestInv'
  <1>1. TypeOK /\ worker[f].pc = "copy" /\ Goto(f, "done") /\ source' = source /\ pc = "work"
        /\ UNCHANGED <<in_place, targets, pc, result>>
    <2>1. pc = "work"
      BY DEF CopyBytes, IngestInv, Ended, Waiting, TypeOK
    <2>2. QED
      BY <2>1 DEF CopyBytes, Close, IngestInv
  <1>2. /\ worker' \in [DOMAIN source -> WorkerState]
        /\ worker'[f].pc = "done" /\ worker'[f].rows = worker[f].rows
        /\ \A g \in DOMAIN source \ {f} : worker'[g] = worker[g]
    BY <1>1, GoingOn
  <1>3. /\ lake' \in [DOMAIN lake' -> LakeFile]
        /\ \A u : u # targets[f] => At(u)' = At(u)
    <2>1. CASE source[f] = "truncated"
      BY <1>1, <2>1 DEF CopyBytes, TypeOK, At
    <2>2. CASE source[f] # "truncated"
      BY <1>1, <2>2, Closed DEF CopyBytes
    <2>3. QED
      BY <2>1, <2>2
  <1>4. ASSUME TargetsDistinct PROVE JobInv(f)'
    <2>1. /\ ~Normalized(f) /\ worker[f].rows = 0
          /\ At(targets[f]).creator = f /\ At(targets[f]).closed = {} /\ At(targets[f]).writers = {}
      BY <1>1, <1>4 DEF IngestInv, JobInv
    <2>2. CASE source[f] = "truncated"
      <3>1. At(targets[f])' = At(targets[f])
        BY <1>1, <2>2 DEF CopyBytes, At
      <3>2. QED
        BY <1>1, <1>2, <1>4, <2>1, <2>2, <3>1 DEF JobInv, OntoItself, IngestInv
    <2>3. CASE source[f] # "truncated"
      <3>1. Close(f)
        BY <2>3 DEF CopyBytes
      <3>2. (At(targets[f])').creator = f /\ (At(targets[f])').writers = {f} /\ (At(targets[f])').closed = {f}
        BY <1>1, <2>1, <3>1, Closed
      <3>3. QED
        BY <1>1, <1>2, <2>1, <2>3, <3>2 DEF JobInv, Delivered, Arrived
    <2>4. QED
      BY <2>2, <2>3
  <1>5. /\ source' \in [DOMAIN source -> Kinds \cup {"truncated"}] /\ DOMAIN source' = DOMAIN source
        /\ \A g \in DOMAIN source : source'[g] = source[g]
    BY <1>1 DEF TypeOK
  <1>6. QED
    BY <1>1, <1>2, <1>3, <1>4, <1>5, JobKeeps

LEMMA ConvertBatchKeeps == ASSUME IngestInv, NEW f \in DOMAIN source, ConvertBatch(f) PROVE IngestInv'
  <1>1. TypeOK /\ worker[f].pc = "convert" /\ Write(f) /\ source' = source /\ pc = "work"
        /\ UNCHANGED <<in_place, targets, pc, result>>
    <2>1. pc = "work"
      BY DEF ConvertBatch, IngestInv, Ended, Waiting, TypeOK
    <2>2. QED
      BY <2>1 DEF ConvertBatch, Write, IngestInv
  <1>2. /\ worker' \in [DOMAIN source -> WorkerState]
        /\ worker'[f].pc = "convert" /\ worker'[f].rows = worker[f].rows + 1 /\ worker'[f].writing = TRUE
        /\ \A g \in DOMAIN source \ {f} : worker'[g] = worker[g]
    <2>1. worker[f] \in WorkerState /\ worker[f].rows < MaxRows
      BY <1>1 DEF TypeOK, ConvertBatch
    <2>2. worker[f].rows + 1 \in 0 .. MaxRows
      BY <2>1, IngestBounds DEF WorkerState
    <2>3. QED
      BY <1>1, <2>1, <2>2 DEF ConvertBatch, TypeOK, WorkerState
  <1>3. ASSUME TargetsDistinct PROVE JobInv(f)'
    <2>1. /\ Normalized(f) /\ At(targets[f]).creator = f /\ At(targets[f]).closed = {}
          /\ At(targets[f]).rows = worker[f].rows
          /\ At(targets[f]).writers = IF worker[f].writing THEN {f} ELSE {}
      BY <1>1, <1>3 DEF IngestInv, JobInv
    <2>2. /\ (At(targets[f])').creator = f /\ (At(targets[f])').writers = {f}
          /\ (At(targets[f])').closed = {} /\ (At(targets[f])').rows = worker[f].rows + 1
      BY <1>1, <2>1, Written
    <2>3. QED
      BY <1>1, <1>2, <1>3, <2>1, <2>2 DEF JobInv, IngestInv, OntoItself, ConvertBatch
  <1>4. /\ source' \in [DOMAIN source -> Kinds \cup {"truncated"}] /\ DOMAIN source' = DOMAIN source
        /\ \A g \in DOMAIN source : source'[g] = source[g]
    BY <1>1 DEF TypeOK
  <1>5. /\ lake' \in [DOMAIN lake' -> LakeFile]
        /\ \A u : u # targets[f] => At(u)' = At(u)
    BY <1>1, Written
  <1>6. QED
    BY <1>1, <1>2, <1>3, <1>4, <1>5, JobKeeps

LEMMA ConvertEndKeeps == ASSUME IngestInv, NEW f \in DOMAIN source, ConvertEnd(f) PROVE IngestInv'
  <1>1. TypeOK /\ worker[f].pc = "convert" /\ Goto(f, "done") /\ source' = source /\ pc = "work"
        /\ UNCHANGED <<in_place, targets, pc, result>>
    <2>1. pc = "work"
      BY DEF ConvertEnd, IngestInv, Ended, Waiting, TypeOK
    <2>2. QED
      BY <2>1 DEF ConvertEnd, Close, IngestInv
  <1>2. /\ worker' \in [DOMAIN source -> WorkerState]
        /\ worker'[f].pc = "done" /\ worker'[f].rows = worker[f].rows
        /\ \A g \in DOMAIN source \ {f} : worker'[g] = worker[g]
    BY <1>1, GoingOn
  <1>3. /\ lake' \in [DOMAIN lake' -> LakeFile]
        /\ \A u : u # targets[f] => At(u)' = At(u)
    <2>1. CASE ~worker[f].writing
      BY <1>1, <2>1 DEF ConvertEnd, TypeOK, At
    <2>2. CASE worker[f].writing
      BY <1>1, <2>2, Closed DEF ConvertEnd
    <2>3. QED
      BY <2>1, <2>2
  <1>4. ASSUME TargetsDistinct PROVE JobInv(f)'
    <2>1. /\ Normalized(f) /\ At(targets[f]).creator = f /\ At(targets[f]).closed = {}
          /\ At(targets[f]).rows = worker[f].rows
          /\ At(targets[f]).writers = IF worker[f].writing THEN {f} ELSE {}
          /\ worker[f].rows > 0 => worker[f].writing
          /\ worker[f].writing => source[f] # "header"
          /\ ~worker[f].writing => At(targets[f]) = [NoFile EXCEPT !.creator = f]
          /\ source[f] # "truncated"
      BY <1>1, <1>4 DEF IngestInv, JobInv, OntoItself
    <2>2. source[f] # "broken" /\ (source[f] = "rows" => worker[f].writing)
      BY <2>1 DEF ConvertEnd
    <2>3. CASE ~worker[f].writing
      <3>1. At(targets[f])' = At(targets[f])
        BY <1>1, <2>3 DEF ConvertEnd, At
      <3>2. source[f] = "header"
        BY <1>1, <2>1, <2>2, <2>3, KindsAssumption DEF TypeOK
      <3>3. Delivered(f)'
        BY <1>1, <2>1, <2>3, <3>1, <3>2 DEF Delivered
      <3>4. QED
        BY <1>1, <1>2, <2>1, <2>2, <3>1, <3>3 DEF JobInv
    <2>4. CASE worker[f].writing
      <3>1. /\ (At(targets[f])').creator = f /\ (At(targets[f])').writers = {f}
            /\ (At(targets[f])').closed = {f} /\ (At(targets[f])').rows = worker[f].rows
        BY <1>1, <2>1, <2>4, Closed DEF ConvertEnd
      <3>2. Delivered(f)'
        BY <1>1, <2>1, <2>4, <3>1 DEF Delivered, Arrived
      <3>3. QED
        BY <1>1, <1>2, <2>1, <2>2, <3>1, <3>2 DEF JobInv
    <2>5. QED
      BY <2>3, <2>4
  <1>5. /\ source' \in [DOMAIN source -> Kinds \cup {"truncated"}] /\ DOMAIN source' = DOMAIN source
        /\ \A g \in DOMAIN source : source'[g] = source[g]
    BY <1>1 DEF TypeOK
  <1>6. QED
    BY <1>1, <1>2, <1>3, <1>4, <1>5, JobKeeps

LEMMA Spoiled ==
  ASSUME TypeOK, NEW f \in DOMAIN source, Spoil(f), targets' = targets
  PROVE  /\ lake' \in [DOMAIN lake' -> LakeFile]
         /\ \A u : u # targets[f] => At(u)' = At(u)
  <1>1. f \in Files /\ At(targets[f]) \in LakeFile
    BY LakeFiles DEF TypeOK
  <1> DEFINE spoiled == [At(targets[f]) EXCEPT !.writers = @ \cup {f}]
             t == targets[f]
  <1>2. SetLake(t, spoiled)
    BY DEF Spoil
  <1>3. spoiled \in LakeFile
    BY <1>1 DEF LakeFile
  <1> HIDE DEF spoiled
  <1>4. QED
    BY <1>2, <1>3, SettingLake

\* A job that fails leaves what it likes in its target, one that is skipped nothing.
LEMMA GivingUpKeeps ==
  ASSUME IngestInv, NEW f \in DOMAIN source, CopyError(f) \/ ConvertError(f) \/ SkipJob(f)
  PROVE  IngestInv'
  <1>1. /\ TypeOK /\ pc = "work" /\ worker[f].pc \in {"wait", "convert", "copy"} /\ source' = source
        /\ UNCHANGED <<in_place, targets, pc, result>>
        /\ Goto(f, "failed") \/ (Goto(f, "skipped") /\ Failed)
        /\ lake' = lake \/ Spoil(f)
    BY DEF CopyError, ConvertError, SkipJob, GiveUp, Spoil, IngestInv
  <1>2. /\ worker' \in [DOMAIN source -> WorkerState]
        /\ worker'[f].pc \in {"failed", "skipped"} /\ (worker'[f].pc = "skipped" => Failed)
        /\ \A g \in DOMAIN source \ {f} : worker'[g] = worker[g]
    BY <1>1, GoingOn
  <1>3. /\ lake' \in [DOMAIN lake' -> LakeFile]
        /\ \A u : u # targets[f] => At(u)' = At(u)
    <2>1. CASE lake' = lake
      BY <1>1, <2>1 DEF TypeOK, At
    <2>2. CASE Spoil(f)
      BY <1>1, <2>2, Spoiled
    <2>3. QED
      BY <1>1, <2>1, <2>2
  <1>4. ASSUME TargetsDistinct PROVE JobInv(f)'
    BY <1>1, <1>2, <1>4 DEF IngestInv, JobInv, OntoItself
  <1>5. /\ source' \in [DOMAIN source -> Kinds \cup {"truncated"}] /\ DOMAIN source' = DOMAIN source
        /\ \A g \in DOMAIN source : source'[g] = source[g]
    BY <1>1 DEF TypeOK
  <1>6. QED
    BY <1>1, <1>2, <1>3, <1>4, <1>5, JobKeeps

LEMMA PlanKeeps == ASSUME IngestInv, Plan PROVE IngestInv'
  <1>1. TypeOK /\ (\A f \in DOMAIN source : source[f] # "truncated" /\ worker[f] = Waiting)
    BY DEF Plan, IngestInv
  <1>2. TypeOK'
    BY <1>1 DEF Plan, TypeOK
  <1>3. \A f \in DOMAIN source' : JobInv(f)' /\ worker'[f].pc = "wait"
    BY <1>1 DEF Plan, JobInv, Waiting
  <1>4. targets' = [f \in DOMAIN source' |-> Target(f)']
    BY DEF Plan, Target, Seen
  <1>5. QED
    BY <1>2, <1>3, <1>4 DEF Plan, IngestInv

LEMMA RefuseKeeps == ASSUME IngestInv, Refuse PROVE IngestInv'
  <1>1. /\ TypeOK /\ targets = <<>>
        /\ \A f \in DOMAIN source : source[f] # "truncated" /\ worker[f] = Waiting
    BY DEF Refuse, IngestInv
  <1>2. UNCHANGED <<in_place, source, targets, lake, worker>> /\ pc' = "refused"
        /\ result' = [result EXCEPT !.error = TRUE]
    BY DEF Refuse
  <1>3. result'.error \in BOOLEAN
    BY <1>1, <1>2 DEF TypeOK
  <1>4. TypeOK'
    BY <1>1, <1>2, <1>3 DEF TypeOK
  <1>5. \A f \in DOMAIN source' : JobInv(f)' /\ worker'[f].pc = "wait"
    BY <1>1, <1>2 DEF JobInv, Waiting
  <1>6. QED
    BY <1>1, <1>2, <1>4, <1>5 DEF IngestInv

LEMMA ReturnKeeps == ASSUME IngestInv, Return PROVE IngestInv'
  <1>1. UNCHANGED <<in_place, source, targets, lake, worker>> /\ pc' = "returned" /\ pc = "work" /\ Ended
    BY DEF Return
  <1>2. /\ result'.error = Failed
        /\ ~Failed => result'.files = Cardinality(DOMAIN source) /\ result'.rows = RowsIngested
    BY DEF Return, Failed
  <1>3. TypeOK'
    BY <1>1, <1>2 DEF IngestInv, TypeOK, Failed
  <1>4. targets' = [f \in DOMAIN source' |-> Target(f)']
    BY <1>1 DEF IngestInv, Target, Seen
  <1>5. Failed' = Failed /\ Ended' = Ended /\ RowsIngested' = RowsIngested /\ TargetsDistinct' = TargetsDistinct
    BY <1>1 DEF Failed, Ended, RowsIngested, TargetsDistinct
  <1>6. TargetsDistinct => \A f \in DOMAIN source' : JobInv(f)'
    BY <1>1 DEF IngestInv, JobInv, At, Arrived, Delivered, OntoItself
  <1>7. QED
    BY <1>1, <1>2, <1>3, <1>4, <1>5, <1>6 DEF IngestInv

LEMMA IngestStep == IngestInv /\ [Next]_vars => IngestInv'
  <1> SUFFICES ASSUME IngestInv, [Next]_vars PROVE IngestInv'
    OBVIOUS
  <1>1. CASE UNCHANGED vars
    <2>1. UNCHANGED <<in_place, source, targets, lake, worker, pc, result>>
      BY <1>1 DEF vars
    <2>2. Failed' = Failed /\ Ended' = Ended /\ RowsIngested' = RowsIngested /\ TargetsDistinct' = TargetsDistinct
      BY <2>1 DEF Failed, Ended, RowsIngested, TargetsDistinct
    <2>3. TypeOK'
      BY <2>1 DEF IngestInv, TypeOK
    <2>4. pc' \in {"work", "returned"} => targets' = [f \in DOMAIN source' |-> Target(f)']
      BY <2>1 DEF IngestInv, Target, Seen
    <2>5. TargetsDistinct => \A f \in DOMAIN source' : JobInv(f)'
      BY <2>1 DEF IngestInv, JobInv, At, Arrived, Delivered, OntoItself
    <2>6. QED
      BY <2>1, <2>2, <2>3, <2>4, <2>5 DEF IngestInv
  <1>2. QED
    BY <1>1, PlanKeeps, RefuseKeeps, ReturnKeeps, StartJobKeeps, CopyBytesKeeps, ConvertBatchKeeps,
       ConvertEndKeeps, GivingUpKeeps DEF Next
-----------------------------------------------------------------------------
(* Ingest: what a call leaves. *)

LEMMA LakeIsRight ==
  ASSUME IngestInv, TargetsDistinct
  PROVE  LakeRight
  <1>1. \A f \in DOMAIN source : JobInv(f) /\ worker[f] \in WorkerState
    BY DEF IngestInv, TypeOK
  <1>2. ASSUME Ok
        PROVE  /\ result.files = Cardinality(DOMAIN source) /\ result.rows = RowsIngested
               /\ \A f \in DOMAIN source : worker[f].pc = "done"
    BY <1>2 DEF Ok, Ended, Failed, IngestInv
  <1>3. ASSUME NEW f \in DOMAIN source, ~OntoItself(f)
        PROVE  /\ source[f] # "truncated"
               /\ worker[f].pc = "done" =>
                    Delivered(f) /\ (source[f] # "broken" \/ ~Normalized(f))
    BY <1>1, <1>3 DEF JobInv
  <1>4. IngestRight
    BY <1>2, <1>3 DEF IngestRight
  <1>5. ASSUME Ok PROVE RowsCounted
    <2>1. [f \in DOMAIN source |-> worker[f].rows] =
          [f \in DOMAIN source |-> IF Normalized(f) THEN At(targets[f]).rows ELSE 0]
      BY <1>1, <1>2, <1>5 DEF JobInv
    <2>2. RowsIngested = Sum([f \in DOMAIN source |-> IF Normalized(f) THEN At(targets[f]).rows ELSE 0])
      BY <2>1 DEF RowsIngested
    <2>3. QED
      BY <1>2, <1>5, <2>2 DEF RowsCounted
  <1>6. QED
    BY <1>4, <1>5 DEF LakeRight, RowsCounted

LEMMA IngestInvariant == Spec => []IngestInv
  BY IngestStarts, IngestStep, PTL DEF Spec

\* The jobs, their files and their counts keep their types, for any files and
\* names: every planned target is that of a listed file (ingest.rs:48-121).
THEOREM IngestTyped == Spec => []TypeOK
  <1>1. IngestInv => TypeOK
    BY DEF IngestInv
  <1>2. QED
    BY <1>1, IngestInvariant, PTL

\* Unless two files share a target, whatever fails and in any order of the jobs:
\* no source is damaged, the files whose job ended well and all files of a call
\* that returns its counts are in the lake (without a batch, as a file of no
\* bytes), and the rows reported are those there.  Not said of files copied onto
\* themselves, in the source directory itself (ingest.rs:30-171).
THEOREM IngestIsRight == Spec => [](TargetsDistinct => LakeRight)
  <1>1. IngestInv => (TargetsDistinct => LakeRight)
    BY LakeIsRight
  <1>2. QED
    BY <1>1, IngestInvariant, PTL

\* Two files share a target only through a fallback name: names that are copied
\* and names that get the extension parquet never meet (ingest.rs:49-97).
THEOREM OnlyFallbacksCollide == Spec => []CollisionsAreFallbacks
  <1>1. IngestInv => CollisionsAreFallbacks
    <2>1. IngestInv /\ pc \in {"work", "returned"} => CollisionsAreFallbacks
      BY TargetsApart
    <2>2. IngestInv /\ pc \in {"plan", "refused"} => CollisionsAreFallbacks
      BY DEF IngestInv, CollisionsAreFallbacks
    <2>3. QED
      BY <2>1, <2>2 DEF IngestInv, TypeOK
  <1>2. QED
    BY <1>1, IngestInvariant, PTL
-----------------------------------------------------------------------------
(* Splitter. *)

SplitIInv == SplitTypeOK /\ SplitInv

\* A type-correct state stays one.
LEMMA TypesKept == SplitTypeOK /\ [SplitNext]_splitVars => SplitTypeOK'
<1>. SUFFICES ASSUME SplitTypeOK, [SplitNext]_splitVars PROVE SplitTypeOK'
  OBVIOUS
<1>. USE LimitsAssumption, BatchesAssumption, SplitBoundsAssumption
<1>n. NoRows \in Rows
  BY DEF NoRows, Rows
<1>1. ASSUME NEW n \in Limits, NEW f \in Formats, Start(n, f) PROVE SplitTypeOK'
  BY <1>1, <1>n DEF SplitTypeOK, Start
<1>2. ASSUME NEW n \in BatchSizes, ReadBatch(n) PROVE SplitTypeOK'
  <2>. n \in Nat
    OBVIOUS
  <2>. rows' \in Rows
    BY <1>2 DEF SplitTypeOK, ReadBatch, Rows, IsEmpty
  <2>. QED
    BY <1>2, <1>n DEF SplitTypeOK, ReadBatch, call
<1>3. ASSUME Fail PROVE SplitTypeOK'
  BY <1>3 DEF SplitTypeOK, Fail, call, pass
<1>4. CASE CutPart
  <2>. out' \in Rows
    BY <1>4 DEF SplitTypeOK, CutPart, WriteRows, Rows
  <2>. QED
    BY <1>4 DEF SplitTypeOK, CutPart, WriteRows, call, pass
<1>5. CASE KeepCarry
  BY <1>5, <1>n DEF SplitTypeOK, KeepCarry, call, pass
<1>6. CASE EndOfSource
  BY <1>6 DEF SplitTypeOK, EndOfSource, WriteRows, call, pass
<1>7. CASE CreatePart
  <2>. [state |-> "created", rows |-> NoRows] \in File
    BY <1>n DEF File
  <2>. QED
    BY <1>7 DEF SplitTypeOK, CreatePart, call, pass
<1>8. CASE WritePart
  <2>1. [state |-> "whole", rows |-> out] \in File
    BY DEF File, SplitTypeOK
  <2>2. [from |-> out.to, to |-> rows.to] \in Rows
    BY DEF SplitTypeOK, Rows
  <2>3. dir' \in [Parts -> File]
    BY <1>8, <2>1 DEF SplitTypeOK, WritePart
  <2>. QED
    BY <1>8, <2>2, <2>3 DEF SplitTypeOK, WritePart, call, pass
<1>9. CASE ReturnParts
  BY <1>9 DEF SplitTypeOK, ReturnParts, call, pass
<1>10. CASE UNCHANGED splitVars
  BY <1>10 DEF SplitTypeOK, splitVars
<1>. QED
  BY <1>1, <1>2, <1>3, <1>4, <1>5, <1>6, <1>7, <1>8, <1>9, <1>10
     DEF SplitNext, Work, ReadError, WriteError

\* Nothing that Tiled looks at changes.
LEMMA TiledKept ==
  ASSUME NEW n, NEW end, UNCHANGED <<limit, dir>>, Tiled(n, end)
  PROVE  Tiled(n, end)'
BY DEF Tiled

\* A failed call leaves what was written before.
LEMMA FailKeeps == SplitTypeOK /\ SplitInv /\ Fail /\ stage \in {"next", "create", "write"} => SplitInv'
<1>. SUFFICES ASSUME SplitTypeOK, SplitInv, Fail, stage \in {"next", "create", "write"}, limit > 0
              PROVE  SplitInv'
  BY DEF SplitInv, Fail, call
<1>1. UNCHANGED <<limit, dir, written>> /\ stage' = "failed"
  BY DEF Fail, call
<1>2. FullParts(written) /\ Tiled(written, OnDisk)
  BY DEF SplitInv
<1>3. written \in Nat /\ OnDisk \in Nat
  BY DEF SplitTypeOK, OnDisk, Rows
<1>4. written = 0 \/ Tiled(written, dir[written].rows.to)
  <2>. SUFFICES ASSUME written # 0 PROVE Tiled(written, dir[written].rows.to)
    OBVIOUS
  <2>1. written \in 1 .. written
    BY <1>3
  <2>2. dir[written].rows.to = OnDisk
    BY <1>2, <2>1 DEF Tiled
  <2>. QED
    BY <1>2, <2>2
<1>5. FailureLeavesPrefix'
  BY <1>1, <1>2, <1>4 DEF FailureLeavesPrefix, FullParts, Tiled
<1>. QED
  BY <1>1, <1>5 DEF SplitInv, InHand, SplitRight

\* The files on disk and the counts do not change.
LEMMA QuietStep ==
  ASSUME SplitInv, limit > 0, UNCHANGED <<limit, dir, part, written>>,
         stage \in {"next", "cut", "create", "write"},
         stage' \in {"next", "cut", "create", "write"},
         InHand', OnDisk' = OnDisk
  PROVE  SplitInv'
<1>1. Tiled(written, OnDisk)'
  BY DEF SplitInv, Tiled
<1>2. FullParts(written)' /\ part' = written' + 1
  BY DEF SplitInv, FullParts
<1>. QED
  BY <1>1, <1>2 DEF SplitInv, SplitRight, FailureLeavesPrefix

\* A written part continues the tiling.
LEMMA PartWritten == SplitTypeOK /\ SplitInv /\ WritePart => SplitInv'
<1>. SUFFICES ASSUME SplitTypeOK, SplitInv, WritePart, limit > 0 PROVE SplitInv'
  BY DEF SplitInv, WritePart, call
<1>. USE SplitBoundsAssumption
<1>1. /\ stage = "write" /\ stage' = back /\ limit' = limit /\ read' = read
      /\ written' = written + 1 /\ carry' = carry
      /\ dir' = [dir EXCEPT ![part] = [state |-> "whole", rows |-> out]]
      /\ back \in {"cut", "done"}
  BY DEF WritePart, call, pass, SplitTypeOK
<1>2. /\ part = written + 1 /\ FullParts(written) /\ Tiled(written, out.from)
      /\ InHand
  BY <1>1 DEF SplitInv, OnDisk
<1>3. /\ out.from < out.to /\ out.to <= out.from + limit
      /\ out.from \in Nat /\ out.to \in Nat /\ written \in Nat /\ limit \in Nat
  BY <1>1, <1>2 DEF InHand, SplitTypeOK, Rows
<1>4. part \in Parts
  BY <1>1, <1>2 DEF InHand
<1>5. \A k \in 1 .. written : k # part /\ dir'[k] = dir[k]
  BY <1>1, <1>2, <1>3 DEF SplitTypeOK
<1>6. dir'[part] = [state |-> "whole", rows |-> out]
  BY <1>1, <1>4 DEF SplitTypeOK
<1>7. \A k \in 1 .. written' : k \in 1 .. written \/ k = part
  BY <1>1, <1>2, <1>3
<1>8. Tiled(written, out.to)'
  <2>. SUFFICES ASSUME NEW k \in 1 .. written'
                PROVE  /\ k \in Parts
                       /\ dir'[k].state = "whole"
                       /\ dir'[k].rows.from < dir'[k].rows.to
                       /\ dir'[k].rows.to <= dir'[k].rows.from + limit
                       /\ k = 1 => dir'[k].rows.from = 0
                       /\ k > 1 => dir'[k].rows.from = dir'[k - 1].rows.to
                       /\ k = written' => dir'[k].rows.to = out.to
    <3>. written' # 0 /\ out' = out
      BY <1>1, <1>3 DEF WritePart
    <3>. QED
      BY <1>1 DEF Tiled
  <2>1. CASE k \in 1 .. written
    <3>1. k > 1 => k - 1 \in 1 .. written /\ k # written'
      BY <2>1, <1>1, <1>3
    <3>2. k # written'
      BY <2>1, <1>1, <1>3
    <3>3. k > 1 => dir'[k - 1] = dir[k - 1]
      BY <3>1, <1>5
    <3>. QED
      BY <2>1, <3>2, <3>3, <1>2, <1>5 DEF Tiled
  <2>2. CASE k = part
    <3>1. CASE written = 0
      BY <2>2, <3>1, <1>1, <1>2, <1>3, <1>4, <1>6 DEF Tiled
    <3>2. CASE written # 0
      <4>1. written \in 1 .. written /\ k - 1 = written /\ k > 1
        BY <3>2, <2>2, <1>2, <1>3
      <4>2. dir'[written].rows.to = out.from
        BY <4>1, <1>2, <1>5 DEF Tiled
      <4>. QED
        BY <2>2, <4>1, <4>2, <1>1, <1>3, <1>4, <1>6
    <3>. QED
      BY <3>1, <3>2
  <2>. QED
    BY <2>1, <2>2, <1>7
<1>9. CASE back = "cut"
  <2>1. /\ rows' = [from |-> out.to, to |-> rows.to] /\ part' = part + 1
        /\ stage' = "cut"
    BY <1>9, <1>1 DEF WritePart
  <2>2. out.to <= rows.to /\ rows.to = read /\ IsEmpty(carry) /\ out.to = out.from + limit
    BY <1>9, <1>1, <1>2 DEF InHand
  <2>3. InHand'
    BY <1>1, <2>1, <2>2 DEF InHand, IsEmpty
  <2>4. OnDisk' = out.to /\ out' = out
    BY <2>1, <1>1 DEF OnDisk, WritePart
  <2>5. FullParts(written)'
    <3>. SUFFICES ASSUME NEW k \in 1 .. written'
                  PROVE  dir'[k].rows.to = dir'[k].rows.from + limit
      BY <1>1 DEF FullParts
    <3>. QED
      BY <1>2, <1>5, <1>6, <1>7, <2>2 DEF FullParts
  <2>6. Tiled(written, OnDisk)'
    BY <1>8, <2>4 DEF Tiled
  <2>7. part' = written' + 1
    BY <2>1, <1>1, <1>2
  <2>. QED
    BY <2>1, <2>3, <2>5, <2>6, <2>7 DEF SplitInv, SplitRight, FailureLeavesPrefix
<1>10. CASE back = "done"
  <2>1. stage' = "done" /\ out' = out
    BY <1>10, <1>1 DEF WritePart
  <2>2. out.to = read'
    BY <1>10, <1>1, <1>2 DEF InHand
  <2>3. Tiled(written, read)'
    BY <1>8, <2>1, <2>2 DEF Tiled
  <2>4. \A k \in 1 .. (written' - 1) : dir'[k].rows.to = dir'[k].rows.from + limit
    BY <1>1, <1>2, <1>3, <1>5 DEF FullParts
  <2>5. SplitRight'
    BY <1>1, <2>3, <2>4 DEF SplitRight
  <2>. QED
    BY <2>1, <2>5 DEF SplitInv, InHand, FailureLeavesPrefix
<1>. QED
  BY <1>1, <1>9, <1>10

\* Every step keeps types and invariant.
LEMMA InvKept == SplitIInv /\ [SplitNext]_splitVars => SplitIInv'
<1>. SUFFICES ASSUME SplitTypeOK, SplitInv, [SplitNext]_splitVars PROVE SplitInv'
  BY TypesKept DEF SplitIInv
<1>. USE LimitsAssumption, BatchesAssumption
<1>1. ASSUME NEW n \in Limits, NEW f \in Formats, Start(n, f) PROVE SplitInv'
  <2>1. /\ stage' = "next" /\ written' = 0 /\ part' = 1 /\ read' = 0
        /\ carry' = NoRows
    BY <1>1 DEF Start
  <2>2. OnDisk' = 0 /\ IsEmpty(carry)'
    BY <2>1 DEF OnDisk, IsEmpty, NoRows
  <2>3. Tiled(written, OnDisk)' /\ FullParts(written)'
    BY <2>1, <2>2 DEF Tiled, FullParts
  <2>4. InHand'
    BY <2>1, <2>2 DEF InHand
  <2>. QED
    BY <2>1, <2>3, <2>4 DEF SplitInv, SplitRight, FailureLeavesPrefix
<1>2. ASSUME NEW n \in BatchSizes, ReadBatch(n) PROVE SplitInv'
  <2>. SUFFICES ASSUME limit > 0 PROVE SplitInv'
    BY <1>2 DEF ReadBatch, SplitInv, call
  <2>1. n \in Nat /\ stage = "next" /\ stage' = "cut" /\ read' = read + n /\ read \in Nat
    BY <1>2 DEF ReadBatch, SplitTypeOK
  <2>2. UNCHANGED <<limit, dir, part, written>> /\ carry' = NoRows
    BY <1>2 DEF ReadBatch, call
  <2>3. rows' = [from |-> IF IsEmpty(carry) THEN read ELSE carry.from, to |-> read + n]
    BY <1>2 DEF ReadBatch
  <2>4. OnDisk' = OnDisk
    BY <2>1, <2>3 DEF OnDisk
  <2>5. ~IsEmpty(carry) => carry.from < read /\ carry.from \in Nat
    BY <2>1 DEF SplitInv, InHand, SplitTypeOK, Rows
  <2>6. InHand'
    BY <2>1, <2>2, <2>3, <2>5 DEF InHand, IsEmpty, NoRows
  <2>. QED
    BY <2>1, <2>2, <2>4, <2>6, QuietStep
<1>3. CASE ReadError
  BY <1>3, FailKeeps DEF ReadError
<1>4. CASE CutPart
  <2>. SUFFICES ASSUME limit > 0 PROVE SplitInv'
    BY <1>4 DEF CutPart, SplitInv, call
  <2>1. /\ stage = "cut" /\ stage' = "create" /\ rows.from + limit <= rows.to /\ back' = "cut"
        /\ out' = [from |-> rows.from, to |-> rows.from + limit]
        /\ UNCHANGED <<limit, dir, part, written, rows, carry, read>>
    BY <1>4 DEF CutPart, WriteRows, call, pass
  <2>2. rows.to = read /\ IsEmpty(carry) /\ rows.from \in Nat /\ limit \in Nat
    BY <2>1 DEF SplitInv, InHand, SplitTypeOK, Rows
  <2>3. InHand'
    BY <2>1, <2>2 DEF InHand, IsEmpty
  <2>4. OnDisk' = OnDisk
    BY <2>1 DEF OnDisk
  <2>. QED
    BY <2>1, <2>3, <2>4, QuietStep
<1>5. CASE KeepCarry
  <2>. SUFFICES ASSUME limit > 0 PROVE SplitInv'
    BY <1>5 DEF KeepCarry, SplitInv, call
  <2>1. /\ stage = "cut" /\ stage' = "next" /\ rows.to < rows.from + limit
        /\ carry' = IF IsEmpty(rows) THEN NoRows ELSE rows
        /\ UNCHANGED <<limit, dir, part, written, rows, read>>
    BY <1>5 DEF KeepCarry, call, pass
  <2>2. rows.from <= rows.to /\ rows.to = read /\ rows.from \in Nat /\ rows.to \in Nat
    BY <2>1 DEF SplitInv, InHand, SplitTypeOK, Rows
  <2>3. InHand'
    BY <2>1, <2>2 DEF InHand, IsEmpty, NoRows
  <2>4. OnDisk' = OnDisk
    BY <2>1, <2>2 DEF OnDisk, IsEmpty, NoRows
  <2>. QED
    BY <2>1, <2>3, <2>4, QuietStep
<1>6. CASE EndOfSource
  <2>. SUFFICES ASSUME limit > 0 PROVE SplitInv'
    BY <1>6 DEF EndOfSource, SplitInv, call
  <2>0. stage = "next" /\ UNCHANGED <<limit, dir, part, written, rows, carry, read>>
    BY <1>6 DEF EndOfSource, call, pass
  <2>1. CASE IsEmpty(carry)
    <3>1. stage' = "done"
      BY <1>6, <2>1 DEF EndOfSource
    <3>2. Tiled(written, read) /\ FullParts(written) /\ written \in Nat
      BY <2>0, <2>1 DEF SplitInv, OnDisk, SplitTypeOK
    <3>3. \A k \in 1 .. (written - 1) : dir[k].rows.to = dir[k].rows.from + limit
      BY <3>2 DEF FullParts
    <3>4. SplitRight'
      BY <2>0, <3>2, <3>3 DEF SplitRight, Tiled
    <3>. QED
      BY <3>1, <3>4 DEF SplitInv, InHand, FailureLeavesPrefix
  <2>2. CASE ~IsEmpty(carry)
    <3>1. stage' = "create" /\ out' = carry /\ back' = "done"
      BY <1>6, <2>2 DEF EndOfSource, WriteRows
    <3>2. /\ carry.from < carry.to /\ carry.to = read
          /\ carry.to < carry.from + limit
      BY <2>0, <2>2 DEF SplitInv, InHand
    <3>3. carry.from \in Nat /\ carry.to \in Nat /\ limit \in Nat
      BY DEF SplitTypeOK, Rows
    <3>4. InHand'
      BY <2>0, <3>1, <3>2, <3>3 DEF InHand
    <3>5. OnDisk' = OnDisk
      BY <2>0, <2>2, <3>1 DEF OnDisk
    <3>. QED
      BY <2>0, <3>1, <3>4, <3>5, QuietStep
  <2>. QED
    BY <2>1, <2>2
<1>7. CASE CreatePart
  <2>. SUFFICES ASSUME limit > 0 PROVE SplitInv'
    BY <1>7 DEF CreatePart, SplitInv, call
  <2>1. /\ stage = "create" /\ stage' = "write" /\ part \in Parts
        /\ dir' = [dir EXCEPT ![part] = [state |-> "created", rows |-> NoRows]]
        /\ UNCHANGED <<limit, part, written, rows, carry, read, out, back>>
    BY <1>7 DEF CreatePart, call, pass
  <2>2. /\ part = written + 1 /\ FullParts(written) /\ Tiled(written, out.from)
        /\ InHand /\ written \in Nat
    BY <2>1 DEF SplitInv, OnDisk, SplitTypeOK
  <2>3. \A k \in 1 .. written : k # part /\ dir'[k] = dir[k]
    BY <2>1, <2>2 DEF SplitTypeOK
  <2>4. \A k \in 1 .. written : k > 1 => dir'[k - 1] = dir[k - 1]
    <3>. SUFFICES ASSUME NEW k \in 1 .. written, k > 1 PROVE dir'[k - 1] = dir[k - 1]
      OBVIOUS
    <3>. k - 1 \in 1 .. written
      BY <2>2
    <3>. QED
      BY <2>3
  <2>5. Tiled(written, out.from)'
    BY <2>1, <2>2, <2>3, <2>4 DEF Tiled
  <2>6. FullParts(written)'
    BY <2>1, <2>2, <2>3 DEF FullParts
  <2>7. InHand'
    BY <2>1, <2>2 DEF InHand
  <2>8. OnDisk' = out'.from
    BY <2>1 DEF OnDisk
  <2>9. Tiled(written, OnDisk)'
    BY <2>5, <2>8 DEF Tiled
  <2>. QED
    BY <2>1, <2>2, <2>6, <2>7, <2>9 DEF SplitInv, SplitRight, FailureLeavesPrefix
<1>8. CASE WritePart
  BY <1>8, PartWritten
<1>9. CASE WriteError
  BY <1>9, FailKeeps DEF WriteError
<1>10. CASE ReturnParts
  BY <1>10 DEF ReturnParts, SplitInv, InHand, SplitRight, FailureLeavesPrefix
<1>11. CASE UNCHANGED splitVars
  BY <1>11 DEF splitVars, SplitInv, InHand, SplitRight, FailureLeavesPrefix, Tiled,
               FullParts, OnDisk
<1>. QED
  BY <1>1, <1>2, <1>3, <1>4, <1>5, <1>6, <1>7, <1>8, <1>9, <1>10, <1>11
     DEF SplitNext, Work

\* Types and invariant hold in every reachable state.
LEMMA InvHolds == SplitSpec => []SplitIInv
<1>1. SplitInit => SplitIInv
  <2>1. SplitInit => SplitTypeOK
    BY SplitBoundsAssumption DEF SplitInit, SplitTypeOK, Rows, NoRows, File, Parts
  <2>2. SplitInit => SplitInv
    BY DEF SplitInit, SplitInv, InHand, SplitRight, FailureLeavesPrefix
  <2>. QED
    BY <2>1, <2>2 DEF SplitIInv
<1>. QED
  BY <1>1, InvKept, PTL DEF SplitSpec

\* The slice in hand, the carry and the parts on disk are intervals of rows: no
\* length that is kept or cut is ever below zero.
THEOREM SplitTyped == SplitSpec => []SplitTypeOK
<1>1. SplitIInv => SplitTypeOK
  BY DEF SplitIInv
<1>. QED
  BY <1>1, InvHolds, PTL

\* Whatever the source delivers and whatever the directory held before, a call
\* with max_rows_per_file of at least one that returns has written each row
\* once, in order, in full parts but for the last (splitter.rs:16-66).
THEOREM PartsPartitionRows == SplitSpec => []SplitRight
<1>1. SplitIInv => SplitRight
  BY DEF SplitIInv, SplitInv, SplitRight
<1>. QED
  BY <1>1, InvHolds, PTL

\* A call that fails leaves full parts that hold a prefix of the rows.
THEOREM FailedSplitIsPrefix == SplitSpec => []FailureLeavesPrefix
<1>1. SplitIInv => FailureLeavesPrefix
  BY DEF SplitIInv, SplitInv, FailureLeavesPrefix
<1>. QED
  BY <1>1, InvHolds, PTL

\* What is proved of the two calls holds in every behaviour of the run that checks
\* both (ingest.rs:30-171, splitter.rs:16-66).
THEOREM OutputIsRight ==
  OutputSpec => []((TargetsDistinct => LakeRight) /\ SplitRight /\ FailureLeavesPrefix)
  <1>1. OutputInit => Init /\ SplitInit
    BY DEF OutputInit, NoIngest, NoSplit
  <1>2. [OutputNext]_outputVars => [Next]_vars /\ [SplitNext]_splitVars
    BY DEF OutputNext, OfIngest, OfSplit, IngestEnded, outputVars
  <1>3. OutputSpec => Spec /\ SplitSpec
    BY <1>1, <1>2, PTL DEF OutputSpec, Spec, SplitSpec
  <1>4. QED
    BY <1>3, IngestIsRight, PartsPartitionRows, FailedSplitIsPrefix, PTL
=============================================================================
