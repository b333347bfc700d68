------------------------------ MODULE LakeMap ------------------------------
(***************************************************************************)
(* The lake map catalog (.br_map.bazan) and everything that runs against   *)
(* it at the same time: programs that change the data files, create_map    *)
(* jobs and Lake Doctor jobs that inspect those files and publish a new    *)
(* catalog, and slices that use a catalog entry to find rows in a file.    *)
(*                                                                         *)
(* Source: src/src/engine/map/{inspect,storage,doctor}.rs and the mapped   *)
(* path of src/src/engine/slice.rs.                                        *)
(*                                                                         *)
(* Abstractions.  A file's bytes are one value of Contents; its BLAKE3     *)
(* digest is that value (no collisions).  An entry's stats_json and row    *)
(* count are the content they were computed from (field "scanned"), its    *)
(* row_groups_json the content the locators describe (field "located").    *)
(* One open-and-read of a file sees one content, a directory listing is    *)
(* one step; every two reads of the code are two steps here.               *)
(***************************************************************************)
EXTENDS Naturals, FiniteSets

CONSTANTS
  Files,        \* data files, numbered in rel_path order
  Contents,     \* the bytes a file may hold
  NoContent,    \* absent digest, nothing scanned, nothing read
  SizeOf,       \* size in bytes of each content
  Readable,     \* contents the format handler decodes without an error
  OnePass,      \* files whose locators come from the scan itself (Arrow IPC, XLSX)
  Doctors,      \* processes that run doctor_lake_map
  Builders,     \* processes that run create_lake_map
  Readers,      \* processes that run slice_rows / slice_cols
  Asked,        \* fingerprint policies the callers of create_map ask for
  FreshStamps,  \* TRUE: every change of a file gives it a new mtime_ms
  Recurring,    \* TRUE: a file may hold again the bytes it held before
  MaxClock,     \* bound: changes made to the data files
  MaxFaults     \* bound: crashes and I/O errors of the jobs

ASSUME FilesAssumption == Files \subseteq Nat
ASSUME ContentsAssumption ==
  /\ NoContent \notin Contents
  /\ SizeOf \in [Contents -> Nat]
  /\ Readable \subseteq Contents
ASSUME BoundsAssumption ==
  /\ FreshStamps \in BOOLEAN
  /\ Recurring \in BOOLEAN
  /\ MaxClock \in Nat
  /\ MaxFaults \in Nat
ASSUME ProcessesAssumption ==
  /\ Doctors \cap Builders = {}
  /\ (Doctors \cup Builders) \cap Readers = {}

Jobs     == Doctors \cup Builders
Policies == {"metadata", "blake3"}

ASSUME AskedAssumption == Asked \subseteq Policies

VARIABLES
  disk,     \* the data files: are they there, their bytes and their mtime_ms
  clock,    \* counts the changes of the data files
  used,     \* history: every content each file has held
  catalog,  \* .br_map.bazan
  temp,     \* the job's temporary sibling of .br_map.bazan
  job,      \* control state of each job
  base,     \* the catalog a Doctor loaded
  stage,    \* how far a job is with each file
  draft,    \* the entry a job is building for each file
  reader,   \* control state of each slice
  calm,     \* history: jobs and slices no other process has disturbed
  faults    \* crashes and I/O errors so far

lakeVars == <<disk, clock, used>>
workVars == <<base, stage, draft>>
vars == <<disk, clock, used, catalog, temp, job, base, stage, draft,
          reader, calm, faults>>
-----------------------------------------------------------------------------
(* What the code stores. *)

MaybeContent == Contents \cup {NoContent}

Entry == [size: Nat, mtime: Nat, hash: MaybeContent,
          scanned: MaybeContent, located: MaybeContent]

Blank == [size |-> 0, mtime |-> 0, hash |-> NoContent,
          scanned |-> NoContent, located |-> NoContent]

Map == [state: {"absent", "torn", "whole"}, policy: Policies,
        files: SUBSET Files, entries: [Files -> Entry]]

Torn   == [state |-> "torn", policy |-> "metadata", files |-> {},
           entries |-> [f \in Files |-> Blank]]
Absent == [Torn EXCEPT !.state = "absent"]

Stages == {"none", "found", "stated", "todo", "metered", "hashed",
           "scanned", "located", "rechecked", "done"}

Idle == [pc |-> "idle", policy |-> "metadata", heal |-> FALSE,
         status |-> "none"]

Resting == [pc |-> "idle", file |-> 0, mapped |-> FALSE, entry |-> Blank,
            got |-> NoContent]

FileState == [present: BOOLEAN, content: Contents, mtime: Nat]

JobState == [pc: {"idle", "load", "discover", "diagnose", "inspect", "write",
                  "rename", "done", "failed"},
             policy: Policies, heal: BOOLEAN,
             status: {"none", "HEALTHY", "DRIFT_DETECTED", "HEALED", "CREATED",
                      "ERROR"}]

SliceState == [pc: {"idle", "stat", "read", "done", "failed"}, file: Nat,
               mapped: BOOLEAN, entry: Entry, got: MaybeContent]

TypeOK ==
  /\ disk \in [Files -> FileState]
  /\ clock \in Nat
  /\ used \in [Files -> SUBSET Contents]
  /\ catalog \in Map
  /\ temp \in [Jobs -> Map]
  /\ job \in [Jobs -> JobState]
  /\ base \in [Jobs -> Map]
  /\ stage \in [Jobs -> [Files -> Stages]]
  /\ draft \in [Jobs -> [Files -> Entry]]
  /\ reader \in [Readers -> SliceState]
  /\ \A r \in Readers : reader[r].pc # "idle" => reader[r].file \in Files
  /\ calm \subseteq Jobs \cup Readers
  /\ faults \in Nat

SameStamp(a, b) == a.size = b.size /\ a.mtime = b.mtime

\* fs::metadata: the size and mtime_ms the file has now.
Stamp(f) == [size |-> SizeOf[disk[f].content], mtime |-> disk[f].mtime]

\* discover_data_files sorts the paths it returns: the first of a set of files.
IsFirst(f, S) == f \in S /\ \A g \in S : f <= g
AtStage(j, s) == {f \in Files : stage[j][f] = s}
-----------------------------------------------------------------------------
(* The data files.  A change is atomic, the order of changes is free. *)

WriteFile(f, c, fresh) ==
  /\ clock < MaxClock
  /\ fresh \/ (~FreshStamps /\ disk[f].present)
  /\ Recurring \/ c \notin used[f]
  /\ clock' = clock + 1
  /\ disk' = [disk EXCEPT ![f] =
        [present |-> TRUE, content |-> c,
         mtime   |-> IF fresh THEN clock + 1 ELSE disk[f].mtime]]
  /\ used' = [used EXCEPT ![f] = @ \cup {c}]
  /\ calm' = {}
  /\ UNCHANGED <<catalog, temp, job, workVars, reader, faults>>

RemoveFile(f) ==
  /\ clock < MaxClock
  /\ disk[f].present
  /\ clock' = clock + 1
  /\ disk' = [disk EXCEPT ![f].present = FALSE]
  /\ calm' = {}
  /\ UNCHANGED <<used, catalog, temp, job, workVars, reader, faults>>
-----------------------------------------------------------------------------
(* Jobs: how a job starts and ends. *)

Goto(j, pc) == job' = [job EXCEPT ![j].pc = pc]

ForgetWork(j) ==
  /\ base'  = [base EXCEPT ![j] = Absent]
  /\ stage' = [stage EXCEPT ![j] = [f \in Files |-> "none"]]
  /\ draft' = [draft EXCEPT ![j] = [f \in Files |-> Blank]]

\* The function returns: a report, or an error.
Return(j, status) ==
  /\ job' = [job EXCEPT ![j] = [@ EXCEPT
                   !.pc = IF status = "ERROR" THEN "failed" ELSE "done",
                   !.status = status]]
  /\ ForgetWork(j)

Running(j) == job[j].pc \notin {"idle", "done", "failed"}

StartCreate(j, policy) ==
  /\ j \in Builders
  /\ job[j].pc = "idle"
  /\ job' = [job EXCEPT ![j] = [pc |-> "discover", policy |-> policy,
                                heal |-> FALSE, status |-> "none"]]
  /\ calm' = calm \cup {j}
  /\ UNCHANGED <<lakeVars, catalog, temp, workVars, reader, faults>>

StartDoctor(j, heal) ==
  /\ j \in Doctors
  /\ job[j].pc = "idle"
  /\ job' = [job EXCEPT ![j] = [pc |-> "load", policy |-> "metadata",
                                heal |-> heal, status |-> "none"]]
  /\ calm' = calm \cup {j}
  /\ UNCHANGED <<lakeVars, catalog, temp, workVars, reader, faults>>

\* The caller has the result and may call again.
Collect(j) ==
  /\ job[j].pc \in {"done", "failed"}
  /\ job' = [job EXCEPT ![j] = Idle]
  /\ calm' = calm \ {j}
  /\ UNCHANGED <<lakeVars, catalog, temp, workVars, reader, faults>>

\* The process dies: its memory is gone, its temporary file stays.
Crash(j) ==
  /\ faults < MaxFaults
  /\ Running(j)
  /\ faults' = faults + 1
  /\ job' = [job EXCEPT ![j] = Idle]
  /\ ForgetWork(j)
  /\ calm' = calm \ {j}
  /\ UNCHANGED <<lakeVars, catalog, temp, reader>>

\* Any I/O error is returned with ?; save_lake_map_ipc removes its temporary.
IoError(j) ==
  /\ faults < MaxFaults
  /\ Running(j)
  /\ faults' = faults + 1
  /\ Return(j, "ERROR")
  /\ temp' = [temp EXCEPT ![j] = Absent]
  /\ UNCHANGED <<lakeVars, catalog, reader, calm>>

Refuse(j) ==
  /\ Return(j, "ERROR")
  /\ UNCHANGED <<lakeVars, catalog, temp, reader, calm, faults>>
-----------------------------------------------------------------------------
(* Lake Doctor: load the map, stat every file, compare. *)

LoadMap(j) ==
  /\ job[j].pc = "load"
  /\ \/ catalog.state = "torn" /\ Refuse(j)
     \/ /\ catalog.state # "torn"
        /\ base' = [base EXCEPT ![j] = catalog]
        /\ job' = [job EXCEPT ![j] = [@ EXCEPT !.pc = "discover",
                                              !.policy = catalog.policy]]
        /\ UNCHANGED <<lakeVars, catalog, temp, stage, draft, reader, calm, faults>>

Discover(j) ==
  /\ job[j].pc = "discover"
  /\ Goto(j, IF j \in Doctors THEN "diagnose" ELSE "inspect")
  /\ stage' = [stage EXCEPT ![j] =
        [f \in Files |-> IF ~disk[f].present THEN "none"
                         ELSE IF j \in Doctors THEN "found" ELSE "todo"]]
  /\ UNCHANGED <<lakeVars, catalog, temp, base, draft, reader, calm, faults>>

SetStage(j, f, s) == stage' = [stage EXCEPT ![j][f] = s]
SetDraft(j, f, e) == draft' = [draft EXCEPT ![j][f] = e]

\* A file that cannot be stat'ed any more is left out of disk_map.
StatFile(j, f) ==
  /\ job[j].pc = "diagnose"
  /\ IsFirst(f, AtStage(j, "found"))
  /\ IF disk[f].present
       THEN /\ SetStage(j, f, "stated")
            /\ SetDraft(j, f, [Blank EXCEPT !.size = Stamp(f).size,
                                            !.mtime = Stamp(f).mtime])
       ELSE SetStage(j, f, "none") /\ UNCHANGED draft
  /\ UNCHANGED <<lakeVars, catalog, temp, job, base, reader, calm, faults>>

StampMatches(j, f) ==
  /\ f \in base[j].files
  /\ SameStamp(draft[j][f], base[j].entries[f])

MustHash(j, f) ==
  /\ StampMatches(j, f)
  /\ job[j].policy = "blake3"
  /\ base[j].entries[f].hash # NoContent

EntryHealthy(j, f) ==
  /\ StampMatches(j, f)
  /\ job[j].policy = "blake3" => base[j].entries[f].hash = disk[f].content

\* One turn of the classification loop: retained, or to be inspected again.
Classify(j, f) ==
  /\ job[j].pc = "diagnose"
  /\ AtStage(j, "found") = {}
  /\ IsFirst(f, AtStage(j, "stated"))
  /\ \/ MustHash(j, f) /\ ~disk[f].present /\ Refuse(j)
     \/ /\ ~MustHash(j, f) \/ disk[f].present
        /\ IF EntryHealthy(j, f)
             THEN SetStage(j, f, "done") /\ SetDraft(j, f, base[j].entries[f])
             ELSE SetStage(j, f, "todo") /\ UNCHANGED draft
        /\ UNCHANGED <<lakeVars, catalog, temp, job, base, reader, calm, faults>>

MissingFiles(j) == base[j].files \cap AtStage(j, "none")

\* Mutated: files that disappeared are not drift.
DriftedButMissing(j) == AtStage(j, "todo") # {} \/ catalog.state = "absent"

Drifted(j) ==
  \/ AtStage(j, "todo") # {}        \* modified or unindexed
  \/ MissingFiles(j) # {}
  \/ catalog.state = "absent"       \* !map_file.is_file(), asked again here

Verdict(j) ==
  /\ job[j].pc = "diagnose"
  /\ AtStage(j, "found") \cup AtStage(j, "stated") = {}
  /\ IF Drifted(j) /\ job[j].heal
       THEN Goto(j, "inspect") /\ UNCHANGED workVars
       ELSE Return(j, IF Drifted(j) THEN "DRIFT_DETECTED" ELSE "HEALTHY")
  /\ UNCHANGED <<lakeVars, catalog, temp, reader, calm, faults>>
-----------------------------------------------------------------------------
(* inspect_file_entry, run for all files in parallel on the Rayon pool.    *)
(* An error of one file is the error of the whole job.                     *)

Step(j, f, s, e) ==
  /\ SetStage(j, f, s)
  /\ SetDraft(j, f, e)
  /\ UNCHANGED <<lakeVars, catalog, temp, job, base, reader, calm, faults>>

At(j, f, s) == job[j].pc = "inspect" /\ stage[j][f] = s

\* Every step opens or stats the file by its path: it may be gone.
FileGone(j, f) ==
  /\ job[j].pc = "inspect"
  /\ stage[j][f] \notin {"none", "done"}
  /\ ~disk[f].present
  /\ Refuse(j)

MeterFile(j, f) ==
  /\ At(j, f, "todo")
  /\ disk[f].present
  /\ Step(j, f, "metered", [Blank EXCEPT !.size = Stamp(f).size,
                                         !.mtime = Stamp(f).mtime])

HashFile(j, f) ==
  /\ At(j, f, "metered")
  /\ job[j].policy = "blake3"
  /\ disk[f].present
  /\ Step(j, f, "hashed", [draft[j][f] EXCEPT !.hash = disk[f].content])

\* Mutated: a file that cannot be decoded is skipped, the job goes on.
ScanFileSkipping(j, f) ==
  /\ At(j, f, IF job[j].policy = "blake3" THEN "hashed" ELSE "metered")
  /\ disk[f].present
  /\ IF disk[f].content \in Readable
       THEN Step(j, f, "located", [draft[j][f] EXCEPT
                                     !.scanned = disk[f].content,
                                     !.located = disk[f].content])
       ELSE Step(j, f, "none", Blank)

\* The scan that counts rows and collects statistics; for Arrow IPC and XLSX
\* the locators come out of it as well.
ScanFile(j, f) ==
  /\ At(j, f, IF job[j].policy = "blake3" THEN "hashed" ELSE "metered")
  /\ disk[f].present
  /\ \/ disk[f].content \notin Readable /\ Refuse(j)
     \/ /\ disk[f].content \in Readable
        /\ IF f \in OnePass
             THEN Step(j, f, "located", [draft[j][f] EXCEPT
                                           !.scanned = disk[f].content,
                                           !.located = disk[f].content])
             ELSE Step(j, f, "scanned", [draft[j][f] EXCEPT
                                           !.scanned = disk[f].content])

\* The second open: inspect_<format>_row_groups.
LocateFile(j, f) ==
  /\ At(j, f, "scanned")
  /\ disk[f].present
  /\ \/ disk[f].content \notin Readable /\ Refuse(j)
     \/ /\ disk[f].content \in Readable
        /\ Step(j, f, "located", [draft[j][f] EXCEPT !.located = disk[f].content])

\* Mutated: the second fs::metadata replaces the first instead of being compared.
RecheckFileAdopting(j, f) ==
  /\ At(j, f, "located")
  /\ disk[f].present
  /\ Step(j, f, IF job[j].policy = "blake3" THEN "rechecked" ELSE "done",
          [draft[j][f] EXCEPT !.size = Stamp(f).size, !.mtime = Stamp(f).mtime])

RecheckFile(j, f) ==
  /\ At(j, f, "located")
  /\ disk[f].present
  /\ \/ ~SameStamp(Stamp(f), draft[j][f]) /\ Refuse(j)
     \/ /\ SameStamp(Stamp(f), draft[j][f])
        /\ Step(j, f, IF job[j].policy = "blake3" THEN "rechecked" ELSE "done",
                draft[j][f])

\* Mutated: the second digest is not compared with the first.
RehashFileBlindly(j, f) ==
  /\ At(j, f, "rechecked")
  /\ disk[f].present
  /\ Step(j, f, "done", draft[j][f])

RehashFile(j, f) ==
  /\ At(j, f, "rechecked")
  /\ disk[f].present
  /\ \/ disk[f].content # draft[j][f].hash /\ Refuse(j)
     \/ disk[f].content = draft[j][f].hash /\ Step(j, f, "done", draft[j][f])
-----------------------------------------------------------------------------
(* save_lake_map_ipc: a temporary sibling, then one rename. *)

NewMap(j) ==
  [state   |-> "whole",
   policy  |-> job[j].policy,
   files   |-> AtStage(j, "done"),
   entries |-> [f \in Files |-> IF stage[j][f] = "done" THEN draft[j][f]
                                                        ELSE Blank]]

BeginSave(j) ==
  /\ job[j].pc = "inspect"
  /\ \A f \in Files : stage[j][f] \in {"none", "done"}
  /\ Goto(j, "write")
  /\ temp' = [temp EXCEPT ![j] = Torn]
  /\ UNCHANGED <<lakeVars, catalog, workVars, reader, calm, faults>>

FinishSave(j) ==
  /\ job[j].pc = "write"
  /\ Goto(j, "rename")
  /\ temp' = [temp EXCEPT ![j] = NewMap(j)]
  /\ UNCHANGED <<lakeVars, catalog, workVars, reader, calm, faults>>

\* Mutated: the catalog is replaced before the new one is completely written.
PublishEarly(j) ==
  /\ job[j].pc \in {"write", "rename"}
  /\ catalog' = temp[j]
  /\ temp' = [temp EXCEPT ![j] = Absent]
  /\ Return(j, IF j \in Doctors THEN "HEALED" ELSE "CREATED")
  /\ calm' = calm \ (Jobs \ {j})
  /\ UNCHANGED <<lakeVars, reader, faults>>

Publish(j) ==
  /\ job[j].pc = "rename"
  /\ catalog' = temp[j]
  /\ temp' = [temp EXCEPT ![j] = Absent]
  /\ Return(j, IF j \in Doctors THEN "HEALED" ELSE "CREATED")
  /\ calm' = calm \ (Jobs \ {j})
  /\ UNCHANGED <<lakeVars, reader, faults>>
-----------------------------------------------------------------------------
(* A slice: resolve_healthy_map_entry, then a separate open of the file. *)

\* Load the map and look the file up; no map or no entry: the normal reader.
SliceLookup(r, f) ==
  /\ reader[r].pc = "idle"
  /\ reader' = [reader EXCEPT ![r] =
       IF catalog.state = "torn"
         THEN [Resting EXCEPT !.pc = "failed", !.file = f]
       ELSE IF catalog.state = "whole" /\ f \in catalog.files
         THEN [Resting EXCEPT !.pc = "stat", !.file = f, !.entry = catalog.entries[f]]
         ELSE [Resting EXCEPT !.pc = "read", !.file = f]]
  /\ calm' = calm \cup {r}
  /\ UNCHANGED <<lakeVars, catalog, temp, job, workVars, faults>>

\* Mutated: only the size is compared.
SliceStatBySize(r) ==
  LET f == reader[r].file
      e == reader[r].entry
  IN
  /\ reader[r].pc = "stat"
  /\ reader' = [reader EXCEPT ![r] =
       IF disk[f].present /\ Stamp(f).size = e.size
         THEN [@ EXCEPT !.pc = "read", !.mapped = TRUE]
         ELSE [@ EXCEPT !.pc = "failed"]]
  /\ UNCHANGED <<lakeVars, catalog, temp, job, workVars, calm, faults>>

\* The metadata check: an entry that does not match is not used.
SliceStat(r) ==
  LET f == reader[r].file
      e == reader[r].entry
  IN
  /\ reader[r].pc = "stat"
  /\ reader' = [reader EXCEPT ![r] =
       IF ~disk[f].present
         THEN [@ EXCEPT !.pc = "failed"]
       ELSE IF SameStamp(Stamp(f), e)
         THEN [@ EXCEPT !.pc = "read", !.mapped = TRUE]
         ELSE [@ EXCEPT !.pc = "read", !.entry = Blank]]
  /\ UNCHANGED <<lakeVars, catalog, temp, job, workVars, calm, faults>>

\* The reader opens the file again and reads the rows.
SliceRead(r) ==
  LET f == reader[r].file IN
  /\ reader[r].pc = "read"
  /\ reader' = [reader EXCEPT ![r] =
       IF disk[f].present /\ disk[f].content \in Readable
         THEN [@ EXCEPT !.pc = "done", !.got = disk[f].content]
         ELSE [@ EXCEPT !.pc = "failed"]]
  /\ UNCHANGED <<lakeVars, catalog, temp, job, workVars, calm, faults>>

SliceReturn(r) ==
  /\ reader[r].pc \in {"done", "failed"}
  /\ reader' = [reader EXCEPT ![r] = Resting]
  /\ calm' = calm \ {r}
  /\ UNCHANGED <<lakeVars, catalog, temp, job, workVars, faults>>
-----------------------------------------------------------------------------
Init ==
  /\ \E content \in [Files -> Contents], here \in [Files -> BOOLEAN] :
       /\ disk = [f \in Files |-> [present |-> here[f],
                                   content |-> content[f], mtime |-> 0]]
       /\ used = [f \in Files |-> {content[f]}]
  /\ clock = 0
  /\ catalog = Absent
  /\ temp  = [j \in Jobs |-> Absent]
  /\ job   = [j \in Jobs |-> Idle]
  /\ base  = [j \in Jobs |-> Absent]
  /\ stage = [j \in Jobs |-> [f \in Files |-> "none"]]
  /\ draft = [j \in Jobs |-> [f \in Files |-> Blank]]
  /\ reader = [r \in Readers |-> Resting]
  /\ calm = {}
  /\ faults = 0

Environment ==
  \E f \in Files :
    \/ \E c \in Contents, fresh \in BOOLEAN : WriteFile(f, c, fresh)
    \/ RemoveFile(f)

InspectStep(j) ==
  \E f \in Files :
    \/ FileGone(j, f)
    \/ MeterFile(j, f)
    \/ HashFile(j, f)
    \/ ScanFile(j, f)
    \/ LocateFile(j, f)
    \/ RecheckFile(j, f)
    \/ RehashFile(j, f)

DoctorStep(j) ==
  \/ LoadMap(j)
  \/ \E f \in Files : StatFile(j, f) \/ Classify(j, f)
  \/ Verdict(j)

\* The steps a job takes by itself once it is called.
JobStep(j) ==
  \/ Discover(j)
  \/ DoctorStep(j)
  \/ InspectStep(j)
  \/ BeginSave(j)
  \/ FinishSave(j)
  \/ Publish(j)

JobCall(j) ==
  \/ \E p \in Asked : StartCreate(j, p)
  \/ \E h \in BOOLEAN : StartDoctor(j, h)
  \/ Collect(j)

SliceStep(r) ==
  \/ \E f \in Files : SliceLookup(r, f)
  \/ SliceStat(r)
  \/ SliceRead(r)
  \/ SliceReturn(r)

Next ==
  \/ Environment
  \/ \E j \in Jobs : JobStep(j) \/ JobCall(j) \/ Crash(j) \/ IoError(j)
  \/ \E r \in Readers : SliceStep(r)

Spec == Init /\ [][Next]_vars

\* The threads of a called job keep running, its caller takes the result, and
\* somebody keeps running Doctor with auto_heal (a scheduled job).
Fairness ==
  /\ \A j \in Jobs : WF_vars(JobStep(j)) /\ WF_vars(Collect(j))
  /\ \A j \in Doctors : SF_vars(StartDoctor(j, TRUE))

FairSpec == Spec /\ Fairness
-----------------------------------------------------------------------------
(* Properties. *)

Current(e, f) == e.scanned = disk[f].content /\ e.located = disk[f].content

\* The catalog lists exactly the files that are there, and describes their bytes.
InSync ==
  /\ catalog.state = "whole"
  /\ \A f \in Files : disk[f].present <=> f \in catalog.files
  /\ \A f \in catalog.files : Current(catalog.entries[f], f)

StampsMatch ==
  \A f \in catalog.files : SameStamp(Stamp(f), catalog.entries[f])

\* A whole entry that passes the size/mtime check of resolve_healthy_map_entry
\* (storage.rs:184-193) describes the bytes the file holds now, whatever
\* writers, builders, Doctors and crashes did while it was being built -- as
\* long as every change of a file moves its mtime.
MetadataSound ==
  FreshStamps =>
    \A f \in catalog.files :
      disk[f].present /\ SameStamp(Stamp(f), catalog.entries[f])
        => Current(catalog.entries[f], f)

\* With BLAKE3 the statistics and the locators of an entry come from exactly
\* the bytes the stored digest was taken of (inspect.rs:550-555, 729-741), even
\* when mtimes are preserved -- as long as bytes that were replaced do not
\* come back.
DigestSound ==
  ~Recurring =>
    \A f \in catalog.files :
      LET e == catalog.entries[f] IN
      e.hash # NoContent => e.scanned = e.hash /\ e.located = e.hash

\* The assumption under which the configured checks see every change.
Trusted(policy) ==
  FreshStamps \/ (policy = "blake3" /\ ~Recurring)

\* What create_map and Doctor report is true when nothing else changed the lake
\* or the catalog during the call: HEALTHY, HEALED and a created map mean that
\* the catalog lists every file and describes its bytes (no partial catalog:
\* docs/en/architecture/lake-map.md:88), DRIFT_DETECTED that it does not.
ReportTrue ==
  \A j \in calm \cap Jobs :
    Trusted(job[j].policy) =>
      /\ job[j].status \in {"HEALTHY", "HEALED", "CREATED"} => InSync
      /\ job[j].status = "DRIFT_DETECTED" => ~(InSync /\ StampsMatch)

\* No process ever finds a partly written .br_map.bazan, also after a crash in
\* the middle of a save: temporary file and rename (storage.rs:80-128).
NeverTorn == catalog.state # "torn"

\* A slice that used a catalog entry read exactly the bytes the entry describes,
\* if the file did not change during the call.
QuietSliceRight ==
  \A r \in calm \cap Readers :
    FreshStamps /\ reader[r].pc = "done" /\ reader[r].mapped =>
      /\ reader[r].entry.located = reader[r].got
      /\ reader[r].entry.scanned = reader[r].got

\* Doctor runs that keep coming repair the catalog for good once the files stop
\* changing, whatever else was published meanwhile, unless a file cannot be read.
Converges ==
  <>[](InSync \/ \E f \in Files : disk[f].present /\ disk[f].content \notin Readable)
-----------------------------------------------------------------------------
(* The inductive invariant behind MetadataSound and QuietSliceRight: a stamp  *)
(* that was taken before the bytes were read identifies the bytes, because    *)
(* whoever changes them later leaves a stamp nobody has seen.                 *)

TrueOf(e, now, file) ==
  /\ e.mtime <= now
  /\ e.mtime = file.mtime => e.scanned = file.content /\ e.located = file.content

EntryTrue(e, f) == TrueOf(e, clock, disk[f])

\* What is known of an entry under construction at each stage.
DraftTrue(s, e, now, file) ==
  /\ s \in {"metered", "hashed", "scanned"} => e.mtime <= now
  /\ s = "scanned" /\ e.mtime = file.mtime => e.scanned = file.content
  /\ s \in {"located", "rechecked", "done"} => TrueOf(e, now, file)

DraftsTrue ==
  \A j \in Jobs, f \in Files : DraftTrue(stage[j][f], draft[j][f], clock, disk[f])

MapTrue(m) == \A f \in m.files : EntryTrue(m.entries[f], f)

MapsTrue ==
  /\ MapTrue(catalog)
  /\ \A j \in Jobs : MapTrue(base[j]) /\ MapTrue(temp[j])

SliceTrue(s, quiet) ==
  /\ s.pc = "stat" => EntryTrue(s.entry, s.file)
  /\ s.mapped => s.pc \in {"read", "done", "failed"}
  /\ s.mapped /\ quiet /\ s.pc = "read" => Current(s.entry, s.file)
  /\ s.mapped /\ quiet /\ s.pc = "done"
       => s.entry.scanned = s.got /\ s.entry.located = s.got

SlicesTrue == \A r \in Readers : SliceTrue(reader[r], r \in calm)

StampInv ==
  FreshStamps =>
    /\ \A f \in Files : disk[f].mtime <= clock
    /\ DraftsTrue
    /\ MapsTrue
    /\ SlicesTrue
-----------------------------------------------------------------------------
(* The inductive invariant behind DigestSound: a digest is that of bytes the  *)
(* file held, so if it is the digest of what the file holds now, the file     *)
(* held it all along, and what was read in between are those bytes.           *)

Digested(e) == e.hash # NoContent => e.scanned = e.hash /\ e.located = e.hash

\* With fresh mtimes the digest is that of the bytes the stamp stands for.
HashTrue(e, file) ==
  FreshStamps /\ e.hash # NoContent /\ e.mtime = file.mtime => e.hash = file.content

\* What is known of the digest of an entry under construction at each stage.
DraftDigested(s, e, policy, past, file) ==
  /\ \/ s = "metered"
     \/ s \in {"scanned", "located"} /\ policy # "blake3"
     => e.hash = NoContent
  /\ s \in {"hashed", "scanned", "located", "rechecked", "done"}
     => /\ policy = "blake3" => e.hash # NoContent
        /\ HashTrue(e, file)
  /\ ~Recurring =>
       /\ s \in {"hashed", "scanned", "located", "rechecked"}
            => e.hash \in past \cup {NoContent}
       /\ s \in {"scanned", "located", "rechecked"} /\ e.hash = file.content
            => e.scanned = file.content
       /\ s \in {"located", "rechecked"} /\ e.hash = file.content
            => e.located = file.content
       /\ s = "done" => Digested(e)

MapDigested(m, lake) ==
  \A f \in m.files :
    /\ m.policy = "blake3" => m.entries[f].hash # NoContent
    /\ HashTrue(m.entries[f], lake[f])
    /\ ~Recurring => Digested(m.entries[f])

\* A job between two calls, or one that has not listed the files, has none.
WorkDigested(j) ==
  /\ job[j].pc \in {"idle", "load", "done", "failed"} => \A f \in Files : stage[j][f] = "none"
  /\ \A f \in Files : DraftDigested(stage[j][f], draft[j][f], job[j].policy, used[f], disk[f])
  /\ MapDigested(base[j], disk)
  /\ MapDigested(temp[j], disk)

DigestInv ==
  /\ \A f \in Files : disk[f].content \in used[f]
  /\ MapDigested(catalog, disk)
  /\ \A j \in Jobs : WorkDigested(j)
-----------------------------------------------------------------------------
(* The inductive invariant behind ReportTrue: what a job nobody disturbed     *)
(* knows is true of the files and the catalog as they are.                    *)

\* An entry the configured checks see something wrong with.
Stale(policy, f) ==
  \/ f \notin catalog.files
  \/ ~SameStamp(Stamp(f), catalog.entries[f])
  \/ policy = "blake3" /\ catalog.entries[f].hash # disk[f].content

\* What an undisturbed job knows of a file it is at work on.
FileKnown(j, f) ==
  LET s == stage[j][f] IN
  /\ job[j].pc \in {"diagnose", "inspect", "write", "rename"} => (disk[f].present <=> s # "none")
  /\ job[j].pc \in {"write", "rename"} => s \in {"none", "done"}
  /\ s = "scanned" => draft[j][f].scanned = disk[f].content
  /\ s \in {"located", "rechecked", "done"} => Current(draft[j][f], f)
  /\ job[j].pc = "diagnose" =>
       /\ s \in {"none", "found", "stated", "todo", "done"}
       /\ s = "stated" => SameStamp(draft[j][f], Stamp(f))
       /\ s = "todo" => Stale(job[j].policy, f)
       /\ s = "done" => f \in catalog.files /\ draft[j][f] = catalog.entries[f]

\* What it knows of the maps, and what it reports.
JobKnown(j) ==
  /\ \A f \in Files : FileKnown(j, f)
  /\ j \in Doctors /\ job[j].pc \in {"discover", "diagnose"}
       => base[j] = catalog /\ job[j].policy = catalog.policy
  /\ job[j].pc = "rename" =>
       /\ temp[j].files = {f \in Files : disk[f].present}
       /\ \A f \in temp[j].files : Current(temp[j].entries[f], f)
  /\ job[j].status \in {"HEALTHY", "HEALED", "CREATED"} => InSync
  /\ job[j].status = "DRIFT_DETECTED" => ~(InSync /\ StampsMatch)

ReportInv ==
  /\ \A j \in Jobs : job[j].pc \notin {"done", "failed"} => job[j].status = "none"
  /\ \A j \in Jobs : job[j].pc \in {"load", "diagnose"} => j \in Doctors
  /\ \A j \in calm \cap Jobs : Trusted(job[j].policy) => JobKnown(j)
=============================================================================
