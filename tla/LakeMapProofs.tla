-------------------------- MODULE LakeMapProofs --------------------------
(***************************************************************************)
(* The catalog is typed and never torn, its entries are true, and so are   *)
(* the slices that use them: for every number of files, jobs and slices,   *)
(* every content and every fingerprint policy.  StampInv is inductive with *)
(* TypeOK: when every change of a file leaves a new mtime, a stamp that    *)
(* was taken before the bytes were read identifies the bytes.  DigestInv   *)
(* adds the digests, which bracket the scan whatever the mtimes do, and    *)
(* ReportInv what a job that nobody disturbs knows of the lake.            *)
(***************************************************************************)
EXTENDS LakeMap, TLAPS

\* The empty values have their types.
LEMMA BlankTypes ==
  /\ Blank \in Entry
  /\ Torn \in Map
  /\ Absent \in Map
  /\ Idle \in JobState
  /\ Resting \in SliceState
BY ContentsAssumption
   DEF Blank, Entry, Torn, Absent, Map, Idle, JobState, Resting, SliceState,
       MaybeContent, Policies

\* The initial states are type-correct.
LEMMA InitTypeOK == Init => TypeOK
<1> SUFFICES ASSUME Init PROVE TypeOK
  OBVIOUS
<1>1. PICK content \in [Files -> Contents], here \in [Files -> BOOLEAN] :
        /\ disk = [f \in Files |-> [present |-> here[f],
                                    content |-> content[f], mtime |-> 0]]
        /\ used = [f \in Files |-> {content[f]}]
  BY DEF Init
<1>2. disk \in [Files -> FileState] /\ used \in [Files -> SUBSET Contents]
  BY <1>1 DEF FileState
<1>3. /\ stage \in [Jobs -> [Files -> Stages]]
      /\ draft \in [Jobs -> [Files -> Entry]]
  BY BlankTypes DEF Init, Stages
<1>4. \A r \in Readers : reader[r].pc = "idle"
  BY DEF Init, Resting
<1>5. QED
  BY <1>2, <1>3, <1>4, BlankTypes DEF Init, TypeOK

\* A job that ends leaves typed work variables.
LEMMA ForgetTypes ==
  ASSUME TypeOK, NEW j \in Jobs, ForgetWork(j)
  PROVE  /\ base' \in [Jobs -> Map]
         /\ stage' \in [Jobs -> [Files -> Stages]]
         /\ draft' \in [Jobs -> [Files -> Entry]]
<1>1. [f \in Files |-> "none"] \in [Files -> Stages]
  BY DEF Stages
<1>2. [f \in Files |-> Blank] \in [Files -> Entry]
  BY BlankTypes
<1>3. QED
  BY <1>1, <1>2, BlankTypes DEF ForgetWork, TypeOK

\* So does a job that returns a report or an error.
LEMMA ReturnTypes ==
  ASSUME TypeOK, NEW j \in Jobs,
         NEW s \in {"HEALTHY", "DRIFT_DETECTED", "HEALED", "CREATED", "ERROR"},
         Return(j, s)
  PROVE  /\ job' \in [Jobs -> JobState]
         /\ base' \in [Jobs -> Map]
         /\ stage' \in [Jobs -> [Files -> Stages]]
         /\ draft' \in [Jobs -> [Files -> Entry]]
<1>1. job[j] \in JobState
  BY DEF TypeOK
<1>2. [job[j] EXCEPT !.pc = IF s = "ERROR" THEN "failed" ELSE "done",
                     !.status = s] \in JobState
  BY <1>1 DEF JobState
<1>3. job' \in [Jobs -> JobState]
  BY <1>2 DEF Return, TypeOK
<1>4. QED
  BY <1>3, ForgetTypes DEF Return

\* An error return keeps the types.
LEMMA RefuseTypes ==
  ASSUME TypeOK, NEW j \in Jobs, Refuse(j)
  PROVE  TypeOK'
<1>1. Return(j, "ERROR")
  BY DEF Refuse
<1>2. QED
  BY <1>1, ReturnTypes DEF Refuse, lakeVars, TypeOK

\* One file of one job moves to another stage.
LEMMA SetStageTypes ==
  ASSUME TypeOK, NEW j \in Jobs, NEW f \in Files, NEW s \in Stages,
         SetStage(j, f, s)
  PROVE  stage' \in [Jobs -> [Files -> Stages]]
BY DEF SetStage, TypeOK

\* One draft entry is replaced.
LEMMA SetDraftTypes ==
  ASSUME TypeOK, NEW j \in Jobs, NEW f \in Files, NEW e \in Entry,
         SetDraft(j, f, e)
  PROVE  draft' \in [Jobs -> [Files -> Entry]]
BY DEF SetDraft, TypeOK

\* One inspection step of one file keeps the types.
LEMMA StepTypes ==
  ASSUME TypeOK, NEW j \in Jobs, NEW f \in Files, NEW s \in Stages,
         NEW e \in Entry, Step(j, f, s, e)
  PROVE  TypeOK'
BY DEF Step, SetStage, SetDraft, lakeVars, TypeOK

\* A job moves to another control point.
LEMMA GotoTypes ==
  ASSUME TypeOK, NEW j \in Jobs,
         NEW p \in {"diagnose", "inspect", "write", "rename"}, Goto(j, p)
  PROVE  job' \in [Jobs -> JobState]
<1>1. job[j] \in JobState
  BY DEF TypeOK
<1>2. [job[j] EXCEPT !.pc = p] \in JobState
  BY <1>1 DEF JobState
<1>3. QED
  BY <1>2 DEF Goto, TypeOK

\* The size and mtime a stat returns are an entry's size and mtime.
LEMMA StampTypes ==
  ASSUME TypeOK, NEW f \in Files
  PROVE  /\ Stamp(f) \in [size: Nat, mtime: Nat]
         /\ [Blank EXCEPT !.size = Stamp(f).size, !.mtime = Stamp(f).mtime] \in Entry
<1>1. disk[f] \in FileState
  BY DEF TypeOK
<1>2. Stamp(f) \in [size: Nat, mtime: Nat]
  BY <1>1, ContentsAssumption DEF FileState, Stamp
<1>3. QED
  BY <1>2, BlankTypes DEF Entry

\* Writers of the data files keep the types.
LEMMA EnvironmentTypes == TypeOK /\ Environment => TypeOK'
<1> SUFFICES ASSUME TypeOK, Environment PROVE TypeOK'
  OBVIOUS
<1>1. ASSUME NEW f \in Files, NEW c \in Contents, NEW fresh \in BOOLEAN,
             WriteFile(f, c, fresh)
      PROVE  TypeOK'
  <2>1. disk[f] \in FileState
    BY DEF TypeOK
  <2>2. [present |-> TRUE, content |-> c,
         mtime |-> IF fresh THEN clock + 1 ELSE disk[f].mtime] \in FileState
    BY <2>1 DEF FileState, TypeOK
  <2>3. QED
    BY <1>1, <2>2 DEF WriteFile, workVars, TypeOK
<1>2. ASSUME NEW f \in Files, RemoveFile(f)
      PROVE  TypeOK'
  <2>1. disk[f] \in FileState
    BY DEF TypeOK
  <2>2. [disk[f] EXCEPT !.present = FALSE] \in FileState
    BY <2>1 DEF FileState
  <2>3. QED
    BY <1>2, <2>2 DEF RemoveFile, workVars, TypeOK
<1>3. QED
  BY <1>1, <1>2 DEF Environment

\* Calls, returns, crashes and errors of jobs keep the types.
LEMMA JobCallTypes ==
  ASSUME TypeOK, NEW j \in Jobs, JobCall(j) \/ Crash(j) \/ IoError(j)
  PROVE  TypeOK'
<1>1. ASSUME NEW p \in Asked, StartCreate(j, p) PROVE TypeOK'
  <2>1. [pc |-> "discover", policy |-> p, heal |-> FALSE, status |-> "none"] \in JobState
    BY AskedAssumption DEF JobState
  <2>2. job' \in [Jobs -> JobState] /\ calm' \subseteq Jobs \cup Readers
    BY <1>1, <2>1 DEF StartCreate, TypeOK
  <2>3. QED
    BY <1>1, <2>2 DEF StartCreate, lakeVars, workVars, TypeOK
<1>2. ASSUME NEW h \in BOOLEAN, StartDoctor(j, h) PROVE TypeOK'
  <2>1. [pc |-> "load", policy |-> "metadata", heal |-> h, status |-> "none"] \in JobState
    BY DEF JobState, Policies
  <2>2. job' \in [Jobs -> JobState] /\ calm' \subseteq Jobs \cup Readers
    BY <1>2, <2>1 DEF StartDoctor, TypeOK
  <2>3. QED
    BY <1>2, <2>2 DEF StartDoctor, lakeVars, workVars, TypeOK
<1>3. CASE Collect(j)
  <2>1. job' \in [Jobs -> JobState] /\ calm' \subseteq Jobs \cup Readers
    BY <1>3, BlankTypes DEF Collect, TypeOK
  <2>2. QED
    BY <1>3, <2>1 DEF Collect, lakeVars, workVars, TypeOK
<1>4. CASE Crash(j)
  <2>1. ForgetWork(j)
    BY <1>4 DEF Crash
  <2>2. job' \in [Jobs -> JobState] /\ calm' \subseteq Jobs \cup Readers
    BY <1>4, BlankTypes DEF Crash, TypeOK
  <2>3. faults' \in Nat
    BY <1>4 DEF Crash, TypeOK
  <2>4. QED
    BY <1>4, <2>1, <2>2, <2>3, ForgetTypes DEF Crash, lakeVars, TypeOK
<1>5. CASE IoError(j)
  <2>1. Return(j, "ERROR")
    BY <1>5 DEF IoError
  <2>2. temp' \in [Jobs -> Map]
    BY <1>5, BlankTypes DEF IoError, TypeOK
  <2>3. faults' \in Nat
    BY <1>5 DEF IoError, TypeOK
  <2>4. QED
    BY <1>5, <2>1, <2>2, <2>3, ReturnTypes DEF IoError, lakeVars, TypeOK
<1>6. QED
  BY <1>1, <1>2, <1>3, <1>4, <1>5 DEF JobCall

\* Loading, discovering and diagnosing keep the types.
LEMMA DoctorStepTypes ==
  ASSUME TypeOK, NEW j \in Jobs, Discover(j) \/ DoctorStep(j)
  PROVE  TypeOK'
<1>1. CASE LoadMap(j)
  <2>1. CASE Refuse(j)
    BY <2>1, RefuseTypes
  <2>2. CASE ~Refuse(j)
    <3>1. job[j] \in JobState /\ catalog.policy \in Policies
      BY DEF TypeOK, Map
    <3>2. [job[j] EXCEPT !.pc = "discover", !.policy = catalog.policy] \in JobState
      BY <3>1 DEF JobState
    <3>3. QED
      BY <1>1, <2>2, <3>2 DEF LoadMap, lakeVars, TypeOK
  <2>3. QED
    BY <2>1, <2>2
<1>2. CASE Discover(j)
  <2>1. job' \in [Jobs -> JobState]
    <3>1. CASE j \in Doctors
      BY <1>2, <3>1, GotoTypes DEF Discover
    <3>2. CASE j \notin Doctors
      BY <1>2, <3>2, GotoTypes DEF Discover
    <3>3. QED
      BY <3>1, <3>2
  <2>2. [f \in Files |-> IF ~disk[f].present THEN "none"
                         ELSE IF j \in Doctors THEN "found" ELSE "todo"]
          \in [Files -> Stages]
    BY DEF Stages
  <2>3. stage' \in [Jobs -> [Files -> Stages]]
    BY <1>2, <2>2 DEF Discover, TypeOK
  <2>4. QED
    BY <1>2, <2>1, <2>3 DEF Discover, lakeVars, TypeOK
<1>3. ASSUME NEW f \in Files, StatFile(j, f) PROVE TypeOK'
  <2>1. CASE disk[f].present
    <3>1. /\ SetStage(j, f, "stated")
          /\ SetDraft(j, f, [Blank EXCEPT !.size = Stamp(f).size,
                                          !.mtime = Stamp(f).mtime])
      BY <1>3, <2>1 DEF StatFile
    <3>2. /\ stage' \in [Jobs -> [Files -> Stages]]
          /\ draft' \in [Jobs -> [Files -> Entry]]
      BY <3>1, SetStageTypes, SetDraftTypes, StampTypes DEF Stages
    <3>3. QED
      BY <1>3, <3>2 DEF StatFile, lakeVars, TypeOK
  <2>2. CASE ~disk[f].present
    <3>1. SetStage(j, f, "none") /\ UNCHANGED draft
      BY <1>3, <2>2 DEF StatFile
    <3>2. stage' \in [Jobs -> [Files -> Stages]]
      BY <3>1, SetStageTypes DEF Stages
    <3>3. QED
      BY <1>3, <3>1, <3>2 DEF StatFile, lakeVars, TypeOK
  <2>3. QED
    BY <2>1, <2>2
<1>4. ASSUME NEW f \in Files, Classify(j, f) PROVE TypeOK'
  <2>1. CASE Refuse(j)
    BY <2>1, RefuseTypes
  <2>2. CASE ~Refuse(j)
    <3>1. base[j].entries[f] \in Entry
      BY DEF TypeOK, Map
    <3>2. CASE EntryHealthy(j, f)
      <4>1. SetStage(j, f, "done") /\ SetDraft(j, f, base[j].entries[f])
        BY <1>4, <2>2, <3>2 DEF Classify
      <4>2. /\ stage' \in [Jobs -> [Files -> Stages]]
            /\ draft' \in [Jobs -> [Files -> Entry]]
        BY <3>1, <4>1, SetStageTypes, SetDraftTypes DEF Stages
      <4>3. QED
        BY <1>4, <2>2, <4>2 DEF Classify, lakeVars, TypeOK
    <3>3. CASE ~EntryHealthy(j, f)
      <4>1. SetStage(j, f, "todo") /\ UNCHANGED draft
        BY <1>4, <2>2, <3>3 DEF Classify
      <4>2. stage' \in [Jobs -> [Files -> Stages]]
        BY <4>1, SetStageTypes DEF Stages
      <4>3. QED
        BY <1>4, <2>2, <4>1, <4>2 DEF Classify, lakeVars, TypeOK
    <3>4. QED
      BY <3>2, <3>3
  <2>3. QED
    BY <2>1, <2>2
<1>5. CASE Verdict(j)
  <2>1. CASE Drifted(j) /\ job[j].heal
    BY <1>5, <2>1, GotoTypes DEF Verdict, lakeVars, workVars, TypeOK
  <2>2. CASE ~(Drifted(j) /\ job[j].heal)
    BY <1>5, <2>2, ReturnTypes DEF Verdict, lakeVars, TypeOK
  <2>3. QED
    BY <2>1, <2>2
<1>6. QED
  BY <1>1, <1>2, <1>3, <1>4, <1>5 DEF DoctorStep

\* Inspecting a file keeps the types.
LEMMA InspectStepTypes ==
  ASSUME TypeOK, NEW j \in Jobs, InspectStep(j)
  PROVE  TypeOK'
<1>1. PICK f \in Files :
        \/ FileGone(j, f) \/ MeterFile(j, f) \/ HashFile(j, f) \/ ScanFile(j, f)
        \/ LocateFile(j, f) \/ RecheckFile(j, f) \/ RehashFile(j, f)
  BY DEF InspectStep
<1>2. /\ disk[f].content \in MaybeContent
      /\ draft[j][f] \in Entry
  BY DEF TypeOK, FileState, MaybeContent
<1>3. CASE Refuse(j)
  BY <1>3, RefuseTypes
<1>4. CASE ~Refuse(j)
  <2>1. CASE MeterFile(j, f)
    BY <2>1, StampTypes, StepTypes DEF MeterFile, Stages
  <2>2. CASE HashFile(j, f)
    <3>1. [draft[j][f] EXCEPT !.hash = disk[f].content] \in Entry
      BY <1>2 DEF Entry
    <3>2. QED
      BY <2>2, <3>1, StepTypes DEF HashFile, Stages
  <2>3. CASE ScanFile(j, f)
    <3>1. [draft[j][f] EXCEPT !.scanned = disk[f].content,
                              !.located = disk[f].content] \in Entry
      BY <1>2 DEF Entry
    <3>2. [draft[j][f] EXCEPT !.scanned = disk[f].content] \in Entry
      BY <1>2 DEF Entry
    <3>3. QED
      BY <1>4, <2>3, <3>1, <3>2, StepTypes DEF ScanFile, Stages
  <2>4. CASE LocateFile(j, f)
    <3>1. [draft[j][f] EXCEPT !.located = disk[f].content] \in Entry
      BY <1>2 DEF Entry
    <3>2. QED
      BY <1>4, <2>4, <3>1, StepTypes DEF LocateFile, Stages
  <2>5. CASE RecheckFile(j, f)
    <3>1. Step(j, f, IF job[j].policy = "blake3" THEN "rechecked" ELSE "done",
               draft[j][f])
      BY <1>4, <2>5 DEF RecheckFile
    <3>2. QED
      BY <1>2, <3>1, StepTypes DEF Stages
  <2>6. CASE RehashFile(j, f)
    BY <1>2, <1>4, <2>6, StepTypes DEF RehashFile, Stages
  <2>7. QED
    BY <1>1, <1>4, <2>1, <2>2, <2>3, <2>4, <2>5, <2>6 DEF FileGone
<1>5. QED
  BY <1>3, <1>4

\* Saving and publishing keep the types.
LEMMA SaveTypes ==
  ASSUME TypeOK, NEW j \in Jobs, BeginSave(j) \/ FinishSave(j) \/ Publish(j)
  PROVE  TypeOK'
<1>1. CASE BeginSave(j)
  <2>1. job' \in [Jobs -> JobState]
    BY <1>1, GotoTypes DEF BeginSave
  <2>2. temp' \in [Jobs -> Map]
    BY <1>1, BlankTypes DEF BeginSave, TypeOK
  <2>3. QED
    BY <1>1, <2>1, <2>2 DEF BeginSave, lakeVars, workVars, TypeOK
<1>2. CASE FinishSave(j)
  <2>1. job' \in [Jobs -> JobState]
    BY <1>2, GotoTypes DEF FinishSave
  <2>2. [f \in Files |-> IF stage[j][f] = "done" THEN draft[j][f] ELSE Blank]
          \in [Files -> Entry]
    BY BlankTypes DEF TypeOK
  <2>3. job[j].policy \in Policies /\ AtStage(j, "done") \subseteq Files
    BY DEF TypeOK, JobState, AtStage
  <2>4. NewMap(j) \in Map
    BY <2>2, <2>3 DEF NewMap, Map
  <2>5. temp' \in [Jobs -> Map]
    BY <1>2, <2>4 DEF FinishSave, TypeOK
  <2>6. QED
    BY <1>2, <2>1, <2>5 DEF FinishSave, lakeVars, workVars, TypeOK
<1>3. CASE Publish(j)
  <2>1. Return(j, IF j \in Doctors THEN "HEALED" ELSE "CREATED")
    BY <1>3 DEF Publish
  <2>2. temp' \in [Jobs -> Map] /\ catalog' \in Map
    BY <1>3, BlankTypes DEF Publish, TypeOK
  <2>3. calm' \subseteq Jobs \cup Readers
    BY <1>3 DEF Publish, TypeOK
  <2>4. QED
    BY <1>3, <2>1, <2>2, <2>3, ReturnTypes DEF Publish, lakeVars, TypeOK
<1>4. QED
  BY <1>1, <1>2, <1>3

\* The steps of a slice keep the types.
LEMMA SliceTypes ==
  ASSUME TypeOK, NEW r \in Readers, SliceStep(r)
  PROVE  TypeOK'
<1>1. ASSUME NEW s \in SliceState, s.pc # "idle" => s.file \in Files,
             reader' = [reader EXCEPT ![r] = s],
             UNCHANGED <<lakeVars, catalog, temp, job, workVars, faults>>,
             calm' \subseteq Jobs \cup Readers
      PROVE  TypeOK'
  BY <1>1 DEF lakeVars, workVars, TypeOK
<1>2. ASSUME NEW f \in Files, SliceLookup(r, f) PROVE TypeOK'
  <2> DEFINE s == IF catalog.state = "torn"
                    THEN [Resting EXCEPT !.pc = "failed", !.file = f]
                  ELSE IF catalog.state = "whole" /\ f \in catalog.files
                    THEN [Resting EXCEPT !.pc = "stat", !.file = f,
                                         !.entry = catalog.entries[f]]
                    ELSE [Resting EXCEPT !.pc = "read", !.file = f]
  <2>1. catalog.entries[f] \in Entry /\ f \in Nat
    BY FilesAssumption DEF TypeOK, Map
  <2>2. s \in SliceState /\ s.file = f
    BY <2>1, BlankTypes DEF SliceState, Resting
  <2>3. calm' \subseteq Jobs \cup Readers
    BY <1>2 DEF SliceLookup, TypeOK
  <2>4. reader' = [reader EXCEPT ![r] = s]
    BY <1>2 DEF SliceLookup
  <2>5. QED
    BY <1>1, <1>2, <2>2, <2>3, <2>4 DEF SliceLookup
<1>3. CASE SliceStat(r)
  <2> DEFINE s == IF ~disk[reader[r].file].present
                    THEN [reader[r] EXCEPT !.pc = "failed"]
                  ELSE IF SameStamp(Stamp(reader[r].file), reader[r].entry)
                    THEN [reader[r] EXCEPT !.pc = "read", !.mapped = TRUE]
                    ELSE [reader[r] EXCEPT !.pc = "read", !.entry = Blank]
  <2>1. reader[r] \in SliceState /\ reader[r].file \in Files
    BY <1>3 DEF SliceStat, TypeOK
  <2>2. s \in SliceState /\ s.file \in Files
    BY <2>1, BlankTypes DEF SliceState
  <2>3. reader' = [reader EXCEPT ![r] = s]
    BY <1>3 DEF SliceStat
  <2>4. QED
    BY <1>1, <1>3, <2>2, <2>3 DEF SliceStat, TypeOK
<1>4. CASE SliceRead(r)
  <2> DEFINE f == reader[r].file
             s == IF disk[f].present /\ disk[f].content \in Readable
                    THEN [reader[r] EXCEPT !.pc = "done", !.got = disk[f].content]
                    ELSE [reader[r] EXCEPT !.pc = "failed"]
  <2>1. reader[r] \in SliceState /\ f \in Files
    BY <1>4 DEF SliceRead, TypeOK
  <2>2. disk[f].content \in MaybeContent
    BY <2>1 DEF TypeOK, FileState, MaybeContent
  <2>3. s \in SliceState /\ s.file \in Files
    BY <2>1, <2>2 DEF SliceState
  <2>4. reader' = [reader EXCEPT ![r] = s]
    BY <1>4 DEF SliceRead
  <2>5. QED
    BY <1>1, <1>4, <2>3, <2>4 DEF SliceRead, TypeOK
<1>5. CASE SliceReturn(r)
  <2>1. Resting \in SliceState /\ Resting.pc = "idle"
    BY BlankTypes DEF Resting
  <2>2. calm' \subseteq Jobs \cup Readers
    BY <1>5 DEF SliceReturn, TypeOK
  <2>3. QED
    BY <1>1, <1>5, <2>1, <2>2 DEF SliceReturn
<1>6. QED
  BY <1>2, <1>3, <1>4, <1>5 DEF SliceStep

\* Every step keeps the types.
LEMMA NextTypes == TypeOK /\ [Next]_vars => TypeOK'
<1> SUFFICES ASSUME TypeOK, [Next]_vars PROVE TypeOK'
  OBVIOUS
<1>1. CASE Environment
  BY <1>1, EnvironmentTypes
<1>2. ASSUME NEW j \in Jobs, JobStep(j) \/ JobCall(j) \/ Crash(j) \/ IoError(j)
      PROVE  TypeOK'
  BY <1>2, JobCallTypes, DoctorStepTypes, InspectStepTypes, SaveTypes DEF JobStep
<1>3. ASSUME NEW r \in Readers, SliceStep(r) PROVE TypeOK'
  BY <1>3, SliceTypes
<1>4. CASE UNCHANGED vars
  BY <1>4 DEF vars, TypeOK
<1>5. QED
  BY <1>1, <1>2, <1>3, <1>4 DEF Next

\* Every variable keeps its type, for every number of files, jobs and slices.
THEOREM TypeCorrect == Spec => []TypeOK
<1>1. QED
  BY InitTypeOK, NextTypes, PTL DEF Spec
-----------------------------------------------------------------------------
(* A healthy entry describes the current bytes. *)

\* The four parts of StampInv, with the assumption on mtimes discharged.
Stamped ==
  /\ \A f \in Files : disk[f].mtime <= clock
  /\ DraftsTrue
  /\ MapsTrue
  /\ SlicesTrue

\* An entry of a typed map is a typed entry.
LEMMA MapTypes ==
  ASSUME TypeOK
  PROVE  /\ \A f \in Files : catalog.entries[f] \in Entry
         /\ catalog.files \subseteq Files
         /\ \A j \in Jobs : /\ base[j].files \subseteq Files
                            /\ temp[j].files \subseteq Files
                            /\ \A f \in Files : /\ base[j].entries[f] \in Entry
                                                /\ temp[j].entries[f] \in Entry
BY DEF TypeOK, Map

\* A change of a file leaves a stamp no entry has: true entries stay true.
LEMMA EnvironmentStep ==
  ASSUME TypeOK, Stamped, FreshStamps, Environment
  PROVE  /\ clock' = clock + 1
         /\ \A f \in Files : disk'[f].mtime <= clock'
         /\ \A f \in Files :
              \/ disk'[f].mtime = clock + 1
              \/ disk'[f].mtime = disk[f].mtime /\ disk'[f].content = disk[f].content
         /\ \A e \in Entry, f \in Files :
              TrueOf(e, clock, disk[f]) => TrueOf(e, clock', disk'[f])
         /\ UNCHANGED <<catalog, temp, job, base, stage, draft, reader>>
         /\ calm' = {}
<1>1. UNCHANGED <<catalog, temp, job, base, stage, draft, reader>> /\ calm' = {}
  BY DEF Environment, WriteFile, RemoveFile, workVars
<1>2. /\ clock' = clock + 1
      /\ \A f \in Files :
           \/ disk'[f].mtime = clock + 1
           \/ disk'[f].mtime = disk[f].mtime /\ disk'[f].content = disk[f].content
  <2>1. ASSUME NEW g \in Files, NEW c \in Contents, NEW fresh \in BOOLEAN,
               WriteFile(g, c, fresh), NEW f \in Files
        PROVE  \/ disk'[f].mtime = clock + 1
               \/ disk'[f].mtime = disk[f].mtime /\ disk'[f].content = disk[f].content
    BY <2>1 DEF WriteFile, TypeOK
  <2>2. ASSUME NEW g \in Files, RemoveFile(g), NEW f \in Files
        PROVE  disk'[f].mtime = disk[f].mtime /\ disk'[f].content = disk[f].content
    BY <2>2 DEF RemoveFile, TypeOK, FileState
  <2>3. QED
    BY <2>1, <2>2 DEF Environment, WriteFile, RemoveFile
<1>3. \A f \in Files : disk'[f].mtime <= clock'
  <2> TAKE f \in Files
  <2>1. disk[f].mtime \in Nat /\ clock \in Nat /\ disk[f].mtime <= clock
    BY DEF TypeOK, FileState, Stamped
  <2>2. QED
    BY <1>2, <2>1
<1>4. ASSUME NEW e \in Entry, NEW f \in Files, TrueOf(e, clock, disk[f])
      PROVE  TrueOf(e, clock', disk'[f])
  <2>1. e.mtime \in Nat /\ clock \in Nat /\ e.mtime <= clock
    BY <1>4 DEF TypeOK, Entry, TrueOf
  <2>2. e.mtime <= clock' /\ e.mtime # clock + 1
    BY <1>2, <2>1
  <2>3. QED
    BY <1>2, <1>4, <2>2 DEF TrueOf
<1>5. QED
  BY <1>1, <1>2, <1>3, <1>4

\* A change of a file keeps the invariant.
LEMMA EnvironmentStamped ==
  ASSUME TypeOK, Stamped, FreshStamps, Environment
  PROVE  Stamped'
<1>1. DraftsTrue'
  <2> SUFFICES ASSUME NEW j \in Jobs, NEW f \in Files
               PROVE  DraftTrue(stage[j][f], draft[j][f], clock', disk'[f])
    BY EnvironmentStep DEF DraftsTrue
  <2>1. draft[j][f] \in Entry /\ draft[j][f].mtime \in Nat /\ clock \in Nat
    BY DEF TypeOK, Entry
  <2>2. DraftTrue(stage[j][f], draft[j][f], clock, disk[f])
    BY DEF Stamped, DraftsTrue
  <2>3. stage[j][f] \in {"metered", "hashed", "scanned"}
          => draft[j][f].mtime <= clock' /\ draft[j][f].mtime # clock + 1
    BY <2>1, <2>2, EnvironmentStep DEF DraftTrue
  <2>4. stage[j][f] = "scanned" /\ draft[j][f].mtime = disk'[f].mtime
          => draft[j][f].scanned = disk'[f].content
    BY <2>2, <2>3, EnvironmentStep DEF DraftTrue
  <2>5. stage[j][f] \in {"located", "rechecked", "done"}
          => TrueOf(draft[j][f], clock', disk'[f])
    BY <2>1, <2>2, EnvironmentStep DEF DraftTrue
  <2>6. QED
    BY <2>3, <2>4, <2>5 DEF DraftTrue
<1>2. MapsTrue'
  BY MapTypes, EnvironmentStep DEF Stamped, MapsTrue, MapTrue, EntryTrue
<1>3. SlicesTrue'
  <2> SUFFICES ASSUME NEW r \in Readers
               PROVE  /\ reader[r].pc = "stat"
                           => TrueOf(reader[r].entry, clock', disk'[reader[r].file])
                      /\ reader[r].mapped => reader[r].pc \in {"read", "done", "failed"}
    BY EnvironmentStep DEF SlicesTrue, SliceTrue, EntryTrue
  <2>1. reader[r].entry \in Entry
        /\ (reader[r].pc = "stat" => reader[r].file \in Files)
    BY DEF TypeOK, SliceState
  <2>2. QED
    BY <2>1, EnvironmentStep DEF Stamped, SlicesTrue, SliceTrue, EntryTrue
<1>4. QED
  BY <1>1, <1>2, <1>3, EnvironmentStep DEF Stamped

\* Job steps leave the slices alone: they can only disturb them.
LEMMA SlicesUndisturbed ==
  ASSUME Stamped, UNCHANGED <<disk, clock, reader>>, calm' \cap Readers \subseteq calm
  PROVE  SlicesTrue'
BY DEF Stamped, SlicesTrue, SliceTrue, EntryTrue, Current

\* Changing one draft touches no other draft.
LEMMA DraftStep ==
  ASSUME TypeOK, Stamped, UNCHANGED <<disk, clock>>,
         NEW j \in Jobs, NEW f \in Files, NEW s, NEW e,
         DraftTrue(s, e, clock, disk[f]),
         SetStage(j, f, s), SetDraft(j, f, e)
  PROVE  DraftsTrue'
<1> SUFFICES ASSUME NEW k \in Jobs, NEW g \in Files
             PROVE  DraftTrue(stage'[k][g], draft'[k][g], clock, disk[g])
  BY DEF DraftsTrue
<1>1. CASE k = j /\ g = f
  BY <1>1 DEF SetStage, SetDraft, TypeOK
<1>2. CASE ~(k = j /\ g = f)
  <2>1. stage'[k][g] = stage[k][g] /\ draft'[k][g] = draft[k][g]
    BY <1>2 DEF SetStage, SetDraft, TypeOK
  <2>2. QED
    BY <2>1 DEF Stamped, DraftsTrue
<1>3. QED
  BY <1>1, <1>2

\* The same when only the stage changes.
LEMMA StageStep ==
  ASSUME TypeOK, Stamped, UNCHANGED <<disk, clock, draft>>,
         NEW j \in Jobs, NEW f \in Files, NEW s \in {"none", "todo"},
         SetStage(j, f, s)
  PROVE  DraftsTrue'
<1> SUFFICES ASSUME NEW k \in Jobs, NEW g \in Files
             PROVE  DraftTrue(stage'[k][g], draft[k][g], clock, disk[g])
  BY DEF DraftsTrue
<1>1. CASE k = j /\ g = f
  BY <1>1 DEF SetStage, DraftTrue, TypeOK
<1>2. CASE ~(k = j /\ g = f)
  <2>1. stage'[k][g] = stage[k][g]
    BY <1>2 DEF SetStage, TypeOK
  <2>2. QED
    BY <2>1 DEF Stamped, DraftsTrue
<1>3. QED
  BY <1>1, <1>2

\* A job that ends drops its drafts and its base.
LEMMA ForgetStamped ==
  ASSUME TypeOK, Stamped, UNCHANGED <<disk, clock>>, NEW j \in Jobs, ForgetWork(j)
  PROVE  /\ DraftsTrue'
         /\ \A k \in Jobs : MapTrue(base[k])'
<1>1. ASSUME NEW k \in Jobs, NEW g \in Files
      PROVE  DraftTrue(stage'[k][g], draft'[k][g], clock, disk[g])
  <2>1. CASE k = j
    BY <2>1 DEF ForgetWork, DraftTrue, TypeOK
  <2>2. CASE k # j
    BY <2>2 DEF ForgetWork, TypeOK, Stamped, DraftsTrue
  <2>3. QED
    BY <2>1, <2>2
<1>2. ASSUME NEW k \in Jobs PROVE MapTrue(base[k])'
  <2>1. CASE k = j
    BY <2>1 DEF ForgetWork, TypeOK, Absent, Torn, MapTrue
  <2>2. CASE k # j
    <3>1. base'[k] = base[k]
      BY <2>2 DEF ForgetWork, TypeOK
    <3>2. QED
      BY <3>1 DEF Stamped, MapsTrue, MapTrue, EntryTrue
  <2>3. QED
    BY <2>1, <2>2
<1>3. QED
  BY <1>1, <1>2 DEF DraftsTrue

\* An error return keeps the invariant.
LEMMA RefuseStamped ==
  ASSUME TypeOK, Stamped, NEW j \in Jobs, Refuse(j)
  PROVE  Stamped'
<1>1. ForgetWork(j) /\ UNCHANGED <<disk, clock, catalog, temp, reader, calm>>
  BY DEF Refuse, Return, lakeVars
<1>2. DraftsTrue' /\ \A k \in Jobs : MapTrue(base[k])'
  BY <1>1, ForgetStamped
<1>3. MapsTrue'
  BY <1>1, <1>2 DEF Stamped, MapsTrue, MapTrue, EntryTrue
<1>4. QED
  BY <1>1, <1>2, <1>3, SlicesUndisturbed DEF Stamped

\* A step of inspect_file_entry on one file keeps the invariant if the entry
\* it leaves behind is as true as its stage says.
LEMMA StepStamped ==
  ASSUME TypeOK, Stamped, NEW j \in Jobs, NEW f \in Files, NEW s, NEW e,
         DraftTrue(s, e, clock, disk[f]), Step(j, f, s, e)
  PROVE  Stamped'
<1>1. UNCHANGED <<disk, clock, catalog, temp, base, reader, calm>>
  BY DEF Step, lakeVars
<1>2. DraftsTrue'
  BY <1>1, DraftStep DEF Step
<1>3. MapsTrue'
  BY <1>1 DEF Stamped, MapsTrue, MapTrue, EntryTrue
<1>4. QED
  BY <1>1, <1>2, <1>3, SlicesUndisturbed DEF Stamped

\* Calls, returns, crashes and errors of jobs keep the invariant.
LEMMA CallStamped ==
  ASSUME TypeOK, Stamped, NEW j \in Jobs, JobCall(j) \/ Crash(j) \/ IoError(j)
  PROVE  Stamped'
<1>1. UNCHANGED <<disk, clock, catalog, reader>> /\ calm' \cap Readers \subseteq calm
  BY ProcessesAssumption
     DEF JobCall, StartCreate, StartDoctor, Collect, Crash, IoError, lakeVars, Jobs
<1>2. DraftsTrue' /\ MapsTrue'
  <2>1. CASE JobCall(j)
    BY <2>1 DEF JobCall, StartCreate, StartDoctor, Collect, lakeVars, workVars,
                Stamped, DraftsTrue, MapsTrue, MapTrue, EntryTrue
  <2>2. CASE Crash(j)
    <3>1. ForgetWork(j) /\ temp' = temp
      BY <2>2 DEF Crash
    <3>2. DraftsTrue' /\ \A k \in Jobs : MapTrue(base[k])'
      BY <1>1, <3>1, ForgetStamped
    <3>3. QED
      BY <1>1, <3>1, <3>2 DEF Stamped, MapsTrue, MapTrue, EntryTrue
  <2>3. CASE IoError(j)
    <3>1. ForgetWork(j) /\ temp' = [temp EXCEPT ![j] = Absent]
      BY <2>3 DEF IoError, Return
    <3>2. DraftsTrue' /\ \A k \in Jobs : MapTrue(base[k])'
      BY <1>1, <3>1, ForgetStamped
    <3>3. \A k \in Jobs : temp'[k] = temp[k] \/ temp'[k].files = {}
      BY <3>1 DEF TypeOK, Absent, Torn
    <3>4. QED
      BY <1>1, <3>2, <3>3 DEF Stamped, MapsTrue, MapTrue, EntryTrue
  <2>4. QED
    BY <2>1, <2>2, <2>3
<1>3. QED
  BY <1>1, <1>2, SlicesUndisturbed DEF Stamped

\* Loading, discovering and diagnosing keep the invariant: a retained entry
\* is an entry of the loaded map.
LEMMA DoctorStamped ==
  ASSUME TypeOK, Stamped, NEW j \in Jobs, Discover(j) \/ DoctorStep(j)
  PROVE  Stamped'
<1>1. CASE Refuse(j)
  BY <1>1, RefuseStamped
<1>2. CASE LoadMap(j) /\ ~Refuse(j)
  <2>1. /\ UNCHANGED <<disk, clock, catalog, temp, stage, draft, reader, calm>>
        /\ base' = [base EXCEPT ![j] = catalog]
    BY <1>2 DEF LoadMap, lakeVars
  <2>2. \A k \in Jobs : base'[k] = base[k] \/ base'[k] = catalog
    BY <2>1 DEF TypeOK
  <2>3. MapsTrue'
    BY <2>1, <2>2 DEF Stamped, MapsTrue, MapTrue, EntryTrue
  <2>4. DraftsTrue'
    BY <2>1 DEF Stamped, DraftsTrue
  <2>5. QED
    BY <2>1, <2>3, <2>4, SlicesUndisturbed DEF Stamped
<1>3. CASE Discover(j)
  <2>1. UNCHANGED <<disk, clock, catalog, temp, base, draft, reader, calm>>
    BY <1>3 DEF Discover, lakeVars
  <2>2. ASSUME NEW k \in Jobs, NEW g \in Files
        PROVE  DraftTrue(stage'[k][g], draft[k][g], clock, disk[g])
    <3>1. CASE k = j
      <4>1. stage'[k][g] \in {"none", "found", "todo"}
        BY <1>3, <3>1 DEF Discover, TypeOK
      <4>2. QED
        BY <4>1 DEF DraftTrue
    <3>2. CASE k # j
      <4>1. stage'[k] = stage[k]
        BY <1>3, <3>2 DEF Discover, TypeOK
      <4>2. QED
        BY <4>1 DEF Stamped, DraftsTrue
    <3>3. QED
      BY <3>1, <3>2
  <2>3. MapsTrue'
    BY <2>1 DEF Stamped, MapsTrue, MapTrue, EntryTrue
  <2>4. QED
    BY <2>1, <2>2, <2>3, SlicesUndisturbed DEF Stamped, DraftsTrue
<1>4. ASSUME NEW f \in Files, StatFile(j, f) PROVE Stamped'
  <2>1. UNCHANGED <<disk, clock, catalog, temp, base, reader, calm>>
    BY <1>4 DEF StatFile, lakeVars
  <2>2. DraftsTrue'
    <3>1. CASE disk[f].present
      <4> DEFINE e == [Blank EXCEPT !.size = Stamp(f).size, !.mtime = Stamp(f).mtime]
      <4>1. SetStage(j, f, "stated") /\ SetDraft(j, f, e)
        BY <1>4, <3>1 DEF StatFile
      <4>2. DraftTrue("stated", e, clock, disk[f])
        BY DEF DraftTrue
      <4>3. QED
        BY <2>1, <4>1, <4>2, DraftStep
    <3>2. CASE ~disk[f].present
      BY <1>4, <2>1, <3>2, StageStep DEF StatFile
    <3>3. QED
      BY <3>1, <3>2
  <2>3. MapsTrue'
    BY <2>1 DEF Stamped, MapsTrue, MapTrue, EntryTrue
  <2>4. QED
    BY <2>1, <2>2, <2>3, SlicesUndisturbed DEF Stamped
<1>5. ASSUME NEW f \in Files, Classify(j, f), ~Refuse(j) PROVE Stamped'
  <2>1. UNCHANGED <<disk, clock, catalog, temp, base, reader, calm>>
    BY <1>5 DEF Classify, lakeVars
  <2>2. DraftsTrue'
    <3>1. CASE EntryHealthy(j, f)
      \* The entry is kept from the loaded map, where it was true.
      <4>1. SetStage(j, f, "done") /\ SetDraft(j, f, base[j].entries[f])
        BY <1>5, <3>1 DEF Classify
      <4>2. TrueOf(base[j].entries[f], clock, disk[f])
        BY <3>1 DEF EntryHealthy, StampMatches, Stamped, MapsTrue, MapTrue, EntryTrue
      <4>3. DraftTrue("done", base[j].entries[f], clock, disk[f])
        BY <4>2 DEF DraftTrue
      <4>4. QED
        BY <2>1, <4>1, <4>3, DraftStep
    <3>2. CASE ~EntryHealthy(j, f)
      BY <1>5, <2>1, <3>2, StageStep DEF Classify
    <3>3. QED
      BY <3>1, <3>2
  <2>3. MapsTrue'
    BY <2>1 DEF Stamped, MapsTrue, MapTrue, EntryTrue
  <2>4. QED
    BY <2>1, <2>2, <2>3, SlicesUndisturbed DEF Stamped
<1>6. CASE Verdict(j)
  <2>1. UNCHANGED <<disk, clock, catalog, temp, reader, calm>>
    BY <1>6 DEF Verdict, lakeVars
  <2>2. DraftsTrue' /\ \A k \in Jobs : MapTrue(base[k])'
    <3>1. CASE UNCHANGED workVars
      BY <2>1, <3>1 DEF workVars, Stamped, DraftsTrue, MapsTrue, MapTrue, EntryTrue
    <3>2. CASE ForgetWork(j)
      BY <2>1, <3>2, ForgetStamped
    <3>3. QED
      BY <1>6, <3>1, <3>2 DEF Verdict, Return
  <2>3. MapsTrue'
    BY <2>1, <2>2 DEF Stamped, MapsTrue, MapTrue, EntryTrue
  <2>4. QED
    BY <2>1, <2>2, <2>3, SlicesUndisturbed DEF Stamped
<1>7. QED
  BY <1>1, <1>2, <1>3, <1>4, <1>5, <1>6 DEF DoctorStep

\* Inspecting a file keeps the invariant: the stamp is older than the reads,
\* and the recheck ties them.
LEMMA InspectStamped ==
  ASSUME TypeOK, Stamped, NEW j \in Jobs, InspectStep(j)
  PROVE  Stamped'
<1>1. PICK f \in Files :
        \/ FileGone(j, f) \/ MeterFile(j, f) \/ HashFile(j, f) \/ ScanFile(j, f)
        \/ LocateFile(j, f) \/ RecheckFile(j, f) \/ RehashFile(j, f)
  BY DEF InspectStep
<1>2. /\ DraftTrue(stage[j][f], draft[j][f], clock, disk[f])
      /\ draft[j][f] \in Entry
      /\ disk[f].mtime <= clock
  BY DEF Stamped, DraftsTrue, TypeOK
<1>3. CASE Refuse(j)
  BY <1>3, RefuseStamped
<1>4. CASE ~Refuse(j)
  <2>1. CASE MeterFile(j, f)
    <3> DEFINE e == [Blank EXCEPT !.size = Stamp(f).size, !.mtime = Stamp(f).mtime]
    <3>1. e.mtime = disk[f].mtime
      BY DEF Stamp, Blank
    <3>2. DraftTrue("metered", e, clock, disk[f])
      BY <1>2, <3>1 DEF DraftTrue
    <3>3. QED
      BY <2>1, <3>2, StepStamped DEF MeterFile
  <2>2. CASE HashFile(j, f)
    <3> DEFINE e == [draft[j][f] EXCEPT !.hash = disk[f].content]
    <3>1. e.mtime = draft[j][f].mtime
      BY <1>2 DEF Entry
    <3>2. draft[j][f].mtime <= clock
      BY <1>2, <2>2 DEF HashFile, At, DraftTrue
    <3>3. DraftTrue("hashed", e, clock, disk[f])
      BY <3>1, <3>2 DEF DraftTrue
    <3>4. QED
      BY <2>2, <3>3, StepStamped DEF HashFile
  <2>3. CASE ScanFile(j, f)
    <3> DEFINE e == [draft[j][f] EXCEPT !.scanned = disk[f].content]
               o == [draft[j][f] EXCEPT !.scanned = disk[f].content,
                                        !.located = disk[f].content]
    <3>1. draft[j][f].mtime <= clock
      BY <1>2, <2>3 DEF ScanFile, At, DraftTrue
    <3>2. DraftTrue("scanned", e, clock, disk[f]) /\ DraftTrue("located", o, clock, disk[f])
      BY <1>2, <3>1 DEF DraftTrue, TrueOf, Entry
    <3>3. QED
      BY <1>4, <2>3, <3>2, StepStamped DEF ScanFile
  <2>4. CASE LocateFile(j, f)
    <3> DEFINE e == [draft[j][f] EXCEPT !.located = disk[f].content]
    <3>1. DraftTrue("located", e, clock, disk[f])
      BY <1>2, <2>4 DEF LocateFile, At, DraftTrue, TrueOf, Entry
    <3>2. QED
      BY <1>4, <2>4, <3>1, StepStamped DEF LocateFile
  <2>5. CASE RecheckFile(j, f)
    <3> DEFINE s == IF job[j].policy = "blake3" THEN "rechecked" ELSE "done"
    <3>1. Step(j, f, s, draft[j][f])
      BY <1>4, <2>5 DEF RecheckFile
    <3>2. DraftTrue(s, draft[j][f], clock, disk[f])
      BY <1>2, <2>5 DEF RecheckFile, At, DraftTrue
    <3>3. QED
      BY <3>1, <3>2, StepStamped
  <2>6. CASE RehashFile(j, f)
    <3>1. DraftTrue("done", draft[j][f], clock, disk[f])
      BY <1>2, <2>6 DEF RehashFile, At, DraftTrue
    <3>2. QED
      BY <1>4, <2>6, <3>1, StepStamped DEF RehashFile
  <2>7. QED
    BY <1>1, <1>4, <2>1, <2>2, <2>3, <2>4, <2>5, <2>6 DEF FileGone
<1>5. QED
  BY <1>3, <1>4

\* Saving and publishing move true entries.
LEMMA SaveStamped ==
  ASSUME TypeOK, Stamped, NEW j \in Jobs, BeginSave(j) \/ FinishSave(j) \/ Publish(j)
  PROVE  Stamped'
<1>1. UNCHANGED <<disk, clock, reader>> /\ calm' \cap Readers \subseteq calm
  BY DEF BeginSave, FinishSave, Publish, lakeVars
<1>2. CASE BeginSave(j)
  <2>1. UNCHANGED <<catalog, base, stage, draft>> /\ temp' = [temp EXCEPT ![j] = Torn]
    BY <1>2 DEF BeginSave, workVars
  <2>2. \A k \in Jobs : temp'[k] = temp[k] \/ temp'[k].files = {}
    BY <2>1 DEF TypeOK, Torn
  <2>3. DraftsTrue' /\ MapsTrue'
    BY <1>1, <2>1, <2>2 DEF Stamped, DraftsTrue, MapsTrue, MapTrue, EntryTrue
  <2>4. QED
    BY <1>1, <2>3, SlicesUndisturbed DEF Stamped
<1>3. CASE FinishSave(j)
  <2>1. UNCHANGED <<catalog, base, stage, draft>>
        /\ temp' = [temp EXCEPT ![j] = NewMap(j)]
    BY <1>3 DEF FinishSave, workVars
  <2>2. ASSUME NEW f \in NewMap(j).files
        PROVE  f \in Files /\ TrueOf(NewMap(j).entries[f], clock, disk[f])
    <3>1. f \in Files /\ stage[j][f] = "done" /\ NewMap(j).entries[f] = draft[j][f]
      BY <2>2 DEF NewMap, AtStage
    <3>2. QED
      BY <3>1 DEF Stamped, DraftsTrue, DraftTrue
  <2>3. \A k \in Jobs : temp'[k] = temp[k] \/ temp'[k] = NewMap(j)
    BY <2>1 DEF TypeOK
  <2>4. DraftsTrue'
    BY <1>1, <2>1 DEF Stamped, DraftsTrue
  <2>5. MapsTrue'
    BY <1>1, <2>1, <2>2, <2>3 DEF Stamped, MapsTrue, MapTrue, EntryTrue
  <2>6. QED
    BY <1>1, <2>4, <2>5, SlicesUndisturbed DEF Stamped
<1>4. CASE Publish(j)
  <2>1. /\ catalog' = temp[j]
        /\ temp' = [temp EXCEPT ![j] = Absent]
        /\ ForgetWork(j)
    BY <1>4 DEF Publish, Return
  <2>2. DraftsTrue' /\ \A k \in Jobs : MapTrue(base[k])'
    BY <1>1, <2>1, ForgetStamped
  <2>3. \A k \in Jobs : temp'[k] = temp[k] \/ temp'[k].files = {}
    BY <2>1 DEF TypeOK, Absent, Torn
  <2>4. MapsTrue'
    BY <1>1, <2>1, <2>2, <2>3 DEF Stamped, MapsTrue, MapTrue, EntryTrue
  <2>5. QED
    BY <1>1, <2>2, <2>4, SlicesUndisturbed DEF Stamped
<1>5. QED
  BY <1>2, <1>3, <1>4

\* The steps of a slice keep the invariant.
LEMMA SliceStamped ==
  ASSUME TypeOK, Stamped, NEW r \in Readers, SliceStep(r)
  PROVE  Stamped'
<1>1. UNCHANGED <<disk, clock, catalog, temp, base, stage, draft>>
  BY DEF SliceStep, SliceLookup, SliceStat, SliceRead, SliceReturn, lakeVars, workVars
<1>2. DraftsTrue' /\ MapsTrue'
  BY <1>1 DEF Stamped, DraftsTrue, MapsTrue, MapTrue, EntryTrue
<1>3. ASSUME NEW q \in Readers, q # r
      PROVE  reader'[q] = reader[q] /\ (q \in calm' => q \in calm)
  BY <1>3 DEF SliceStep, SliceLookup, SliceStat, SliceRead, SliceReturn, TypeOK
<1>4. ASSUME NEW q \in Readers, q # r
      PROVE  SliceTrue(reader[q], q \in calm)'
  BY <1>1, <1>3, <1>4 DEF Stamped, SlicesTrue, SliceTrue, EntryTrue, Current
<1>5. SliceTrue(reader[r], r \in calm) /\ reader[r] \in SliceState
  BY DEF Stamped, SlicesTrue, TypeOK
<1>6. SliceTrue(reader[r], r \in calm)'
  <2>1. ASSUME NEW f \in Files, SliceLookup(r, f)
        PROVE  SliceTrue(reader[r], r \in calm)'
    <3>1. \/ reader'[r] = [Resting EXCEPT !.pc = "failed", !.file = f]
          \/ /\ f \in catalog.files
             /\ reader'[r] = [Resting EXCEPT !.pc = "stat", !.file = f,
                                             !.entry = catalog.entries[f]]
          \/ reader'[r] = [Resting EXCEPT !.pc = "read", !.file = f]
      BY <2>1 DEF SliceLookup, TypeOK
    <3>2. f \in catalog.files => TrueOf(catalog.entries[f], clock, disk[f])
      BY DEF Stamped, MapsTrue, MapTrue, EntryTrue
    <3>3. QED
      BY <1>1, <3>1, <3>2 DEF Resting, SliceTrue, EntryTrue
  <2>2. CASE SliceStat(r)
    <3> DEFINE f == reader[r].file
    <3>1. /\ reader[r].pc = "stat" /\ ~reader[r].mapped
          /\ TrueOf(reader[r].entry, clock, disk[f])
      BY <1>5, <2>2 DEF SliceStat, SliceTrue, EntryTrue
    <3>2. \/ reader'[r] = [reader[r] EXCEPT !.pc = "failed"]
          \/ /\ SameStamp(Stamp(f), reader[r].entry)
             /\ reader'[r] = [reader[r] EXCEPT !.pc = "read", !.mapped = TRUE]
          \/ reader'[r] = [reader[r] EXCEPT !.pc = "read", !.entry = Blank]
      BY <2>2 DEF SliceStat, TypeOK
    <3>3. SameStamp(Stamp(f), reader[r].entry) => Current(reader[r].entry, f)
      BY <3>1 DEF SameStamp, Stamp, TrueOf, Current
    <3>4. QED
      BY <1>1, <1>5, <3>1, <3>2, <3>3 DEF SliceTrue, SliceState, Current
  <2>3. CASE SliceRead(r)
    <3> DEFINE f == reader[r].file
    <3>1. /\ reader[r].pc = "read" /\ calm' = calm
          /\ \/ reader'[r] = [reader[r] EXCEPT !.pc = "done", !.got = disk[f].content]
             \/ reader'[r] = [reader[r] EXCEPT !.pc = "failed"]
      BY <2>3 DEF SliceRead, TypeOK
    <3>2. reader[r].mapped /\ r \in calm => Current(reader[r].entry, f)
      BY <1>5, <3>1 DEF SliceTrue
    <3>3. /\ reader'[r].mapped = reader[r].mapped /\ reader'[r].entry = reader[r].entry
          /\ \/ reader'[r].pc = "done" /\ reader'[r].got = disk[f].content
             \/ reader'[r].pc = "failed"
      BY <1>5, <3>1 DEF SliceState
    <3>4. QED
      BY <3>1, <3>2, <3>3 DEF SliceTrue, Current
  <2>4. CASE SliceReturn(r)
    <3>1. reader'[r] = Resting
      BY <2>4 DEF SliceReturn, TypeOK
    <3>2. QED
      BY <3>1 DEF Resting, SliceTrue
  <2>5. QED
    BY <2>1, <2>2, <2>3, <2>4 DEF SliceStep
<1>7. SlicesTrue'
  BY <1>4, <1>6 DEF SlicesTrue
<1>8. QED
  BY <1>1, <1>2, <1>7 DEF Stamped

\* The initial states satisfy the invariant.
LEMMA InitStamped == Init => Stamped
<1> SUFFICES ASSUME Init PROVE Stamped
  OBVIOUS
<1>1. \A f \in Files : disk[f].mtime = 0
  BY DEF Init
<1>2. \A j \in Jobs, f \in Files : stage[j][f] = "none"
  BY DEF Init
<1>3. /\ catalog.files = {}
      /\ \A j \in Jobs : base[j].files = {} /\ temp[j].files = {}
  BY DEF Init, Absent, Torn
<1>4. \A r \in Readers : reader[r] = Resting
  BY DEF Init
<1>5. clock = 0
  BY DEF Init
<1>6. SlicesTrue
  BY <1>4 DEF SlicesTrue, SliceTrue, Resting
<1>7. DraftsTrue
  BY <1>2 DEF DraftsTrue, DraftTrue
<1>8. QED
  BY <1>1, <1>3, <1>5, <1>6, <1>7 DEF Stamped, MapsTrue, MapTrue

\* Every step keeps the invariant.
LEMMA NextStamped ==
  ASSUME TypeOK, Stamped, FreshStamps, [Next]_vars
  PROVE  Stamped'
<1>1. CASE Environment
  BY <1>1, EnvironmentStamped
<1>2. ASSUME NEW j \in Jobs, JobStep(j) \/ JobCall(j) \/ Crash(j) \/ IoError(j)
      PROVE  Stamped'
  BY <1>2, CallStamped, DoctorStamped, InspectStamped, SaveStamped DEF JobStep
<1>3. ASSUME NEW r \in Readers, SliceStep(r) PROVE Stamped'
  BY <1>3, SliceStamped
<1>4. CASE UNCHANGED vars
  BY <1>4 DEF vars, Stamped, DraftsTrue, MapsTrue, MapTrue, EntryTrue,
              SlicesTrue, SliceTrue, Current
<1>5. QED
  BY <1>1, <1>2, <1>3, <1>4 DEF Next

\* The invariant holds in every reachable state.
LEMMA StampInvariant == Spec => [](TypeOK /\ StampInv)
<1>1. Init => StampInv
  BY InitStamped DEF StampInv, Stamped
<1>2. TypeOK /\ StampInv /\ [Next]_vars => StampInv'
  BY NextStamped DEF StampInv, Stamped
<1>3. QED
  BY <1>1, <1>2, InitTypeOK, NextTypes, PTL DEF Spec

\* An entry that passes the size and mtime check of resolve_healthy_map_entry
\* describes the bytes of the file, for any number of writers, builders,
\* Doctors, crashes and I/O errors, when every change of a file moves its mtime.
THEOREM HealthyEntryIsTrue == Spec => []MetadataSound
<1>1. TypeOK /\ StampInv => MetadataSound
  BY DEF StampInv, MetadataSound, MapsTrue, MapTrue, EntryTrue, TrueOf,
         SameStamp, Stamp, Current
<1>2. QED
  BY <1>1, StampInvariant, PTL

\* A slice that used a catalog entry read the bytes the entry describes, when
\* the file did not change between its check and its read.
THEOREM MappedSliceIsRight == Spec => []QuietSliceRight
<1>1. TypeOK /\ StampInv => QuietSliceRight
  BY DEF StampInv, QuietSliceRight, SlicesTrue, SliceTrue
<1>2. QED
  BY <1>1, StampInvariant, PTL
-----------------------------------------------------------------------------
(* The catalog is never half written. *)

RenamesWhole ==
  /\ NeverTorn
  /\ \A j \in Jobs : job[j].pc = "rename" => temp[j].state = "whole"

\* Steps that neither save nor publish.
LEMMA OtherStepsRename ==
  ASSUME TypeOK, RenamesWhole, NEW j \in Jobs,
         UNCHANGED catalog,
         \A k \in Jobs : k # j => job'[k] = job[k] /\ temp'[k] = temp[k],
         job'[j].pc # "rename" \/ (UNCHANGED temp /\ job'[j].pc = job[j].pc)
  PROVE  RenamesWhole'
BY DEF RenamesWhole, NeverTorn

\* A returning job neither saves nor publishes.
LEMMA ReturnRenames ==
  ASSUME TypeOK, NEW j \in Jobs, NEW s, Return(j, s)
  PROVE  /\ job'[j].pc # "rename"
         /\ \A k \in Jobs : k # j => job'[k] = job[k]
<1>1. job[j] \in JobState
  BY DEF TypeOK
<1>2. QED
  BY <1>1 DEF Return, TypeOK, JobState

\* Only a completely written temporary file is ever renamed over the catalog.
LEMMA NextRenames ==
  ASSUME TypeOK, RenamesWhole, [Next]_vars
  PROVE  RenamesWhole'
<1>1. CASE UNCHANGED <<catalog, temp, job>>
  BY <1>1 DEF RenamesWhole, NeverTorn
<1>2. CASE Environment
  BY <1>1, <1>2 DEF Environment, WriteFile, RemoveFile
<1>3. ASSUME NEW r \in Readers, SliceStep(r) PROVE RenamesWhole'
  BY <1>1, <1>3 DEF SliceStep, SliceLookup, SliceStat, SliceRead, SliceReturn
<1>4. ASSUME NEW j \in Jobs, JobStep(j) \/ JobCall(j) \/ Crash(j) \/ IoError(j)
      PROVE  RenamesWhole'
  <2> job[j] \in JobState
    BY DEF TypeOK
  <2>1. ASSUME Refuse(j) PROVE RenamesWhole'
    BY <2>1, ReturnRenames, OtherStepsRename DEF Refuse
  <2>2. CASE JobCall(j)
    <3>1. UNCHANGED <<catalog, temp>>
      BY <2>2 DEF JobCall, StartCreate, StartDoctor, Collect
    <3>2. job'[j].pc # "rename" /\ \A k \in Jobs : k # j => job'[k] = job[k]
      BY <2>2 DEF JobCall, StartCreate, StartDoctor, Collect, Idle, TypeOK
    <3>3. QED
      BY <3>1, <3>2, OtherStepsRename
  <2>3. CASE Crash(j)
    BY <2>3, OtherStepsRename DEF Crash, Idle, TypeOK
  <2>4. CASE IoError(j)
    BY <2>4, ReturnRenames, OtherStepsRename DEF IoError, TypeOK
  <2>5. CASE Discover(j)
    <3>1. job'[j].pc # "rename" /\ \A k \in Jobs : k # j => job'[k] = job[k]
      BY <2>5 DEF Discover, Goto, TypeOK, JobState
    <3>2. QED
      BY <2>5, <3>1, OtherStepsRename DEF Discover
  <2>6. CASE DoctorStep(j)
    <3>1. CASE LoadMap(j) /\ ~Refuse(j)
      <4>1. job'[j].pc # "rename" /\ \A k \in Jobs : k # j => job'[k] = job[k]
        <5>1. job' = [job EXCEPT ![j] = [@ EXCEPT !.pc = "discover",
                                                  !.policy = catalog.policy]]
          BY <3>1 DEF LoadMap
        <5>2. QED
          BY <5>1 DEF TypeOK, JobState
      <4>2. QED
        BY <3>1, <4>1, OtherStepsRename DEF LoadMap
    <3>2. ASSUME NEW f \in Files, StatFile(j, f) \/ Classify(j, f), ~Refuse(j)
          PROVE  RenamesWhole'
      BY <1>1, <3>2 DEF StatFile, Classify
    <3>3. CASE Verdict(j)
      <4>1. job'[j].pc # "rename" /\ \A k \in Jobs : k # j => job'[k] = job[k]
        <5>1. CASE Goto(j, "inspect")
          BY <5>1 DEF Goto, TypeOK, JobState
        <5>2. CASE ~Goto(j, "inspect")
          BY <3>3, <5>2, ReturnRenames DEF Verdict
        <5>3. QED
          BY <5>1, <5>2
      <4>2. QED
        BY <3>3, <4>1, OtherStepsRename DEF Verdict
    <3>4. QED
      BY <2>1, <2>6, <3>1, <3>2, <3>3 DEF DoctorStep
  <2>7. CASE InspectStep(j)
    <3>1. CASE ~Refuse(j)
      BY <1>1, <2>7, <3>1
         DEF InspectStep, FileGone, MeterFile, HashFile, ScanFile, LocateFile,
             RecheckFile, RehashFile, Step
    <3>2. QED
      BY <2>1, <3>1
  <2>8. CASE BeginSave(j)
    <3>1. job'[j].pc = "write" /\ \A k \in Jobs : k # j => job'[k] = job[k]
      BY <2>8 DEF BeginSave, Goto, TypeOK, JobState
    <3>2. QED
      BY <2>8, <3>1, OtherStepsRename DEF BeginSave, TypeOK
  <2>9. CASE FinishSave(j)
    <3>1. \A k \in Jobs : k # j => job'[k] = job[k] /\ temp'[k] = temp[k]
      BY <2>9 DEF FinishSave, Goto, TypeOK
    <3>2. temp'[j].state = "whole" /\ UNCHANGED catalog
      BY <2>9 DEF FinishSave, NewMap, TypeOK
    <3>3. QED
      BY <3>1, <3>2 DEF RenamesWhole, NeverTorn
  <2>10. CASE Publish(j)
    \* The only step that changes the catalog: it renames a whole file.
    <3>1. catalog' = temp[j] /\ temp[j].state = "whole"
      BY <2>10 DEF Publish, RenamesWhole
    <3>2. job'[j].pc # "rename" /\ \A k \in Jobs : k # j => job'[k] = job[k]
      BY <2>10, ReturnRenames DEF Publish
    <3>3. \A k \in Jobs : k # j => temp'[k] = temp[k]
      BY <2>10 DEF Publish, TypeOK
    <3>4. QED
      BY <3>1, <3>2, <3>3 DEF RenamesWhole, NeverTorn
  <2>11. QED
    BY <1>4, <2>2, <2>3, <2>4, <2>5, <2>6, <2>7, <2>8, <2>9, <2>10 DEF JobStep
<1>5. QED
  BY <1>1, <1>2, <1>3, <1>4 DEF Next, vars

\* No process ever loads a partly written catalog, whatever jobs crash or fail
\* in the middle of a save.
THEOREM CatalogNeverTorn == Spec => []NeverTorn
<1>1. Init => RenamesWhole
  BY DEF Init, RenamesWhole, NeverTorn, Absent, Torn, Idle
<1>2. QED
  BY <1>1, NextRenames, TypeCorrect, PTL DEF Spec, RenamesWhole
-----------------------------------------------------------------------------
(* The digests bracket the scan. *)

JobAction(j) == JobStep(j) \/ JobCall(j) \/ Crash(j) \/ IoError(j)

\* The job, drafts and maps in the hands of the other jobs, and the files.
Others(j) ==
  /\ \A k \in Jobs \ {j} : /\ job'[k] = job[k]     /\ base'[k] = base[k]
                           /\ stage'[k] = stage[k] /\ draft'[k] = draft[k]
                           /\ temp'[k] = temp[k]
  /\ disk' = disk /\ used' = used

\* An error return touches the work of no other job.
LEMMA RefuseAlone ==
  ASSUME TypeOK, NEW j \in Jobs, Refuse(j)
  PROVE  Others(j) /\ UNCHANGED <<catalog, temp>>
BY DEF Refuse, Return, ForgetWork, Others, TypeOK, lakeVars

\* An inspection of a file touches the work of no other job.
LEMMA StepAlone ==
  ASSUME TypeOK, NEW j \in Jobs, NEW f \in Files, NEW s, NEW e, Step(j, f, s, e)
  PROVE  Others(j) /\ UNCHANGED <<catalog, temp, base, job>>
BY DEF Step, SetStage, SetDraft, Others, TypeOK, lakeVars

\* No step of a job touches the work of another.
LEMMA JobsKeepApart ==
  ASSUME TypeOK, NEW j \in Jobs, JobAction(j)
  PROVE  Others(j)
<1> USE DEF lakeVars
<1>1. CASE Refuse(j)
  BY <1>1, RefuseAlone
<1>2. CASE JobCall(j)
  BY <1>2 DEF JobCall, StartCreate, StartDoctor, Collect, Others, workVars, TypeOK
<1>3. CASE Crash(j) \/ IoError(j)
  BY <1>3 DEF Crash, IoError, Return, ForgetWork, Others, TypeOK
<1>4. CASE Discover(j)
  BY <1>4 DEF Discover, Goto, Others, TypeOK
<1>5. CASE LoadMap(j) /\ ~Refuse(j)
  BY <1>5 DEF LoadMap, Others, TypeOK
<1>6. ASSUME NEW f \in Files, StatFile(j, f) PROVE Others(j)
  BY <1>6 DEF StatFile, SetStage, SetDraft, Others, TypeOK
<1>7. ASSUME NEW f \in Files, Classify(j, f), ~Refuse(j) PROVE Others(j)
  BY <1>7 DEF Classify, SetStage, SetDraft, Others, TypeOK
<1>8. CASE Verdict(j)
  BY <1>8 DEF Verdict, Return, ForgetWork, Goto, workVars, Others, TypeOK
<1>9. CASE InspectStep(j) /\ ~Refuse(j)
  BY <1>9, StepAlone
     DEF InspectStep, FileGone, MeterFile, HashFile, ScanFile, LocateFile, RecheckFile,
         RehashFile
<1>10. CASE BeginSave(j) \/ FinishSave(j)
  BY <1>10 DEF BeginSave, FinishSave, Goto, workVars, Others, TypeOK
<1>11. CASE Publish(j)
  BY <1>11 DEF Publish, Return, ForgetWork, Others, TypeOK
<1> QED
  BY <1>1, <1>2, <1>3, <1>4, <1>5, <1>6, <1>7, <1>8, <1>9, <1>10, <1>11
     DEF JobAction, JobStep, DoctorStep

\* What a job does is right if it leaves its own work and the catalog right.
LEMMA JobDigested ==
  ASSUME TypeOK, DigestInv, NEW j \in Jobs, JobAction(j),
         WorkDigested(j)', MapDigested(catalog', disk')
  PROVE  DigestInv'
<1>1. Others(j)
  BY JobsKeepApart
<1>2. \A k \in Jobs \ {j} : WorkDigested(k)'
  BY <1>1 DEF Others, DigestInv, WorkDigested
<1> QED
  BY <1>1, <1>2 DEF Others, DigestInv

\* The same for a job that leaves the maps alone.
LEMMA DraftsDigested ==
  ASSUME TypeOK, DigestInv, NEW j \in Jobs, JobAction(j), UNCHANGED <<catalog, temp, base>>,
         job'[j].pc \in {"idle", "load", "done", "failed"}
           => \A f \in Files : stage'[j][f] = "none",
         \A f \in Files :
           DraftDigested(stage'[j][f], draft'[j][f], job'[j].policy, used[f], disk[f])
  PROVE  DigestInv'
<1>1. Others(j)
  BY JobsKeepApart
<1>2. WorkDigested(j)'
  BY <1>1 DEF Others, DigestInv, WorkDigested
<1> QED
  BY <1>1, <1>2, JobDigested DEF Others, DigestInv

LEMMA BlankDigested ==
  /\ \A lake : MapDigested(Absent, lake) /\ MapDigested(Torn, lake)
  /\ Digested(Blank)
  /\ \A e, policy, past, file : DraftDigested("none", e, policy, past, file)
BY DEF Digested, Blank, MapDigested, Absent, Torn, DraftDigested

\* Without drafts there is nothing to say of them.
LEMMA ForgetDigested ==
  ASSUME TypeOK, NEW j \in Jobs, ForgetWork(j), MapDigested(temp'[j], disk')
  PROVE  WorkDigested(j)'
<1>1. \A f \in Files : stage'[j][f] = "none"
  BY DEF ForgetWork, TypeOK
<1>2. base'[j] = Absent
  BY DEF ForgetWork, TypeOK
<1> QED
  BY <1>1, <1>2, BlankDigested DEF WorkDigested

LEMMA RefuseDigested ==
  ASSUME TypeOK, DigestInv, NEW j \in Jobs, Refuse(j), JobAction(j)
  PROVE  DigestInv'
<1>1. ForgetWork(j) /\ UNCHANGED <<catalog, temp, disk>>
  BY DEF Refuse, Return, lakeVars
<1>2. WorkDigested(j)'
  BY <1>1, ForgetDigested DEF DigestInv, WorkDigested
<1> QED
  BY <1>1, <1>2, JobDigested DEF DigestInv

\* One file of one job moves on.
LEMMA DraftDigests ==
  ASSUME TypeOK, DigestInv, NEW j \in Jobs, NEW f \in Files, NEW s, NEW e,
         JobAction(j), UNCHANGED <<catalog, temp, base, job>>,
         job[j].pc \notin {"idle", "load", "done", "failed"},
         DraftDigested(s, e, job[j].policy, used[f], disk[f]),
         SetStage(j, f, s), SetDraft(j, f, e)
  PROVE  DigestInv'
<1>1. ASSUME NEW g \in Files
      PROVE  DraftDigested(stage'[j][g], draft'[j][g], job[j].policy, used[g], disk[g])
  <2>1. CASE g = f
    BY <2>1 DEF SetStage, SetDraft, TypeOK
  <2>2. CASE g # f
    <3>1. stage'[j][g] = stage[j][g] /\ draft'[j][g] = draft[j][g]
      BY <2>2 DEF SetStage, SetDraft, TypeOK
    <3> QED
      BY <3>1 DEF DigestInv, WorkDigested
  <2> QED
    BY <2>1, <2>2
<1> QED
  BY <1>1, DraftsDigested

\* The same for one that has not been opened or is gone.
LEMMA StageDigests ==
  ASSUME TypeOK, DigestInv, NEW j \in Jobs, NEW f \in Files, NEW s \in {"none", "todo"},
         JobAction(j), UNCHANGED <<catalog, temp, base, job, draft>>,
         job[j].pc \notin {"idle", "load", "done", "failed"},
         SetStage(j, f, s)
  PROVE  DigestInv'
<1>1. ASSUME NEW g \in Files
      PROVE  DraftDigested(stage'[j][g], draft[j][g], job[j].policy, used[g], disk[g])
  <2>1. CASE g = f
    BY <2>1 DEF SetStage, TypeOK, DraftDigested
  <2>2. CASE g # f
    <3>1. stage'[j][g] = stage[j][g]
      BY <2>2 DEF SetStage, TypeOK
    <3> QED
      BY <3>1 DEF DigestInv, WorkDigested
  <2> QED
    BY <2>1, <2>2
<1> QED
  BY <1>1, DraftsDigested

\* A change of a file brings a stamp, or bytes, that no entry has.
LEMMA EnvironmentDigested ==
  ASSUME TypeOK, DigestInv, StampInv, Environment
  PROVE  DigestInv'
<1>1. UNCHANGED <<catalog, temp, job, base, stage, draft>>
  BY DEF Environment, WriteFile, RemoveFile, workVars
<1>2. \A f \in Files :
        /\ disk'[f].content \in used'[f]
        /\ used[f] \subseteq used'[f]
        /\ ~Recurring => \/ disk'[f].content = disk[f].content
                         \/ disk'[f].content \notin used[f] \cup {NoContent}
  <2>1. ASSUME NEW g \in Files, NEW c \in Contents, NEW fresh \in BOOLEAN,
               WriteFile(g, c, fresh), NEW f \in Files
        PROVE  /\ disk'[f].content \in used'[f]
               /\ used[f] \subseteq used'[f]
               /\ ~Recurring => \/ disk'[f].content = disk[f].content
                                \/ disk'[f].content \notin used[f] \cup {NoContent}
    BY <2>1, ContentsAssumption DEF WriteFile, TypeOK, DigestInv
  <2>2. ASSUME NEW g \in Files, RemoveFile(g), NEW f \in Files
        PROVE  disk'[f].content = disk[f].content /\ used' = used
    BY <2>2 DEF RemoveFile, TypeOK, FileState
  <2> QED
    BY <2>1, <2>2 DEF Environment, DigestInv
<1>3. FreshStamps => Stamped
  BY DEF StampInv, Stamped
<1>4. ASSUME NEW e \in Entry, NEW f \in Files, HashTrue(e, disk[f]),
             FreshStamps => e.mtime <= clock
      PROVE  HashTrue(e, disk'[f])
  <2> SUFFICES ASSUME FreshStamps PROVE HashTrue(e, disk'[f])
    BY DEF HashTrue
  <2>1. \/ disk'[f].mtime = clock + 1
        \/ disk'[f].mtime = disk[f].mtime /\ disk'[f].content = disk[f].content
    BY <1>3, EnvironmentStep
  <2>2. e.mtime \in Nat /\ clock \in Nat /\ e.mtime <= clock
    BY <1>4 DEF TypeOK, Entry
  <2>3. e.mtime # clock + 1
    BY <2>2
  <2> QED
    BY <1>4, <2>1, <2>3 DEF HashTrue
<1>5. ASSUME NEW m, m.files \subseteq Files, \A f \in Files : m.entries[f] \in Entry,
             FreshStamps => MapTrue(m), MapDigested(m, disk)
      PROVE  MapDigested(m, disk')
  <2> SUFFICES ASSUME NEW f \in m.files
               PROVE  HashTrue(m.entries[f], disk'[f])
    BY <1>5 DEF MapDigested
  <2>1. FreshStamps => m.entries[f].mtime <= clock
    BY <1>5 DEF MapTrue, EntryTrue, TrueOf
  <2> QED
    BY <1>4, <1>5, <2>1 DEF MapDigested
<1>6. ASSUME NEW j \in Jobs, NEW f \in Files
      PROVE  DraftDigested(stage[j][f], draft[j][f], job[j].policy, used'[f], disk'[f])
  <2>1. /\ DraftDigested(stage[j][f], draft[j][f], job[j].policy, used[f], disk[f])
        /\ draft[j][f] \in Entry
    BY DEF DigestInv, WorkDigested, TypeOK
  <2>2. ASSUME stage[j][f] \in {"hashed", "scanned", "located", "rechecked", "done"}
        PROVE  HashTrue(draft[j][f], disk'[f])
    <3>1. FreshStamps => draft[j][f].mtime <= clock
      BY <1>3, <2>2 DEF Stamped, DraftsTrue, DraftTrue, TrueOf
    <3> QED
      BY <1>4, <2>1, <2>2, <3>1 DEF DraftDigested
  <2> QED
    BY <1>2, <2>1, <2>2 DEF DraftDigested
<1>7. /\ MapDigested(catalog, disk')
      /\ \A j \in Jobs : MapDigested(base[j], disk') /\ MapDigested(temp[j], disk')
  BY <1>3, <1>5, MapTypes DEF DigestInv, WorkDigested, Stamped, MapsTrue
<1> QED
  BY <1>1, <1>2, <1>6, <1>7 DEF DigestInv, WorkDigested

\* Calls, returns, crashes and errors.
LEMMA CallDigested ==
  ASSUME TypeOK, DigestInv, NEW j \in Jobs, JobCall(j) \/ Crash(j) \/ IoError(j)
  PROVE  DigestInv'
<1>1. JobAction(j) /\ UNCHANGED <<catalog, disk>>
  BY DEF JobAction, JobCall, StartCreate, StartDoctor, Collect, Crash, IoError, lakeVars
<1>2. CASE JobCall(j)
  <2>1. job[j].pc \in {"idle", "done", "failed"} /\ UNCHANGED <<temp, base, stage, draft>>
    BY <1>2 DEF JobCall, StartCreate, StartDoctor, Collect, workVars
  <2>2. \A f \in Files : stage'[j][f] = "none"
    BY <2>1 DEF DigestInv, WorkDigested
  <2> QED
    BY <1>1, <2>1, <2>2, BlankDigested, DraftsDigested
<1>3. CASE Crash(j) \/ IoError(j)
  <2>1. ForgetWork(j)
    BY <1>3 DEF Crash, IoError, Return
  <2>2. temp'[j] = temp[j] \/ temp'[j] = Absent
    BY <1>3 DEF Crash, IoError, TypeOK
  <2>3. MapDigested(temp'[j], disk')
    BY <1>1, <2>2, BlankDigested DEF DigestInv, WorkDigested
  <2>4. WorkDigested(j)'
    BY <2>1, <2>3, ForgetDigested
  <2> QED
    BY <1>1, <2>4, JobDigested DEF DigestInv
<1> QED
  BY <1>2, <1>3

\* Loading, listing and comparing: a retained entry is one of the loaded map.
LEMMA DoctorDigested ==
  ASSUME TypeOK, DigestInv, NEW j \in Jobs, Discover(j) \/ DoctorStep(j)
  PROVE  DigestInv'
<1> JobAction(j)
  BY DEF JobAction, JobStep
<1> Others(j)
  BY JobsKeepApart
<1>1. CASE Refuse(j)
  BY <1>1, RefuseDigested
<1>2. CASE LoadMap(j) /\ ~Refuse(j)
  <2>1. /\ job[j].pc = "load" /\ UNCHANGED <<catalog, temp, stage, draft>>
        /\ base'[j] = catalog
    BY <1>2 DEF LoadMap, TypeOK
  <2>2. \A f \in Files : stage'[j][f] = "none"
    BY <2>1 DEF DigestInv, WorkDigested
  <2>3. WorkDigested(j)'
    BY <2>1, <2>2, BlankDigested DEF DigestInv, WorkDigested, Others
  <2> QED
    BY <2>1, <2>3, JobDigested DEF DigestInv, Others
<1>3. CASE Discover(j)
  <2>1. UNCHANGED <<catalog, temp, base, draft>>
    BY <1>3 DEF Discover
  <2>2. job'[j].pc \in {"diagnose", "inspect"}
    BY <1>3 DEF Discover, Goto, TypeOK, JobState
  <2>3. \A f \in Files : stage'[j][f] \in {"none", "found", "todo"}
    BY <1>3 DEF Discover, TypeOK
  <2>4. \A f \in Files :
          DraftDigested(stage'[j][f], draft'[j][f], job'[j].policy, used[f], disk[f])
    BY <2>3 DEF DraftDigested
  <2> QED
    BY <2>1, <2>2, <2>4, DraftsDigested
<1>4. ASSUME NEW f \in Files, StatFile(j, f) PROVE DigestInv'
  <2>1. job[j].pc = "diagnose" /\ UNCHANGED <<catalog, temp, base, job>>
    BY <1>4 DEF StatFile
  <2>2. CASE disk[f].present
    <3> DEFINE e == [Blank EXCEPT !.size = Stamp(f).size, !.mtime = Stamp(f).mtime]
    <3>1. SetStage(j, f, "stated") /\ SetDraft(j, f, e)
      BY <1>4, <2>2 DEF StatFile
    <3>2. DraftDigested("stated", e, job[j].policy, used[f], disk[f])
      BY DEF DraftDigested
    <3> QED
      BY <2>1, <3>1, <3>2, DraftDigests
  <2>3. CASE ~disk[f].present
    BY <1>4, <2>1, <2>3, StageDigests DEF StatFile
  <2> QED
    BY <2>2, <2>3
<1>5. ASSUME NEW f \in Files, Classify(j, f), ~Refuse(j) PROVE DigestInv'
  <2>1. job[j].pc = "diagnose" /\ UNCHANGED <<catalog, temp, base, job>>
    BY <1>5 DEF Classify
  <2>2. CASE EntryHealthy(j, f)
    <3>1. SetStage(j, f, "done") /\ SetDraft(j, f, base[j].entries[f])
      BY <1>5, <2>2 DEF Classify
    <3>2. /\ f \in base[j].files
          /\ job[j].policy = "blake3" => base[j].entries[f].hash # NoContent
      BY <2>2, ContentsAssumption DEF EntryHealthy, StampMatches, TypeOK, FileState
    <3>3. DraftDigested("done", base[j].entries[f], job[j].policy, used[f], disk[f])
      BY <3>2 DEF DraftDigested, DigestInv, WorkDigested, MapDigested
    <3> QED
      BY <2>1, <3>1, <3>3, DraftDigests
  <2>3. CASE ~EntryHealthy(j, f)
    BY <1>5, <2>1, <2>3, StageDigests DEF Classify
  <2> QED
    BY <2>2, <2>3
<1>6. CASE Verdict(j)
  <2>1. UNCHANGED <<catalog, temp>>
    BY <1>6 DEF Verdict
  <2>2. CASE Goto(j, "inspect") /\ UNCHANGED workVars
    <3>1. job'[j].pc = "inspect" /\ job'[j].policy = job[j].policy
      BY <2>2 DEF Goto, TypeOK, JobState
    <3> QED
      BY <2>1, <2>2, <3>1, DraftsDigested DEF DigestInv, WorkDigested, workVars
  <2>3. CASE ForgetWork(j)
    <3>1. WorkDigested(j)'
      BY <2>1, <2>3, ForgetDigested DEF DigestInv, WorkDigested, Others
    <3> QED
      BY <2>1, <3>1, JobDigested DEF DigestInv, Others
  <2> QED
    BY <1>6, <2>2, <2>3 DEF Verdict, Return
<1> QED
  BY <1>1, <1>2, <1>3, <1>4, <1>5, <1>6 DEF DoctorStep

\* Inspecting a file: the digest is taken before the scans and once more after.
LEMMA InspectDigested ==
  ASSUME TypeOK, DigestInv, NEW j \in Jobs, InspectStep(j)
  PROVE  DigestInv'
<1> JobAction(j)
  BY DEF JobAction, JobStep
<1>1. PICK f \in Files :
        \/ FileGone(j, f) \/ MeterFile(j, f) \/ HashFile(j, f) \/ ScanFile(j, f)
        \/ LocateFile(j, f) \/ RecheckFile(j, f) \/ RehashFile(j, f)
  BY DEF InspectStep
<1> DEFINE now    == disk[f].content
           policy == job[j].policy
           old    == draft[j][f]
           Right(s, e) == DraftDigested(s, e, policy, used[f], disk[f])
<1>2. /\ Right(stage[j][f], old)
      /\ old \in Entry
      /\ now \in used[f] /\ now # NoContent
  BY ContentsAssumption DEF DigestInv, WorkDigested, TypeOK, FileState
<1>3. CASE Refuse(j)
  BY <1>3, RefuseDigested
<1>4. ASSUME NEW s, NEW e, Step(j, f, s, e), Right(s, e), job[j].pc = "inspect"
      PROVE  DigestInv'
  BY <1>4, DraftDigests DEF Step
<1>5. CASE ~Refuse(j)
  <2>1. CASE MeterFile(j, f)
    <3> DEFINE e == [Blank EXCEPT !.size = Stamp(f).size, !.mtime = Stamp(f).mtime]
    <3>1. e.hash = NoContent
      BY DEF Blank
    <3>2. Right("metered", e)
      BY <3>1 DEF DraftDigested
    <3> QED
      BY <1>4, <2>1, <3>2 DEF MeterFile, At
  <2>2. CASE HashFile(j, f)
    <3> DEFINE e == [old EXCEPT !.hash = now]
    <3>1. e.hash = now
      BY <1>2 DEF Entry
    <3>2. Right("hashed", e)
      BY <1>2, <3>1 DEF DraftDigested, HashTrue
    <3> QED
      BY <1>4, <2>2, <3>2 DEF HashFile, At
  <2>3. CASE ScanFile(j, f)
    <3> DEFINE e == [old EXCEPT !.scanned = now]
               o == [old EXCEPT !.scanned = now, !.located = now]
    <3>1. /\ e.hash = old.hash /\ e.scanned = now /\ e.mtime = old.mtime
          /\ o.hash = old.hash /\ o.scanned = now /\ o.located = now /\ o.mtime = old.mtime
      BY <1>2 DEF Entry
    <3>2. /\ ~Recurring => old.hash \in used[f] \cup {NoContent}
          /\ policy # "blake3" => old.hash = NoContent
          /\ policy = "blake3" => old.hash # NoContent
          /\ HashTrue(old, disk[f])
      BY <1>2, <2>3 DEF ScanFile, At, DraftDigested, HashTrue
    <3>3. HashTrue(e, disk[f]) /\ HashTrue(o, disk[f])
      BY <3>1, <3>2 DEF HashTrue
    <3> HIDE DEF e, o
    <3>4. Right("scanned", e) /\ Right("located", o)
      BY <3>1, <3>2, <3>3 DEF DraftDigested
    <3>5. Step(j, f, "scanned", e) \/ Step(j, f, "located", o)
      BY <1>5, <2>3 DEF ScanFile, e, o
    <3> QED
      BY <1>4, <2>3, <3>4, <3>5 DEF ScanFile, At
  <2>4. CASE LocateFile(j, f)
    <3> DEFINE e == [old EXCEPT !.located = now]
    <3>1. /\ e.hash = old.hash /\ e.scanned = old.scanned /\ e.located = now
          /\ e.mtime = old.mtime
      BY <1>2 DEF Entry
    <3>2. HashTrue(old, disk[f]) => HashTrue(e, disk[f])
      BY <3>1 DEF HashTrue
    <3>3. stage[j][f] = "scanned" /\ Step(j, f, "located", e) /\ job[j].pc = "inspect"
      BY <1>5, <2>4 DEF LocateFile, At
    <3> HIDE DEF e
    <3>4. Right("located", e)
      BY <1>2, <3>1, <3>2, <3>3 DEF DraftDigested
    <3> QED
      BY <1>4, <3>3, <3>4
  <2>5. CASE RecheckFile(j, f)
    <3> DEFINE s == IF policy = "blake3" THEN "rechecked" ELSE "done"
    <3>1. Step(j, f, s, old)
      BY <1>5, <2>5 DEF RecheckFile
    <3>2. Right(s, old)
      BY <1>2, <2>5 DEF RecheckFile, At, DraftDigested, Digested
    <3> QED
      BY <1>4, <2>5, <3>1, <3>2 DEF RecheckFile, At
  <2>6. CASE RehashFile(j, f)
    <3>1. now = old.hash /\ Step(j, f, "done", old)
      BY <1>5, <2>6 DEF RehashFile
    <3>2. Right("done", old)
      BY <1>2, <2>6, <3>1 DEF RehashFile, At, DraftDigested, Digested
    <3> QED
      BY <1>4, <2>6, <3>1, <3>2 DEF RehashFile, At
  <2> QED
    BY <1>1, <1>5, <2>1, <2>2, <2>3, <2>4, <2>5, <2>6 DEF FileGone
<1> QED
  BY <1>3, <1>5

\* What is written and renamed is what the drafts were.
LEMMA SaveDigested ==
  ASSUME TypeOK, DigestInv, NEW j \in Jobs, BeginSave(j) \/ FinishSave(j) \/ Publish(j)
  PROVE  DigestInv'
<1> JobAction(j)
  BY DEF JobAction, JobStep
<1> Others(j)
  BY JobsKeepApart
<1>1. ASSUME UNCHANGED <<catalog, base, stage, draft>>,
             job'[j].pc \in {"write", "rename"}, job'[j].policy = job[j].policy,
             MapDigested(temp'[j], disk')
      PROVE  DigestInv'
  <2>1. WorkDigested(j)'
    BY <1>1 DEF DigestInv, WorkDigested, Others
  <2> QED
    BY <1>1, <2>1, JobDigested DEF DigestInv, Others
<1>2. CASE BeginSave(j)
  <2>1. temp'[j] = Torn
    BY <1>2 DEF BeginSave, TypeOK
  <2>2. job'[j].pc = "write" /\ job'[j].policy = job[j].policy
    BY <1>2 DEF BeginSave, Goto, TypeOK, JobState
  <2> QED
    BY <1>1, <1>2, <2>1, <2>2, BlankDigested DEF BeginSave, workVars
<1>3. CASE FinishSave(j)
  <2>1. temp'[j] = NewMap(j)
    BY <1>3 DEF FinishSave, TypeOK
  <2>2. job'[j].pc = "rename" /\ job'[j].policy = job[j].policy
    BY <1>3 DEF FinishSave, Goto, TypeOK, JobState
  <2>3. /\ NewMap(j).policy = job[j].policy
        /\ \A f \in NewMap(j).files : /\ f \in Files /\ stage[j][f] = "done"
                                      /\ NewMap(j).entries[f] = draft[j][f]
    BY DEF NewMap, AtStage
  <2>4. MapDigested(NewMap(j), disk)
    BY <2>3 DEF MapDigested, DigestInv, WorkDigested, DraftDigested
  <2> QED
    BY <1>1, <1>3, <2>1, <2>2, <2>4 DEF FinishSave, workVars, Others
<1>4. CASE Publish(j)
  <2>1. ForgetWork(j) /\ catalog' = temp[j] /\ temp'[j] = Absent
    BY <1>4 DEF Publish, Return, TypeOK
  <2>2. MapDigested(catalog', disk') /\ MapDigested(temp'[j], disk')
    BY <2>1, BlankDigested DEF DigestInv, WorkDigested, Others
  <2> QED
    BY <2>1, <2>2, ForgetDigested, JobDigested
<1> QED
  BY <1>2, <1>3, <1>4

\* Every step keeps the invariant.
LEMMA NextDigested ==
  ASSUME TypeOK, DigestInv, StampInv, [Next]_vars
  PROVE  DigestInv'
<1>1. CASE UNCHANGED <<lakeVars, catalog, temp, job, workVars>>
  BY <1>1 DEF lakeVars, workVars, DigestInv, WorkDigested
<1>2. CASE Environment
  BY <1>2, EnvironmentDigested
<1>3. ASSUME NEW j \in Jobs, JobStep(j) \/ JobCall(j) \/ Crash(j) \/ IoError(j)
      PROVE  DigestInv'
  BY <1>3, CallDigested, DoctorDigested, InspectDigested, SaveDigested DEF JobStep
<1>4. ASSUME NEW r \in Readers, SliceStep(r) PROVE DigestInv'
  BY <1>1, <1>4 DEF SliceStep, SliceLookup, SliceStat, SliceRead, SliceReturn
<1> QED
  BY <1>1, <1>2, <1>3, <1>4 DEF Next, vars, lakeVars, workVars

LEMMA InitDigested == Init => DigestInv
<1> SUFFICES ASSUME Init PROVE DigestInv
  OBVIOUS
<1>1. \A f \in Files : disk[f].content \in used[f]
  BY DEF Init
<1>2. ASSUME NEW j \in Jobs PROVE WorkDigested(j)
  <2>1. \A f \in Files : stage[j][f] = "none"
    BY DEF Init
  <2>2. base[j] = Absent /\ temp[j] = Absent
    BY DEF Init
  <2> QED
    BY <2>1, <2>2, BlankDigested DEF WorkDigested
<1> QED
  BY <1>1, <1>2, BlankDigested DEF Init, DigestInv

\* The invariants of stamps and digests hold in every reachable state.
LEMMA DigestInvariant == Spec => [](TypeOK /\ StampInv /\ DigestInv)
<1>1. TypeOK /\ StampInv /\ DigestInv /\ [Next]_vars => DigestInv'
  BY NextDigested
<1> QED
  BY <1>1, InitDigested, StampInvariant, PTL DEF Spec

\* The statistics and locators of an entry with a digest come from the bytes the
\* digest was taken of, also when mtimes are preserved, if bytes that were
\* replaced do not come back (inspect.rs:550-555, 729-741).
THEOREM DigestsAreTrue == Spec => []DigestSound
<1>1. DigestInv => DigestSound
  BY DEF DigestInv, DigestSound, MapDigested, Digested
<1> QED
  BY <1>1, DigestInvariant, PTL
-----------------------------------------------------------------------------
(* Reports are true. *)

\* What is known in every reachable state besides ReportInv.
Background == TypeOK /\ StampInv /\ DigestInv /\ RenamesWhole

\* A job that ends knows its report only.
LEMMA EndKnown ==
  ASSUME TypeOK, NEW j \in Jobs, NEW s, Return(j, s),
         s \in {"HEALTHY", "HEALED", "CREATED"} => InSync',
         s = "DRIFT_DETECTED" => ~(InSync' /\ StampsMatch')
  PROVE  JobKnown(j)'
<1>1. job'[j].pc \in {"done", "failed"} /\ job'[j].status = s
  BY DEF Return, TypeOK, JobState
<1>2. \A f \in Files : stage'[j][f] = "none"
  BY DEF Return, ForgetWork, TypeOK
<1> QED
  BY <1>1, <1>2 DEF JobKnown, FileKnown

\* Who is left undisturbed by a step of another job knows what it knew.
LEMMA OthersKnown ==
  ASSUME TypeOK, ReportInv, NEW j \in Jobs, JobAction(j),
         NEW k \in Jobs \ {j}, k \in calm', Trusted(job'[k].policy)
  PROVE  JobKnown(k)'
<1>1. Others(j)
  BY JobsKeepApart
<1>2. k \in calm /\ UNCHANGED catalog
  <2>1. CASE Publish(j)
    BY <2>1 DEF Publish
  <2>2. CASE ~Publish(j)
    BY <2>2
       DEF JobAction, JobStep, JobCall, DoctorStep, InspectStep, StartCreate, StartDoctor,
           Collect, Crash, IoError, Discover, LoadMap, StatFile, Classify, Verdict, Refuse,
           FileGone, MeterFile, HashFile, ScanFile, LocateFile, RecheckFile, RehashFile,
           Step, BeginSave, FinishSave
  <2> QED
    BY <2>1, <2>2
<1>3. JobKnown(k)
  BY <1>1, <1>2 DEF ReportInv, Others
<1> QED
  BY <1>1, <1>2, <1>3
     DEF Others, JobKnown, FileKnown, Current, Stale, Stamp, InSync, StampsMatch

\* A job keeps the invariant if it keeps what it knows itself.
LEMMA JobReports ==
  ASSUME TypeOK, ReportInv, NEW j \in Jobs, JobAction(j),
         job'[j].pc \notin {"done", "failed"} => job'[j].status = "none",
         job'[j].pc \in {"load", "diagnose"} => j \in Doctors,
         j \in calm' /\ Trusted(job'[j].policy) => JobKnown(j)'
  PROVE  ReportInv'
<1>1. Others(j)
  BY JobsKeepApart
<1> QED
  BY <1>1, OthersKnown DEF ReportInv, Others

\* An error is reported as one.
LEMMA RefuseReports ==
  ASSUME TypeOK, ReportInv, NEW j \in Jobs, Refuse(j), JobAction(j)
  PROVE  ReportInv'
<1>1. Return(j, "ERROR")
  BY DEF Refuse
<1>2. job'[j].pc = "failed"
  BY <1>1 DEF Return, TypeOK, JobState
<1> QED
  BY <1>1, <1>2, EndKnown, JobReports

\* One file of a running job moves on: the rest stays known.
LEMMA FileReports ==
  ASSUME TypeOK, ReportInv, NEW j \in Jobs, NEW f \in Files, JobAction(j),
         UNCHANGED <<catalog, temp, base, job, calm>>,
         Running(j),
         \A g \in Files \ {f} : stage'[j][g] = stage[j][g] /\ draft'[j][g] = draft[j][g],
         j \in calm /\ Trusted(job[j].policy) => FileKnown(j, f)',
         job[j].pc # "rename"
  PROVE  ReportInv'
<1>1. Others(j)
  BY JobsKeepApart
<1>2. ASSUME j \in calm, Trusted(job[j].policy)
      PROVE  JobKnown(j)'
  <2>1. JobKnown(j)
    BY <1>2 DEF ReportInv
  <2>2. \A g \in Files : FileKnown(j, g)'
    BY <1>1, <1>2, <2>1 DEF JobKnown, FileKnown, Current, Stale, Stamp, Others
  <2>3. job[j].status = "none"
    BY DEF ReportInv, Running
  <2> QED
    BY <2>1, <2>2, <2>3 DEF JobKnown
<1> QED
  BY <1>2, JobReports DEF ReportInv

\* A change of a file disturbs everybody, a slice nobody.
LEMMA EnvironmentReports ==
  ASSUME ReportInv, Environment
  PROVE  ReportInv'
BY DEF ReportInv, Environment, WriteFile, RemoveFile

LEMMA SliceReports ==
  ASSUME ReportInv, NEW r \in Readers, SliceStep(r)
  PROVE  ReportInv'
<1>1. UNCHANGED <<lakeVars, catalog, temp, job, workVars>>
  BY DEF SliceStep, SliceLookup, SliceStat, SliceRead, SliceReturn
<1>2. calm' \cap Jobs = calm \cap Jobs
  BY ProcessesAssumption
     DEF SliceStep, SliceLookup, SliceStat, SliceRead, SliceReturn, Jobs
<1> QED
  BY <1>1, <1>2
     DEF ReportInv, JobKnown, FileKnown, Current, Stale, Stamp, InSync, StampsMatch,
         lakeVars, workVars

\* A job that starts knows nothing yet; one that is dead or collected is not heard of.
LEMMA CallReports ==
  ASSUME Background, ReportInv, NEW j \in Jobs, JobCall(j) \/ Crash(j) \/ IoError(j)
  PROVE  ReportInv'
<1> TypeOK /\ JobAction(j)
  BY DEF Background, JobAction
<1>1. CASE JobCall(j) /\ ~Collect(j)
  <2>1. /\ job[j].pc = "idle" /\ UNCHANGED <<stage, draft>>
        /\ job'[j].status = "none"
        /\ \/ job'[j].pc = "discover" /\ j \in Builders
           \/ job'[j].pc = "load" /\ j \in Doctors
    BY <1>1 DEF JobCall, StartCreate, StartDoctor, workVars, TypeOK
  <2>2. \A f \in Files : stage'[j][f] = "none"
    BY <2>1 DEF Background, DigestInv, WorkDigested
  <2>3. JobKnown(j)'
    BY <2>1, <2>2, ProcessesAssumption DEF JobKnown, FileKnown
  <2> QED
    BY <2>1, <2>3, JobReports
<1>2. CASE Collect(j) \/ Crash(j)
  <2>1. job'[j] = Idle /\ j \notin calm'
    BY <1>2 DEF Collect, Crash, TypeOK
  <2> QED
    BY <2>1, JobReports DEF Idle
<1>3. CASE IoError(j)
  <2>1. Return(j, "ERROR")
    BY <1>3 DEF IoError
  <2>2. job'[j].pc = "failed"
    BY <2>1 DEF Return, TypeOK, JobState
  <2> QED
    BY <2>1, <2>2, EndKnown, JobReports
<1> QED
  BY <1>1, <1>2, <1>3

\* With checks that see every change, an entry that passes them is current, ...
LEMMA HealthyIsCurrent ==
  ASSUME Background, NEW j \in Jobs, NEW f \in Files, Trusted(job[j].policy),
         base[j] = catalog, SameStamp(draft[j][f], Stamp(f)), EntryHealthy(j, f)
  PROVE  f \in catalog.files /\ Current(catalog.entries[f], f)
<1>1. /\ f \in catalog.files
      /\ catalog.entries[f].mtime = disk[f].mtime
      /\ job[j].policy = "blake3" => catalog.entries[f].hash = disk[f].content
  BY DEF EntryHealthy, StampMatches, SameStamp, Stamp
<1>2. CASE FreshStamps
  BY <1>1, <1>2 DEF Background, StampInv, MapsTrue, MapTrue, EntryTrue, TrueOf, Current
<1>3. CASE job[j].policy = "blake3" /\ ~Recurring
  <2>1. disk[f].content # NoContent
    BY ContentsAssumption DEF Background, TypeOK, FileState
  <2> QED
    BY <1>1, <1>3, <2>1
       DEF Background, DigestInv, MapDigested, Digested, Current
<1> QED
  BY <1>1, <1>2, <1>3 DEF Trusted

\* ... and one that fails them shows that the catalog is not in step.
LEMMA StaleIsDrift ==
  ASSUME Background, NEW f \in Files, NEW policy, Trusted(policy), policy = catalog.policy,
         disk[f].present, Stale(policy, f)
  PROVE  ~(InSync /\ StampsMatch)
<1> SUFFICES ASSUME InSync, StampsMatch PROVE FALSE
  OBVIOUS
<1>1. /\ f \in catalog.files
      /\ SameStamp(Stamp(f), catalog.entries[f])
      /\ Current(catalog.entries[f], f)
  BY DEF InSync, StampsMatch
<1>2. policy = "blake3" /\ catalog.entries[f].hash # disk[f].content
  BY <1>1 DEF Stale
<1>3. /\ catalog.entries[f].hash # NoContent
      /\ HashTrue(catalog.entries[f], disk[f])
      /\ ~Recurring => Digested(catalog.entries[f])
  BY <1>1, <1>2 DEF Background, DigestInv, MapDigested
<1>4. CASE FreshStamps
  BY <1>1, <1>2, <1>3, <1>4 DEF HashTrue, SameStamp, Stamp
<1>5. CASE ~Recurring
  BY <1>1, <1>2, <1>3, <1>5 DEF Digested, Current
<1> QED
  BY <1>4, <1>5 DEF Trusted

\* Loading, listing and comparing.
LEMMA DoctorReports ==
  ASSUME Background, ReportInv, NEW j \in Jobs, Discover(j) \/ DoctorStep(j)
  PROVE  ReportInv'
<1> TypeOK /\ JobAction(j)
  BY DEF Background, JobAction, JobStep
<1> Others(j)
  BY JobsKeepApart
<1>1. CASE Refuse(j)
  BY <1>1, RefuseReports
<1>2. CASE LoadMap(j) /\ ~Refuse(j)
  <2>1. /\ job[j].pc = "load" /\ UNCHANGED <<catalog, stage>>
        /\ base'[j] = catalog
        /\ job' = [job EXCEPT ![j] = [@ EXCEPT !.pc = "discover",
                                              !.policy = catalog.policy]]
    BY <1>2 DEF LoadMap, TypeOK
  <2>2. /\ job'[j].pc = "discover" /\ job'[j].policy = catalog.policy
        /\ job'[j].status = job[j].status
    BY <2>1 DEF TypeOK, JobState
  <2>3. job[j].status = "none" /\ \A f \in Files : stage'[j][f] = "none"
    BY <2>1 DEF ReportInv, Background, DigestInv, WorkDigested
  <2>4. JobKnown(j)'
    BY <2>1, <2>2, <2>3 DEF JobKnown, FileKnown
  <2> QED
    BY <2>2, <2>3, <2>4, JobReports
<1>3. CASE Discover(j)
  <2>1. /\ job[j].pc = "discover" /\ UNCHANGED <<catalog, base, draft, calm>>
        /\ job'[j].pc = IF j \in Doctors THEN "diagnose" ELSE "inspect"
        /\ job'[j].policy = job[j].policy /\ job'[j].status = job[j].status
    BY <1>3 DEF Discover, Goto, TypeOK, JobState
  <2>2. /\ job[j].status = "none"
        /\ j \in calm /\ Trusted(job[j].policy) /\ j \in Doctors
             => base[j] = catalog /\ job[j].policy = catalog.policy
    BY <2>1 DEF ReportInv, JobKnown
  <2>3. \A f \in Files :
          stage'[j][f] = IF ~disk[f].present THEN "none"
                         ELSE IF j \in Doctors THEN "found" ELSE "todo"
    BY <1>3 DEF Discover, TypeOK
  <2>4. \A f \in Files : FileKnown(j, f)'
    BY <2>1, <2>3 DEF FileKnown, Others
  <2>5. j \in calm' /\ Trusted(job'[j].policy) => JobKnown(j)'
    BY <2>1, <2>2, <2>4 DEF JobKnown
  <2> QED
    BY <2>1, <2>2, <2>5, JobReports
<1>4. ASSUME NEW f \in Files, StatFile(j, f) PROVE ReportInv'
  <2>1. /\ job[j].pc = "diagnose" /\ stage[j][f] = "found"
        /\ UNCHANGED <<catalog, temp, base, job, calm>>
    BY <1>4 DEF StatFile, IsFirst, AtStage
  <2>2. \A g \in Files \ {f} : stage'[j][g] = stage[j][g] /\ draft'[j][g] = draft[j][g]
    BY <1>4 DEF StatFile, SetStage, SetDraft, TypeOK
  <2>3. ASSUME j \in calm, Trusted(job[j].policy) PROVE FileKnown(j, f)'
    <3>1. FileKnown(j, f)
      BY <2>3 DEF ReportInv, JobKnown
    <3>2. disk[f].present
      BY <2>1, <3>1 DEF FileKnown
    <3> DEFINE e == [Blank EXCEPT !.size = Stamp(f).size, !.mtime = Stamp(f).mtime]
    <3>3. stage'[j][f] = "stated" /\ draft'[j][f] = e
      BY <1>4, <3>2 DEF StatFile, SetStage, SetDraft, TypeOK
    <3>4. e.size = Stamp(f).size /\ e.mtime = Stamp(f).mtime
      BY DEF Blank
    <3>5. Stamp(f)' = Stamp(f)
      BY DEF Stamp, Others
    <3> HIDE DEF e
    <3> QED
      BY <2>1, <3>2, <3>3, <3>4, <3>5 DEF FileKnown, SameStamp, Others
  <2> QED
    BY <2>1, <2>2, <2>3, FileReports DEF Running
<1>5. ASSUME NEW f \in Files, Classify(j, f), ~Refuse(j) PROVE ReportInv'
  <2>1. /\ job[j].pc = "diagnose" /\ stage[j][f] = "stated"
        /\ UNCHANGED <<catalog, temp, base, job, calm>>
    BY <1>5 DEF Classify, IsFirst, AtStage
  <2>2. \A g \in Files \ {f} : stage'[j][g] = stage[j][g] /\ draft'[j][g] = draft[j][g]
    BY <1>5 DEF Classify, SetStage, SetDraft, TypeOK
  <2>3. ASSUME j \in calm, Trusted(job[j].policy) PROVE FileKnown(j, f)'
    <3>1. /\ FileKnown(j, f)
          /\ j \in Doctors => base[j] = catalog /\ job[j].policy = catalog.policy
      BY <2>1, <2>3 DEF ReportInv, JobKnown
    <3>2. j \in Doctors
      BY <2>1 DEF ReportInv
    <3>3. disk[f].present /\ SameStamp(draft[j][f], Stamp(f))
      BY <2>1, <3>1 DEF FileKnown
    <3>4. CASE EntryHealthy(j, f)
      <4>1. stage'[j][f] = "done" /\ draft'[j][f] = catalog.entries[f]
        BY <1>5, <3>1, <3>2, <3>4 DEF Classify, SetStage, SetDraft, TypeOK
      <4>2. f \in catalog.files /\ Current(catalog.entries[f], f)
        BY <2>3, <3>1, <3>2, <3>3, <3>4, HealthyIsCurrent
      <4> QED
        BY <2>1, <3>3, <4>1, <4>2 DEF FileKnown, Current, Others
    <3>5. CASE ~EntryHealthy(j, f)
      <4>1. stage'[j][f] = "todo"
        BY <1>5, <3>5 DEF Classify, SetStage, TypeOK
      <4>2. Stale(job[j].policy, f)
        BY <3>1, <3>2, <3>3, <3>5 DEF Stale, EntryHealthy, StampMatches, SameStamp
      <4>3. Stale(job[j].policy, f)'
        BY <2>1, <4>2 DEF Stale, Stamp, Others
      <4> QED
        BY <2>1, <3>3, <4>1, <4>3 DEF FileKnown, Others
    <3> QED
      BY <3>4, <3>5
  <2> QED
    BY <2>1, <2>2, <2>3, FileReports DEF Running
<1>6. CASE Verdict(j)
  <2>1. /\ job[j].pc = "diagnose" /\ UNCHANGED <<catalog, temp, calm>>
        /\ \A f \in Files : stage[j][f] \notin {"found", "stated"}
    BY <1>6 DEF Verdict, AtStage
  <2>2. CASE Drifted(j) /\ job[j].heal
    <3>1. Goto(j, "inspect") /\ UNCHANGED <<base, stage, draft>>
      BY <1>6, <2>2 DEF Verdict, workVars
    <3>2. /\ job'[j].pc = "inspect" /\ job'[j].policy = job[j].policy
          /\ job'[j].status = job[j].status /\ job[j].status = "none"
      BY <2>1, <3>1 DEF Goto, TypeOK, JobState, ReportInv
    <3>3. j \in calm' /\ Trusted(job'[j].policy) => JobKnown(j)'
      BY <2>1, <3>1, <3>2 DEF ReportInv, JobKnown, FileKnown, Current, Others
    <3> QED
      BY <3>2, <3>3, JobReports
  <2>3. CASE ~(Drifted(j) /\ job[j].heal)
    <3> DEFINE s == IF Drifted(j) THEN "DRIFT_DETECTED" ELSE "HEALTHY"
    <3>1. Return(j, s)
      BY <1>6, <2>3 DEF Verdict
    <3>2. job'[j].pc = "done" /\ job'[j].policy = job[j].policy
      BY <3>1 DEF Return, TypeOK, JobState
    <3>3. InSync' = InSync /\ StampsMatch' = StampsMatch
      BY <2>1 DEF InSync, StampsMatch, Current, Stamp, Others
    <3>4. ASSUME j \in calm, Trusted(job[j].policy) PROVE JobKnown(j)'
      <4>1. /\ \A f \in Files : FileKnown(j, f)
            /\ j \in Doctors => base[j] = catalog /\ job[j].policy = catalog.policy
        BY <2>1, <3>4 DEF ReportInv, JobKnown
      <4>2. j \in Doctors
        BY <2>1 DEF ReportInv
      <4>3. CASE Drifted(j)
        <5>1. CASE \E f \in Files : stage[j][f] = "todo"
          <6>1. PICK f \in Files : stage[j][f] = "todo"
            BY <5>1
          <6>2. disk[f].present /\ Stale(job[j].policy, f)
            BY <2>1, <4>1, <6>1 DEF FileKnown
          <6> QED
            BY <3>1, <3>3, <3>4, <4>1, <4>2, <4>3, <6>2, StaleIsDrift, EndKnown
        <5>2. CASE MissingFiles(j) # {}
          <6>1. PICK f \in Files : f \in base[j].files /\ stage[j][f] = "none"
            BY <5>2 DEF MissingFiles, AtStage
          <6>2. ~disk[f].present /\ f \in catalog.files
            BY <2>1, <4>1, <4>2, <6>1 DEF FileKnown
          <6>3. ~InSync
            BY <6>2 DEF InSync
          <6> QED
            BY <3>1, <3>3, <4>3, <6>3, EndKnown
        <5>3. CASE catalog.state = "absent"
          BY <3>1, <3>3, <4>3, <5>3, EndKnown DEF InSync
        <5> QED
          BY <4>3, <5>1, <5>2, <5>3 DEF Drifted, AtStage
      <4>4. CASE ~Drifted(j)
        <5>1. \A f \in Files :
                /\ stage[j][f] \in {"none", "done"}
                /\ disk[f].present <=> stage[j][f] = "done"
                /\ stage[j][f] = "done" => f \in catalog.files /\ Current(catalog.entries[f], f)
                /\ f \in catalog.files => stage[j][f] # "none"
          <6> TAKE f \in Files
          <6>1. FileKnown(j, f) /\ stage[j][f] \notin {"found", "stated", "todo"}
            BY <2>1, <4>1, <4>4 DEF Drifted, AtStage
          <6>2. f \in catalog.files => stage[j][f] # "none"
            BY <4>1, <4>2, <4>4 DEF Drifted, MissingFiles, AtStage
          <6> QED
            BY <2>1, <6>1, <6>2 DEF FileKnown
        <5>2. catalog.state = "whole" /\ catalog.files \subseteq Files
          BY <4>4 DEF Drifted, Background, RenamesWhole, NeverTorn, TypeOK, Map
        <5>3. InSync
          BY <5>1, <5>2 DEF InSync
        <5> QED
          BY <3>1, <3>3, <4>4, <5>3, EndKnown
      <4> QED
        BY <4>3, <4>4
    <3> QED
      BY <2>1, <3>2, <3>4, JobReports
  <2> QED
    BY <2>2, <2>3
<1> QED
  BY <1>1, <1>2, <1>3, <1>4, <1>5, <1>6 DEF DoctorStep

\* Inspecting a file.
LEMMA InspectReports ==
  ASSUME Background, ReportInv, NEW j \in Jobs, InspectStep(j)
  PROVE  ReportInv'
<1> TypeOK /\ JobAction(j)
  BY DEF Background, JobAction, JobStep
<1> Others(j)
  BY JobsKeepApart
<1>1. PICK f \in Files :
        \/ FileGone(j, f) \/ MeterFile(j, f) \/ HashFile(j, f) \/ ScanFile(j, f)
        \/ LocateFile(j, f) \/ RecheckFile(j, f) \/ RehashFile(j, f)
  BY DEF InspectStep
<1> DEFINE now == disk[f].content
           old == draft[j][f]
<1>2. old \in Entry
  BY DEF TypeOK
<1>3. CASE Refuse(j)
  BY <1>3, RefuseReports
<1>4. ASSUME NEW s \in {"metered", "hashed", "scanned", "located", "rechecked", "done"},
             NEW e, Step(j, f, s, e), job[j].pc = "inspect", disk[f].present,
             j \in calm /\ Trusted(job[j].policy) =>
               /\ s = "scanned" => e.scanned = now
               /\ s \in {"located", "rechecked", "done"} => Current(e, f)
      PROVE  ReportInv'
  <2>1. UNCHANGED <<catalog, temp, base, job, calm>>
    BY <1>4 DEF Step
  <2>2. stage'[j][f] = s /\ draft'[j][f] = e
    BY <1>4 DEF Step, SetStage, SetDraft, TypeOK
  <2>3. \A g \in Files \ {f} : stage'[j][g] = stage[j][g] /\ draft'[j][g] = draft[j][g]
    BY <1>4 DEF Step, SetStage, SetDraft, TypeOK
  <2>4. j \in calm /\ Trusted(job[j].policy) => FileKnown(j, f)'
    BY <1>4, <2>1, <2>2 DEF FileKnown, Current, Others
  <2> QED
    BY <1>4, <2>1, <2>3, <2>4, FileReports DEF Running
<1>5. j \in calm /\ Trusted(job[j].policy) => FileKnown(j, f)
  BY DEF ReportInv, JobKnown
<1>6. CASE ~Refuse(j)
  <2>1. CASE MeterFile(j, f)
    BY <1>4, <2>1 DEF MeterFile, At
  <2>2. CASE HashFile(j, f)
    BY <1>4, <2>2 DEF HashFile, At
  <2>3. CASE ScanFile(j, f)
    <3> DEFINE e == [old EXCEPT !.scanned = now]
               o == [old EXCEPT !.scanned = now, !.located = now]
    <3>1. e.scanned = now /\ Current(o, f)
      BY <1>2 DEF Entry, Current
    <3>2. /\ Step(j, f, "scanned", e) \/ Step(j, f, "located", o)
          /\ job[j].pc = "inspect" /\ disk[f].present
      BY <1>6, <2>3 DEF ScanFile, At
    <3> HIDE DEF e, o
    <3> QED
      BY <1>4, <3>1, <3>2
  <2>4. CASE LocateFile(j, f)
    <3> DEFINE e == [old EXCEPT !.located = now]
    <3>1. e.scanned = old.scanned /\ e.located = now
      BY <1>2 DEF Entry
    <3>2. /\ Step(j, f, "located", e) /\ stage[j][f] = "scanned"
          /\ job[j].pc = "inspect" /\ disk[f].present
      BY <1>6, <2>4 DEF LocateFile, At
    <3> HIDE DEF e
    <3>3. j \in calm /\ Trusted(job[j].policy) => Current(e, f)
      BY <1>5, <3>1, <3>2 DEF FileKnown, Current
    <3> QED
      BY <1>4, <3>2, <3>3
  <2>5. CASE RecheckFile(j, f)
    <3> DEFINE s == IF job[j].policy = "blake3" THEN "rechecked" ELSE "done"
    <3>1. /\ Step(j, f, s, old) /\ stage[j][f] = "located"
          /\ job[j].pc = "inspect" /\ disk[f].present
      BY <1>6, <2>5 DEF RecheckFile, At
    <3>2. j \in calm /\ Trusted(job[j].policy) => Current(old, f)
      BY <1>5, <3>1 DEF FileKnown
    <3> QED
      BY <1>4, <3>1, <3>2
  <2>6. CASE RehashFile(j, f)
    <3>1. /\ Step(j, f, "done", old) /\ stage[j][f] = "rechecked"
          /\ job[j].pc = "inspect" /\ disk[f].present
      BY <1>6, <2>6 DEF RehashFile, At
    <3>2. j \in calm /\ Trusted(job[j].policy) => Current(old, f)
      BY <1>5, <3>1 DEF FileKnown
    <3> QED
      BY <1>4, <3>1, <3>2
  <2> QED
    BY <1>1, <1>6, <2>1, <2>2, <2>3, <2>4, <2>5, <2>6 DEF FileGone
<1> QED
  BY <1>3, <1>6

\* Writing and publishing: the new catalog is what the job knows.
LEMMA SaveReports ==
  ASSUME Background, ReportInv, NEW j \in Jobs, BeginSave(j) \/ FinishSave(j) \/ Publish(j)
  PROVE  ReportInv'
<1> TypeOK /\ JobAction(j)
  BY DEF Background, JobAction, JobStep
<1> Others(j)
  BY JobsKeepApart
<1>1. CASE BeginSave(j)
  <2>1. /\ UNCHANGED <<catalog, base, stage, draft, calm>>
        /\ job[j].pc = "inspect" /\ job'[j].pc = "write"
        /\ job'[j].policy = job[j].policy /\ job'[j].status = job[j].status
        /\ \A f \in Files : stage[j][f] \in {"none", "done"}
    BY <1>1 DEF BeginSave, Goto, workVars, TypeOK, JobState
  <2>2. job[j].status = "none"
    BY <2>1 DEF ReportInv
  <2>3. j \in calm' /\ Trusted(job'[j].policy) => JobKnown(j)'
    BY <2>1, <2>2 DEF ReportInv, JobKnown, FileKnown, Current, Others
  <2> QED
    BY <2>1, <2>2, <2>3, JobReports
<1>2. CASE FinishSave(j)
  <2>1. /\ UNCHANGED <<catalog, base, stage, draft, calm>>
        /\ job[j].pc = "write" /\ job'[j].pc = "rename"
        /\ job'[j].policy = job[j].policy /\ job'[j].status = job[j].status
        /\ temp'[j] = NewMap(j)
    BY <1>2 DEF FinishSave, Goto, workVars, TypeOK, JobState
  <2>2. job[j].status = "none"
    BY <2>1 DEF ReportInv
  <2>3. /\ NewMap(j).files = {f \in Files : stage[j][f] = "done"}
        /\ \A f \in NewMap(j).files : NewMap(j).entries[f] = draft[j][f]
    BY DEF NewMap, AtStage
  <2>4. ASSUME j \in calm', Trusted(job'[j].policy) PROVE JobKnown(j)'
    <3>1. \A f \in Files : FileKnown(j, f)
      BY <2>1, <2>4 DEF ReportInv, JobKnown
    <3>2. \A f \in Files : disk[f].present <=> stage[j][f] = "done"
      BY <2>1, <3>1 DEF FileKnown
    <3>3. \A f \in Files : FileKnown(j, f)'
      BY <2>1, <3>1 DEF FileKnown, Current, Others
    <3>4. \A f \in Files : stage[j][f] = "done" => Current(draft[j][f], f)
      BY <3>1 DEF FileKnown
    <3>5. /\ temp'[j].files = {f \in Files : disk'[f].present}
          /\ \A f \in temp'[j].files :
               /\ temp'[j].entries[f].scanned = disk'[f].content
               /\ temp'[j].entries[f].located = disk'[f].content
      <4>1. temp'[j].files = {f \in Files : disk[f].present}
        BY <2>1, <2>3, <3>2
      <4>2. ASSUME NEW f \in temp'[j].files PROVE Current(temp'[j].entries[f], f)
        <5>1. temp'[j].entries[f] = draft[j][f] /\ stage[j][f] = "done" /\ f \in Files
          BY <2>1, <2>3, <4>2
        <5> QED
          BY <3>4, <5>1
      <4>3. disk' = disk
        BY DEF Others
      <4> QED
        BY <4>1, <4>2, <4>3 DEF Current
    <3> QED
      BY <2>1, <2>2, <3>3, <3>5 DEF JobKnown, Current
  <2> QED
    BY <2>1, <2>2, <2>4, JobReports
<1>3. CASE Publish(j)
  <2> DEFINE s == IF j \in Doctors THEN "HEALED" ELSE "CREATED"
  <2>1. /\ job[j].pc = "rename" /\ catalog' = temp[j] /\ Return(j, s)
        /\ j \in calm' => j \in calm
    BY <1>3 DEF Publish
  <2>2. job'[j].pc = "done" /\ job'[j].policy = job[j].policy
    BY <2>1 DEF Return, TypeOK, JobState
  <2>3. ASSUME j \in calm', Trusted(job'[j].policy) PROVE JobKnown(j)'
    <3>1. /\ temp[j].files = {f \in Files : disk[f].present}
          /\ \A f \in temp[j].files : Current(temp[j].entries[f], f)
      BY <2>1, <2>2, <2>3 DEF ReportInv, JobKnown
    <3>2. temp[j].state = "whole"
      BY <2>1 DEF Background, RenamesWhole
    <3>3. InSync'
      BY <2>1, <3>1, <3>2 DEF InSync, Current, Others
    <3> QED
      BY <2>1, <3>3, EndKnown
  <2> QED
    BY <2>2, <2>3, JobReports
<1> QED
  BY <1>1, <1>2, <1>3

\* Every step keeps the invariant.
LEMMA NextReports ==
  ASSUME Background, ReportInv, [Next]_vars
  PROVE  ReportInv'
<1>1. CASE UNCHANGED vars
  BY <1>1 DEF vars, ReportInv, JobKnown, FileKnown, Current, Stale, Stamp, InSync, StampsMatch
<1>2. ASSUME NEW j \in Jobs, JobStep(j) \/ JobCall(j) \/ Crash(j) \/ IoError(j)
      PROVE  ReportInv'
  BY <1>2, CallReports, DoctorReports, InspectReports, SaveReports DEF JobStep
<1> QED
  BY <1>1, <1>2, EnvironmentReports, SliceReports DEF Next

LEMMA BackgroundHolds == Spec => []Background
<1>1. Init => RenamesWhole
  BY DEF Init, RenamesWhole, NeverTorn, Absent, Torn, Idle
<1>2. TypeOK /\ RenamesWhole /\ [Next]_vars => RenamesWhole'
  BY NextRenames
<1> QED
  BY <1>1, <1>2, DigestInvariant, PTL DEF Spec, Background

\* What create_map and Doctor report of a lake nobody else has changed meanwhile
\* is true, for any number of files, jobs and slices, whatever was published,
\* crashed or failed before (doctor.rs:24-140, inspect.rs:760-840).
THEOREM ReportsAreTrue == Spec => []ReportTrue
<1>1. Init => ReportInv
  BY DEF Init, ReportInv, Idle
<1>2. Background /\ ReportInv /\ [Next]_vars => ReportInv'
  BY NextReports
<1>3. ReportInv => ReportTrue
  BY DEF ReportInv, ReportTrue, JobKnown
<1> QED
  BY <1>1, <1>2, <1>3, BackgroundHolds, PTL DEF Spec
=============================================================================
