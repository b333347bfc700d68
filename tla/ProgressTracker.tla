-------------------------- MODULE ProgressTracker --------------------------
(***************************************************************************)
(* MapProgressTracker (src/src/engine/map/model.rs): the threads that      *)
(* inspect the files of a lake count them and now and then draw a line.    *)
(* Files and bytes are two counters, the time is taken before the lock, so *)
(* what a thread draws may be old when it is drawn.  Once a file could not *)
(* be inspected, the pool may leave out files it has not begun.            *)
(***************************************************************************)
EXTENDS Integers, Sequences, FiniteSets

CONSTANTS
  Workers,  \* one for each file
  Sizes,    \* bytes a file may have
  Throttle, \* time between two lines, in ticks
  MaxTime   \* bound: ticks

ASSUME TrackerAssumption ==
  /\ IsFiniteSet(Workers) /\ Workers # {}
  /\ Sizes \subseteq Nat /\ Throttle \in Nat \ {0} /\ MaxTime \in Nat

VARIABLES
  show,   \* show_progress
  size,   \* worker -> bytes of its file
  broken, \* the workers whose file cannot be inspected
  files,  \* processed_files
  bytes,  \* processed_bytes
  clock,
  last,   \* last_render_time
  worker, \* worker -> where it is and what it has read
  lines   \* what is on the terminal

trackerVars == <<show, size, broken, files, bytes, clock, last, worker, lines>>

total_files == Cardinality(Workers)

WorkerState == [pc: {"inspect", "counted", "added", "timed", "done", "left"},
                files: 0 .. total_files, bytes: Nat, now: 0 .. MaxTime]
Line == [files: 1 .. total_files, bytes: Nat, now: 0 .. MaxTime]

TrackerTypeOK ==
  /\ show \in BOOLEAN
  /\ size \in [Workers -> Sizes]
  /\ broken \subseteq Workers
  /\ files \in 0 .. total_files
  /\ bytes \in Nat
  /\ clock \in 0 .. MaxTime /\ last \in 0 .. clock
  /\ worker \in [Workers -> WorkerState]
  /\ lines \in Seq(Line)
-----------------------------------------------------------------------------
Tick ==
  /\ clock < MaxTime
  /\ clock' = clock + 1
  /\ UNCHANGED <<show, size, broken, files, bytes, last, worker, lines>>

\* Mutated: the counter is read again after it was raised.
CountFileAgain(w) ==
  /\ worker[w].pc \in {"inspect", "recount"}
  /\ IF worker[w].pc = "inspect"
       THEN files' = files + 1 /\ worker' = [worker EXCEPT ![w].pc = "recount"]
       ELSE worker' = [worker EXCEPT ![w].pc = "counted", ![w].files = files] /\ UNCHANGED files
  /\ UNCHANGED <<show, size, broken, bytes, clock, last, lines>>

\* Mutated: what the counter was before it was raised.
CountFileBefore(w) ==
  /\ worker[w].pc = "inspect"
  /\ files' = files + 1
  /\ worker' = [worker EXCEPT ![w].pc = "counted", ![w].files = files]
  /\ UNCHANGED <<show, size, broken, bytes, clock, last, lines>>

\* A file that was inspected is counted, with or without success.
CountFile(w) ==
  /\ worker[w].pc = "inspect"
  /\ files' = files + 1
  /\ worker' = [worker EXCEPT ![w].pc = "counted", ![w].files = files']
  /\ UNCHANGED <<show, size, broken, bytes, clock, last, lines>>

AddBytes(w) ==
  /\ worker[w].pc = "counted"
  /\ bytes' = bytes + size[w]
  /\ worker' = [worker EXCEPT ![w].pc = IF show THEN "added" ELSE "done", ![w].bytes = bytes']
  /\ UNCHANGED <<show, size, broken, files, clock, last, lines>>

TakeTime(w) ==
  /\ worker[w].pc = "added"
  /\ worker' = [worker EXCEPT ![w].pc = "timed", ![w].now = clock]
  /\ UNCHANGED <<show, size, broken, files, bytes, clock, last, lines>>

\* duration_since saturates: a lock that was waited for may be younger.
Since(now) == IF now > last THEN now - last ELSE 0

\* Mutated: the throttle holds for the last line as well.
RenderThrottled(w) ==
  /\ worker[w].pc = "timed"
  /\ IF Since(worker[w].now) >= Throttle
       THEN /\ last' = worker[w].now
            /\ lines' = Append(lines, [files |-> worker[w].files, bytes |-> worker[w].bytes,
                                       now |-> worker[w].now])
       ELSE UNCHANGED <<last, lines>>
  /\ worker' = [worker EXCEPT ![w].pc = "done"]
  /\ UNCHANGED <<show, size, broken, files, bytes, clock>>

\* Mutated: the time of the last line is kept by those who draw none, too.
RenderForgetful(w) ==
  /\ worker[w].pc = "timed"
  /\ last' = worker[w].now
  /\ IF Since(worker[w].now) >= Throttle \/ worker[w].files = total_files
       THEN lines' = Append(lines, [files |-> worker[w].files, bytes |-> worker[w].bytes,
                                    now |-> worker[w].now])
       ELSE UNCHANGED lines
  /\ worker' = [worker EXCEPT ![w].pc = "done"]
  /\ UNCHANGED <<show, size, broken, files, bytes, clock>>

\* Under the lock: a line at most every 30 ms, and one for the last file.
Render(w) ==
  /\ worker[w].pc = "timed"
  /\ IF Since(worker[w].now) >= Throttle \/ worker[w].files = total_files
       THEN /\ last' = worker[w].now
            /\ lines' = Append(lines, [files |-> worker[w].files, bytes |-> worker[w].bytes,
                                       now |-> worker[w].now])
       ELSE UNCHANGED <<last, lines>>
  /\ worker' = [worker EXCEPT ![w].pc = "done"]
  /\ UNCHANGED <<show, size, broken, files, bytes, clock>>

Failed == \E w \in broken : worker[w].pc = "done"

\* collect into a Result: after an error the pool need not begin the other files.
LeaveOut(w) ==
  /\ worker[w].pc = "inspect"
  /\ Failed
  /\ worker' = [worker EXCEPT ![w].pc = "left"]
  /\ UNCHANGED <<show, size, broken, files, bytes, clock, last, lines>>

\* No file is inspected yet.
TrackerStart ==
  /\ files = 0 /\ bytes = 0
  /\ clock = 0 /\ last = 0
  /\ worker = [w \in Workers |-> [pc |-> "inspect", files |-> 0, bytes |-> 0, now |-> 0]]
  /\ lines = <<>>

TrackerInit ==
  /\ show \in BOOLEAN /\ size \in [Workers -> Sizes] /\ broken \in SUBSET Workers
  /\ TrackerStart

InspectFile(w) == CountFile(w) \/ AddBytes(w) \/ TakeTime(w) \/ Render(w)
RunFile(w) == InspectFile(w) \/ LeaveOut(w)

TrackerNext == Tick \/ \E w \in Workers : RunFile(w)

TrackerSpec == TrackerInit /\ [][TrackerNext]_trackerVars

\* The threads of the pool go on; a file is inspected or left out.
TrackerFairSpec == TrackerSpec /\ \A w \in Workers : WF_trackerVars(RunFile(w))
-----------------------------------------------------------------------------
(* Properties. *)

Drawn(n) == {i \in DOMAIN lines : lines[i].files = n}
LeftOut == \E w \in Workers : worker[w].pc = "left"
Finished == \A w \in Workers : worker[w].pc \in {"done", "left"}

\* However the threads interleave, no number of files is drawn twice, and when
\* all have ended a tracker that is shown has drawn the line that ends the bar
\* exactly once, and never if a file was left out (model.rs:320-335, 354).
DoneOnce ==
  /\ \A n \in 1 .. total_files : Cardinality(Drawn(n)) <= 1
  /\ Finished => Cardinality(Drawn(total_files)) = IF show /\ ~LeftOut THEN 1 ELSE 0

\* A line that does not end the bar is at least 30 ms younger than the one
\* before it, whoever drew that and however long its thread waited for the
\* lock (model.rs:330-333).
LinesApart ==
  \A i \in DOMAIN lines :
    i > 1 /\ lines[i].files < total_files => lines[i].now >= lines[i - 1].now + Throttle

\* The lines on the terminal: none is drawn twice, the last one exactly once, the
\* others not too close together (model.rs:320-354).
BarRight == DoneOnce /\ LinesApart

\* The job ends, whatever fails, and with it the bar: drawn to its end unless a
\* file was left out after an error (model.rs:320-335, doctor.rs:120-129).
BarEnds == <>(Finished /\ (show /\ ~LeftOut => Drawn(total_files) # {}))
=============================================================================
