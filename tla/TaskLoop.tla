------------------------------- MODULE TaskLoop -------------------------------
(***************************************************************************)
(* How tasks enter and leave the system: the task server                   *)
(* (crs/task_server), the loop of crs/app/app.py that polls its database,  *)
(* the download of the task (crs/app/api_task.py) and the jobs launch_task *)
(* and launch_builds submit.                                               *)
(*                                                                         *)
(* The server and the CRS are processes of their own that share the        *)
(* database.  Jobs are rows that survive a crash of the CRS (module WorkDB *)
(* has their life in full); the cursors, the set of cancelled tasks and    *)
(* the Task objects do not.  A row is a rowid, so the tables are sequences.*)
(***************************************************************************)
EXTENDS Integers, Sequences, SequencesExt, FiniteSets, FiniteSetsExt

CONSTANTS
  Tasks, Sarifs,
  Worlds,      \* the tasks and SARIFs the competition may send in a behaviour
  TaskOf,      \* the task a SARIF belongs to
  SourcesOf,   \* the archives of a task
  Delta,       \* the tasks with a diff
  NoHarness,   \* those whose description says no harness is included
  Harnesses,   \* harnesses in a project
  MaxCrashes, MaxFaults  \* bounds: crashes of the CRS, failed unpackings

TaskLoopAssumption ==
  /\ IsFiniteSet(Tasks) /\ IsFiniteSet(Sarifs)
  /\ Worlds \subseteq SUBSET (Tasks \cup Sarifs) /\ TaskOf \in [Sarifs -> Tasks]
  /\ {MaxCrashes, MaxFaults} \subseteq Nat

VARIABLES
  world,      \* one of Worlds
  taskRows, sarifRows, cancelRows,  \* the tables of the server
  phase,      \* what the loop does next
  cursor,     \* last_task_id, last_sarif_id and last_cancelled_id
  batch,      \* the rows it read and has not submitted
  jobs,       \* table jobs of the WorkDB: status of each
  cancelled,  \* WorkDB.cancelled
  files,      \* archives in the cache directory
  known,      \* tasks whose Task object _task_from_id remembers
  crashes, faults

server == <<taskRows, sarifRows, cancelRows>>
loopVars == <<world, server, phase, cursor, batch, jobs, cancelled, files, known, crashes, faults>>

Start == [tasks |-> 0, sarifs |-> 0, cancelled |-> 0]
AfterNext(rows, n) == {rows[i] : i \in n + 2..Len(rows)} \* Mutant: the first is missed
After(rows, n) == {rows[i] : i \in n + 1..Len(rows)}

(***************************************************************************)
(* A job is its work type, its task, what it is about and, as ANALYZE_DIFF *)
(* is the one type here that is not submitted as unique, its copy.         *)
(***************************************************************************)
Job(type, t, of, copy) == [type |-> type, task |-> t, of |-> of, copy |-> copy]
Unique(type, t) == Job(type, t, "none", 1)
JobsThatAre(status) == {j \in DOMAIN jobs : jobs[j] = status}
Active == JobsThatAre("running") \cup JobsThatAre("launched")
Submitted(new) == [j \in DOMAIN jobs \cup new |-> IF j \in DOMAIN jobs THEN jobs[j] ELSE "submitted"]
NextDiff(t) ==
  Job("ANALYZE_DIFF", t, "none",
      1 + Cardinality({j \in DOMAIN jobs : j.type = "ANALYZE_DIFF" /\ j.task = t}))

Init ==
  /\ world \in Worlds
  /\ taskRows = <<>> /\ sarifRows = <<>> /\ cancelRows = <<>>
  /\ phase = "tasks" /\ cursor = Start /\ batch = {}
  /\ jobs = <<>> /\ cancelled = {} /\ files = {} /\ known = {}
  /\ crashes = 0 /\ faults = 0

(***************************************************************************)
(* The task server.  A message with a task the table has is refused whole; *)
(* a second cancellation of the same task leaves no row.                   *)
(***************************************************************************)
Appended(rows, new) == rows \o SetToSeq(new)

PostTasks(new) ==
  /\ new # {} /\ new \cap ToSet(taskRows) = {}
  /\ taskRows' = Appended(taskRows, new)
  /\ UNCHANGED <<world, sarifRows, cancelRows, phase, cursor, batch, jobs, cancelled, files, known,
                 crashes, faults>>

PostSarif(s) ==
  /\ s \notin ToSet(sarifRows)
  /\ sarifRows' = Append(sarifRows, s)
  /\ UNCHANGED <<world, taskRows, cancelRows, phase, cursor, batch, jobs, cancelled, files, known,
                 crashes, faults>>

Cancel(ids) ==
  /\ cancelRows' = Appended(cancelRows, ids \ ToSet(cancelRows))
  /\ cancelRows' # cancelRows
  /\ UNCHANGED <<world, taskRows, sarifRows, phase, cursor, batch, jobs, cancelled, files, known,
                 crashes, faults>>

DeleteTask(t) == Cancel({t})
DeleteAll == Cancel(ToSet(taskRows) \cup ToSet(sarifRows))

(***************************************************************************)
(* CRS.loop: three polls in turn.  The submissions of a poll are awaited   *)
(* before the next one; cancel_tasks never waits.                          *)
(***************************************************************************)
ReadTasks ==
  /\ phase = "tasks" /\ batch = {}
  /\ batch' = {Unique("LAUNCH_TASK", t) : t \in After(taskRows, cursor.tasks)}
  /\ cursor' = [cursor EXCEPT !.tasks = Len(taskRows)]
  /\ phase' = IF batch' = {} THEN "sarifs" ELSE phase
  /\ UNCHANGED <<world, server, jobs, cancelled, files, known, crashes, faults>>

ReadSarifs ==
  /\ phase = "sarifs" /\ batch = {}
  /\ batch' = {Job("LAUNCH_SARIF", TaskOf[s], s, 1) : s \in After(sarifRows, cursor.sarifs)}
  /\ cursor' = [cursor EXCEPT !.sarifs = Len(sarifRows)]
  /\ phase' = IF batch' = {} THEN "cancelled" ELSE phase
  /\ UNCHANGED <<world, server, jobs, cancelled, files, known, crashes, faults>>

SubmitBatch ==
  /\ batch # {}
  /\ jobs' = Submitted(batch) /\ batch' = {}
  /\ phase' = IF phase = "tasks" THEN "sarifs" ELSE "cancelled"
  /\ UNCHANGED <<world, server, cursor, cancelled, files, known, crashes, faults>>

RememberedWhileOpen(ids) == \* Mutant: a cancellation reaches the jobs that are there
  cancelled \cup {i \in ids : \E j \in DOMAIN jobs : j.task = i}
Remembered(ids) == cancelled \cup ids

ReadCancelled ==
  /\ phase = "cancelled"
  /\ LET ids == After(cancelRows, cursor.cancelled)
     IN /\ cancelled' = Remembered(ids)
        /\ jobs' = [j \in DOMAIN jobs |->
                      IF j \in Active /\ j.task \in ids THEN "cancelled" ELSE jobs[j]]
  /\ cursor' = [cursor EXCEPT !.cancelled = Len(cancelRows)]
  /\ phase' = "tasks"
  /\ UNCHANGED <<world, server, batch, files, known, crashes, faults>>

(***************************************************************************)
(* The jobs.  task_from_id needs every archive of the task; a download is  *)
(* tried until it succeeds, an archive that cannot be unpacked fails the   *)
(* job, and only a Task that could be made is remembered.                  *)
(***************************************************************************)
\* One schedule_step starts whatever is queued (the limits of these types are wide).
ScheduleStep ==
  /\ JobsThatAre("submitted") # {}
  /\ jobs' = [j \in DOMAIN jobs |->
                IF jobs[j] # "submitted" THEN jobs[j]
                ELSE IF j.task \in cancelled THEN "cancelled" ELSE "running"]
  /\ UNCHANGED <<world, server, phase, cursor, batch, cancelled, files, known, crashes, faults>>

FetchFile(f) ==
  /\ f \notin files
  /\ \E j \in JobsThatAre("running") : f \in SourcesOf[j.task] /\ j.task \notin known
  /\ files' = files \cup {f}
  /\ UNCHANGED <<world, server, phase, cursor, batch, jobs, cancelled, known, crashes, faults>>

TaskFromId(t) ==
  /\ t \in ToSet(taskRows) \ known
  /\ \E j \in JobsThatAre("running") : j.task = t
  /\ SourcesOf[t] \subseteq files
  /\ known' = known \cup {t}
  /\ UNCHANGED <<world, server, phase, cursor, batch, jobs, cancelled, files, crashes, faults>>

NoTask(j) ==
  /\ jobs[j] = "running" /\ j.task \notin known
  /\ \/ j.task \notin ToSet(taskRows)     \* missing task data
        /\ jobs' = [jobs EXCEPT ![j] = "failed"] /\ UNCHANGED faults
     \/ SourcesOf[j.task] \subseteq files /\ faults < MaxFaults
        /\ faults' = faults + 1
        /\ jobs' = [jobs EXCEPT ![j] = "submitted"]
  /\ UNCHANGED <<world, server, phase, cursor, batch, cancelled, files, known, crashes>>

\* LAUNCH_INFER is for C projects only; LAUNCH_AINALYSIS stands for both kinds of analysis.
Analyses(t) ==
  IF t \in Delta THEN {NextDiff(t)}
  ELSE {Unique(type, t) : type \in {"LAUNCH_INFER", "LAUNCH_AINALYSIS"}}
Children(t) ==
  {Unique(type, t) : type \in {"LAUNCH_TASK_SCOPE", "LAUNCH_BUILDS", "LAUNCH_BGWORKERS"}}

\* gather() puts the events of all these submissions in one batch of WorkDB, so the
\* rows are there together; that the job itself is done is written later ("launched").
LaunchTask(t) ==
  LET j == Unique("LAUNCH_TASK", t)
  IN /\ j \in JobsThatAre("running") /\ t \in known
     /\ jobs' = [(IF t \in NoHarness THEN jobs ELSE Submitted(Children(t) \cup Analyses(t)))
                   EXCEPT ![j] = "launched"]
     /\ UNCHANGED <<world, server, phase, cursor, batch, cancelled, files, known, crashes, faults>>

LaunchBuilds(t) == \* a project whose harnesses cannot be found has nothing to analyze
  LET j == Unique("LAUNCH_BUILDS", t)
  IN /\ j \in JobsThatAre("running") /\ t \in known
     /\ \/ jobs' = [Submitted({Job("ANALYZE_HARNESS", t, h, 1) : h \in Harnesses})
                      EXCEPT ![j] = "launched"] /\ UNCHANGED faults
        \/ faults < MaxFaults /\ faults' = faults + 1
           /\ jobs' = [jobs EXCEPT ![j] = "launched"]
     /\ UNCHANGED <<world, server, phase, cursor, batch, cancelled, files, known, crashes>>

Ends(j) == \* the analyses and workers run on: nothing here waits for their end
  /\ \/ jobs[j] = "launched"
     \/ jobs[j] = "running" /\ j.type = "LAUNCH_SARIF" /\ j.task \in known
  /\ jobs' = [jobs EXCEPT ![j] = "done"]
  /\ UNCHANGED <<world, server, phase, cursor, batch, cancelled, files, known, crashes, faults>>

Crash ==
  /\ crashes < MaxCrashes /\ crashes' = crashes + 1
  /\ phase' = "tasks" /\ cursor' = Start /\ batch' = {}
  /\ cancelled' = {} /\ known' = {}
  /\ jobs' = [j \in DOMAIN jobs |-> IF jobs[j] \in {"running", "launched"} THEN "submitted"
                                    ELSE jobs[j]]
  /\ UNCHANGED <<world, server, files, faults>>

Webhook ==
  \/ \E new \in SUBSET (world \cap Tasks) : PostTasks(new)
  \/ \E s \in world \cap Sarifs : PostSarif(s)
  \/ \E t \in world \cap Tasks : DeleteTask(t)
  \/ DeleteAll
Loop == ReadTasks \/ ReadSarifs \/ SubmitBatch \/ ReadCancelled
Work ==
  \/ ScheduleStep
  \/ \E j \in DOMAIN jobs : NoTask(j) \/ Ends(j)
  \/ \E t \in Tasks : TaskFromId(t) \/ LaunchTask(t) \/ LaunchBuilds(t)
  \/ \E t \in Tasks : \E f \in SourcesOf[t] : FetchFile(f)
Next == Webhook \/ Loop \/ Work \/ Crash

\* The loop polls for ever and WorkDB leaves no job waiting that could go on.
Fairness == WF_loopVars(Loop) /\ WF_loopVars(Work)
LoopSpec == Init /\ [][Next]_loopVars /\ Fairness

(***************************************************************************)
(* Properties.                                                             *)
(***************************************************************************)
\* Rows the cursors have passed are never lost, whatever is added while the loop awaits
\* its submissions and wherever it crashes: each has its job or is about to get it, a
\* task that was launched has its builds, workers and analyses, and of a task whose
\* cancellation was polled nothing runs, not even what was submitted afterwards.
PollsKeepUp ==
  /\ \A i \in 1..cursor.tasks : Unique("LAUNCH_TASK", taskRows[i]) \in DOMAIN jobs \cup batch
  /\ \A i \in 1..cursor.sarifs :
       Job("LAUNCH_SARIF", TaskOf[sarifRows[i]], sarifRows[i], 1) \in DOMAIN jobs \cup batch
  /\ \A j \in DOMAIN jobs : j.type = "LAUNCH_TASK" /\ jobs[j] = "done" /\ j.task \notin NoHarness =>
       Children(j.task) \cup {[a EXCEPT !.copy = 1] : a \in Analyses(j.task)} \subseteq DOMAIN jobs
  /\ \A i \in 1..cursor.cancelled : ~\E j \in Active : j.task = cancelRows[i]

\* Whoever is told "OK" by the server is served in the end, over any crash of the CRS: a
\* task is launched unless it is cancelled, and a cancelled task comes to rest for good.
TasksSettle ==
  \A t \in Tasks :
    /\ t \in ToSet(taskRows) ~>
         \/ t \in ToSet(cancelRows) \cup NoHarness
         \/ Children(t) \subseteq DOMAIN jobs
    /\ t \in ToSet(cancelRows) ~> [](~\E j \in Active : j.task = t)

\* "Cancel Task": once a job of a task was cancelled none of its jobs starts again.  One
\* does after a restart, between the start of WorkDB's loop and the first poll.
CancelledStaysQuiet ==
  [][\A j \in JobsThatAre("cancelled") : ~\E k \in Active' \ Active : k.task = j.task]_loopVars
=============================================================================
