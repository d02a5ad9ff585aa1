------------------------------- MODULE WorkDB -------------------------------
(***************************************************************************)
(* The job queue of the CRS: crs/common/workdb.py, class WorkDB.           *)
(*                                                                         *)
(* One asyncio loop accepts submissions, writes them to the jobs table,    *)
(* starts a coroutine per job within the limits of its worktype, retries   *)
(* what fails and writes status changes back.  Memory is ahead of the      *)
(* table; a crash loses memory and keeps the committed rows.               *)
(*                                                                         *)
(* One action is what the code does between two awaits.  schedule_step has *)
(* no await: while control is inside it no other coroutine takes a step.   *)
(***************************************************************************)
EXTENDS Naturals, Sequences, FiniteSets, Functions

CONSTANTS
  Tasks,          \* the task ids of the competition
  WorkTypes,      \* the members of the WorkType enumeration
  Requests,       \* the submissions callers may make
  MaxJobs,        \* bound: rowids handed out in one incarnation
  MaxCrashes,     \* bound: process crashes
  MaxFailures,    \* bound: failures of a job whose worktype retries for ever
  Limit,          \* WorkDesc.limit of each worktype
  BatchLimit,     \* WorkDesc.batchsize; a value >= Limit stands for None
  Attempts,       \* WorkDesc.attempts; 0 stands for None
  BATCHSIZE,      \* rows per executemany in process_events
  Cancellable,    \* tasks that may be cancelled
  Expirable,      \* requests whose expiration may pass
  Interruptible,  \* worktypes whose callback may raise CancelledError itself
  AwaitingCallers \* TRUE if equal unique submissions are never in flight twice

ASSUME RequestsAssumption ==
  /\ Requests # {}
  /\ \A r \in Requests : /\ r.task \in Tasks
                         /\ r.worktype \in WorkTypes
                         /\ r.priority \in Nat
                         /\ r.unique \in BOOLEAN
ASSUME BoundsAssumption ==
  /\ MaxJobs \in Nat /\ MaxCrashes \in Nat /\ MaxFailures \in Nat
  /\ Limit \in [WorkTypes -> Nat \ {0}]
  /\ BatchLimit \in [WorkTypes -> Nat \ {0}]
  /\ Attempts \in [WorkTypes -> Nat]
  /\ BATCHSIZE \in Nat \ {0}
  /\ Cancellable \subseteq Tasks
  /\ Expirable \subseteq Requests
  /\ Interruptible \subseteq WorkTypes
  /\ AwaitingCallers \in BOOLEAN

JobIds   == 1..MaxJobs
TaskKeys == Tasks \X WorkTypes          \* keys of task_work_counts
Terminal == {"DONE", "FAILED", "EXPIRED", "CANCELLED"}
Statuses == {"SUBMITTED", "RUNNING"} \cup Terminal
Absent   == "absent"                    \* no such row, no such Job object
AnyRequest == CHOOSE r \in Requests : TRUE

VARIABLES
  (* the jobs table, as committed *)
  row, rowFailures,
  (* Job objects in memory *)
  req, status, failures, nextJobid,
  (* submissions waiting for process_events, jobs waiting to be written *)
  eventQueue, dirty, wakeup,
  (* scheduling: job_queues, Scheduler.waiting/.running, work counts *)
  jobQueue, waiting, running, workCounts, taskWorkCounts,
  (* where loop() is, and the locals of process_events and schedule_step *)
  pc, events, replies, pendingAdds, flushing, todo,
  (* the coroutine of each started job, and the ones with a cancel pending *)
  co, cancelling, cancelled,
  (* the environment: time, the cancellations in the task DB, crashes, and
     the submissions whose caller was answered *)
  expired, taskCancels, crashes, answered

tableVars == <<row, rowFailures>>
jobVars   == <<req, status, failures, nextJobid>>
queueVars == <<jobQueue, waiting>>
slotVars  == <<running, workCounts, taskWorkCounts>>
loopVars  == <<events, replies, pendingAdds, flushing, todo>>
coVars    == <<co, cancelling>>
envVars   == <<expired, taskCancels, crashes, answered>>
vars == <<tableVars, jobVars, eventQueue, dirty, wakeup, queueVars, slotVars,
          pc, loopVars, coVars, cancelled, envVars>>

-----------------------------------------------------------------------------
Stored == {id \in JobIds : row[id] # Absent}

\* What setup picks up.  Mutant: RUNNING rows are forgotten.
OnlySubmitted == {id \in JobIds : row[id] = "SUBMITTED"}
Unfinished == {id \in JobIds : row[id] \in {"SUBMITTED", "RUNNING"}}

KeyOf(id) == <<req[id].task, req[id].worktype>>

\* What the SELECT of a unique submission compares.
SameWork(r, s) == /\ r.task = s.task
                  /\ r.worktype = s.worktype
                  /\ r.data = s.data

QueueOf(key) == {id \in jobQueue : KeyOf(id) = key}

\* Jobs the heap may hand out first: ties of priority are broken arbitrarily.
Heads(key) == {id \in QueueOf(key) :
                 \A j \in QueueOf(key) : req[id].priority <= req[j].priority}

Exhausted(w, n) == Attempts[w] # 0 /\ n >= Attempts[w]

\* Other coroutines run only while loop() is suspended at an await.
Interleaved == pc \notin {"down", "schedule"}

\* _add_job: onto the heap, and one more slot wanted from the scheduler.
AddJob(id) ==
  /\ jobQueue' = jobQueue \cup {id}
  /\ waiting' = [waiting EXCEPT ![KeyOf(id)] = @ + 1]

-----------------------------------------------------------------------------
Init ==
  /\ row = [id \in JobIds |-> Absent]
  /\ rowFailures = [id \in JobIds |-> 0]
  /\ req = [id \in JobIds |-> AnyRequest]
  /\ status = [id \in JobIds |-> Absent]
  /\ failures = [id \in JobIds |-> 0]
  /\ nextJobid = 1
  /\ eventQueue = <<>> /\ dirty = {} /\ wakeup = FALSE
  /\ jobQueue = {} /\ waiting = [k \in TaskKeys |-> 0]
  /\ running = [k \in TaskKeys |-> 0]
  /\ workCounts = [w \in WorkTypes |-> 0]
  /\ taskWorkCounts = [k \in TaskKeys |-> 0]
  /\ pc = "down"
  /\ events = <<>> /\ replies = {} /\ pendingAdds = {} /\ flushing = {}
  /\ todo = {}
  /\ co = [id \in JobIds |-> "none"] /\ cancelling = {} /\ cancelled = {}
  /\ expired = {} /\ taskCancels = {} /\ crashes = 0 /\ answered = {}

(***************************************************************************)
(* The callers.                                                            *)
(***************************************************************************)
InFlight == Range(eventQueue) \cup replies

\* submit_job, up to its await of the future.
SubmitJob(r) ==
  /\ Interleaved
  /\ nextJobid \in JobIds
  /\ AwaitingCallers /\ r.unique =>
       \A id \in InFlight : ~SameWork(req[id], r)
  /\ req' = [req EXCEPT ![nextJobid] = r]
  /\ status' = [status EXCEPT ![nextJobid] = "SUBMITTED"]
  /\ failures' = [failures EXCEPT ![nextJobid] = 0]
  /\ nextJobid' = nextJobid + 1
  /\ eventQueue' = Append(eventQueue, nextJobid)
  /\ wakeup' = TRUE
  /\ UNCHANGED <<tableVars, dirty, queueVars, slotVars, pc, loopVars, coVars,
                 cancelled, envVars>>

\* The task server records a cancellation (it survives a restart).
RequestCancel(t) ==
  /\ t \in Cancellable \ taskCancels
  /\ taskCancels' = taskCancels \cup {t}
  /\ UNCHANGED <<tableVars, jobVars, eventQueue, dirty, wakeup, queueVars,
                 slotVars, pc, loopVars, coVars, cancelled, expired, crashes,
                 answered>>

\* The coroutines cancel_tasks cancels: all of running_tasks[task_id].
\* Mutant: only those whose callback has been entered.
CancelleesInCallback(t) == {id \in JobIds : co[id] = "running" /\ req[id].task = t}
Cancellees(t) == {id \in JobIds : co[id] # "none" /\ req[id].task = t}

\* The CRS loop reads the recorded cancellation and calls cancel_tasks.
CancelTasks(t) ==
  /\ Interleaved
  /\ t \in taskCancels \ cancelled
  /\ cancelled' = cancelled \cup {t}
  /\ cancelling' = cancelling \cup Cancellees(t)
  /\ UNCHANGED <<tableVars, jobVars, eventQueue, dirty, wakeup, queueVars,
                 slotVars, pc, loopVars, co, envVars>>

\* Time passes the expiration of a job.
Expire(id) ==
  /\ pc # "schedule"
  /\ id \notin expired /\ req[id] \in Expirable
  /\ status[id] \in {"SUBMITTED", "RUNNING"} \/ id \in Unfinished
  /\ expired' = expired \cup {id}
  /\ UNCHANGED <<tableVars, jobVars, eventQueue, dirty, wakeup, queueVars,
                 slotVars, pc, loopVars, coVars, cancelled, taskCancels,
                 crashes, answered>>

(***************************************************************************)
(* loop(): setup, then process_events and schedule_step for ever.          *)
(***************************************************************************)
\* The first rowid after a start: max(id) + 1.
FirstFreeId == CHOOSE n \in 1..(MaxJobs + 1) :
                 /\ \A id \in Stored : id < n
                 /\ n = 1 \/ n - 1 \in Stored

\* The failure_count a hydrated Job starts with.  Mutant: a fresh count.
FreshFailures(id) == 0
HydratedFailures(id) == IF id \in Unfinished THEN rowFailures[id] ELSE 0

\* setup: RUNNING rows go back to SUBMITTED, the unfinished jobs are queued.
\* (The UPDATE is committed with the next batch; losing it changes nothing,
\* for the next setup repeats it.)
Setup ==
  /\ pc = "down"
  /\ row' = [id \in JobIds |-> IF id \in Unfinished THEN "SUBMITTED" ELSE row[id]]
  /\ status' = [id \in JobIds |->
                  IF id \in Unfinished THEN "SUBMITTED" ELSE Absent]
  /\ failures' = [id \in JobIds |-> HydratedFailures(id)]
  /\ nextJobid' = FirstFreeId
  /\ jobQueue' = Unfinished
  /\ waiting' = [k \in TaskKeys |-> Cardinality({id \in Unfinished : KeyOf(id) = k})]
  /\ pc' = "loop"
  /\ UNCHANGED <<rowFailures, req, eventQueue, dirty, wakeup, slotVars,
                 loopVars, coVars, cancelled, envVars>>

\* process_events: both queues are swapped out and the wakeup event cleared.
TakeEvents ==
  /\ \/ pc = "loop"
     \/ pc = "wait" /\ wakeup
  /\ events' = eventQueue
  /\ replies' = Range(eventQueue)
  /\ eventQueue' = <<>>
  /\ flushing' = dirty
  /\ dirty' = {}
  /\ wakeup' = FALSE
  /\ pc' = "events"
  /\ UNCHANGED <<tableVars, jobVars, queueVars, slotVars, pendingAdds, todo,
                 coVars, cancelled, envVars>>

\* The SELECT that makes a unique submission a no-op.
\* Mutant: the work itself is not compared.
DuplicateOfTask(id) ==
  req[id].unique /\ \E j \in Stored : KeyOf(j) = KeyOf(id)
Duplicate(id) == req[id].unique /\ \E j \in Stored : SameWork(req[j], req[id])

\* One AddJobEvent: queued, unless it is unique and a row says the same.
HandleEvent ==
  /\ pc = "events" /\ events # <<>> /\ Cardinality(pendingAdds) < BATCHSIZE
  /\ LET id == Head(events) IN
     \/ /\ Duplicate(id)
        /\ status' = [status EXCEPT ![id] = Absent]
        /\ UNCHANGED <<queueVars, pendingAdds>>
     \/ /\ ~Duplicate(id)
        /\ AddJob(id)
        /\ pendingAdds' = pendingAdds \cup {id}
        /\ UNCHANGED status
  /\ events' = Tail(events)
  /\ UNCHANGED <<tableVars, req, failures, nextJobid, eventQueue, dirty, wakeup,
                 slotVars, pc, replies, flushing, todo, coVars, cancelled,
                 envVars>>

\* The values process_events writes for a set of jobs.
\* Mutants: nothing is committed; the failure count is left out.
WriteNothing(ids) == UNCHANGED tableVars
WriteStatusOnly(ids) ==
  /\ row' = [id \in JobIds |-> IF id \in ids THEN status[id] ELSE row[id]]
  /\ UNCHANGED rowFailures
Write(ids) ==
  /\ row' = [id \in JobIds |-> IF id \in ids THEN status[id] ELSE row[id]]
  /\ rowFailures' = [id \in JobIds |->
                       IF id \in ids THEN failures[id] ELSE rowFailures[id]]

\* commit_adds: a full batch, or what is left of the events.
CommitAdds ==
  /\ pc = "events" /\ pendingAdds # {}
  /\ events = <<>> \/ Cardinality(pendingAdds) >= BATCHSIZE
  /\ Write(pendingAdds)
  /\ pendingAdds' = {}
  /\ UNCHANGED <<jobVars, eventQueue, dirty, wakeup, queueVars, slotVars, pc,
                 events, replies, flushing, todo, coVars, cancelled, envVars>>

\* One chunk of status updates; an UPDATE touches only rows that exist.
FlushDirty ==
  /\ pc = "events" /\ events = <<>> /\ pendingAdds = {}
  /\ \E chunk \in SUBSET flushing :
       /\ chunk # {}
       /\ chunk = flushing \/ Cardinality(chunk) = BATCHSIZE
       /\ Cardinality(chunk) <= BATCHSIZE
       /\ Write(chunk \cap Stored)
       /\ flushing' = flushing \ chunk
  /\ UNCHANGED <<jobVars, eventQueue, dirty, wakeup, queueVars, slotVars, pc,
                 events, replies, pendingAdds, todo, coVars, cancelled, envVars>>

\* The futures are resolved and control enters schedule_step.
AnswerCallers ==
  /\ pc = "events" /\ events = <<>> /\ pendingAdds = {} /\ flushing = {}
  /\ answered' = answered \cup {<<id, req[id]>> : id \in replies}
  /\ replies' = {}
  /\ todo' = WorkTypes
  /\ pc' = "schedule"
  /\ UNCHANGED <<tableVars, jobVars, eventQueue, dirty, wakeup, queueVars,
                 slotVars, events, pendingAdds, flushing, coVars, cancelled,
                 expired, taskCancels, crashes>>

\* The limit check of schedule_step.  Mutant: off by one.
SlotFreeLoose(w) == workCounts[w] <= Limit[w]
SlotFree(w) == workCounts[w] < Limit[w]

\* kickoff: the coroutine is created and its slot taken.
\* Mutant: work_counts is not incremented.
KickoffUncounted(id) ==
  /\ status' = [status EXCEPT ![id] = "RUNNING"]
  /\ co' = [co EXCEPT ![id] = "starting"]
  /\ running' = [running EXCEPT ![KeyOf(id)] = @ + 1]
  /\ taskWorkCounts' = [taskWorkCounts EXCEPT ![KeyOf(id)] = @ + 1]
  /\ UNCHANGED workCounts
Kickoff(id) ==
  LET key == KeyOf(id) IN
  /\ status' = [status EXCEPT ![id] = "RUNNING"]
  /\ co' = [co EXCEPT ![id] = "starting"]
  /\ running' = [running EXCEPT ![key] = @ + 1]
  /\ workCounts' = [workCounts EXCEPT ![key[2]] = @ + 1]
  /\ taskWorkCounts' = [taskWorkCounts EXCEPT ![key] = @ + 1]

\* schedule_step takes the next job of a task out of its heap.
Dispatch(key) ==
  /\ pc = "schedule" /\ key[2] \in todo
  /\ SlotFree(key[2])
  /\ waiting[key] > 0
  /\ taskWorkCounts[key] < BatchLimit[key[2]]
  /\ \E id \in Heads(key) :
       /\ jobQueue' = jobQueue \ {id}
       /\ waiting' = [waiting EXCEPT ![key] = @ - 1]
       /\ dirty' = dirty \cup {id}
       /\ \/ /\ id \in expired
             /\ status' = [status EXCEPT ![id] = "EXPIRED"]
             /\ UNCHANGED <<co, slotVars>>
          \/ /\ id \notin expired /\ req[id].task \in cancelled
             /\ status' = [status EXCEPT ![id] = "CANCELLED"]
             /\ UNCHANGED <<co, slotVars>>
          \/ /\ id \notin expired /\ req[id].task \notin cancelled
             /\ Kickoff(id)
  /\ UNCHANGED <<tableVars, req, failures, nextJobid, eventQueue, wakeup, pc,
                 loopVars, cancelling, cancelled, envVars>>

\* schedule_step leaves a worktype: its limit is reached, nothing waits, or
\* the scheduler picked a task whose batch slots are all taken.
LeaveWorkType(w) ==
  /\ pc = "schedule" /\ w \in todo
  /\ \/ ~SlotFree(w)
     \/ \A t \in Tasks : waiting[<<t, w>>] = 0
     \/ \E t \in Tasks : /\ waiting[<<t, w>>] > 0
                         /\ taskWorkCounts[<<t, w>>] >= BatchLimit[w]
  /\ todo' = todo \ {w}
  /\ UNCHANGED <<tableVars, jobVars, eventQueue, dirty, wakeup, queueVars,
                 slotVars, pc, events, replies, pendingAdds, flushing, coVars,
                 cancelled, envVars>>

AwaitWakeup ==
  /\ pc = "schedule" /\ todo = {}
  /\ pc' = "wait"
  /\ UNCHANGED <<tableVars, jobVars, eventQueue, dirty, wakeup, queueVars,
                 slotVars, loopVars, coVars, cancelled, envVars>>

(***************************************************************************)
(* task_entry: the coroutine of a job.                                     *)
(***************************************************************************)
coOnly == <<tableVars, jobVars, eventQueue, wakeup, queueVars, slotVars, pc,
            loopVars, cancelled, envVars>>

\* First step, and the backoff of a retry: then the callback runs.
Begin(id) ==
  /\ Interleaved
  /\ co[id] = "starting" /\ id \notin cancelling
  /\ co' = [co EXCEPT ![id] = "running"]
  /\ UNCHANGED <<coOnly, dirty, cancelling>>

\* A cancel before the first step or during the backoff: done() is not yet
\* registered, so nothing but the coroutine goes away.
CancelBeforeBegin(id) ==
  /\ Interleaved
  /\ co[id] = "starting" /\ id \in cancelling
  /\ co' = [co EXCEPT ![id] = "none"]
  /\ cancelling' = cancelling \ {id}
  /\ UNCHANGED <<coOnly, dirty>>

\* The callback returned, and not with Err.
Succeed(id) ==
  /\ Interleaved
  /\ co[id] = "running"
  /\ status' = [status EXCEPT ![id] = "DONE"]
  /\ dirty' = dirty \cup {id}
  /\ co' = [co EXCEPT ![id] = "exiting"]
  /\ UNCHANGED <<tableVars, req, failures, nextJobid, eventQueue, wakeup,
                 queueVars, slotVars, pc, loopVars, cancelling, cancelled,
                 envVars>>

\* The callback returned Err, raised, or ran into its timeout.
Fail(id) ==
  /\ Interleaved
  /\ co[id] = "running"
  /\ Attempts[req[id].worktype] = 0 => failures[id] < MaxFailures
  /\ co' = [co EXCEPT ![id] = "failed"]
  /\ UNCHANGED <<coOnly, dirty, cancelling>>

\* CancelledError leaves the callback: requested by cancel_tasks, or raised
\* inside a callback that awaits a future somebody else cancelled.
Interrupt(id) ==
  /\ Interleaved
  /\ co[id] = "running"
  /\ id \in cancelling \/ req[id].worktype \in Interruptible
  /\ co' = [co EXCEPT ![id] = "interrupted"]
  /\ UNCHANGED <<coOnly, dirty, cancelling>>

\* done(): the job's fate, and the slot handed back.
Done(id) ==
  /\ Interleaved
  /\ co[id] \in {"exiting", "failed", "interrupted"}
  /\ LET key  == KeyOf(id)
         w    == req[id].worktype
         n    == failures[id] + 1
     IN
     /\ \/ /\ co[id] = "exiting"
           /\ UNCHANGED <<status, failures, queueVars, dirty>>
        \/ /\ co[id] = "failed" /\ Exhausted(w, n)
           /\ failures' = [failures EXCEPT ![id] = n]
           /\ status' = [status EXCEPT ![id] = "FAILED"]
           /\ dirty' = dirty \cup {id}
           /\ UNCHANGED queueVars
        \/ /\ co[id] = "failed" /\ ~Exhausted(w, n)
           /\ failures' = [failures EXCEPT ![id] = n]
           /\ status' = [status EXCEPT ![id] = "SUBMITTED"]
           /\ dirty' = dirty \cup {id}
           /\ AddJob(id)
        \/ /\ co[id] = "interrupted" /\ req[id].task \in cancelled
           /\ status' = [status EXCEPT ![id] = "CANCELLED"]
           /\ dirty' = dirty \cup {id}
           /\ UNCHANGED <<failures, queueVars>>
        \/ /\ co[id] = "interrupted" /\ req[id].task \notin cancelled
           /\ status' = [status EXCEPT ![id] = "SUBMITTED"]
           /\ dirty' = dirty \cup {id}
           /\ AddJob(id)
           /\ UNCHANGED failures
     /\ running' = [running EXCEPT ![key] = @ - 1]
     /\ workCounts' = [workCounts EXCEPT ![w] = @ - 1]
     /\ taskWorkCounts' = [taskWorkCounts EXCEPT ![key] = @ - 1]
  /\ co' = [co EXCEPT ![id] = "none"]
  /\ cancelling' = cancelling \ {id}
  /\ wakeup' = TRUE
  /\ UNCHANGED <<tableVars, req, nextJobid, eventQueue, pc, loopVars, cancelled,
                 envVars>>

(***************************************************************************)
(* The process dies: memory is lost, committed rows and time remain.       *)
(***************************************************************************)
Crash ==
  /\ pc # "down" /\ crashes < MaxCrashes
  /\ crashes' = crashes + 1
  /\ pc' = "down"
  /\ req' = [id \in JobIds |-> IF id \in Stored THEN req[id] ELSE AnyRequest]
  /\ expired' = expired \cap Stored
  /\ status' = [id \in JobIds |-> Absent]
  /\ failures' = [id \in JobIds |-> 0]
  /\ nextJobid' = 1
  /\ eventQueue' = <<>> /\ dirty' = {} /\ wakeup' = FALSE
  /\ jobQueue' = {} /\ waiting' = [k \in TaskKeys |-> 0]
  /\ running' = [k \in TaskKeys |-> 0]
  /\ workCounts' = [w \in WorkTypes |-> 0]
  /\ taskWorkCounts' = [k \in TaskKeys |-> 0]
  /\ events' = <<>> /\ replies' = {} /\ pendingAdds' = {} /\ flushing' = {}
  /\ todo' = {}
  /\ co' = [id \in JobIds |-> "none"] /\ cancelling' = {} /\ cancelled' = {}
  /\ UNCHANGED <<tableVars, taskCancels, answered>>

-----------------------------------------------------------------------------
LoopStep ==
  \/ Setup \/ TakeEvents \/ HandleEvent \/ CommitAdds \/ FlushDirty
  \/ AnswerCallers \/ AwaitWakeup
  \/ \E key \in TaskKeys : Dispatch(key)
  \/ \E w \in WorkTypes : LeaveWorkType(w)

Leave(id) == Succeed(id) \/ Fail(id) \/ Interrupt(id)

CoStep(id) == Begin(id) \/ CancelBeforeBegin(id) \/ Leave(id) \/ Done(id)

Next ==
  \/ \E r \in Requests : SubmitJob(r)
  \/ \E t \in Tasks : RequestCancel(t) \/ CancelTasks(t)
  \/ \E id \in JobIds : Expire(id)
  \/ LoopStep
  \/ \E id \in JobIds : CoStep(id)
  \/ Crash

Spec == Init /\ [][Next]_vars

\* The event loop keeps running its tasks; a callback ends because
\* asyncio.timeout bounds it; the CRS loop polls the task DB for ever.
Fairness ==
  /\ WF_vars(LoopStep)
  /\ \A id \in JobIds : WF_vars(CoStep(id))
  /\ \A t \in Tasks : WF_vars(CancelTasks(t))

FairSpec == Spec /\ Fairness
-----------------------------------------------------------------------------
(***************************************************************************)
(* Properties.                                                             *)
(***************************************************************************)
\* The type of every variable.
TypeOK ==
  /\ row \in [JobIds -> Statuses \cup {Absent}]
  /\ rowFailures \in [JobIds -> Nat]
  /\ req \in [JobIds -> Requests]
  /\ status \in [JobIds -> Statuses \cup {Absent}]
  /\ failures \in [JobIds -> Nat]
  /\ nextJobid \in Nat \ {0}
  /\ eventQueue \in Seq(JobIds) /\ events \in Seq(JobIds)
  /\ dirty \subseteq JobIds /\ flushing \subseteq JobIds
  /\ replies \subseteq JobIds /\ pendingAdds \subseteq JobIds
  /\ jobQueue \subseteq JobIds /\ cancelling \subseteq JobIds
  /\ expired \subseteq JobIds
  /\ wakeup \in BOOLEAN
  /\ waiting \in [TaskKeys -> Nat] /\ running \in [TaskKeys -> Nat]
  /\ taskWorkCounts \in [TaskKeys -> Nat]
  /\ workCounts \in [WorkTypes -> Nat]
  /\ pc \in {"down", "loop", "events", "schedule", "wait"}
  /\ todo \subseteq WorkTypes
  /\ co \in [JobIds -> {"none", "starting", "running", "exiting", "failed",
                         "interrupted"}]
  /\ cancelled \subseteq Tasks /\ taskCancels \subseteq Tasks
  /\ crashes \in Nat
  /\ answered \subseteq JobIds \X Requests

\* Jobs that hold a slot of their worktype.
Occupies(id) == status[id] = "RUNNING" \/ co[id] = "exiting"

\* The three counts that throttle schedule_step (work_counts,
\* task_work_counts, Scheduler.running) agree with each other and with the
\* jobs that are RUNNING or leaving, over retries, cancellations and expiries.
SlotsAccounted ==
  /\ \A k \in TaskKeys :
       /\ running[k] = taskWorkCounts[k]
       /\ running[k] = Cardinality({id \in JobIds : Occupies(id) /\ KeyOf(id) = k})
  /\ \A w \in WorkTypes :
       workCounts[w] =
         Cardinality({id \in JobIds : Occupies(id) /\ req[id].worktype = w})

\* A task the scheduler says is waiting has that many jobs in its heap, so
\* schedule_step never indexes a missing or empty queue; queued jobs are
\* SUBMITTED, and every SUBMITTED job is queued or about to be.
QueueAccounted ==
  /\ \A k \in TaskKeys : waiting[k] = Cardinality(QueueOf(k))
  /\ \A id \in JobIds :
       status[id] = "SUBMITTED" <=>
         id \in jobQueue \cup Range(eventQueue) \cup Range(events)

\* The books of schedule_step are right: the throttling counts and the heaps say
\* what the jobs themselves say, whatever ends, fails, expires or is cancelled.
Accounted == TypeOK /\ SlotsAccounted /\ QueueAccounted

\* No more callbacks of a worktype run at once than its limit, nor of one
\* task than the batch size (tests/common/test_workdb.py, highmark).
LimitsRespected ==
  /\ \A w \in WorkTypes :
       Cardinality({id \in JobIds : co[id] # "none" /\ req[id].worktype = w})
         <= Limit[w]
  /\ \A k \in TaskKeys :
       Cardinality({id \in JobIds : co[id] # "none" /\ KeyOf(id) = k})
         <= BatchLimit[k[2]]

\* A callback runs only for a committed, unfinished row, never for a job that
\* also waits in the heap, and never beyond the allowed number of attempts.
RunsAreCovered ==
  \A id \in JobIds : co[id] # "none" =>
    /\ id \notin jobQueue
    /\ id \in Stored
    /\ co[id] # "exiting" => status[id] = "RUNNING" /\ row[id] \notin Terminal
    /\ ~Exhausted(req[id].worktype, failures[id])

\* A row that lags behind the job in memory is always due to be written.
LagIsDirty ==
  \A id \in Stored : status[id] # Absent =>
    \/ row[id] = status[id] /\ rowFailures[id] = failures[id]
    \/ id \in dirty \cup flushing \cup pendingAdds

\* What a job does and what a crash would find of it agree: no callback runs without a
\* committed row, and what the row does not say yet is about to be written.
Covered == RunsAreCovered /\ LagIsDirty

\* A submission that was answered stays in the table through every crash: its
\* own row, or for a unique one a row with the same work.
AnsweredIsDurable ==
  \A a \in answered :
    IF a[2].unique THEN \E id \in Stored : SameWork(req[id], a[2])
                   ELSE a[1] \in Stored /\ req[a[1]] = a[2]

\* A unique submission adds no second row for the same work (callers await
\* one submission before they repeat it).
UniqueRows ==
  \A i, j \in Stored : i < j /\ req[j].unique => ~SameWork(req[i], req[j])

\* The loop sleeps only when there is nothing to take in and nothing it could
\* start: a completion or a submission never gets lost between the clear of
\* wakeup and the wait.
NoLostWakeup ==
  pc = "wait" /\ ~wakeup =>
    /\ eventQueue = <<>>
    /\ \A w \in WorkTypes :
         \/ workCounts[w] = Limit[w]
         \/ \A t \in Tasks : waiting[<<t, w>>] = 0
         \/ \E t \in Tasks : /\ waiting[<<t, w>>] > 0
                             /\ taskWorkCounts[<<t, w>>] >= BatchLimit[w]

\* Nothing that was accepted gets lost: not a row in a crash, not the work of a unique
\* submission by coming twice, not a wakeup between the loop's look and its sleep.
NothingLost == AnsweredIsDurable /\ UniqueRows /\ NoLostWakeup

\* A settled row never changes again, in whatever order coroutines, flushes
\* and restarts interleave.
SettledForGood ==
  [][\A id \in JobIds : row[id] \in Terminal => row'[id] = row[id]]_vars

\* A row keeps the work it was inserted with: no rowid is handed out twice.
RowIdentity == [][\A id \in Stored : row'[id] # Absent /\ req'[id] = req[id]]_vars

\* The committed number of failures of a job never falls, also across crashes.
FailuresOnlyGrow ==
  [][\A id \in Stored : rowFailures'[id] >= rowFailures[id]]_vars

\* The three together: the table only moves forward.
RowsMoveForward == SettledForGood /\ RowIdentity /\ FailuresOnlyGrow

\* Once cancel_tasks was called, no callback of the task is entered, also not
\* by a job that was waiting out its retry delay.
NoEntryAfterCancel ==
  [][\A id \in JobIds : co[id] = "starting" /\ co'[id] = "running" =>
       req[id].task \notin cancelled]_vars

\* Every unfinished row is settled in the end: no job is forgotten by a retry,
\* a flush or a restart.
RowsSettle ==
  \A id \in JobIds :
    row[id] \in {"SUBMITTED", "RUNNING"} ~> row[id] \in Terminal

\* Every caller is answered, unless the process dies.
CallersAnswered ==
  \A id \in JobIds : id \in InFlight ~> (id \notin InFlight \/ pc = "down")

\* Both: jobs and their callers come to an end.
Served == RowsSettle /\ CallersAnswered

\* A cancelled task's jobs all end in a final status (test_cancellation:
\* "assert jobs[0].status == JobStatus.CANCELLED").
CancelledJobsSettle ==
  \A id \in JobIds :
    status[id] = "RUNNING" /\ req[id].task \in cancelled
      ~> status[id] \in Terminal \/ pc = "down"

\* WorkDB implements JobQueue: the fate of a job is what its row says, and its
\* callback is active from the creation of the coroutine to its return.
Fate(id) == IF row[id] \in {"SUBMITTED", "RUNNING"} THEN "open" ELSE row[id]

Promise == INSTANCE JobQueue WITH
  Jobs <- JobIds, Kinds <- WorkTypes, Outcomes <- Terminal, NoKind <- Absent,
  fate <- [id \in JobIds |-> Fate(id)],
  kind <- [id \in JobIds |->
             IF id \in Stored THEN req[id].worktype ELSE Absent],
  active <- {id \in JobIds : co[id] \in {"starting", "running"}}

ImplementsJobQueue == Promise!Spec
=============================================================================
