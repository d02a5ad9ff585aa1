------------------------------ MODULE Background ------------------------------
(***************************************************************************)
(* The background workers of a task and the jobs that wait for them:       *)
(* launch_bgworkers, wait_for_bgworker, launch_fuzzers and process_coverage *)
(* of crs/app/app.py.                                                      *)
(*                                                                         *)
(* bgworkers and bgworkers_waiting are keyed by the Task object, compared  *)
(* by identity; _task_from_id makes it and caches 32 of them.  A waiter    *)
(* takes the event out of the table when its wait ends, however it ends.   *)
(***************************************************************************)
EXTENDS Integers, FiniteSets

CONSTANTS
  Coverage,     \* PROCESS_COVERAGE jobs; TRIAGE_FUZZ_CRASH and the flips wait alike
  Attempts,     \* attempts of one of them (WORK_DESCS: 3)
  MaxFailures, MaxTimeouts, MaxEvictions, MaxRestarts  \* bounds

BackgroundAssumption == MaxEvictions \in Nat /\ MaxRestarts \in Nat

VARIABLES
  job,      \* of each waiter: [state, task, event, fails]
  launch,   \* the Task of LAUNCH_BGWORKERS while it runs, else 0
  task,     \* the cached Task, or 0
  workers,  \* keys of bgworkers
  waiting,  \* bgworkers_waiting: the event of a Task
  made,     \* Tasks and events made so far
  failures, timeouts, evictions, restarts

bgVars == <<job, launch, task, workers, waiting, made, failures, timeouts, evictions, restarts>>

Jobs == Coverage \union {"fuzzers"}
MaxTasks == MaxEvictions + MaxRestarts + 1
New(state) == [state |-> state, task |-> 0, event |-> 0, fails |-> 0]

Init ==
  /\ job = [j \in Jobs |-> New("none")]
  /\ launch = 0 /\ task = 0
  /\ workers = {} /\ waiting = [t \in 1..MaxTasks |-> 0]
  /\ made = [tasks |-> 0, events |-> 0]
  /\ failures = 0 /\ timeouts = 0 /\ evictions = 0 /\ restarts = 0

(***************************************************************************)
(* task_from_id.                                                           *)
(***************************************************************************)
Task == IF task = 0 THEN made.tasks + 1 ELSE task
MadeTask == IF task = 0 THEN made.tasks + 1 ELSE made.tasks

Evict == \* other tasks were used meanwhile
  /\ evictions < MaxEvictions /\ task # 0
  /\ task' = 0 /\ evictions' = evictions + 1
  /\ UNCHANGED <<job, launch, workers, waiting, made, failures, timeouts, restarts>>

(***************************************************************************)
(* launch_bgworkers.                                                       *)
(***************************************************************************)
\* Mutant: the event is not set.
NobodyWoken == job
Woken == \* those who wait for the event go on before anything else happens
  [j \in Jobs |-> IF job[j].state = "waiting" /\ job[j].event = waiting[Task]
                  THEN [job[j] EXCEPT !.state = "in", !.event = 0] ELSE job[j]]
Launch ==
  /\ launch = 0
  /\ task' = Task /\ launch' = Task /\ made' = [made EXCEPT !.tasks = MadeTask]
  /\ workers' = workers \union {Task}
  /\ job' = Woken /\ waiting' = [waiting EXCEPT ![Task] = 0]
  /\ UNCHANGED <<failures, timeouts, evictions, restarts>>

SubmitFuzzers == \* unique: once it is there it stays
  /\ launch # 0 /\ job["fuzzers"].state = "none"
  /\ job' = [job EXCEPT !["fuzzers"] = New("queued")]
  /\ UNCHANGED <<launch, task, workers, waiting, made, failures, timeouts, evictions, restarts>>

LaunchFails == \* it has no limit of attempts and runs again
  /\ launch # 0 /\ failures < MaxFailures
  /\ workers' = workers \ {launch} /\ launch' = 0
  /\ failures' = failures + 1
  /\ UNCHANGED <<job, task, waiting, made, timeouts, evictions, restarts>>

(***************************************************************************)
(* A job that needs the workers.                                           *)
(***************************************************************************)
AddSeed(j) == \* the fuzzer finds one
  /\ j \in Coverage /\ job["fuzzers"].state = "in" /\ job[j].state = "none"
  /\ job' = [job EXCEPT ![j] = New("queued")]
  /\ UNCHANGED <<launch, task, workers, waiting, made, failures, timeouts, evictions, restarts>>

Start(j) ==
  /\ job[j].state = "queued"
  /\ task' = Task
  /\ IF Task \in workers
     THEN /\ job' = [job EXCEPT ![j].state = "in", ![j].task = Task]
          /\ made' = [made EXCEPT !.tasks = MadeTask] /\ UNCHANGED waiting
     ELSE LET event == IF waiting[Task] = 0 THEN made.events + 1 ELSE waiting[Task]
          IN /\ waiting' = [waiting EXCEPT ![Task] = event]
             /\ job' = [job EXCEPT ![j].state = "waiting", ![j].task = Task, ![j].event = event]
             /\ made' = [tasks |-> MadeTask, events |-> IF waiting[Task] = 0 THEN event ELSE made.events]
  /\ UNCHANGED <<launch, workers, failures, timeouts, evictions, restarts>>

Timeout(j) == \* an hour has passed; LAUNCH_FUZZERS has none
  /\ j \in Coverage /\ job[j].state = "waiting" /\ timeouts < MaxTimeouts
  /\ timeouts' = timeouts + 1
  /\ waiting' = [waiting EXCEPT ![job[j].task] = 0]
  /\ job' = [job EXCEPT ![j] = [New(IF @.fails + 1 < Attempts THEN "queued" ELSE "failed")
                                  EXCEPT !.fails = job[j].fails + 1]]
  /\ UNCHANGED <<launch, task, workers, made, failures, evictions, restarts>>

Ends(j) ==
  /\ j \in Coverage /\ job[j].state = "in"
  /\ job' = [job EXCEPT ![j] = New("done")]
  /\ UNCHANGED <<launch, task, workers, waiting, made, failures, timeouts, evictions, restarts>>

Restart == \* the jobs that ran are queued, in any order
  /\ restarts < MaxRestarts /\ restarts' = restarts + 1
  /\ job' = [j \in Jobs |-> IF job[j].state \in {"in", "waiting"} THEN [New("queued") EXCEPT !.fails = job[j].fails] ELSE job[j]]
  /\ launch' = 0 /\ task' = 0 /\ workers' = {}
  /\ waiting' = [t \in 1..MaxTasks |-> 0]
  /\ UNCHANGED <<made, failures, timeouts, evictions>>

Next ==
  \/ Launch \/ SubmitFuzzers \/ LaunchFails \/ Evict \/ Restart
  \/ \E j \in Jobs : AddSeed(j) \/ Start(j) \/ Timeout(j) \/ Ends(j)
BackgroundSpec == Init /\ [][Next]_bgVars

(***************************************************************************)
(* Properties.                                                             *)
(***************************************************************************)
Reachable(j) == \* the launch of the workers will find the event that j waits for
  /\ task = job[j].task /\ waiting[job[j].task] = job[j].event
  /\ job[j].task \notin workers

\* Whatever fails, ends or is restarted, a waiting job is woken by the next launch, as
\* long as no wait timed out and the Task stayed in the cache.
WaitersAreFound ==
  timeouts = 0 /\ evictions = 0 =>
    \A j \in Jobs : job[j].state = "waiting" => Reachable(j)

\* LAUNCH_FUZZERS waits for launch_bgworkers without a limit of time: it must not be left
\* behind.  A coverage job whose wait times out takes the event of both along.
FuzzersAreWoken == job["fuzzers"].state = "waiting" => Reachable("fuzzers")
=============================================================================
