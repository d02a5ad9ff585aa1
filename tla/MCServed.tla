------------------------------ MODULE MCServed -------------------------------
(***************************************************************************)
(* What must happen in the end: whoever waits at one of the primitives is  *)
(* served, and so is whoever was told "OK" by the task server.  A          *)
(* behaviour exercises one part, its subject; the others stay as made.     *)
(***************************************************************************)
EXTENDS PrioritySemaphore, Sequences

CONSTANTS c1, c2, c3, k1, k2, None

VARIABLES
  subject,
  fut, caller, batch, shutdown, futures, items, worker, expired, raises, stops,
  cache, older, locks, count, holder, line, pc, key, state, shared,
  world, taskRows, sarifRows, cancelRows, phase, cursor, rows, jobs, gone, files, known,
  crashes, faults

Bulk == INSTANCE BulkWorker WITH
  Jobs <- {c1, c2, c3}, Failing <- {c2}, batchsize <- 2, MaxRaises <- 1, MaxStops <- 1,
  queue <- batch, pc <- worker

Alru == INSTANCE AlruCache WITH
  Callers <- {c1, c2, c3}, Keys <- {k1, k2}, Locks <- {"l1", "l2", "l3"},
  Uncached <- {k2}, maxsize <- 1, waiters <- line

Server == INSTANCE TaskLoop WITH
  Tasks <- {"t1", "t2"}, Sarifs <- {"s1"}, Worlds <- {{"t1"}, {"t2", "s1"}},
  TaskOf <- [s \in {"s1"} |-> "t2"],
  SourcesOf <- [t \in {"t1", "t2"} |-> IF t = "t1" THEN {"repo"} ELSE {}],
  Delta <- {"t1"}, NoHarness <- {"t2"}, Harnesses <- {"h1"}, MaxCrashes <- 1, MaxFaults <- 1,
  batch <- rows, cancelled <- gone

ASSUME Assumptions == Bulk!BulkAssumption /\ Alru!AlruAssumption

semaphoreVars == <<value, waiters, priority, resolved, at, cancelled>>
bulkVars == <<fut, caller, batch, shutdown, futures, items, worker, expired, raises, stops>>
alruVars == <<cache, older, locks, count, holder, line, pc, key, state, shared>>
serverVars ==
  <<world, taskRows, sarifRows, cancelRows, phase, cursor, rows, jobs, gone, files, known,
    crashes, faults>>

ServedInit ==
  /\ subject \in {"semaphore", "bulk", "alru", "server"}
  /\ Init /\ Bulk!Init /\ Alru!Init /\ Server!Init
  /\ subject # "semaphore" => \A c \in Clients : priority[c] = 0

ServedNext ==
  /\ UNCHANGED subject
  /\ \/ subject = "semaphore" /\ Next
     \/ subject # "semaphore" /\ UNCHANGED semaphoreVars
  /\ \/ subject = "bulk" /\ Bulk!Next
     \/ subject # "bulk" /\ UNCHANGED bulkVars
  /\ \/ subject = "alru" /\ Alru!Next
     \/ subject # "alru" /\ UNCHANGED alruVars
  /\ \/ subject = "server" /\ Server!Next
     \/ subject # "server" /\ UNCHANGED serverVars

\* The event loop resumes what is ready and every body of a lock or slot ends; the worker
\* goes on and its callers wake up; the loop of the CRS polls for ever and WorkDB leaves no
\* job waiting that could go on.
ServedFairness ==
  /\ \A c \in Clients :
       WF_semaphoreVars(/\ subject = "semaphore"
                        /\ Resume(c) \/ CancelResolved(c) \/ CancelWaiting(c) \/ Leave(c))
  /\ WF_bulkVars(subject = "bulk" /\ Bulk!Worker)
  /\ \A j \in {c1, c2, c3} : WF_bulkVars(subject = "bulk" /\ Bulk!Wake(j))
  /\ \A c \in {c1, c2, c3} :
       /\ WF_alruVars(subject = "alru" /\ Alru!Acquire(c))
       /\ WF_alruVars(subject = "alru" /\ (Alru!Return(c) \/ Alru!Abort(c)))
  /\ WF_serverVars(subject = "server" /\ Server!Loop)
  /\ WF_serverVars(subject = "server" /\ Server!Work)

ServedSpec ==
  /\ ServedInit
  /\ [][ServedNext]_<<subject, semaphoreVars, bulkVars, alruVars, serverVars>>
  /\ ServedFairness

(***************************************************************************)
(* Properties.                                                             *)
(***************************************************************************)
\* Whoever waits is served: the client of best priority, the jobs of a batch, the callers
\* of a memoised function.
EverybodyServed == BestServed /\ Bulk!CallersReturn /\ Alru!WaitersServed

\* A task or cancellation the server said "OK" to takes effect, over any crash of the CRS.
TasksSettle == Server!TasksSettle
=============================================================================
