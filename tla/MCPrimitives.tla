----------------------------- MODULE MCPrimitives -----------------------------
(***************************************************************************)
(* The primitives that every part of the program is built on, side by      *)
(* side: a behaviour exercises one of them, its subject, while the others  *)
(* stay as they were made.                                                 *)
(***************************************************************************)
EXTENDS PrioritySemaphore, Sequences

CONSTANTS
  None,
  Tasks, quantum, wakeup, tickrate, StartTime, MaxTime, MaxSlots, MaxQueue, \* scheduler
  Coros, Calls, Amounts, MaxCrashes,                                        \* counter
  Jobs, Failing, batchsize, MaxRaises, MaxStops,                            \* batch worker
  Callers, Keys, Locks, Uncached, maxsize                                   \* alru_cache

VARIABLES
  subject,
  vruntime, lastTick, running, waiting, queue, runningSet, waitingSet, vmin, roundTick, now,
  cached, table, disk, statements, answers, coro, call, amount, result, crashes, dropped,
  uncommitted, credited,
  fut, caller, batch, shutdown, futures, items, worker, expired, raises, stops,
  cache, older, locks, count, holder, line, pc, key, state, shared

Sched == INSTANCE Scheduler WITH Keys <- Tasks
Counter == INSTANCE CounterDB WITH cache <- cached, pc <- coro, cancelled <- dropped
Bulk == INSTANCE BulkWorker WITH queue <- batch, pc <- worker
Alru == INSTANCE AlruCache WITH waiters <- line

ASSUME Assumptions ==
  /\ Sched!SchedulerAssumption /\ Counter!CounterAssumption
  /\ Bulk!BulkAssumption /\ Alru!AlruAssumption

\* The variables of each primitive.
semaphoreVars == <<value, waiters, priority, resolved, at, cancelled>>
queueVars ==
  <<vruntime, lastTick, running, waiting, queue, runningSet, waitingSet, vmin, roundTick, now>>
counterVars ==
  <<cached, table, disk, statements, answers, coro, call, amount, result, crashes, dropped,
    uncommitted, credited>>
bulkVars == <<fut, caller, batch, shutdown, futures, items, worker, expired, raises, stops>>
alruVars == <<cache, older, locks, count, holder, line, pc, key, state, shared>>

\* The others are as made: one of the ways is enough.
Any(S) == CHOOSE x \in S : TRUE

PrimitivesInit ==
  /\ subject \in {"semaphore", "scheduler", "counter", "bulk", "alru"}
  /\ Init /\ Sched!Init /\ Counter!Init /\ Bulk!Init /\ Alru!Init
  /\ subject # "semaphore" => priority = [c \in Clients |-> Any(Priorities)]
  /\ subject # "counter" => call = [c \in Coros |-> Any(Calls)] /\ amount = [c \in Coros |-> Any(Amounts)]

PrimitivesNext ==
  /\ UNCHANGED subject
  /\ \/ subject = "semaphore" /\ Next
     \/ subject # "semaphore" /\ UNCHANGED semaphoreVars
  /\ \/ subject = "scheduler" /\ Sched!Next
     \/ subject # "scheduler" /\ UNCHANGED queueVars
  /\ \/ subject = "counter" /\ Counter!Next
     \/ subject # "counter" /\ UNCHANGED counterVars
  /\ \/ subject = "bulk" /\ Bulk!Next
     \/ subject # "bulk" /\ UNCHANGED bulkVars
  /\ \/ subject = "alru" /\ Alru!Next
     \/ subject # "alru" /\ UNCHANGED alruVars

allVars == <<subject, semaphoreVars, queueVars, counterVars, bulkVars, alruVars>>

PrimitivesSpec == PrimitivesInit /\ [][PrimitivesNext]_allVars

(***************************************************************************)
(* Properties.                                                             *)
(***************************************************************************)
\* Scheduler: lazy removal and adding again lose no task, and the loans of running slots
\* stay in the runtimes that the order goes by.
QueueKept == Sched!QueueKept

\* CounterDB: as long as nobody calls get the cache is the table; fetch_add hands out distinct
\* values, also over a restart; what it returned survives every crash, also with other callers
\* cancelled between their upsert and their commit.
CountersHold ==
  Counter!Consistent /\ Counter!WriteThrough /\ Counter!DistinctTickets /\ Counter!AddsAreDurable

\* BulkTaskWorker and alru_cache: callers share a call and each gets the answer that is its
\* own.  No item is dropped, whoever is cancelled; a key is never computed twice at once, a
\* lock lives as long as its callers, and who waited for a result finds it.
SharedCalls ==
  /\ Bulk!Consistent /\ Bulk!OwnAnswer /\ Bulk!NobodyLeftBehind
  /\ Alru!Consistent /\ Alru!SingleFlight /\ Alru!WaitersFindTheResult

\* Slots go in order: of the semaphore to the best priority, of the scheduler to the task
\* that was served least.
InOrder == NoOvertaking /\ Sched!LeastServedFirst

\* The semaphore is a pool of slots, the scheduler a queue of runs.
Refines == ImplementsSlotPool /\ Sched!ImplementsRunQueue
=============================================================================
