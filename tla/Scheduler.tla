------------------------------ MODULE Scheduler ------------------------------
(***************************************************************************)
(* The completely fair scheduler of crs/common/scheduler.py: each task     *)
(* accumulates virtual runtime for every slot it runs, and the waiting     *)
(* task with the least virtual runtime is served first.  A started slot is *)
(* charged a quantum in advance, refunded when it finishes.                *)
(*                                                                         *)
(* The queue is a list served from its end; a removal leaves the entry in  *)
(* the list, to be dropped when it is reached.                             *)
(***************************************************************************)
EXTENDS Integers, Sequences, FiniteSets

CONSTANTS
  Keys,       \* the task ids
  quantum,    \* runtime loaned to a slot when it starts
  wakeup,     \* head start of a task that was inactive
  tickrate,   \* least time between two accounting rounds
  StartTime,  \* reading of the clock when the scheduler is made
  MaxTime,    \* bound: readings of the clock
  MaxSlots,   \* bound: slots a task waits for or runs
  MaxQueue    \* bound: entries of the list, stale ones included

SchedulerAssumption ==
  /\ quantum \in Nat /\ wakeup \in Nat /\ tickrate \in Nat
  /\ StartTime \in Nat /\ MaxTime \in Nat /\ MaxSlots \in Nat /\ MaxQueue \in Nat

VARIABLES
  vruntime, lastTick, running, waiting,   \* ScheduleTask, per key
  queue,                                  \* Scheduler.queue, as keys
  runningSet, waitingSet,                 \* Scheduler.running, .waiting
  vmin, roundTick,                        \* Scheduler.vmin, .last_tick
  now                                     \* time.perf_counter_ns()

vars == <<vruntime, lastTick, running, waiting, queue, runningSet, waitingSet,
          vmin, roundTick, now>>

-----------------------------------------------------------------------------
Larger(a, b) == IF a >= b THEN a ELSE b

\* ScheduleTask.tick: the runtime of a task when it is brought up to date.
Ticked(k) == vruntime[k] + (now - lastTick[k]) * running[k]

\* list.sort(reverse=True) under runtimes v: stable, the least one last.
SortedQueue(v) ==
  LET Before(i, j) == \/ v[queue[i]] > v[queue[j]]
                      \/ v[queue[i]] = v[queue[j]] /\ i < j
      Rank(j) == 1 + Cardinality({i \in DOMAIN queue : Before(i, j)})
  IN  [r \in DOMAIN queue |-> queue[CHOOSE j \in DOMAIN queue : Rank(j) = r]]

-----------------------------------------------------------------------------
Init ==
  /\ vruntime = [k \in Keys |-> 0] /\ lastTick = [k \in Keys |-> 0]
  /\ running = [k \in Keys |-> 0] /\ waiting = [k \in Keys |-> 0]
  /\ queue = <<>> /\ runningSet = {} /\ waitingSet = {}
  /\ vmin = 0 /\ roundTick = 0
  /\ now = StartTime

Advance ==
  /\ now < MaxTime
  /\ now' = now + 1
  /\ UNCHANGED <<vruntime, lastTick, running, waiting, queue, runningSet,
                 waitingSet, vmin, roundTick>>

Add(k) ==
  /\ waiting[k] < MaxSlots /\ Len(queue) < MaxQueue
  /\ waiting' = [waiting EXCEPT ![k] = @ + 1]
  /\ IF waiting[k] = 0
     THEN /\ waitingSet' = waitingSet \cup {k}
          /\ queue' = Append(queue, k)
     ELSE UNCHANGED <<waitingSet, queue>>
  /\ UNCHANGED <<vruntime, lastTick, running, runningSet, vmin, roundTick, now>>

\* Mutant of Remove: the check that the task waits is missing.
RemoveUnchecked(k) ==
  /\ waiting' = [waiting EXCEPT ![k] = @ - 1]
  /\ waitingSet' = IF waiting[k] = 1 THEN waitingSet \ {k} ELSE waitingSet
  /\ UNCHANGED <<vruntime, lastTick, running, queue, runningSet, vmin,
                 roundTick, now>>

\* The list entry stays, whether or not the task still waits.
Remove(k) ==
  /\ waiting[k] > 0
  /\ waiting' = [waiting EXCEPT ![k] = @ - 1]
  /\ waitingSet' = IF waiting[k] = 1 THEN waitingSet \ {k} ELSE waitingSet
  /\ UNCHANGED <<vruntime, lastTick, running, queue, runningSet, vmin,
                 roundTick, now>>

Discard(k) ==
  /\ waiting' = [waiting EXCEPT ![k] = 0]
  /\ waitingSet' = waitingSet \ {k}
  /\ UNCHANGED <<vruntime, lastTick, running, queue, runningSet, vmin,
                 roundTick, now>>

Finish(k) ==
  /\ running[k] > 0
  /\ vruntime' = [vruntime EXCEPT ![k] = Larger(0, Ticked(k) - quantum)]
  /\ lastTick' = [lastTick EXCEPT ![k] = now]
  /\ running' = [running EXCEPT ![k] = @ - 1]
  /\ runningSet' = IF running[k] = 1 THEN runningSet \ {k} ELSE runningSet
  /\ UNCHANGED <<waiting, queue, waitingSet, vmin, roundTick, now>>

\* The accounting of Scheduler.tick, when enough time went by.
Due == now - roundTick > tickrate

Accounted(k) == Due /\ k \in runningSet
AccountedRuntime(k) == IF Accounted(k) THEN Ticked(k) ELSE vruntime[k]
AccountedTick(k)    == IF Accounted(k) THEN now ELSE lastTick[k]
\* vmin after the round.
AccountedVmin ==
  IF Due /\ runningSet # {}
  THEN Larger(vmin, CHOOSE v \in {Ticked(k) : k \in runningSet} :
                      \A k \in runningSet : v <= Ticked(k))
  ELSE vmin
AccountedRound ==
  IF ~Due THEN roundTick
  ELSE IF now - roundTick > 2 * tickrate THEN now ELSE roundTick + tickrate

\* The list after entry i of it was served: the entry stays while its task
\* waits for more slots.  Mutant: it always goes.
Popped(list, i) == SubSeq(list, 1, i - 1)
AfterServing(list, i) ==
  SubSeq(list, 1, IF waiting[list[i]] = 1 THEN i - 1 ELSE i)

\* The runtime a task of runtime v is charged for one more slot: an inactive
\* task gets at most the head start.
Charged(k, v) ==
  quantum + IF running[k] = 0 THEN Larger(AccountedVmin - wakeup, v) ELSE v

\* schedule(): account, sort, drop stale entries from the end of the list and
\* start a slot of the first task that really waits, if there is one.
Schedule ==
  LET v      == [k \in Keys |-> AccountedRuntime(k)]
      sorted == SortedQueue(v)
      live   == {i \in DOMAIN sorted : waiting[sorted[i]] > 0}
  IN
  /\ vmin' = AccountedVmin
  /\ roundTick' = AccountedRound
  /\ \/ /\ live = {}
        /\ queue' = <<>>
        /\ vruntime' = v
        /\ lastTick' = [k \in Keys |-> AccountedTick(k)]
        /\ UNCHANGED <<running, waiting, runningSet, waitingSet>>
     \/ \E i \in live :
          LET k == sorted[i] IN
          /\ \A j \in live : j <= i
          /\ running[k] < MaxSlots
          /\ waiting' = [waiting EXCEPT ![k] = @ - 1]
          /\ queue' = AfterServing(sorted, i)
          /\ waitingSet' = IF waiting[k] = 1 THEN waitingSet \ {k} ELSE waitingSet
          /\ vruntime' = [v EXCEPT ![k] =
               Charged(k, IF running[k] = 0 \/ Accounted(k) THEN @ ELSE Ticked(k))]
          /\ lastTick' = [j \in Keys |-> IF j = k THEN now ELSE AccountedTick(j)]
          /\ running' = [running EXCEPT ![k] = @ + 1]
          /\ runningSet' = runningSet \cup {k}
  /\ UNCHANGED now

Next == \/ Advance \/ Schedule
        \/ \E k \in Keys : Add(k) \/ Remove(k) \/ Discard(k) \/ Finish(k)

Spec == Init /\ [][Next]_vars

-----------------------------------------------------------------------------
TypeOK ==
  /\ vruntime \in [Keys -> Nat] /\ lastTick \in [Keys -> Nat]
  /\ running \in [Keys -> Nat] /\ waiting \in [Keys -> Nat]
  /\ queue \in Seq(Keys)
  /\ runningSet \subseteq Keys /\ waitingSet \subseteq Keys
  /\ vmin \in Nat /\ roundTick \in Nat /\ now \in Nat

\* A task that waits is in the list and in the waiting set, a running one in
\* the running set: lazy removal and re-adding lose nobody.
NobodyForgotten ==
  /\ waitingSet = {k \in Keys : waiting[k] > 0}
  /\ runningSet = {k \in Keys : running[k] > 0}
  /\ \A k \in waitingSet : \E i \in DOMAIN queue : queue[i] = k

\* Every running slot's loan is still in the task's runtime, so the refund in
\* finish() never meets its floor of zero and no runtime is forgiven.
LoansCovered == \A k \in Keys : vruntime[k] >= quantum * running[k]
Consistent == TypeOK /\ LoansCovered

\* Lazy removal and adding again lose no task, and no loan is ever forgiven.
QueueKept == Consistent /\ NobodyForgotten

\* The task that gets a slot has the least accounted runtime of all waiting
\* ones, whatever stale or repeated entries the list holds.
LeastServedFirst ==
  [][\A k \in Keys : running'[k] > running[k] =>
       \A j \in waitingSet : AccountedRuntime(k) <= AccountedRuntime(j)]_vars

\* The slots asked for, granted and given back are those of a RunQueue.
Slots == INSTANCE RunQueue
ImplementsRunQueue == Slots!Spec
=============================================================================
