----------------------------- MODULE BulkWorker -----------------------------
(***************************************************************************)
(* crs/common/workdb.py, class BulkTaskWorker: jobs hand single items to a *)
(* worker that handles them in batches, and wait for a future.  The worker *)
(* runs in the retry_loop of CRS.launch_bgworkers: after an exception it   *)
(* sleeps and starts again, a cancellation ends it for good.               *)
(*                                                                         *)
(* An item and its future are one: the job that waits for it.              *)
(***************************************************************************)
EXTENDS Naturals, Sequences, FiniteSets, SequencesExt

CONSTANTS
  Jobs,       \* jobs that hand one item each to the worker
  Failing,    \* items _handle_work answers with Err
  batchsize,  \* a batch of this size is not waited for any longer
  MaxRaises,  \* bound: exceptions of _handle_work
  MaxStops    \* bound: cancellations of the worker (0 or 1)

BulkAssumption ==
  /\ IsFiniteSet(Jobs) /\ Failing \subseteq Jobs
  /\ batchsize \in Nat \ {0}
  /\ MaxRaises \in Nat /\ MaxStops \in Nat

VARIABLES
  fut,      \* the future of each job
  caller,   \* the job: before the call, in it, or what it came back with
  queue,    \* asyncio.Queue: items not yet taken
  shutdown, \* queue.shutdown was called
  futures,  \* the futures enqueue_and_wait registered
  items,    \* local of run: the jobs of the batch being collected or handled
  pc,       \* where run is
  expired,  \* the delay after the first item has passed
  raises, stops

vars == <<fut, caller, queue, shutdown, futures, items, pc, expired, raises,
          stops>>

callerOnly == <<items, pc, expired, raises, stops>>
workerOnly == <<caller, shutdown, futures, stops>>

Done(j) == fut[j] # "pending"
Correct(j) == IF j \in Failing THEN "err" ELSE "ok"

-----------------------------------------------------------------------------
Init ==
  /\ fut = [j \in Jobs |-> "pending"]
  /\ caller = [j \in Jobs |-> "before"]
  /\ queue = <<>> /\ shutdown = FALSE /\ futures = {}
  /\ items = {} /\ pc = "idle" /\ expired = FALSE
  /\ raises = 0 /\ stops = 0

(***************************************************************************)
(* enqueue_and_wait, in the coroutine of a job.                            *)
(***************************************************************************)
\* The queue is unbounded: put does not suspend, but raises after shutdown.
Enqueue(j) ==
  /\ caller[j] = "before"
  /\ futures' = futures \cup {j}
  /\ \/ /\ ~shutdown
        /\ queue' = Append(queue, j)
        /\ caller' = [caller EXCEPT ![j] = "waiting"]
     \/ /\ shutdown
        /\ caller' = [caller EXCEPT ![j] = "raised"]
        /\ UNCHANGED queue
  /\ UNCHANGED <<fut, shutdown, callerOnly>>

\* The job times out or is cancelled while it waits: so is its future.
CancelJob(j) ==
  /\ caller[j] = "waiting" /\ ~Done(j)
  /\ fut' = [fut EXCEPT ![j] = "cancelled"]
  /\ UNCHANGED <<caller, queue, shutdown, futures, callerOnly>>

\* The future is done and the job resumes.
Wake(j) ==
  /\ caller[j] = "waiting" /\ Done(j)
  /\ caller' = [caller EXCEPT ![j] = fut[j]]
  /\ futures' = futures \ {j}
  /\ UNCHANGED <<fut, queue, shutdown, callerOnly>>

(***************************************************************************)
(* run, _process.                                                          *)
(***************************************************************************)
StillWaiting(s) == {j \in s : ~Done(j)}

Full(s) == Cardinality(s) >= batchsize

\* A full batch is rid of the jobs that gave up, and collected further if that
\* made it shrink.
Pruned(s) == IF Full(s) THEN StillWaiting(s) ELSE s

Collect(batch) ==
  /\ items' = batch
  /\ pc' = IF Full(batch) THEN "handling" ELSE "collect"

\* The first item of a batch starts the delay; it is not checked.
TakeFirst ==
  /\ pc = "idle" /\ queue # <<>>
  /\ Collect({Head(queue)})
  /\ queue' = Tail(queue)
  /\ expired' = FALSE
  /\ UNCHANGED <<fut, workerOnly, raises>>

\* An item that is there is taken, also when the delay has passed.
TakeMore ==
  /\ pc = "collect" /\ queue # <<>>
  /\ Collect(Pruned(items \cup {Head(queue)}))
  /\ queue' = Tail(queue)
  /\ UNCHANGED <<fut, workerOnly, expired, raises>>

DelayPasses ==
  /\ pc = "collect" /\ ~expired
  /\ expired' = TRUE
  /\ UNCHANGED <<fut, queue, items, pc, workerOnly, raises>>

\* wait_for gives up, possibly while an item is being put.
Timeout ==
  /\ pc = "collect" /\ expired
  /\ items' = StillWaiting(items)
  /\ pc' = "handling"
  /\ UNCHANGED <<fut, queue, workerOnly, expired, raises>>

\* The results come back in the order of the items: each its own.
Results == [j \in Jobs |-> IF j \in StillWaiting(items) THEN Correct(j) ELSE fut[j]]

Answer ==
  /\ pc = "handling"
  /\ fut' = Results
  /\ items' = {} /\ pc' = "idle"
  /\ UNCHANGED <<queue, workerOnly, expired, raises>>

\* _handle_work raised: every job of the batch gets the exception.  Mutant: the
\* jobs are left alone.
FailNobody == fut
FailWaiting == [j \in Jobs |-> IF j \in StillWaiting(items) THEN "raised" ELSE fut[j]]

Raise ==
  /\ pc = "handling" /\ raises < MaxRaises
  /\ raises' = raises + 1
  /\ fut' = FailWaiting
  /\ items' = {} /\ pc' = "sleeping"
  /\ UNCHANGED <<queue, workerOnly, expired>>

\* retry_loop calls run again.
Retry ==
  /\ pc = "sleeping"
  /\ pc' = "idle"
  /\ UNCHANGED <<fut, queue, workerOnly, items, expired, raises>>

\* The futures a stopping worker cancels.
ToCancel == futures

\* The worker is cancelled inside run: the queue is shut down.
Stop ==
  /\ pc \in {"idle", "collect", "handling"} /\ stops < MaxStops
  /\ stops' = stops + 1
  /\ shutdown' = TRUE /\ queue' = <<>>
  /\ fut' = [j \in Jobs |-> IF j \in ToCancel /\ ~Done(j) THEN "cancelled" ELSE fut[j]]
  /\ futures' = {}
  /\ items' = {} /\ pc' = "stopped"
  /\ UNCHANGED <<caller, expired, raises>>

\* The worker is cancelled in the sleep of retry_loop, outside run.
StopAsleep ==
  /\ pc = "sleeping" /\ stops < MaxStops
  /\ stops' = stops + 1
  /\ pc' = "stopped"
  /\ UNCHANGED <<fut, caller, queue, shutdown, futures, items, expired, raises>>

Worker == TakeFirst \/ TakeMore \/ DelayPasses \/ Timeout \/ Answer \/ Raise
          \/ Retry

Next ==
  \/ \E j \in Jobs : Enqueue(j) \/ CancelJob(j) \/ Wake(j)
  \/ Worker \/ Stop \/ StopAsleep

Spec == Init /\ [][Next]_vars
\* The loop runs its tasks, the delay passes, and _handle_work ends: the scopes
\* it runs in have timeouts.
FairSpec == Spec /\ WF_vars(Worker) /\ \A j \in Jobs : WF_vars(Wake(j))

-----------------------------------------------------------------------------
\* The type of every variable; a batch never grows beyond its size.
TypeOK ==
  /\ fut \in [Jobs -> {"pending", "ok", "err", "raised", "cancelled"}]
  /\ caller \in [Jobs -> {"before", "waiting", "ok", "err", "raised", "cancelled"}]
  /\ queue \in Seq(Jobs) /\ items \subseteq Jobs
  /\ Cardinality(items) <= batchsize
  /\ shutdown \in BOOLEAN /\ expired \in BOOLEAN
  /\ futures \subseteq Jobs
  /\ pc \in {"idle", "collect", "handling", "sleeping", "stopped"}
  /\ raises \in 0..MaxRaises /\ stops \in 0..MaxStops

\* A job is answered for its own item, whoever left the batch meanwhile.
OwnAnswer == \A j \in Jobs : fut[j] \in {"ok", "err"} => fut[j] = Correct(j)

\* A job that waits is in the queue or in the batch, through failing batches
\* and restarts of run: no item is dropped.
InHand ==
  pc # "stopped" =>
    \A j \in Jobs : caller[j] = "waiting" /\ ~Done(j) =>
      j \in ToSet(queue) \cup items
Consistent == TypeOK /\ InHand

\* A worker cancelled inside run leaves no job waiting, neither of its batch
\* nor of its queue, nor one that comes later.
NobodyLeftBehind ==
  shutdown => \A j \in Jobs : caller[j] = "waiting" => Done(j)

\* Every job comes back, unless the worker was stopped outside run.
CallersReturn ==
  \A j \in Jobs :
    caller[j] = "waiting" ~> caller[j] # "waiting" \/ (pc = "stopped" /\ ~shutdown)
=============================================================================
