--------------------------- MODULE PrimitivesProofs ---------------------------
(***************************************************************************)
(* What the primitives promise, for any tasks, callers, amounts, sizes and *)
(* bounds, as properties of PrimitivesSpec.                                *)
(*                                                                         *)
(* The semaphore.  Every action does one of four things to the set of      *)
(* owners and to value: nothing, add one owner for a free slot, drop one   *)
(* owner and free its slot, or replace one owner by another (OwnersStep).  *)
(* The conservation of slots and the refinement of SlotPool both follow    *)
(* from that.                                                              *)
(***************************************************************************)
EXTENDS MCPrimitives, FiniteSetTheorems, SequenceTheorems, NaturalsInduction, TLAPS

\* What is inductive: the type, where waiters and resolved clients are, no
\* idle slot, and the count of the slots.
Inv == TypeOK /\ WaiterInvariant /\ NoIdleSlot /\ SlotsConserved

LEMMA InitInv == Init => Inv
<1> SUFFICES ASSUME Init PROVE Inv
    OBVIOUS
<1>1. TypeOK /\ WaiterInvariant /\ NoIdleSlot
    BY SemaphoreAssumption DEF Init, TypeOK, WaiterInvariant, NoIdleSlot
<1>2. Owners = {}
    BY DEF Init, Owners
<1>3. SlotsConserved
    BY <1>2, FS_EmptySet, SemaphoreAssumption DEF SlotsConserved, Init
<1> QED
    BY <1>1, <1>3 DEF Inv

\* The type is preserved by every step.
LEMMA TypeStep == TypeOK /\ [Next]_vars => TypeOK'
<1> SUFFICES ASSUME TypeOK, [Next]_vars PROVE TypeOK'
    OBVIOUS
<1> USE SemaphoreAssumption DEF TypeOK
<1>1. ASSUME NEW c \in Clients, NEW p \in Priorities, AcquireFree(c, p)
      PROVE  TypeOK'
    BY <1>1 DEF AcquireFree
<1>2. ASSUME NEW c \in Clients, NEW p \in Priorities, Enqueue(c, p)
      PROVE  TypeOK'
    BY <1>2 DEF Enqueue
<1>3. ASSUME NEW c \in Clients, Resume(c) \/ Cancel(c) \/ CancelWaiting(c)
      PROVE  TypeOK'
    BY <1>3 DEF Resume, Cancel, CancelWaiting
<1>4. ASSUME NEW c \in Clients, CancelResolved(c)
      PROVE  TypeOK'
    BY <1>4 DEF CancelResolved, Release, Best
<1>5. ASSUME NEW c \in Clients, Leave(c)
      PROVE  TypeOK'
    BY <1>5 DEF Leave, Release, Best
<1>6. CASE UNCHANGED vars
    BY <1>6 DEF vars
<1> QED
    BY <1>1, <1>2, <1>3, <1>4, <1>5, <1>6 DEF Next

\* A client that waits is in the heap or resolved, never both; no slot is free
\* while somebody is in the heap.
LEMMA WaitersStep ==
  TypeOK /\ WaiterInvariant /\ NoIdleSlot /\ [Next]_vars
    => WaiterInvariant' /\ NoIdleSlot'
<1> SUFFICES ASSUME TypeOK, WaiterInvariant, NoIdleSlot, [Next]_vars
             PROVE  WaiterInvariant' /\ NoIdleSlot'
    OBVIOUS
<1> USE DEF TypeOK, WaiterInvariant, NoIdleSlot
<1>1. ASSUME NEW c \in Clients, NEW p \in Priorities, AcquireFree(c, p)
      PROVE  WaiterInvariant' /\ NoIdleSlot'
    BY <1>1 DEF AcquireFree
<1>2. ASSUME NEW c \in Clients, NEW p \in Priorities, Enqueue(c, p)
      PROVE  WaiterInvariant' /\ NoIdleSlot'
    BY <1>2 DEF Enqueue
<1>3. ASSUME NEW c \in Clients, Resume(c) \/ Cancel(c) \/ CancelWaiting(c)
      PROVE  WaiterInvariant' /\ NoIdleSlot'
    BY <1>3 DEF Resume, Cancel, CancelWaiting
<1>4. ASSUME NEW c \in Clients, CancelResolved(c)
      PROVE  WaiterInvariant' /\ NoIdleSlot'
    BY <1>4 DEF CancelResolved, Release, Best
<1>5. ASSUME NEW c \in Clients, Leave(c)
      PROVE  WaiterInvariant' /\ NoIdleSlot'
    BY <1>5 DEF Leave, Release, Best
<1>6. CASE UNCHANGED vars
    BY <1>6 DEF vars
<1> QED
    BY <1>1, <1>2, <1>3, <1>4, <1>5, <1>6 DEF Next

\* The four things a step may do to the owners of the slots.
Idle == Owners' = Owners /\ value' = value
Taken(c) == /\ c \notin Owners /\ Owners' = Owners \cup {c}
            /\ value > 0 /\ value' = value - 1
Given(c) == /\ c \in Owners /\ Owners' = Owners \ {c}
            /\ value' = value + 1
Passed(c, d) == /\ c \in Owners /\ d \notin Owners
                /\ Owners' = (Owners \ {c}) \cup {d}
                /\ value' = value

\* A release by an owner c gives its slot back or passes it to a waiter.
LEMMA ReleaseStep ==
  ASSUME TypeOK, WaiterInvariant, NEW c \in Owners,
         NEW done, Release(done),
         at' = [at EXCEPT ![c] = "out"], done = resolved \ {c}
  PROVE  Given(c) \/ \E d \in Clients : Passed(c, d)
<1> USE DEF TypeOK, WaiterInvariant, Owners
<1>1. CASE /\ waiters = {} /\ value' = value + 1
           /\ resolved' = done /\ UNCHANGED waiters
    BY <1>1 DEF Given
<1>2. CASE \E d \in Best : /\ waiters' = waiters \ {d}
                           /\ resolved' = done \cup {d}
                           /\ UNCHANGED value
  <2>1. PICK d \in Best : /\ resolved' = done \cup {d} /\ UNCHANGED value
      BY <1>2
  <2>2. d \in waiters /\ d \in Clients /\ d # c
      BY <2>1 DEF Best
  <2>3. Passed(c, d)
      BY <2>1, <2>2 DEF Passed
  <2> QED
      BY <2>2, <2>3
<1> QED
    BY <1>1, <1>2 DEF Release

LEMMA OwnersStep ==
  ASSUME TypeOK, WaiterInvariant, [Next]_vars
  PROVE  \/ Idle
         \/ \E c \in Clients : Taken(c) \/ Given(c)
         \/ \E c \in Clients, d \in Clients : Passed(c, d)
<1> USE DEF TypeOK, WaiterInvariant, Owners
<1> DEFINE Step == \/ Idle
                   \/ \E c \in Clients : Taken(c) \/ Given(c)
                   \/ \E c \in Clients, d \in Clients : Passed(c, d)
<1>1. ASSUME NEW c \in Clients, NEW p \in Priorities, AcquireFree(c, p)
      PROVE  Step
    BY <1>1 DEF AcquireFree, Taken
<1>2. ASSUME NEW c \in Clients, NEW p \in Priorities, Enqueue(c, p)
      PROVE  Step
    BY <1>2 DEF Enqueue, Idle
<1>3. ASSUME NEW c \in Clients, Resume(c) \/ Cancel(c) \/ CancelWaiting(c)
      PROVE  Step
    BY <1>3 DEF Resume, Cancel, CancelWaiting, Idle
<1>4. ASSUME NEW c \in Clients, CancelResolved(c)
      PROVE  Step
  <2>1. c \in Owners
      BY <1>4 DEF CancelResolved
  <2> QED
      BY <1>4, <2>1, ReleaseStep DEF CancelResolved
<1>5. ASSUME NEW c \in Clients, Leave(c)
      PROVE  Step
  <2>1. c \in Owners /\ resolved = resolved \ {c}
      BY <1>5 DEF Leave
  <2> QED
      BY <1>5, <2>1, ReleaseStep DEF Leave
<1>6. CASE UNCHANGED vars
    BY <1>6 DEF vars, Idle
<1> QED
    BY <1>1, <1>2, <1>3, <1>4, <1>5, <1>6 DEF Next

LEMMA OwnersFinite == TypeOK => IsFiniteSet(Owners)
<1> SUFFICES ASSUME TypeOK PROVE IsFiniteSet(Owners)
    OBVIOUS
<1>1. Owners \in SUBSET Clients
    BY DEF TypeOK, Owners
<1> QED
    BY <1>1, FS_Subset, SemaphoreAssumption

\* The count of the slots is preserved by every step.
LEMMA SlotsStep ==
  TypeOK /\ WaiterInvariant /\ SlotsConserved /\ [Next]_vars => SlotsConserved'
<1> SUFFICES ASSUME TypeOK, WaiterInvariant, SlotsConserved, [Next]_vars
             PROVE  SlotsConserved'
    OBVIOUS
<1>1. IsFiniteSet(Owners) /\ Cardinality(Owners) \in Nat
    BY OwnersFinite, FS_CardinalityType
<1>2. value \in Nat /\ value + Cardinality(Owners) = N /\ N \in Nat
    BY SemaphoreAssumption DEF TypeOK, SlotsConserved
<1>3. CASE Idle
    BY <1>2, <1>3 DEF Idle, SlotsConserved
<1>4. ASSUME NEW c \in Clients, Taken(c) PROVE SlotsConserved'
  <2>1. Cardinality(Owners') = Cardinality(Owners) + 1
      BY <1>1, <1>4, FS_AddElement DEF Taken
  <2> QED
      BY <1>1, <1>2, <1>4, <2>1 DEF Taken, SlotsConserved
<1>5. ASSUME NEW c \in Clients, Given(c) PROVE SlotsConserved'
  <2>1. Cardinality(Owners') = Cardinality(Owners) - 1
      BY <1>1, <1>5, FS_RemoveElement DEF Given
  <2> QED
      BY <1>1, <1>2, <1>5, <2>1 DEF Given, SlotsConserved
<1>6. ASSUME NEW c \in Clients, NEW d \in Clients, Passed(c, d)
      PROVE  SlotsConserved'
  <2>1. /\ IsFiniteSet(Owners \ {c})
        /\ Cardinality(Owners \ {c}) = Cardinality(Owners) - 1
      BY <1>1, <1>6, FS_RemoveElement DEF Passed
  <2>2. d \notin Owners \ {c} /\ Owners' = (Owners \ {c}) \cup {d}
      BY <1>6 DEF Passed
  <2>3. Cardinality(Owners') = Cardinality(Owners \ {c}) + 1
      BY <2>1, <2>2, FS_AddElement
  <2>4. Cardinality(Owners') = Cardinality(Owners)
      BY <1>1, <2>1, <2>3
  <2> QED
      BY <1>1, <1>2, <1>6, <2>4 DEF Passed, SlotsConserved
<1> QED
    BY OwnersStep, <1>3, <1>4, <1>5, <1>6

LEMMA InvStep == Inv /\ [Next]_vars => Inv'
  BY TypeStep, WaitersStep, SlotsStep DEF Inv

\* Type correctness, the docstring's waiter invariant, the conservation of the
\* slots and the absence of idle slots hold in every reachable state.
THEOREM SafetyOfSemaphore == Spec => []Inv
<1>1. Init => Inv
    BY InitInv
<1>2. Inv /\ [Next]_vars => Inv'
    BY InvStep
<1> QED
    BY <1>1, <1>2, PTL DEF Spec

THEOREM TypeCorrect == Spec => []TypeOK
<1>1. Inv => TypeOK
    BY DEF Inv
<1> QED
    BY <1>1, SafetyOfSemaphore, PTL

\* acquire and release lose no slot and make up none, whatever is cancelled.
THEOREM SlotsNeverLost == Spec => []SlotsConserved
<1>1. Inv => SlotsConserved
    BY DEF Inv
<1> QED
    BY <1>1, SafetyOfSemaphore, PTL

\* Nobody waits in the heap while a slot is free.
THEOREM NobodyWaitsForNothing == Spec => []NoIdleSlot
<1>1. Inv => NoIdleSlot
    BY DEF Inv
<1> QED
    BY <1>1, SafetyOfSemaphore, PTL

\* The invariant the docstring of PrioritySemaphore claims.
THEOREM WaiterInvariantHolds == Spec => []WaiterInvariant
<1>1. Inv => WaiterInvariant
    BY DEF Inv
<1> QED
    BY <1>1, SafetyOfSemaphore, PTL

\* Neither a slot nor a waiter gets lost.
THEOREM SemaphoreIsKept == Spec => []SemaphoreKept
BY SlotsNeverLost, WaiterInvariantHolds, PTL DEF SemaphoreKept

\* No client enters past a waiter, and a slot that is passed on goes to a
\* waiter no other one is better than.
THEOREM PriorityRespected == Spec => NoOvertaking
<1> DEFINE Fair == /\ \A c \in Clients :
                        at[c] = "out" /\ at'[c] = "inside" => waiters = {}
                   /\ \A c \in resolved' \ resolved, d \in waiters' :
                        priority[c] <= priority[d]
<1>1. Inv /\ [Next]_vars => [Fair]_vars
  <2> SUFFICES ASSUME Inv, Next PROVE Fair
      OBVIOUS
  <2> USE DEF Inv, TypeOK, NoIdleSlot, WaiterInvariant
  <2>1. ASSUME NEW c \in Clients, NEW p \in Priorities, AcquireFree(c, p)
        PROVE  Fair
      BY <2>1 DEF AcquireFree
  <2>2. ASSUME NEW c \in Clients, NEW p \in Priorities, Enqueue(c, p)
        PROVE  Fair
      BY <2>2 DEF Enqueue
  <2>3. ASSUME NEW c \in Clients, Resume(c) \/ Cancel(c) \/ CancelWaiting(c)
        PROVE  Fair
      BY <2>3 DEF Resume, Cancel, CancelWaiting
  <2>4. ASSUME NEW c \in Clients, CancelResolved(c)
        PROVE  Fair
      BY <2>4 DEF CancelResolved, Release, Best
  <2>5. ASSUME NEW c \in Clients, Leave(c)
        PROVE  Fair
      BY <2>5 DEF Leave, Release, Best
  <2> QED
      BY <2>1, <2>2, <2>3, <2>4, <2>5 DEF Next
<1>2. (NoOvertaking <=> [][Fair]_vars)
    BY DEF NoOvertaking
<1> QED
    BY <1>1, <1>2, SafetyOfSemaphore, PTL DEF Spec

\* The semaphore implements a pool of N slots.
THEOREM SemaphoreIsAPool == Spec => ImplementsSlotPool
<1>1. Init => Pool!Init
    BY DEF Init, Pool!Init, Owners
<1>2. Inv /\ [Next]_vars => [Pool!Next]_(Owners)
  <2> SUFFICES ASSUME Inv, [Next]_vars PROVE Pool!Next \/ UNCHANGED Owners
      OBVIOUS
  <2>1. \/ Idle
        \/ \E c \in Clients : Taken(c) \/ Given(c)
        \/ \E c \in Clients, d \in Clients : Passed(c, d)
      BY OwnersStep DEF Inv
  <2>2. ASSUME NEW c \in Clients, Taken(c) PROVE Pool!Take(c)
    <3>1. Cardinality(Owners) \in Nat /\ value + Cardinality(Owners) = N
        BY OwnersFinite, FS_CardinalityType DEF Inv, SlotsConserved
    <3>2. value \in Nat /\ N \in Nat
        BY SemaphoreAssumption DEF Inv, TypeOK
    <3>3. Cardinality(Owners) < N
        BY <2>2, <3>1, <3>2 DEF Taken
    <3>4. Pool!Cardinality(Owners) = Cardinality(Owners)
        BY DEF Pool!Cardinality, Cardinality
    <3> QED
        BY <2>2, <3>3, <3>4 DEF Taken, Pool!Take
  <2>3. ASSUME NEW c \in Clients, Given(c) PROVE Pool!Give(c)
      BY <2>3 DEF Given, Pool!Give
  <2>4. ASSUME NEW c \in Clients, NEW d \in Clients, Passed(c, d)
        PROVE  Pool!Pass(c, d)
      BY <2>4 DEF Passed, Pool!Pass
  <2> QED
      BY <2>1, <2>2, <2>3, <2>4 DEF Idle, Pool!Next
<1> QED
    BY <1>1, <1>2, SafetyOfSemaphore, PTL
       DEF Spec, ImplementsSlotPool, Pool!Spec

-----------------------------------------------------------------------------
(* The batch worker. *)

\* The sets of the instance are the sets of the library.
LEMMA BulkSets ==
  /\ \A S : Bulk!IsFiniteSet(S) <=> IsFiniteSet(S)
  /\ \A S : Bulk!Cardinality(S) = Cardinality(S)
<1>1. \A S : Bulk!IsFiniteSet(S) <=> IsFiniteSet(S)
    BY DEF Bulk!IsFiniteSet, IsFiniteSet
<1>2. \A S : Bulk!Cardinality(S) = Cardinality(S)
    BY DEF Bulk!Cardinality, Cardinality
<1> QED
    BY <1>1, <1>2

\* Every job that waits is registered and in hand, and a batch is empty between two.
BulkTypes ==
  /\ fut \in [Jobs -> {"pending", "ok", "err", "raised", "cancelled"}]
  /\ caller \in [Jobs -> {"before", "waiting", "ok", "err", "raised", "cancelled"}]
  /\ batch \in Seq(Jobs) /\ items \subseteq Jobs
  /\ shutdown \in BOOLEAN /\ expired \in BOOLEAN /\ futures \subseteq Jobs
  /\ worker \in {"idle", "collect", "handling", "sleeping", "stopped"}
  /\ raises \in 0..MaxRaises /\ stops \in 0..MaxStops

BatchFits ==
  /\ worker \in {"idle", "sleeping", "stopped"} => items = {}
  /\ Cardinality(items) <= batchsize
  /\ worker = "collect" => Cardinality(items) < batchsize

Unanswered(j) == caller[j] = "waiting" /\ ~Bulk!Done(j)

Awaited ==
  \A j \in Jobs : Unanswered(j) =>
    /\ j \in futures /\ ~shutdown
    /\ worker # "stopped" => j \in items \/ \E i \in DOMAIN batch : batch[i] = j

BulkInv == BulkTypes /\ BatchFits /\ Awaited /\ Bulk!OwnAnswer

LEMMA BulkInitInv == ASSUME Bulk!BulkAssumption, Bulk!Init PROVE BulkInv
<1> USE DEF Bulk!Init, Bulk!BulkAssumption
<1>1. BulkTypes
  <2>1. batch \in Seq(Jobs)
      BY EmptySeq
  <2>2. raises \in 0..MaxRaises /\ stops \in 0..MaxStops
      OBVIOUS
  <2>3. /\ fut \in [Jobs -> {"pending", "ok", "err", "raised", "cancelled"}]
        /\ caller \in [Jobs -> {"before", "waiting", "ok", "err", "raised", "cancelled"}]
      OBVIOUS
  <2> QED
      BY <2>1, <2>2, <2>3 DEF BulkTypes
<1>2. BatchFits
    BY FS_EmptySet DEF BatchFits
<1>3. Awaited /\ Bulk!OwnAnswer
    BY DEF Awaited, Unanswered, Bulk!OwnAnswer
<1> QED
    BY <1>1, <1>2, <1>3 DEF BulkInv

\* The futures that are pending after a step were before.
LEMMA BatchIsFinite ==
  ASSUME Bulk!BulkAssumption, NEW S \in SUBSET Jobs
  PROVE  /\ IsFiniteSet(S) /\ Cardinality(S) \in Nat
         /\ Cardinality(Bulk!StillWaiting(S)) <= Cardinality(S)
         /\ Cardinality(Bulk!StillWaiting(S)) \in Nat
<1>1. IsFiniteSet(S)
    BY FS_Subset, BulkSets DEF Bulk!BulkAssumption
<1>2. Bulk!StillWaiting(S) \in SUBSET S
    BY DEF Bulk!StillWaiting
<1> QED
    BY <1>1, <1>2, FS_Subset, FS_CardinalityType

LEMMA EnqueueInv ==
  ASSUME Bulk!BulkAssumption, BulkInv, NEW j \in Jobs, Bulk!Enqueue(j) PROVE BulkInv'
<1> USE DEF BulkInv, Bulk!Enqueue, Bulk!callerOnly
<1>1. CASE shutdown
  <2>1. /\ caller' = [caller EXCEPT ![j] = "raised"] /\ batch' = batch
        /\ futures' = futures \cup {j}
      BY <1>1
  <2>2. BulkTypes'
      BY <2>1 DEF BulkTypes
  <2>3. Awaited'
      BY <2>1 DEF Awaited, Unanswered, Bulk!Done, BulkTypes
  <2> QED
      BY <2>2, <2>3 DEF BatchFits, Bulk!OwnAnswer
<1>2. CASE ~ shutdown
  <2>1. /\ caller' = [caller EXCEPT ![j] = "waiting"] /\ batch' = Append(batch, j)
        /\ futures' = futures \cup {j} /\ shutdown' = shutdown
      BY <1>2
  <2>2. /\ batch' \in Seq(Jobs) /\ DOMAIN batch \subseteq DOMAIN batch'
        /\ \A i \in DOMAIN batch : batch'[i] = batch[i]
        /\ \E i \in DOMAIN batch' : batch'[i] = j
    <3>1. Len(batch) \in Nat /\ DOMAIN batch = 1..Len(batch)
        BY LenProperties DEF BulkTypes
    <3>2. /\ batch' \in Seq(Jobs) /\ Len(batch') = Len(batch) + 1
          /\ \A i \in 1..Len(batch) : batch'[i] = batch[i]
          /\ batch'[Len(batch) + 1] = j
        BY <2>1, AppendProperties DEF BulkTypes
    <3>3. DOMAIN batch' = 1..Len(batch')
        BY <3>2, LenProperties
    <3> QED
        BY <3>1, <3>2, <3>3
  <2>3. BulkTypes'
      BY <2>1, <2>2 DEF BulkTypes
  <2>4. Awaited'
    <3> SUFFICES ASSUME NEW h \in Jobs, Unanswered(h)'
                 PROVE  /\ h \in futures' /\ ~shutdown'
                        /\ worker' # "stopped" =>
                             h \in items' \/ \E i \in DOMAIN batch' : batch'[i] = h
        BY DEF Awaited
    <3>1. h = j \/ Unanswered(h)
        BY <2>1 DEF Unanswered, Bulk!Done, BulkTypes
    <3> QED
        BY <1>2, <2>1, <2>2, <3>1 DEF Awaited
  <2> QED
      BY <2>3, <2>4 DEF BatchFits, Bulk!OwnAnswer
<1> QED
    BY <1>1, <1>2

LEMMA CancelJobInv ==
  ASSUME Bulk!BulkAssumption, BulkInv, NEW j \in Jobs, Bulk!CancelJob(j) \/ Bulk!Wake(j)
  PROVE  BulkInv'
<1> USE DEF BulkInv, Bulk!CancelJob, Bulk!Wake, Bulk!callerOnly
<1>1. BulkTypes'
  <2>1. CASE Bulk!CancelJob(j)
      BY <2>1 DEF BulkTypes
  <2>2. CASE Bulk!Wake(j)
    <3>1. caller' \in [Jobs -> {"before", "waiting", "ok", "err", "raised", "cancelled"}]
        BY <2>2 DEF BulkTypes, Bulk!Done
    <3> QED
        BY <2>2, <3>1 DEF BulkTypes
  <2> QED
      BY <2>1, <2>2
<1>2. Awaited'
    BY DEF Awaited, Unanswered, Bulk!Done, BulkTypes
<1>3. Bulk!OwnAnswer'
    BY DEF Bulk!OwnAnswer, BulkTypes
<1> QED
    BY <1>1, <1>2, <1>3 DEF BatchFits

\* The next item of the queue is in the batch.
LEMMA TakenOff ==
  ASSUME BulkInv, batch # <<>>, batch' = Tail(batch)
  PROVE  /\ Head(batch) \in Jobs /\ batch' \in Seq(Jobs)
         /\ \A i \in DOMAIN batch : batch[i] # Head(batch) =>
              \E n \in DOMAIN batch' : batch'[n] = batch[i]
<1>1. Len(batch) \in Nat \ {0} /\ DOMAIN batch = 1..Len(batch)
    BY LenProperties, EmptySeq DEF BulkInv, BulkTypes
<1>2. /\ Head(batch) \in Jobs /\ batch' \in Seq(Jobs) /\ Len(batch') = Len(batch) - 1
      /\ \A i \in 1..Len(batch') : batch'[i] = batch[i + 1]
    BY HeadTailProperties DEF BulkInv, BulkTypes
<1>3. DOMAIN batch' = 1..Len(batch')
    BY <1>2, LenProperties
<1>4. Head(batch) = batch[1]
    OBVIOUS
<1>5. ASSUME NEW i \in DOMAIN batch, batch[i] # Head(batch)
      PROVE  \E n \in DOMAIN batch' : batch'[n] = batch[i]
  <2>1. i - 1 \in DOMAIN batch' /\ batch'[i - 1] = batch[i]
      BY <1>1, <1>2, <1>3, <1>4, <1>5
  <2> QED
      BY <2>1
<1> QED
    BY <1>2, <1>5

LEMMA TakeInv ==
  ASSUME Bulk!BulkAssumption, BulkInv, Bulk!TakeFirst \/ Bulk!TakeMore PROVE BulkInv'
<1> USE DEF BulkInv
<1>1. PICK B \in SUBSET Jobs :
        /\ items' = B /\ worker' = IF Bulk!Full(B) THEN "handling" ELSE "collect"
        /\ Cardinality(B) <= batchsize
        /\ \A j \in Jobs : (j \in items \/ j = Head(batch)) /\ ~Bulk!Done(j) => j \in B
  <2>1. Head(batch) \in Jobs
      BY TakenOff DEF Bulk!TakeFirst, Bulk!TakeMore
  <2>2. CASE Bulk!TakeFirst
    <3>1. /\ items' = {Head(batch)} /\ items = {}
          /\ worker' = IF Bulk!Full({Head(batch)}) THEN "handling" ELSE "collect"
        BY <2>2 DEF Bulk!TakeFirst, Bulk!Collect, BatchFits
    <3>2. Cardinality({Head(batch)}) <= batchsize
      <4>1. Cardinality({Head(batch)}) = 1
          BY FS_Singleton
      <4> QED
          BY <4>1 DEF Bulk!BulkAssumption
    <3> QED
        BY <2>1, <3>1, <3>2
  <2>3. CASE Bulk!TakeMore
    <3> DEFINE more == items \cup {Head(batch)}
    <3>1. /\ items' = Bulk!Pruned(more)
          /\ worker' = IF Bulk!Full(Bulk!Pruned(more)) THEN "handling" ELSE "collect"
          /\ Cardinality(items) < batchsize
        BY <2>3 DEF Bulk!TakeMore, Bulk!Collect, BatchFits
    <3>2. more \in SUBSET Jobs
        BY <2>1 DEF BulkTypes
    <3>3. Cardinality(more) <= Cardinality(items) + 1 /\ Cardinality(items) \in Nat
      <4>1. IsFiniteSet(items) /\ Cardinality(items) \in Nat
          BY BatchIsFinite DEF BulkTypes
      <4>2. PICK h : h = Head(batch)
          OBVIOUS
      <4>3. Cardinality(items \cup {h}) = IF h \in items THEN Cardinality(items)
                                                        ELSE Cardinality(items) + 1
          BY <4>1, FS_AddElement
      <4> QED
          BY <4>1, <4>2, <4>3
    <3>4. /\ Bulk!Pruned(more) \in SUBSET more
          /\ \A j \in more : ~Bulk!Done(j) => j \in Bulk!Pruned(more)
        BY DEF Bulk!Pruned, Bulk!StillWaiting
    <3>5. Cardinality(Bulk!Pruned(more)) <= Cardinality(more)
      <4> HIDE DEF more
      <4> QED
          BY <3>2, <3>4, BatchIsFinite, FS_Subset
    <3>6. Cardinality(Bulk!Pruned(more)) \in Nat /\ Cardinality(more) \in Nat
      <4> HIDE DEF more
      <4>1. Bulk!Pruned(more) \in SUBSET Jobs
          BY <3>2, <3>4
      <4> QED
          BY <3>2, <4>1, BatchIsFinite
    <3>7. Cardinality(Bulk!Pruned(more)) <= batchsize
      <4> HIDE DEF more
      <4> QED
          BY <3>1, <3>3, <3>5, <3>6 DEF Bulk!BulkAssumption
    <3>8. \A j \in Jobs : (j \in items \/ j = Head(batch)) /\ ~Bulk!Done(j)
          => j \in Bulk!Pruned(more)
        BY <3>4
    <3>9. Bulk!Pruned(more) \in SUBSET Jobs
        BY <3>2, <3>4
    <3> HIDE DEF more
    <3> QED
        BY <3>1, <3>7, <3>8, <3>9
  <2> QED
      BY <2>2, <2>3
<1>2. /\ batch # <<>> /\ batch' = Tail(batch) /\ worker \in {"idle", "collect"}
      /\ expired' \in BOOLEAN
      /\ UNCHANGED <<fut, caller, shutdown, futures, stops, raises>>
    BY DEF Bulk!TakeFirst, Bulk!TakeMore, Bulk!workerOnly, BulkTypes
<1>3. BulkTypes'
    BY <1>1, <1>2, TakenOff DEF BulkTypes
<1>4. BatchFits'
  <2>1. Cardinality(B) \in Nat
      BY BatchIsFinite
  <2> QED
      BY <1>1, <2>1, BulkSets DEF BatchFits, Bulk!Full, Bulk!BulkAssumption
<1>5. Awaited'
  <2> SUFFICES ASSUME NEW j \in Jobs, Unanswered(j)'
               PROVE  /\ j \in futures' /\ ~shutdown'
                      /\ j \in items' \/ \E i \in DOMAIN batch' : batch'[i] = j
      BY DEF Awaited
  <2>1. Unanswered(j)
      BY <1>2 DEF Unanswered, Bulk!Done
  <2>2. j \in futures /\ ~shutdown /\ (j \in items \/ \E i \in DOMAIN batch : batch[i] = j)
      BY <1>2, <2>1 DEF Awaited
  <2>3. j \in items' \/ \E i \in DOMAIN batch' : batch'[i] = j
    <3>1. CASE j \in items \/ j = Head(batch)
        BY <1>1, <2>1, <3>1 DEF Unanswered
    <3>2. CASE j # Head(batch) /\ \E i \in DOMAIN batch : batch[i] = j
        BY <1>2, <3>2, TakenOff
    <3> QED
        BY <2>2, <3>1, <3>2
  <2> QED
      BY <1>2, <2>2, <2>3
<1>6. Bulk!OwnAnswer'
    BY <1>2 DEF Bulk!OwnAnswer
<1> QED
    BY <1>3, <1>4, <1>5, <1>6

LEMMA TimeoutInv ==
  ASSUME Bulk!BulkAssumption, BulkInv, Bulk!Timeout PROVE BulkInv'
<1> USE DEF BulkInv, Bulk!Timeout, Bulk!workerOnly
<1>1. items' = Bulk!StillWaiting(items) /\ items' \subseteq items
    BY DEF Bulk!StillWaiting
<1>2. BulkTypes'
    BY <1>1 DEF BulkTypes
<1>3. BatchFits'
  <2>1. /\ Cardinality(Bulk!StillWaiting(items)) <= Cardinality(items)
        /\ Cardinality(items) \in Nat /\ Cardinality(Bulk!StillWaiting(items)) \in Nat
      BY BatchIsFinite DEF BulkTypes
  <2> QED
      BY <1>1, <2>1 DEF BatchFits, Bulk!BulkAssumption
<1>4. Awaited'
    BY DEF Awaited, Unanswered, Bulk!StillWaiting, Bulk!Done, BulkTypes
<1> QED
    BY <1>2, <1>3, <1>4 DEF Bulk!OwnAnswer

\* The batch is over: everybody in it that waits has an answer or an exception.
LEMMA BatchOverInv ==
  ASSUME Bulk!BulkAssumption, BulkInv, Bulk!Answer \/ Bulk!Raise PROVE BulkInv'
<1> USE DEF BulkInv, Bulk!Answer, Bulk!Raise, Bulk!workerOnly
<1>1. /\ fut' \in [Jobs -> {"pending", "ok", "err", "raised", "cancelled"}]
      /\ \A j \in Jobs : fut'[j] \in {"ok", "err"} => fut'[j] = Bulk!Correct(j)
      /\ \A j \in Jobs : fut'[j] = "pending" => fut[j] = "pending" /\ j \notin items
  <2> USE DEF Bulk!StillWaiting, Bulk!Done, Bulk!Correct, BulkTypes
  <2>1. CASE fut' = Bulk!Results
      BY <2>1 DEF Bulk!Results, Bulk!OwnAnswer
  <2>2. CASE fut' = Bulk!FailWaiting
      BY <2>2 DEF Bulk!FailWaiting, Bulk!OwnAnswer
  <2> QED
      BY <2>1, <2>2
<1>2. /\ items' = {} /\ worker' \in {"idle", "sleeping"} /\ worker = "handling"
      /\ raises' \in 0..MaxRaises
      /\ UNCHANGED <<batch, caller, shutdown, futures, stops, expired>>
    BY DEF BulkTypes, Bulk!BulkAssumption
<1>3. BulkTypes'
    BY <1>1, <1>2 DEF BulkTypes
<1>4. BatchFits'
    BY <1>2, FS_EmptySet DEF BatchFits, Bulk!BulkAssumption
<1>5. Awaited'
    BY <1>1, <1>2 DEF Awaited, Unanswered, Bulk!Done
<1>6. Bulk!OwnAnswer'
    BY <1>1 DEF Bulk!OwnAnswer, Bulk!Correct
<1> QED
    BY <1>3, <1>4, <1>5, <1>6

\* The worker is stopped: inside run it leaves nobody behind.
LEMMA StopInv ==
  ASSUME Bulk!BulkAssumption, BulkInv, Bulk!Stop PROVE BulkInv'
<1> USE DEF BulkInv, Bulk!Stop
<1>1. \A j \in Jobs : fut'[j] \in {fut[j], "cancelled"} /\ ~ Unanswered(j)'
    BY DEF Awaited, Unanswered, Bulk!ToCancel, Bulk!Done, BulkTypes
<1>2. BulkTypes'
    BY DEF BulkTypes, Bulk!BulkAssumption
<1>3. BatchFits'
    BY FS_EmptySet DEF BatchFits, Bulk!BulkAssumption
<1>4. Awaited' /\ Bulk!OwnAnswer'
    BY <1>1 DEF Awaited, Bulk!OwnAnswer, Bulk!Correct
<1> QED
    BY <1>2, <1>3, <1>4

LEMMA BulkNextInv ==
  ASSUME Bulk!BulkAssumption, BulkInv, [Bulk!Next]_(Bulk!vars) PROVE BulkInv'
<1> USE DEF Bulk!workerOnly
<1>1. CASE UNCHANGED Bulk!vars
    BY <1>1 DEF Bulk!vars, BulkInv, BulkTypes, BatchFits, Awaited, Unanswered, Bulk!Done,
       Bulk!OwnAnswer, Bulk!Correct
<1>2. CASE Bulk!DelayPasses
    BY <1>2 DEF Bulk!DelayPasses, BulkInv, BulkTypes, BatchFits, Awaited, Unanswered,
       Bulk!Done, Bulk!OwnAnswer, Bulk!Correct
<1>3. CASE Bulk!Retry
    BY <1>3 DEF Bulk!Retry, BulkInv, BulkTypes, BatchFits, Awaited, Unanswered,
       Bulk!Done, Bulk!OwnAnswer, Bulk!Correct
<1>4. CASE Bulk!StopAsleep
    BY <1>4 DEF Bulk!StopAsleep, BulkInv, BulkTypes, BatchFits, Awaited, Unanswered,
       Bulk!Done, Bulk!OwnAnswer, Bulk!Correct, Bulk!BulkAssumption
<1> QED
    BY <1>1, <1>2, <1>3, <1>4, EnqueueInv, CancelJobInv, TakeInv, TimeoutInv, BatchOverInv,
       StopInv DEF Bulk!Next, Bulk!Worker

LEMMA BulkIsSafe ==
  ASSUME Bulk!BulkAssumption, BulkInv
  PROVE  Bulk!Consistent /\ Bulk!OwnAnswer /\ Bulk!NobodyLeftBehind
<1> USE DEF BulkInv
<1>1. Bulk!TypeOK
    BY BulkSets DEF BulkTypes, BatchFits, Bulk!TypeOK
<1>2. Bulk!InHand
    BY DEF Awaited, Unanswered, Bulk!InHand, Bulk!ToSet
<1>3. Bulk!NobodyLeftBehind
    BY DEF Awaited, Unanswered, Bulk!NobodyLeftBehind
<1> QED
    BY <1>1, <1>2, <1>3 DEF Bulk!Consistent

-----------------------------------------------------------------------------
(* The cache.  LockGroup keeps one lock per key for exactly as long as somebody uses it.  A key *)
(* that somebody has locked is not evicted, so who waited for its result finds it, and the      *)
(* cache outgrows its limit only by such keys.  The order in which a lock serves its waiters    *)
(* plays no part in this. *)

\* The sizes of sets are those of FiniteSets.
LEMMA AlruSets ==
  \A S : (Alru!IsFiniteSet(S) <=> IsFiniteSet(S)) /\ Alru!Cardinality(S) = Cardinality(S)
    BY DEF Cardinality, Alru!Cardinality, IsFiniteSet, Alru!IsFiniteSet

LockUsers(k) == {c \in Callers : key[c] = k}

AlruTypes ==
  /\ locks \in [Keys -> Locks \cup {None}] /\ count \in [Locks -> Nat]
  /\ holder \in [Locks -> Callers \cup {None}]
  /\ pc \in [Callers -> {"idle", "waiting", "calling"}]
  /\ key \in [Callers -> Keys \cup {None}] /\ state \in [Callers -> Locks \cup {None}]

\* Who is in a call uses the lock of its key, which is a lock object.
InCalls ==
  \A c \in Callers :
    /\ pc[c] = "idle" => key[c] = None
    /\ key[c] # None => state[c] = locks[key[c]] /\ state[c] # None
    /\ pc[c] # "idle" => key[c] # None

\* No lock object serves two keys.
LocksApart == \A j, k \in Keys : locks[j] = locks[k] /\ locks[k] # None => j = k

\* A lock counts the users of its key; one without a key has none.
UsersCounted ==
  /\ \A k \in Keys : locks[k] # None =>
       count[locks[k]] = Alru!Cardinality(LockUsers(k)) /\ LockUsers(k) # {}
  /\ \A l \in Locks : (\A k \in Keys : locks[k] # l) => count[l] = 0

\* Who calls the function holds the lock.
CallersHold == \A c \in Callers : pc[c] = "calling" => holder[state[c]] = c

AlruInv == AlruTypes /\ InCalls /\ LocksApart /\ UsersCounted /\ CallersHold

LEMMA LockUsersAreFinite ==
  ASSUME Alru!AlruAssumption, NEW k
  PROVE  Alru!IsFiniteSet(LockUsers(k)) /\ Alru!Cardinality(LockUsers(k)) \in Nat
    BY FS_Subset, FS_CardinalityType, AlruSets DEF Alru!AlruAssumption, LockUsers

LEMMA AlruInitInv == ASSUME Alru!AlruAssumption, Alru!Init PROVE AlruInv
<1> USE DEF Alru!Init, Alru!AlruAssumption
<1>1. AlruTypes
    BY DEF AlruTypes
<1>2. InCalls /\ LocksApart /\ CallersHold
    BY DEF InCalls, LocksApart, CallersHold
<1>3. UsersCounted
    BY DEF UsersCounted
<1> QED
    BY <1>1, <1>2, <1>3 DEF AlruInv

\* A caller comes: the lock of the key is there already, or is made.
LEMMA MissInv ==
  ASSUME Alru!AlruAssumption, AlruInv, NEW c \in Callers, NEW k \in Keys, Alru!Miss(c,
         k) PROVE AlruInv'
<1> USE DEF AlruInv
<1>1. PICK l \in IF locks[k] # None THEN {locks[k]} ELSE Alru!Unused :
        /\ locks' = [locks EXCEPT ![k] = l]
        /\ count' = [count EXCEPT ![l] = @ + 1]
        /\ state' = [state EXCEPT ![c] = l]
        /\ \/ /\ holder[l] = None
              /\ holder' = [holder EXCEPT ![l] = c]
              /\ pc' = [pc EXCEPT ![c] = "calling"]
           \/ /\ pc' = [pc EXCEPT ![c] = "waiting"]
              /\ holder' = holder
    BY DEF Alru!Miss
<1>2. /\ pc[c] = "idle" /\ key[c] = None
      /\ key' = [key EXCEPT ![c] = k]
    BY DEF Alru!Miss, InCalls
<1>3. /\ l \in Locks /\ l # None /\ k # None /\ c # None
      /\ \A j \in Keys \ {k} : locks[j] # l
      /\ locks[k] # None => l = locks[k]
      /\ locks[k] = None => \A j \in Keys : locks[j] # l
    BY <1>1 DEF AlruTypes, Alru!AlruAssumption, Alru!Unused, LocksApart
<1>4. AlruTypes'
    BY <1>1, <1>2, <1>3 DEF AlruTypes
<1>5. locks[k] = None => LockUsers(k) = {}
    BY <1>3 DEF InCalls, LockUsers
<1>6. /\ LockUsers(k)' = LockUsers(k) \cup {c} /\ c \notin LockUsers(k)
      /\ \A j \in Keys \ {k} : LockUsers(j)' = LockUsers(j)
    BY <1>2, <1>3 DEF LockUsers, AlruTypes, Alru!AlruAssumption
<1>7. count[l] = Alru!Cardinality(LockUsers(k))
    BY <1>3, <1>5, FS_EmptySet, AlruSets DEF UsersCounted
<1>8. InCalls'
  <2>1. \A d \in Callers \ {c} : key[d] # None => state[d] = locks'[key[d]]
      BY <1>1, <1>3 DEF InCalls, AlruTypes
  <2> QED
      BY <1>1, <1>2, <1>3, <2>1 DEF InCalls, AlruTypes
<1>9. LocksApart'
    BY <1>1, <1>3 DEF LocksApart, AlruTypes
<1>10. UsersCounted'
  <2>1. locks'[k] = l /\ count'[l] = count[l] + 1
      BY <1>1, <1>3 DEF AlruTypes
  <2>2. Alru!Cardinality(LockUsers(k)') = Alru!Cardinality(LockUsers(k)) + 1 /\ LockUsers(k)' # {}
      BY <1>6, LockUsersAreFinite, FS_AddElement, AlruSets, ZenonT(40)
  <2>3. \A j \in Keys \ {k} :
          locks'[j] = locks[j] /\ (locks[j] # None => count'[locks[j]] = count[locks[j]])
      BY <1>1, <1>3 DEF AlruTypes
  <2>4. ASSUME NEW m \in Locks \ {l}, \A j \in Keys : locks'[j] # m PROVE count'[m] = 0
    <3>1. \A j \in Keys : locks[j] # m
        BY <1>3, <2>3, <2>4 DEF Alru!AlruAssumption
    <3>2. count'[m] = count[m]
        BY <1>1, <1>3 DEF AlruTypes
    <3> QED
        BY <3>1, <3>2 DEF UsersCounted
  <2> QED
      BY <1>6, <1>7, <2>1, <2>2, <2>3, <2>4, ZenonT(40) DEF UsersCounted
<1>11. CallersHold'
  <2> SUFFICES ASSUME NEW d \in Callers, pc'[d] = "calling" PROVE holder'[state'[d]] = d
      BY DEF CallersHold
  <2>1. CASE d = c
      BY <1>1, <1>3, <2>1 DEF AlruTypes
  <2>2. CASE d # c
    <3>1. pc[d] = "calling" /\ state'[d] = state[d] /\ holder[state[d]] = d
        BY <1>1, <2>2 DEF CallersHold, AlruTypes
    <3>2. state[d] \in Locks /\ d # None
        BY <3>1 DEF InCalls, AlruTypes, Alru!AlruAssumption
    <3> QED
        BY <1>1, <3>1, <3>2 DEF AlruTypes
  <2> QED
      BY <2>1, <2>2
<1> QED
    BY <1>4, <1>8, <1>9, <1>10, <1>11

\* A caller leaves, and the lock goes with the last one.
LEMMA LeaveInv ==
  ASSUME Alru!AlruAssumption, AlruInv, NEW c \in Callers, pc[c] # "idle", Alru!Leave(c),
         \/ pc[c] = "waiting" /\ UNCHANGED holder
         \/ pc[c] = "calling" /\ holder' = [holder EXCEPT ![state[c]] = None]
  PROVE  AlruInv'
<1> USE DEF AlruInv
<1>1. PICK k \in Keys, l \in Locks :
        k = key[c] /\ l = state[c] /\ l = locks[k] /\ l # None /\ k # None
    BY DEF InCalls, AlruTypes
<1>2. /\ count' = [count EXCEPT ![l] = count[l] - 1]
      /\ locks' = IF count[l] = 1 THEN [locks EXCEPT ![k] = None] ELSE locks
      /\ pc' = [pc EXCEPT ![c] = "idle"]
      /\ key' = [key EXCEPT ![c] = None]
      /\ state' = [state EXCEPT ![c] = None]
    BY <1>1 DEF Alru!Leave, Alru!ReleaseKey, AlruTypes
<1>3. /\ LockUsers(k)' = LockUsers(k) \ {c} /\ c \in LockUsers(k)
      /\ \A j \in Keys \ {k} : LockUsers(j)' = LockUsers(j)
    BY <1>1, <1>2 DEF LockUsers, AlruTypes, Alru!AlruAssumption
<1>4. \A j \in Keys \ {k} : locks[j] # l
    BY <1>1 DEF LocksApart
<1>5. count[l] = Alru!Cardinality(LockUsers(k)) /\ count[l] \in Nat \ {0}
    BY <1>1, <1>3, LockUsersAreFinite, FS_EmptySet, AlruSets DEF UsersCounted
<1>6. /\ Alru!Cardinality(LockUsers(k)') = count[l] - 1
      /\ LockUsers(k)' = {} <=> count[l] = 1
  <2>1. /\ Alru!IsFiniteSet(LockUsers(k) \ {c})
        /\ Alru!Cardinality(LockUsers(k) \ {c}) = count[l] - 1
      BY <1>3, <1>5, LockUsersAreFinite, FS_RemoveElement, AlruSets
  <2>2. LockUsers(k) \ {c} = {} <=> count[l] - 1 = 0
      BY <2>1, FS_EmptySet, AlruSets
  <2> QED
      BY <1>3, <1>5, <2>1, <2>2
<1>7. AlruTypes'
  <2>1. count' \in [Locks -> Nat]
      BY <1>1, <1>2, <1>5 DEF AlruTypes
  <2>2. locks' \in [Keys -> Locks \cup {None}]
      BY <1>1, <1>2 DEF AlruTypes
  <2>3. holder' \in [Locks -> Callers \cup {None}]
      BY DEF AlruTypes
  <2> QED
      BY <1>2, <2>1, <2>2, <2>3 DEF AlruTypes
<1>8. InCalls'
  <2>1. ASSUME NEW d \in Callers \ {c}, key[d] # None PROVE state[d] = locks'[key[d]]
    <3>1. key[d] \in Keys /\ state[d] = locks[key[d]]
        BY <2>1 DEF InCalls, AlruTypes
    <3>2. CASE key[d] = k
      <4>1. d \in LockUsers(k)'
          BY <1>3, <2>1, <3>2 DEF LockUsers
      <4>2. count[l] # 1
          BY <1>6, <4>1
      <4> QED
          BY <1>2, <3>1, <4>2
    <3>3. CASE key[d] # k
        BY <1>2, <3>1, <3>3 DEF AlruTypes
    <3> QED
        BY <3>2, <3>3
  <2> QED
      BY <1>2, <2>1 DEF InCalls, AlruTypes
<1>9. LocksApart'
    BY <1>1, <1>2 DEF LocksApart, AlruTypes
<1>10. UsersCounted'
  <2>1. count'[l] = count[l] - 1 /\ locks'[k] = IF count[l] = 1 THEN None ELSE l
      BY <1>1, <1>2 DEF AlruTypes
  <2>2. \A j \in Keys \ {k} :
          locks'[j] = locks[j] /\ (locks[j] # None => count'[locks[j]] = count[locks[j]])
      BY <1>1, <1>2, <1>4 DEF AlruTypes
  <2>3. \A m \in Locks \ {l} : (\A j \in Keys : locks'[j] # m) => \A j \in Keys : locks[j] # m
      BY <1>1, <2>2
  <2>4. \A m \in Locks \ {l} : (\A j \in Keys : locks'[j] # m) => count'[m] = 0
      BY <1>2, <2>3 DEF UsersCounted, AlruTypes
  <2>5. (\A j \in Keys : locks'[j] # l) => count'[l] = 0
      BY <1>1, <1>5, <2>1
  <2>6. \A j \in Keys \ {k} : locks'[j] # None =>
          count'[locks'[j]] = Alru!Cardinality(LockUsers(j)') /\ LockUsers(j)' # {}
      BY <1>3, <2>2 DEF UsersCounted
  <2>7. locks'[k] # None =>
          count'[locks'[k]] = Alru!Cardinality(LockUsers(k)') /\ LockUsers(k)' # {}
      BY <1>6, <2>1
  <2> QED
      BY <2>4, <2>5, <2>6, <2>7 DEF UsersCounted
<1>11. CallersHold'
  <2> SUFFICES ASSUME NEW d \in Callers, pc'[d] = "calling" PROVE holder'[state'[d]] = d
      BY DEF CallersHold
  <2>1. d # c /\ pc[d] = "calling" /\ state'[d] = state[d] /\ holder[state[d]] = d
      BY <1>2 DEF CallersHold, AlruTypes
  <2>2. state[d] \in Locks
      BY <2>1 DEF InCalls, AlruTypes
  <2>3. CASE pc[c] = "waiting"
      BY <2>1, <2>3
  <2>4. CASE pc[c] = "calling"
    <3>1. holder[l] = c
        BY <1>1, <2>4 DEF CallersHold
    <3>2. state[d] # l
        BY <2>1, <3>1
    <3> QED
        BY <1>1, <2>1, <2>2, <2>4, <3>2 DEF AlruTypes
  <2> QED
      BY <1>2, <2>1, <2>3, <2>4 DEF AlruTypes
<1> QED
    BY <1>7, <1>8, <1>9, <1>10, <1>11

LEMMA AcquireInv ==
  ASSUME Alru!AlruAssumption, AlruInv, NEW c \in Callers, Alru!Acquire(c) PROVE AlruInv'
<1>1. CASE ~ Alru!MustCall(c)
    BY <1>1, LeaveInv DEF Alru!Acquire
<1>2. CASE Alru!MustCall(c)
  <2> USE DEF AlruInv
  <2>1. /\ pc[c] = "waiting" /\ holder[state[c]] = None
        /\ holder' = [holder EXCEPT ![state[c]] = c] /\ pc' = [pc EXCEPT ![c] = "calling"]
        /\ UNCHANGED <<locks, count, key, state>>
      BY <1>2 DEF Alru!Acquire
  <2>2. state[c] \in Locks /\ c # None
      BY <2>1 DEF InCalls, AlruTypes, Alru!AlruAssumption
  <2>3. AlruTypes'
      BY <2>1 DEF AlruTypes
  <2>4. InCalls' /\ LocksApart'
      BY <2>1 DEF InCalls, LocksApart, AlruTypes
  <2>5. UsersCounted'
      BY <2>1 DEF UsersCounted, LockUsers
  <2>6. CallersHold'
      BY <2>1, <2>2 DEF CallersHold, AlruTypes, Alru!AlruAssumption
  <2> QED
      BY <2>3, <2>4, <2>5, <2>6
<1> QED
    BY <1>1, <1>2

LEMMA AlruNextInv == ASSUME Alru!AlruAssumption, AlruInv, [Alru!Next]_(Alru!vars) PROVE AlruInv'
<1>1. CASE UNCHANGED Alru!vars
  <2> USE <1>1 DEF Alru!vars, AlruInv
  <2>1. AlruTypes' /\ InCalls' /\ LocksApart' /\ CallersHold'
      BY DEF AlruTypes, InCalls, LocksApart, CallersHold
  <2>2. UsersCounted'
      BY DEF UsersCounted, LockUsers
  <2> QED
      BY <2>1, <2>2
<1>2. ASSUME NEW c \in Callers, NEW k \in Keys, Alru!Hit(c, k) PROVE AlruInv'
  <2> USE <1>2 DEF Alru!Hit, AlruInv
  <2>1. AlruTypes' /\ InCalls' /\ LocksApart' /\ CallersHold'
      BY DEF AlruTypes, InCalls, LocksApart, CallersHold
  <2>2. UsersCounted'
      BY DEF UsersCounted, LockUsers
  <2> QED
      BY <2>1, <2>2
<1>3. ASSUME NEW c \in Callers, Alru!Return(c) PROVE AlruInv'
    BY <1>3, LeaveInv DEF Alru!Return
<1>4. ASSUME NEW c \in Callers, Alru!Abort(c) PROVE AlruInv'
    BY <1>4, LeaveInv DEF Alru!Abort
<1>5. ASSUME NEW c \in Callers, Alru!CancelWait(c) PROVE AlruInv'
    BY <1>5, LeaveInv DEF Alru!CancelWait
<1> QED
    BY <1>1, <1>2, <1>3, <1>4, <1>5, MissInv, AcquireInv DEF Alru!Next

\* Never two calls of the function for one key, however callers come, go and are cancelled.
LEMMA NeverComputedTwice == ASSUME AlruInv PROVE Alru!SingleFlight
<1> SUFFICES ASSUME NEW c \in Callers, NEW d \in Callers,
                    pc[c] = "calling", pc[d] = "calling", key[c] = key[d]
             PROVE  c = d
    BY DEF Alru!SingleFlight
<1>1. state[c] = state[d]
    BY DEF AlruInv, InCalls
<1> QED
    BY <1>1 DEF AlruInv, CallersHold

\* Every non-empty set of numbers has a least one.
LEMMA LeastNumber ==
  ASSUME NEW S \in SUBSET Nat, S # {} PROVE \E n \in S : \A m \in S : n <= m
<1>1. PICK n \in S : \A m \in S : ~ (<<m, n>> \in OpToRel(<, Nat))
    BY NatLessThanWellFounded, WFMin
<1>2. \A m \in S : ~ (m < n)
    BY <1>1 DEF OpToRel
<1> QED
    BY <1>2

\* R orders the members of S one after the other.
Orders(R, S) ==
  /\ R \subseteq S \X S
  /\ \A k \in S : <<k, k>> \notin R
  /\ \A j, k \in S : j # k => (<<j, k>> \in R <=> <<k, j>> \notin R)
  /\ \A i, j, k \in S : <<i, j>> \in R /\ <<j, k>> \in R => <<i, k>> \in R

LEMMA OrderOfSubset ==
  ASSUME NEW R, NEW S, NEW T \in SUBSET S, Orders(R, S)
  PROVE  Orders({p \in R : p[1] \in T /\ p[2] \in T}, T)
<1> DEFINE Q == {p \in R : p[1] \in T /\ p[2] \in T}
<1>1. \A j, k \in T : <<j, k>> \in Q <=> <<j, k>> \in R
    OBVIOUS
<1>2. Q \subseteq T \X T
    BY DEF Orders
<1> HIDE DEF Q
<1>3. Orders(Q, T)
    BY <1>1, <1>2 DEF Orders
<1> QED
    BY <1>3 DEF Q

\* A use of k puts it last, whether or not it was there.
LEMMA OrderOfTouched ==
  ASSUME NEW k, Orders(older, cache) PROVE Orders(Alru!Touched(k), cache \cup {k})
<1>1. \A i \in cache \cup {k}, j \in cache \cup {k} :
        <<i, j>> \in Alru!Touched(k) <=>
          i # k /\ (j = k \/ <<i, j>> \in older)
    BY DEF Alru!Touched, Orders
<1>2. Alru!Touched(k) \subseteq (cache \cup {k}) \X (cache \cup {k})
    BY DEF Alru!Touched, Orders
<1> QED
  <2> DEFINE Q == Alru!Touched(k)  D == cache \cup {k}
  <2>1. \A i \in D : <<i, i>> \notin Q
      BY <1>1 DEF Orders
  <2>2. \A i, j \in D : i # j => (<<i, j>> \in Q <=> <<j, i>> \notin Q)
      BY <1>1 DEF Orders
  <2>3. ASSUME NEW h \in D, NEW i \in D, NEW j \in D, <<h, i>> \in Q, <<i, j>> \in Q
        PROVE  <<h, j>> \in Q
    <3>1. h # k /\ i # k /\ <<h, i>> \in older
        BY <1>1, <2>3
    <3>2. j = k \/ <<i, j>> \in older
        BY <1>1, <2>3
    <3> QED
        BY <1>1, <3>1, <3>2 DEF Orders
  <2> QED
      BY <1>2, <2>1, <2>2, <2>3 DEF Orders

\* The oldest of S are all of S, or enough of it for the others to fit.
LEMMA OldestAreEnough ==
  ASSUME Alru!AlruAssumption, NEW E, Alru!IsFiniteSet(E), NEW S \in SUBSET E, NEW R, Orders(R, E)
  PROVE  \/ Alru!Oldest(S, R, E) = S
         \/ Alru!Cardinality(E \ Alru!Oldest(S, R, E)) <= maxsize
<1> DEFINE V == Alru!Oldest(S, R, E)
           Before(k) == {j \in S : <<j, k>> \in R}
           rank(k) == Alru!Cardinality(Before(k))
<1> SUFFICES ASSUME V # S PROVE Alru!Cardinality(E \ V) <= maxsize
    OBVIOUS
<1>1. \A k : Before(k) \in SUBSET E /\ Alru!IsFiniteSet(Before(k)) /\ rank(k) \in Nat
  <2> TAKE k
  <2>1. Before(k) \in SUBSET E
      OBVIOUS
  <2>2. Alru!IsFiniteSet(Before(k))
      BY <2>1, FS_Subset, AlruSets
  <2>3. rank(k) \in Nat
      BY <2>2, FS_CardinalityType, AlruSets
  <2> QED
      BY <2>1, <2>2, <2>3
<1>2. V \in SUBSET S /\ \A k \in S : k \in V <=> rank(k) + maxsize < Alru!Cardinality(E)
    BY DEF Alru!Oldest
<1> HIDE DEF V
<1> DEFINE Ranks == {rank(k) : k \in S \ V}
<1>3. Ranks \in SUBSET Nat /\ Ranks # {}
  <2> HIDE DEF rank
  <2> QED
      BY <1>1, <1>2
<1>4. PICK m \in S \ V : \A k \in S \ V : rank(m) <= rank(k)
  <2> HIDE DEF rank
  <2>1. PICK n \in Ranks : \A r \in Ranks : n <= r
    <3> HIDE DEF Ranks
    <3> QED
        BY <1>3, LeastNumber
  <2> QED
      BY <2>1
<1>5. Before(m) \subseteq V
  <2> SUFFICES ASSUME NEW j \in Before(m), j \notin V PROVE FALSE
      OBVIOUS
  <2>1. j \in S \ V /\ <<j, m>> \in R
      OBVIOUS
  <2>2. Before(j) \subseteq Before(m)
      BY <2>1 DEF Orders
  <2>3. j \notin Before(j)
      BY <2>1 DEF Orders
  <2>4. rank(j) <= rank(m) /\ (rank(m) = rank(j) => Before(m) = Before(j))
    <3> HIDE DEF Before
    <3> QED
        BY <1>1, <2>2, FS_Subset, AlruSets
  <2>5. rank(m) <= rank(j)
    <3> HIDE DEF rank
    <3> QED
        BY <1>4, <2>1
  <2>6. Before(m) # Before(j)
    <3> HIDE DEF Before
    <3> QED
        BY <2>3
  <2>7. rank(j) \in Nat /\ rank(m) \in Nat
      BY <1>1
  <2> HIDE DEF rank, Before
  <2> QED
      BY <2>4, <2>5, <2>6, <2>7
<1>6. /\ Alru!IsFiniteSet(V) /\ Alru!Cardinality(V) \in Nat
      /\ Alru!IsFiniteSet(E \ V) /\ Alru!Cardinality(E \ V) \in Nat
  <2>1. V \in SUBSET E /\ (E \ V) \in SUBSET E
      BY <1>2
  <2> QED
      BY <2>1, FS_Subset, FS_CardinalityType, AlruSets
<1>7. rank(m) <= Alru!Cardinality(V)
  <2> HIDE DEF Before
  <2> QED
      BY <1>5, <1>6, FS_Subset, AlruSets
<1>8. /\ Alru!Cardinality(E \ V) = Alru!Cardinality(E) - Alru!Cardinality(V)
      /\ Alru!Cardinality(E) \in Nat
  <2>1. E \cap V = V
      BY <1>2
  <2> QED
      BY <2>1, FS_Difference, FS_CardinalityType, AlruSets
<1>9. ~ (rank(m) + maxsize < Alru!Cardinality(E)) /\ rank(m) \in Nat
  <2> HIDE DEF rank
  <2> QED
      BY <1>1, <1>2, <1>4
<1> HIDE DEF rank
<1> QED
    BY <1>6, <1>7, <1>8, <1>9 DEF Alru!AlruAssumption


LEMMA RemovedFrom ==
  ASSUME NEW S, NEW q \in Seq(S), NEW i \in DOMAIN q PROVE Alru!RemoveAt(q, i) \in Seq(S)
<1>1. i \in 1..Len(q) /\ Len(q) \in Nat /\ \A j \in 1..Len(q) : q[j] \in S
    BY LenProperties, ElementOfSeq
<1>2. SubSeq(q, 1, i - 1) \in Seq(S)
  <2>1. \A j \in 1..(i - 1) : q[j] \in S
      BY <1>1
  <2> QED
      BY <1>1, <2>1, SubSeqProperties
<1>3. SubSeq(q, i + 1, Len(q)) \in Seq(S)
  <2>1. \A j \in (i + 1)..Len(q) : q[j] \in S
      BY <1>1
  <2> QED
      BY <1>1, <2>1, SubSeqProperties
<1> QED
    BY <1>2, <1>3, ConcatProperties DEF Alru!RemoveAt

\* Who waits and has seen a result come finds it in the cache.
Promised == \A c \in Callers : shared[c] => pc[c] = "waiting" /\ Alru!Cached(key[c])

\* What the cache holds, in which order, and who waits for it.
CacheContents ==
  /\ cache \subseteq Keys /\ Orders(older, cache)
  /\ line \in [Locks -> Seq(Callers)] /\ shared \in [Callers -> BOOLEAN]
  /\ Promised /\ Alru!SizeBounded

LEMMA CacheInitContents == ASSUME Alru!AlruAssumption, Alru!Init PROVE CacheContents
<1>1. Orders(older, cache) /\ cache \subseteq Keys
    BY DEF Alru!Init, Orders
<1>2. line \in [Locks -> Seq(Callers)] /\ shared \in [Callers -> BOOLEAN] /\ Promised
    BY DEF Alru!Init, Promised
<1>3. Alru!SizeBounded
    BY FS_EmptySet, AlruSets DEF Alru!Init, Alru!SizeBounded, Alru!AlruAssumption
<1> QED
    BY <1>1, <1>2, <1>3 DEF CacheContents

LEMMA HitContents ==
  ASSUME Alru!AlruAssumption, AlruInv, CacheContents, NEW c \in Callers, NEW k \in Keys,
         Alru!Hit(c, k)
  PROVE  CacheContents'
<1> USE DEF Alru!Hit, CacheContents
<1>1. cache' = cache /\ cache \cup {k} = cache /\ older' = Alru!Touched(k)
    BY DEF Alru!Cached
<1>2. Orders(older', cache')
    BY <1>1, OrderOfTouched
<1>3. Promised' /\ Alru!SizeBounded'
    BY DEF Promised, Alru!SizeBounded, Alru!Cached
<1> QED
    BY <1>1, <1>2, <1>3

LEMMA MissContents ==
  ASSUME Alru!AlruAssumption, AlruInv, CacheContents, NEW c \in Callers, NEW k \in Keys,
         Alru!Miss(c, k)
  PROVE  CacheContents'
<1> USE DEF CacheContents
<1>1. PICK l \in IF locks[k] # None THEN {locks[k]} ELSE Alru!Unused :
        \/ line' = line
        \/ line' = [line EXCEPT ![l] = Append(line[l], c)]
    BY DEF Alru!Miss
<1>2. l \in Locks
    BY <1>1 DEF Alru!Unused, AlruInv, AlruTypes
<1>3. line' \in [Locks -> Seq(Callers)]
  <2>1. Append(line[l], c) \in Seq(Callers)
      BY <1>2, AppendProperties
  <2> QED
      BY <1>1, <1>2, <2>1
<1>4. Promised'
  <2>1. \A d \in Callers \ {c} : pc'[d] = pc[d] /\ key'[d] = key[d]
      BY DEF Alru!Miss, AlruInv, AlruTypes
  <2>2. ~ shared[c]
      BY DEF Alru!Miss, Promised
  <2> QED
      BY <2>1, <2>2 DEF Promised, Alru!Miss, Alru!Cached
<1> QED
    BY <1>3, <1>4 DEF Alru!Miss, Alru!SizeBounded

\* A caller who leaves, having waited or called, takes nothing from the others.
LEMMA PromisedWithout ==
  ASSUME AlruInv, Promised, NEW c \in Callers, Alru!Leave(c), shared'[c] = FALSE,
         \A d \in Callers \ {c} : shared'[d] => shared[d], cache' = cache
  PROVE  Promised'
<1>1. \A d \in Callers \ {c} : pc'[d] = pc[d] /\ key'[d] = key[d]
    BY DEF Alru!Leave, AlruInv, AlruTypes
<1> QED
    BY <1>1 DEF Promised, Alru!Cached

LEMMA AcquireContents ==
  ASSUME Alru!AlruAssumption, AlruInv, CacheContents, NEW c \in Callers,
         Alru!Acquire(c) PROVE CacheContents'
<1> USE DEF CacheContents
<1>1. PICK l \in Locks :
        /\ l = state[c] /\ line[l] # <<>>
        /\ line' = [line EXCEPT ![l] = Tail(line[l])]
  <2>1. state[c] \in Locks
      BY DEF Alru!Acquire, AlruInv, InCalls, AlruTypes
  <2> QED
      BY <2>1 DEF Alru!Acquire
<1>2. cache' = cache /\ pc[c] = "waiting" /\ shared' = [shared EXCEPT ![c] = FALSE]
    BY DEF Alru!Acquire
<1>3. line' \in [Locks -> Seq(Callers)]
  <2>1. Tail(line[l]) \in Seq(Callers)
      BY <1>1, HeadTailProperties
  <2> QED
      BY <1>1, <2>1
<1>4. Promised' /\ Orders(older', cache')
  <2>1. CASE ~ Alru!MustCall(c)
    <3>1. Alru!Leave(c) /\ older' = Alru!Touched(key[c])
        BY <2>1 DEF Alru!Acquire
    <3>2. Promised'
        BY <1>2, <3>1, PromisedWithout
    <3>3. cache \cup {key[c]} = cache
        BY <2>1 DEF Alru!MustCall, Alru!Cached
    <3>4. Orders(older', cache')
        BY <1>2, <3>1, <3>3, OrderOfTouched
    <3> QED
        BY <3>2, <3>4
  <2>2. CASE Alru!MustCall(c)
    <3>1. /\ older' = older /\ key' = key
          /\ \A d \in Callers \ {c} : pc'[d] = pc[d]
        BY <2>2 DEF Alru!Acquire, AlruInv, AlruTypes
    <3> QED
        BY <1>2, <3>1 DEF Promised, Alru!Cached
  <2> QED
      BY <2>1, <2>2
<1> QED
    BY <1>2, <1>3, <1>4 DEF Alru!SizeBounded

LEMMA AbortContents ==
  ASSUME Alru!AlruAssumption, AlruInv, CacheContents, NEW c \in Callers,
         Alru!Abort(c) PROVE CacheContents'
<1> USE DEF CacheContents
<1>1. pc[c] = "calling" /\ cache' = cache /\ older' = older /\ line' = line /\ shared' = shared
    BY DEF Alru!Abort
<1>2. Promised'
  <2>1. Alru!Leave(c) /\ ~ shared[c]
      BY <1>1 DEF Alru!Abort, Promised
  <2>2. shared[c] = FALSE
      BY <2>1
  <2> QED
      BY <1>1, <2>1, <2>2, PromisedWithout
<1> QED
    BY <1>1, <1>2 DEF Alru!SizeBounded

LEMMA CancelWaitContents ==
  ASSUME Alru!AlruAssumption, AlruInv, CacheContents, NEW c \in Callers,
         Alru!CancelWait(c) PROVE CacheContents'
<1> USE DEF CacheContents
<1>1. state[c] \in Locks
    BY DEF Alru!CancelWait, AlruInv, InCalls, AlruTypes
<1>2. line' \in [Locks -> Seq(Callers)]
  <2>1. PICK i \in DOMAIN line[state[c]] :
          line' = [line EXCEPT ![state[c]] = Alru!RemoveAt(line[state[c]], i)]
      BY DEF Alru!CancelWait
  <2>2. Alru!RemoveAt(line[state[c]], i) \in Seq(Callers)
      BY <1>1, RemovedFrom
  <2> QED
      BY <1>1, <2>1, <2>2
<1>3. Promised'
    BY PromisedWithout DEF Alru!CancelWait
<1> QED
    BY <1>2, <1>3 DEF Alru!CancelWait, Alru!SizeBounded

\* Some caller locks each of the keys that are locked.
LEMMA FewAreLocked ==
  ASSUME Alru!AlruAssumption, AlruInv, NEW S \in SUBSET Keys, \A k \in S : locks[k] # None
  PROVE  Alru!Cardinality(S) <= Alru!Cardinality(Callers)
<1> DEFINE user == [k \in S |-> CHOOSE c \in Callers : key[c] = k]
<1>1. \A k \in S : user[k] \in Callers /\ key[user[k]] = k
    BY DEF AlruInv, UsersCounted, LockUsers
<1> HIDE DEF user
<1>2. user \in Injection(S, Callers)
  <2>1. user = [k \in S |-> user[k]]
      BY DEF user
  <2> QED
      BY <1>1, <2>1 DEF Injection, IsInjective, Alru!IsInjective
<1> QED
    BY <1>2, FS_Injection, AlruSets DEF Alru!AlruAssumption

LEMMA ReturnContents ==
  ASSUME Alru!AlruAssumption, AlruInv, CacheContents, NEW c \in Callers,
         Alru!Return(c) PROVE CacheContents'
<1> USE DEF CacheContents
<1> DEFINE Stored(a, E, R) ==
            /\ E = IF a THEN cache \cup {key[c]} ELSE cache
            /\ R = IF a THEN Alru!Touched(key[c]) ELSE older
            /\ cache' = E \ Alru!Victims(E, R)
            /\ older' = {p \in R : p[1] \in cache' /\ p[2] \in cache'}
            /\ shared' = [d \in Callers |->
                            shared[d] \/ (a /\ pc[d] = "waiting" /\ key[d] = key[c])]
<1>0. PICK admitted \in BOOLEAN : \E E, R : Stored(admitted, E, R)
    BY DEF Alru!Return
<1>1. PICK E, R : Stored(admitted, E, R)
    BY <1>0
<1>2. /\ pc[c] = "calling" /\ key[c] \in Keys /\ line' = line /\ Alru!Leave(c)
    BY DEF Alru!Return, AlruInv, InCalls, AlruTypes
<1>3. E \subseteq Keys /\ cache \subseteq E /\ Alru!IsFiniteSet(E)
    BY <1>1, <1>2, FS_Subset, AlruSets DEF Alru!AlruAssumption
<1>4. Orders(R, E)
  <2>1. CASE admitted
      BY <1>1, <2>1, OrderOfTouched
  <2>2. CASE ~ admitted
      BY <1>1, <2>2
  <2> QED
      BY <2>1, <2>2
<1>5. cache' \subseteq E /\ Orders(older', cache')
  <2>1. cache' \in SUBSET E
      BY <1>1
  <2>2. PICK C : C = cache'
      OBVIOUS
  <2>3. Orders({p \in R : p[1] \in C /\ p[2] \in C}, C)
      BY <1>4, <2>1, <2>2, OrderOfSubset
  <2> QED
      BY <1>1, <2>1, <2>2, <2>3
<1> DEFINE U == {k \in E : locks[k] = None}
<1>6. Alru!Victims(E, R) = Alru!Oldest(U, R, E) /\ Alru!Victims(E, R) \subseteq U
    BY DEF Alru!Victims, Alru!Oldest
<1>7. Alru!SizeBounded'
  <2>1. U \in SUBSET E
      OBVIOUS
  <2>2. CASE Alru!Oldest(U, R, E) = U
    <3>0. cache' = E \ U
        BY <1>1, <1>6, <2>2
    <3>1. cache' \in SUBSET Keys /\ \A k \in cache' : locks[k] # None
        BY <1>3, <3>0
    <3>2. Alru!Cardinality(cache') <= Alru!Cardinality(Callers)
        BY <3>1, FewAreLocked
    <3> QED
        BY <3>2 DEF Alru!SizeBounded
  <2>3. CASE Alru!Cardinality(E \ Alru!Oldest(U, R, E)) <= maxsize
      BY <1>1, <1>6, <2>3 DEF Alru!SizeBounded
  <2> HIDE DEF U
  <2> QED
      BY <1>3, <1>4, <2>1, <2>2, <2>3, OldestAreEnough
<1>8. shared' \in [Callers -> BOOLEAN]
    BY <1>1
<1>9. Promised'
  <2> SUFFICES ASSUME NEW d \in Callers, shared'[d] PROVE pc'[d] = "waiting" /\ key'[d] \in cache'
      BY DEF Promised, Alru!Cached
  <2>1. pc[d] = "waiting" /\ key[d] \in E
      BY <1>1 DEF Promised, Alru!Cached
  <2>2. d # c
      BY <1>2, <2>1
  <2>3. pc'[d] = "waiting" /\ key'[d] = key[d]
      BY <1>2, <2>1, <2>2 DEF Alru!Leave, AlruInv, AlruTypes
  <2>4. locks[key[d]] # None
      BY <2>1 DEF AlruInv, InCalls
  <2>5. key[d] \notin Alru!Victims(E, R)
      BY <1>6, <2>4
  <2> QED
      BY <1>1, <2>1, <2>3, <2>5
<1> HIDE DEF U
<1> QED
    BY <1>2, <1>3, <1>5, <1>7, <1>8, <1>9

LEMMA CacheNextContents ==
  ASSUME Alru!AlruAssumption, AlruInv, CacheContents, [Alru!Next]_(Alru!vars) PROVE CacheContents'
<1>1. CASE UNCHANGED Alru!vars
    BY <1>1 DEF Alru!vars, CacheContents, Promised, Alru!SizeBounded, Alru!Cached
<1> QED
    BY <1>1, HitContents, MissContents, AcquireContents, ReturnContents, AbortContents,
       CancelWaitContents DEF Alru!Next

\* A caller who waited while a result was cached finds it, however small the cache is.
LEMMA ResultsAreFound == ASSUME CacheContents PROVE Alru!WaitersFindTheResult
    BY DEF CacheContents, Promised, Alru!WaitersFindTheResult

\* The types, the life of the locks, and the bound on the cache: it outgrows its limit only by
\* keys that callers hold locked.
LEMMA CacheIsConsistent ==
  ASSUME Alru!AlruAssumption, AlruInv, CacheContents
  PROVE  Alru!Consistent
<1> USE DEF AlruInv, CacheContents
<1>1. \A l \in Locks : count[l] \in 0..Alru!Cardinality(Callers)
  <2> SUFFICES ASSUME NEW l \in Locks PROVE count[l] \in 0..Alru!Cardinality(Callers)
      OBVIOUS
  <2>1. Alru!Cardinality(Callers) \in Nat /\ count[l] \in Nat
      BY FS_CardinalityType, AlruSets DEF Alru!AlruAssumption, AlruTypes
  <2>2. CASE \A k \in Keys : locks[k] # l
      BY <2>1, <2>2 DEF UsersCounted
  <2>3. CASE \E k \in Keys : locks[k] = l
    <3>1. PICK k \in Keys : locks[k] = l
        BY <2>3
    <3>2. count[l] = Alru!Cardinality(LockUsers(k))
        BY <3>1 DEF UsersCounted, Alru!AlruAssumption
    <3>3. LockUsers(k) \in SUBSET Callers
        BY DEF LockUsers
    <3>4. Alru!Cardinality(LockUsers(k)) <= Alru!Cardinality(Callers)
        BY <3>3, FS_Subset, AlruSets DEF Alru!AlruAssumption
    <3> QED
        BY <2>1, <3>2, <3>4
  <2> QED
      BY <2>2, <2>3
<1>2. count \in [Locks -> 0..Alru!Cardinality(Callers)]
    BY <1>1 DEF AlruTypes
<1>3. /\ older \subseteq cache \X cache
      /\ \A j, k \in cache : j # k => (<<j, k>> \in older <=> <<k, j>> \notin older)
    BY DEF Orders
<1>4. Alru!TypeOK
    BY <1>2, <1>3 DEF Alru!TypeOK, AlruTypes
<1>5. Alru!LocksAreShared
    BY DEF InCalls, UsersCounted, LockUsers, Alru!LocksAreShared
<1> QED
    BY <1>4, <1>5 DEF Alru!Consistent

-----------------------------------------------------------------------------
(* The scheduler: no task is forgotten, the loans stay covered, the least served task goes     *)
(* first, and all this is a queue of runs. *)

\* The sizes of sets are those of FiniteSets.
LEMMA SchedSets ==
  \A S : (Sched!IsFiniteSet(S) <=> IsFiniteSet(S)) /\ Sched!Cardinality(S) = Cardinality(S)
    BY DEF Cardinality, Sched!Cardinality, IsFiniteSet, Sched!IsFiniteSet

(***************************************************************************)
(* Sorting: the rank of an entry is the number of entries before it, and   *)
(* the ranks are a permutation of the positions.                           *)
(***************************************************************************)
Before(v, i, j) ==
  \/ v[queue[i]] > v[queue[j]]
  \/ v[queue[i]] = v[queue[j]] /\ i < j
Prior(v, j) == {i \in DOMAIN queue : Before(v, i, j)}
Rank(v, j) == 1 + Sched!Cardinality(Prior(v, j))

LEMMA SortedByRank ==
  ASSUME NEW v
  PROVE  Sched!SortedQueue(v) =
           [r \in DOMAIN queue |-> queue[CHOOSE j \in DOMAIN queue : Rank(v, j) = r]]
    BY DEF Sched!SortedQueue, Rank, Prior, Before

LEMMA PositionsAreFinite ==
  ASSUME queue \in Seq(Tasks)
  PROVE  /\ DOMAIN queue = 1..Len(queue) /\ Len(queue) \in Nat
         /\ Sched!IsFiniteSet(DOMAIN queue) /\ Sched!Cardinality(DOMAIN queue) = Len(queue)
<1>1. DOMAIN queue = 1..Len(queue) /\ Len(queue) \in Nat
    BY LenProperties
<1>2. Sched!IsFiniteSet(1..Len(queue)) /\ Sched!Cardinality(1..Len(queue)) = Len(queue)
    BY <1>1, FS_Interval, SchedSets, SMTT(30)
<1> QED
    BY <1>1, <1>2

\* One entry is before the other, and never both ways.
LEMMA BeforeIsTotal ==
  ASSUME queue \in Seq(Tasks), NEW v \in [Tasks -> Int]
  PROVE  /\ \A i \in DOMAIN queue : ~ Before(v, i, i)
         /\ \A i, j \in DOMAIN queue : i = j \/ Before(v, i, j) \/ Before(v, j, i)
         /\ \A i, j, k \in DOMAIN queue : Before(v, i, j) /\ Before(v, j, k) => Before(v, i, k)
<1>1. \A i \in DOMAIN queue : i \in Int /\ v[queue[i]] \in Int
    BY PositionsAreFinite, ElementOfSeq
<1> QED
    BY <1>1 DEF Before

LEMMA RankOrders ==
  ASSUME queue \in Seq(Tasks), NEW v \in [Tasks -> Int],
         NEW i \in DOMAIN queue, NEW j \in DOMAIN queue
  PROVE  /\ Rank(v, i) \in DOMAIN queue
         /\ Before(v, i, j) => Rank(v, i) < Rank(v, j)
<1>1. /\ Sched!IsFiniteSet(Prior(v, i)) /\ Sched!Cardinality(Prior(v, i)) \in Nat
      /\ Sched!IsFiniteSet(Prior(v, j)) /\ Sched!Cardinality(Prior(v, j)) \in Nat
    BY PositionsAreFinite, FS_Subset, FS_CardinalityType, SchedSets DEF Prior
<1>2. Rank(v, i) \in DOMAIN queue
  <2>1. Prior(v, i) \in SUBSET (DOMAIN queue \ {i})
      BY BeforeIsTotal DEF Prior
  <2>2. Sched!IsFiniteSet(DOMAIN queue \ {i})
        /\ Sched!Cardinality(DOMAIN queue \ {i}) = Len(queue) - 1
      BY PositionsAreFinite, FS_RemoveElement, SchedSets
  <2>3. Sched!Cardinality(Prior(v, i)) <= Len(queue) - 1
      BY <2>1, <2>2, FS_Subset, SchedSets
  <2> QED
      BY <1>1, <2>3, PositionsAreFinite DEF Rank
<1>3. ASSUME Before(v, i, j) PROVE Rank(v, i) < Rank(v, j)
  <2>1. i \in Prior(v, j)
      BY <1>3 DEF Prior
  <2>2. Prior(v, i) \in SUBSET (Prior(v, j) \ {i})
      BY <1>3, BeforeIsTotal DEF Prior
  <2>3. /\ Sched!IsFiniteSet(Prior(v, j) \ {i})
        /\ Sched!Cardinality(Prior(v, j) \ {i}) = Sched!Cardinality(Prior(v, j)) - 1
      BY <1>1, <2>1, FS_RemoveElement, SchedSets
  <2>4. Sched!Cardinality(Prior(v, i)) <= Sched!Cardinality(Prior(v, j)) - 1
      BY <2>2, <2>3, FS_Subset, SchedSets
  <2> QED
      BY <1>1, <2>4 DEF Rank
<1> QED
    BY <1>2, <1>3

LEMMA RankIsPermutation ==
  ASSUME queue \in Seq(Tasks), NEW v \in [Tasks -> Int]
  PROVE  /\ \A j \in DOMAIN queue : Rank(v, j) \in DOMAIN queue
         /\ \A i, j \in DOMAIN queue : Rank(v, i) = Rank(v, j) => i = j
         /\ \A r \in DOMAIN queue : \E j \in DOMAIN queue : Rank(v, j) = r
<1> DEFINE D == DOMAIN queue
<1> DEFINE rank == [j \in D |-> Rank(v, j)]
<1>1. \A j \in D : Rank(v, j) \in D
    BY RankOrders
<1>2. \A i, j \in D : Rank(v, i) = Rank(v, j) => i = j
  <2> SUFFICES ASSUME NEW i \in D, NEW j \in D, i # j PROVE Rank(v, i) # Rank(v, j)
      OBVIOUS
  <2>1. Before(v, i, j) \/ Before(v, j, i)
      BY BeforeIsTotal
  <2>2. Rank(v, i) \in Int /\ Rank(v, j) \in Int
      BY <1>1, PositionsAreFinite
  <2> QED
      BY <2>1, <2>2, RankOrders
<1>3. rank \in Injection(D, D)
    BY <1>1, <1>2 DEF Injection, IsInjective
<1>4. rank \in Surjection(D, D)
    BY <1>3, PositionsAreFinite, FS_Injection, SchedSets
<1>5. \A r \in D : \E j \in D : Rank(v, j) = r
    BY <1>4 DEF Surjection
<1> QED
    BY <1>1, <1>2, <1>5

\* list.sort keeps the entries and orders them by their runtime, the least one last.
LEMMA SortingKeepsAndOrders ==
  ASSUME queue \in Seq(Tasks), NEW v \in [Tasks -> Int]
  PROVE  /\ Sched!SortedQueue(v) \in Seq(Tasks) /\ DOMAIN Sched!SortedQueue(v) = DOMAIN queue
         /\ \A j \in DOMAIN queue : \E r \in DOMAIN queue : Sched!SortedQueue(v)[r] = queue[j]
         /\ \A q, r \in DOMAIN queue :
              q <= r => v[Sched!SortedQueue(v)[r]] <= v[Sched!SortedQueue(v)[q]]
<1> DEFINE D == DOMAIN queue
           place(r) == CHOOSE j \in D : Rank(v, j) = r
           sorted == Sched!SortedQueue(v)
<1>1. sorted = [r \in D |-> queue[place(r)]]
    BY SortedByRank
<1>2. \A r \in D : place(r) \in D /\ Rank(v, place(r)) = r
    BY RankIsPermutation
<1>3. \A j \in D : Rank(v, j) \in D /\ place(Rank(v, j)) = j
  <2> TAKE j \in D
  <2>1. Rank(v, j) \in D
      BY RankIsPermutation
  <2>2. place(Rank(v, j)) \in D /\ Rank(v, place(Rank(v, j))) = Rank(v, j)
      BY <1>2, <2>1
  <2> QED
      BY <2>1, <2>2, RankIsPermutation
<1> HIDE DEF place
<1>4. sorted \in Seq(Tasks) /\ DOMAIN sorted = D
  <2>1. \A r \in D : queue[place(r)] \in Tasks
      BY <1>2, ElementOfSeq, PositionsAreFinite
  <2>2. sorted \in [1..Len(queue) -> Tasks]
      BY <1>1, <2>1, PositionsAreFinite
  <2> QED
      BY <1>1, <2>2, PositionsAreFinite, SeqDef
<1>5. \A j \in D : \E r \in D : sorted[r] = queue[j]
    BY <1>1, <1>3
<1>6. \A q, r \in D : q <= r => v[sorted[r]] <= v[sorted[q]]
  <2> SUFFICES ASSUME NEW q \in D, NEW r \in D, q <= r PROVE v[sorted[r]] <= v[sorted[q]]
      OBVIOUS
  <2>1. place(q) \in D /\ place(r) \in D /\ Rank(v, place(q)) = q /\ Rank(v, place(r)) = r
      BY <1>2
  <2>2. q \in Int /\ r \in Int /\ v[sorted[q]] \in Int /\ v[sorted[r]] \in Int
      BY <1>4, PositionsAreFinite, ElementOfSeq
  <2>3. ~ Before(v, place(r), place(q))
      BY <2>1, <2>2, RankOrders
  <2>4. sorted[q] = queue[place(q)] /\ sorted[r] = queue[place(r)]
      BY <1>1
  <2> QED
      BY <2>2, <2>3, <2>4 DEF Before
<1> QED
    BY <1>4, <1>5, <1>6

-----------------------------------------------------------------------------
(***************************************************************************)
(* The inductive invariant: what the runs check, and that no clock that is *)
(* read is ahead of the real one, without which an accounting round could  *)
(* take runtime away and a loan with it.                                   *)
(***************************************************************************)
ClocksBehind == \A k \in Tasks : lastTick[k] <= now

SchedInv == Sched!TypeOK /\ Sched!NobodyForgotten /\ Sched!LoansCovered /\ ClocksBehind

LEMMA ProductsAreNatural == ASSUME NEW a \in Nat, NEW b \in Nat PROVE a * b \in Nat
    OBVIOUS

LEMMA TicksOnlyAdd ==
  ASSUME Sched!TypeOK, ClocksBehind, NEW k \in Tasks
  PROVE  Sched!Ticked(k) \in Nat /\ Sched!Ticked(k) >= vruntime[k]
<1>1. now - lastTick[k] \in Nat /\ running[k] \in Nat /\ vruntime[k] \in Nat
    BY DEF Sched!TypeOK, ClocksBehind
<1>2. (now - lastTick[k]) * running[k] \in Nat
    BY <1>1, ProductsAreNatural
<1> QED
    BY <1>1, <1>2 DEF Sched!Ticked

LEMMA AccountingOnlyAdds ==
  ASSUME Sched!TypeOK, ClocksBehind, NEW k \in Tasks
  PROVE  /\ Sched!AccountedRuntime(k) \in Nat /\ Sched!AccountedRuntime(k) >= vruntime[k]
         /\ Sched!AccountedTick(k) \in Nat /\ Sched!AccountedTick(k) <= now
<1>1. vruntime[k] \in Nat /\ lastTick[k] \in Nat /\ lastTick[k] <= now /\ now \in Nat
    BY DEF Sched!TypeOK, ClocksBehind
<1> QED
    BY <1>1, TicksOnlyAdd DEF Sched!AccountedRuntime, Sched!AccountedTick

\* The least of some natural numbers.
LEMMA LeastExists ==
  ASSUME NEW T \in SUBSET Nat, T # {}
  PROVE  \E x \in T : \A y \in T : x <= y
<1>1. PICK x \in T : \A y \in T : <<y, x>> \notin OpToRel(<, Nat)
    BY NatLessThanWellFounded, WFMin
<1>2. \A y \in T : ~ (y < x)
    BY <1>1 DEF OpToRel
<1> QED
    BY <1>2

LEMMA VminIsNatural ==
  ASSUME Sched!TypeOK, ClocksBehind
  PROVE  Sched!AccountedVmin \in Nat
<1> DEFINE Ticks == {Sched!Ticked(k) : k \in runningSet}
           least == CHOOSE v \in Ticks : \A k \in runningSet : v <= Sched!Ticked(k)
<1>1. CASE runningSet # {}
  <2>1. Ticks \in SUBSET Nat /\ Ticks # {}
      BY <1>1, TicksOnlyAdd DEF Sched!TypeOK
  <2>2. PICK x \in Ticks : \A y \in Ticks : x <= y
      BY <2>1, LeastExists
  <2>3. \A k \in runningSet : x <= Sched!Ticked(k)
      BY <2>2
  <2>4. least \in Ticks
      BY <2>3
  <2>5. least \in Nat /\ vmin \in Nat
      BY <2>1, <2>4 DEF Sched!TypeOK
  <2> QED
      BY <2>5 DEF Sched!AccountedVmin, Sched!Larger, Sched!TypeOK
<1>2. CASE runningSet = {}
    BY <1>2 DEF Sched!AccountedVmin, Sched!TypeOK
<1> QED
    BY <1>1, <1>2

LEMMA SchedInitInv == ASSUME Sched!SchedulerAssumption, Sched!Init PROVE SchedInv
<1> USE DEF Sched!Init, Sched!SchedulerAssumption
<1>1. Sched!TypeOK
    BY DEF Sched!TypeOK
<1>2. Sched!NobodyForgotten /\ Sched!LoansCovered /\ ClocksBehind
    BY DEF Sched!NobodyForgotten, Sched!LoansCovered, ClocksBehind
<1> QED
    BY <1>1, <1>2 DEF SchedInv

(***************************************************************************)
(* The actions.                                                            *)
(***************************************************************************)
LEMMA SchedAdvanceInv == ASSUME SchedInv, Sched!Advance PROVE SchedInv'
<1> USE DEF SchedInv, Sched!Advance
<1>1. Sched!TypeOK'
    BY DEF Sched!TypeOK
<1>2. Sched!NobodyForgotten' /\ Sched!LoansCovered'
    BY DEF Sched!NobodyForgotten, Sched!LoansCovered
<1>3. ClocksBehind'
    BY DEF ClocksBehind, Sched!TypeOK
<1> QED
    BY <1>1, <1>2, <1>3

LEMMA SchedAddInv == ASSUME SchedInv, NEW k \in Tasks, Sched!Add(k) PROVE SchedInv'
<1> USE DEF SchedInv, Sched!Add
<1>1. queue \in Seq(Tasks)
    BY DEF Sched!TypeOK
<1>2. /\ queue' \in Seq(Tasks)
      /\ \A i \in DOMAIN queue : i \in DOMAIN queue' /\ queue'[i] = queue[i]
      /\ waiting[k] = 0 => \E i \in DOMAIN queue' : queue'[i] = k
  <2>1. CASE waiting[k] = 0
    <3>1. queue' = Append(queue, k)
        BY <2>1
    <3>2. /\ Len(queue') = Len(queue) + 1 /\ queue'[Len(queue) + 1] = k /\ queue' \in Seq(Tasks)
          /\ \A i \in 1..Len(queue) : queue'[i] = queue[i]
        BY <1>1, <3>1, AppendProperties
    <3>3. /\ DOMAIN queue = 1..Len(queue) /\ Len(queue) \in Nat
          /\ DOMAIN queue' = 1..(Len(queue) + 1)
        BY <1>1, <3>2, LenProperties
    <3> QED
        BY <3>2, <3>3
  <2>2. CASE waiting[k] # 0
      BY <1>1, <2>2
  <2> QED
      BY <2>1, <2>2
<1>3. waiting' \in [Tasks -> Nat] /\ waitingSet' \subseteq Tasks
    BY DEF Sched!TypeOK
<1>4. Sched!TypeOK'
    BY <1>2, <1>3 DEF Sched!TypeOK
<1>5. Sched!NobodyForgotten'
  <2>1. waitingSet' = {j \in Tasks : waiting'[j] > 0}
      BY DEF Sched!NobodyForgotten, Sched!TypeOK
  <2>2. \/ waitingSet' = waitingSet
        \/ waitingSet' = waitingSet \cup {k} /\ waiting[k] = 0
    <3>1. CASE waiting[k] = 0
        BY <3>1
    <3>2. CASE waiting[k] # 0
        BY <3>2
    <3> QED
        BY <3>1, <3>2
  <2>3. \A j \in waitingSet' : \E i \in DOMAIN queue' : queue'[i] = j
      BY <1>2, <2>2 DEF Sched!NobodyForgotten
  <2> QED
      BY <2>1, <2>3 DEF Sched!NobodyForgotten
<1>6. Sched!LoansCovered' /\ ClocksBehind'
    BY DEF Sched!LoansCovered, ClocksBehind
<1> QED
    BY <1>4, <1>5, <1>6

LEMMA SchedRemoveInv == ASSUME SchedInv, NEW k \in Tasks, Sched!Remove(k) PROVE SchedInv'
<1> USE DEF SchedInv, Sched!Remove
<1>1. Sched!TypeOK'
    BY DEF Sched!TypeOK
<1>2. Sched!NobodyForgotten'
  <2>1. \A j \in Tasks : waiting'[j] = IF j = k THEN waiting[k] - 1 ELSE waiting[j]
      BY DEF Sched!TypeOK
  <2>2. waiting[k] \in Nat /\ waiting[k] > 0
      BY DEF Sched!TypeOK
  <2>3. waitingSet' = {j \in Tasks : waiting'[j] > 0}
      BY <2>1, <2>2 DEF Sched!NobodyForgotten
  <2>4. waitingSet' \subseteq waitingSet /\ UNCHANGED <<running, runningSet, queue>>
      OBVIOUS
  <2> QED
      BY <2>3, <2>4 DEF Sched!NobodyForgotten
<1>3. Sched!LoansCovered' /\ ClocksBehind'
    BY DEF Sched!LoansCovered, ClocksBehind
<1> QED
    BY <1>1, <1>2, <1>3

LEMMA SchedDiscardInv == ASSUME SchedInv, NEW k \in Tasks, Sched!Discard(k) PROVE SchedInv'
<1> USE DEF SchedInv, Sched!Discard
<1>1. Sched!TypeOK'
    BY DEF Sched!TypeOK
<1>2. Sched!NobodyForgotten'
  <2>1. \A j \in Tasks : waiting'[j] = IF j = k THEN 0 ELSE waiting[j]
      BY DEF Sched!TypeOK
  <2>2. waitingSet' = {j \in Tasks : waiting'[j] > 0}
      BY <2>1 DEF Sched!NobodyForgotten
  <2>3. waitingSet' \subseteq waitingSet /\ UNCHANGED <<running, runningSet, queue>>
      OBVIOUS
  <2> QED
      BY <2>2, <2>3 DEF Sched!NobodyForgotten
<1>3. Sched!LoansCovered' /\ ClocksBehind'
    BY DEF Sched!LoansCovered, ClocksBehind
<1> QED
    BY <1>1, <1>2, <1>3

\* The refund of a finished slot never meets the floor of zero.
LEMMA SchedFinishInv ==
  ASSUME Sched!SchedulerAssumption, SchedInv, NEW k \in Tasks, Sched!Finish(k)
  PROVE  SchedInv'
<1> USE DEF SchedInv, Sched!Finish
<1>1. /\ quantum \in Nat /\ vruntime[k] \in Nat /\ running[k] \in Nat \ {0}
      /\ Sched!Ticked(k) \in Nat /\ Sched!Ticked(k) >= vruntime[k]
    BY TicksOnlyAdd DEF Sched!TypeOK, Sched!SchedulerAssumption
<1>2. vruntime'[k] \in Nat /\ vruntime'[k] >= Sched!Ticked(k) - quantum
    BY <1>1 DEF Sched!TypeOK, Sched!Larger
<1>3. Sched!TypeOK'
    BY <1>1, <1>2 DEF Sched!TypeOK, Sched!Larger
<1>4. Sched!NobodyForgotten'
    BY DEF Sched!NobodyForgotten, Sched!TypeOK
<1>5. Sched!LoansCovered'
  <2>1. vruntime[k] >= quantum * running[k]
      BY DEF Sched!LoansCovered
  <2>2. quantum * (running[k] - 1) = quantum * running[k] - quantum
      BY <1>1
  <2>3. quantum * running[k] \in Nat
      BY <1>1, ProductsAreNatural
  <2>4. running'[k] = running[k] - 1
      BY DEF Sched!TypeOK
  <2>5. vruntime'[k] >= quantum * running'[k]
      BY <1>1, <1>2, <2>1, <2>2, <2>3, <2>4
  <2>6. \A j \in Tasks \ {k} : vruntime'[j] = vruntime[j] /\ running'[j] = running[j]
      BY DEF Sched!TypeOK
  <2> QED
      BY <2>5, <2>6 DEF Sched!LoansCovered
<1>6. ClocksBehind'
    BY DEF ClocksBehind, Sched!TypeOK
<1> QED
    BY <1>3, <1>4, <1>5, <1>6

-----------------------------------------------------------------------------
(***************************************************************************)
(* schedule(): an entry that waits is live; the last live one is served.   *)
(***************************************************************************)
Runtimes == [k \in Tasks |-> Sched!AccountedRuntime(k)]
Live == {i \in DOMAIN Sched!SortedQueue(Runtimes) : waiting[Sched!SortedQueue(Runtimes)[i]] > 0}

LEMMA SortedByRuntime ==
  ASSUME SchedInv
  PROVE  LET sorted == Sched!SortedQueue(Runtimes)
         IN  /\ sorted \in Seq(Tasks)
             /\ \A k \in waitingSet : \E i \in Live : sorted[i] = k
             /\ \A i, j \in DOMAIN sorted :
                  j <= i => Sched!AccountedRuntime(sorted[i]) <= Sched!AccountedRuntime(sorted[j])
<1> DEFINE sorted == Sched!SortedQueue(Runtimes)
<1>1. Runtimes \in [Tasks -> Int] /\ queue \in Seq(Tasks)
    BY AccountingOnlyAdds DEF Runtimes, SchedInv, Sched!TypeOK
<1>2. /\ sorted \in Seq(Tasks) /\ DOMAIN sorted = DOMAIN queue
      /\ \A j \in DOMAIN queue : \E i \in DOMAIN queue : sorted[i] = queue[j]
      /\ \A j, i \in DOMAIN queue : j <= i => Runtimes[sorted[i]] <= Runtimes[sorted[j]]
    BY <1>1, SortingKeepsAndOrders
<1> HIDE DEF sorted
<1>3. \A k \in waitingSet : \E i \in DOMAIN sorted : sorted[i] = k /\ waiting[k] > 0
    BY <1>2 DEF SchedInv, Sched!NobodyForgotten
<1>4. \A i \in DOMAIN sorted : sorted[i] \in Tasks
    BY <1>2, LenProperties, ElementOfSeq
<1>5. \A i, j \in DOMAIN sorted :
        j <= i => Sched!AccountedRuntime(sorted[i]) <= Sched!AccountedRuntime(sorted[j])
    BY <1>2, <1>4 DEF Runtimes
<1> QED
    BY <1>2, <1>3, <1>5 DEF sorted, Live

\* What schedule() does to the slots: it serves nobody, or the entry i.
SchedIdle ==
  /\ waitingSet = {}
  /\ queue' = <<>> /\ vruntime' = Runtimes
  /\ UNCHANGED <<running, waiting, runningSet, waitingSet>>

Serves(k, i) ==
  LET sorted == Sched!SortedQueue(Runtimes)
  IN  /\ i \in Live /\ sorted[i] = k /\ \A j \in Live : j <= i
      /\ waiting' = [waiting EXCEPT ![k] = @ - 1]
      /\ queue' = SubSeq(sorted, 1, IF waiting[k] = 1 THEN i - 1 ELSE i)
      /\ waitingSet' = IF waiting[k] = 1 THEN waitingSet \ {k} ELSE waitingSet
      /\ running' = [running EXCEPT ![k] = @ + 1]
      /\ runningSet' = runningSet \cup {k}
      /\ vruntime' = [Runtimes EXCEPT ![k] =
                        Sched!Charged(k, IF running[k] = 0
                        \/ Sched!Accounted(k) THEN @ ELSE Sched!Ticked(k))]

LEMMA ScheduleServes ==
  ASSUME SchedInv, Sched!Schedule
  PROVE  /\ SchedIdle \/ \E k \in Tasks, i \in Live : Serves(k, i)
         /\ vmin' = Sched!AccountedVmin /\ roundTick' = Sched!AccountedRound /\ now' = now
         /\ \/ lastTick' = [k \in Tasks |-> Sched!AccountedTick(k)]
            \/ \E k \in Tasks : lastTick'
               = [j \in Tasks |-> IF j = k THEN now ELSE Sched!AccountedTick(j)]
<1> DEFINE sorted == Sched!SortedQueue(Runtimes)
<1>1. /\ sorted \in Seq(Tasks)
      /\ \A k \in waitingSet : \E i \in Live : sorted[i] = k
    BY SortedByRuntime
<1>2. \A i \in DOMAIN sorted : sorted[i] \in Tasks
    BY <1>1, LenProperties, ElementOfSeq
<1>3. CASE Live = {}
  <2>1. waitingSet = {}
      BY <1>1, <1>3
  <2> QED
      BY <1>3, <2>1 DEF Sched!Schedule, SchedIdle, Live, Runtimes
<1>4. CASE Live # {}
  <2>1. PICK i \in Live :
          LET k == sorted[i]
          IN  /\ \A j \in Live : j <= i
              /\ waiting' = [waiting EXCEPT ![k] = @ - 1]
              /\ queue' = Sched!AfterServing(sorted, i)
              /\ waitingSet' = IF waiting[k] = 1 THEN waitingSet \ {k} ELSE waitingSet
              /\ vruntime' = [Runtimes EXCEPT ![k] =
                   Sched!Charged(k, IF running[k] = 0
                   \/ Sched!Accounted(k) THEN @ ELSE Sched!Ticked(k))]
              /\ lastTick' = [j \in Tasks |-> IF j = k THEN now ELSE Sched!AccountedTick(j)]
              /\ running' = [running EXCEPT ![k] = @ + 1]
              /\ runningSet' = runningSet \cup {k}
      BY <1>4 DEF Sched!Schedule, Live, Runtimes
  <2>2. sorted[i] \in Tasks
      BY <1>2 DEF Live
  <2>3. Serves(sorted[i], i)
      BY <2>1 DEF Serves, Sched!AfterServing
  <2> QED
      BY <2>1, <2>2, <2>3 DEF Sched!Schedule
<1> QED
    BY <1>3, <1>4

\* A task that is charged for one more slot has the loan in its runtime.
LEMMA ChargeCoversLoan ==
  ASSUME Sched!SchedulerAssumption, SchedInv, NEW k \in Tasks
  PROVE  LET charged == Sched!Charged(k, IF running[k] = 0 \/ Sched!Accounted(k)
                                   THEN Sched!AccountedRuntime(k) ELSE Sched!Ticked(k))
         IN  charged \in Nat /\ charged >= quantum * (running[k] + 1)
<1> DEFINE v == IF running[k] = 0 \/ Sched!Accounted(k)
                THEN Sched!AccountedRuntime(k) ELSE Sched!Ticked(k)
<1>1. /\ quantum \in Nat /\ wakeup \in Nat /\ running[k] \in Nat /\ vruntime[k] \in Nat
      /\ Sched!AccountedVmin \in Nat /\ vruntime[k] >= quantum * running[k]
    BY VminIsNatural DEF SchedInv, Sched!TypeOK, Sched!LoansCovered, Sched!SchedulerAssumption
<1>2. v \in Nat /\ v >= vruntime[k]
    BY AccountingOnlyAdds, TicksOnlyAdd DEF SchedInv
<1> HIDE DEF v
<1>3. Sched!Charged(k, v) \in Nat /\ Sched!Charged(k, v) >= quantum + v
    BY <1>1, <1>2 DEF Sched!Charged, Sched!Larger
<1>4. quantum * (running[k] + 1) = quantum * running[k] + quantum /\ quantum * running[k] \in Nat
    BY <1>1, ProductsAreNatural
<1> QED
    BY <1>1, <1>2, <1>3, <1>4 DEF v

LEMMA SchedServesInv ==
  ASSUME Sched!SchedulerAssumption, SchedInv, NEW k \in Tasks, NEW i \in Live, Serves(k, i)
  PROVE  /\ vruntime' \in [Tasks -> Nat] /\ running' \in [Tasks -> Nat]
         /\ waiting' \in [Tasks -> Nat] /\ queue' \in Seq(Tasks)
         /\ runningSet' \subseteq Tasks /\ waitingSet' \subseteq Tasks
         /\ Sched!NobodyForgotten' /\ Sched!LoansCovered'
<1> DEFINE sorted == Sched!SortedQueue(Runtimes)
           last == IF waiting[k] = 1 THEN i - 1 ELSE i
<1>1. /\ sorted \in Seq(Tasks)
      /\ \A j \in waitingSet : \E r \in Live : sorted[r] = j
    BY SortedByRuntime
<1>2. /\ sorted[i] = k /\ \A j \in Live : j <= i
      /\ waiting' = [waiting EXCEPT ![k] = waiting[k] - 1]
      /\ queue' = SubSeq(sorted, 1, last)
      /\ waitingSet' = IF waiting[k] = 1 THEN waitingSet \ {k} ELSE waitingSet
      /\ running' = [running EXCEPT ![k] = running[k] + 1]
      /\ runningSet' = runningSet \cup {k}
    BY DEF Serves, SchedInv, Sched!TypeOK
<1>3. /\ DOMAIN sorted = 1..Len(sorted) /\ Len(sorted) \in Nat
      /\ \A r \in 1..Len(sorted) : sorted[r] \in Tasks
    BY <1>1, LenProperties, ElementOfSeq
<1>4. i \in 1..Len(sorted) /\ waiting[k] \in Nat \ {0} /\ \A r \in Live : r \in 1..Len(sorted)
    BY <1>2, <1>3 DEF Live, SchedInv, Sched!TypeOK
<1> HIDE DEF sorted
<1>5. last \in 0..Len(sorted) /\ last \in {i - 1, i} /\ (last = i - 1 <=> waiting[k] = 1)
    BY <1>4
<1> HIDE DEF last
<1>6. /\ queue' \in Seq(Tasks) /\ Len(queue') = last
      /\ \A r \in 1..last : queue'[r] = sorted[r]
  <2>1. \A r \in 1..last : sorted[r] \in Tasks
      BY <1>3, <1>5
  <2>2. /\ SubSeq(sorted, 1, last) \in Seq(Tasks)
        /\ Len(SubSeq(sorted, 1, last)) = IF 1 <= last THEN last - 1 + 1 ELSE 0
        /\ \A r \in 1..(last - 1 + 1) : SubSeq(sorted, 1, last)[r] = sorted[1 + r - 1]
      BY <1>5, <2>1, SubSeqProperties
  <2> QED
      BY <1>2, <1>5, <2>2
<1>7. DOMAIN queue' = 1..last
    BY <1>6, LenProperties
<1>8. /\ running' \in [Tasks -> Nat] /\ waiting' \in [Tasks -> Nat]
      /\ runningSet' \subseteq Tasks /\ waitingSet' \subseteq Tasks
    BY <1>2, <1>4 DEF SchedInv, Sched!TypeOK
<1>9. Sched!NobodyForgotten'
  <2>1. waitingSet' = {j \in Tasks : waiting'[j] > 0}
      BY <1>2, <1>4 DEF SchedInv, Sched!NobodyForgotten, Sched!TypeOK
  <2>2. runningSet' = {j \in Tasks : running'[j] > 0}
      BY <1>2 DEF SchedInv, Sched!NobodyForgotten, Sched!TypeOK
  <2>3. ASSUME NEW j \in waitingSet' PROVE \E r \in DOMAIN queue' : queue'[r] = j
    <3>1. j \in waitingSet /\ (waiting[k] = 1 => j # k)
        BY <1>2, <2>3
    <3>2. PICK r \in Live : sorted[r] = j
        BY <1>1, <3>1
    <3>3. r \in 1..last
        BY <1>2, <1>4, <1>5, <3>1, <3>2
    <3> QED
        BY <1>6, <1>7, <3>2, <3>3
  <2> QED
      BY <2>1, <2>2, <2>3 DEF Sched!NobodyForgotten
<1>10. vruntime' \in [Tasks -> Nat] /\ Sched!LoansCovered'
  <2> DEFINE charged == Sched!Charged(k, IF running[k] = 0 \/ Sched!Accounted(k)
                                   THEN Sched!AccountedRuntime(k) ELSE Sched!Ticked(k))
  <2>1. vruntime' = [Runtimes EXCEPT ![k] = charged]
      BY DEF Serves, Runtimes
  <2>2. charged \in Nat /\ charged >= quantum * (running[k] + 1)
      BY ChargeCoversLoan
  <2> HIDE DEF charged
  <2>3. \A j \in Tasks : /\ Runtimes[j] \in Nat /\ Runtimes[j] >= vruntime[j]
                         /\ vruntime[j] \in Nat /\ running[j] \in Nat
                         /\ vruntime[j] >= quantum * running[j] /\ quantum * running[j] \in Nat
      BY AccountingOnlyAdds, ProductsAreNatural
      DEF Runtimes, SchedInv, Sched!TypeOK, Sched!LoansCovered, Sched!SchedulerAssumption
  <2>4. Runtimes \in [Tasks -> Nat]
      BY <2>3 DEF Runtimes
  <2>5. vruntime' \in [Tasks -> Nat]
      BY <2>1, <2>2, <2>4
  <2>6. vruntime'[k] = charged /\ running'[k] = running[k] + 1
      BY <1>2, <2>1, <2>4 DEF SchedInv, Sched!TypeOK
  <2>7. \A j \in Tasks \ {k} : vruntime'[j] = Runtimes[j] /\ running'[j] = running[j]
      BY <1>2, <2>1, <2>4 DEF SchedInv, Sched!TypeOK
  <2>8. \A j \in Tasks \ {k} : vruntime'[j] >= quantum * running'[j]
      BY <2>3, <2>7
  <2> QED
      BY <2>2, <2>5, <2>6, <2>8 DEF Sched!LoansCovered
<1> QED
    BY <1>6, <1>8, <1>9, <1>10

LEMMA SchedIdleInv ==
  ASSUME Sched!SchedulerAssumption, SchedInv, SchedIdle
  PROVE  /\ vruntime' \in [Tasks -> Nat] /\ running' \in [Tasks -> Nat]
         /\ waiting' \in [Tasks -> Nat] /\ queue' \in Seq(Tasks)
         /\ runningSet' \subseteq Tasks /\ waitingSet' \subseteq Tasks
         /\ Sched!NobodyForgotten' /\ Sched!LoansCovered'
<1> USE DEF SchedInv, SchedIdle
<1>1. \A j \in Tasks : /\ Runtimes[j] \in Nat /\ Runtimes[j] >= vruntime[j]
                       /\ vruntime[j] \in Nat /\ running[j] \in Nat
                       /\ vruntime[j] >= quantum * running[j] /\ quantum * running[j] \in Nat
    BY AccountingOnlyAdds, ProductsAreNatural
    DEF Runtimes, Sched!TypeOK, Sched!LoansCovered, Sched!SchedulerAssumption
<1>2. Runtimes \in [Tasks -> Nat]
    BY <1>1 DEF Runtimes
<1>3. Sched!LoansCovered'
  <2>1. \A j \in Tasks : vruntime'[j] = Runtimes[j] /\ running'[j] = running[j]
      OBVIOUS
  <2>2. \A j \in Tasks : vruntime'[j] >= quantum * running'[j]
      BY <1>1, <2>1
  <2> QED
      BY <2>2 DEF Sched!LoansCovered
<1>4. Sched!NobodyForgotten'
    BY DEF Sched!NobodyForgotten
<1> QED
    BY <1>2, <1>3, <1>4 DEF Sched!TypeOK

LEMMA SchedScheduleInv ==
  ASSUME Sched!SchedulerAssumption, SchedInv, Sched!Schedule
  PROVE  SchedInv'
<1>1. /\ vruntime' \in [Tasks -> Nat] /\ running' \in [Tasks -> Nat]
      /\ waiting' \in [Tasks -> Nat] /\ queue' \in Seq(Tasks)
      /\ runningSet' \subseteq Tasks /\ waitingSet' \subseteq Tasks
      /\ Sched!NobodyForgotten' /\ Sched!LoansCovered'
    BY ScheduleServes, SchedIdleInv, SchedServesInv
<1>2. /\ vmin' = Sched!AccountedVmin /\ roundTick' = Sched!AccountedRound /\ now' = now
      /\ \/ lastTick' = [k \in Tasks |-> Sched!AccountedTick(k)]
         \/ \E k \in Tasks : lastTick'
            = [j \in Tasks |-> IF j = k THEN now ELSE Sched!AccountedTick(j)]
    BY ScheduleServes
<1>3. vmin' \in Nat /\ now' \in Nat /\ roundTick' \in Nat
    BY <1>2, VminIsNatural DEF SchedInv, Sched!TypeOK, Sched!AccountedRound,
       Sched!SchedulerAssumption
<1>4. \A k \in Tasks : Sched!AccountedTick(k) \in Nat /\ Sched!AccountedTick(k) <= now
    BY AccountingOnlyAdds DEF SchedInv
<1>5. lastTick' \in [Tasks -> Nat] /\ ClocksBehind'
  <2>1. now \in Nat
      BY DEF SchedInv, Sched!TypeOK
  <2>2. CASE lastTick' = [k \in Tasks |-> Sched!AccountedTick(k)]
      BY <1>2, <1>4, <2>1, <2>2 DEF ClocksBehind
  <2>3. CASE \E k \in Tasks : lastTick'
             = [j \in Tasks |-> IF j = k THEN now ELSE Sched!AccountedTick(j)]
      BY <1>2, <1>4, <2>1, <2>3 DEF ClocksBehind
  <2> QED
      BY <1>2, <2>2, <2>3
<1> QED
    BY <1>1, <1>3, <1>5 DEF SchedInv, Sched!TypeOK

LEMMA SchedNextInv ==
  ASSUME Sched!SchedulerAssumption, SchedInv, [Sched!Next]_(Sched!vars)
  PROVE  SchedInv'
<1>1. CASE UNCHANGED Sched!vars
    BY <1>1 DEF Sched!vars, SchedInv, Sched!TypeOK, Sched!NobodyForgotten, Sched!LoansCovered,
       ClocksBehind
<1> QED
    BY <1>1, SchedAdvanceInv, SchedScheduleInv, SchedAddInv, SchedRemoveInv, SchedDiscardInv,
       SchedFinishInv DEF Sched!Next

-----------------------------------------------------------------------------
(***************************************************************************)
(* The results.                                                            *)
(***************************************************************************)
\* The inductive invariant holds.
THEOREM SafetyOfScheduler == ASSUME Sched!SchedulerAssumption PROVE Sched!Spec => []SchedInv
<1>1. Sched!Init => SchedInv
    BY SchedInitInv
<1>2. SchedInv /\ [Sched!Next]_(Sched!vars) => SchedInv'
    BY SchedNextInv
<1> QED
    BY <1>1, <1>2, PTL DEF Sched!Spec

\* Lazy removal and adding again lose no task, and the loans of the running slots stay in
\* the runtimes that the order goes by.
THEOREM TasksAreKept == ASSUME Sched!SchedulerAssumption PROVE Sched!Spec => []Sched!QueueKept
<1>1. SchedInv => Sched!QueueKept
    BY DEF SchedInv, Sched!QueueKept, Sched!Consistent
<1> QED
    BY <1>1, SafetyOfScheduler, PTL

LEMMA LeastServedStep ==
  ASSUME Sched!SchedulerAssumption, SchedInv, [Sched!Next]_(Sched!vars),
         NEW k \in Tasks, running'[k] > running[k], NEW j \in waitingSet
  PROVE  Sched!AccountedRuntime(k) <= Sched!AccountedRuntime(j)
<1> DEFINE sorted == Sched!SortedQueue(Runtimes)
<1>1. Sched!Schedule
  <2>1. running[k] \in Nat
      BY DEF SchedInv, Sched!TypeOK
  <2>2. ~ (running'[k] > running[k]) \/ Sched!Schedule
    <3>1. \A i \in Tasks : Sched!Finish(i) => running'[k] = running[k]
          \/ running'[k] = running[k] - 1
        BY DEF Sched!Finish, SchedInv, Sched!TypeOK
    <3>2. \A i \in Tasks : Sched!Add(i) \/ Sched!Remove(i) \/ Sched!Discard(i)
          => running'[k] = running[k]
        BY DEF Sched!Add, Sched!Remove, Sched!Discard
    <3>3. Sched!Advance \/ UNCHANGED Sched!vars => running'[k] = running[k]
        BY DEF Sched!Advance, Sched!vars
    <3> QED
        BY <2>1, <3>1, <3>2, <3>3 DEF Sched!Next
  <2> QED
      BY <2>2
<1>2. ~ SchedIdle
    BY DEF SchedIdle
<1>3. PICK i \in Tasks, r \in Live : Serves(i, r)
    BY <1>1, <1>2, ScheduleServes
<1>4. i = k
    BY <1>3 DEF Serves, SchedInv, Sched!TypeOK
<1>5. sorted[r] = k /\ \A q \in Live : q <= r
    BY <1>3, <1>4 DEF Serves
<1>6. PICK q \in Live : sorted[q] = j
    BY SortedByRuntime
<1>7. q <= r /\ q \in DOMAIN sorted /\ r \in DOMAIN sorted
    BY <1>5 DEF Live
<1>8. Sched!AccountedRuntime(sorted[r]) <= Sched!AccountedRuntime(sorted[q])
    BY <1>7, SortedByRuntime
<1> QED
    BY <1>5, <1>6, <1>8

\* schedule(): whatever stale or repeated entries the list holds, a slot goes to a task that
\* was served least of all that wait.
THEOREM LeastServedGoesFirst == ASSUME Sched!SchedulerAssumption PROVE Sched!Spec
  => Sched!LeastServedFirst
<1>1. SchedInv /\ [Sched!Next]_(Sched!vars) =>
        \A k \in Tasks : running'[k] > running[k] =>
          \A j \in waitingSet : Sched!AccountedRuntime(k) <= Sched!AccountedRuntime(j)
    BY LeastServedStep
<1> QED
    BY <1>1, SafetyOfScheduler, PTL DEF Sched!Spec, Sched!LeastServedFirst

\* The slots that are asked for, granted and given back are those of a RunQueue.
LEMMA StepOfRunQueue ==
  ASSUME Sched!SchedulerAssumption, SchedInv, [Sched!Next]_(Sched!vars)
  PROVE  Sched!Slots!Next \/ UNCHANGED Sched!Slots!rqVars
<1> USE DEF SchedInv, Sched!TypeOK, Sched!Slots!rqVars
<1>1. CASE UNCHANGED Sched!vars
    BY <1>1 DEF Sched!vars
<1>2. CASE Sched!Advance
    BY <1>2 DEF Sched!Advance
<1>3. CASE Sched!Schedule
  <2>1. CASE SchedIdle
      BY <2>1 DEF SchedIdle
  <2>2. ASSUME NEW k \in Tasks, NEW i \in Live, Serves(k, i) PROVE Sched!Slots!Grant(k)
    <3>1. waiting[k] > 0
        BY <2>2 DEF Serves, Live
    <3> QED
        BY <2>2, <3>1 DEF Serves, Sched!Slots!Grant
  <2> QED
      BY <1>3, <2>1, <2>2, ScheduleServes DEF Sched!Slots!Next
<1>4. ASSUME NEW k \in Tasks, Sched!Add(k) PROVE Sched!Slots!Ask(k)
    BY <1>4 DEF Sched!Add, Sched!Slots!Ask
<1>5. ASSUME NEW k \in Tasks, Sched!Remove(k) PROVE Sched!Slots!Withdraw(k)
  <2>1. waiting[k] > 0 /\ waiting[k] - 1 \in 0..(waiting[k] - 1)
      BY <1>5 DEF Sched!Remove
  <2>2. waiting' = [waiting EXCEPT ![k] = waiting[k] - 1] /\ UNCHANGED running
      BY <1>5 DEF Sched!Remove
  <2> QED
      BY <2>1, <2>2 DEF Sched!Slots!Withdraw
<1>6. ASSUME NEW k \in Tasks, Sched!Discard(k) PROVE Sched!Slots!Withdraw(k)
             \/ UNCHANGED Sched!Slots!rqVars
  <2>1. waiting' = [waiting EXCEPT ![k] = 0] /\ UNCHANGED running
      BY <1>6 DEF Sched!Discard
  <2>2. CASE waiting[k] = 0
      BY <2>1, <2>2
  <2>3. CASE waiting[k] # 0
    <3>1. waiting[k] > 0 /\ 0 \in 0..(waiting[k] - 1)
        BY <2>3
    <3> QED
        BY <2>1, <3>1 DEF Sched!Slots!Withdraw
  <2> QED
      BY <2>2, <2>3
<1>7. ASSUME NEW k \in Tasks, Sched!Finish(k) PROVE Sched!Slots!GiveBack(k)
    BY <1>7 DEF Sched!Finish, Sched!Slots!GiveBack
<1> QED
    BY <1>1, <1>2, <1>3, <1>4, <1>5, <1>6, <1>7 DEF Sched!Next, Sched!Slots!Next

THEOREM SchedulerIsARunQueue == ASSUME Sched!SchedulerAssumption PROVE Sched!Spec
  => Sched!ImplementsRunQueue
<1>1. Sched!Init => Sched!Slots!Init
    BY DEF Sched!Init, Sched!Slots!Init
<1>2. SchedInv /\ [Sched!Next]_(Sched!vars) => [Sched!Slots!Next]_(Sched!Slots!rqVars)
    BY StepOfRunQueue
<1> QED
    BY <1>1, <1>2, SafetyOfScheduler, PTL DEF Sched!Spec, Sched!ImplementsRunQueue,
       Sched!Slots!Spec

-----------------------------------------------------------------------------
(* The counter.  Every call under way has one statement queued or one answer coming.  The values *)
(* the row takes while the queued statements run are planned (a function of the position in the *)
(* queue); the cache, once filled, is the last of them, and every ticket lies below it. *)

\* The sizes of sets are those of FiniteSets.
LEMMA CounterSets ==
  \A S : (Counter!IsFiniteSet(S) <=> IsFiniteSet(S)) /\ Counter!Cardinality(S) = Cardinality(S)
    BY DEF Cardinality, Counter!Cardinality, IsFiniteSet, Counter!IsFiniteSet

Statements == [kind : {"select", "upsert", "commit"}, coro : Coros]
Answers == [coro : Coros, value : Nat]

\* What a coroutine waits for.
Matches(kind, p) ==
  \/ kind = "select" /\ p = "selecting"
  \/ kind = "upsert" /\ p = "writing"
  \/ kind = "commit" /\ p = "committing"

\* One statement or answer per coroutine, of the kind that it waits for.
OneEach ==
  /\ \A i \in DOMAIN statements : Matches(statements[i].kind, coro[statements[i].coro])
  /\ \A i \in DOMAIN answers : coro[answers[i].coro] \in {"selecting", "writing", "committing"}
  /\ \A i, j \in DOMAIN statements : statements[i].coro = statements[j].coro => i = j
  /\ \A i, j \in DOMAIN answers : answers[i].coro = answers[j].coro => i = j
  /\ \A i \in DOMAIN statements, j \in DOMAIN answers : statements[i].coro # answers[j].coro

\* What is not committed was written by a caller under way, or by one that was cancelled; who
\* hears of its commit has left nothing.
Durable ==
  /\ Counter!ReturnedIsCommitted
  /\ \A i \in DOMAIN answers :
       coro[answers[i].coro] = "committing" => answers[i].coro \notin uncommitted

\* A cancellation changes nothing but the set of those who are cancelled.
Still ==
  /\ UNCHANGED <<cached, table, disk, statements, answers, coro, call, amount, result, crashes,
                 uncommitted, credited>>
  /\ dropped \subseteq dropped' /\ dropped' \subseteq dropped \cup Coros

CounterInv == Counter!TypeOK /\ OneEach /\ Durable

-----------------------------------------------------------------------------
LEMMA Appended ==
  ASSUME NEW S, NEW q \in Seq(S), NEW e \in S
  PROVE  /\ Append(q, e) \in Seq(S) /\ Len(q) \in Nat /\ Len(Append(q, e)) = Len(q) + 1
         /\ DOMAIN q = 1..Len(q) /\ DOMAIN Append(q, e) = 1..(Len(q) + 1)
         /\ \A i \in DOMAIN q : Append(q, e)[i] = q[i] /\ q[i] \in S
         /\ Append(q, e)[Len(q) + 1] = e
<1>1. Len(q) \in Nat /\ DOMAIN q = 1..Len(q)
    BY LenProperties
<1>2. Append(q, e) \in Seq(S) /\ Len(Append(q, e)) = Len(q) + 1
    BY AppendProperties
<1>3. DOMAIN Append(q, e) = 1..(Len(q) + 1)
    BY <1>2, LenProperties
<1>4. \A i \in DOMAIN q : Append(q, e)[i] = q[i] /\ q[i] \in S
    BY <1>1, AppendProperties, ElementOfSeq
<1>5. Append(q, e)[Len(q) + 1] = e
    BY AppendProperties
<1> QED
    BY <1>1, <1>2, <1>3, <1>4, <1>5

LEMMA Removed ==
  ASSUME NEW S, NEW q \in Seq(S), q # <<>>
  PROVE  /\ Tail(q) \in Seq(S) /\ Len(q) \in Nat \ {0} /\ Len(Tail(q)) = Len(q) - 1
         /\ DOMAIN q = 1..Len(q) /\ DOMAIN Tail(q) = 1..(Len(q) - 1)
         /\ Head(q) = q[1] /\ Head(q) \in S
         /\ \A i \in 1..(Len(q) - 1) : Tail(q)[i] = q[i + 1]
<1>1. Len(q) \in Nat \ {0} /\ DOMAIN q = 1..Len(q)
    BY LenProperties, EmptySeq
<1>2. Tail(q) \in Seq(S) /\ Len(Tail(q)) = Len(q) - 1 /\ Head(q) \in S
    BY HeadTailProperties
<1>3. DOMAIN Tail(q) = 1..(Len(q) - 1)
    BY <1>2, LenProperties
<1>4. \A i \in 1..(Len(q) - 1) : Tail(q)[i] = q[i + 1]
    BY <1>2, HeadTailProperties
<1>5. Head(q) = q[1]
    OBVIOUS
<1> QED
    BY <1>1, <1>2, <1>3, <1>4, <1>5

\* A coroutine with nothing queued and no answer coming, once its answer is
\* taken off the queue, goes on: it returns or queues its next statement.
Free(c, shift) ==
  /\ answers' \in Seq(Answers)
  /\ \A i \in DOMAIN answers' :
       /\ i + shift \in DOMAIN answers /\ answers'[i] = answers[i + shift]
       /\ answers'[i].coro # c
  /\ \A i \in DOMAIN statements : statements[i].coro # c

Moves(c, kind) ==
  /\ coro' = [coro EXCEPT ![c] = coro'[c]]
  /\ \/ kind = "none" /\ statements' = statements /\ coro'[c] \in {"returned", "killed"}
     \/ /\ kind \in {"select", "upsert", "commit"}
        /\ statements' = Append(statements, [kind |-> kind, coro |-> c])
        /\ Matches(kind, coro'[c])
  /\ UNCHANGED <<table, disk, call, amount, crashes, dropped, uncommitted>>

LEMMA FromStart ==
  ASSUME CounterInv, NEW c \in Coros, coro[c] = "start", answers' = answers PROVE Free(c, 0)
<1>1. \A i \in DOMAIN answers : answers[i].coro # c /\ i + 0 \in DOMAIN answers /\ i = i + 0
  <2>1. DOMAIN answers = 1..Len(answers) /\ Len(answers) \in Nat
      BY LenProperties DEF CounterInv, Counter!TypeOK
  <2> QED
      BY <2>1 DEF CounterInv, OneEach
<1>2. \A i \in DOMAIN statements : statements[i].coro # c
    BY DEF CounterInv, OneEach, Matches
<1>3. answers' \in Seq(Answers)
    BY DEF CounterInv, Counter!TypeOK, Answers
<1> QED
    BY <1>1, <1>2, <1>3 DEF Free

LEMMA FromAnswer ==
  ASSUME CounterInv, answers # <<>>, answers' = Tail(answers)
  PROVE  /\ Head(answers) \in Answers /\ Free(Head(answers).coro, 1)
         /\ 1 \in DOMAIN answers /\ Head(answers) = answers[1]
<1>1. answers \in Seq(Answers)
    BY DEF CounterInv, Counter!TypeOK, Answers
<1>2. /\ answers' \in Seq(Answers) /\ DOMAIN answers' = 1..(Len(answers) - 1)
      /\ DOMAIN answers = 1..Len(answers) /\ Head(answers) = answers[1]
      /\ Head(answers) \in Answers /\ Len(answers) \in Nat \ {0}
      /\ \A i \in 1..(Len(answers) - 1) : answers'[i] = answers[i + 1]
    BY <1>1, Removed
<1>3. \A i \in DOMAIN answers' :
        /\ i + 1 \in DOMAIN answers /\ answers'[i] = answers[i + 1]
        /\ answers'[i].coro # Head(answers).coro
  <2> TAKE i \in DOMAIN answers'
  <2>1. i + 1 \in DOMAIN answers /\ answers'[i] = answers[i + 1] /\ i + 1 # 1
        /\ 1 \in DOMAIN answers
      BY <1>2
  <2> QED
      BY <1>2, <2>1 DEF CounterInv, OneEach
<1>4. \A i \in DOMAIN statements : statements[i].coro # Head(answers).coro
    BY <1>2 DEF CounterInv, OneEach
<1> QED
    BY <1>2, <1>3, <1>4 DEF Free

LEMMA MovesOneEach ==
  ASSUME CounterInv, NEW c \in Coros, NEW shift \in {0, 1}, NEW kind, Free(c, shift), Moves(c,
       kind)
  PROVE  OneEach'
<1>1. /\ \A d \in Coros \ {c} : coro'[d] = coro[d]
      /\ statements \in Seq(Statements) /\ answers \in Seq(Answers)
    BY DEF Moves, CounterInv, Counter!TypeOK, Statements, Answers
<1>2. /\ \A i \in DOMAIN statements : statements[i] \in Statements
      /\ \A i \in DOMAIN answers : answers[i] \in Answers /\ i \in Nat
      /\ \A i \in DOMAIN answers' : i \in Nat
  <2>1. DOMAIN answers' = 1..Len(answers') /\ Len(answers') \in Nat
      BY LenProperties DEF Free
  <2> QED
      BY <1>1, <2>1, LenProperties, ElementOfSeq
<1>3. /\ \A i \in DOMAIN answers' : coro'[answers'[i].coro]
         \in {"selecting", "writing", "committing"}
      /\ \A i, j \in DOMAIN answers' : answers'[i].coro = answers'[j].coro => i = j
  <2>1. \A i \in DOMAIN answers' : answers'[i] \in Answers
        /\ coro'[answers'[i].coro] = coro[answers'[i].coro]
      BY <1>1, <1>2 DEF Free, Answers
  <2>2. ASSUME NEW i \in DOMAIN answers', NEW j \in DOMAIN answers',
               answers'[i].coro = answers'[j].coro
        PROVE  i = j
    <3>1. i + shift = j + shift
        BY <2>2 DEF Free, CounterInv, OneEach
    <3> QED
        BY <1>2, <3>1
  <2> QED
      BY <2>1, <2>2 DEF Free, CounterInv, OneEach
<1>4. CASE kind = "none"
  <2>1. statements' = statements
      BY <1>4 DEF Moves
  <2>2. \A i \in DOMAIN statements : coro'[statements[i].coro] = coro[statements[i].coro]
      BY <1>1, <1>2 DEF Free, Statements
  <2> QED
      BY <1>3, <2>1, <2>2 DEF OneEach, Free, CounterInv
<1>5. CASE kind # "none"
  <2> DEFINE e == [kind |-> kind, coro |-> c]
  <2>1. e \in Statements /\ statements' = Append(statements, e) /\ Matches(kind, coro'[c])
      BY <1>5 DEF Moves, Statements
  <2>2. /\ Len(statements) \in Nat /\ DOMAIN statements = 1..Len(statements)
        /\ DOMAIN statements' = 1..(Len(statements) + 1)
        /\ \A i \in DOMAIN statements : statements'[i] = statements[i]
        /\ statements'[Len(statements) + 1] = e
    <3> HIDE DEF e
    <3> QED
        BY <1>1, <2>1, Appended
  <2>3. \A i \in DOMAIN statements' :
          i \in DOMAIN statements \/ (i = Len(statements) + 1 /\ i \notin DOMAIN statements)
      BY <1>1, <2>2, LenProperties
  <2>4. \A i \in DOMAIN statements : coro'[statements[i].coro] = coro[statements[i].coro]
      BY <1>1, <1>2 DEF Free, Statements
  <2>5. \A i \in DOMAIN statements' : Matches(statements'[i].kind, coro'[statements'[i].coro])
      BY <2>1, <2>2, <2>3, <2>4 DEF CounterInv, OneEach
  <2>6. \A i, j \in DOMAIN statements' : statements'[i].coro = statements'[j].coro => i = j
      BY <2>2, <2>3 DEF CounterInv, OneEach, Free
  <2>7. \A i \in DOMAIN statements', j \in DOMAIN answers' :
        statements'[i].coro # answers'[j].coro
      BY <2>2, <2>3 DEF CounterInv, OneEach, Free
  <2> QED
      BY <1>3, <2>5, <2>6, <2>7 DEF OneEach
<1> QED
    BY <1>4, <1>5

\* What a coroutine does when it moves, and what it queues for it.
Does(c, shift, kind) ==
  \/ shift = 0 /\ kind = "select" /\ Counter!StartMiss(c)
  \/ shift = 0 /\ kind = "none" /\ Counter!GetHit(c)
  \/ shift = 0 /\ kind = "upsert" /\ (Counter!FetchAddHit(c) \/ Counter!Set(c))
  \/ /\ shift = 1 /\ answers # <<>> /\ answers[1].coro = c /\ answers[1].value \in Nat
     /\ 1 \in DOMAIN answers
     /\ \/ /\ kind = "none"
           /\ \/ Counter!GetMissed(c, answers[1].value)
              \/ Counter!Committed(c)
              \/ c \in dropped /\ Counter!Unheard(c)
        \/ kind = "upsert" /\ Counter!FetchAddMissed(c, answers[1].value)
        \/ kind = "commit" /\ Counter!Written(c)

LEMMA StepsAreMoves ==
  ASSUME CounterInv, Counter!Next
  PROVE  \/ Counter!RunStatement \/ Counter!Crash \/ Still
         \/ \E c \in Coros, shift \in {0, 1}, kind \in {"none", "select", "upsert", "commit"} :
              Free(c, shift) /\ Moves(c, kind) /\ Does(c, shift, kind)
<1> USE DEF Moves, Does, Matches, Counter!Return, Counter!Queue, Counter!Statement, Counter!Apply
<1>1. ASSUME NEW c \in Coros, Counter!StartMiss(c)
      PROVE  Free(c, 0) /\ Moves(c, "select") /\ Does(c, 0, "select")
  <2> USE <1>1 DEF Counter!StartMiss
  <2>1. Moves(c, "select")
      BY DEF CounterInv, Counter!TypeOK
  <2> QED
      BY <2>1, FromStart
<1>2. ASSUME NEW c \in Coros, Counter!GetHit(c)
      PROVE  Free(c, 0) /\ Moves(c, "none") /\ Does(c, 0, "none")
  <2> USE <1>2 DEF Counter!GetHit
  <2>1. Moves(c, "none")
      BY DEF CounterInv, Counter!TypeOK
  <2> QED
      BY <2>1, FromStart
<1>3. ASSUME NEW c \in Coros, Counter!FetchAddHit(c) \/ Counter!Set(c)
      PROVE  Free(c, 0) /\ Moves(c, "upsert") /\ Does(c, 0, "upsert")
  <2> USE <1>3 DEF Counter!FetchAddHit, Counter!Set
  <2>1. Moves(c, "upsert")
      BY DEF CounterInv, Counter!TypeOK
  <2> QED
      BY <2>1, FromStart
<1>4. ASSUME Counter!Resume
      PROVE  \E c \in Coros, kind \in {"none", "upsert", "commit"} :
               Free(c, 1) /\ Moves(c, kind) /\ Does(c, 1, kind)
  <2>1. PICK c, v : c = answers[1].coro /\ v = answers[1].value
      OBVIOUS
  <2>2. /\ c \in Coros /\ v \in Nat /\ Free(c, 1) /\ answers # <<>> /\ 1 \in DOMAIN answers
        /\ Head(answers).coro = c /\ Head(answers).value = v
      BY <1>4, <2>1, FromAnswer DEF Counter!Resume, Answers
  <2>3. UNCHANGED <<table, disk, call, amount, crashes, dropped, uncommitted>>
      BY <1>4 DEF Counter!Resume
  <2>4. CASE Counter!GetMissed(c, v)
    <3>1. Moves(c, "none")
        BY <2>2, <2>3, <2>4 DEF Counter!GetMissed, CounterInv, Counter!TypeOK
    <3>2. Does(c, 1, "none")
        BY <2>1, <2>2, <2>4
    <3> QED
        BY <2>2, <3>1, <3>2
  <2>5. CASE Counter!FetchAddMissed(c, v)
    <3>1. Moves(c, "upsert")
        BY <2>2, <2>3, <2>5 DEF Counter!FetchAddMissed, CounterInv, Counter!TypeOK
    <3>2. Does(c, 1, "upsert")
        BY <2>1, <2>2, <2>5
    <3> QED
        BY <2>2, <3>1, <3>2
  <2>6. CASE Counter!Written(c)
    <3>1. Moves(c, "commit")
        BY <2>2, <2>3, <2>6 DEF Counter!Written, CounterInv, Counter!TypeOK
    <3>2. Does(c, 1, "commit")
        BY <2>1, <2>2, <2>6
    <3> QED
        BY <2>2, <3>1, <3>2
  <2>7. CASE Counter!Committed(c)
    <3>1. Moves(c, "none")
        BY <2>2, <2>3, <2>7 DEF Counter!Committed, CounterInv, Counter!TypeOK
    <3>2. Does(c, 1, "none")
        BY <2>1, <2>2, <2>7
    <3> QED
        BY <2>2, <3>1, <3>2
  <2>8. CASE c \in dropped /\ Counter!Unheard(c)
    <3>1. Moves(c, "none")
        BY <2>2, <2>3, <2>8 DEF Counter!Unheard, CounterInv, Counter!TypeOK
    <3>2. Does(c, 1, "none")
        BY <2>1, <2>2, <2>8
    <3> QED
        BY <2>2, <3>1, <3>2
  <2> QED
      BY <1>4, <2>2, <2>4, <2>5, <2>6, <2>7, <2>8 DEF Counter!Resume
<1>5. ASSUME NEW c \in Coros, Counter!Cancel(c) PROVE Still
    BY <1>5 DEF Counter!Cancel, Still
<1> HIDE DEF Moves, Does
<1> QED
    BY <1>1, <1>2, <1>3, <1>4, <1>5 DEF Counter!Next

\* The thread takes the first statement and answers it last.
LEMMA RanStatement ==
  ASSUME CounterInv, Counter!RunStatement
  PROVE  /\ 1 \in DOMAIN statements /\ statements[1] \in Statements
         /\ statements' \in Seq(Statements) /\ answers' \in Seq(Answers)
         /\ Len(statements) \in Nat \ {0} /\ Len(statements') = Len(statements) - 1
         /\ DOMAIN statements = 1..Len(statements)
         /\ \A i \in DOMAIN statements' :
              i \in Nat /\ i + 1 \in DOMAIN statements /\ i # 0
              /\ statements'[i] = statements[i + 1]
         /\ \A i \in DOMAIN answers' :
              \/ i \in DOMAIN answers /\ answers'[i] = answers[i] /\ i < Len(answers) + 1
              \/ /\ i = Len(answers) + 1 /\ i \notin DOMAIN answers
                 /\ answers'[i] = [coro |-> statements[1].coro, value |-> Counter!RowValue(table)]
         /\ DOMAIN answers \subseteq Nat
         /\ table' = IF statements[1].kind # "upsert" THEN table
                     ELSE IF call[statements[1].coro] = "set" THEN amount[statements[1].coro]
                     ELSE Counter!RowValue(table) + amount[statements[1].coro]
         /\ disk' = IF statements[1].kind = "commit" THEN table ELSE disk
         /\ uncommitted' = IF statements[1].kind = "commit" THEN {}
                           ELSE IF statements[1].kind = "upsert"
                             THEN uncommitted \cup {statements[1].coro} ELSE uncommitted
         /\ UNCHANGED <<cached, coro, call, amount, result, crashes, dropped, credited>>
<1>1. statements \in Seq(Statements) /\ answers \in Seq(Answers)
      /\ Counter!RowValue(table) \in Nat
    BY DEF CounterInv, Counter!TypeOK, Statements, Answers, Counter!RowValue
<1>2. statements # <<>> /\ statements' = Tail(statements)
    BY DEF Counter!RunStatement
<1>3. /\ statements' \in Seq(Statements) /\ Len(statements) \in Nat \ {0}
      /\ Len(statements') = Len(statements) - 1
      /\ DOMAIN statements = 1..Len(statements)
      /\ DOMAIN statements' = 1..(Len(statements) - 1)
      /\ Head(statements) = statements[1] /\ statements[1] \in Statements
      /\ \A i \in 1..(Len(statements) - 1) : statements'[i] = statements[i + 1]
    BY <1>1, <1>2, Removed
<1> DEFINE a == [coro |-> statements[1].coro, value |-> Counter!RowValue(table)]
<1>4. a \in Answers /\ answers' = Append(answers, a)
    BY <1>1, <1>3 DEF Counter!RunStatement, Statements, Answers
<1> HIDE DEF a
<1>5. /\ answers' \in Seq(Answers) /\ Len(answers) \in Nat
      /\ DOMAIN answers = 1..Len(answers) /\ DOMAIN answers' = 1..(Len(answers) + 1)
      /\ \A i \in DOMAIN answers : answers'[i] = answers[i]
      /\ answers'[Len(answers) + 1] = a
    BY <1>1, <1>4, Appended
<1>6. /\ table' = IF statements[1].kind # "upsert" THEN table
                  ELSE IF call[statements[1].coro] = "set" THEN amount[statements[1].coro]
                  ELSE Counter!RowValue(table) + amount[statements[1].coro]
      /\ disk' = IF statements[1].kind = "commit" THEN table ELSE disk
      /\ uncommitted' = IF statements[1].kind = "commit" THEN {}
                        ELSE IF statements[1].kind = "upsert"
                          THEN uncommitted \cup {statements[1].coro} ELSE uncommitted
      /\ UNCHANGED <<cached, coro, call, amount, result, crashes, dropped, credited>>
    BY <1>3 DEF Counter!RunStatement, Counter!RowValue
<1>7. \A i \in DOMAIN statements' :
        i \in Nat /\ i + 1 \in DOMAIN statements /\ i # 0 /\ statements'[i] = statements[i + 1]
    BY <1>3
<1>8. \A i \in DOMAIN answers' :
        \/ i \in DOMAIN answers /\ answers'[i] = answers[i] /\ i < Len(answers) + 1
        \/ i = Len(answers) + 1 /\ i \notin DOMAIN answers /\ answers'[i] = a
    BY <1>5
<1> QED
    BY <1>3, <1>5, <1>6, <1>7, <1>8 DEF a

LEMMA RunOneEach == ASSUME CounterInv, Counter!RunStatement PROVE OneEach'
<1> USE RanStatement DEF CounterInv
<1>1. \A i \in DOMAIN statements' : Matches(statements'[i].kind, coro'[statements'[i].coro])
    BY DEF OneEach
<1>2. \A i \in DOMAIN answers' : coro'[answers'[i].coro]
      \in {"selecting", "writing", "committing"}
  <2>1. coro[statements[1].coro] \in {"selecting", "writing", "committing"}
      BY DEF OneEach, Matches
  <2> QED
      BY <2>1 DEF OneEach
<1>3. \A i, j \in DOMAIN statements' : statements'[i].coro = statements'[j].coro => i = j
  <2> TAKE i, j \in DOMAIN statements'
  <2> HAVE statements'[i].coro = statements'[j].coro
  <2>1. /\ i + 1 \in DOMAIN statements /\ j + 1 \in DOMAIN statements
        /\ statements[i + 1].coro = statements[j + 1].coro /\ i \in Nat /\ j \in Nat
      OBVIOUS
  <2>2. i + 1 = j + 1
      BY <2>1 DEF OneEach
  <2> QED
      BY <2>1, <2>2
<1>4. \A i, j \in DOMAIN answers' : answers'[i].coro = answers'[j].coro => i = j
    BY DEF OneEach
<1>5. \A i \in DOMAIN statements', j \in DOMAIN answers' : statements'[i].coro # answers'[j].coro
  <2> TAKE i \in DOMAIN statements', j \in DOMAIN answers'
  <2>1. i + 1 \in DOMAIN statements /\ i + 1 # 1 /\ statements'[i] = statements[i + 1]
      OBVIOUS
  <2>2. 1 \in DOMAIN statements /\ statements[1].coro # statements[i + 1].coro
      BY <2>1 DEF OneEach
  <2>3. CASE j \in DOMAIN answers /\ answers'[j] = answers[j]
      BY <2>1, <2>3 DEF OneEach
  <2>4. CASE answers'[j] = [coro |-> statements[1].coro, value |-> Counter!RowValue(table)]
      BY <2>1, <2>2, <2>4
  <2> QED
      BY <2>3, <2>4
<1> QED
    BY <1>1, <1>2, <1>3, <1>4, <1>5 DEF OneEach

LEMMA MovesDurable ==
  ASSUME CounterInv, NEW c \in Coros, NEW shift, NEW kind, Free(c, shift), Moves(c, kind),
         Does(c, shift, kind)
  PROVE  Durable'
<1>1. \A d \in Coros \ {c} : coro'[d] = coro[d]
    BY DEF Moves, CounterInv, Counter!TypeOK
<1>2. disk' = disk /\ table' = table /\ uncommitted' = uncommitted /\ dropped' = dropped
      /\ uncommitted \subseteq Coros
    BY DEF Moves, CounterInv, Counter!TypeOK
<1>3. ASSUME c \in uncommitted
      PROVE  coro'[c] \in {"writing", "committing"} \/ (c \in dropped /\ coro'[c] = "killed")
  <2>1. coro[c] \in {"writing", "committing"} \/ coro[c] = "killed"
      BY <1>3 DEF CounterInv, Durable, Counter!ReturnedIsCommitted
  <2>2. CASE Counter!Committed(c) /\ 1 \in DOMAIN answers /\ answers[1].coro = c
      BY <1>3, <2>2 DEF CounterInv, Durable, Counter!Committed
  <2>3. CASE c \in dropped /\ Counter!Unheard(c)
      BY <2>3 DEF Counter!Unheard, CounterInv, Counter!TypeOK
  <2>4. CASE Counter!Written(c)
      BY <2>4 DEF Counter!Written, CounterInv, Counter!TypeOK
  <2> QED
      BY <2>1, <2>2, <2>3, <2>4 DEF Does, Counter!StartMiss, Counter!GetHit, Counter!FetchAddHit,
         Counter!Set, Counter!GetMissed, Counter!FetchAddMissed, Counter!Committed
<1>4. \A d \in uncommitted :
        coro'[d] \in {"writing", "committing"} \/ (d \in dropped /\ coro'[d] = "killed")
    BY <1>1, <1>2, <1>3 DEF CounterInv, Durable, Counter!ReturnedIsCommitted
<1>5. \A i \in DOMAIN answers' :
        coro'[answers'[i].coro] = "committing" => answers'[i].coro \notin uncommitted
  <2> TAKE i \in DOMAIN answers'
  <2>1. answers' \in Seq(Answers)
      BY DEF Free
  <2>2. answers'[i] \in Answers
      BY <2>1, LenProperties, ElementOfSeq
  <2>3. answers'[i].coro \in Coros \ {c}
      BY <2>2 DEF Free, Answers
  <2> QED
      BY <1>1, <2>3 DEF Free, CounterInv, Durable
<1> QED
    BY <1>2, <1>4, <1>5 DEF Durable, CounterInv, Counter!ReturnedIsCommitted

LEMMA RunDurable == ASSUME CounterInv, Counter!RunStatement PROVE Durable'
<1> USE RanStatement DEF CounterInv
<1>1. CASE statements[1].kind = "upsert"
  <2>1. uncommitted' = uncommitted \cup {statements[1].coro} /\ coro' = coro /\ dropped' = dropped
        /\ coro[statements[1].coro] = "writing"
      BY <1>1 DEF OneEach, Matches
  <2>2. \A i \in DOMAIN answers' :
          coro[answers'[i].coro] = "committing" => answers'[i].coro \notin uncommitted'
      BY <2>1 DEF Durable
  <2> QED
      BY <2>1, <2>2 DEF Durable, Counter!ReturnedIsCommitted
<1>2. CASE statements[1].kind = "commit"
    BY <1>2 DEF Durable, Counter!ReturnedIsCommitted
<1>3. CASE statements[1].kind = "select"
  <2>1. /\ table' = table /\ disk' = disk /\ uncommitted' = uncommitted /\ dropped' = dropped
        /\ coro' = coro /\ coro[statements[1].coro] = "selecting"
      BY <1>3 DEF OneEach, Matches
  <2>2. \A i \in DOMAIN answers' :
          coro[answers'[i].coro] = "committing" => answers'[i].coro \notin uncommitted
      BY <2>1 DEF Durable
  <2> QED
      BY <2>1, <2>2 DEF Durable, Counter!ReturnedIsCommitted
<1> QED
    BY <1>1, <1>2, <1>3 DEF Statements

LEMMA MovesType ==
  ASSUME Counter!CounterAssumption, CounterInv, NEW c \in Coros, NEW shift, NEW kind, Free(c,
       shift),
         Moves(c, kind), Does(c, shift, kind)
  PROVE  Counter!TypeOK'
<1> USE DEF CounterInv, Counter!TypeOK, Counter!CounterAssumption
<1>1. statements' \in Seq(Statements)
  <2>1. CASE kind = "none"
      BY <2>1 DEF Moves, Statements
  <2>2. CASE kind # "none"
    <3> DEFINE e == [kind |-> kind, coro |-> c]
    <3>1. e \in Statements /\ statements' = Append(statements, e)
        BY <2>2 DEF Moves, Statements
    <3>2. statements \in Seq(Statements)
        BY DEF Statements
    <3> HIDE DEF e
    <3> QED
        BY <3>1, <3>2, AppendProperties
  <2> QED
      BY <2>1, <2>2
<1>2. coro' \in [Coros -> {"start", "selecting", "writing", "committing", "returned", "killed"}]
    BY DEF Moves, Matches
<1>3. /\ cached' \in Nat \cup {None} /\ result' \in [Coros -> Nat \cup {None}]
      /\ credited' \in Nat
  <2> USE DEF Counter!Return, Counter!Apply, Counter!Rechecked
  <2>1. amount[c] \in Nat
      OBVIOUS
  <2>2. CASE shift = 0 /\ kind = "select" /\ Counter!StartMiss(c)
      BY <2>2 DEF Counter!StartMiss
  <2>3. CASE Counter!GetHit(c)
      BY <2>3 DEF Counter!GetHit
  <2>4. CASE Counter!FetchAddHit(c)
    <3>1. cached' \in Nat
        BY <2>1, <2>4 DEF Counter!FetchAddHit
    <3>2. result' \in [Coros -> Nat \cup {None}]
        BY <2>4 DEF Counter!FetchAddHit
    <3> QED
        BY <2>4, <3>1, <3>2 DEF Counter!FetchAddHit
  <2>9. CASE Counter!Set(c)
      BY <2>1, <2>9 DEF Counter!Set
  <2>5. CASE answers[1].value \in Nat /\ Counter!GetMissed(c, answers[1].value)
      BY <2>5 DEF Counter!GetMissed
  <2>6. CASE answers[1].value \in Nat /\ Counter!FetchAddMissed(c, answers[1].value)
    <3>1. Counter!Rechecked(answers[1].value) \in Nat
        BY <2>6
    <3> HIDE DEF Counter!Rechecked
    <3> QED
        BY <2>1, <2>6, <3>1 DEF Counter!FetchAddMissed
  <2>7. CASE Counter!Written(c)
      BY <2>7 DEF Counter!Written
  <2>8. CASE Counter!Committed(c)
      BY <2>1, <2>8 DEF Counter!Committed
  <2>10. CASE Counter!Unheard(c)
      BY <2>10 DEF Counter!Unheard
  <2> QED
      BY <2>2, <2>3, <2>4, <2>5, <2>6, <2>7, <2>8, <2>9, <2>10 DEF Does
<1> QED
    BY <1>1, <1>2, <1>3 DEF Moves, Free, Statements, Answers

LEMMA RunType ==
  ASSUME Counter!CounterAssumption, CounterInv, Counter!RunStatement
  PROVE  Counter!TypeOK'
<1> USE RanStatement DEF CounterInv, Counter!TypeOK
<1>1. statements[1].coro \in Coros /\ amount[statements[1].coro] \in Nat
    BY DEF Statements, Counter!CounterAssumption
<1>2. table' \in Nat \cup {None} /\ disk' \in Nat \cup {None} /\ uncommitted' \subseteq Coros
    BY <1>1 DEF Counter!RowValue
<1> QED
    BY <1>2 DEF Statements, Answers

LEMMA CrashInv == ASSUME Counter!CounterAssumption, CounterInv, Counter!Crash PROVE CounterInv'
<1> USE DEF CounterInv, Counter!Crash
<1>1. Counter!TypeOK'
    BY EmptySeq DEF Counter!TypeOK
<1>2. statements' = <<>> /\ answers' = <<>> /\ DOMAIN statements' = {} /\ DOMAIN answers' = {}
    OBVIOUS
<1>3. OneEach'
    BY <1>2 DEF OneEach
<1>4. Durable'
    BY <1>2 DEF Durable, Counter!ReturnedIsCommitted
<1> QED
    BY <1>1, <1>3, <1>4

LEMMA CounterInitInv == ASSUME Counter!CounterAssumption, Counter!Init PROVE CounterInv
<1> USE DEF Counter!Init, Counter!CounterAssumption
<1>1. Counter!TypeOK
    BY EmptySeq DEF Counter!TypeOK
<1>2. OneEach
    BY DEF OneEach
<1>3. Durable
    BY DEF Durable, Counter!ReturnedIsCommitted
<1> QED
    BY <1>1, <1>2, <1>3 DEF CounterInv

LEMMA NextInv ==
  ASSUME Counter!CounterAssumption, CounterInv, [Counter!Next]_(Counter!vars)
  PROVE  CounterInv'
<1>0. UNCHANGED Counter!vars => Still
    BY DEF Counter!vars, Still
<1>1. CASE Still
  <2> USE <1>1 DEF Still
  <2>1. Counter!TypeOK' /\ OneEach'
      BY DEF CounterInv, Counter!TypeOK, OneEach
  <2>2. Durable'
      BY DEF CounterInv, Durable, Counter!ReturnedIsCommitted
  <2> QED
      BY <2>1, <2>2 DEF CounterInv
<1>2. CASE Counter!RunStatement
    BY <1>2, RunType, RunOneEach, RunDurable DEF CounterInv
<1>3. ASSUME NEW c \in Coros, NEW shift \in {0, 1},
             NEW kind \in {"none", "select", "upsert", "commit"},
             Free(c, shift), Moves(c, kind), Does(c, shift, kind)
      PROVE  CounterInv'
    BY <1>3, MovesType, MovesOneEach, MovesDurable DEF CounterInv
<1> QED
    BY <1>0, <1>1, <1>2, <1>3, CrashInv, StepsAreMoves

-----------------------------------------------------------------------------
\* The inductive invariant of the counter: the types, one statement or answer for every call
\* under way, and for whatever is not committed a writer, which is under way or was cancelled.
THEOREM SafetyOfCounter == ASSUME Counter!CounterAssumption PROVE Counter!Spec => []CounterInv
<1>1. Counter!Init => CounterInv
    BY CounterInitInv
<1>2. CounterInv /\ [Counter!Next]_(Counter!vars) => CounterInv'
    BY NextInv
<1> QED
    BY <1>1, <1>2, PTL DEF Counter!Spec

\* The types, and that a call which returned has left nothing uncommitted, whoever else was
\* cancelled on the way: what is not committed belongs to a call under way or a cancelled one.
THEOREM CounterIsConsistent == ASSUME Counter!CounterAssumption PROVE Counter!Spec
  => []Counter!Consistent
<1>1. CounterInv => Counter!Consistent
    BY DEF CounterInv, Durable, Counter!Consistent
<1> QED
    BY <1>1, SafetyOfCounter, PTL

-----------------------------------------------------------------------------
\* What a statement makes of a value of the row.
Effect(s, v) ==
  IF s.kind # "upsert" THEN v
  ELSE IF call[s.coro] = "set" THEN amount[s.coro] ELSE v + amount[s.coro]

\* w is the value of the row after each of the queued statements.
Values(w) ==
  /\ w \in [0..Len(statements) -> Nat] /\ w[0] = Counter!RowValue(table)
  /\ \A i \in DOMAIN statements : w[i] = Effect(statements[i], w[i - 1])

Steady(w) ==
  \A i \in 0..Len(statements) :
    (\A j \in DOMAIN statements : i < j => statements[j].kind # "upsert")
      => w[i] = w[Len(statements)]

\* Nobody having called get, what is cached is what the row will be, and as
\* long as nothing is cached nobody has written.
CacheIsLast(w) ==
  Counter!Only({"fetch_add", "set"}) =>
    /\ cached # None => cached = w[Len(statements)]
    /\ cached = None =>
         /\ \A i \in DOMAIN statements : statements[i].kind # "upsert"
         /\ \A i \in DOMAIN answers :
              coro[answers[i].coro] = "selecting" => answers[i].value = Counter!RowValue(table)

\* The end of the range that a ticket reserves.
Top(c) == result[c] + amount[c]
Drew(c) == coro[c] \in {"writing", "committing", "returned"}

\* Tickets are disjoint, below what the row will be, and below what it is once
\* their statements are run.
Tickets(w) ==
  /\ Counter!RowValue(disk) <= Counter!RowValue(table)
  /\ \A c \in Coros : Drew(c) => result[c] \in Nat /\ Top(c) <= w[Len(statements)]
  /\ \A c, d \in Coros : c # d /\ Drew(c) /\ Drew(d) => Top(c) <= result[d] \/ Top(d) <= result[c]
  /\ \A i \in DOMAIN statements :
       /\ statements[i].kind = "upsert" => Top(statements[i].coro) <= w[i]
       /\ statements[i].kind = "commit" => Top(statements[i].coro) <= Counter!RowValue(table)
  /\ \A i \in DOMAIN answers :
       /\ Drew(answers[i].coro) => Top(answers[i].coro) <= Counter!RowValue(table)
       /\ coro[answers[i].coro] = "committing" => Top(answers[i].coro) <= Counter!RowValue(disk)
  /\ \A c \in Coros : coro[c] = "returned" => Top(c) <= Counter!RowValue(disk)

TicketsApart(w) == Counter!Only({"fetch_add"}) => Tickets(w)

Plan(w) == Values(w) /\ Steady(w) /\ CacheIsLast(w) /\ TicketsApart(w)

LEMMA MovesValues ==
  ASSUME Counter!CounterAssumption, CounterInv, NEW c \in Coros, NEW kind, Moves(c, kind),
         NEW w, Values(w), Steady(w)
  PROVE  \E u : /\ Values(u)' /\ Steady(u)'
                /\ \A i \in DOMAIN statements : u[i] = w[i] /\ i \in DOMAIN statements'
                                                 /\ statements'[i] = statements[i]
                /\ \A i \in DOMAIN statements' :
                     \/ i \in DOMAIN statements
                     \/ i = Len(statements') /\ statements'[i] = [kind |-> kind, coro |-> c]
                /\ u[Len(statements')] = Effect([kind |-> kind, coro |-> c], w[Len(statements)])
<1>1. /\ statements \in Seq(Statements) /\ amount[c] \in Nat
      /\ Len(statements) \in Nat /\ DOMAIN statements = 1..Len(statements)
    BY LenProperties DEF CounterInv, Counter!TypeOK, Counter!CounterAssumption, Statements
<1>2. CASE kind = "none"
  <2>1. Values(w)' /\ Steady(w)' /\ statements' = statements
      BY <1>2 DEF Moves, Values, Steady, Effect
  <2>2. Effect([kind |-> kind, coro |-> c], w[Len(statements)]) = w[Len(statements)]
      BY <1>2 DEF Effect
  <2> QED
      BY <2>1, <2>2
<1>3. CASE kind # "none"
  <2> DEFINE e == [kind |-> kind, coro |-> c]
             last == Effect(e, w[Len(statements)])
  <2>1. e \in Statements /\ statements' = Append(statements, e)
      BY <1>3 DEF Moves, Statements
  <2>2. last \in Nat /\ (kind # "upsert" => last = w[Len(statements)])
      BY <1>1 DEF Effect, Values
  <2> HIDE DEF e, last
  <2>3. /\ Len(statements') = Len(statements) + 1
        /\ DOMAIN statements' = 1..(Len(statements) + 1)
        /\ \A i \in DOMAIN statements : statements'[i] = statements[i]
        /\ statements'[Len(statements) + 1] = e
      BY <1>1, <2>1, Appended
  <2>4. PICK u :
          /\ u \in [0..Len(statements') -> Nat]
          /\ \A i \in 0..Len(statements) : u[i] = w[i]
          /\ u[Len(statements) + 1] = last
    <3> DEFINE f == [i \in 0..(Len(statements) + 1) |->
                       IF i = Len(statements) + 1 THEN last ELSE w[i]]
    <3>1. /\ f \in [0..Len(statements') -> Nat]
          /\ \A i \in 0..Len(statements) : f[i] = w[i]
          /\ f[Len(statements) + 1] = last
        BY <1>1, <2>2, <2>3 DEF Values
    <3> QED
        BY <3>1
  <2>5. \A s, v : Effect(s, v)' = Effect(s, v)
      BY DEF Moves, Effect
  <2>6. Values(u)'
    <3>1. u[0] = Counter!RowValue(table)' /\ table' = table
        BY <1>1, <2>4 DEF Values, Moves, Counter!RowValue
    <3>2. ASSUME NEW i \in DOMAIN statements' PROVE u[i] = Effect(statements[i], u[i - 1])'
      <4>1. CASE i \in DOMAIN statements
        <5>1. i \in 0..Len(statements) /\ i - 1 \in 0..Len(statements)
            BY <1>1, <4>1
        <5>2. u[i] = w[i] /\ u[i - 1] = w[i - 1] /\ w[i] = Effect(statements[i], w[i - 1])
            BY <2>4, <4>1, <5>1 DEF Values
        <5> QED
            BY <2>3, <2>5, <4>1, <5>2
      <4>2. CASE i = Len(statements) + 1
        <5>1. i - 1 = Len(statements) /\ u[i - 1] = w[Len(statements)]
            BY <1>1, <2>4, <4>2
        <5> QED
            BY <2>3, <2>4, <2>5, <4>2, <5>1 DEF last
      <4> QED
          BY <1>1, <2>3, <4>1, <4>2
    <3> QED
        BY <2>4, <3>1, <3>2 DEF Values
  <2>7. Steady(u)'
    <3> SUFFICES ASSUME NEW i \in 0..Len(statements'),
                        \A j \in DOMAIN statements' : i < j => statements'[j].kind # "upsert"
                 PROVE  u[i] = u[Len(statements')]
        BY DEF Steady
    <3>1. CASE i = Len(statements) + 1
        BY <2>3, <3>1
    <3>2. CASE i \in 0..Len(statements)
      <4>1. Len(statements) + 1 \in DOMAIN statements' /\ i < Len(statements) + 1
          BY <1>1, <2>3, <3>2
      <4>2. kind # "upsert"
          BY <2>3, <4>1 DEF e
      <4>3. \A j \in DOMAIN statements : i < j => statements[j].kind # "upsert"
          BY <1>1, <2>3
      <4>4. w[i] = w[Len(statements)]
          BY <3>2, <4>3 DEF Steady
      <4> QED
          BY <2>2, <2>3, <2>4, <3>2, <4>2, <4>4
    <3> QED
        BY <1>1, <2>3, <3>1, <3>2
  <2>8. u[Len(statements')] = Effect(e, w[Len(statements)])
      BY <2>3, <2>4 DEF last
  <2>9. \A i \in DOMAIN statements' :
          \/ i \in DOMAIN statements
          \/ i = Len(statements') /\ statements'[i] = e
      BY <1>1, <2>3
  <2>10. \A i \in DOMAIN statements : u[i] = w[i] /\ i \in DOMAIN statements'
                                        /\ statements'[i] = statements[i]
      BY <1>1, <2>3, <2>4
  <2> QED
      BY <2>6, <2>7, <2>8, <2>9, <2>10 DEF e
<1> QED
    BY <1>2, <1>3

LEMMA RunValues ==
  ASSUME Counter!CounterAssumption, CounterInv, Counter!RunStatement, NEW w, Values(w), Steady(w)
  PROVE  \E u : /\ Values(u)' /\ Steady(u)'
                /\ u[Len(statements')] = w[Len(statements)]
                /\ \A i \in DOMAIN statements' : u[i] = w[i + 1]
                /\ Counter!RowValue(table)' = w[1]
<1>1. /\ Len(statements) \in Nat \ {0} /\ Len(statements') = Len(statements) - 1
      /\ DOMAIN statements = 1..Len(statements) /\ DOMAIN statements' = 1..(Len(statements) - 1)
      /\ \A i \in DOMAIN statements' : statements'[i] = statements[i + 1]
    BY RanStatement, LenProperties
<1>2. PICK u :
        /\ u \in [0..Len(statements') -> Nat]
        /\ \A i \in 0..(Len(statements) - 1) : u[i] = w[i + 1]
  <2> DEFINE f == [i \in 0..(Len(statements) - 1) |-> w[i + 1]]
  <2>1. /\ f \in [0..Len(statements') -> Nat]
        /\ \A i \in 0..(Len(statements) - 1) : f[i] = w[i + 1]
      BY <1>1 DEF Values
  <2> QED
      BY <2>1
<1>3. \A s, v : Effect(s, v)' = Effect(s, v)
    BY DEF Counter!RunStatement, Effect
<1>4. Counter!RowValue(table)' = w[1] /\ u[0] = w[1]
  <2>1. w[1] = Effect(statements[1], Counter!RowValue(table))
      BY <1>1 DEF Values
  <2>2. Counter!RowValue(table)' = Effect(statements[1], Counter!RowValue(table))
    <3>1. statements[1].coro \in Coros /\ amount[statements[1].coro] \in Nat
        BY RanStatement DEF Statements, CounterInv, Counter!TypeOK, Counter!CounterAssumption
    <3> QED
        BY RanStatement, <3>1 DEF Effect, Counter!RowValue, CounterInv, Counter!TypeOK,
           Counter!CounterAssumption
  <2> QED
      BY <1>1, <1>2, <2>1, <2>2
<1>5. Values(u)'
  <2>1. ASSUME NEW i \in DOMAIN statements' PROVE u[i] = Effect(statements[i], u[i - 1])'
    <3>1. /\ i \in 0..(Len(statements) - 1) /\ i - 1 \in 0..(Len(statements) - 1)
          /\ i + 1 \in DOMAIN statements /\ (i + 1) - 1 = i /\ (i - 1) + 1 = i
        BY <1>1
    <3>2. u[i] = w[i + 1] /\ u[i - 1] = w[i]
        BY <1>2, <3>1
    <3>3. w[i + 1] = Effect(statements[i + 1], w[i])
        BY <3>1 DEF Values
    <3> QED
        BY <1>1, <1>3, <3>2, <3>3
  <2> QED
      BY <1>2, <1>4, <2>1 DEF Values
<1>6. Steady(u)'
  <2> SUFFICES ASSUME NEW i \in 0..Len(statements'),
                      \A j \in DOMAIN statements' : i < j => statements'[j].kind # "upsert"
               PROVE  u[i] = u[Len(statements')]
      BY DEF Steady
  <2>1. i + 1 \in 0..Len(statements)
      BY <1>1
  <2>2. ASSUME NEW j \in DOMAIN statements, i + 1 < j PROVE statements[j].kind # "upsert"
    <3>1. j - 1 \in DOMAIN statements' /\ i < j - 1 /\ (j - 1) + 1 = j
        BY <1>1, <2>2
    <3> QED
        BY <1>1, <3>1
  <2>3. w[i + 1] = w[Len(statements)]
      BY <2>1, <2>2 DEF Steady
  <2> QED
      BY <1>1, <1>2, <2>3
<1>7. u[Len(statements')] = w[Len(statements)] /\ \A i \in DOMAIN statements' : u[i] = w[i + 1]
    BY <1>1, <1>2
<1> QED
    BY <1>4, <1>5, <1>6, <1>7

\* u plans for the queue with the new statement of c, if it queued one.
Extends(u, w, c, kind) ==
  /\ Values(u)' /\ Steady(u)'
  /\ \A i \in DOMAIN statements : u[i] = w[i] /\ i \in DOMAIN statements'
                                   /\ statements'[i] = statements[i]
  /\ \A i \in DOMAIN statements' :
       \/ i \in DOMAIN statements
       \/ i = Len(statements') /\ statements'[i] = [kind |-> kind, coro |-> c]
  /\ u[Len(statements')] = Effect([kind |-> kind, coro |-> c], w[Len(statements)])

\* With its answer a coroutine that drew a ticket has what it waited for.
LEMMA Answered ==
  ASSUME CounterInv, NEW c \in Coros, NEW shift, NEW kind, Free(c, shift), Moves(c, kind)
  PROVE  \A i \in DOMAIN answers' :
           /\ i + shift \in DOMAIN answers /\ answers'[i] = answers[i + shift]
           /\ answers'[i].coro \in Coros \ {c}
           /\ coro'[answers'[i].coro] = coro[answers'[i].coro]
<1>1. \A i \in DOMAIN answers' : answers'[i] \in Answers
    BY LenProperties, ElementOfSeq DEF Free
<1> QED
    BY <1>1 DEF Free, Moves, CounterInv, Counter!TypeOK, Answers

LEMMA ResumesWithLast ==
  ASSUME Counter!CounterAssumption, CounterInv, NEW w, Plan(w), Counter!Only({"fetch_add",
       "set"}),
         NEW c, Counter!FetchAddMissed(c, answers[1].value), 1 \in DOMAIN answers, answers[1].coro
         = c
  PROVE  Counter!Rechecked(answers[1].value) = w[Len(statements)]
<1>1. CASE cached # None
    BY <1>1 DEF Counter!Rechecked, Plan, CacheIsLast
<1>2. CASE cached = None
  <2>1. answers[1].value = Counter!RowValue(table)
      BY <1>2 DEF Counter!FetchAddMissed, Plan, CacheIsLast
  <2>2. 0 \in 0..Len(statements) /\ \A j \in DOMAIN statements : statements[j].kind # "upsert"
      BY <1>2, LenProperties DEF CounterInv, Counter!TypeOK, Plan, CacheIsLast
  <2>3. w[0] = w[Len(statements)]
      BY <2>2 DEF Plan, Steady
  <2> QED
      BY <1>2, <2>1, <2>3 DEF Counter!Rechecked, Plan, Values
<1> QED
    BY <1>1, <1>2

LEMMA MovesCache ==
  ASSUME Counter!CounterAssumption, CounterInv, NEW c \in Coros, NEW shift, NEW kind, Free(c,
       shift),
         Moves(c, kind), Does(c, shift, kind), NEW w, Plan(w), NEW u, Extends(u, w, c, kind)
  PROVE  CacheIsLast(u)'
<1> SUFFICES ASSUME Counter!Only({"fetch_add", "set"})
             PROVE  /\ cached' # None => cached' = u[Len(statements')]
                    /\ cached' = None =>
                         /\ \A i \in DOMAIN statements' : statements'[i].kind # "upsert"
                         /\ \A i \in DOMAIN answers' :
                              coro'[answers'[i].coro] = "selecting"
                                => answers'[i].value = Counter!RowValue(table)'
    BY DEF CacheIsLast, Counter!Only, Moves
<1>1. call[c] # "get"
    BY DEF Counter!Only
<1>2. CASE kind = "upsert"
  <2>1. cached' # None /\ cached' = u[Len(statements')]
    <3>1. /\ amount[c] \in Nat
          /\ w[Len(statements)] \in Nat
      <4>1. Len(statements) \in 0..Len(statements)
          BY LenProperties DEF CounterInv, Counter!TypeOK
      <4> QED
          BY <4>1 DEF CounterInv, Counter!TypeOK, Counter!CounterAssumption, Plan, Values
    <3>2. u[Len(statements')] = IF call[c] = "set" THEN amount[c]
                                ELSE w[Len(statements)] + amount[c]
        BY <1>2 DEF Extends, Effect
    <3>3. CASE Counter!FetchAddHit(c)
      <4>1. cached' = w[Len(statements)] + amount[c] /\ call[c] = "fetch_add"
          BY <3>3 DEF Counter!FetchAddHit, Counter!Apply, Plan, CacheIsLast
      <4> QED
          BY <3>1, <3>2, <4>1 DEF Counter!CounterAssumption
    <3>4. CASE Counter!Set(c)
        BY <3>1, <3>2, <3>4 DEF Counter!Set, Counter!CounterAssumption
    <3>5. CASE /\ 1 \in DOMAIN answers /\ answers[1].coro = c
               /\ Counter!FetchAddMissed(c, answers[1].value)
      <4>1. Counter!Rechecked(answers[1].value) = w[Len(statements)]
          BY <3>5, ResumesWithLast
      <4>2. cached' = w[Len(statements)] + amount[c] /\ call[c] = "fetch_add"
          BY <3>5, <4>1 DEF Counter!FetchAddMissed, Counter!Apply
      <4> QED
          BY <3>1, <3>2, <4>2 DEF Counter!CounterAssumption
    <3> QED
        BY <1>2, <3>3, <3>4, <3>5 DEF Does
  <2> QED
      BY <2>1
<1>3. CASE kind # "upsert"
  <2>1. cached' = cached
      BY <1>1, <1>3 DEF Does, Counter!StartMiss, Counter!GetHit, Counter!GetMissed,
         Counter!Committed, Counter!Written, Counter!Unheard
  <2>2. u[Len(statements')] = w[Len(statements)]
      BY <1>3 DEF Extends, Effect
  <2>3. ASSUME cached = None, NEW i \in DOMAIN statements' PROVE statements'[i].kind # "upsert"
      BY <1>3, <2>3 DEF Extends, Plan, CacheIsLast
  <2>4. ASSUME cached = None, NEW i \in DOMAIN answers', coro'[answers'[i].coro] = "selecting"
        PROVE  answers'[i].value = Counter!RowValue(table)'
      BY <2>4, Answered DEF Plan, CacheIsLast, Counter!RowValue, Moves
  <2> QED
      BY <2>1, <2>2, <2>3, <2>4 DEF Plan, CacheIsLast
<1> QED
    BY <1>2, <1>3

LEMMA RunCache ==
  ASSUME Counter!CounterAssumption, CounterInv, Counter!RunStatement, NEW w, Plan(w), NEW u,
         u[Len(statements')] = w[Len(statements)]
  PROVE  CacheIsLast(u)'
<1> USE RanStatement
<1> SUFFICES ASSUME Counter!Only({"fetch_add", "set"})
             PROVE  /\ cached' # None => cached' = u[Len(statements')]
                    /\ cached' = None =>
                         /\ \A i \in DOMAIN statements' : statements'[i].kind # "upsert"
                         /\ \A i \in DOMAIN answers' :
                              coro'[answers'[i].coro] = "selecting"
                                => answers'[i].value = Counter!RowValue(table)'
    BY DEF CacheIsLast, Counter!Only
<1>1. cached' # None => cached' = u[Len(statements')]
    BY DEF Plan, CacheIsLast
<1>2. ASSUME cached = None, NEW i \in DOMAIN statements' PROVE statements'[i].kind # "upsert"
    BY <1>2 DEF Plan, CacheIsLast
<1>3. ASSUME cached = None, NEW i \in DOMAIN answers', coro[answers'[i].coro] = "selecting"
      PROVE  answers'[i].value = Counter!RowValue(table)'
  <2>1. statements[1].kind # "upsert"
      BY <1>3 DEF Plan, CacheIsLast
  <2>2. Counter!RowValue(table)' = Counter!RowValue(table)
      BY <2>1 DEF Counter!RowValue
  <2> QED
      BY <1>3, <2>2 DEF Plan, CacheIsLast
<1> QED
    BY <1>1, <1>2, <1>3

LEMMA MovesTickets ==
  ASSUME Counter!CounterAssumption, CounterInv, NEW c \in Coros, NEW shift, NEW kind, Free(c,
       shift),
         Moves(c, kind), Does(c, shift, kind), NEW w, Plan(w), Tickets(w),
         Counter!Only({"fetch_add"}), NEW u, Extends(u, w, c, kind)
  PROVE  Tickets(u)'
<1>1. call[c] = "fetch_add" /\ Counter!Only({"fetch_add", "set"})
    BY DEF Counter!Only
<1>2. /\ Counter!RowValue(disk)' = Counter!RowValue(disk)
         /\ Counter!RowValue(table)' = Counter!RowValue(table)
      /\ Counter!RowValue(disk) \in Nat /\ Counter!RowValue(table) \in Nat /\ amount' = amount
      /\ \A d \in Coros : amount[d] \in Nat
    BY DEF Moves, Counter!RowValue, CounterInv, Counter!TypeOK, Counter!CounterAssumption
<1>3. \A d \in Coros \ {c} : coro'[d] = coro[d] /\ result'[d] = result[d]
  <2>1. \A d \in Coros \ {c} : coro'[d] = coro[d]
      BY DEF Moves, CounterInv, Counter!TypeOK
  <2>2. \A d \in Coros \ {c} : result'[d] = result[d]
      BY DEF Does, Counter!StartMiss, Counter!GetHit, Counter!GetMissed, Counter!Committed,
         Counter!Written, Counter!FetchAddHit, Counter!Set, Counter!Unheard,
         Counter!FetchAddMissed, Counter!Apply, Counter!Return, CounterInv, Counter!TypeOK
  <2> QED
      BY <2>1, <2>2
<1>4. \A d \in Coros \ {c} : Top(d)' = Top(d) /\ Drew(d)' = Drew(d)
    BY <1>2, <1>3 DEF Top, Drew
<1>5. /\ \A i \in DOMAIN statements : /\ statements[i].coro \in Coros \ {c}
                                      /\ i \in DOMAIN statements'
                                         /\ statements'[i] = statements[i]
                                      /\ u[i] = w[i]
      /\ \A i \in DOMAIN answers' :
           /\ i + shift \in DOMAIN answers /\ answers'[i] = answers[i + shift]
           /\ answers'[i].coro \in Coros \ {c}
  <2>1. \A i \in DOMAIN statements : statements[i] \in Statements
    <3>1. statements \in Seq(Statements)
        BY DEF CounterInv, Counter!TypeOK, Statements
    <3> QED
        BY <3>1, LenProperties, ElementOfSeq
  <2> QED
      BY <2>1, Answered DEF Free, Extends, Statements
<1>6. Len(statements) \in 0..Len(statements) /\ w[Len(statements)] \in Nat
  <2>1. Len(statements) \in 0..Len(statements)
      BY LenProperties DEF CounterInv, Counter!TypeOK
  <2> QED
      BY <2>1 DEF Plan, Values
<1>7. \A i \in DOMAIN answers' :
        /\ Drew(answers[i].coro)' => Top(answers[i].coro)' <= Counter!RowValue(table)
        /\ coro'[answers'[i].coro] = "committing"
           => Top(answers[i].coro)' <= Counter!RowValue(disk)
  <2> TAKE i \in DOMAIN answers'
  <2>1. PICK d \in Coros \ {c} : d = answers'[i].coro /\ d = answers[i + shift].coro
      BY <1>5
  <2>2. /\ Drew(d) => Top(d) <= Counter!RowValue(table)
        /\ coro[d] = "committing" => Top(d) <= Counter!RowValue(disk)
      BY <1>5, <2>1 DEF Tickets
  <2>3. Drew(answers[i].coro)' = Drew(d)' /\ Top(answers[i].coro)' = Top(d)'
      BY <2>1 DEF Drew, Top
  <2> QED
      BY <1>3, <1>4, <2>1, <2>2, <2>3
<1>8. CASE kind = "upsert"
  <2>1. result'[c] = w[Len(statements)] /\ ~ Drew(c)
    <3>1. CASE Counter!FetchAddHit(c)
        BY <1>1, <3>1 DEF Counter!FetchAddHit, Counter!Apply, Drew, Plan, CacheIsLast,
           CounterInv, Counter!TypeOK
    <3>2. CASE /\ 1 \in DOMAIN answers /\ answers[1].coro = c
               /\ Counter!FetchAddMissed(c, answers[1].value)
      <4>1. Counter!Rechecked(answers[1].value) = w[Len(statements)]
          BY <1>1, <3>2, ResumesWithLast
      <4> QED
          BY <3>2, <4>1 DEF Counter!FetchAddMissed, Counter!Apply, Drew, CounterInv,
             Counter!TypeOK
    <3> QED
        BY <1>1, <1>8, <3>1, <3>2 DEF Does, Counter!Set
  <2>2. /\ Top(c)' = w[Len(statements)] + amount[c]
        /\ u[Len(statements')] = w[Len(statements)] + amount[c]
      BY <1>1, <1>2, <1>8, <2>1 DEF Extends, Effect, Top
  <2>3. \A d \in Coros : Drew(d)' => result'[d] \in Nat /\ Top(d)' <= u[Len(statements')]
    <3>1. ASSUME NEW d \in Coros \ {c}, Drew(d)
          PROVE  result'[d] \in Nat /\ Top(d)' <= u[Len(statements')]
      <4>1. result[d] \in Nat /\ Top(d) <= w[Len(statements)] /\ Top(d) \in Nat
          BY <1>2, <3>1 DEF Tickets, Top
      <4> QED
          BY <1>2, <1>3, <1>4, <1>6, <2>2, <4>1
    <3>2. result'[c] \in Nat /\ Top(c)' <= u[Len(statements')]
        BY <1>2, <1>6, <2>1, <2>2
    <3> QED
        BY <1>4, <3>1, <3>2
  <2>4. \A d \in Coros \ {c} : Drew(d)' => Top(d)' <= result'[c]
      BY <1>4, <2>1 DEF Tickets
  <2>5. \A d, e \in Coros : d # e /\ Drew(d)' /\ Drew(e)' => Top(d)' <= result'[e]
        \/ Top(e)' <= result'[d]
      BY <1>3, <1>4, <2>4 DEF Tickets
  <2>6. \A i \in DOMAIN statements' :
          /\ statements'[i].kind = "upsert" => Top(statements[i].coro)' <= u[i]
          /\ statements'[i].kind = "commit" => Top(statements[i].coro)' <= Counter!RowValue(table)
    <3> TAKE i \in DOMAIN statements'
    <3>1. CASE i \in DOMAIN statements
      <4>1. PICK d \in Coros \ {c} : d = statements[i].coro
          BY <1>5, <3>1
      <4>2. Top(statements[i].coro)' = Top(d)' /\ statements'[i] = statements[i] /\ u[i] = w[i]
          BY <1>5, <3>1, <4>1 DEF Top
      <4> QED
          BY <1>4, <3>1, <4>1, <4>2 DEF Tickets
    <3>2. CASE i = Len(statements') /\ statements'[i] = [kind |-> kind, coro |-> c]
      <4>1. Top(statements[i].coro)' = Top(c)'
          BY <3>2 DEF Top
      <4> QED
          BY <1>2, <1>6, <1>8, <2>2, <3>2, <4>1
    <3> QED
        BY <3>1, <3>2 DEF Extends
  <2>7. \A d \in Coros : coro'[d] = "returned" => Top(d)' <= Counter!RowValue(disk)
      BY <1>3, <1>4, <1>8 DEF Tickets, Moves, Matches
  <2> QED
      BY <1>2, <1>7, <2>3, <2>5, <2>6, <2>7 DEF Tickets
<1>9. CASE kind # "upsert"
  <2>1. /\ result' = result /\ u[Len(statements')] = w[Len(statements)]
        /\ Drew(c)' => Drew(c)
        /\ kind = "commit" => Top(c) <= Counter!RowValue(table)
        /\ coro'[c] = "returned" => Top(c) <= Counter!RowValue(disk)
        /\ kind = "none" => coro'[c] \in {"returned", "killed"}
    <3>1. u[Len(statements')] = w[Len(statements)]
        BY <1>9 DEF Extends, Effect
    <3>2. CASE kind = "select" /\ Counter!StartMiss(c)
      <4>1. coro'[c] = "selecting" /\ result' = result
          BY <3>2 DEF Counter!StartMiss, CounterInv, Counter!TypeOK
      <4> QED
          BY <3>1, <3>2, <4>1 DEF Drew
    <3>3. CASE /\ kind = "none" /\ 1 \in DOMAIN answers /\ answers[1].coro = c
                  /\ Counter!Committed(c)
      <4>1. coro'[c] = "returned" /\ coro[c] = "committing" /\ result' = result
          BY <3>3 DEF Counter!Committed, CounterInv, Counter!TypeOK
      <4> QED
          BY <3>1, <3>3, <4>1 DEF Drew, Tickets
    <3>4. CASE /\ kind = "commit" /\ 1 \in DOMAIN answers /\ answers[1].coro = c
                  /\ Counter!Written(c)
      <4>1. coro'[c] = "committing" /\ coro[c] = "writing" /\ result' = result
          BY <3>4 DEF Counter!Written, CounterInv, Counter!TypeOK
      <4> QED
          BY <3>1, <3>4, <4>1 DEF Drew, Tickets
    <3>5. CASE kind = "none" /\ Counter!Unheard(c)
      <4>1. coro'[c] = "killed" /\ result' = result
          BY <3>5 DEF Counter!Unheard, CounterInv, Counter!TypeOK
      <4> QED
          BY <3>1, <3>5, <4>1 DEF Drew
    <3> QED
        BY <1>1, <1>9, <3>2, <3>3, <3>4, <3>5 DEF Does, Counter!GetHit, Counter!GetMissed
  <2>2. \A d \in Coros : Top(d)' = Top(d) /\ (Drew(d)' => Drew(d))
      BY <1>2, <1>4, <2>1 DEF Top
  <2>3. \A i \in DOMAIN statements' :
          /\ statements'[i].kind = "upsert" => Top(statements[i].coro)' <= u[i]
          /\ statements'[i].kind = "commit" => Top(statements[i].coro)' <= Counter!RowValue(table)
    <3> TAKE i \in DOMAIN statements'
    <3>1. CASE i \in DOMAIN statements
      <4>1. PICK d \in Coros \ {c} : d = statements[i].coro
          BY <1>5, <3>1
      <4>2. Top(statements[i].coro)' = Top(d)' /\ statements'[i] = statements[i] /\ u[i] = w[i]
          BY <1>5, <3>1, <4>1 DEF Top
      <4> QED
          BY <1>4, <3>1, <4>1, <4>2 DEF Tickets
    <3>2. CASE i = Len(statements') /\ statements'[i] = [kind |-> kind, coro |-> c]
      <4>1. Top(statements[i].coro)' = Top(c)'
          BY <3>2 DEF Top
      <4> QED
          BY <1>9, <2>1, <2>2, <3>2, <4>1
    <3> QED
        BY <3>1, <3>2 DEF Extends
  <2>4. \A d \in Coros : coro'[d] = "returned" => Top(d)' <= Counter!RowValue(disk)
      BY <1>3, <1>4, <2>1, <2>2 DEF Tickets
  <2>5. \A d \in Coros : Drew(d)' => result'[d] \in Nat /\ Top(d)' <= u[Len(statements')]
      BY <2>1, <2>2 DEF Tickets
  <2>6. \A d, e \in Coros : d # e /\ Drew(d)' /\ Drew(e)' => Top(d)' <= result'[e]
        \/ Top(e)' <= result'[d]
      BY <2>1, <2>2 DEF Tickets
  <2> QED
      BY <1>2, <1>7, <2>3, <2>4, <2>5, <2>6 DEF Tickets
<1> QED
    BY <1>8, <1>9

LEMMA RunTickets ==
  ASSUME Counter!CounterAssumption, CounterInv, Counter!RunStatement, NEW w, Plan(w), Tickets(w),
         Counter!Only({"fetch_add"}), NEW u, u[Len(statements')] = w[Len(statements)],
         \A i \in DOMAIN statements' : u[i] = w[i + 1], Counter!RowValue(table)' = w[1]
  PROVE  Tickets(u)'
<1> USE RanStatement
<1>1. /\ Counter!RowValue(disk) \in Nat /\ Counter!RowValue(table) \in Nat
      /\ \A c \in Coros : amount[c] \in Nat /\ (Drew(c) => result[c] \in Nat /\ Top(c) \in Nat)
  <2>1. /\ Counter!RowValue(disk) \in Nat /\ Counter!RowValue(table) \in Nat
        /\ \A c \in Coros : amount[c] \in Nat
      BY DEF Counter!RowValue, CounterInv, Counter!TypeOK, Counter!CounterAssumption
  <2>2. \A c \in Coros : Drew(c) => result[c] \in Nat
      BY DEF Tickets
  <2> QED
      BY <2>1, <2>2 DEF Top
<1>2. \A c : Top(c)' = Top(c) /\ Drew(c)' = Drew(c)
    BY DEF Top, Drew
<1>3. statements[1].coro \in Coros /\ \A i \in DOMAIN statements : statements[i].coro \in Coros
  <2>1. statements \in Seq(Statements)
      BY DEF CounterInv, Counter!TypeOK, Statements
  <2>2. \A i \in DOMAIN statements : statements[i] \in Statements
      BY <2>1, ElementOfSeq
  <2> QED
      BY <2>2 DEF Statements
<1>4. Counter!RowValue(table)' \in Nat /\ Counter!RowValue(table) <= Counter!RowValue(table)'
  <2>1. call[statements[1].coro] = "fetch_add"
      BY <1>3 DEF Counter!Only
  <2>2. table' = table \/ table' = Counter!RowValue(table) + amount[statements[1].coro]
    <3>1. CASE statements[1].kind = "upsert"
        BY <2>1, <3>1
    <3>2. CASE statements[1].kind # "upsert"
        BY <3>2
    <3> QED
        BY <3>1, <3>2
  <2>3. CASE table' = table
      BY <1>1, <2>3 DEF Counter!RowValue
  <2>4. CASE table' = Counter!RowValue(table) + amount[statements[1].coro]
    <3>1. table' \in Nat /\ Counter!RowValue(table) <= table'
        BY <1>1, <1>3, <2>4
    <3> QED
        BY <3>1 DEF Counter!RowValue, Counter!CounterAssumption
  <2> QED
      BY <2>2, <2>3, <2>4
<1>5. /\ Counter!RowValue(disk)' \in Nat /\ Counter!RowValue(disk) <= Counter!RowValue(disk)'
      /\ Counter!RowValue(disk)' <= Counter!RowValue(table)'
      /\ statements[1].kind = "commit" => Counter!RowValue(disk)' = Counter!RowValue(table)
  <2>1. CASE statements[1].kind = "commit"
      BY <1>1, <1>4, <2>1 DEF Counter!RowValue, Tickets
  <2>2. CASE statements[1].kind # "commit"
    <3>1. Counter!RowValue(disk)' = Counter!RowValue(disk)
        BY <2>2 DEF Counter!RowValue
    <3> QED
        BY <1>1, <1>4, <2>2, <3>1 DEF Tickets
  <2> QED
      BY <2>1, <2>2
<1>6. ASSUME NEW i \in DOMAIN statements'
      PROVE  /\ statements'[i].kind = "upsert" => Top(statements'[i].coro) <= u[i]
             /\ statements'[i].kind = "commit"
                => Top(statements'[i].coro) <= Counter!RowValue(table)'
  <2>1. i + 1 \in DOMAIN statements /\ statements'[i] = statements[i + 1] /\ u[i] = w[i + 1]
      OBVIOUS
  <2>2. statements'[i].kind = "commit" => Drew(statements'[i].coro)
      BY <2>1 DEF CounterInv, OneEach, Matches, Drew
  <2> QED
      BY <1>1, <1>3, <1>4, <2>1, <2>2 DEF Tickets
<1>7. ASSUME NEW i \in DOMAIN answers'
      PROVE  /\ Drew(answers'[i].coro) => Top(answers'[i].coro) <= Counter!RowValue(table)'
             /\ coro[answers'[i].coro] = "committing"
                => Top(answers'[i].coro) <= Counter!RowValue(disk)'
  <2>1. CASE i \in DOMAIN answers /\ answers'[i] = answers[i]
    <3>1. answers[i].coro \in Coros
      <4>1. answers \in Seq(Answers)
          BY DEF CounterInv, Counter!TypeOK, Answers
      <4>2. answers[i] \in Answers
          BY <2>1, <4>1, LenProperties, ElementOfSeq
      <4> QED
          BY <4>2 DEF Answers
    <3>2. coro[answers[i].coro] = "committing" => Drew(answers[i].coro)
        BY DEF Drew
    <3> QED
        BY <1>1, <1>4, <1>5, <2>1, <3>1, <3>2 DEF Tickets
  <2>2. CASE answers'[i].coro = statements[1].coro
    <3>1. CASE statements[1].kind = "select"
        BY <2>2, <3>1 DEF CounterInv, OneEach, Matches, Drew
    <3>2. CASE statements[1].kind = "upsert"
      <4>1. Top(statements[1].coro) <= Counter!RowValue(table)'
            /\ coro[statements[1].coro] = "writing"
          BY <3>2 DEF Tickets, CounterInv, OneEach, Matches
      <4> QED
          BY <2>2, <4>1
    <3>3. CASE statements[1].kind = "commit"
      <4>1. Top(statements[1].coro) <= Counter!RowValue(table) /\ Drew(statements[1].coro)
          BY <3>3 DEF Tickets, CounterInv, OneEach, Matches, Drew
      <4> QED
          BY <1>1, <1>3, <1>4, <1>5, <2>2, <3>3, <4>1
    <3> QED
        BY <3>1, <3>2, <3>3 DEF Statements
  <2> QED
      BY <2>1, <2>2
<1>8. ASSUME NEW c \in Coros, coro[c] = "returned" PROVE Top(c) <= Counter!RowValue(disk)'
  <2>1. Top(c) <= Counter!RowValue(disk) /\ Drew(c)
      BY <1>8 DEF Tickets, Drew
  <2> QED
      BY <1>1, <1>5, <2>1
<1>9. /\ \A c \in Coros : Drew(c) => result[c] \in Nat /\ Top(c) <= u[Len(statements')]
      /\ \A c, d \in Coros : c # d /\ Drew(c) /\ Drew(d) => Top(c) <= result[d]
         \/ Top(d) <= result[c]
    BY DEF Tickets
<1> QED
    BY <1>2, <1>5, <1>6, <1>7, <1>8, <1>9 DEF Tickets

LEMMA InitPlan == ASSUME Counter!CounterAssumption, Counter!Init PROVE \E w : Plan(w)
<1>1. PICK w : w \in [0..0 -> Nat] /\ w[0] = 0
  <2>1. [i \in 0..0 |-> 0] \in [0..0 -> Nat] /\ [i \in 0..0 |-> 0][0] = 0
      OBVIOUS
  <2> QED
      BY <2>1
<1>2. /\ Len(statements) = 0 /\ DOMAIN statements = {} /\ DOMAIN answers = {}
      /\ Counter!RowValue(table) = 0 /\ Counter!RowValue(disk) = 0 /\ cached = None
      /\ \A c \in Coros : ~ Drew(c) /\ coro[c] # "returned"
    BY DEF Counter!Init, Counter!RowValue, Drew
<1>3. Values(w) /\ Steady(w)
    BY <1>1, <1>2 DEF Values, Steady
<1>4. CacheIsLast(w)
    BY <1>2 DEF CacheIsLast
<1>5. Tickets(w)
    BY <1>2 DEF Tickets
<1> QED
    BY <1>3, <1>4, <1>5 DEF Plan, TicketsApart

\* A restart begins with an empty queue; what was drawn and returned is committed.
LEMMA CrashPlan ==
  ASSUME Counter!CounterAssumption, CounterInv, Counter!Crash, NEW w,
       Plan(w) PROVE \E u : Plan(u)'
<1>1. Counter!RowValue(disk) \in Nat
    BY DEF Counter!RowValue, CounterInv, Counter!TypeOK
<1>2. PICK u : u \in [0..0 -> Nat] /\ u[0] = Counter!RowValue(disk)
  <2> DEFINE f == [i \in 0..0 |-> Counter!RowValue(disk)]
  <2>1. f \in [0..0 -> Nat] /\ f[0] = Counter!RowValue(disk)
      BY <1>1
  <2> QED
      BY <2>1
<1>3. /\ Len(statements') = 0 /\ DOMAIN statements' = {} /\ DOMAIN answers' = {}
      /\ Counter!RowValue(table)' = Counter!RowValue(disk)
         /\ Counter!RowValue(disk)' = Counter!RowValue(disk) /\ cached' = None
      /\ call' = call /\ amount' = amount /\ result' = result
    BY DEF Counter!Crash, Counter!RowValue
<1>4. Values(u)' /\ Steady(u)'
    BY <1>2, <1>3 DEF Values, Steady
<1>5. CacheIsLast(u)'
    BY <1>3 DEF CacheIsLast
<1>6. ASSUME Tickets(w) PROVE Tickets(u)'
  <2>1. \A c \in Coros : Drew(c)' => Drew(c) /\ coro[c] = "returned"
      BY DEF Counter!Crash, Drew
  <2>2. \A c : Top(c)' = Top(c)
      BY <1>3 DEF Top
  <2>3. \A c \in Coros : Drew(c)' => result'[c] \in Nat /\ Top(c)' <= u[Len(statements')]
      BY <1>2, <1>3, <1>6, <2>1, <2>2 DEF Tickets
  <2>4. \A c, d \in Coros :
          c # d /\ Drew(c)' /\ Drew(d)' => Top(c)' <= result'[d] \/ Top(d)' <= result'[c]
      BY <1>3, <1>6, <2>1, <2>2 DEF Tickets
  <2>5. \A c \in Coros : coro'[c] = "returned" => Top(c)' <= Counter!RowValue(disk)'
      BY <1>3, <1>6, <2>1, <2>2 DEF Tickets, Drew
  <2> QED
      BY <1>1, <1>3, <2>3, <2>4, <2>5 DEF Tickets
<1> QED
    BY <1>3, <1>4, <1>5, <1>6 DEF Plan, TicketsApart, Counter!Only

LEMMA NextPlan ==
  ASSUME Counter!CounterAssumption, CounterInv, NEW w, Plan(w),
       [Counter!Next]_(Counter!vars) PROVE \E u : Plan(u)'
<1>0. UNCHANGED Counter!vars => Still
    BY DEF Counter!vars, Still
<1>1. CASE Still
  <2> USE <1>1 DEF Still
  <2>1. Values(w)' /\ Steady(w)' /\ CacheIsLast(w)'
      BY DEF Plan, Values, Steady, CacheIsLast, Counter!Only, Counter!RowValue, Effect
  <2>2. TicketsApart(w)'
      BY DEF Plan, TicketsApart, Tickets, Counter!Only, Counter!RowValue, Top, Drew
  <2> QED
      BY <2>1, <2>2 DEF Plan
<1>2. CASE Counter!RunStatement
  <2>1. PICK u : /\ Values(u)' /\ Steady(u)' /\ u[Len(statements')] = w[Len(statements)]
                 /\ \A i \in DOMAIN statements' : u[i] = w[i + 1]
                 /\ Counter!RowValue(table)' = w[1]
      BY <1>2, RunValues DEF Plan
  <2>2. CacheIsLast(u)'
      BY <1>2, <2>1, RunCache
  <2>3. TicketsApart(u)'
    <3>1. call' = call
        BY <1>2 DEF Counter!RunStatement
    <3> QED
        BY <1>2, <2>1, <3>1, RunTickets DEF Plan, TicketsApart, Counter!Only
  <2> QED
      BY <2>1, <2>2, <2>3 DEF Plan
<1>3. ASSUME NEW c \in Coros, NEW shift \in {0, 1},
             NEW kind \in {"none", "select", "upsert", "commit"},
             Free(c, shift), Moves(c, kind), Does(c, shift, kind)
      PROVE  \E u : Plan(u)'
  <2>1. PICK u : Extends(u, w, c, kind)
      BY <1>3, MovesValues DEF Plan, Extends
  <2>2. CacheIsLast(u)'
      BY <1>3, <2>1, MovesCache
  <2>3. TicketsApart(u)'
    <3>1. call' = call
        BY <1>3 DEF Moves
    <3> QED
        BY <1>3, <2>1, <3>1, MovesTickets DEF Plan, TicketsApart, Counter!Only
  <2> QED
      BY <2>1, <2>2, <2>3 DEF Plan, Extends
<1> QED
    BY <1>0, <1>1, <1>2, <1>3, CrashPlan, StepsAreMoves

Planned == CounterInv /\ \E w : Plan(w)

LEMMA SpecIsPlanned == ASSUME Counter!CounterAssumption PROVE Counter!Spec => []Planned
<1>1. Counter!Init => Planned
    BY CounterInitInv, InitPlan DEF Planned
<1>2. Planned /\ [Counter!Next]_(Counter!vars) => Planned'
    BY NextInv, NextPlan DEF Planned
<1> QED
    BY <1>1, <1>2, PTL DEF Counter!Spec

\* As long as nobody calls get, a cached value with no upsert on its way is the value of the
\* row: the cache of the counter is a write-through cache.
THEOREM CacheWritesThrough == ASSUME Counter!CounterAssumption PROVE Counter!Spec
  => []Counter!WriteThrough
<1>1. ASSUME Planned PROVE Counter!WriteThrough
  <2> SUFFICES ASSUME Counter!Only({"fetch_add", "set"}), cached # None, ~ Counter!UpsertQueued
               PROVE  cached = Counter!RowValue(table)
      BY DEF Counter!WriteThrough, Counter!CacheIsTable
  <2>1. PICK w : Plan(w)
      BY <1>1 DEF Planned
  <2>2. 0 \in 0..Len(statements)
      BY <1>1, LenProperties DEF Planned, CounterInv, Counter!TypeOK
  <2>3. w[0] = w[Len(statements)]
      BY <2>1, <2>2 DEF Plan, Steady, Counter!UpsertQueued
  <2> QED
      BY <2>1, <2>3 DEF Plan, Values, CacheIsLast
<1> QED
    BY <1>1, SpecIsPlanned, PTL

\* Calls of fetch_add that add something return distinct values, whichever of them missed the
\* cache and across every restart.
THEOREM TicketsAreDistinct == ASSUME Counter!CounterAssumption PROVE Counter!Spec
  => []Counter!DistinctTickets
<1>1. ASSUME Planned PROVE Counter!DistinctTickets
  <2> SUFFICES ASSUME Counter!Only({"fetch_add"}), NEW c \in Coros, NEW d \in Coros, c # d,
                      amount[c] > 0, amount[d] > 0, coro[c] = "returned", coro[d] = "returned"
               PROVE  result[c] # result[d]
      BY DEF Counter!DistinctTickets
  <2>1. PICK w : Plan(w)
      BY <1>1 DEF Planned
  <2>2. /\ result[c] \in Nat /\ result[d] \in Nat
        /\ Top(c) <= result[d] \/ Top(d) <= result[c]
      BY <2>1 DEF Plan, TicketsApart, Tickets, Drew
  <2>3. amount[c] \in Nat /\ amount[d] \in Nat
      BY <1>1 DEF Planned, CounterInv, Counter!TypeOK, Counter!CounterAssumption
  <2> QED
      BY <2>2, <2>3 DEF Top
<1> QED
    BY <1>1, SpecIsPlanned, PTL

-----------------------------------------------------------------------------
\* Every unit that the row has ever counted belongs to one fetch_add: units[c] are those that c
\* added and has not been told of, spent those of the calls that returned.
Answer(c) == \E i \in DOMAIN answers : answers[i].coro = c
Added(c) == coro[c] = "committing" \/ (coro[c] = "writing" /\ Answer(c))
Kept(c) == coro[c] = "committing" /\ Answer(c)

Owned(spent, units) ==
  /\ Counter!RowValue(disk) <= Counter!RowValue(table)
  /\ spent \subseteq 1..Counter!RowValue(disk) /\ Counter!Cardinality(spent) = credited
  /\ units \in [Coros -> SUBSET Nat]
  /\ \A c \in Coros : Added(c) =>
       /\ units[c] \subseteq 1..Counter!RowValue(table)
          /\ Counter!Cardinality(units[c]) = amount[c]
       /\ units[c] \cap spent = {}
  /\ \A c, d \in Coros : c # d /\ Added(c) /\ Added(d) => units[c] \cap units[d] = {}
  /\ \A c \in Coros : Kept(c) => units[c] \subseteq 1..Counter!RowValue(disk)

LEMMA InitOwned ==
  ASSUME Counter!CounterAssumption, Counter!Init
  PROVE  \E spent, units : Owned(spent, units)
<1>1. PICK units : units \in [Coros -> SUBSET Nat]
  <2>1. [c \in Coros |-> {}] \in [Coros -> SUBSET Nat]
      OBVIOUS
  <2> QED
      BY <2>1
<1>2. Counter!Cardinality({}) = 0
    BY FS_EmptySet, CounterSets
<1>3. Owned({}, units)
    BY <1>1, <1>2 DEF Counter!Init, Owned, Added, Kept, Counter!RowValue
<1> QED
    BY <1>3

\* Steps that add nothing, commit nothing and credit nothing.
LEMMA StaysOwned ==
  ASSUME NEW spent, NEW units, Owned(spent, units), UNCHANGED <<table, disk, credited, amount>>,
         \A c \in Coros : (Added(c)' => Added(c)) /\ (Kept(c)' => Kept(c))
  PROVE  Owned(spent, units)'
<1>1. Counter!RowValue(table)' = Counter!RowValue(table)
      /\ Counter!RowValue(disk)' = Counter!RowValue(disk)
    BY DEF Counter!RowValue
<1> QED
    BY <1>1 DEF Owned

LEMMA CrashOwned ==
  ASSUME NEW spent, NEW units, Owned(spent, units), CounterInv, Counter!Crash PROVE Owned(spent,
       units)'
<1>1. /\ \A c \in Coros : ~ Added(c)' /\ ~ Kept(c)'
      /\ Counter!RowValue(table)' = Counter!RowValue(disk)
         /\ Counter!RowValue(disk)' = Counter!RowValue(disk)
      /\ credited' = credited /\ Counter!RowValue(disk) \in Nat
    BY DEF Counter!Crash, Added, Kept, Counter!RowValue, CounterInv, Counter!TypeOK
<1> QED
    BY <1>1 DEF Owned

\* A call that returns spends its units.
LEMMA CommittedOwned ==
  ASSUME Counter!CounterAssumption, CounterInv, NEW spent, NEW units, Owned(spent, units),
         NEW c \in Coros, Kept(c), Counter!Committed(c), Free(c, 1), UNCHANGED <<table, disk,
         amount>>,
         \A d \in Coros : /\ Added(d)' => Added(d) /\ d # c
                          /\ Kept(d)' => Kept(d) /\ d # c
  PROVE  \E s : Owned(s, units)'
<1>1. CASE call[c] # "fetch_add"
  <2>1. credited' = credited
      BY <1>1 DEF Counter!Committed
  <2>2. Owned(spent, units)'
      BY <2>1, StaysOwned
  <2> QED
      BY <2>2
<1>2. CASE call[c] = "fetch_add"
  <2>1. PICK s : s = spent \cup units[c]
      OBVIOUS
  <2>2. /\ Counter!RowValue(table)' = Counter!RowValue(table)
           /\ Counter!RowValue(disk)' = Counter!RowValue(disk)
        /\ Counter!RowValue(disk) \in Nat /\ credited' = credited + amount[c]
        /\ amount[c] \in Nat /\ credited \in Nat
      BY <1>2 DEF Counter!RowValue, Counter!Committed, CounterInv, Counter!TypeOK,
         Counter!CounterAssumption
  <2>3. /\ spent \subseteq 1..Counter!RowValue(disk)
           /\ units[c] \subseteq 1..Counter!RowValue(disk)
        /\ spent \cap units[c] = {} /\ Counter!Cardinality(spent) = credited
        /\ Counter!Cardinality(units[c]) = amount[c]
      BY DEF Owned, Added, Kept
  <2>4. Counter!IsFiniteSet(spent) /\ Counter!IsFiniteSet(units[c])
    <3>1. Counter!IsFiniteSet(1..Counter!RowValue(disk))
      <4>1. 1 \in Int /\ Counter!RowValue(disk) \in Int
          BY <2>2
      <4> QED
          BY <4>1, FS_Interval, CounterSets
    <3> QED
        BY <2>3, <3>1, FS_Subset, CounterSets
  <2>5. Counter!Cardinality(s) = credited'
    <3>1. Counter!Cardinality(s) = credited + amount[c] - Counter!Cardinality(spent \cap units[c])
        BY <2>1, <2>3, <2>4, FS_Union, CounterSets
    <3>2. Counter!Cardinality(spent \cap units[c]) = 0
        BY <2>3, FS_EmptySet, CounterSets
    <3> QED
        BY <2>2, <2>3, <3>1, <3>2
  <2>6. \A d \in Coros : Added(d)' => units[d] \cap s = {}
      BY <2>1 DEF Owned, Added, Kept
  <2> QED
      BY <2>1, <2>2, <2>3, <2>5, <2>6 DEF Owned
<1> QED
    BY <1>1, <1>2

LEMMA MovesOwned ==
  ASSUME Counter!CounterAssumption, CounterInv, NEW spent, NEW units, Owned(spent, units),
         NEW c \in Coros, NEW shift \in {0, 1}, NEW kind, Free(c, shift), Moves(c, kind),
         Does(c, shift, kind)
  PROVE  \E s : Owned(s, units)'
<1>1. /\ ~ Answer(c)'
      /\ \A d \in Coros : Answer(d)' => Answer(d)
      /\ UNCHANGED <<table, disk, amount>>
    BY DEF Free, Answer, Moves
<1>2. \A d \in Coros \ {c} : coro'[d] = coro[d]
    BY DEF Moves, CounterInv, Counter!TypeOK
<1>3. CASE kind = "none" /\ answers[1].coro = c /\ 1 \in DOMAIN answers /\ shift = 1
           /\ Counter!Committed(c)
  <2>1. Kept(c) /\ coro'[c] = "returned"
      BY <1>3 DEF Kept, Answer, Counter!Committed, CounterInv, Counter!TypeOK
  <2>2. \A d \in Coros : /\ Added(d)' => Added(d) /\ d # c
                         /\ Kept(d)' => Kept(d) /\ d # c
      BY <1>1, <1>2, <2>1 DEF Added, Kept
  <2> QED
      BY <1>1, <1>3, <2>1, <2>2, CommittedOwned
<1>4. CASE ~ Counter!Committed(c)
  <2>1. credited' = credited
      BY <1>4 DEF Does, Counter!StartMiss, Counter!GetHit, Counter!FetchAddHit, Counter!Set,
         Counter!GetMissed, Counter!FetchAddMissed, Counter!Written, Counter!Unheard
  <2>2. coro'[c] = "committing" => coro[c] = "writing" /\ Answer(c)
      BY <1>4 DEF Does, Counter!StartMiss, Counter!GetHit, Counter!FetchAddHit, Counter!Set,
         Counter!GetMissed, Counter!FetchAddMissed, Counter!Written, Counter!Unheard,
         Counter!Apply, Counter!Return, Answer, CounterInv, Counter!TypeOK
  <2>3. \A d \in Coros : (Added(d)' => Added(d)) /\ (Kept(d)' => Kept(d))
      BY <1>1, <1>2, <2>2 DEF Added, Kept
  <2> QED
      BY <1>1, <2>1, <2>3, StaysOwned
<1>5. CASE Counter!Committed(c) /\ kind # "none"
    BY <1>5 DEF Does, Counter!StartMiss, Counter!FetchAddHit, Counter!Set,
       Counter!FetchAddMissed, Counter!Written, Counter!Committed
<1>6. CASE Counter!Committed(c) /\ shift = 0
    BY <1>6 DEF Does, Counter!StartMiss, Counter!FetchAddHit, Counter!Set, Counter!GetHit,
       Counter!Committed
<1> QED
    BY <1>3, <1>4, <1>5, <1>6 DEF Does

\* An addition makes the row count new units; a commit keeps all that the row counts.
LEMMA RunOwned ==
  ASSUME Counter!CounterAssumption, CounterInv, NEW spent, NEW units, Owned(spent, units),
       Counter!RunStatement,
         Counter!Only({"fetch_add", "get"})
  PROVE  \E n : Owned(spent, n)'
<1> USE RanStatement
<1>1. PICK c : c = statements[1].coro
    OBVIOUS
<1>2. /\ c \in Coros /\ amount[c] \in Nat /\ call[c] # "set"
         /\ Matches(statements[1].kind, coro[c])
      /\ Counter!RowValue(table) \in Nat /\ Counter!RowValue(disk) \in Nat
      /\ credited' = credited /\ coro' = coro /\ amount' = amount
    BY <1>1 DEF Statements, CounterInv, Counter!TypeOK, OneEach, Counter!CounterAssumption,
       Counter!Only, Counter!RowValue
<1>3. ~ Answer(c) /\ \A d : Answer(d)' => Answer(d) \/ d = c
    BY <1>1 DEF Answer, CounterInv, OneEach
<1>4. CASE statements[1].kind = "select"
  <2>1. table' = table /\ disk' = disk /\ coro[c] = "selecting"
      BY <1>2, <1>4 DEF Matches
  <2>2. \A d \in Coros : (Added(d)' => Added(d)) /\ (Kept(d)' => Kept(d))
      BY <1>2, <1>3, <2>1 DEF Added, Kept
  <2> QED
      BY <1>2, <2>1, <2>2, StaysOwned
<1>5. CASE statements[1].kind = "commit"
  <2>1. table' = table /\ disk' = table /\ coro[c] = "committing"
      BY <1>2, <1>5 DEF Matches
  <2>2. Counter!RowValue(table)' = Counter!RowValue(table)
        /\ Counter!RowValue(disk)' = Counter!RowValue(table)
      BY <2>1 DEF Counter!RowValue
  <2>3. \A d \in Coros : (Added(d)' => Added(d)) /\ (Kept(d)' => Kept(d) \/ d = c)
      BY <1>2, <1>3, <2>1 DEF Added, Kept
  <2>4. \A d \in Coros : Kept(d)' => units[d] \subseteq 1..Counter!RowValue(table)
      BY <2>1, <2>3 DEF Owned, Added, Kept
  <2>5. spent \subseteq 1..Counter!RowValue(table)
      BY <1>2 DEF Owned
  <2>6. Owned(spent, units)'
      BY <1>2, <2>2, <2>3, <2>4, <2>5 DEF Owned
  <2> QED
      BY <2>6
<1>6. CASE statements[1].kind = "upsert"
  <2>1. /\ table' = Counter!RowValue(table) + amount[c] /\ disk' = disk /\ coro[c] = "writing"
        /\ table' # None
      BY <1>1, <1>2, <1>6 DEF Matches, Counter!CounterAssumption
  <2>2. Counter!RowValue(table)' = Counter!RowValue(table) + amount[c]
        /\ Counter!RowValue(disk)' = Counter!RowValue(disk)
      BY <2>1 DEF Counter!RowValue
  <2>3. PICK new, n : /\ new = (Counter!RowValue(table) + 1)..(Counter!RowValue(table) + amount[c])
                     /\ n = [units EXCEPT ![c] = new]
      OBVIOUS
  <2>4. /\ n \in [Coros -> SUBSET Nat] /\ n[c] = new
        /\ \A d \in Coros \ {c} : n[d] = units[d]
      BY <1>2, <2>3 DEF Owned
  <2>5. Counter!Cardinality(new) = amount[c]
    <3>1. PICK lo \in Int, hi \in Int :
            lo = Counter!RowValue(table) + 1 /\ hi = Counter!RowValue(table) + amount[c]
        BY <1>2
    <3>2. Counter!Cardinality(lo..hi) = IF lo > hi THEN 0 ELSE hi - lo + 1
        BY FS_Interval, CounterSets
    <3>3. new = lo..hi
        BY <2>3, <3>1
    <3>4. (IF lo > hi THEN 0 ELSE hi - lo + 1) = amount[c]
        BY <1>2, <3>1
    <3> QED
        BY <3>2, <3>3, <3>4
  <2>6. /\ new \subseteq 1..Counter!RowValue(table)' /\ new \cap 1..Counter!RowValue(table) = {}
        /\ 1..Counter!RowValue(table) \subseteq 1..Counter!RowValue(table)'
      BY <1>2, <2>2, <2>3
  <2>7. \A d \in Coros : (Added(d)' => Added(d) \/ d = c) /\ (Kept(d)' => Kept(d) /\ d # c)
      BY <1>2, <1>3, <2>1 DEF Added, Kept
  <2>8. spent \subseteq 1..Counter!RowValue(table)
      BY <1>2 DEF Owned
  <2>9. ASSUME NEW d \in Coros, Added(d)'
        PROVE  /\ n[d] \subseteq 1..Counter!RowValue(table)'
                  /\ Counter!Cardinality(n[d]) = amount[d]
               /\ n[d] \cap spent = {}
    <3>1. CASE d = c
        BY <2>4, <2>5, <2>6, <2>8, <3>1
    <3>2. CASE d # c
        BY <2>4, <2>6, <2>7, <2>9, <3>2 DEF Owned
    <3> QED
        BY <3>1, <3>2
  <2>10. ASSUME NEW d \in Coros, NEW e \in Coros, d # e, Added(d)', Added(e)'
         PROVE  n[d] \cap n[e] = {}
    <3>1. CASE d # c /\ e # c
        BY <2>4, <2>7, <2>10, <3>1 DEF Owned
    <3>2. CASE d = c
      <4>1. units[e] \subseteq 1..Counter!RowValue(table)
          BY <2>7, <2>10, <3>2 DEF Owned
      <4> QED
          BY <2>4, <2>6, <2>10, <3>2, <4>1
    <3>3. CASE e = c
      <4>1. units[d] \subseteq 1..Counter!RowValue(table)
          BY <2>7, <2>10, <3>3 DEF Owned
      <4> QED
          BY <2>4, <2>6, <2>10, <3>3, <4>1
    <3> QED
        BY <3>1, <3>2, <3>3
  <2>11. Counter!RowValue(disk)' <= Counter!RowValue(table)'
      BY <1>2, <2>2 DEF Owned
  <2>12. \A d \in Coros : Kept(d)' => n[d] \subseteq 1..Counter!RowValue(disk)'
      BY <2>2, <2>4, <2>7 DEF Owned
  <2>13. spent \subseteq 1..Counter!RowValue(disk)' /\ Counter!Cardinality(spent) = credited'
      BY <1>2, <2>2 DEF Owned
  <2>14. Owned(spent, n)'
      BY <1>2, <2>4, <2>9, <2>10, <2>11, <2>12, <2>13 DEF Owned
  <2> QED
      BY <2>14
<1> QED
    BY <1>4, <1>5, <1>6 DEF Statements

Accounts ==
  CounterInv /\ (Counter!Only({"fetch_add", "get"}) => \E spent, units : Owned(spent, units))

\* As long as nobody sets the counter, what a fetch_add that returned has added is in the
\* committed row, and stays there: no crash takes it away.
THEOREM AddsSurviveCrashes == ASSUME Counter!CounterAssumption PROVE Counter!Spec
  => []Counter!AddsAreDurable
<1>1. Counter!Init => Accounts
    BY CounterInitInv, InitOwned DEF Accounts
<1>2. Accounts /\ [Counter!Next]_(Counter!vars) => Accounts'
  <2> SUFFICES ASSUME Accounts, [Counter!Next]_(Counter!vars), Counter!Only({"fetch_add", "get"})'
               PROVE  \E spent, units : Owned(spent, units)'
      BY NextInv DEF Accounts
  <2>1. CounterInv
      BY DEF Accounts
  <2>2. call' = call
    <3>1. CASE UNCHANGED Counter!vars
        BY <3>1 DEF Counter!vars
    <3>2. CASE Counter!Next
        BY <2>1, <3>2, StepsAreMoves DEF Moves, Still, Counter!RunStatement, Counter!Crash
    <3> QED
        BY <3>1, <3>2
  <2>3. Counter!Only({"fetch_add", "get"})
      BY <2>2 DEF Counter!Only
  <2>4. PICK spent, units : Owned(spent, units)
      BY <2>3 DEF Accounts
  <2>0. UNCHANGED Counter!vars => Still
      BY DEF Counter!vars, Still
  <2>5. CASE Still
    <3>1. \A c \in Coros : (Added(c)' => Added(c)) /\ (Kept(c)' => Kept(c))
        BY <2>5 DEF Still, Added, Kept, Answer
    <3>2. UNCHANGED <<table, disk, credited, amount>>
        BY <2>5 DEF Still
    <3>3. Owned(spent, units)'
        BY <2>4, <3>1, <3>2, StaysOwned
    <3> QED
        BY <3>3
  <2>6. CASE Counter!RunStatement
      BY <2>1, <2>3, <2>4, <2>6, RunOwned
  <2>7. CASE Counter!Crash
      BY <2>1, <2>4, <2>7, CrashOwned
  <2>8. ASSUME NEW c \in Coros, NEW shift \in {0, 1},
               NEW kind \in {"none", "select", "upsert", "commit"},
               Free(c, shift), Moves(c, kind), Does(c, shift, kind)
        PROVE  \E s, n : Owned(s, n)'
      BY <2>1, <2>4, <2>8, MovesOwned
  <2> QED
      BY <2>0, <2>1, <2>5, <2>6, <2>7, <2>8, StepsAreMoves
<1>3. Accounts => Counter!AddsAreDurable
  <2> SUFFICES ASSUME Accounts, Counter!Only({"fetch_add", "get"})
  PROVE Counter!RowValue(disk) >= credited
      BY DEF Counter!AddsAreDurable
  <2>1. PICK spent, units : Owned(spent, units)
      BY DEF Accounts
  <2>2. Counter!RowValue(disk) \in Nat
      BY DEF Accounts, CounterInv, Counter!TypeOK, Counter!RowValue
  <2>3. Counter!IsFiniteSet(1..Counter!RowValue(disk))
        /\ Counter!Cardinality(1..Counter!RowValue(disk)) = Counter!RowValue(disk)
    <3>1. 1 \in Int /\ Counter!RowValue(disk) \in Int
        BY <2>2
    <3>2. /\ Counter!IsFiniteSet(1..Counter!RowValue(disk))
          /\ Counter!Cardinality(1..Counter!RowValue(disk)) = IF 1 > Counter!RowValue(disk) THEN 0
                                              ELSE Counter!RowValue(disk) - 1 + 1
        BY <3>1, FS_Interval, CounterSets
    <3> QED
        BY <2>2, <3>2
  <2>4. Counter!Cardinality(spent) <= Counter!RowValue(disk)
    <3>1. spent \subseteq 1..Counter!RowValue(disk)
        BY <2>1 DEF Owned
    <3> QED
        BY <2>3, <3>1, FS_Subset, CounterSets
  <2> QED
      BY <2>1, <2>2, <2>4 DEF Owned, Accounts, CounterInv, Counter!TypeOK
<1> QED
    BY <1>1, <1>2, <1>3, PTL DEF Counter!Spec

-----------------------------------------------------------------------------
(* The primitives side by side: what moves one of them is a step of it. *)

LEMMA Assumed ==
  /\ Sched!SchedulerAssumption /\ Counter!CounterAssumption
  /\ Bulk!BulkAssumption /\ Alru!AlruAssumption
  BY Assumptions

LEMMA SchedulerMoves == PrimitivesSpec => Sched!Spec
<1>1. PrimitivesInit => Sched!Init
    BY DEF PrimitivesInit
<1>2. [PrimitivesNext]_allVars => [Sched!Next]_(Sched!vars)
    BY DEF PrimitivesNext, allVars, queueVars, Sched!vars
<1> QED
    BY <1>1, <1>2, PTL DEF PrimitivesSpec, Sched!Spec

LEMMA CounterMoves == PrimitivesSpec => Counter!Spec
<1>1. PrimitivesInit => Counter!Init
    BY DEF PrimitivesInit
<1>2. [PrimitivesNext]_allVars => [Counter!Next]_(Counter!vars)
    BY DEF PrimitivesNext, allVars, counterVars, Counter!vars
<1> QED
    BY <1>1, <1>2, PTL DEF PrimitivesSpec, Counter!Spec

LEMMA CacheIsSafe == PrimitivesSpec => [](AlruInv /\ CacheContents)
<1>1. PrimitivesInit => AlruInv /\ CacheContents
    BY Assumed, AlruInitInv, CacheInitContents DEF PrimitivesInit
<1>2. [PrimitivesNext]_allVars => [Alru!Next]_(Alru!vars)
    BY DEF PrimitivesNext, allVars, alruVars, Alru!vars
<1>3. AlruInv /\ CacheContents /\ [PrimitivesNext]_allVars => AlruInv' /\ CacheContents'
    BY <1>2, Assumed, AlruNextInv, CacheNextContents
<1> QED
    BY <1>1, <1>3, PTL DEF PrimitivesSpec

LEMMA WorkerIsSafe == PrimitivesSpec => []BulkInv
<1>1. PrimitivesInit => BulkInv
    BY Assumed, BulkInitInv DEF PrimitivesInit
<1>2. [PrimitivesNext]_allVars => [Bulk!Next]_(Bulk!vars)
    BY DEF PrimitivesNext, allVars, bulkVars, Bulk!vars
<1>3. BulkInv /\ [PrimitivesNext]_allVars => BulkInv'
    BY <1>2, Assumed, BulkNextInv
<1> QED
    BY <1>1, <1>3, PTL DEF PrimitivesSpec

LEMMA SemaphoreMoves == PrimitivesSpec => Spec
<1>1. PrimitivesInit => Init
    BY DEF PrimitivesInit
<1>2. [PrimitivesNext]_allVars => [Next]_vars
    BY DEF PrimitivesNext, allVars, semaphoreVars, vars
<1> QED
    BY <1>1, <1>2, PTL DEF PrimitivesSpec, Spec

-----------------------------------------------------------------------------
\* The semaphore among the other primitives loses neither a slot nor a waiter.
THEOREM SemaphoreKeptAmongAll == PrimitivesSpec => []SemaphoreKept
BY SemaphoreMoves, SemaphoreIsKept, PTL

\* The scheduler forgets no task and forgives no loan.
THEOREM QueueIsKept == PrimitivesSpec => []QueueKept
    BY Assumed, TasksAreKept, SchedulerMoves, PTL DEF QueueKept

\* The counters: a write-through cache as long as nobody calls get, distinct tickets also over
\* a restart, and additions that survive every crash once they returned.
THEOREM CountersAreKept == PrimitivesSpec => []CountersHold
<1>1. Counter!Spec => []Counter!Consistent
    BY Assumed, CounterIsConsistent
<1>2. Counter!Spec => []Counter!WriteThrough
    BY Assumed, CacheWritesThrough
<1>3. Counter!Spec => []Counter!DistinctTickets
    BY Assumed, TicketsAreDistinct
<1>4. Counter!Spec => []Counter!AddsAreDurable
    BY Assumed, AddsSurviveCrashes
<1>5. (Counter!Consistent /\ Counter!WriteThrough /\ Counter!DistinctTickets
        /\ Counter!AddsAreDurable) => CountersHold
    BY DEF CountersHold
<1> QED
    BY <1>1, <1>2, <1>3, <1>4, <1>5, CounterMoves, PTL

\* Callers who share a call each get their own answer: the batch worker leaves no item and no
\* caller behind; a key is never computed twice at once and its result is found.
THEOREM CallsAreShared == PrimitivesSpec => []SharedCalls
<1>1. AlruInv /\ CacheContents =>
        Alru!Consistent /\ Alru!SingleFlight /\ Alru!WaitersFindTheResult
    BY Assumed, CacheIsConsistent, NeverComputedTwice, ResultsAreFound
<1>2. BulkInv => Bulk!Consistent /\ Bulk!OwnAnswer /\ Bulk!NobodyLeftBehind
    BY Assumed, BulkIsSafe
<1>3. AlruInv /\ CacheContents /\ BulkInv => SharedCalls
    BY <1>1, <1>2 DEF SharedCalls
<1> QED
    BY <1>3, CacheIsSafe, WorkerIsSafe, PTL

\* Slots go in order: of the semaphore to the best priority, of the scheduler to the task that
\* was served least.
THEOREM SlotsGoInOrder == PrimitivesSpec => InOrder
<1>1. Sched!Spec => Sched!LeastServedFirst
    BY Assumed, LeastServedGoesFirst
<1> QED
    BY <1>1, SchedulerMoves, SemaphoreMoves, PriorityRespected, PTL DEF InOrder

\* The semaphore is a pool of slots, the scheduler a queue of runs.
THEOREM PrimitivesRefine == PrimitivesSpec => Refines
<1>1. Sched!Spec => Sched!ImplementsRunQueue
    BY Assumed, SchedulerIsARunQueue
<1> QED
    BY <1>1, SchedulerMoves, SemaphoreMoves, SemaphoreIsAPool, PTL DEF Refines
=============================================================================
