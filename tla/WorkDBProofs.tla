---------------------------- MODULE WorkDBProofs ----------------------------
(***************************************************************************)
(* Safety of WorkDB for any tasks, worktypes, requests and limits.         *)
(*                                                                         *)
(* The inductive invariant says where a job can be: handed over by its     *)
(* caller, in the heap, in a coroutine, or settled, and what its row may   *)
(* say at each place.  What WorkDB promises its callers rests on it: it    *)
(* implements JobQueue, and nothing it took in gets lost.                  *)
(***************************************************************************)
EXTENDS WorkDB, FiniteSetTheorems, SequenceTheorems, WellFoundedInduction,
        TLAPS

-----------------------------------------------------------------------------
\* Outside process_events its locals are empty; while the process is down
\* there is no job in memory.
Phases ==
  /\ pc # "events" => /\ events = <<>> /\ replies = {}
                      /\ pendingAdds = {} /\ flushing = {}
  /\ pc = "down" => /\ eventQueue = <<>> /\ jobQueue = {} /\ dirty = {}
                    /\ cancelled = {}
                    /\ \A id \in JobIds : status[id] = Absent /\ co[id] = "none"

\* A rowid that was not handed out yet is nowhere in use.
Untouched(id) ==
  /\ id \notin Stored /\ status[id] = Absent /\ co[id] = "none"
  /\ id \notin jobQueue \cup dirty \cup flushing \cup pendingAdds
  /\ id \notin Range(eventQueue) \cup Range(events)
FreshIds == pc # "down" => \A id \in JobIds : id >= nextJobid => Untouched(id)

\* A submission waits in one place of one event list, and nowhere else.
Handover ==
  /\ IsInjective(eventQueue) /\ IsInjective(events)
  /\ Range(eventQueue) \cap Range(events) = {}
  /\ \A id \in Range(eventQueue) \cup Range(events) :
       /\ id \notin Stored /\ status[id] = "SUBMITTED" /\ co[id] = "none"
       /\ id \notin jobQueue \cup dirty \cup flushing \cup pendingAdds

\* Where a job that was taken in is, and what its row says.
Placed(id) ==
  /\ id \in pendingAdds => id \in jobQueue /\ id \notin Stored
  /\ id \in jobQueue => /\ status[id] = "SUBMITTED" /\ co[id] = "none"
                        /\ id \in Stored \cup pendingAdds
  /\ id \in dirty \cup flushing => id \in Stored /\ status[id] # Absent
  /\ co[id] # "none" => /\ id \in Stored
                        /\ co[id] = "exiting" => status[id] = "DONE"
                        /\ co[id] # "exiting" => status[id] = "RUNNING"
  /\ status[id] = "SUBMITTED" => id \in jobQueue \cup Range(eventQueue)
                                                 \cup Range(events)
  /\ row[id] \in Terminal => status[id] \in {Absent, row[id]}
Places == \A id \in JobIds : Placed(id)

\* Attempts that are left, in memory and in the table.
Counted(id) ==
  /\ status[id] \in {"SUBMITTED", "RUNNING"} \/ co[id] # "none" =>
       ~Exhausted(req[id].worktype, failures[id])
  /\ row[id] \in {"SUBMITTED", "RUNNING"} =>
       ~Exhausted(req[id].worktype, rowFailures[id])
  /\ id \in Stored /\ status[id] # Absent => rowFailures[id] <= failures[id]
FailuresCounted == \A id \in JobIds : Counted(id)

\* A coroutine that has not entered its callback when its task was cancelled
\* has a cancellation pending.
CancelsPending ==
  \A id \in JobIds :
    co[id] = "starting" /\ req[id].task \in cancelled => id \in cancelling

\* The scheduler knows how many jobs are in each heap.
QueueCounted == \A k \in TaskKeys : waiting[k] = Cardinality(QueueOf(k))

Inv == /\ TypeOK /\ Phases /\ FreshIds /\ Handover /\ Places
       /\ FailuresCounted /\ LagIsDirty /\ CancelsPending
       /\ SlotsAccounted /\ QueueCounted

-----------------------------------------------------------------------------
(***************************************************************************)
(* Facts about the data: sequences, rowids and counts.                     *)
(***************************************************************************)
LEMMA EmptySequence == Range(<<>>) = {} /\ IsInjective(<<>>)
  BY DEF Range, IsInjective

LEMMA AppendToQueue ==
  ASSUME NEW S, NEW s \in Seq(S), NEW x \in S
  PROVE  /\ Append(s, x) \in Seq(S)
         /\ Range(Append(s, x)) = Range(s) \cup {x}
         /\ IsInjective(s) /\ x \notin Range(s) => IsInjective(Append(s, x))
<1> DEFINE t == Append(s, x)
<1>1. /\ t \in Seq(S) /\ Len(t) = Len(s) + 1 /\ Len(s) \in Nat
      /\ \A i \in 1..Len(s) : t[i] = s[i]
      /\ t[Len(s) + 1] = x
    BY AppendProperties
<1>2. DOMAIN s = 1..Len(s) /\ DOMAIN t = 1..(Len(s) + 1)
    BY <1>1
<1> HIDE DEF t
<1>3. Range(t) = Range(s) \cup {x}
    BY <1>1, <1>2 DEF Range
<1>4. IsInjective(s) /\ x \notin Range(s) => IsInjective(t)
    BY <1>1, <1>2 DEF Range, IsInjective
<1> QED
    BY <1>1, <1>3, <1>4 DEF t

LEMMA TakeFromQueue ==
  ASSUME NEW S, NEW s \in Seq(S), s # <<>>
  PROVE  /\ Head(s) \in S /\ Tail(s) \in Seq(S)
         /\ Range(s) = {Head(s)} \cup Range(Tail(s))
         /\ IsInjective(s) => /\ IsInjective(Tail(s))
                             /\ Head(s) \notin Range(Tail(s))
<1> DEFINE t == Tail(s)
<1>1. /\ Head(s) \in S /\ Head(s) = s[1] /\ t \in Seq(S)
      /\ Len(t) = Len(s) - 1 /\ Len(s) \in Nat /\ Len(s) > 0
      /\ \A i \in 1..Len(t) : t[i] = s[i + 1]
    BY HeadTailProperties, EmptySeq
<1>2. DOMAIN s = 1..Len(s) /\ DOMAIN t = 1..Len(t)
    BY <1>1
<1> HIDE DEF t
<1>3. \A i \in DOMAIN s : i = 1 \/ (i - 1 \in DOMAIN t /\ s[i] = t[i - 1])
    BY <1>1, <1>2
<1>4. 1 \in DOMAIN s /\ \A i \in DOMAIN t : i + 1 \in DOMAIN s /\ t[i] = s[i + 1]
    BY <1>1, <1>2
<1>5. Range(s) = {Head(s)} \cup Range(t)
  <2>1. \A x \in Range(s) : x \in {Head(s)} \cup Range(t)
      BY <1>1, <1>3 DEF Range
  <2>2. \A x \in Range(t) : x \in Range(s)
      BY <1>4 DEF Range
  <2>3. Head(s) \in Range(s)
      BY <1>1, <1>4 DEF Range
  <2> QED
      BY <2>1, <2>2, <2>3
<1>6. ASSUME IsInjective(s) PROVE IsInjective(t) /\ Head(s) \notin Range(t)
  <2>1. \A i, j \in DOMAIN t : t[i] = t[j] => i + 1 = j + 1
      BY <1>4, <1>6 DEF IsInjective
  <2>2. \A i, j \in DOMAIN t : i + 1 = j + 1 => i = j
      BY <1>2
  <2>3. \A i \in DOMAIN t : i + 1 # 1
      BY <1>1, <1>2
  <2>4. \A i \in DOMAIN t : t[i] # Head(s)
      BY <1>1, <1>4, <1>6, <2>3 DEF IsInjective
  <2> QED
      BY <2>1, <2>2, <2>4 DEF IsInjective, Range
<1> QED
    BY <1>1, <1>5, <1>6 DEF t

LEMMA JobIdsFinite ==
  ASSUME NEW S \in SUBSET JobIds
  PROVE  IsFiniteSet(S) /\ Cardinality(S) \in Nat
<1>1. IsFiniteSet(JobIds)
    BY FS_Interval, BoundsAssumption DEF JobIds
<1> QED
    BY <1>1, FS_Subset, FS_CardinalityType

LEMMA CountAdded ==
  ASSUME NEW S \in SUBSET JobIds, NEW x, x \notin S
  PROVE  Cardinality(S \cup {x}) = Cardinality(S) + 1
<1>1. IsFiniteSet(S)
    BY JobIdsFinite
<1> QED
    BY <1>1, FS_AddElement

LEMMA CountRemoved ==
  ASSUME NEW S \in SUBSET JobIds, NEW x \in S
  PROVE  Cardinality(S \ {x}) = Cardinality(S) - 1
<1>1. IsFiniteSet(S)
    BY JobIdsFinite
<1> QED
    BY <1>1, FS_RemoveElement

\* A counter that is not zero can be decremented.
LEMMA CountDown ==
  ASSUME NEW S, NEW f \in [S -> Nat], NEW k \in S, f[k] > 0
  PROVE  [f EXCEPT ![k] = @ - 1] \in [S -> Nat]
OBVIOUS

\* The rowid setup starts with exists and is above every stored one.
LEMMA FirstFreeIdIsFree ==
  /\ FirstFreeId \in 1..(MaxJobs + 1)
  /\ \A id \in Stored : id < FirstFreeId
<1> DEFINE Above == {n \in 1..(MaxJobs + 1) : \A id \in Stored : id < n}
           Below == {1..n : n \in Above}
           All   == 1..(MaxJobs + 1)
<1>1. MaxJobs \in Nat /\ Stored \subseteq 1..MaxJobs
    BY BoundsAssumption DEF Stored, JobIds
<1>2. MaxJobs + 1 \in Above
    BY <1>1
<1>3. IsFiniteSet(All) /\ Below \subseteq SUBSET All
    BY <1>1, FS_Interval
<1>4. Below \subseteq FiniteSubsetsOf(All) /\ Below # {}
    BY <1>2, <1>3, FS_FiniteSubsetsOfFinite
<1>5. PICK least \in Below :
        \A other \in Below : <<other, least>> \notin StrictSubsetOrdering(All)
  <2> HIDE DEF Above, Below, All
  <2>1. IsWellFoundedOn(StrictSubsetOrdering(All), FiniteSubsetsOf(All))
      BY <1>3, FS_StrictSubsetOrderingWellFounded
  <2> QED
      BY <1>4, <2>1, WFMin, SMTT(40)
<1>6. PICK n \in Above : least = 1..n
    OBVIOUS
<1>7. \A m \in Above : n <= m
  <2> SUFFICES ASSUME NEW m \in Above, m < n PROVE FALSE
      BY <1>1
  <2>1. 1..m \subseteq 1..n /\ 1..m # 1..n /\ 1..m \in Below
      BY <1>1
  <2> QED
      BY <1>3, <1>5, <1>6, <2>1 DEF StrictSubsetOrdering
<1>8. n = 1 \/ n - 1 \in Stored
  <2> SUFFICES ASSUME n # 1, n - 1 \notin Stored PROVE FALSE
      OBVIOUS
  <2>1. n - 1 \in Above
      BY <1>1
  <2> QED
      BY <1>1, <1>7, <2>1
<1> QED
    BY <1>8 DEF FirstFreeId

-----------------------------------------------------------------------------
(***************************************************************************)
(* The counters of slots.                                                  *)
(***************************************************************************)
Holders(k) == {id \in JobIds : Occupies(id) /\ KeyOf(id) = k}
HoldersOf(w) == {id \in JobIds : Occupies(id) /\ req[id].worktype = w}

LEMMA KeyOfIsKey ==
  ASSUME TypeOK, NEW id \in JobIds
  PROVE  /\ KeyOf(id) \in TaskKeys /\ KeyOf(id)[2] = req[id].worktype
         /\ req[id].worktype \in WorkTypes /\ req[id].task \in Tasks
  BY RequestsAssumption DEF TypeOK, KeyOf, TaskKeys

\* Who holds a slot, and the counters, stay as they are.
LEMMA SlotsKept ==
  ASSUME SlotsAccounted, UNCHANGED slotVars,
         \A id \in JobIds : Occupies(id)' <=> Occupies(id),
         \A id \in JobIds : Occupies(id) => req'[id] = req[id]
  PROVE  SlotsAccounted'
<1>1. \A k \in TaskKeys : Holders(k)' = Holders(k)
    BY DEF Holders, KeyOf
<1>2. \A w \in WorkTypes : HoldersOf(w)' = HoldersOf(w)
    BY DEF HoldersOf
<1> QED
    BY <1>1, <1>2 DEF SlotsAccounted, slotVars, Holders, HoldersOf

\* A job that holds a slot is in its counters.
LEMMA HolderCounted ==
  ASSUME TypeOK, SlotsAccounted, NEW id \in JobIds, Occupies(id)
  PROVE  /\ running[KeyOf(id)] > 0 /\ taskWorkCounts[KeyOf(id)] > 0
         /\ workCounts[req[id].worktype] > 0
<1>1. /\ id \in Holders(KeyOf(id)) /\ Holders(KeyOf(id)) \in SUBSET JobIds
      /\ id \in HoldersOf(req[id].worktype)
      /\ HoldersOf(req[id].worktype) \in SUBSET JobIds
    BY DEF Holders, HoldersOf
<1>2. /\ Cardinality(Holders(KeyOf(id))) > 0
      /\ Cardinality(HoldersOf(req[id].worktype)) > 0
  <2>1. \A S \in SUBSET JobIds : id \in S => Cardinality(S) > 0
    <3> SUFFICES ASSUME NEW S \in SUBSET JobIds, id \in S
                 PROVE  Cardinality(S) > 0
        OBVIOUS
    <3>1. IsFiniteSet(S) /\ Cardinality(S) \in Nat
        BY JobIdsFinite
    <3>2. Cardinality(S) # 0
        BY <3>1, FS_EmptySet
    <3> QED
        BY <3>1, <3>2
  <2> QED
      BY <1>1, <2>1
<1>3. KeyOf(id) \in TaskKeys /\ req[id].worktype \in WorkTypes
    BY KeyOfIsKey
<1> QED
    BY <1>2, <1>3 DEF SlotsAccounted, Holders, HoldersOf

\* One job more holds a slot, and the three counters say so.
LEMMA SlotsAdded ==
  ASSUME TypeOK, SlotsAccounted, NEW id \in JobIds,
         ~Occupies(id), Occupies(id)', UNCHANGED req,
         \A j \in JobIds \ {id} : Occupies(j)' <=> Occupies(j),
         running' = [running EXCEPT ![KeyOf(id)] = @ + 1],
         taskWorkCounts' = [taskWorkCounts EXCEPT ![KeyOf(id)] = @ + 1],
         workCounts' = [workCounts EXCEPT ![req[id].worktype] = @ + 1]
  PROVE  SlotsAccounted'
<1>1. ASSUME NEW k \in TaskKeys
      PROVE  /\ k = KeyOf(id) =>
                  Cardinality(Holders(k)') = Cardinality(Holders(k)) + 1
             /\ k # KeyOf(id) => Holders(k)' = Holders(k)
  <2>1. /\ k = KeyOf(id) => Holders(k)' = Holders(k) \cup {id}
        /\ k # KeyOf(id) => Holders(k)' = Holders(k)
      BY DEF Holders, KeyOf
  <2>2. id \notin Holders(k) /\ Holders(k) \in SUBSET JobIds
      BY DEF Holders
  <2> QED
      BY <2>1, <2>2, CountAdded
<1>2. ASSUME NEW w \in WorkTypes
      PROVE  /\ w = req[id].worktype =>
                  Cardinality(HoldersOf(w)') = Cardinality(HoldersOf(w)) + 1
             /\ w # req[id].worktype => HoldersOf(w)' = HoldersOf(w)
  <2>1. /\ w = req[id].worktype => HoldersOf(w)' = HoldersOf(w) \cup {id}
        /\ w # req[id].worktype => HoldersOf(w)' = HoldersOf(w)
      BY DEF HoldersOf
  <2>2. id \notin HoldersOf(w) /\ HoldersOf(w) \in SUBSET JobIds
      BY DEF HoldersOf
  <2> QED
      BY <2>1, <2>2, CountAdded
<1>3. \A k \in TaskKeys : running[k] \in Nat /\ running[k] = taskWorkCounts[k]
                          /\ running[k] = Cardinality(Holders(k))
    BY DEF SlotsAccounted, TypeOK, Holders
<1>4. \A w \in WorkTypes : workCounts[w] \in Nat
                           /\ workCounts[w] = Cardinality(HoldersOf(w))
    BY DEF SlotsAccounted, TypeOK, HoldersOf
<1>5. \A k \in TaskKeys : /\ running'[k] = taskWorkCounts'[k]
                          /\ running'[k] = Cardinality(Holders(k)')
    BY <1>1, <1>3 DEF TypeOK
<1>6. \A w \in WorkTypes : workCounts'[w] = Cardinality(HoldersOf(w)')
    BY <1>2, <1>4 DEF TypeOK
<1> QED
    BY <1>5, <1>6 DEF SlotsAccounted, Holders, HoldersOf

\* One job gives its slot back, and the three counters say so.
LEMMA SlotsReturned ==
  ASSUME TypeOK, SlotsAccounted, NEW id \in JobIds,
         Occupies(id), ~Occupies(id)', UNCHANGED req,
         \A j \in JobIds \ {id} : Occupies(j)' <=> Occupies(j),
         running' = [running EXCEPT ![KeyOf(id)] = @ - 1],
         taskWorkCounts' = [taskWorkCounts EXCEPT ![KeyOf(id)] = @ - 1],
         workCounts' = [workCounts EXCEPT ![req[id].worktype] = @ - 1]
  PROVE  SlotsAccounted'
<1>1. ASSUME NEW k \in TaskKeys
      PROVE  /\ k = KeyOf(id) =>
                  Cardinality(Holders(k)') = Cardinality(Holders(k)) - 1
             /\ k # KeyOf(id) => Holders(k)' = Holders(k)
  <2>1. /\ k = KeyOf(id) => Holders(k)' = Holders(k) \ {id}
        /\ k # KeyOf(id) => Holders(k)' = Holders(k)
      BY DEF Holders, KeyOf
  <2>2. (k = KeyOf(id) => id \in Holders(k)) /\ Holders(k) \in SUBSET JobIds
      BY DEF Holders
  <2> QED
      BY <2>1, <2>2, CountRemoved
<1>2. ASSUME NEW w \in WorkTypes
      PROVE  /\ w = req[id].worktype =>
                  Cardinality(HoldersOf(w)') = Cardinality(HoldersOf(w)) - 1
             /\ w # req[id].worktype => HoldersOf(w)' = HoldersOf(w)
  <2>1. /\ w = req[id].worktype => HoldersOf(w)' = HoldersOf(w) \ {id}
        /\ w # req[id].worktype => HoldersOf(w)' = HoldersOf(w)
      BY DEF HoldersOf
  <2>2. /\ w = req[id].worktype => id \in HoldersOf(w)
        /\ HoldersOf(w) \in SUBSET JobIds
      BY DEF HoldersOf
  <2> QED
      BY <2>1, <2>2, CountRemoved
<1>3. \A k \in TaskKeys : running[k] \in Nat /\ running[k] = taskWorkCounts[k]
                          /\ running[k] = Cardinality(Holders(k))
    BY DEF SlotsAccounted, TypeOK, Holders
<1>4. \A w \in WorkTypes : workCounts[w] \in Nat
                           /\ workCounts[w] = Cardinality(HoldersOf(w))
    BY DEF SlotsAccounted, TypeOK, HoldersOf
<1>5. \A k \in TaskKeys : /\ running'[k] = taskWorkCounts'[k]
                          /\ running'[k] = Cardinality(Holders(k)')
    BY <1>1, <1>3 DEF TypeOK
<1>6. \A w \in WorkTypes : workCounts'[w] = Cardinality(HoldersOf(w)')
    BY <1>2, <1>4 DEF TypeOK
<1> QED
    BY <1>5, <1>6 DEF SlotsAccounted, Holders, HoldersOf

-----------------------------------------------------------------------------
(***************************************************************************)
(* The heap and what the scheduler knows of it.                            *)
(***************************************************************************)
LEMMA QueueKept ==
  ASSUME QueueCounted, UNCHANGED queueVars,
         \A id \in jobQueue : req'[id] = req[id]
  PROVE  QueueCounted'
<1>1. \A k \in TaskKeys : QueueOf(k)' = QueueOf(k)
    BY DEF QueueOf, KeyOf, queueVars
<1> QED
    BY <1>1 DEF QueueCounted, queueVars

LEMMA QueueGrown ==
  ASSUME TypeOK, QueueCounted, NEW id \in JobIds, id \notin jobQueue,
         UNCHANGED req, AddJob(id)
  PROVE  QueueCounted'
<1> SUFFICES ASSUME NEW k \in TaskKeys
             PROVE  waiting'[k] = Cardinality(QueueOf(k)')
    BY DEF QueueCounted
<1>1. /\ k = KeyOf(id) => QueueOf(k)' = QueueOf(k) \cup {id}
      /\ k # KeyOf(id) => QueueOf(k)' = QueueOf(k)
    BY DEF QueueOf, AddJob, KeyOf
<1>2. id \notin QueueOf(k) /\ QueueOf(k) \in SUBSET JobIds
    BY DEF QueueOf, TypeOK
<1>4. waiting[k] = Cardinality(QueueOf(k))
    BY DEF QueueCounted
<1>3. /\ k = KeyOf(id) => waiting'[k] = waiting[k] + 1
      /\ k # KeyOf(id) => waiting'[k] = waiting[k]
    BY DEF AddJob, TypeOK
<1> QED
    BY <1>1, <1>2, <1>3, <1>4, CountAdded

LEMMA QueueShrunk ==
  ASSUME TypeOK, QueueCounted, NEW id \in jobQueue, UNCHANGED req,
         jobQueue' = jobQueue \ {id},
         waiting' = [waiting EXCEPT ![KeyOf(id)] = @ - 1]
  PROVE  QueueCounted'
<1> SUFFICES ASSUME NEW k \in TaskKeys
             PROVE  waiting'[k] = Cardinality(QueueOf(k)')
    BY DEF QueueCounted
<1>1. /\ k = KeyOf(id) => QueueOf(k)' = QueueOf(k) \ {id}
      /\ k # KeyOf(id) => QueueOf(k)' = QueueOf(k)
    BY DEF QueueOf, KeyOf
<1>2. (k = KeyOf(id) => id \in QueueOf(k)) /\ QueueOf(k) \in SUBSET JobIds
    BY DEF QueueOf, TypeOK
<1>4. waiting[k] = Cardinality(QueueOf(k))
    BY DEF QueueCounted
<1>3. /\ k = KeyOf(id) => waiting'[k] = waiting[k] - 1
      /\ k # KeyOf(id) => waiting'[k] = waiting[k]
    BY DEF TypeOK
<1> QED
    BY <1>1, <1>2, <1>3, <1>4, CountRemoved
-----------------------------------------------------------------------------
(***************************************************************************)
(* Every action preserves the invariant.                                   *)
(***************************************************************************)
USE DEF tableVars, jobVars, queueVars, slotVars, loopVars, coVars, envVars

\* Steps that move no job: only the phase, the environment or a pending
\* cancellation changes.
LEMMA BystanderStep ==
  ASSUME Inv, TypeOK', Phases', CancelsPending',
         UNCHANGED <<tableVars, jobVars, eventQueue, dirty, queueVars, slotVars,
                     events, pendingAdds, flushing, co>>,
         pc' = "down" <=> pc = "down"
  PROVE  Inv'
<1>1. SlotsAccounted'
    BY SlotsKept DEF Inv, Occupies
<1>2. QueueCounted'
    BY QueueKept DEF Inv
<1>3. FreshIds'
  <2>1. Stored' = Stored /\ \A id \in JobIds : Untouched(id)' <=> Untouched(id)
      BY DEF Untouched, Stored
  <2> QED
      BY <2>1 DEF Inv, FreshIds
<1>4. Handover'
    BY DEF Inv, Handover, Stored
<1>5. Places'
    BY DEF Inv, Places, Placed, Stored
<1>6. FailuresCounted'
    BY DEF Inv, FailuresCounted, Counted, Exhausted, Stored
<1>7. LagIsDirty'
    BY DEF Inv, LagIsDirty, Stored
<1> QED
    BY <1>1, <1>2, <1>3, <1>4, <1>5, <1>6, <1>7 DEF Inv

LEMMA EnvironmentSteps ==
  ASSUME Inv,
         \/ \E t \in Tasks : RequestCancel(t) \/ CancelTasks(t)
         \/ \E id \in JobIds : Expire(id)
         \/ \E w \in WorkTypes : LeaveWorkType(w)
         \/ AwaitWakeup \/ AnswerCallers \/ UNCHANGED vars
  PROVE  Inv'
<1> USE DEF Inv
<1>1. ASSUME NEW t \in Tasks, RequestCancel(t) PROVE Inv'
  <2>1. TypeOK' /\ Phases' /\ CancelsPending'
      BY <1>1 DEF RequestCancel, TypeOK, Phases, CancelsPending
  <2> QED
      BY <1>1, <2>1, BystanderStep DEF RequestCancel
<1>2. ASSUME NEW t \in Tasks, CancelTasks(t) PROVE Inv'
  <2>1. TypeOK' /\ Phases' /\ CancelsPending'
      BY <1>2
         DEF CancelTasks, Cancellees, TypeOK, Phases, CancelsPending,
             Interleaved
  <2> QED
      BY <1>2, <2>1, BystanderStep DEF CancelTasks
<1>3. ASSUME NEW id \in JobIds, Expire(id) PROVE Inv'
  <2>1. TypeOK' /\ Phases' /\ CancelsPending'
      BY <1>3 DEF Expire, TypeOK, Phases, CancelsPending
  <2> QED
      BY <1>3, <2>1, BystanderStep DEF Expire
<1>4. ASSUME NEW w \in WorkTypes, LeaveWorkType(w) PROVE Inv'
  <2>1. TypeOK' /\ Phases' /\ CancelsPending'
      BY <1>4 DEF LeaveWorkType, TypeOK, Phases, CancelsPending
  <2> QED
      BY <1>4, <2>1, BystanderStep DEF LeaveWorkType
<1>5. ASSUME AwaitWakeup PROVE Inv'
  <2>1. TypeOK' /\ Phases' /\ CancelsPending'
      BY <1>5 DEF AwaitWakeup, TypeOK, Phases, CancelsPending
  <2> QED
      BY <1>5, <2>1, BystanderStep DEF AwaitWakeup
<1>6. ASSUME AnswerCallers PROVE Inv'
  <2>1. TypeOK' /\ Phases' /\ CancelsPending'
      BY <1>6 DEF AnswerCallers, TypeOK, Phases, CancelsPending
  <2> QED
      BY <1>6, <2>1, BystanderStep DEF AnswerCallers
<1>7. ASSUME UNCHANGED vars PROVE Inv'
  <2>1. TypeOK' /\ Phases' /\ CancelsPending'
      BY <1>7 DEF vars, TypeOK, Phases, CancelsPending
  <2> QED
      BY <1>7, <2>1, BystanderStep DEF vars
<1> QED
    BY <1>1, <1>2, <1>3, <1>4, <1>5, <1>6, <1>7

LEMMA BeginStep ==
  ASSUME Inv, NEW id \in JobIds, Begin(id)
  PROVE  Inv'
<1> USE DEF Inv
<1>1. TypeOK'
    BY DEF Begin, coOnly, Interleaved, TypeOK
<1>2. Phases'
    BY DEF Begin, coOnly, Interleaved, Phases, TypeOK
<1>3. FreshIds'
    BY DEF Begin, coOnly, Interleaved, FreshIds, Untouched, Stored
<1>4. Handover'
    BY DEF Begin, coOnly, Interleaved, Handover, Stored
<1>5. Places'
    BY DEF Begin, coOnly, Interleaved, Places, Placed, Stored
<1>6. FailuresCounted'
    BY DEF Begin, coOnly, Interleaved, FailuresCounted, Counted, Exhausted,
           Stored
<1>7. LagIsDirty'
    BY DEF Begin, coOnly, Interleaved, LagIsDirty, Stored
<1>8. CancelsPending'
    BY DEF Begin, coOnly, Interleaved, CancelsPending
<1>9. SlotsAccounted'
  <2>1. \A j \in JobIds : Occupies(j)' <=> Occupies(j)
      BY DEF Begin, coOnly, Occupies, Places, Placed, TypeOK
  <2> QED
      BY <2>1, SlotsKept DEF Begin, coOnly
<1>10. QueueCounted'
    BY QueueKept DEF Begin, coOnly
<1> QED
    BY <1>1, <1>2, <1>3, <1>4, <1>5, <1>6, <1>7, <1>8, <1>9, <1>10

LEMMA CancelBeforeBeginStep ==
  ASSUME Inv, NEW id \in JobIds, CancelBeforeBegin(id)
  PROVE  Inv'
<1> USE DEF Inv
<1>1. TypeOK'
    BY DEF CancelBeforeBegin, coOnly, Interleaved, TypeOK
<1>2. Phases'
    BY DEF CancelBeforeBegin, coOnly, Interleaved, Phases, TypeOK
<1>3. FreshIds'
    BY DEF CancelBeforeBegin, coOnly, Interleaved, FreshIds, Untouched, Stored
<1>4. Handover'
    BY DEF CancelBeforeBegin, coOnly, Interleaved, Handover, Stored
<1>5. Places'
    BY DEF CancelBeforeBegin, coOnly, Interleaved, Places, Placed, Stored
<1>6. FailuresCounted'
    BY DEF CancelBeforeBegin, coOnly, Interleaved, FailuresCounted, Counted,
           Exhausted, Stored
<1>7. LagIsDirty'
    BY DEF CancelBeforeBegin, coOnly, Interleaved, LagIsDirty, Stored
<1>8. CancelsPending'
    BY DEF CancelBeforeBegin, coOnly, Interleaved, CancelsPending, TypeOK
<1>9. SlotsAccounted'
  <2>1. \A j \in JobIds : Occupies(j)' <=> Occupies(j)
      BY DEF CancelBeforeBegin, coOnly, Occupies, Places, Placed, TypeOK
  <2> QED
      BY <2>1, SlotsKept DEF CancelBeforeBegin, coOnly
<1>10. QueueCounted'
    BY QueueKept DEF CancelBeforeBegin, coOnly
<1> QED
    BY <1>1, <1>2, <1>3, <1>4, <1>5, <1>6, <1>7, <1>8, <1>9, <1>10

LEMMA SucceedStep ==
  ASSUME Inv, NEW id \in JobIds, Succeed(id)
  PROVE  Inv'
<1> USE DEF Inv
<1>1. TypeOK'
    BY DEF Succeed, coOnly, Interleaved, TypeOK, Statuses, Terminal
<1>2. Phases'
    BY DEF Succeed, coOnly, Interleaved, Phases, TypeOK
<1>3. FreshIds'
    BY DEF Succeed, coOnly, Interleaved, FreshIds, Untouched, Stored
<1>4. Handover'
    BY DEF Succeed, coOnly, Interleaved, Handover, Stored
<1>5. Places'
    BY DEF Succeed, coOnly, Interleaved, Places, Placed, Stored, TypeOK,
           Terminal, Absent
<1>6. FailuresCounted'
  <2> SUFFICES ASSUME NEW j \in JobIds PROVE Counted(j)'
      BY DEF FailuresCounted
  <2>1. /\ co'[j] # "none" => co[j] # "none"
        /\ status'[j] \in {"SUBMITTED", "RUNNING"} => status'[j] = status[j]
        /\ status'[j] # Absent => status[j] # Absent
    <3>1. CASE j = id
      <4>1. status[j] = "RUNNING" /\ co[j] = "running"
          BY <3>1 DEF Succeed, Places, Placed
      <4>2. status'[j] = "DONE"
          BY <3>1 DEF Succeed, TypeOK
      <4> QED
          BY <4>1, <4>2 DEF Absent
    <3>2. CASE j # id
      <4>1. status'[j] = status[j] /\ co'[j] = co[j]
          BY <3>2 DEF Succeed, TypeOK
      <4> QED
          BY <4>1
    <3> QED
        BY <3>1, <3>2
  <2>2. Counted(j) /\ UNCHANGED <<row, rowFailures, req, failures>>
      BY DEF Succeed, FailuresCounted
  <2> QED
      BY <2>1, <2>2 DEF Counted, Exhausted, Stored
<1>7. LagIsDirty'
    BY DEF Succeed, coOnly, Interleaved, LagIsDirty, Stored
<1>8. CancelsPending'
    BY DEF Succeed, coOnly, Interleaved, CancelsPending
<1>9. SlotsAccounted'
  <2>1. \A j \in JobIds : Occupies(j)' <=> Occupies(j)
      BY DEF Succeed, coOnly, Occupies, Places, Placed, TypeOK
  <2> QED
      BY <2>1, SlotsKept DEF Succeed, coOnly
<1>10. QueueCounted'
    BY QueueKept DEF Succeed, coOnly
<1> QED
    BY <1>1, <1>2, <1>3, <1>4, <1>5, <1>6, <1>7, <1>8, <1>9, <1>10

LEMMA FailStep ==
  ASSUME Inv, NEW id \in JobIds, Fail(id)
  PROVE  Inv'
<1> USE DEF Inv
<1>1. TypeOK'
    BY DEF Fail, coOnly, Interleaved, TypeOK
<1>2. Phases'
    BY DEF Fail, coOnly, Interleaved, Phases, TypeOK
<1>3. FreshIds'
    BY DEF Fail, coOnly, Interleaved, FreshIds, Untouched, Stored
<1>4. Handover'
    BY DEF Fail, coOnly, Interleaved, Handover, Stored
<1>5. Places'
    BY DEF Fail, coOnly, Interleaved, Places, Placed, Stored
<1>6. FailuresCounted'
    BY DEF Fail, coOnly, Interleaved, FailuresCounted, Counted, Exhausted,
           Stored
<1>7. LagIsDirty'
    BY DEF Fail, coOnly, Interleaved, LagIsDirty, Stored
<1>8. CancelsPending'
    BY DEF Fail, coOnly, Interleaved, CancelsPending
<1>9. SlotsAccounted'
  <2>1. \A j \in JobIds : Occupies(j)' <=> Occupies(j)
      BY DEF Fail, coOnly, Occupies, Places, Placed, TypeOK
  <2> QED
      BY <2>1, SlotsKept DEF Fail, coOnly
<1>10. QueueCounted'
    BY QueueKept DEF Fail, coOnly
<1> QED
    BY <1>1, <1>2, <1>3, <1>4, <1>5, <1>6, <1>7, <1>8, <1>9, <1>10

LEMMA InterruptStep ==
  ASSUME Inv, NEW id \in JobIds, Interrupt(id)
  PROVE  Inv'
<1> USE DEF Inv
<1>1. TypeOK'
    BY DEF Interrupt, coOnly, Interleaved, TypeOK
<1>2. Phases'
    BY DEF Interrupt, coOnly, Interleaved, Phases, TypeOK
<1>3. FreshIds'
    BY DEF Interrupt, coOnly, Interleaved, FreshIds, Untouched, Stored
<1>4. Handover'
    BY DEF Interrupt, coOnly, Interleaved, Handover, Stored
<1>5. Places'
    BY DEF Interrupt, coOnly, Interleaved, Places, Placed, Stored
<1>6. FailuresCounted'
    BY DEF Interrupt, coOnly, Interleaved, FailuresCounted, Counted, Exhausted,
           Stored
<1>7. LagIsDirty'
    BY DEF Interrupt, coOnly, Interleaved, LagIsDirty, Stored
<1>8. CancelsPending'
    BY DEF Interrupt, coOnly, Interleaved, CancelsPending
<1>9. SlotsAccounted'
  <2>1. \A j \in JobIds : Occupies(j)' <=> Occupies(j)
      BY DEF Interrupt, coOnly, Occupies, Places, Placed, TypeOK
  <2> QED
      BY <2>1, SlotsKept DEF Interrupt, coOnly
<1>10. QueueCounted'
    BY QueueKept DEF Interrupt, coOnly
<1> QED
    BY <1>1, <1>2, <1>3, <1>4, <1>5, <1>6, <1>7, <1>8, <1>9, <1>10

LEMMA CommitAddsStep ==
  ASSUME Inv, CommitAdds
  PROVE  Inv'
<1> USE DEF Inv
<1>1. TypeOK'
    BY DEF CommitAdds, Write, TypeOK
<1>2. Phases'
    BY DEF CommitAdds, Write, Phases, TypeOK
<1>3. FreshIds'
    BY DEF CommitAdds, Write, FreshIds, Untouched, Stored
<1>4. Handover'
    BY DEF CommitAdds, Write, Handover, Stored
<1>5. Places'
    BY DEF CommitAdds, Write, Places, Placed, Stored, TypeOK, Terminal, Absent
<1>6. FailuresCounted'
    BY DEF CommitAdds, Write, FailuresCounted, Counted, Exhausted, Stored,
           TypeOK,
           Places, Placed, Absent
<1>7. LagIsDirty'
    BY DEF CommitAdds, Write, LagIsDirty, Stored
<1>8. CancelsPending'
    BY DEF CommitAdds, Write, CancelsPending
<1>9. SlotsAccounted'
    BY SlotsKept DEF CommitAdds, Occupies
<1>10. QueueCounted'
    BY QueueKept DEF CommitAdds
<1> QED
    BY <1>1, <1>2, <1>3, <1>4, <1>5, <1>6, <1>7, <1>8, <1>9, <1>10

LEMMA FlushDirtyStep ==
  ASSUME Inv, FlushDirty
  PROVE  Inv'
<1> USE DEF Inv
<1>1. TypeOK'
    BY DEF FlushDirty, Write, TypeOK
<1>2. Phases'
    BY DEF FlushDirty, Write, Phases, TypeOK
<1>3. FreshIds'
    BY DEF FlushDirty, Write, FreshIds, Untouched, Stored
<1>4. Handover'
    BY DEF FlushDirty, Write, Handover, Stored
<1>5. Places'
    BY DEF FlushDirty, Write, Places, Placed, Stored
<1>6. FailuresCounted'
    BY DEF FlushDirty, Write, FailuresCounted, Counted, Exhausted, Stored,
           TypeOK, Places,
           Placed, Absent
<1>7. LagIsDirty'
    BY DEF FlushDirty, Write, LagIsDirty, Stored
<1>8. CancelsPending'
    BY DEF FlushDirty, Write, CancelsPending
<1>9. SlotsAccounted'
    BY SlotsKept DEF FlushDirty, Occupies
<1>10. QueueCounted'
    BY QueueKept DEF FlushDirty
<1> QED
    BY <1>1, <1>2, <1>3, <1>4, <1>5, <1>6, <1>7, <1>8, <1>9, <1>10

LEMMA TakeEventsStep ==
  ASSUME Inv, TakeEvents
  PROVE  Inv'
<1> USE DEF Inv
<1>1. events = <<>> /\ flushing = {} /\ pendingAdds = {} /\ pc # "down"
    BY DEF TakeEvents, Phases
<1>2. Range(<<>>) = {} /\ IsInjective(<<>>)
    BY EmptySequence
<1>3. Range(eventQueue) \subseteq JobIds
    BY RangeOfSeq DEF TypeOK
<1>4. TypeOK'
    BY <1>1, <1>2, <1>3 DEF TakeEvents, TypeOK
<1>5. Phases'
    BY <1>1, <1>2, <1>3 DEF TakeEvents, Phases, TypeOK
<1>6. FreshIds'
    BY <1>1, <1>2, <1>3 DEF TakeEvents, FreshIds, Untouched, Stored
<1>7. Handover'
    BY <1>1, <1>2, <1>3 DEF TakeEvents, Handover, Stored
<1>8. Places'
    BY <1>1, <1>2, <1>3 DEF TakeEvents, Places, Placed, Stored
<1>9. FailuresCounted'
    BY <1>1, <1>2, <1>3
       DEF TakeEvents, FailuresCounted, Counted, Exhausted, Stored
<1>10. LagIsDirty'
    BY <1>1, <1>2, <1>3 DEF TakeEvents, LagIsDirty, Stored
<1>11. CancelsPending'
    BY <1>1, <1>2, <1>3 DEF TakeEvents, CancelsPending
<1>12. SlotsAccounted'
    BY <1>1, <1>2, <1>3, SlotsKept DEF TakeEvents, Occupies
<1>13. QueueCounted'
    BY <1>1, <1>2, <1>3, QueueKept DEF TakeEvents
<1> QED
    BY <1>4, <1>5, <1>6, <1>7, <1>8, <1>9, <1>10, <1>11, <1>12, <1>13

LEMMA SubmitJobStep ==
  ASSUME Inv, NEW r \in Requests, SubmitJob(r)
  PROVE  Inv'
<1> USE DEF Inv
<1>1. pc # "down" /\ nextJobid \in JobIds /\ Untouched(nextJobid)
    BY DEF SubmitJob, Interleaved, FreshIds, TypeOK, JobIds
<1>2. /\ eventQueue' \in Seq(JobIds)
      /\ Range(eventQueue') = Range(eventQueue) \cup {nextJobid}
      /\ IsInjective(eventQueue')
    BY <1>1, AppendToQueue DEF SubmitJob, TypeOK, Handover, Untouched
<1>3. TypeOK'
  <2>1. nextJobid' \in Nat \ {0} /\ eventQueue' \in Seq(JobIds)
      BY <1>1, <1>2 DEF SubmitJob, TypeOK
  <2>2. /\ req' \in [JobIds -> Requests] /\ failures' \in [JobIds -> Nat]
        /\ status' \in [JobIds -> Statuses \cup {Absent}]
        /\ wakeup' \in BOOLEAN
      BY <1>1 DEF SubmitJob, TypeOK, Statuses
  <2> QED
      BY <2>1, <2>2 DEF SubmitJob, TypeOK
<1>4. Phases'
    BY <1>1 DEF SubmitJob, Phases
<1>5. FreshIds'
    BY <1>1, <1>2 DEF SubmitJob, FreshIds, Untouched, Stored, TypeOK, JobIds
<1>6. Handover'
    BY <1>1, <1>2 DEF SubmitJob, Handover, Untouched, Stored, TypeOK
<1>7. Places'
    BY <1>1, <1>2 DEF SubmitJob, Places, Placed, Untouched, Stored, TypeOK,
                      Terminal, Absent
<1>8. FailuresCounted'
  <2> SUFFICES ASSUME NEW j \in JobIds PROVE Counted(j)'
      BY DEF FailuresCounted
  <2>1. CASE j = nextJobid
    <3>1. /\ failures'[j] = 0 /\ row'[j] = Absent /\ co'[j] = "none"
          /\ req'[j].worktype \in WorkTypes
        BY <1>1, <2>1, RequestsAssumption
           DEF SubmitJob, Untouched, TypeOK, Stored
    <3>2. ~Exhausted(req'[j].worktype, 0)
        BY <3>1, BoundsAssumption DEF Exhausted
    <3> QED
        BY <3>1, <3>2 DEF Counted, Exhausted, Stored, Absent
  <2>2. CASE j # nextJobid
    <3>1. /\ failures'[j] = failures[j] /\ status'[j] = status[j]
          /\ req'[j] = req[j] /\ UNCHANGED <<row, rowFailures, co>>
        BY <1>1, <2>2 DEF SubmitJob, TypeOK
    <3>2. Counted(j)
        BY DEF FailuresCounted
    <3> QED
        BY <3>1, <3>2 DEF Counted, Exhausted, Stored
  <2> QED
      BY <2>1, <2>2
<1>9. LagIsDirty'
    BY <1>1 DEF SubmitJob, LagIsDirty, Untouched, Stored, TypeOK
<1>10. CancelsPending'
    BY <1>1 DEF SubmitJob, CancelsPending, Untouched, TypeOK
<1>11. SlotsAccounted'
  <2>1. \A j \in JobIds : /\ Occupies(j)' <=> Occupies(j)
                          /\ Occupies(j) => req'[j] = req[j]
      BY <1>1 DEF SubmitJob, Occupies, Untouched, TypeOK, Absent
  <2> QED
      BY <2>1, SlotsKept DEF SubmitJob
<1>12. QueueCounted'
  <2>1. \A j \in jobQueue : req'[j] = req[j]
      BY <1>1 DEF SubmitJob, Untouched, TypeOK
  <2> QED
      BY <2>1, QueueKept DEF SubmitJob
<1> QED
    BY <1>3, <1>4, <1>5, <1>6, <1>7, <1>8, <1>9, <1>10, <1>11, <1>12

LEMMA HandleEventStep ==
  ASSUME Inv, HandleEvent
  PROVE  Inv'
<1> USE DEF Inv
<1> DEFINE id == Head(events)
<1>1. /\ id \in JobIds /\ events' \in Seq(JobIds)
      /\ Range(events) = {id} \cup Range(events')
      /\ IsInjective(events') /\ id \notin Range(events')
    BY TakeFromQueue DEF HandleEvent, TypeOK, Handover
<1>2. /\ id \notin Stored /\ status[id] = "SUBMITTED" /\ co[id] = "none"
      /\ id \notin jobQueue \cup dirty \cup flushing \cup pendingAdds
      /\ id \notin Range(eventQueue) /\ pc = "events" /\ pc' = "events"
      /\ id < nextJobid
    BY <1>1 DEF HandleEvent, Handover, FreshIds, Untouched, TypeOK, JobIds
<1> HIDE DEF id
<1>3. UNCHANGED <<tableVars, req, failures, nextJobid, eventQueue, dirty,
                  slotVars, flushing, co, cancelling, cancelled>>
    BY DEF HandleEvent
<1>4. CASE Duplicate(id)
  <2>1. /\ status' = [status EXCEPT ![id] = Absent]
        /\ UNCHANGED <<queueVars, pendingAdds>>
      BY <1>4 DEF HandleEvent, id
  <2>2. TypeOK'
      BY <1>1, <2>1 DEF HandleEvent, TypeOK
  <2>3. Phases'
      BY <1>2 DEF Phases
  <2>4. FreshIds'
      BY <1>1, <1>2, <1>3, <2>1 DEF FreshIds, Untouched, Stored, TypeOK
  <2>5. Handover'
      BY <1>1, <1>2, <1>3, <2>1 DEF Handover, Stored, TypeOK
  <2>6. Places'
      BY <1>1, <1>2, <1>3, <2>1 DEF Places, Placed, Stored, TypeOK, Absent
  <2>7. FailuresCounted'
    <3> SUFFICES ASSUME NEW j \in JobIds PROVE Counted(j)'
        BY DEF FailuresCounted
    <3>1. /\ status'[j] \in {"SUBMITTED", "RUNNING"} => status'[j] = status[j]
          /\ status'[j] # Absent => status[j] # Absent
        BY <1>1, <1>2, <2>1 DEF TypeOK, Absent
    <3>2. Counted(j)
        BY DEF FailuresCounted
    <3> QED
        BY <1>3, <3>1, <3>2 DEF Counted, Exhausted, Stored
  <2>8. LagIsDirty'
      BY <1>2, <1>3, <2>1 DEF LagIsDirty, Stored, TypeOK
  <2>9. CancelsPending'
      BY <1>3 DEF CancelsPending
  <2>10. SlotsAccounted'
    <3>1. \A j \in JobIds : Occupies(j)' <=> Occupies(j)
        BY <1>1, <1>2, <1>3, <2>1 DEF Occupies, TypeOK, Absent
    <3> QED
        BY <1>3, <3>1, SlotsKept
  <2>11. QueueCounted'
      BY <1>3, <2>1, QueueKept
  <2> QED
      BY <2>2, <2>3, <2>4, <2>5, <2>6, <2>7, <2>8, <2>9, <2>10, <2>11
<1>5. CASE ~Duplicate(id)
  <2>1. AddJob(id) /\ pendingAdds' = pendingAdds \cup {id} /\ UNCHANGED status
      BY <1>5 DEF HandleEvent, id
  <2>2. jobQueue' = jobQueue \cup {id}
      BY <2>1 DEF AddJob
  <2>3. TypeOK'
    <3>1. KeyOf(id) \in TaskKeys /\ waiting \in [TaskKeys -> Nat]
        BY <1>1, KeyOfIsKey DEF TypeOK
    <3>2. waiting' \in [TaskKeys -> Nat]
        BY <2>1, <3>1 DEF AddJob
    <3> QED
        BY <1>1, <2>1, <2>2, <3>2 DEF HandleEvent, TypeOK
  <2>4. Phases'
      BY <1>2 DEF Phases
  <2>5. FreshIds'
      BY <1>1, <1>2, <1>3, <2>1, <2>2
         DEF FreshIds, Untouched, Stored, TypeOK, JobIds
  <2>6. Handover'
      BY <1>1, <1>2, <1>3, <2>1, <2>2 DEF Handover, Stored, TypeOK
  <2>7. Places'
      BY <1>1, <1>2, <1>3, <2>1, <2>2 DEF Places, Placed, Stored, TypeOK
  <2>8. FailuresCounted'
      BY <1>3, <2>1 DEF FailuresCounted, Counted, Exhausted, Stored
  <2>9. LagIsDirty'
      BY <1>2, <1>3, <2>1 DEF LagIsDirty, Stored, TypeOK
  <2>10. CancelsPending'
      BY <1>3 DEF CancelsPending
  <2>11. SlotsAccounted'
      BY <1>3, <2>1, SlotsKept DEF Occupies
  <2>12. QueueCounted'
      BY <1>1, <1>2, <1>3, <2>1, QueueGrown
  <2> QED
      BY <2>3, <2>4, <2>5, <2>6, <2>7, <2>8, <2>9, <2>10, <2>11, <2>12
<1> QED
    BY <1>4, <1>5

LEMMA SetupStep ==
  ASSUME Inv, Setup
  PROVE  Inv'
<1> USE DEF Inv
<1>1. /\ events = <<>> /\ replies = {} /\ pendingAdds = {} /\ flushing = {}
      /\ eventQueue = <<>> /\ dirty = {} /\ cancelled = {}
      /\ \A id \in JobIds : status[id] = Absent /\ co[id] = "none"
    BY DEF Setup, Phases
<1>2. /\ UNCHANGED <<rowFailures, req, eventQueue, dirty, slotVars, events,
                     pendingAdds, flushing, co, cancelled>>
      /\ pc' = "loop" /\ jobQueue' = Unfinished
    BY DEF Setup
<1>3. /\ row \in [JobIds -> Statuses \cup {Absent}]
      /\ rowFailures \in [JobIds -> Nat]
      /\ Unfinished \in SUBSET JobIds
    BY DEF TypeOK, Unfinished
<1>4. \A id \in JobIds :
        /\ id \in Unfinished => row'[id] = "SUBMITTED" /\ status'[id] = "SUBMITTED"
                                /\ failures'[id] = rowFailures[id]
        /\ id \notin Unfinished => row'[id] = row[id] /\ status'[id] = Absent
    BY DEF Setup, HydratedFailures
<1>5. Range(<<>>) = {} /\ IsInjective(<<>>)
    BY EmptySequence
<1>6. Stored' = Stored
    BY <1>3, <1>4 DEF Stored, Unfinished, Absent
<1>7. TypeOK'
  <2>1. \A k \in TaskKeys :
          Cardinality({id \in Unfinished : KeyOf(id) = k}) \in Nat
    <3> SUFFICES ASSUME NEW k \in TaskKeys
                 PROVE  Cardinality({id \in Unfinished : KeyOf(id) = k}) \in Nat
        OBVIOUS
    <3>1. {id \in Unfinished : KeyOf(id) = k} \in SUBSET JobIds
        BY <1>3
    <3> QED
        BY <3>1, JobIdsFinite
  <2>2. waiting' \in [TaskKeys -> Nat]
      BY <2>1 DEF Setup
  <2>3. nextJobid' \in Nat \ {0}
      BY FirstFreeIdIsFree, BoundsAssumption DEF Setup
  <2>4. /\ row' \in [JobIds -> Statuses \cup {Absent}]
        /\ status' \in [JobIds -> Statuses \cup {Absent}]
      BY <1>3 DEF Setup, Statuses
  <2>5. failures' \in [JobIds -> Nat]
      BY <1>3 DEF Setup, HydratedFailures
  <2> QED
      BY <1>2, <1>3, <2>2, <2>3, <2>4, <2>5 DEF Setup, TypeOK
<1>8. Phases'
    BY <1>1, <1>2 DEF Setup, Phases
<1>9. FreshIds'
  <2> SUFFICES ASSUME NEW id \in JobIds, id >= nextJobid' PROVE Untouched(id)'
      BY DEF FreshIds
  <2>1. id \notin Stored
      BY FirstFreeIdIsFree, BoundsAssumption DEF Setup, JobIds
  <2>2. id \notin Unfinished
      BY <2>1 DEF Stored, Unfinished, Absent
  <2> QED
      BY <1>1, <1>2, <1>4, <1>5, <1>6, <2>1, <2>2 DEF Untouched
<1>10. Handover'
    BY <1>1, <1>2, <1>5 DEF Handover
<1>11. Places'
  <2> SUFFICES ASSUME NEW id \in JobIds PROVE Placed(id)'
      BY DEF Places
  <2>1. id \in Unfinished => id \in Stored
      BY DEF Unfinished, Stored, Absent
  <2> QED
      BY <1>1, <1>2, <1>4, <1>6, <2>1 DEF Placed, Terminal, Absent
<1>12. FailuresCounted'
  <2> SUFFICES ASSUME NEW id \in JobIds PROVE Counted(id)'
      BY DEF FailuresCounted
  <2>1. Counted(id) /\ rowFailures[id] \in Nat
      BY <1>3 DEF FailuresCounted
  <2>2. CASE id \in Unfinished
      BY <1>2, <1>4, <2>1, <2>2 DEF Counted, Unfinished, Exhausted
  <2>3. CASE id \notin Unfinished
      BY <1>1, <1>2, <1>4, <2>1, <2>3 DEF Counted, Exhausted, Absent
  <2> QED
      BY <2>2, <2>3
<1>13. LagIsDirty'
    BY <1>2, <1>4, <1>6 DEF LagIsDirty, Stored
<1>14. CancelsPending'
    BY <1>1, <1>2 DEF CancelsPending
<1>15. SlotsAccounted'
  <2>1. \A id \in JobIds : Occupies(id)' <=> Occupies(id)
      BY <1>1, <1>2, <1>4 DEF Occupies, Absent
  <2> QED
      BY <1>2, <2>1, SlotsKept
<1>16. QueueCounted'
  <2>1. \A k \in TaskKeys : QueueOf(k)' = {id \in Unfinished : KeyOf(id) = k}
      BY <1>2 DEF QueueOf, KeyOf
  <2> QED
      BY <2>1 DEF Setup, QueueCounted
<1> QED
    BY <1>7, <1>8, <1>9, <1>10, <1>11, <1>12, <1>13, <1>14, <1>15, <1>16

LEMMA CrashStep ==
  ASSUME Inv, Crash
  PROVE  Inv'
<1> USE DEF Inv
<1>1. Range(<<>>) = {} /\ IsInjective(<<>>)
    BY EmptySequence
<1>2. TypeOK'
  <2>1. req' \in [JobIds -> Requests]
      BY RequestsAssumption DEF Crash, TypeOK, AnyRequest
  <2>2. eventQueue' \in Seq(JobIds) /\ events' \in Seq(JobIds)
      BY DEF Crash
  <2>3. /\ status' \in [JobIds -> Statuses \cup {Absent}]
        /\ failures' \in [JobIds -> Nat]
        /\ waiting' \in [TaskKeys -> Nat] /\ running' \in [TaskKeys -> Nat]
        /\ taskWorkCounts' \in [TaskKeys -> Nat]
        /\ workCounts' \in [WorkTypes -> Nat]
        /\ co' \in [JobIds -> {"none", "starting", "running", "exiting", "failed",
                               "interrupted"}]
      BY DEF Crash
  <2>4. /\ row' \in [JobIds -> Statuses \cup {Absent}]
        /\ rowFailures' \in [JobIds -> Nat] /\ nextJobid' \in Nat \ {0}
        /\ expired' \subseteq JobIds /\ crashes' \in Nat
      BY DEF Crash, TypeOK
  <2>5. /\ cancelled' \subseteq Tasks /\ taskCancels' \subseteq Tasks
        /\ answered' \subseteq JobIds \X Requests
        /\ wakeup' \in BOOLEAN /\ todo' \subseteq WorkTypes
        /\ pc' \in {"down", "loop", "events", "schedule", "wait"}
      BY DEF Crash, TypeOK
  <2>6. /\ dirty' \subseteq JobIds /\ flushing' \subseteq JobIds
        /\ replies' \subseteq JobIds /\ pendingAdds' \subseteq JobIds
        /\ jobQueue' \subseteq JobIds /\ cancelling' \subseteq JobIds
      BY DEF Crash
  <2> QED
      BY <2>1, <2>2, <2>3, <2>4, <2>5, <2>6 DEF TypeOK
<1>3. Phases' /\ FreshIds' /\ CancelsPending' /\ Handover'
    BY <1>1 DEF Crash, Phases, FreshIds, CancelsPending, Handover
<1>4. Places'
    BY DEF Crash, Places, Placed, Stored, Absent, Terminal
<1>5. FailuresCounted'
  <2> SUFFICES ASSUME NEW id \in JobIds PROVE Counted(id)'
      BY DEF FailuresCounted
  <2>1. Counted(id)
      BY DEF FailuresCounted
  <2>2. row' = row /\ rowFailures' = rowFailures /\ status'[id] = Absent
        /\ co'[id] = "none" /\ (id \in Stored => req'[id] = req[id])
      BY DEF Crash
  <2> QED
      BY <2>1, <2>2 DEF Counted, Exhausted, Stored, Absent
<1>6. LagIsDirty'
    BY DEF Crash, LagIsDirty, Stored
<1>7. SlotsAccounted'
  <2>1. \A id \in JobIds : ~Occupies(id)'
      BY DEF Crash, Occupies, Absent
  <2>2. \A k \in TaskKeys : Holders(k)' = {}
      BY <2>1 DEF Holders
  <2>3. \A w \in WorkTypes : HoldersOf(w)' = {}
      BY <2>1 DEF HoldersOf
  <2> QED
      BY <2>2, <2>3, FS_EmptySet DEF Crash, SlotsAccounted, Holders, HoldersOf
<1>8. QueueCounted'
  <2>1. \A k \in TaskKeys : QueueOf(k)' = {}
      BY DEF Crash, QueueOf
  <2> QED
      BY <2>1, FS_EmptySet DEF Crash, QueueCounted
<1> QED
    BY <1>2, <1>3, <1>4, <1>5, <1>6, <1>7, <1>8

LEMMA DispatchStep ==
  ASSUME Inv, NEW key \in TaskKeys, Dispatch(key)
  PROVE  Inv'
<1> USE DEF Inv
<1>1. PICK id \in Heads(key) :
        /\ jobQueue' = jobQueue \ {id}
        /\ waiting' = [waiting EXCEPT ![key] = @ - 1]
        /\ dirty' = dirty \cup {id}
        /\ \/ /\ status' = [status EXCEPT ![id] = "EXPIRED"]
              /\ UNCHANGED <<co, slotVars>>
           \/ /\ status' = [status EXCEPT ![id] = "CANCELLED"]
              /\ UNCHANGED <<co, slotVars>>
           \/ /\ req[id].task \notin cancelled
              /\ Kickoff(id)
    BY DEF Dispatch
<1>2. /\ id \in jobQueue /\ id \in JobIds /\ KeyOf(id) = key
    BY DEF Heads, QueueOf, TypeOK
<1>3. /\ pc = "schedule" /\ pendingAdds = {} /\ waiting[key] > 0
      /\ UNCHANGED <<tableVars, req, failures, nextJobid, eventQueue, wakeup, pc,
                     loopVars, cancelling, cancelled, envVars>>
    BY DEF Dispatch, Phases
<1>4. /\ status[id] = "SUBMITTED" /\ co[id] = "none" /\ id \in Stored
      /\ ~Exhausted(req[id].worktype, failures[id])
      /\ row[id] \notin Terminal
    BY <1>2, <1>3 DEF Places, Placed, FailuresCounted, Counted, Absent, Terminal
<1>5. /\ status'[id] \in {"EXPIRED", "CANCELLED", "RUNNING"}
      /\ co'[id] # "none" => status'[id] = "RUNNING" /\ co'[id] = "starting"
                             /\ req[id].task \notin cancelled
      /\ \A j \in JobIds \ {id} : status'[j] = status[j] /\ co'[j] = co[j]
    BY <1>1, <1>2, <1>4 DEF Kickoff, TypeOK
<1>6. id < nextJobid /\ id \notin Range(eventQueue) \cup Range(events)
    BY <1>2, <1>3, <1>4 DEF FreshIds, Untouched, Handover, JobIds, TypeOK
<1>7. TypeOK'
  <2>1. status' \in [JobIds -> Statuses \cup {Absent}]
      BY <1>1, <1>2 DEF Kickoff, TypeOK, Statuses, Terminal
  <2>2. co' \in [JobIds -> {"none", "starting", "running", "exiting", "failed",
                            "interrupted"}]
      BY <1>1, <1>2 DEF Kickoff, TypeOK
  <2>3. waiting' \in [TaskKeys -> Nat]
      BY <1>1, <1>3 DEF TypeOK
  <2>4. /\ running' \in [TaskKeys -> Nat] /\ taskWorkCounts' \in [TaskKeys -> Nat]
        /\ workCounts' \in [WorkTypes -> Nat]
    <3>1. /\ KeyOf(id) \in TaskKeys /\ KeyOf(id)[2] \in WorkTypes
          /\ running \in [TaskKeys -> Nat] /\ taskWorkCounts \in [TaskKeys -> Nat]
          /\ workCounts \in [WorkTypes -> Nat]
        BY <1>2, KeyOfIsKey DEF TypeOK
    <3> QED
        BY <1>1, <3>1 DEF Kickoff
  <2> QED
      BY <1>1, <1>2, <1>3, <2>1, <2>2, <2>3, <2>4 DEF TypeOK
<1>8. Phases'
    BY <1>1, <1>3 DEF Phases
<1>9. FreshIds'
    BY <1>1, <1>2, <1>3, <1>5, <1>6
       DEF FreshIds, Untouched, Stored, JobIds, TypeOK
<1>10. Handover'
  <2>1. Range(eventQueue) \subseteq JobIds /\ Range(events) \subseteq JobIds
      BY RangeOfSeq DEF TypeOK
  <2> QED
      BY <1>1, <1>2, <1>3, <1>5, <1>6, <2>1 DEF Handover, Stored
<1>11. Places'
  <2> SUFFICES ASSUME NEW j \in JobIds PROVE Placed(j)'
      BY DEF Places
  <2>1. Placed(j)
      BY DEF Places
  <2>2. CASE j = id
      BY <1>1, <1>3, <1>4, <1>5, <2>2 DEF Placed, Stored, Absent
  <2>3. CASE j # id
      BY <1>1, <1>3, <1>5, <2>1, <2>3 DEF Placed, Stored
  <2> QED
      BY <2>2, <2>3
<1>12. FailuresCounted'
  <2> SUFFICES ASSUME NEW j \in JobIds PROVE Counted(j)'
      BY DEF FailuresCounted
  <2>1. Counted(j)
      BY DEF FailuresCounted
  <2>2. CASE j = id
      BY <1>3, <1>4, <2>1, <2>2 DEF Counted, Exhausted, Stored, Absent
  <2>3. CASE j # id
      BY <1>3, <1>5, <2>1, <2>3 DEF Counted, Exhausted, Stored
  <2> QED
      BY <2>2, <2>3
<1>13. LagIsDirty'
    BY <1>1, <1>3, <1>5 DEF LagIsDirty, Stored
<1>14. CancelsPending'
    BY <1>3, <1>5 DEF CancelsPending
<1>15. SlotsAccounted'
  <2>1. ~Occupies(id)
      BY <1>4 DEF Occupies
  <2>2. \A j \in JobIds \ {id} : Occupies(j)' <=> Occupies(j)
      BY <1>5 DEF Occupies
  <2>3. CASE UNCHANGED <<co, slotVars>> /\ status'[id] # "RUNNING"
    <3>1. ~Occupies(id)'
        BY <1>4, <2>3 DEF Occupies
    <3> QED
        BY <1>3, <2>1, <2>2, <2>3, <3>1, SlotsKept
  <2>4. CASE Kickoff(id)
    <3>1. Occupies(id)'
        BY <1>2, <2>4 DEF Occupies, Kickoff, TypeOK
    <3>2. KeyOf(id)[2] = req[id].worktype
        BY DEF KeyOf
    <3> QED
        BY <1>2, <1>3, <2>1, <2>2, <2>4, <3>1, <3>2, SlotsAdded DEF Kickoff
  <2> QED
      BY <1>1, <1>2, <2>3, <2>4 DEF TypeOK
<1>16. QueueCounted'
    BY <1>1, <1>2, <1>3, QueueShrunk
<1> QED
    BY <1>7, <1>8, <1>9, <1>10, <1>11, <1>12, <1>13, <1>14, <1>15, <1>16

\* What done() makes of the job, whichever way its coroutine ended.
DoneFacts(id) ==
  /\ status'[id] \in {"DONE", "FAILED", "CANCELLED", "SUBMITTED"}
  /\ failures'[id] \in Nat /\ failures'[id] >= failures[id]
  /\ jobQueue \subseteq jobQueue' /\ jobQueue' \subseteq jobQueue \cup {id}
  /\ id \in jobQueue' <=> status'[id] = "SUBMITTED"
  /\ dirty \subseteq dirty' /\ dirty' \subseteq dirty \cup {id}
  /\ id \in dirty' \/ (status'[id] = status[id] /\ failures'[id] = failures[id])
  /\ row[id] \in Terminal => status'[id] = row[id]
  /\ status'[id] = "SUBMITTED" => ~Exhausted(req[id].worktype, failures'[id])

LEMMA DoneStep ==
  ASSUME Inv, NEW id \in JobIds, Done(id)
  PROVE  Inv'
<1> USE DEF Inv
<1>1. /\ UNCHANGED <<tableVars, req, nextJobid, eventQueue, pc, loopVars,
                     cancelled, envVars>>
      /\ co' = [co EXCEPT ![id] = "none"]
      /\ cancelling' = cancelling \ {id}
      /\ wakeup' = TRUE
      /\ running' = [running EXCEPT ![KeyOf(id)] = @ - 1]
      /\ workCounts' = [workCounts EXCEPT ![req[id].worktype] = @ - 1]
      /\ taskWorkCounts' = [taskWorkCounts EXCEPT ![KeyOf(id)] = @ - 1]
    BY DEF Done
<1>2. /\ co[id] \in {"exiting", "failed", "interrupted"} /\ pc # "down"
      /\ id \in Stored /\ Occupies(id)
      /\ co[id] = "exiting" => status[id] = "DONE"
      /\ co[id] # "exiting" => status[id] = "RUNNING" /\ row[id] \notin Terminal
      /\ row[id] \in Terminal => row[id] = status[id]
    BY DEF Done, Interleaved, Places, Placed, Occupies, Terminal, Absent
<1>3. /\ id \notin jobQueue /\ id \notin pendingAdds /\ id < nextJobid
      /\ id \notin Range(eventQueue) \cup Range(events)
    BY <1>2 DEF Places, Placed, FreshIds, Untouched, Handover, JobIds, TypeOK
<1>4. /\ \A j \in JobIds \ {id} : /\ status'[j] = status[j]
                                  /\ failures'[j] = failures[j]
                                  /\ co'[j] = co[j]
      /\ co'[id] = "none"
      /\ status' \in [JobIds -> Statuses \cup {Absent}]
      /\ failures' \in [JobIds -> Nat]
  <2>1. /\ status \in [JobIds -> Statuses \cup {Absent}]
        /\ failures \in [JobIds -> Nat] /\ failures[id] + 1 \in Nat
        /\ co \in [JobIds -> {"none", "starting", "running", "exiting",
                              "failed", "interrupted"}]
      BY DEF TypeOK
  <2>2. \/ UNCHANGED status
        \/ \E s \in Statuses : status' = [status EXCEPT ![id] = s]
      BY DEF Done, Statuses, Terminal
  <2>3. \/ UNCHANGED failures
        \/ failures' = [failures EXCEPT ![id] = failures[id] + 1]
      BY DEF Done
  <2> QED
      BY <1>1, <2>1, <2>2, <2>3
<1>5. /\ DoneFacts(id)
      /\ \/ UNCHANGED queueVars
         \/ AddJob(id)
  <2> DEFINE n == failures[id] + 1
  <2>1. failures[id] \in Nat /\ n \in Nat /\ n >= failures[id]
      BY DEF TypeOK
  <2>2. CASE /\ co[id] = "exiting"
             /\ UNCHANGED <<status, failures, queueVars, dirty>>
      BY <1>2, <1>3, <2>1, <2>2 DEF DoneFacts
  <2>3. CASE /\ co[id] = "failed" /\ Exhausted(req[id].worktype, n)
             /\ failures' = [failures EXCEPT ![id] = n]
             /\ status' = [status EXCEPT ![id] = "FAILED"]
             /\ dirty' = dirty \cup {id}
             /\ UNCHANGED queueVars
    <3>1. status'[id] = "FAILED" /\ failures'[id] = n
        BY <2>3 DEF TypeOK
    <3> HIDE DEF n
    <3> QED
        BY <1>2, <1>3, <2>1, <2>3, <3>1 DEF DoneFacts
  <2>4. CASE /\ co[id] = "failed" /\ ~Exhausted(req[id].worktype, n)
             /\ failures' = [failures EXCEPT ![id] = n]
             /\ status' = [status EXCEPT ![id] = "SUBMITTED"]
             /\ dirty' = dirty \cup {id}
             /\ AddJob(id)
    <3>1. status'[id] = "SUBMITTED" /\ failures'[id] = n
        BY <2>4 DEF TypeOK
    <3>2. jobQueue' = jobQueue \cup {id}
        BY <2>4 DEF AddJob
    <3> HIDE DEF n
    <3> QED
        BY <1>2, <1>3, <2>1, <2>4, <3>1, <3>2 DEF DoneFacts
  <2>5. CASE /\ co[id] = "interrupted"
             /\ status' = [status EXCEPT ![id] = "CANCELLED"]
             /\ dirty' = dirty \cup {id}
             /\ UNCHANGED <<failures, queueVars>>
    <3>1. status'[id] = "CANCELLED"
        BY <2>5 DEF TypeOK
    <3> QED
        BY <1>2, <1>3, <2>1, <2>5, <3>1 DEF DoneFacts
  <2>6. CASE /\ co[id] = "interrupted"
             /\ status' = [status EXCEPT ![id] = "SUBMITTED"]
             /\ dirty' = dirty \cup {id}
             /\ AddJob(id)
             /\ UNCHANGED failures
    <3>1. status'[id] = "SUBMITTED"
        BY <2>6 DEF TypeOK
    <3>2. jobQueue' = jobQueue \cup {id}
        BY <2>6 DEF AddJob
    <3>3. ~Exhausted(req[id].worktype, failures[id])
        BY <1>2 DEF FailuresCounted, Counted
    <3> QED
        BY <1>2, <1>3, <2>1, <2>6, <3>1, <3>2, <3>3 DEF DoneFacts
  <2> QED
      BY <2>2, <2>3, <2>4, <2>5, <2>6 DEF Done
<1>6. TypeOK'
  <2>1. /\ running[KeyOf(id)] > 0 /\ taskWorkCounts[KeyOf(id)] > 0
        /\ workCounts[req[id].worktype] > 0
        /\ KeyOf(id) \in TaskKeys /\ req[id].worktype \in WorkTypes
      BY <1>2, HolderCounted, KeyOfIsKey
  <2>2. /\ running' \in [TaskKeys -> Nat] /\ taskWorkCounts' \in [TaskKeys -> Nat]
        /\ workCounts' \in [WorkTypes -> Nat]
    <3>1. /\ running \in [TaskKeys -> Nat] /\ taskWorkCounts \in [TaskKeys -> Nat]
          /\ workCounts \in [WorkTypes -> Nat]
        BY DEF TypeOK
    <3> HIDE DEF Inv
    <3>2. running' \in [TaskKeys -> Nat]
        BY <1>1, <2>1, <3>1, CountDown
    <3>3. taskWorkCounts' \in [TaskKeys -> Nat]
        BY <1>1, <2>1, <3>1, CountDown
    <3>4. workCounts' \in [WorkTypes -> Nat]
        BY <1>1, <2>1, <3>1, CountDown
    <3> QED
        BY <3>2, <3>3, <3>4
  <2>3. waiting' \in [TaskKeys -> Nat]
    <3>1. waiting \in [TaskKeys -> Nat]
        BY DEF TypeOK
    <3> QED
        BY <1>5, <2>1, <3>1 DEF AddJob
  <2>4. /\ jobQueue' \subseteq JobIds /\ dirty' \subseteq JobIds
        /\ cancelling' \subseteq JobIds
        /\ co' \in [JobIds -> {"none", "starting", "running", "exiting", "failed",
                               "interrupted"}]
      BY <1>1, <1>5 DEF DoneFacts, TypeOK
  <2> QED
      BY <1>1, <1>4, <2>2, <2>3, <2>4 DEF TypeOK
<1>7. Phases'
    BY <1>1, <1>2 DEF Phases
<1>8. FreshIds'
    BY <1>1, <1>3, <1>4, <1>5
       DEF DoneFacts, FreshIds, Untouched, Stored, TypeOK,
                                  JobIds
<1>9. Handover'
  <2>1. Range(eventQueue) \subseteq JobIds /\ Range(events) \subseteq JobIds
      BY RangeOfSeq DEF TypeOK
  <2> QED
      BY <1>1, <1>3, <1>4, <1>5, <2>1 DEF DoneFacts, Handover, Stored
<1>10. Places'
  <2> SUFFICES ASSUME NEW j \in JobIds PROVE Placed(j)'
      BY DEF Places
  <2>1. Placed(j)
      BY DEF Places
  <2>2. CASE j = id
      BY <1>1, <1>2, <1>3, <1>4, <1>5, <2>2
         DEF DoneFacts, Placed, Stored, Absent
  <2>3. CASE j # id
      BY <1>1, <1>4, <1>5, <2>1, <2>3 DEF DoneFacts, Placed, Stored
  <2> QED
      BY <2>2, <2>3
<1>11. FailuresCounted'
  <2> SUFFICES ASSUME NEW j \in JobIds PROVE Counted(j)'
      BY DEF FailuresCounted
  <2>1. /\ Counted(j)
        /\ rowFailures[j] \in Nat /\ failures[j] \in Nat
      BY DEF FailuresCounted, TypeOK
  <2>2. CASE j = id
    <3>1. status[id] # Absent
        BY <1>2 DEF Absent
    <3> QED
        BY <1>1, <1>2, <1>4, <1>5, <2>1, <2>2, <3>1
           DEF DoneFacts, Counted, Exhausted, Stored
  <2>3. CASE j # id
      BY <1>1, <1>4, <2>1, <2>3 DEF Counted, Exhausted, Stored
  <2> QED
      BY <2>2, <2>3
<1>12. LagIsDirty'
  <2> SUFFICES ASSUME NEW j \in Stored, status'[j] # Absent
               PROVE  \/ row[j] = status'[j] /\ rowFailures[j] = failures'[j]
                      \/ j \in dirty' \cup flushing \cup pendingAdds
      BY <1>1 DEF LagIsDirty, Stored
  <2>1. j \in JobIds
      BY DEF Stored
  <2>2. CASE j = id
      BY <1>2, <1>5, <2>2 DEF DoneFacts, LagIsDirty, Absent
  <2>3. CASE j # id
      BY <1>4, <1>5, <2>1, <2>3 DEF DoneFacts, LagIsDirty
  <2> QED
      BY <2>2, <2>3
<1>13. CancelsPending'
    BY <1>1, <1>4 DEF CancelsPending
<1>14. SlotsAccounted'
  <2>1. ~Occupies(id)' /\ \A j \in JobIds \ {id} : Occupies(j)' <=> Occupies(j)
      BY <1>4, <1>5 DEF DoneFacts, Occupies
  <2> QED
      BY <1>1, <1>2, <2>1, SlotsReturned
<1>15. QueueCounted'
    BY <1>1, <1>3, <1>5, QueueKept, QueueGrown
<1> QED
    BY <1>6, <1>7, <1>8, <1>9, <1>10, <1>11, <1>12, <1>13, <1>14, <1>15

-----------------------------------------------------------------------------
(***************************************************************************)
(* The invariant holds in every reachable state.                           *)
(***************************************************************************)
LEMMA InvInit ==
  ASSUME Init
  PROVE  Inv
<1>1. Range(<<>>) = {} /\ IsInjective(<<>>)
    BY EmptySequence
<1>2. TypeOK
  <2>1. AnyRequest \in Requests
      BY RequestsAssumption DEF AnyRequest
  <2>2. /\ row \in [JobIds -> Statuses \cup {Absent}]
        /\ rowFailures \in [JobIds -> Nat]
        /\ req \in [JobIds -> Requests]
        /\ status \in [JobIds -> Statuses \cup {Absent}]
        /\ failures \in [JobIds -> Nat]
        /\ co \in [JobIds -> {"none", "starting", "running", "exiting", "failed",
                              "interrupted"}]
      BY <2>1 DEF Init
  <2>3. /\ waiting \in [TaskKeys -> Nat] /\ running \in [TaskKeys -> Nat]
        /\ taskWorkCounts \in [TaskKeys -> Nat]
        /\ workCounts \in [WorkTypes -> Nat]
      BY DEF Init
  <2>4. eventQueue \in Seq(JobIds) /\ events \in Seq(JobIds)
      BY DEF Init
  <2>5. nextJobid \in Nat \ {0} /\ crashes \in Nat
      BY DEF Init
  <2>7. pc \in {"down", "loop", "events", "schedule", "wait"}
      BY DEF Init
  <2>8. wakeup \in BOOLEAN
      BY DEF Init
  <2>6. /\ dirty \subseteq JobIds /\ flushing \subseteq JobIds
        /\ replies \subseteq JobIds /\ pendingAdds \subseteq JobIds
        /\ jobQueue \subseteq JobIds /\ cancelling \subseteq JobIds
        /\ expired \subseteq JobIds /\ todo \subseteq WorkTypes
        /\ cancelled \subseteq Tasks /\ taskCancels \subseteq Tasks
        /\ answered \subseteq JobIds \X Requests
      BY DEF Init
  <2> QED
      BY <2>2, <2>3, <2>4, <2>5, <2>6, <2>7, <2>8 DEF TypeOK
<1>3. Stored = {}
    BY DEF Init, Stored
<1>4. Phases /\ FreshIds /\ Handover /\ CancelsPending
    BY <1>1, <1>3 DEF Init, Phases, FreshIds, Handover, CancelsPending
<1>5. Places
    BY <1>3 DEF Init, Places, Placed, Absent, Terminal
<1>6. FailuresCounted
    BY <1>3 DEF Init, FailuresCounted, Counted, Absent
<1>7. LagIsDirty
    BY <1>3 DEF LagIsDirty
<1>8. SlotsAccounted
  <2>1. \A id \in JobIds : ~Occupies(id)
      BY DEF Init, Occupies, Absent
  <2>2. \A k \in TaskKeys : Holders(k) = {}
      BY <2>1 DEF Holders
  <2>3. \A w \in WorkTypes : HoldersOf(w) = {}
      BY <2>1 DEF HoldersOf
  <2> QED
      BY <2>2, <2>3, FS_EmptySet DEF Init, SlotsAccounted, Holders, HoldersOf
<1>9. QueueCounted
  <2>1. \A k \in TaskKeys : QueueOf(k) = {}
      BY DEF Init, QueueOf
  <2> QED
      BY <2>1, FS_EmptySet DEF Init, QueueCounted
<1> QED
    BY <1>2, <1>4, <1>5, <1>6, <1>7, <1>8, <1>9 DEF Inv

LEMMA InvStep ==
  ASSUME Inv, [Next]_vars
  PROVE  Inv'
<1>1. ASSUME NEW r \in Requests, SubmitJob(r) PROVE Inv'
    BY <1>1, SubmitJobStep
<1>2. ASSUME \/ \E t \in Tasks : RequestCancel(t) \/ CancelTasks(t)
             \/ \E id \in JobIds : Expire(id)
             \/ UNCHANGED vars
      PROVE  Inv'
    BY <1>2, EnvironmentSteps
<1>3. ASSUME LoopStep PROVE Inv'
    BY <1>3, SetupStep, TakeEventsStep, HandleEventStep, CommitAddsStep,
       FlushDirtyStep, DispatchStep, EnvironmentSteps DEF LoopStep
<1>4. ASSUME NEW id \in JobIds, CoStep(id) PROVE Inv'
    BY <1>4, BeginStep, CancelBeforeBeginStep, SucceedStep, FailStep,
       InterruptStep, DoneStep DEF CoStep, Leave
<1>5. ASSUME Crash PROVE Inv'
    BY <1>5, CrashStep
<1> QED
    BY <1>1, <1>2, <1>3, <1>4, <1>5 DEF Next

\* Everything below is a consequence of this: the inductive invariant holds
\* for any tasks, worktypes, requests, limits and bounds.
THEOREM SafetyOfWorkDB == Spec => []Inv
<1>1. Init => Inv
    BY InvInit
<1>2. Inv /\ [Next]_vars => Inv'
    BY InvStep
<1> QED
    BY <1>1, <1>2, PTL DEF Spec

-----------------------------------------------------------------------------
(***************************************************************************)
(* The state properties.                                                   *)
(***************************************************************************)
\* Every variable keeps its type.
THEOREM TypeCorrect == Spec => []TypeOK
<1>1. Inv => TypeOK
    BY DEF Inv
<1> QED
    BY <1>1, SafetyOfWorkDB, PTL

\* work_counts, task_work_counts and Scheduler.running count the jobs that
\* are RUNNING or leaving, over retries, cancellations and restarts.
THEOREM SlotsNeverDrift == Spec => []SlotsAccounted
<1>1. Inv => SlotsAccounted
    BY DEF Inv
<1> QED
    BY <1>1, SafetyOfWorkDB, PTL

\* The scheduler knows the size of every heap, and a SUBMITTED job is in its
\* heap or on its way there.
THEOREM QueuesNeverDrift == Spec => []QueueAccounted
<1>1. Inv => QueueAccounted
  <2> SUFFICES ASSUME Inv PROVE QueueAccounted
      OBVIOUS
  <2>1. Range(eventQueue) \subseteq JobIds /\ Range(events) \subseteq JobIds
      BY RangeOfSeq DEF Inv, TypeOK
  <2> QED
      BY <2>1 DEF Inv, QueueAccounted, QueueCounted, Places, Placed, Handover
<1> QED
    BY <1>1, SafetyOfWorkDB, PTL

\* A callback runs only for a committed unfinished row that is not queued a
\* second time and has an attempt left.
THEOREM CallbacksAreCovered == Spec => []RunsAreCovered
<1>1. Inv => RunsAreCovered
    BY DEF Inv, RunsAreCovered, Places, Placed, FailuresCounted, Counted,
           Terminal, Absent
<1> QED
    BY <1>1, SafetyOfWorkDB, PTL

\* A row that lags behind its job in memory is due to be written.
THEOREM NoLagIsForgotten == Spec => []LagIsDirty
<1>1. Inv => LagIsDirty
    BY DEF Inv
<1> QED
    BY <1>1, SafetyOfWorkDB, PTL

\* The books of schedule_step are right.
THEOREM BooksAreRight == Spec => []Accounted
BY TypeCorrect, SlotsNeverDrift, QueuesNeverDrift, PTL DEF Accounted

\* A callback has its row, and a row that lags is due to be written.
THEOREM RowsCoverCallbacks == Spec => []Covered
BY CallbacksAreCovered, NoLagIsForgotten, PTL DEF Covered

-----------------------------------------------------------------------------
(***************************************************************************)
(* The action properties.                                                  *)
(***************************************************************************)
\* A write puts into the table what a job in memory says, and only for jobs
\* that are on their way there.
LEMMA TableSteps ==
  ASSUME Inv, [Next]_vars, NEW id \in JobIds
  PROVE  \/ row'[id] = row[id] /\ rowFailures'[id] = rowFailures[id]
         \/ /\ row[id] \in {"SUBMITTED", "RUNNING"} /\ row'[id] = "SUBMITTED"
            /\ rowFailures'[id] = rowFailures[id]
         \/ /\ id \in pendingAdds \cup (flushing \cap Stored)
            /\ row'[id] = status[id] /\ rowFailures'[id] = failures[id]
<1>1. CASE UNCHANGED tableVars
    BY <1>1
<1>2. CASE Setup
    BY <1>2 DEF Setup, Unfinished
<1>3. CASE CommitAdds
    BY <1>3 DEF CommitAdds, Write
<1>4. CASE FlushDirty
    BY <1>4 DEF FlushDirty, Write
<1>5. CASE \E r \in Requests : SubmitJob(r)
    BY <1>1, <1>5 DEF SubmitJob
<1>6. CASE \E t \in Tasks : RequestCancel(t) \/ CancelTasks(t)
    BY <1>1, <1>6 DEF RequestCancel, CancelTasks
<1>7. CASE \E j \in JobIds : Expire(j)
    BY <1>1, <1>7 DEF Expire
<1>8. CASE TakeEvents \/ HandleEvent \/ AnswerCallers \/ AwaitWakeup
    BY <1>1, <1>8 DEF TakeEvents, HandleEvent, AnswerCallers, AwaitWakeup
<1>9. CASE \E key \in TaskKeys : Dispatch(key)
    BY <1>1, <1>9 DEF Dispatch
<1>10. CASE \E w \in WorkTypes : LeaveWorkType(w)
    BY <1>1, <1>10 DEF LeaveWorkType
<1>11. CASE \E j \in JobIds : CoStep(j)
    BY <1>1, <1>11 DEF CoStep, Leave, Begin, CancelBeforeBegin, Succeed, Fail,
                       Interrupt, Done, coOnly
<1>12. CASE Crash
    BY <1>1, <1>12 DEF Crash
<1>13. CASE UNCHANGED vars
    BY <1>1, <1>13 DEF vars
<1> QED
    BY <1>2, <1>3, <1>4, <1>5, <1>6, <1>7, <1>8, <1>9, <1>10, <1>11, <1>12,
       <1>13 DEF Next, LoopStep

\* A settled row never changes again.
THEOREM SettledRowsStay == Spec => SettledForGood
<1>1. Inv /\ [Next]_vars =>
        [\A id \in JobIds : row[id] \in Terminal => row'[id] = row[id]]_vars
  <2> SUFFICES ASSUME Inv, [Next]_vars, NEW id \in JobIds, row[id] \in Terminal
               PROVE  row'[id] = row[id]
      OBVIOUS
  <2>1. /\ row[id] \notin {"SUBMITTED", "RUNNING", Absent} /\ id \in Stored
      BY DEF Terminal, Stored, Absent
  <2>2. /\ id \in pendingAdds => id \notin Stored
        /\ id \in flushing => status[id] # Absent
        /\ status[id] \in {Absent, row[id]}
      BY DEF Inv, Places, Placed
  <2> QED
      BY <2>1, <2>2, TableSteps
<1> QED
    BY <1>1, SafetyOfWorkDB, PTL DEF Spec, SettledForGood

\* The number of failures a row records never falls.
THEOREM FailuresNeverForgotten == Spec => FailuresOnlyGrow
<1>1. Inv /\ [Next]_vars =>
        [\A id \in Stored : rowFailures'[id] >= rowFailures[id]]_vars
  <2> SUFFICES ASSUME Inv, [Next]_vars, NEW id \in Stored
               PROVE  rowFailures'[id] >= rowFailures[id]
      OBVIOUS
  <2>1. id \in JobIds /\ rowFailures[id] \in Nat /\ failures[id] \in Nat
      BY DEF Inv, TypeOK, Stored
  <2>2. /\ id \notin pendingAdds
        /\ id \in flushing => status[id] # Absent
      BY <2>1 DEF Inv, Places, Placed
  <2>3. id \in flushing => rowFailures[id] <= failures[id]
      BY <2>1, <2>2 DEF Inv, FailuresCounted, Counted
  <2> QED
      BY <2>1, <2>2, <2>3, TableSteps
<1> QED
    BY <1>1, SafetyOfWorkDB, PTL DEF Spec, FailuresOnlyGrow

\* A step leaves a row in the table, and its work as it is.
LEMMA RowsStay ==
  ASSUME Inv, [Next]_vars, NEW id \in Stored
  PROVE  row'[id] # Absent /\ req'[id] = req[id]
<1>1. id \in JobIds /\ row[id] # Absent
    BY DEF Stored
<1>2. row'[id] # Absent
  <2>1. /\ id \notin pendingAdds
        /\ id \in flushing => status[id] # Absent
      BY <1>1 DEF Inv, Places, Placed
  <2> QED
      BY <1>1, <2>1, TableSteps DEF Absent
<1>3. CASE UNCHANGED req
    BY <1>2, <1>3
<1>4. ASSUME NEW r \in Requests, SubmitJob(r) PROVE req'[id] = req[id]
  <2>1. id # nextJobid
      BY <1>4 DEF Inv, FreshIds, Untouched, SubmitJob, Interleaved, JobIds
  <2> QED
      BY <1>1, <1>4, <2>1 DEF SubmitJob, Inv, TypeOK
<1>5. CASE Crash
    BY <1>1, <1>5 DEF Crash
<1>6. \/ UNCHANGED req
      \/ \E r \in Requests : SubmitJob(r)
      \/ Crash
    BY DEF Next, vars, LoopStep, CoStep, Leave, RequestCancel, CancelTasks,
           Expire, Setup, TakeEvents, HandleEvent, CommitAdds, FlushDirty,
           AnswerCallers, AwaitWakeup, Dispatch, LeaveWorkType, Begin,
           CancelBeforeBegin, Succeed, Fail, Interrupt, Done, coOnly
<1> QED
    BY <1>2, <1>3, <1>4, <1>5, <1>6

\* No rowid is handed out twice: a row keeps the work it was inserted with.
THEOREM RowsKeepTheirWork == Spec => RowIdentity
<1>1. Inv /\ [Next]_vars =>
        [\A id \in Stored : row'[id] # Absent /\ req'[id] = req[id]]_vars
    BY RowsStay
<1> QED
    BY <1>1, SafetyOfWorkDB, PTL DEF Spec, RowIdentity

\* The table only moves forward.
THEOREM RowsOnlyMoveForward == Spec => RowsMoveForward
BY SettledRowsStay, RowsKeepTheirWork, FailuresNeverForgotten DEF RowsMoveForward

\* After cancel_tasks no callback of the task is entered any more.
THEOREM CancelledTasksStayOut == Spec => NoEntryAfterCancel
<1>1. Inv /\ [Next]_vars =>
        [\A id \in JobIds : co[id] = "starting" /\ co'[id] = "running" =>
           req[id].task \notin cancelled]_vars
  <2> SUFFICES ASSUME Inv, [Next]_vars, NEW id \in JobIds,
                      co[id] = "starting", co'[id] = "running"
               PROVE  req[id].task \notin cancelled
      OBVIOUS
  <2>1. UNCHANGED co \/ (\E key \in TaskKeys : Dispatch(key))
          \/ (\E j \in JobIds : CoStep(j)) \/ Crash
      BY DEF Next, vars, LoopStep, SubmitJob, RequestCancel, CancelTasks,
             Expire, Setup, TakeEvents, HandleEvent, CommitAdds, FlushDirty,
             AnswerCallers, AwaitWakeup, LeaveWorkType
  <2>2. ~Crash
      BY DEF Crash
  <2>3. ASSUME NEW key \in TaskKeys, Dispatch(key) PROVE FALSE
      BY <2>3 DEF Dispatch, Kickoff, Inv, TypeOK
  <2>4. ASSUME NEW j \in JobIds, CoStep(j) PROVE Begin(id)
      BY <2>4 DEF CoStep, Leave, Begin, CancelBeforeBegin, Succeed, Fail,
                  Interrupt, Done, coOnly, Inv, TypeOK
  <2>5. Begin(id)
      BY <2>1, <2>2, <2>3, <2>4
  <2> QED
      BY <2>5 DEF Begin, Inv, CancelsPending
<1> QED
    BY <1>1, SafetyOfWorkDB, PTL DEF Spec, NoEntryAfterCancel

-----------------------------------------------------------------------------
(***************************************************************************)
(* The limits of a worktype.                                               *)
(***************************************************************************)
\* The counters stay within the limits schedule_step compares them with.
CountersWithin ==
  /\ \A w \in WorkTypes : workCounts[w] <= Limit[w]
  /\ \A k \in TaskKeys : taskWorkCounts[k] <= BatchLimit[k[2]]

LEMMA CountersStep ==
  ASSUME Inv, CountersWithin, [Next]_vars
  PROVE  CountersWithin'
<1>1. /\ Limit \in [WorkTypes -> Nat \ {0}]
      /\ BatchLimit \in [WorkTypes -> Nat \ {0}]
      /\ workCounts \in [WorkTypes -> Nat]
      /\ taskWorkCounts \in [TaskKeys -> Nat]
      /\ \A k \in TaskKeys : k[2] \in WorkTypes
    BY BoundsAssumption DEF Inv, TypeOK, TaskKeys
<1>2. CASE UNCHANGED <<workCounts, taskWorkCounts>>
    BY <1>2 DEF CountersWithin
<1>3. ASSUME NEW key \in TaskKeys, Dispatch(key) PROVE CountersWithin'
  <2>1. /\ workCounts[key[2]] < Limit[key[2]]
        /\ taskWorkCounts[key] < BatchLimit[key[2]]
      BY <1>3 DEF Dispatch, SlotFree
  <2>2. \/ UNCHANGED <<workCounts, taskWorkCounts>>
        \/ /\ workCounts' = [workCounts EXCEPT ![key[2]] = @ + 1]
           /\ taskWorkCounts' = [taskWorkCounts EXCEPT ![key] = @ + 1]
      BY <1>3 DEF Dispatch, Heads, QueueOf, Kickoff
  <2>3. CASE /\ workCounts' = [workCounts EXCEPT ![key[2]] = @ + 1]
             /\ taskWorkCounts' = [taskWorkCounts EXCEPT ![key] = @ + 1]
    <3>1. \A w \in WorkTypes : workCounts'[w] <= Limit[w]
        BY <1>1, <2>1, <2>3 DEF CountersWithin
    <3>2. \A k \in TaskKeys : taskWorkCounts'[k] <= BatchLimit[k[2]]
        BY <1>1, <2>1, <2>3 DEF CountersWithin
    <3> QED
        BY <3>1, <3>2 DEF CountersWithin
  <2> QED
      BY <1>2, <2>2, <2>3
<1>4. ASSUME NEW id \in JobIds, Done(id) PROVE CountersWithin'
  <2>1. /\ workCounts' = [workCounts EXCEPT ![req[id].worktype] = @ - 1]
        /\ taskWorkCounts' = [taskWorkCounts EXCEPT ![KeyOf(id)] = @ - 1]
      BY <1>4 DEF Done
  <2>2. \A w \in WorkTypes : workCounts'[w] <= Limit[w]
      BY <1>1, <2>1 DEF CountersWithin
  <2>3. \A k \in TaskKeys : taskWorkCounts'[k] <= BatchLimit[k[2]]
      BY <1>1, <2>1 DEF CountersWithin
  <2> QED
      BY <2>2, <2>3 DEF CountersWithin
<1>5. CASE Crash
    BY <1>1, <1>5 DEF Crash, CountersWithin
<1>6. \/ UNCHANGED <<workCounts, taskWorkCounts>>
      \/ \E key \in TaskKeys : Dispatch(key)
      \/ \E id \in JobIds : Done(id)
      \/ Crash
    BY DEF Next, vars, LoopStep, CoStep, Leave, SubmitJob, RequestCancel,
           CancelTasks, Expire, Setup, TakeEvents, HandleEvent, CommitAdds,
           FlushDirty, AnswerCallers, AwaitWakeup, LeaveWorkType, Begin,
           CancelBeforeBegin, Succeed, Fail, Interrupt, coOnly
<1> QED
    BY <1>2, <1>3, <1>4, <1>5, <1>6

\* No more callbacks of a worktype run at once than its limit, and no more of
\* one task than the batch size.
THEOREM LimitsAreKept == Spec => []LimitsRespected
<1>1. Init => CountersWithin
    BY BoundsAssumption DEF Init, CountersWithin, TaskKeys
<1>2. Inv /\ CountersWithin /\ [Next]_vars => CountersWithin'
    BY CountersStep
<1>3. Inv /\ CountersWithin => LimitsRespected
  <2> SUFFICES ASSUME Inv, CountersWithin PROVE LimitsRespected
      OBVIOUS
  <2>1. \A S, T \in SUBSET JobIds :
          S \subseteq T => Cardinality(S) <= Cardinality(T)
      BY JobIdsFinite, FS_Subset
  <2>2. \A id \in JobIds : co[id] # "none" => Occupies(id)
      BY DEF Inv, Places, Placed, Occupies
  <2>3. ASSUME NEW w \in WorkTypes
        PROVE  Cardinality({id \in JobIds : co[id] # "none"
                                            /\ req[id].worktype = w}) <= Limit[w]
    <3> DEFINE S == {id \in JobIds : co[id] # "none" /\ req[id].worktype = w}
    <3>1. S \subseteq HoldersOf(w) /\ HoldersOf(w) \in SUBSET JobIds
        BY <2>2 DEF HoldersOf
    <3>2. Cardinality(S) <= Cardinality(HoldersOf(w))
        BY <2>1, <3>1
    <3>3. Cardinality(HoldersOf(w)) <= Limit[w]
        BY DEF Inv, SlotsAccounted, HoldersOf, CountersWithin
    <3>4. Cardinality(S) \in Nat /\ Cardinality(HoldersOf(w)) \in Nat
          /\ Limit[w] \in Nat
        BY <3>1, JobIdsFinite, BoundsAssumption
    <3> QED
        BY <3>2, <3>3, <3>4
  <2>4. ASSUME NEW k \in TaskKeys
        PROVE  Cardinality({id \in JobIds : co[id] # "none" /\ KeyOf(id) = k})
                 <= BatchLimit[k[2]]
    <3> DEFINE S == {id \in JobIds : co[id] # "none" /\ KeyOf(id) = k}
    <3>1. S \subseteq Holders(k) /\ Holders(k) \in SUBSET JobIds
        BY <2>2 DEF Holders
    <3>2. Cardinality(S) <= Cardinality(Holders(k))
        BY <2>1, <3>1
    <3>3. Cardinality(Holders(k)) <= BatchLimit[k[2]]
        BY DEF Inv, SlotsAccounted, Holders, CountersWithin
    <3>4. Cardinality(S) \in Nat /\ Cardinality(Holders(k)) \in Nat
          /\ BatchLimit[k[2]] \in Nat
        BY <3>1, JobIdsFinite, BoundsAssumption DEF TaskKeys
    <3> QED
        BY <3>2, <3>3, <3>4
  <2> QED
      BY <2>3, <2>4 DEF LimitsRespected
<1> QED
    BY <1>1, <1>2, <1>3, SafetyOfWorkDB, PTL DEF Spec

-----------------------------------------------------------------------------
(***************************************************************************)
(* The refinement.                                                         *)
(***************************************************************************)
fates == [id \in JobIds |-> Fate(id)]
kinds == [id \in JobIds |-> IF id \in Stored THEN req[id].worktype ELSE Absent]
activeJobs == {id \in JobIds : co[id] \in {"starting", "running"}}
promiseVars == <<fates, kinds, activeJobs>>

\* JobQueue counts with an instance of its own of the library's Cardinality.
LEMMA SameCount == ASSUME NEW S PROVE Promise!Cardinality(S) = Cardinality(S)
  BY Zenon DEF Promise!Cardinality, Cardinality

LEMMA PromiseInit == Init => Promise!Init
<1> SUFFICES ASSUME Init PROVE Promise!Init
    OBVIOUS
<1>1. \A id \in JobIds : row[id] = Absent /\ co[id] = "none"
    BY DEF Init
<1>2. /\ [id \in JobIds |-> Fate(id)] = [id \in JobIds |-> "absent"]
      /\ [id \in JobIds |-> IF id \in Stored THEN req[id].worktype ELSE Absent]
           = [id \in JobIds |-> Absent]
      /\ {id \in JobIds : co[id] \in {"starting", "running"}} = {}
    BY <1>1 DEF Fate, Absent, Stored
<1> QED
    BY <1>2 DEF Promise!Init

\* Kinds change only where a row is added.
LEMMA KindsKept ==
  ASSUME Inv, [Next]_vars, NEW id \in JobIds, id \in Stored \/ row'[id] = Absent
  PROVE  kinds'[id] = kinds[id]
<1>1. CASE id \in Stored
  <2>1. row'[id] # Absent /\ req'[id] = req[id]
      BY <1>1, RowsStay
  <2> QED
      BY <1>1, <2>1 DEF kinds, Stored
<1>2. CASE id \notin Stored /\ row'[id] = Absent
    BY <1>2 DEF kinds, Stored
<1> QED
    BY <1>1, <1>2

\* Steps that write no row leave fates and kinds alone.
LEMMA TableKept ==
  ASSUME Inv, [Next]_vars, \A id \in JobIds : row'[id] = row[id]
  PROVE  fates' = fates /\ kinds' = kinds
<1>1. \A id \in JobIds : Fate(id)' = Fate(id)
    BY DEF Fate
<1>2. \A id \in JobIds : kinds'[id] = kinds[id]
    BY KindsKept DEF Stored
<1> QED
    BY <1>1, <1>2 DEF fates, kinds

\* commit_adds makes submissions durable.
LEMMA CommitAddsAccepts ==
  ASSUME Inv, CommitAdds
  PROVE  \E S \in SUBSET JobIds : Promise!Accept(S)
<1> USE DEF Inv
<1>1. [Next]_vars
    BY DEF Next, LoopStep
<1>2. \A id \in pendingAdds : /\ id \in JobIds /\ row[id] = Absent
                              /\ status[id] = "SUBMITTED"
    BY DEF TypeOK, Places, Placed, Stored
<1>3. \A id \in JobIds : row'[id] = IF id \in pendingAdds THEN "SUBMITTED" ELSE row[id]
    BY <1>2 DEF CommitAdds, Write
<1>4. \A id \in pendingAdds : fates[id] = "absent"
    BY <1>2 DEF fates, Fate, Absent
<1>5. fates' = [id \in JobIds |-> IF id \in pendingAdds THEN "open" ELSE fates[id]]
  <2>1. \A id \in JobIds : Fate(id)' = IF id \in pendingAdds THEN "open" ELSE Fate(id)
      BY <1>3 DEF Fate
  <2> QED
      BY <2>1 DEF fates
<1>6. \A id \in JobIds : IF id \in pendingAdds THEN kinds'[id] \in WorkTypes
                                               ELSE kinds'[id] = kinds[id]
  <2>1. ASSUME NEW id \in pendingAdds PROVE kinds'[id] \in WorkTypes
    <3>1. id \in JobIds /\ row'[id] # Absent /\ req' = req
        BY <1>2, <1>3 DEF CommitAdds, Absent
    <3>2. req[id].worktype \in WorkTypes
        BY <3>1, KeyOfIsKey
    <3> QED
        BY <3>1, <3>2 DEF kinds, Stored
  <2>2. ASSUME NEW id \in JobIds, id \notin pendingAdds PROVE kinds'[id] = kinds[id]
      BY <1>1, <1>3, <2>2, KindsKept DEF Stored
  <2> QED
      BY <2>1, <2>2
<1>7. DOMAIN kinds' = JobIds /\ activeJobs' = activeJobs
    BY DEF kinds, activeJobs, CommitAdds
<1>8. PICK S \in SUBSET JobIds : S = pendingAdds
    BY <1>2
<1>9. Promise!Accept(S)
    BY <1>4, <1>5, <1>6, <1>7, <1>8 DEF Promise!Accept, fates, kinds, activeJobs
<1> QED
    BY <1>9

\* A flush settles the jobs whose final status it writes.
LEMMA FlushDirtySettles ==
  ASSUME Inv, FlushDirty
  PROVE  \E S \in SUBSET JobIds : Promise!Settle(S)
<1> USE DEF Inv
<1>1. [Next]_vars
    BY DEF Next, LoopStep
<1>2. PICK chunk \in SUBSET flushing : Write(chunk \cap Stored)
    BY DEF FlushDirty
<1> DEFINE S == {id \in chunk \cap Stored :
                   status[id] \in Terminal /\ row[id] \notin Terminal}
<1>3. S \in SUBSET JobIds /\ chunk \cap Stored \subseteq JobIds
    BY DEF Stored
<1>4. \A id \in JobIds : row'[id] = IF id \in chunk \cap Stored THEN status[id]
                                                                ELSE row[id]
    BY <1>2 DEF Write
<1>5. \A id \in chunk \cap Stored :
        /\ row[id] \in Terminal => status[id] = row[id]
        /\ row[id] \in {"SUBMITTED", "RUNNING"} \cup Terminal
        /\ status[id] \in {"SUBMITTED", "RUNNING"} \cup Terminal
    BY DEF TypeOK, Places, Placed, Stored, Statuses
<1>6. \A id \in S : fates[id] = "open" /\ id \notin activeJobs
    BY <1>5 DEF fates, Fate, activeJobs, Places, Placed, Terminal, Stored
<1>7. \A id \in JobIds : Fate(id)' = IF id \in S THEN status[id] ELSE Fate(id)
    BY <1>4, <1>5 DEF Fate, Terminal
<1>8. \E outcome \in [S -> Terminal] :
        fates' = [id \in JobIds |-> IF id \in S THEN outcome[id] ELSE fates[id]]
  <2> DEFINE outcome == [id \in S |-> status[id]]
  <2>1. outcome \in [S -> Terminal]
      OBVIOUS
  <2>2. fates' = [id \in JobIds |-> IF id \in S THEN outcome[id] ELSE fates[id]]
      BY <1>7 DEF fates
  <2> QED
      BY <2>1, <2>2
<1>9. kinds' = kinds
  <2>1. \A id \in JobIds : kinds'[id] = kinds[id]
      BY <1>1, <1>4, KindsKept DEF Stored
  <2> QED
      BY <2>1 DEF kinds
<1>10. activeJobs' = activeJobs
    BY DEF activeJobs, FlushDirty
<1> HIDE DEF S
<1>11. Promise!Settle(S)
    BY <1>6, <1>8, <1>9, <1>10 DEF Promise!Settle, fates, kinds, activeJobs
<1> QED
    BY <1>3, <1>11

\* kickoff starts a job within the limit of its kind; a job that is expired or
\* cancelled is taken out of the heap without a callback.
LEMMA DispatchStarts ==
  ASSUME Inv, NEW key \in TaskKeys, Dispatch(key)
  PROVE  (\E id \in JobIds : Promise!Start(id)) \/ UNCHANGED promiseVars
<1> USE DEF Inv
<1>1. [Next]_vars
    BY DEF Next, LoopStep
<1>2. fates' = fates /\ kinds' = kinds
    BY <1>1, TableKept DEF Dispatch
<1>3. PICK id \in Heads(key) : UNCHANGED co \/ Kickoff(id)
    BY DEF Dispatch
<1>4. /\ id \in jobQueue /\ id \in JobIds /\ KeyOf(id) = key
      /\ key[2] = req[id].worktype /\ req[id].worktype \in WorkTypes
  <2>1. id \in jobQueue /\ id \in JobIds /\ KeyOf(id) = key
      BY DEF Heads, QueueOf, TypeOK
  <2> QED
      BY <2>1, KeyOfIsKey
<1>5. CASE UNCHANGED co
    BY <1>2, <1>5 DEF promiseVars, activeJobs
<1>6. CASE Kickoff(id)
  <2>1. pendingAdds = {}
      BY DEF Dispatch, Phases
  <2>2. /\ id \in Stored /\ status[id] = "SUBMITTED" /\ co[id] = "none"
        /\ row[id] \notin Terminal
      BY <1>4, <2>1 DEF Places, Placed, Terminal, Absent
  <2>3. fates[id] = "open" /\ id \notin activeJobs
      BY <1>4, <2>2 DEF fates, Fate, activeJobs, TypeOK, Statuses, Stored
  <2>4. activeJobs' = activeJobs \cup {id}
      BY <1>4, <1>6 DEF activeJobs, Kickoff, TypeOK
  <2>5. kinds[id] = req[id].worktype
      BY <1>4, <2>2 DEF kinds
  <2>6. Cardinality({i \in activeJobs : kinds[i] = kinds[id]}) < Limit[kinds[id]]
    <3> DEFINE w == req[id].worktype
               T == {i \in activeJobs : kinds[i] = kinds[id]}
    <3>1. T \subseteq HoldersOf(w)
        BY <2>5 DEF activeJobs, HoldersOf, Occupies, kinds, Places, Placed
    <3>2. HoldersOf(w) \in SUBSET JobIds
        BY DEF HoldersOf
    <3>3. /\ Cardinality(T) <= Cardinality(HoldersOf(w))
          /\ Cardinality(T) \in Nat /\ Cardinality(HoldersOf(w)) \in Nat
      <4>1. IsFiniteSet(HoldersOf(w))
          BY <3>2, JobIdsFinite
      <4> QED
          BY <3>1, <4>1, FS_Subset, FS_CardinalityType
    <3>4. Cardinality(HoldersOf(w)) < Limit[w]
        BY <1>4 DEF SlotsAccounted, HoldersOf, Dispatch, SlotFree
    <3>5. Limit[w] \in Nat
        BY <1>4, BoundsAssumption
    <3> QED
        BY <2>5, <3>3, <3>4, <3>5
  <2>7. Promise!Start(id)
    <3> USE DEF fates, kinds, activeJobs
    <3>1. Fate(id) = "open" /\ id \notin activeJobs
        BY <1>4, <2>3
    <3>2. kinds' = kinds /\ fates' = fates
        BY <1>2
    <3> QED
        BY <1>4, <2>3, <2>4, <2>6, <3>1, <3>2, SameCount DEF Promise!Start
  <2> QED
      BY <1>4, <2>7
<1> QED
    BY <1>3, <1>5, <1>6

\* A coroutine that leaves its callback, or never enters it, stops.
LEMMA CoroutineStops ==
  ASSUME Inv, NEW id \in JobIds, CoStep(id)
  PROVE  Promise!Stop(id) \/ UNCHANGED promiseVars
<1> USE DEF Inv
<1>1. [Next]_vars
    BY DEF Next
<1>2. fates' = fates /\ kinds' = kinds
  <2>1. row' = row
      BY DEF CoStep, Leave, Begin, CancelBeforeBegin, Succeed, Fail, Interrupt,
             Done, coOnly
  <2> QED
      BY <1>1, <2>1, TableKept
<1>3. \/ co[id] \in {"starting", "running"}
         /\ \E c \in {"none", "exiting", "failed", "interrupted"} :
              co' = [co EXCEPT ![id] = c]
      \/ co[id] = "starting" /\ co' = [co EXCEPT ![id] = "running"]
      \/ /\ co[id] \in {"exiting", "failed", "interrupted"}
         /\ co' = [co EXCEPT ![id] = "none"]
    BY DEF CoStep, Leave, Begin, CancelBeforeBegin, Succeed, Fail, Interrupt,
           Done
<1>4. (id \in activeJobs /\ activeJobs' = activeJobs \ {id})
        \/ activeJobs' = activeJobs
    BY <1>3 DEF activeJobs, TypeOK
<1> QED
    BY <1>2, <1>4 DEF Promise!Stop, promiseVars, fates, kinds, activeJobs

\* The process dies with all callbacks, and with nothing else that counts.
LEMMA CrashStopsAll ==
  ASSUME Inv, Crash PROVE Promise!Crash
<1>1. [Next]_vars
    BY DEF Next
<1>2. fates' = fates /\ kinds' = kinds
    BY <1>1, TableKept DEF Crash
<1>3. activeJobs' = {}
    BY DEF Crash, activeJobs
<1> QED
    BY <1>2, <1>3 DEF Promise!Crash, fates, kinds, activeJobs

\* setup puts RUNNING rows back, which are as open as before.
LEMMA SetupStutters ==
  ASSUME Inv, Setup PROVE UNCHANGED promiseVars
<1>1. [Next]_vars
    BY DEF Next, LoopStep
<1>2. \A id \in JobIds :
        /\ Fate(id)' = Fate(id)
        /\ id \in Stored \/ row'[id] = Absent
    BY DEF Setup, Fate, Unfinished, Stored, Absent
<1>3. \A id \in JobIds : kinds'[id] = kinds[id]
    BY <1>1, <1>2, KindsKept
<1>4. fates' = fates /\ kinds' = kinds /\ activeJobs' = activeJobs
    BY <1>2, <1>3 DEF fates, kinds, activeJobs, Setup
<1> QED
    BY <1>4 DEF promiseVars

\* The other steps touch neither rows nor coroutines.
LEMMA OthersStutter ==
  ASSUME Inv, [Next]_vars, UNCHANGED <<row, co>>
  PROVE  UNCHANGED promiseVars
<1>1. fates' = fates /\ kinds' = kinds
    BY TableKept
<1> QED
    BY <1>1 DEF promiseVars, activeJobs

LEMMA PromiseStep ==
  ASSUME Inv, [Next]_vars
  PROVE  Promise!Next \/ UNCHANGED promiseVars
<1>1. CASE CommitAdds
    BY <1>1, CommitAddsAccepts DEF Promise!Next
<1>2. CASE FlushDirty
    BY <1>2, FlushDirtySettles DEF Promise!Next
<1>3. CASE \E key \in TaskKeys : Dispatch(key)
    BY <1>3, DispatchStarts DEF Promise!Next
<1>4. CASE \E id \in JobIds : CoStep(id)
    BY <1>4, CoroutineStops DEF Promise!Next
<1>5. CASE Crash
    BY <1>5, CrashStopsAll DEF Promise!Next
<1>6. CASE Setup
    BY <1>6, SetupStutters
<1>7. CASE UNCHANGED <<row, co>>
    BY <1>7, OthersStutter
<1>8. \/ CommitAdds \/ FlushDirty \/ Setup \/ Crash
      \/ \E key \in TaskKeys : Dispatch(key)
      \/ \E id \in JobIds : CoStep(id)
      \/ UNCHANGED <<row, co>>
    BY DEF Next, vars, LoopStep, SubmitJob, RequestCancel, CancelTasks, Expire,
           TakeEvents, HandleEvent, AnswerCallers, AwaitWakeup, LeaveWorkType
<1> QED
    BY <1>1, <1>2, <1>3, <1>4, <1>5, <1>6, <1>7, <1>8

\* WorkDB implements the job queue: a job becomes durable once, is worked on by at most
\* one callback at a time and within the limit of its worktype, and is settled at most once,
\* over retries, cancellations, flushes and crashes.
THEOREM WorkDBIsAJobQueue == Spec => ImplementsJobQueue
<1>1. Inv /\ [Next]_vars => [Promise!Next]_(Promise!jqVars)
  <2> SUFFICES ASSUME Inv, [Next]_vars
               PROVE  Promise!Next \/ UNCHANGED Promise!jqVars
      OBVIOUS
  <2> QED
      BY PromiseStep DEF promiseVars, Promise!jqVars, fates, kinds, activeJobs
<1> QED
    BY <1>1, PromiseInit, SafetyOfWorkDB, PTL
       DEF Spec, ImplementsJobQueue, Promise!Spec

-----------------------------------------------------------------------------
(***************************************************************************)
(* Nothing that was taken in is lost.                                      *)
(***************************************************************************)
\* The table has the work of submission id: its own row, or for a unique
\* one a row that says the same.
Kept(id, r) == IF r.unique THEN \E j \in Stored : SameWork(req[j], r)
                           ELSE id \in Stored /\ req[id] = r

\* A submission whose caller still waits is on its way or in the table.
Delivered ==
  \A id \in replies : /\ id < nextJobid
                      /\ id \in Range(events) \cup pendingAdds \/ Kept(id, req[id])

LEMMA KeptStays ==
  ASSUME Inv, [Next]_vars, NEW id, NEW r, Kept(id, r) PROVE Kept(id, r)'
<1>1. \A j \in Stored : j \in Stored' /\ req'[j] = req[j]
    BY RowsStay DEF Stored
<1> QED
    BY <1>1 DEF Kept, SameWork

\* Steps that hand over no submission.
LEMMA DeliveredKept ==
  ASSUME Inv, Delivered, [Next]_vars,
         UNCHANGED <<replies, events, pendingAdds>>,
         \A id \in replies : id < nextJobid' /\ req'[id] = req[id]
  PROVE  Delivered'
  BY KeptStays DEF Delivered

LEMMA DeliveredStep ==
  ASSUME Inv, Delivered, [Next]_vars PROVE Delivered'
<1> USE DEF Inv
<1>1. replies \subseteq JobIds /\ nextJobid \in Nat /\ JobIds \subseteq Nat
    BY DEF TypeOK, JobIds
<1>2. CASE UNCHANGED <<replies, events, pendingAdds, req, nextJobid>>
  <2>1. \A id \in replies : id < nextJobid' /\ req'[id] = req[id]
      BY <1>2 DEF Delivered
  <2> QED
      BY <1>2, <2>1, DeliveredKept
<1>3. ASSUME NEW r \in Requests, SubmitJob(r) PROVE Delivered'
  <2>1. \A id \in replies : id < nextJobid' /\ req'[id] = req[id]
      BY <1>1, <1>3 DEF SubmitJob, Delivered, TypeOK
  <2> QED
      BY <1>3, <2>1, DeliveredKept DEF SubmitJob
<1>4. CASE TakeEvents
  <2>1. Range(eventQueue) \subseteq JobIds /\ pc # "down"
      BY <1>4, RangeOfSeq DEF TypeOK, TakeEvents
  <2>2. \A id \in JobIds : id >= nextJobid => id \notin Range(eventQueue)
      BY <2>1 DEF FreshIds, Untouched
  <2>3. \A id \in Range(eventQueue) : id < nextJobid
    <3> SUFFICES ASSUME NEW id \in Range(eventQueue) PROVE id < nextJobid
        OBVIOUS
    <3>1. id \in JobIds /\ id \in Nat /\ ~(id >= nextJobid)
        BY <1>1, <2>1, <2>2
    <3> QED
        BY <1>1, <3>1
  <2> QED
      BY <1>4, <2>3 DEF TakeEvents, Delivered
<1>5. CASE HandleEvent
  <2> DEFINE x == Head(events)
  <2>1. Range(events) = {x} \cup Range(events')
      BY <1>5, TakeFromQueue DEF HandleEvent, TypeOK
  <2>2. Kept(x, req[x]) \/ x \in pendingAdds'
      BY <1>5 DEF HandleEvent, Duplicate, Kept
  <2>3. \A id : Kept(id, req[id])' <=> Kept(id, req[id])
      BY <1>5 DEF HandleEvent, Kept, Stored, SameWork
  <2>4. pendingAdds \subseteq pendingAdds' /\ UNCHANGED <<replies, nextJobid>>
      BY <1>5 DEF HandleEvent
  <2> QED
      BY <2>1, <2>2, <2>3, <2>4 DEF Delivered
<1>6. CASE CommitAdds
  <2>1. \A id \in pendingAdds : id \in Stored' /\ req' = req
      BY <1>6 DEF CommitAdds, Write, Stored, TypeOK, Places, Placed, Absent
  <2>2. \A id \in pendingAdds : Kept(id, req[id])'
      BY <2>1 DEF Kept, SameWork
  <2>3. \A id : Kept(id, req[id]) => Kept(id, req[id])'
      BY <1>6, KeptStays DEF CommitAdds
  <2> QED
      BY <1>6, <2>2, <2>3 DEF CommitAdds, Delivered
<1>7. CASE AnswerCallers
    BY <1>7 DEF AnswerCallers, Delivered
<1>8. CASE Crash
    BY <1>8 DEF Crash, Delivered
<1>9. CASE Setup
    BY <1>9 DEF Setup, Phases, Delivered
<1> QED
    BY <1>2, <1>3, <1>4, <1>5, <1>6, <1>7, <1>8, <1>9
       DEF Next, vars, LoopStep, CoStep, Leave, RequestCancel, CancelTasks,
           Expire, FlushDirty, AwaitWakeup, Dispatch, LeaveWorkType, Begin,
           CancelBeforeBegin, Succeed, Fail, Interrupt, Done, coOnly

\* A submission is answered when everything that was handed over is committed, and a
\* committed row stays: so an answer is never taken back, by no crash.
THEOREM AnswersAreDurable == Spec => []AnsweredIsDurable
<1>1. Init => Delivered /\ AnsweredIsDurable
    BY DEF Init, Delivered, AnsweredIsDurable
<1>2. Inv /\ Delivered /\ AnsweredIsDurable /\ [Next]_vars
        => Delivered' /\ AnsweredIsDurable'
  <2> SUFFICES ASSUME Inv, Delivered, AnsweredIsDurable, [Next]_vars
               PROVE  AnsweredIsDurable'
      BY DeliveredStep
  <2>1. \A a \in answered : Kept(a[1], a[2])
      BY DEF AnsweredIsDurable, Kept
  <2>2. \A a \in answered : Kept(a[1], a[2])'
      BY <2>1, KeptStays
  <2>3. \A a \in answered' : Kept(a[1], a[2])'
    <3>1. CASE answered' = answered
        BY <2>2, <3>1
    <3>2. CASE AnswerCallers
      <4>1. \A id \in replies : Kept(id, req[id])
          BY <3>2, EmptySequence DEF AnswerCallers, Delivered
      <4>2. \A id \in replies : Kept(id, req[id])'
          BY <3>2, <4>1, KeptStays DEF AnswerCallers
      <4>3. /\ answered' = answered \cup {<<id, req[id]>> : id \in replies}
            /\ req' = req
          BY <3>2 DEF AnswerCallers
      <4> QED
          BY <2>2, <4>2, <4>3 DEF Kept
    <3> QED
        BY <3>1, <3>2
           DEF Next, vars, LoopStep, CoStep, Leave, SubmitJob, RequestCancel,
               CancelTasks, Expire, Setup, TakeEvents, HandleEvent, CommitAdds,
               FlushDirty, AwaitWakeup, Dispatch, LeaveWorkType, Begin,
               CancelBeforeBegin, Succeed, Fail, Interrupt, Done, coOnly, Crash
  <2> QED
      BY <2>3 DEF AnsweredIsDurable, Kept
<1> QED
    BY <1>1, <1>2, SafetyOfWorkDB, PTL DEF Spec

\* Why schedule_step would leave a worktype.
Exhaustive(w) ==
  \/ workCounts[w] = Limit[w]
  \/ \A t \in Tasks : waiting[<<t, w>>] = 0
  \/ \E t \in Tasks : /\ waiting[<<t, w>>] > 0
                      /\ taskWorkCounts[<<t, w>>] >= BatchLimit[w]

\* schedule_step has left every worktype for a reason that still holds, and
\* what came in since the queues were swapped has set wakeup.
Attentive ==
  /\ eventQueue # <<>> => wakeup
  /\ pc = "schedule" => \A w \in WorkTypes \ todo : Exhaustive(w)
  /\ pc = "wait" /\ ~wakeup => \A w \in WorkTypes : Exhaustive(w)

LEMMA AttentiveStep ==
  ASSUME Inv, CountersWithin, Attentive, [Next]_vars PROVE Attentive'
<1> USE DEF Inv
<1>1. CASE UNCHANGED <<eventQueue, wakeup, pc, todo, slotVars, waiting>>
    BY <1>1 DEF Attentive, Exhaustive
<1>2. CASE wakeup' /\ pc # "schedule" /\ pc' = pc
    BY <1>2 DEF Attentive
<1>3. CASE /\ UNCHANGED <<eventQueue, wakeup>>
           /\ pc' \in {"loop", "events"}
    BY <1>3 DEF Attentive
<1>4. CASE TakeEvents
    BY <1>4 DEF TakeEvents, Attentive
<1>5. CASE AnswerCallers
    BY <1>5 DEF AnswerCallers, Attentive
<1>6. ASSUME NEW key \in TaskKeys, Dispatch(key) PROVE Attentive'
  <2>1. /\ UNCHANGED <<eventQueue, wakeup, pc, todo>> /\ pc = "schedule"
        /\ key[2] \in todo
      BY <1>6 DEF Dispatch
  <2>2. ASSUME NEW w \in WorkTypes \ todo PROVE Exhaustive(w)'
    <3>1. w # key[2] /\ \A t \in Tasks : <<t, w>> # key
        BY <2>1
    <3>2. /\ workCounts'[w] = workCounts[w]
          /\ \A t \in Tasks : /\ waiting'[<<t, w>>] = waiting[<<t, w>>]
                              /\ taskWorkCounts'[<<t, w>>] = taskWorkCounts[<<t, w>>]
        BY <1>6, <3>1 DEF Dispatch, Kickoff, Heads, QueueOf, TypeOK, TaskKeys
    <3> QED
        BY <2>1, <3>2 DEF Attentive, Exhaustive
  <2> QED
      BY <2>1, <2>2 DEF Attentive
<1>7. ASSUME NEW w \in WorkTypes, LeaveWorkType(w) PROVE Attentive'
  <2>1. Exhaustive(w)
    <3>1. /\ workCounts[w] \in Nat /\ Limit[w] \in Nat
          /\ workCounts[w] <= Limit[w]
        BY BoundsAssumption DEF TypeOK, CountersWithin
    <3> QED
        BY <1>7, <3>1 DEF LeaveWorkType, SlotFree, Exhaustive
  <2>2. /\ UNCHANGED <<eventQueue, wakeup, pc, slotVars, waiting>>
        /\ pc = "schedule" /\ todo' = todo \ {w}
      BY <1>7 DEF LeaveWorkType
  <2> QED
      BY <2>1, <2>2 DEF Attentive, Exhaustive
<1>8. CASE AwaitWakeup
    BY <1>8 DEF AwaitWakeup, Attentive, Exhaustive
<1>9. CASE Crash
    BY <1>9 DEF Crash, Attentive
<1>10. \/ UNCHANGED <<eventQueue, wakeup, pc, todo, slotVars, waiting>>
       \/ wakeup' /\ pc # "schedule" /\ pc' = pc
       \/ UNCHANGED <<eventQueue, wakeup>> /\ pc' \in {"loop", "events"}
       \/ TakeEvents \/ AnswerCallers \/ AwaitWakeup \/ Crash
       \/ \E key \in TaskKeys : Dispatch(key)
       \/ \E w \in WorkTypes : LeaveWorkType(w)
    BY DEF Next, vars, LoopStep, CoStep, Leave, SubmitJob, Interleaved,
           RequestCancel, CancelTasks, Expire, Setup, HandleEvent, CommitAdds,
           FlushDirty, Begin, CancelBeforeBegin, Succeed, Fail, Interrupt, Done,
           coOnly
<1> QED
    BY <1>1, <1>2, <1>3, <1>4, <1>5, <1>6, <1>7, <1>8, <1>9, <1>10

\* The loop never sleeps on a submission, nor on work it could start.
THEOREM LoopIsWokenUp == Spec => []NoLostWakeup
<1>1. Init => CountersWithin /\ Attentive
  <2>1. Init => CountersWithin
      BY BoundsAssumption DEF Init, CountersWithin, TaskKeys
  <2>2. Init => Attentive
      BY DEF Init, Attentive
  <2> QED
      BY <2>1, <2>2
<1>2. Inv /\ CountersWithin /\ Attentive /\ [Next]_vars
        => CountersWithin' /\ Attentive'
    BY CountersStep, AttentiveStep
<1>3. Attentive => NoLostWakeup
    BY DEF Attentive, NoLostWakeup, Exhaustive
<1> QED
    BY <1>1, <1>2, <1>3, SafetyOfWorkDB, PTL DEF Spec

\* Of two submissions with the same work the later one, if unique, was made
\* when the earlier one had already been handled.
Single ==
  /\ pendingAdds \cup Range(events) \subseteq replies
  /\ \A i \in InFlight : i < nextJobid
  /\ \A i \in InFlight, j \in InFlight \cup Stored :
       i < j /\ req[j].unique => ~SameWork(req[i], req[j])
  /\ \A i \in Stored, j \in pendingAdds :
       i < j /\ req[j].unique => ~SameWork(req[i], req[j])
  /\ UniqueRows

\* Steps by which no submission moves.
LEMMA SingleKept ==
  ASSUME Inv, Single, [Next]_vars,
         UNCHANGED <<eventQueue, replies, events, pendingAdds, req, nextJobid>>,
         Stored' = Stored
  PROVE  Single'
  BY DEF Single, InFlight, UniqueRows, SameWork

LEMMA SingleStep ==
  ASSUME AwaitingCallers, Inv, Single, [Next]_vars PROVE Single'
<1> USE DEF Inv
<1>1. /\ InFlight \subseteq JobIds /\ Stored \subseteq JobIds
      /\ JobIds \subseteq Nat /\ nextJobid \in Nat
  <2>1. Range(eventQueue) \subseteq JobIds
      BY RangeOfSeq DEF TypeOK
  <2>2. JobIds \subseteq Nat
      BY BoundsAssumption DEF JobIds
  <2> QED
      BY <2>1, <2>2 DEF InFlight, Stored, TypeOK
<1>2. CASE /\ UNCHANGED <<eventQueue, replies, events, pendingAdds, req, nextJobid>>
           /\ \A id \in JobIds : row'[id] # Absent <=> row[id] # Absent
    BY <1>2, SingleKept DEF Stored
<1>3. ASSUME NEW r \in Requests, SubmitJob(r) PROVE Single'
  <2> DEFINE n == nextJobid
  <2>1. /\ n \in JobIds /\ n \notin Stored /\ n \notin InFlight
        /\ \A id \in Stored : id < n
    <3>1. pc # "down" /\ n \in JobIds
        BY <1>3 DEF SubmitJob, Interleaved
    <3>2. \A id \in JobIds : id >= n => id \notin Stored
        BY <3>1 DEF FreshIds, Untouched
    <3>3. \A id \in InFlight : id < n
        BY DEF Single
    <3> QED
        BY <1>1, <3>1, <3>2, <3>3
  <2>2. InFlight' = InFlight \cup {n}
      BY <1>3, <2>1, AppendToQueue DEF SubmitJob, InFlight, TypeOK
  <2>3. /\ Stored' = Stored /\ nextJobid' = n + 1 /\ req'[n] = r
        /\ \A id \in JobIds : id # n => req'[id] = req[id]
        /\ UNCHANGED <<pendingAdds, events, replies>>
      BY <1>3, <2>1 DEF SubmitJob, Stored, TypeOK
  <2>4. r.unique => \A id \in InFlight : ~SameWork(req[id], r)
      BY <1>3 DEF SubmitJob
  <2>5. pendingAdds \cup Range(events) \subseteq InFlight
      BY DEF Single, InFlight
  <2> HIDE DEF n
  <2>6. \A i \in InFlight' : i < nextJobid'
    <3>1. n \in Nat /\ n < n + 1
        BY <1>1 DEF n
    <3>2. \A i \in InFlight : i \in Nat /\ i < n
        BY <1>1 DEF Single, n
    <3>3. \A i \in InFlight : i < n + 1
        BY <3>1, <3>2
    <3> QED
        BY <2>2, <2>3, <3>1, <3>3
  <2>7. \A i \in InFlight', j \in InFlight' \cup Stored' :
          i < j /\ req'[j].unique => ~SameWork(req'[i], req'[j])
    <3> SUFFICES ASSUME NEW i \in InFlight', NEW j \in InFlight' \cup Stored',
                        i < j, req'[j].unique
                 PROVE  ~SameWork(req'[i], req'[j])
        OBVIOUS
    <3>1. i # n
      <4>1. j \in Nat /\ (j < n \/ j = n) /\ n \in Nat
          BY <1>1, <2>1, <2>2, <2>3 DEF Single, n
      <4> QED
          BY <4>1
    <3>2. CASE j = n
        BY <1>1, <2>2, <2>3, <2>4, <3>1, <3>2
    <3>3. CASE j # n
        BY <1>1, <2>2, <2>3, <3>1, <3>3 DEF Single
    <3> QED
        BY <3>2, <3>3
  <2>8. \A id \in Stored \cup pendingAdds : req'[id] = req[id]
      BY <1>1, <2>1, <2>3, <2>5
  <2> QED
      BY <2>3, <2>6, <2>7, <2>8 DEF Single, UniqueRows, SameWork
<1>4. CASE TakeEvents
  <2>1. pendingAdds = {} /\ Range(eventQueue) \subseteq InFlight
      BY <1>4 DEF TakeEvents, Phases, InFlight
  <2>2. InFlight' = Range(eventQueue)
      BY <1>4, EmptySequence DEF TakeEvents, InFlight
  <2>3. UNCHANGED <<req, pendingAdds, nextJobid>> /\ Stored' = Stored
      BY <1>4 DEF TakeEvents, Stored
  <2>4. Range(events') \subseteq replies'
      BY <1>4 DEF TakeEvents
  <2> QED
      BY <2>1, <2>2, <2>3, <2>4 DEF Single, UniqueRows, SameWork
<1>5. CASE HandleEvent
  <2> DEFINE x == Head(events)
  <2>1. Range(events) = {x} \cup Range(events')
      BY <1>5, TakeFromQueue DEF HandleEvent, TypeOK
  <2>2. /\ UNCHANGED <<eventQueue, replies, req, nextJobid>> /\ Stored' = Stored
        /\ InFlight' = InFlight
      BY <1>5 DEF HandleEvent, Stored, InFlight
  <2>3. \/ pendingAdds' = pendingAdds
        \/ pendingAdds' = pendingAdds \cup {x} /\ ~Duplicate(x)
      BY <1>5 DEF HandleEvent
  <2> HIDE DEF x
  <2>4. ~Duplicate(x) /\ req[x].unique => \A i \in Stored : ~SameWork(req[i], req[x])
      BY DEF Duplicate
  <2> QED
      BY <2>1, <2>2, <2>3, <2>4 DEF Single, UniqueRows, SameWork
<1>6. CASE CommitAdds
  <2>1. Stored' = Stored \cup pendingAdds
      BY <1>6 DEF CommitAdds, Write, Stored, TypeOK, Places, Placed, Absent
  <2>2. /\ UNCHANGED <<eventQueue, replies, events, req, nextJobid>>
        /\ pendingAdds' = {} /\ InFlight' = InFlight
      BY <1>6 DEF CommitAdds, InFlight
  <2>3. pendingAdds \subseteq InFlight
      BY DEF Single, InFlight
  <2>4. UniqueRows'
      BY <2>1, <2>2, <2>3 DEF Single, UniqueRows, SameWork
  <2> QED
      BY <2>1, <2>2, <2>3, <2>4 DEF Single, SameWork
<1>7. CASE AnswerCallers
  <2>1. /\ InFlight' \subseteq InFlight /\ Stored' = Stored
        /\ pendingAdds' = {} /\ Range(events') = {}
        /\ UNCHANGED <<req, nextJobid>>
      BY <1>7, EmptySequence DEF AnswerCallers, InFlight, Stored
  <2> QED
      BY <2>1 DEF Single, UniqueRows, SameWork
<1>8. CASE Crash
  <2>1. InFlight' = {} /\ pendingAdds' = {} /\ Range(events') = {}
      BY <1>8, EmptySequence DEF Crash, InFlight
  <2>2. Stored' = Stored /\ \A id \in Stored : req'[id] = req[id]
      BY <1>8 DEF Crash, Stored
  <2> QED
      BY <2>1, <2>2 DEF Single, UniqueRows, SameWork
<1>9. CASE Setup
  <2>1. /\ InFlight = {} /\ InFlight' = {} /\ pendingAdds' = {} /\ Range(events') = {}
        /\ req' = req
      BY <1>9, EmptySequence DEF Setup, Phases, InFlight
  <2>2. Stored' = Stored
      BY <1>9 DEF Setup, Stored, Unfinished, Absent
  <2> QED
      BY <2>1, <2>2 DEF Single, UniqueRows, SameWork
<1>10. CASE FlushDirty
  <2>1. /\ UNCHANGED <<eventQueue, replies, events, pendingAdds, req, nextJobid>>
        /\ Stored' = Stored
      BY <1>10 DEF FlushDirty, Write, Stored, Places, Placed
  <2> QED
      BY <2>1, SingleKept
<1>11. \/ /\ UNCHANGED <<eventQueue, replies, events, pendingAdds, req, nextJobid>>
          /\ \A id \in JobIds : row'[id] # Absent <=> row[id] # Absent
       \/ \E r \in Requests : SubmitJob(r)
       \/ TakeEvents \/ HandleEvent \/ CommitAdds \/ AnswerCallers \/ Crash
       \/ Setup \/ FlushDirty
    BY SMTT(30) DEF Next, vars, LoopStep, CoStep, Leave, RequestCancel, CancelTasks,
           Expire, AwaitWakeup, Dispatch, LeaveWorkType, Begin,
           CancelBeforeBegin, Succeed, Fail, Interrupt, Done, coOnly
<1> QED
    BY <1>2, <1>3, <1>4, <1>5, <1>6, <1>7, <1>8, <1>9, <1>10, <1>11

\* If callers await a unique submission before they repeat it, its work is in
\* the table only once.
THEOREM UniqueWorkOnce == ASSUME AwaitingCallers PROVE Spec => []UniqueRows
<1>1. Init => Single
    BY EmptySequence DEF Init, Single, InFlight, UniqueRows, Stored
<1>2. Inv /\ Single /\ [Next]_vars => Single'
    BY SingleStep
<1>3. Single => UniqueRows
    BY DEF Single
<1> QED
    BY <1>1, <1>2, <1>3, SafetyOfWorkDB, PTL DEF Spec

\* Nothing that was taken in gets lost: no answered submission in a crash, no work of a
\* unique one by coming twice, no wakeup between the loop's look and its sleep.
THEOREM NothingIsLost == ASSUME AwaitingCallers PROVE Spec => []NothingLost
BY AnswersAreDurable, UniqueWorkOnce, LoopIsWokenUp, PTL DEF NothingLost
=============================================================================
