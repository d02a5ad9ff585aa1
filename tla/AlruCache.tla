------------------------------ MODULE AlruCache ------------------------------
(***************************************************************************)
(* crs/common/alru.py: alru_cache memoises a coroutine function, with one  *)
(* lock per key (LockGroup) so that callers who miss the same key at once  *)
(* share one call.                                                         *)
(*                                                                         *)
(* Lock objects are explicit: LockGroup makes one when the first caller of *)
(* a key comes and drops it with the last.  asyncio.Lock serves its        *)
(* waiters in order.                                                       *)
(***************************************************************************)
EXTENDS Naturals, Sequences, FiniteSets, SequencesExt

CONSTANTS
  Callers,  \* coroutines, each in at most one call of the function
  Keys,     \* argument tuples
  Locks,    \* lock objects
  Uncached, \* keys whose results the filter rejects at times
  maxsize,  \* a value >= the number of keys stands for None
  None

AlruAssumption ==
  /\ IsFiniteSet(Keys) /\ IsFiniteSet(Callers)
  /\ Uncached \subseteq Keys
  /\ maxsize \in Nat \ {0}
  /\ None \notin Locks \cup Keys \cup Callers

VARIABLES
  cache,   \* the cached keys
  older,   \* the pairs of them whose first was used less recently
  locks,   \* LockGroup.locks
  count,   \* LockState.count
  holder,  \* who holds a lock
  waiters, \* who waits for it, in order
  pc, key, \* each caller: where it is, and for which key
  state,   \* the LockState it entered
  shared   \* history: a result for its key was cached while it waited

vars == <<cache, older, locks, count, holder, waiters, pc, key, state, shared>>

Cached(k) == k \in cache
\* The order of the time stamps once an entry has a new one, or is made with one.
Touched(k) ==
  {p \in older : p[1] # k /\ p[2] # k} \cup {<<j, k>> : j \in cache \ {k}}

Unused == {l \in Locks : \A k \in Keys : locks[k] # l} \
            {l \in Locks : \E c \in Callers : state[c] = l}

-----------------------------------------------------------------------------
Init ==
  /\ cache = {} /\ older = {}
  /\ locks = [k \in Keys |-> None]
  /\ count = [l \in Locks |-> 0]
  /\ holder = [l \in Locks |-> None]
  /\ waiters = [l \in Locks |-> <<>>]
  /\ pc = [c \in Callers |-> "idle"]
  /\ key = [c \in Callers |-> None] /\ state = [c \in Callers |-> None]
  /\ shared = [c \in Callers |-> FALSE]

\* The first look at the cache: no lock, no await.
Hit(c, k) ==
  /\ pc[c] = "idle" /\ Cached(k)
  /\ older' = Touched(k)
  /\ UNCHANGED <<cache, locks, count, holder, waiters, pc, key, state, shared>>

\* A miss: the lock of the key is looked up or made, and taken at once if it
\* is free and nobody waits; then the second look at the cache is a miss too.
Miss(c, k) ==
  /\ pc[c] = "idle" /\ ~Cached(k)
  /\ \E l \in IF locks[k] # None THEN {locks[k]} ELSE Unused :
       /\ locks' = [locks EXCEPT ![k] = l]
       /\ count' = [count EXCEPT ![l] = @ + 1]
       /\ state' = [state EXCEPT ![c] = l]
       /\ \/ /\ holder[l] = None /\ waiters[l] = <<>>
             /\ holder' = [holder EXCEPT ![l] = c]
             /\ pc' = [pc EXCEPT ![c] = "calling"]
             /\ UNCHANGED waiters
          \/ /\ holder[l] # None \/ waiters[l] # <<>>
             /\ waiters' = [waiters EXCEPT ![l] = Append(@, c)]
             /\ pc' = [pc EXCEPT ![c] = "waiting"]
             /\ UNCHANGED holder
  /\ key' = [key EXCEPT ![c] = k]
  /\ UNCHANGED <<cache, older, shared>>

\* The end of "async with locks.lock(key)": the lock is dropped with its last
\* user.
ReleaseKey(c, l) ==
  /\ count' = [count EXCEPT ![l] = @ - 1]
  /\ locks' = IF count[l] = 1 THEN [locks EXCEPT ![key[c]] = None] ELSE locks

Leave(c) ==
  /\ ReleaseKey(c, state[c])
  /\ pc' = [pc EXCEPT ![c] = "idle"]
  /\ key' = [key EXCEPT ![c] = None]
  /\ state' = [state EXCEPT ![c] = None]

\* The lock is free and it is this caller's turn: the second look at the
\* cache.
MustCall(c) == ~Cached(key[c])

Acquire(c) ==
  /\ pc[c] = "waiting"
  /\ LET l == state[c] IN
     /\ holder[l] = None /\ waiters[l] # <<>> /\ Head(waiters[l]) = c
     /\ waiters' = [waiters EXCEPT ![l] = Tail(@)]
     /\ \/ /\ ~MustCall(c)
           /\ older' = Touched(key[c])
           /\ Leave(c)
           /\ UNCHANGED holder
        \/ /\ MustCall(c)
           /\ holder' = [holder EXCEPT ![l] = c]
           /\ pc' = [pc EXCEPT ![c] = "calling"]
           /\ UNCHANGED <<older, locks, count, key, state>>
  /\ UNCHANGED cache
  /\ shared' = [shared EXCEPT ![c] = FALSE]

\* The least recently used of S, as many as there are entries too many.
Oldest(S, order, entries) ==
  {k \in S : Cardinality({j \in S : <<j, k>> \in order}) + maxsize < Cardinality(entries)}

\* The entries that go when there are too many: the least recently used ones
\* whose key nobody has locked.  Mutant: locks are ignored.
AnyVictims(entries, order) == Oldest(entries, order, entries)
Victims(entries, order) == Oldest({k \in entries : locks[k] = None}, order, entries)

\* The function returned: store what the filter admits, evict, leave.
Return(c) ==
  /\ pc[c] = "calling"
  /\ \E admitted \in IF key[c] \in Uncached THEN BOOLEAN ELSE {TRUE} :
       LET entries == IF admitted THEN cache \cup {key[c]} ELSE cache
           order == IF admitted THEN Touched(key[c]) ELSE older
       IN
       /\ cache' = entries \ Victims(entries, order)
       /\ older' = {p \in order : p[1] \in cache' /\ p[2] \in cache'}
       /\ shared' = [d \in Callers |->
                       shared[d] \/ (admitted /\ pc[d] = "waiting" /\ key[d] = key[c])]
  /\ holder' = [holder EXCEPT ![state[c]] = None]
  /\ Leave(c)
  /\ UNCHANGED waiters

\* The caller is cancelled, or the function raises, during the call.
Abort(c) ==
  /\ pc[c] = "calling"
  /\ holder' = [holder EXCEPT ![state[c]] = None]
  /\ Leave(c)
  /\ UNCHANGED <<cache, older, waiters, shared>>

\* The caller is cancelled while it waits for the lock.
CancelWait(c) ==
  /\ pc[c] = "waiting"
  /\ \E i \in DOMAIN waiters[state[c]] :
       /\ waiters[state[c]][i] = c
       /\ waiters' = [waiters EXCEPT ![state[c]] = RemoveAt(@, i)]
  /\ shared' = [shared EXCEPT ![c] = FALSE]
  /\ Leave(c)
  /\ UNCHANGED <<cache, older, holder>>

Next ==
  \/ \E c \in Callers, k \in Keys : Hit(c, k) \/ Miss(c, k)
  \/ \E c \in Callers : Acquire(c) \/ Return(c) \/ Abort(c) \/ CancelWait(c)

Spec == Init /\ [][Next]_vars

\* A call ends in one way or another, and the event loop resumes a waiter
\* whose turn it is.
FairSpec ==
  Spec /\ \A c \in Callers : WF_vars(Acquire(c)) /\ WF_vars(Return(c) \/ Abort(c))

-----------------------------------------------------------------------------
\* The type of every variable.
TypeOK ==
  /\ cache \subseteq Keys /\ older \subseteq cache \X cache
  /\ \A j, k \in cache : j # k => (<<j, k>> \in older <=> <<k, j>> \notin older)
  /\ locks \in [Keys -> Locks \cup {None}]
  /\ count \in [Locks -> 0..Cardinality(Callers)]
  /\ holder \in [Locks -> Callers \cup {None}]
  /\ waiters \in [Locks -> Seq(Callers)]
  /\ pc \in [Callers -> {"idle", "waiting", "calling"}]
  /\ key \in [Callers -> Keys \cup {None}]
  /\ state \in [Callers -> Locks \cup {None}]
  /\ shared \in [Callers -> BOOLEAN]

\* Never two calls of the function for one key, however callers come, go and
\* are cancelled.
SingleFlight ==
  \A c, d \in Callers :
    c # d /\ {pc[c], pc[d]} = {"calling"} => key[c] # key[d]

\* All callers of a key agree on its lock, and it is kept for exactly as long
\* as there is one: no lock object leaks, none is dropped under a caller.
LocksAreShared ==
  /\ \A c \in Callers : key[c] # None => state[c] = locks[key[c]]
  /\ \A k \in Keys : locks[k] # None =>
       count[locks[k]] = Cardinality({c \in Callers : key[c] = k})
  /\ \A k \in Keys : locks[k] # None => \E c \in Callers : key[c] = k

\* A caller who waited while a result was cached finds it there: eviction in
\* between does not make it call the function again.
WaitersFindTheResult == \A c \in Callers : shared[c] => Cached(key[c])

\* The cache outgrows maxsize only by as many entries as callers can lock.
SizeBounded ==
  Cardinality(cache) <= maxsize \/ Cardinality(cache) <= Cardinality(Callers)

Consistent == TypeOK /\ LocksAreShared /\ SizeBounded

\* Every waiter gets its turn.
WaitersServed == \A c \in Callers : pc[c] = "waiting" ~> pc[c] # "waiting"
=============================================================================
