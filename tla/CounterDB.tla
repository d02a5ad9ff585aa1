------------------------------ MODULE CounterDB ------------------------------
(***************************************************************************)
(* crs/app/counter_db.py, class CounterDB: named counters in a table, with *)
(* a write-through cache in memory.                                        *)
(*                                                                         *)
(* All statements go over one pinned aiosqlite connection: a thread runs   *)
(* them in the order in which they were queued, and coroutines resume in   *)
(* the order of the answers.  Other coroutines run in between.  A caller   *)
(* may be cancelled at each of its awaits: a statement that it queued runs *)
(* all the same.  A crash loses the cache and what the connection has not  *)
(* committed.                                                              *)
(*                                                                         *)
(* Counters do not interact: one counter is modelled.                      *)
(***************************************************************************)
EXTENDS Naturals, Sequences, FiniteSets

CONSTANTS
  Coros,      \* coroutines using the counter, one call each
  Calls,      \* which calls they may make: "get", "fetch_add", "set"
  Amounts,    \* amounts added or values set
  MaxCrashes, \* bound: process crashes
  None        \* no entry in the cache, no row in the table

CounterAssumption ==
  /\ Calls \subseteq {"get", "fetch_add", "set"}
  /\ Amounts \subseteq Nat
  /\ MaxCrashes \in Nat
  /\ None \notin Nat

VARIABLES
  cache,      \* the cached value, or None
  table,      \* the value the connection sees, None without a row
  disk,       \* the committed value, None without a row
  statements, \* statements queued for the connection's thread
  answers,    \* answers on their way back to the coroutines
  pc,         \* where each coroutine is
  call, amount, result,
  crashes,
  cancelled,  \* cancelled callers; pc stays until the answer nobody hears arrives
  uncommitted,\* history: callers whose upsert ran since the last commit
  credited    \* history: amounts added by calls that returned

vars == <<cache, table, disk, statements, answers, pc, call, amount, result,
          crashes, cancelled, uncommitted, credited>>

Statement(kind, c) == [kind |-> kind, coro |-> c]

-----------------------------------------------------------------------------
Init ==
  /\ cache = None /\ table = None /\ disk = None
  /\ statements = <<>> /\ answers = <<>>
  /\ pc = [c \in Coros |-> "start"]
  /\ call \in [Coros -> Calls]
  /\ amount \in [Coros -> Amounts]
  /\ result = [c \in Coros |-> None]
  /\ crashes = 0
  /\ cancelled = {} /\ uncommitted = {}
  /\ credited = 0

Queue(s) == statements' = Append(statements, s)

Return(c, v) ==
  /\ pc' = [pc EXCEPT ![c] = "returned"]
  /\ result' = [result EXCEPT ![c] = v]

\* get, or the first part of fetch_add, on a cache miss: SELECT and wait.
StartMiss(c) ==
  /\ pc[c] = "start" /\ call[c] \in {"get", "fetch_add"} /\ cache = None
  /\ Queue(Statement("select", c))
  /\ pc' = [pc EXCEPT ![c] = "selecting"]
  /\ UNCHANGED <<cache, table, disk, answers, call, amount, result, crashes,
                 cancelled, uncommitted, credited>>

\* get on a cache hit.
GetHit(c) ==
  /\ pc[c] = "start" /\ call[c] = "get" /\ cache # None
  /\ Return(c, cache)
  /\ UNCHANGED <<cache, table, disk, statements, answers, call, amount, crashes,
                 cancelled, uncommitted, credited>>

\* The stretch of fetch_add without a checkpoint: cache and queue the upsert.
Apply(c, old) ==
  /\ cache' = old + amount[c]
  /\ result' = [result EXCEPT ![c] = old]
  /\ Queue(Statement("upsert", c))
  /\ pc' = [pc EXCEPT ![c] = "writing"]

FetchAddHit(c) ==
  /\ pc[c] = "start" /\ call[c] = "fetch_add" /\ cache # None
  /\ Apply(c, cache)
  /\ UNCHANGED <<table, disk, answers, call, amount, crashes, cancelled,
                 uncommitted, credited>>

\* set: cache first, then the statement.
Set(c) ==
  /\ pc[c] = "start" /\ call[c] = "set"
  /\ cache' = amount[c]
  /\ Queue(Statement("upsert", c))
  /\ pc' = [pc EXCEPT ![c] = "writing"]
  /\ UNCHANGED <<table, disk, answers, call, amount, result, crashes, cancelled,
                 uncommitted, credited>>

\* What _get makes of the row.
RowValue(r) == IF r = None THEN 0 ELSE r

\* The connection's thread runs the next statement.
RunStatement ==
  /\ statements # <<>>
  /\ LET s == Head(statements) IN
     /\ statements' = Tail(statements)
     /\ answers' = Append(answers, [coro |-> s.coro, value |-> RowValue(table)])
     /\ table' = IF s.kind # "upsert" THEN table
                 ELSE IF call[s.coro] = "set" THEN amount[s.coro]
                 ELSE (IF table = None THEN 0 ELSE table) + amount[s.coro]
     /\ disk' = IF s.kind = "commit" THEN table ELSE disk
     /\ uncommitted' = IF s.kind = "commit" THEN {}
                       ELSE IF s.kind = "upsert" THEN uncommitted \cup {s.coro}
                       ELSE uncommitted
  /\ UNCHANGED <<cache, pc, call, amount, result, crashes, cancelled, credited>>

\* The coroutine of the next answer resumes.
GetMissed(c, v) ==
  /\ pc[c] = "selecting" /\ call[c] = "get"
  /\ cache' = v
  /\ Return(c, v)
  /\ UNCHANGED <<statements, credited>>

\* The value fetch_add goes on with after its SELECT.  Mutant: the cache is
\* not looked at again after the checkpoint.
FromSelect(v) == v
Rechecked(v) == IF cache = None THEN v ELSE cache

FetchAddMissed(c, v) ==
  /\ pc[c] = "selecting" /\ call[c] = "fetch_add"
  /\ Apply(c, Rechecked(v))
  /\ UNCHANGED credited

\* Mutant of Written: the commit is forgotten.
WrittenOnly(c) ==
  /\ pc[c] = "writing"
  /\ pc' = [pc EXCEPT ![c] = "returned"]
  /\ credited' = IF call[c] = "fetch_add" THEN credited + amount[c] ELSE credited
  /\ UNCHANGED <<cache, statements, result>>

Written(c) ==
  /\ pc[c] = "writing"
  /\ Queue(Statement("commit", c))
  /\ pc' = [pc EXCEPT ![c] = "committing"]
  /\ UNCHANGED <<cache, result, credited>>

Committed(c) ==
  /\ pc[c] = "committing"
  /\ pc' = [pc EXCEPT ![c] = "returned"]
  /\ credited' = IF call[c] = "fetch_add" THEN credited + amount[c] ELSE credited
  /\ UNCHANGED <<cache, statements, result>>

\* The answer of a caller that is no longer there.
Unheard(c) ==
  /\ pc' = [pc EXCEPT ![c] = "killed"]
  /\ UNCHANGED <<cache, statements, result, credited>>

Resume ==
  /\ answers # <<>>
  /\ LET a == Head(answers) IN
       \/ a.coro \in cancelled /\ Unheard(a.coro)
       \/ /\ a.coro \notin cancelled
          /\ \/ GetMissed(a.coro, a.value) \/ FetchAddMissed(a.coro, a.value)
             \/ Written(a.coro) \/ Committed(a.coro)
  /\ answers' = Tail(answers)
  /\ UNCHANGED <<table, disk, call, amount, crashes, cancelled, uncommitted>>

\* A caller is cancelled while it waits for its SELECT, its upsert or its commit.
Cancel(c) ==
  /\ pc[c] \in {"selecting", "writing", "committing"} /\ c \notin cancelled
  /\ cancelled' = cancelled \cup {c}
  /\ UNCHANGED <<cache, table, disk, statements, answers, pc, call, amount, result,
                 crashes, uncommitted, credited>>

\* The process dies and a new one starts: the callers are gone.
Crash ==
  /\ crashes < MaxCrashes
  /\ crashes' = crashes + 1
  /\ cache' = None
  /\ table' = disk /\ uncommitted' = {}
  /\ statements' = <<>> /\ answers' = <<>>
  /\ pc' = [c \in Coros |-> IF pc[c] \in {"start", "returned"}
                              THEN pc[c] ELSE "killed"]
  /\ UNCHANGED <<disk, call, amount, result, cancelled, credited>>

Next ==
  \/ \E c \in Coros : StartMiss(c) \/ GetHit(c) \/ FetchAddHit(c) \/ Set(c) \/ Cancel(c)
  \/ RunStatement \/ Resume \/ Crash

Spec == Init /\ [][Next]_vars

-----------------------------------------------------------------------------
TypeOK ==
  /\ {cache, table, disk} \subseteq Nat \cup {None}
  /\ statements \in Seq([kind: {"select", "upsert", "commit"}, coro: Coros])
  /\ answers \in Seq([coro: Coros, value: Nat])
  /\ pc \in [Coros -> {"start", "selecting", "writing", "committing",
                       "returned", "killed"}]
  /\ call \in [Coros -> Calls] /\ amount \in [Coros -> Amounts]
  /\ result \in [Coros -> Nat \cup {None}]
  /\ crashes \in Nat /\ credited \in Nat
  /\ cancelled \subseteq Coros /\ uncommitted \subseteq Coros

UpsertQueued == \E i \in DOMAIN statements : statements[i].kind = "upsert"

\* "acts as a write-through cache": whenever no upsert is on its way, a cached
\* value is the value of the table.
CacheIsTable == cache # None /\ ~UpsertQueued => cache = RowValue(table)

\* It does as long as nobody calls get, whatever calls of set and fetch_add
\* overlap.
Only(kinds) == \A c \in Coros : call[c] \in kinds
WriteThrough == Only({"fetch_add", "set"}) => CacheIsTable

\* fetch_add hands out distinct values to callers who add something, also if all
\* missed the cache, and across a restart (produce_pov and the branch flipper
\* count on it).
DistinctTickets ==
  Only({"fetch_add"}) =>
    \A c, d \in Coros :
      /\ c # d /\ amount[c] > 0 /\ amount[d] > 0
      /\ {pc[c], pc[d]} = {"returned"}
      => result[c] # result[d]

\* Unless somebody sets the counter, what a returned fetch_add added survives
\* every crash.
AddsAreDurable == Only({"fetch_add", "get"}) => RowValue(disk) >= credited

\* What the connection sees beyond the committed row was written by a caller still under
\* way, or by one that was cancelled between its upsert and its commit and told nobody:
\* its write stays until the next commit.  A caller that returned left nothing behind.
ReturnedIsCommitted ==
  /\ uncommitted = {} => disk = table
  /\ \A c \in uncommitted :
       \/ pc[c] \in {"writing", "committing"}
       \/ c \in cancelled /\ pc[c] = "killed"

Consistent == TypeOK /\ ReturnedIsCommitted
=============================================================================
