-------------------------- MODULE PrioritySemaphore --------------------------
(***************************************************************************)
(* crs/common/utils.py, class PrioritySemaphore: a semaphore that hands a  *)
(* released slot to the waiter of the least priority number.  A waiter may *)
(* be cancelled before or after the slot was given to it.                  *)
(*                                                                         *)
(* A client is one coroutine inside `async with sem.scoped(priority)`.     *)
(* Cancelling it only marks it: CancelledError is thrown at its next step, *)
(* and a release may come in between.                                      *)
(***************************************************************************)
EXTENDS Integers, FiniteSets

CONSTANTS Clients, Priorities, N

ASSUME SemaphoreAssumption ==
  /\ N \in Nat
  /\ IsFiniteSet(Clients)
  /\ Priorities \subseteq Int

VARIABLES
  value,      \* _value: free slots
  waiters,    \* _waiters: the clients in the heap
  priority,   \* the priority each client came with
  resolved,   \* clients whose waiter.fut is done
  at,         \* where each client is: "out", "waiting" or "inside"
  cancelled   \* clients with a cancellation on its way

vars == <<value, waiters, priority, resolved, at, cancelled>>

-----------------------------------------------------------------------------
Init ==
  /\ value = N
  /\ waiters = {}
  /\ priority \in [Clients -> Priorities]
  /\ resolved = {}
  /\ at = [c \in Clients |-> "out"]
  /\ cancelled = {}

\* Mutant of Best: the heap is not ordered.
AnyWaiter == waiters

\* The waiters heappop may return: ties of priority go either way.
Best == {c \in waiters : \A d \in waiters : priority[c] <= priority[d]}

\* release(): the slot becomes free, or goes to one of the best waiters; done
\* are the clients whose future is resolved already.
Release(done) ==
  \/ /\ waiters = {}
     /\ value' = value + 1
     /\ resolved' = done
     /\ UNCHANGED waiters
  \/ \E d \in Best :
       /\ waiters' = waiters \ {d}
       /\ resolved' = done \cup {d}
       /\ UNCHANGED value

\* acquire() while a slot is free.
AcquireFree(c, p) ==
  /\ at[c] = "out" /\ value # 0
  /\ value' = value - 1
  /\ priority' = [priority EXCEPT ![c] = p]
  /\ at' = [at EXCEPT ![c] = "inside"]
  /\ UNCHANGED <<waiters, resolved, cancelled>>

\* acquire() while the semaphore is locked.
Enqueue(c, p) ==
  /\ at[c] = "out" /\ value = 0
  /\ waiters' = waiters \cup {c}
  /\ priority' = [priority EXCEPT ![c] = p]
  /\ at' = [at EXCEPT ![c] = "waiting"]
  /\ UNCHANGED <<value, resolved, cancelled>>

\* The shielded future is done and the client resumes normally.
Resume(c) ==
  /\ at[c] = "waiting" /\ c \in resolved /\ c \notin cancelled
  /\ at' = [at EXCEPT ![c] = "inside"]
  /\ resolved' = resolved \ {c}
  /\ UNCHANGED <<value, waiters, priority, cancelled>>

Cancel(c) ==
  /\ at[c] # "out" /\ c \notin cancelled
  /\ cancelled' = cancelled \cup {c}
  /\ UNCHANGED <<value, waiters, priority, resolved, at>>

\* CancelledError in acquire(), case 1: the slot was already given to us.
\* Mutant: it is not passed on.
CancelResolvedKeeping(c) ==
  /\ at[c] = "waiting" /\ c \in cancelled /\ c \in resolved
  /\ resolved' = resolved \ {c}
  /\ at' = [at EXCEPT ![c] = "out"]
  /\ cancelled' = cancelled \ {c}
  /\ UNCHANGED <<value, waiters, priority>>
CancelResolved(c) ==
  /\ at[c] = "waiting" /\ c \in cancelled /\ c \in resolved
  /\ Release(resolved \ {c})
  /\ at' = [at EXCEPT ![c] = "out"]
  /\ cancelled' = cancelled \ {c}
  /\ UNCHANGED priority

\* CancelledError in acquire(), case 2: we still wait.
CancelWaiting(c) ==
  /\ at[c] = "waiting" /\ c \in cancelled /\ c \notin resolved
  /\ waiters' = waiters \ {c}
  /\ at' = [at EXCEPT ![c] = "out"]
  /\ cancelled' = cancelled \ {c}
  /\ UNCHANGED <<value, priority, resolved>>

\* The body of scoped() ends, normally or by an exception.
Leave(c) ==
  /\ at[c] = "inside"
  /\ Release(resolved)
  /\ at' = [at EXCEPT ![c] = "out"]
  /\ cancelled' = cancelled \ {c}
  /\ UNCHANGED priority

Next ==
  \E c \in Clients :
    \/ \E p \in Priorities : AcquireFree(c, p) \/ Enqueue(c, p)
    \/ Resume(c) \/ Cancel(c) \/ CancelResolved(c) \/ CancelWaiting(c)
    \/ Leave(c)

Spec == Init /\ [][Next]_vars

\* The event loop resumes what is ready, and every body ends.
Fairness ==
  \A c \in Clients :
    WF_vars(Resume(c) \/ CancelResolved(c) \/ CancelWaiting(c) \/ Leave(c))

FairSpec == Spec /\ Fairness

-----------------------------------------------------------------------------
TypeOK ==
  /\ value \in Nat
  /\ waiters \subseteq Clients
  /\ priority \in [Clients -> Priorities]
  /\ resolved \subseteq Clients
  /\ at \in [Clients -> {"out", "waiting", "inside"}]
  /\ cancelled \subseteq Clients

\* The clients a slot belongs to: inside, or about to be told.
Owners == {c \in Clients : at[c] = "inside"} \cup resolved

\* No slot is lost or made up, however cancellation and release interleave.
SlotsConserved == value + Cardinality(Owners) = N

\* A free slot and a waiter never exist together: nobody waits for nothing.
NoIdleSlot == value > 0 => waiters = {}

\* The docstring's waiter invariant: a waiting client is in the heap with its
\* future pending, or out of the heap with its future done.
WaiterInvariant ==
  /\ waiters \cap resolved = {}
  /\ {c \in Clients : at[c] = "waiting"} = waiters \cup resolved

\* Both together: the semaphore loses neither a slot nor a waiter, however cancellation
\* and release interleave.
SemaphoreKept == SlotsConserved /\ WaiterInvariant

\* Nobody enters past a waiter, and no waiter is overtaken by a worse one.
NoOvertaking ==
  [][/\ \A c \in Clients : at[c] = "out" /\ at'[c] = "inside" => waiters = {}
     /\ \A c \in resolved' \ resolved, d \in waiters' :
          priority[c] <= priority[d]]_vars

\* The client whose priority is better than everybody else's leaves the heap
\* in the end.
BestServed ==
  \A c \in Clients :
    c \in waiters ~> \/ c \notin waiters
                     \/ \E d \in waiters \ {c} : priority[d] <= priority[c]

\* The semaphore is a pool of N slots.
Pool == INSTANCE SlotPool WITH owners <- Owners
ImplementsSlotPool == Pool!Spec
=============================================================================
