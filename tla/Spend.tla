-------------------------------- MODULE Spend --------------------------------
(***************************************************************************)
(* What the jobs of a task spend on the models: SpendLimiter of            *)
(* crs/app/helpers.py, completion and priority_completion with their       *)
(* retries, and LLMSpendTracker of crs/common/llm_api.py.                  *)
(*                                                                         *)
(* A job pays a deposit before it starts and settles what it spent when it *)
(* ends; the counter is durable, what a job has spent so far is not.       *)
(***************************************************************************)
EXTENDS Integers, FiniteSets, FiniteSetsExt

CONSTANTS
  Jobs,
  Limit, Deposit,  \* SPEND_LIMITS of the variable
  Costs,           \* what one completion may cost
  Slots,           \* CONCURRENCY of the model
  Retries,         \* MAX_RETRIES
  Calls,           \* bound: completions, retried ones included, of a job
  MaxCrashes,      \* bound
  None

SpendAssumption == \* no limit is negative, no answer pays anything back
  /\ IsFiniteSet(Jobs) /\ None \notin Jobs
  /\ Limit \in Nat /\ Deposit \in Nat /\ Limit + Deposit > 0 /\ Costs \subseteq Nat

VARIABLES
  job,      \* phase, deposit paid and not given back, completions, errors in a row
  lock,     \* the limiter's lock
  counter,  \* the counter in the database
  spent,    \* by each running job: its tracker
  slots,    \* free slots of the model's semaphore
  paid,     \* history: all that was really paid
  lost,     \* history: what jobs spent before a crash, and their deposits
  over,     \* history: what jobs that ended spent over their deposit
  crashes

spendVars == <<job, lock, counter, spent, slots, paid, lost, over, crashes>>

Fresh == [phase |-> "queued", refund |-> 0, calls |-> 0, errors |-> 0]
NothingLost == [spent |-> 0, deposits |-> 0]

Init ==
  /\ job = [j \in Jobs |-> Fresh] /\ lock = None
  /\ counter = 0 /\ spent = [j \in Jobs |-> 0] /\ slots = Slots
  /\ paid = 0 /\ lost = NothingLost /\ over = 0 /\ crashes = 0

(***************************************************************************)
(* SpendLimiter.limit.                                                     *)
(***************************************************************************)
\* Mutant: the lock is not taken.
Open(j) == TRUE
Free(j) == lock = None

Enter(j) ==
  /\ job[j].phase = "queued" /\ Free(j)
  /\ lock' = j /\ job' = [job EXCEPT ![j].phase = "checking"]
  /\ UNCHANGED <<counter, spent, slots, paid, lost, over, crashes>>

Unlocked(j) == IF lock = j THEN None ELSE lock

Check(j) == \* the lock is held while the body of the caller sees the error
  /\ job[j].phase = "checking"
  /\ job' = [job EXCEPT ![j].phase = IF counter >= Limit THEN "settling" ELSE "paying"]
  /\ UNCHANGED <<lock, counter, spent, slots, paid, lost, over, crashes>>

PayDeposit(j) == \* shielded: a cancellation waits for it
  /\ job[j].phase = "paying"
  /\ counter' = counter + Deposit /\ lock' = Unlocked(j)
  /\ \E phase \in {"working", "settling"} : job' = [job EXCEPT ![j].phase = phase, ![j].refund = Deposit]
  /\ UNCHANGED <<spent, slots, paid, lost, over, crashes>>

Balance(j) == spent[j] - job[j].refund
Over(j) == Max({0, spent[j] - job[j].refund})
Settle(j) ==
  /\ job[j].phase = "settling"
  /\ counter' = counter + Balance(j) /\ lock' = Unlocked(j)
  /\ job' = [job EXCEPT ![j].phase = "done", ![j].refund = 0]
  /\ spent' = [spent EXCEPT ![j] = 0] /\ over' = over + Over(j)
  /\ UNCHANGED <<slots, paid, lost, crashes>>

(***************************************************************************)
(* priority_completion: the slot is held through all retries and pauses.   *)
(***************************************************************************)
Acquire(j) ==
  /\ job[j].phase = "working" /\ job[j].calls < Calls /\ slots > 0
  /\ slots' = slots - 1 /\ job' = [job EXCEPT ![j].phase = "asking", ![j].errors = 0]
  /\ UNCHANGED <<lock, counter, spent, paid, lost, over, crashes>>

Complete(j) == \* an answer costs, also one that is not fit for use and asked for again
  /\ job[j].phase = "asking" /\ job[j].calls < Calls
  /\ \E c \in Costs, fit \in BOOLEAN :
       /\ spent' = [spent EXCEPT ![j] = @ + c] /\ paid' = paid + c
       /\ job' = [job EXCEPT ![j].calls = @ + 1, ![j].phase = IF fit THEN "working" ELSE "asking"]
       /\ slots' = IF fit THEN slots + 1 ELSE slots
  /\ UNCHANGED <<lock, counter, lost, over, crashes>>

RateLimited(j) == \* "put job back in queue, then sleep"
  /\ job[j].phase = "asking"
  /\ job' = [job EXCEPT ![j].phase = "sleeping"]
  /\ UNCHANGED <<lock, counter, spent, slots, paid, lost, over, crashes>>

Awake(j) ==
  /\ job[j].phase = "sleeping"
  /\ job' = [job EXCEPT ![j].phase = "asking"]
  /\ UNCHANGED <<lock, counter, spent, slots, paid, lost, over, crashes>>

Errs(j) == \* unknown exceptions are retried MAX_RETRIES times, a full context never
  /\ job[j].phase = "asking"
  /\ \E phase \in IF job[j].errors >= Retries THEN {"working"} ELSE {"working", "sleeping"} :
       /\ job' = [job EXCEPT ![j].phase = phase, ![j].errors = IF phase = "working" THEN 0 ELSE @ + 1]
       /\ slots' = IF phase = "working" THEN slots + 1 ELSE slots
  /\ UNCHANGED <<lock, counter, spent, paid, lost, over, crashes>>

Leave(j) == \* the job ends, or is cancelled wherever it waits
  /\ job[j].phase \in {"checking", "working", "asking", "sleeping"}
  /\ job' = [job EXCEPT ![j].phase = "settling"]
  /\ slots' = IF job[j].phase \in {"asking", "sleeping"} THEN slots + 1 ELSE slots
  /\ UNCHANGED <<lock, counter, spent, paid, lost, over, crashes>>

Crash == \* the jobs run again; what they had spent was never settled
  /\ crashes < MaxCrashes /\ crashes' = crashes + 1
  /\ lost' = [spent |-> lost.spent + MapThenSumSet(LAMBDA j : spent[j], Jobs),
              deposits |-> lost.deposits + MapThenSumSet(LAMBDA j : job[j].refund, Jobs)]
  /\ over' = over + MapThenSumSet(Over, Jobs)
  /\ job' = [j \in Jobs |-> IF job[j].phase = "done" THEN job[j] ELSE Fresh]
  /\ spent' = [j \in Jobs |-> 0] /\ slots' = Slots /\ lock' = None
  /\ UNCHANGED <<counter, paid>>

Next ==
  \/ \E j \in Jobs :
       \/ Enter(j) \/ Check(j) \/ PayDeposit(j) \/ Settle(j) \/ Leave(j)
       \/ Acquire(j) \/ Complete(j) \/ RateLimited(j) \/ Awake(j) \/ Errs(j)
  \/ Crash
SpendSpec == Init /\ [][Next]_spendVars

(***************************************************************************)
(* Properties.                                                             *)
(***************************************************************************)
\* Nothing is forgotten and nothing counted twice, wherever jobs are cancelled: the counter
\* is what was paid, with the deposits of jobs that still run, or did when the process ended.
Ledger ==
  counter = (paid - lost.spent - MapThenSumSet(LAMBDA j : spent[j], Jobs))
              + lost.deposits + MapThenSumSet(LAMBDA j : job[j].refund, Jobs)

\* This is what the deposit is for: however many jobs ask at once, the task never pays more
\* than the limit and one deposit, except for what a job spends over its own deposit.
WithinBudget == paid < Limit + Deposit + over + MapThenSumSet(Over, Jobs)
Budgeted == Ledger /\ WithinBudget

\* "put job back in queue, then sleep": a request that was told to wait leaves its slot to
\* the others.
SleepersHoldNoSlot ==
  slots = Slots - Cardinality({j \in Jobs : job[j].phase = "asking"})
=============================================================================
