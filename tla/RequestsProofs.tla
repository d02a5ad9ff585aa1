---------------------------- MODULE RequestsProofs ----------------------------
(***************************************************************************)
(* What agents ask the models, what it costs and the sources they are told *)
(* of, for any number of tool calls, failed completions, jobs, slots,      *)
(* crashes, forks and files: invariants of Spec of MCAgents.               *)
(***************************************************************************)
EXTENDS MCAgents, FiniteSets, FiniteSetTheorems, SequenceTheorems, SumProofs, TLAPS

(***************************************************************************)
(* What jobs spend (SpendLimiter, crs/common/llm_api.py).                  *)
(***************************************************************************)
LEMMA JobsAreFinite == ASSUME Budget!SpendAssumption PROVE IsFiniteSet(Jobs)
    BY DEF Budget!SpendAssumption, Budget!IsFiniteSet, IsFiniteSet

(***************************************************************************)
(* The budget.                                                             *)
(***************************************************************************)
Refunds == [j \in Jobs |-> job[j].refund]
Overs == [j \in Jobs |-> Budget!Over(j)]

\* The sums of the model.
LEMMA SumsOfTheModel ==
  ASSUME IsFiniteSet(Jobs)
  PROVE  /\ Budget!MapThenSumSet(LAMBDA j : spent[j], Jobs) = SumOf(spent, Jobs)
         /\ Budget!MapThenSumSet(LAMBDA j : job[j].refund, Jobs) = SumOf(Refunds, Jobs)
         /\ Budget!MapThenSumSet(Budget!Over, Jobs) = SumOf(Overs, Jobs)
<1>1. Budget!MapThenSumSet(LAMBDA j : spent[j], Jobs) = SumOf(spent, Jobs)
    BY DEF Budget!MapThenSumSet, Budget!MapThenFoldSet, SumOf, SumsOf, One, Others
<1>2. Budget!MapThenSumSet(LAMBDA j : job[j].refund, Jobs) = SumOf(Refunds, Jobs)
  <2> DEFINE Sums(g) == g = [T \in SUBSET Jobs |-> IF T = {} THEN 0
                                                   ELSE job[One(T)].refund + g[Others(T)]]
  <2>1. ASSUME NEW g PROVE Sums(g) <=> SumsOf(g, Refunds, Jobs)
    <3>1. \A T \in SUBSET Jobs : T # {} => Refunds[One(T)] = job[One(T)].refund
        BY DEF Refunds, One
    <3> HIDE DEF Refunds
    <3> QED
        BY <3>1 DEF SumsOf
  <2>2. Budget!MapThenSumSet(LAMBDA j : job[j].refund, Jobs) = (CHOOSE g : Sums(g))[Jobs]
      BY DEF Budget!MapThenSumSet, Budget!MapThenFoldSet, One, Others
  <2>3. SumsOf(CHOOSE g : Sums(g), Refunds, Jobs)
    <3> HIDE DEF Sums
    <3>1. \E g : Sums(g)
        BY <2>1, SumsExist
    <3> QED
        BY <2>1, <3>1
  <2> QED
      BY <2>2, <2>3, SumIs
<1>3. Budget!MapThenSumSet(Budget!Over, Jobs) = SumOf(Overs, Jobs)
  <2> DEFINE Sums(g) == g = [T \in SUBSET Jobs |-> IF T = {} THEN 0
                                                   ELSE Budget!Over(One(T)) + g[Others(T)]]
  <2>1. ASSUME NEW g PROVE Sums(g) <=> SumsOf(g, Overs, Jobs)
    <3>1. \A T \in SUBSET Jobs : T # {} => Overs[One(T)] = Budget!Over(One(T))
        BY DEF Overs, One
    <3> HIDE DEF Overs
    <3> QED
        BY <3>1 DEF SumsOf
  <2>2. Budget!MapThenSumSet(Budget!Over, Jobs) = (CHOOSE g : Sums(g))[Jobs]
      BY DEF Budget!MapThenSumSet, Budget!MapThenFoldSet, One, Others
  <2>3. SumsOf(CHOOSE g : Sums(g), Overs, Jobs)
    <3> HIDE DEF Sums
    <3>1. \E g : Sums(g)
        BY <2>1, SumsExist
    <3> QED
        BY <2>1, <3>1
  <2> QED
      BY <2>2, <2>3, SumIs
<1> QED
    BY <1>1, <1>2, <1>3

JobRecords ==
  [phase : {"queued", "checking", "paying", "working", "asking", "sleeping", "settling", "done"},
   refund : {0, Deposit}, calls : Nat, errors : Nat]

SpendTypes ==
  /\ job \in [Jobs -> JobRecords] /\ spent \in [Jobs -> Nat]
  /\ counter \in Int /\ paid \in Int /\ over \in Int
  /\ lost \in [spent : Int, deposits : Int]

\* What the limiter has let happen: what is committed beyond what jobs overspent.
Committed == counter + lost.spent - lost.deposits - over

BudgetInv ==
  /\ SpendTypes
  /\ counter = (paid - lost.spent - SumOf(spent, Jobs)) + lost.deposits + SumOf(Refunds, Jobs)
  /\ Committed < Limit + Deposit
  /\ lost.spent - lost.deposits <= over
  /\ \A j \in Jobs :
       /\ job[j].phase \in {"checking", "paying"} => lock = j
       /\ job[j].phase = "paying" => Committed < Limit
       /\ job[j].phase \in {"queued", "checking", "paying", "done"} =>
            job[j].refund = 0 /\ spent[j] = 0

LEMMA BudgetStarts == ASSUME Budget!SpendAssumption, Budget!Init PROVE BudgetInv
<1>1. SpendTypes
    BY DEF Budget!Init, Budget!Fresh, Budget!NothingLost, SpendTypes, JobRecords,
       Budget!SpendAssumption
<1>2. spent = [j \in Jobs |-> 0] /\ Refunds = [j \in Jobs |-> 0]
    BY DEF Budget!Init, Refunds, Budget!Fresh
<1>3. SumOf(spent, Jobs) = 0 /\ SumOf(Refunds, Jobs) = 0
    BY <1>2, SumOfNothing, JobsAreFinite
<1>4. counter = 0 /\ paid = 0 /\ over = 0 /\ lost.spent = 0 /\ lost.deposits = 0
    BY DEF Budget!Init, Budget!NothingLost
<1>5. \A j \in Jobs : job[j].phase = "queued" /\ job[j].refund = 0 /\ spent[j] = 0
    BY DEF Budget!Init, Budget!Fresh
<1> QED
    BY <1>1, <1>3, <1>4, <1>5 DEF BudgetInv, Committed, Budget!SpendAssumption

LEMMA RefundsAreNumbers ==
  ASSUME Budget!SpendAssumption, job \in [Jobs -> JobRecords] PROVE Refunds \in [Jobs -> Int]
<1>1. ASSUME NEW j \in Jobs PROVE job[j].refund \in Int
  <2>1. job[j] \in JobRecords
      OBVIOUS
  <2> QED
      BY <2>1 DEF JobRecords, Budget!SpendAssumption
<1> QED
    BY <1>1 DEF Refunds

\* A step of one job: what it does to the sums.
LEMMA OneJobMoves ==
  ASSUME Budget!SpendAssumption, BudgetInv, NEW j \in Jobs, NEW r \in JobRecords, NEW s \in Nat,
         job' = [job EXCEPT ![j] = r], spent' = [spent EXCEPT ![j] = s]
  PROVE  /\ job' \in [Jobs -> JobRecords] /\ spent' \in [Jobs -> Nat]
         /\ job'[j] = r /\ spent'[j] = s
         /\ \A k \in Jobs \ {j} : job'[k] = job[k] /\ spent'[k] = spent[k]
         /\ SumOf(spent', Jobs) = SumOf(spent, Jobs) + (s - spent[j])
         /\ SumOf(Refunds', Jobs) = SumOf(Refunds, Jobs) + (r.refund - job[j].refund)
<1>1. job \in [Jobs -> JobRecords] /\ spent \in [Jobs -> Nat] /\ IsFiniteSet(Jobs)
    BY JobsAreFinite DEF BudgetInv, SpendTypes, Budget!SpendAssumption
<1>2. /\ job' \in [Jobs -> JobRecords] /\ spent' \in [Jobs -> Nat]
      /\ job'[j] = r /\ spent'[j] = s
      /\ \A k \in Jobs \ {j} : job'[k] = job[k] /\ spent'[k] = spent[k]
    BY <1>1
<1>3. SumOf(spent', Jobs) = SumOf(spent, Jobs) + (s - spent[j])
  <2>1. spent \in [Jobs -> Int] /\ spent' \in [Jobs -> Int]
      BY <1>1, <1>2
  <2>2. \A k \in Jobs \ {j} : spent[k] = spent'[k]
      BY <1>2
  <2>3. SumOf(spent', Jobs) = SumOf(spent, Jobs) + (spent'[j] - spent[j])
    <3>1. PICK a \in [Jobs -> Int], b \in [Jobs -> Int] : a = spent /\ b = spent'
        BY <2>1
    <3>2. SumOf(b, Jobs) = SumOf(a, Jobs) + (b[j] - a[j])
      <4>1. \A k \in Jobs \ {j} : a[k] = b[k]
          BY <2>2, <3>1
      <4> QED
          BY <1>1, <4>1, SumChanges
    <3> QED
        BY <3>1, <3>2
  <2> QED
      BY <1>2, <2>3
<1>4. SumOf(Refunds', Jobs) = SumOf(Refunds, Jobs) + (r.refund - job[j].refund)
  <2>1. Refunds \in [Jobs -> Int]
      BY <1>1, RefundsAreNumbers
  <2>2. Refunds' = [k \in Jobs |-> job'[k].refund]
      BY DEF Refunds
  <2>3. Refunds' \in [Jobs -> Int]
    <3>1. ASSUME NEW k \in Jobs PROVE job'[k].refund \in Int
      <4>1. job'[k] \in JobRecords
          BY <1>2
      <4> QED
          BY <4>1 DEF JobRecords, Budget!SpendAssumption
    <3> QED
        BY <2>2, <3>1
  <2>4. /\ Refunds[j] = job[j].refund /\ Refunds'[j] = r.refund
        /\ \A k \in Jobs \ {j} : Refunds[k] = Refunds'[k]
      BY <1>2, <2>2 DEF Refunds
  <2> QED
      BY <1>1, <2>1, <2>3, <2>4, SumChanges
<1> QED
    BY <1>2, <1>3, <1>4

LEMMA SumsAreNumbers ==
  ASSUME Budget!SpendAssumption, SpendTypes
  PROVE  /\ SumOf(spent, Jobs) \in Int /\ SumOf(Refunds, Jobs) \in Int
            /\ SumOf(Overs, Jobs) \in Int
         /\ SumOf(spent, Jobs) <= SumOf(Refunds, Jobs) + SumOf(Overs, Jobs)
         /\ \A j \in Jobs : Budget!Over(j) \in Nat /\ Budget!Over(j) >= spent[j] - job[j].refund
<1>1. ASSUME NEW j \in Jobs
      PROVE  spent[j] \in Int /\ job[j].refund \in Int
  <2>1. job[j] \in JobRecords /\ spent[j] \in Nat
      BY DEF SpendTypes
  <2> QED
      BY <2>1 DEF JobRecords, Budget!SpendAssumption
<1>2. ASSUME NEW j \in Jobs PROVE Budget!Over(j) \in Nat
             /\ Budget!Over(j) >= spent[j] - job[j].refund
  <2>1. PICK d \in Int : d = spent[j] - job[j].refund
      BY <1>1
  <2>2. Budget!Over(j) = Budget!Max({0, d})
      BY <2>1 DEF Budget!Over
  <2>3. \E x \in {0, d} : \A y \in {0, d} : x >= y
      BY <2>1
  <2>4. Budget!Max({0, d}) \in {0, d} /\ \A y \in {0, d} : Budget!Max({0, d}) >= y
      BY <2>3 DEF Budget!Max
  <2> QED
      BY <2>1, <2>2, <2>4
<1>3. spent \in [Jobs -> Int] /\ Overs \in [Jobs -> Int] /\ Refunds \in [Jobs -> Int]
    BY <1>2, RefundsAreNumbers DEF Overs, SpendTypes
<1>4. \A j \in Jobs : spent[j] <= Refunds[j] + Overs[j]
    BY <1>1, <1>2 DEF Overs, Refunds
<1> QED
    BY <1>2, <1>3, <1>4, SumsCompare, JobsAreFinite

\* Steps that change no number.
LEMMA QuietJobStep ==
  ASSUME Budget!SpendAssumption, BudgetInv, NEW j \in Jobs, NEW r \in JobRecords,
         job' = [job EXCEPT ![j] = r], UNCHANGED <<counter, spent, paid, lost, over>>,
         r.refund = job[j].refund,
         r.phase \in {"queued", "checking", "paying", "done"} => r.refund = 0 /\ spent[j] = 0,
         r.phase \in {"checking", "paying"} => lock' = j,
         r.phase = "paying" => Committed < Limit,
         \A k \in Jobs \ {j} : job[k].phase \in {"checking", "paying"} => lock' = lock
  PROVE  BudgetInv'
<1>1. spent' = [spent EXCEPT ![j] = spent[j]] /\ spent[j] \in Nat
    BY DEF BudgetInv, SpendTypes
<1>2. /\ job' \in [Jobs -> JobRecords] /\ spent' \in [Jobs -> Nat]
      /\ job'[j] = r /\ spent' = spent
      /\ \A k \in Jobs \ {j} : job'[k] = job[k]
      /\ SumOf(Refunds', Jobs) = SumOf(Refunds, Jobs) + (r.refund - job[j].refund)
    BY <1>1, OneJobMoves
<1>3. SumOf(Refunds', Jobs) = SumOf(Refunds, Jobs)
  <2>1. SumOf(Refunds, Jobs) \in Int /\ r.refund \in Int
      BY SumsAreNumbers DEF BudgetInv, JobRecords, Budget!SpendAssumption
  <2> QED
      BY <1>2, <2>1
<1>4. SpendTypes' /\ Committed' = Committed
    BY <1>2 DEF BudgetInv, SpendTypes, Committed
<1>5. ASSUME NEW k \in Jobs
      PROVE  /\ job'[k].phase \in {"checking", "paying"} => lock' = k
             /\ job'[k].phase = "paying" => Committed' < Limit
             /\ job'[k].phase \in {"queued", "checking", "paying", "done"} =>
                  job'[k].refund = 0 /\ spent'[k] = 0
  <2>1. CASE k = j
      BY <1>2, <1>4, <2>1
  <2>2. CASE k # j
      BY <1>2, <1>4, <2>2 DEF BudgetInv
  <2> QED
      BY <2>1, <2>2
<1>6. counter' = (paid' - lost'.spent - SumOf(spent', Jobs)) + lost'.deposits + SumOf(Refunds',
      Jobs)
    BY <1>2, <1>3 DEF BudgetInv
<1>7. Committed' < Limit + Deposit /\ lost'.spent - lost'.deposits <= over'
    BY <1>4 DEF BudgetInv
<1> QED
    BY <1>4, <1>5, <1>6, <1>7 DEF BudgetInv

LEMMA QuietSteps ==
  ASSUME Budget!SpendAssumption, BudgetInv, NEW j \in Jobs,
         Budget!Enter(j) \/ Budget!Check(j) \/ Budget!Acquire(j) \/ Budget!RateLimited(j)
         \/ Budget!Awake(j) \/ Budget!Errs(j) \/ Budget!Leave(j)
  PROVE  BudgetInv'
<1> DEFINE Whole(r) == [phase |-> r.phase, refund |-> r.refund, calls |-> r.calls,
errors |-> r.errors]
<1>1. /\ job[j] \in JobRecords /\ job \in [Jobs -> JobRecords]
      /\ counter \in Int /\ over \in Int /\ lost.spent \in Int /\ lost.deposits \in Int
    BY DEF BudgetInv, SpendTypes
<1>2. UNCHANGED <<counter, spent, paid, lost, over>>
    BY DEF Budget!Enter, Budget!Check, Budget!Acquire, Budget!RateLimited, Budget!Awake,
       Budget!Errs, Budget!Leave
<1>3. PICK phase \in {"checking", "paying", "working", "asking", "sleeping", "settling"}, errors
           \in Nat :
        /\ job' = [job EXCEPT ![j] = [job[j] EXCEPT !.phase = phase, !.errors = errors]]
        /\ phase \in {"checking", "paying"} =>
             /\ job[j].phase \in {"queued", "checking"}
             /\ lock' = j
        /\ phase = "paying" => counter < Limit
        /\ lock' = lock \/ (lock = None /\ lock' = j)
  <2>1. PICK was \in JobRecords : was = job[j]
      BY <1>1
  <2>2. was = Whole(was) /\ was.errors \in Nat
      BY <2>1 DEF JobRecords
  <2>3. \A p : [job[j] EXCEPT !.phase = p] = [job[j] EXCEPT !.phase = p, !.errors = was.errors]
      BY <2>1, <2>2
  <2>4. CASE Budget!Enter(j)
    <3>1. /\ job' = [job EXCEPT ![j] = [job[j] EXCEPT !.phase = "checking"]]
          /\ job[j].phase = "queued" /\ lock = None /\ lock' = j
        BY <2>4 DEF Budget!Enter, Budget!Free
    <3> QED
        BY <2>1, <2>2, <2>3, <3>1
  <2>5. CASE Budget!Check(j)
    <3>1. PICK p \in {"settling", "paying"} :
             /\ job' = [job EXCEPT ![j] = [job[j] EXCEPT !.phase = p]]
                /\ (p = "paying" => ~ (counter >= Limit))
        BY <2>5 DEF Budget!Check
    <3>2. job[j].phase = "checking" /\ lock' = lock /\ lock = j
        BY <2>5 DEF Budget!Check, BudgetInv
    <3>3. p = "paying" => counter < Limit
        BY <1>1, <3>1 DEF Budget!SpendAssumption
    <3>4. job' = [job EXCEPT ![j] = [job[j] EXCEPT !.phase = p, !.errors = was.errors]]
        BY <2>3, <3>1
    <3> QED
        BY <2>2, <3>2, <3>3, <3>4
  <2>6. CASE Budget!Acquire(j)
    <3>1. job' = [job EXCEPT ![j] = [job[j] EXCEPT !.phase = "asking", !.errors = 0]]
          /\ lock' = lock
        BY <2>6 DEF Budget!Acquire
    <3> QED
        BY <3>1
  <2>7. CASE Budget!RateLimited(j) \/ Budget!Awake(j) \/ Budget!Leave(j)
    <3>1. PICK p \in {"sleeping", "asking", "settling"} :
             job' = [job EXCEPT ![j] = [job[j] EXCEPT !.phase = p]] /\ lock' = lock
        BY <2>7 DEF Budget!RateLimited, Budget!Awake, Budget!Leave
    <3>2. job' = [job EXCEPT ![j] = [job[j] EXCEPT !.phase = p, !.errors = was.errors]]
        BY <2>3, <3>1
    <3> QED
        BY <2>2, <3>1, <3>2
  <2>8. CASE Budget!Errs(j)
    <3>1. PICK p \in {"working", "sleeping"} :
             job' = [job EXCEPT ![j] = [job[j] EXCEPT !.phase = p,
                       !.errors = IF p = "working" THEN 0 ELSE job[j].errors + 1]] /\ lock' = lock
        BY <2>8 DEF Budget!Errs
    <3>2. (IF p = "working" THEN 0 ELSE job[j].errors + 1) \in Nat
        BY <2>1, <2>2
    <3> QED
        BY <3>1, <3>2
  <2> QED
      BY <2>4, <2>5, <2>6, <2>7, <2>8
<1> DEFINE r == [job[j] EXCEPT !.phase = phase, !.errors = errors]
<1>4. r \in JobRecords /\ r.phase = phase /\ r.refund = job[j].refund
    BY <1>1 DEF JobRecords
<1>5. phase \in {"checking", "paying"} => job[j].refund = 0 /\ spent[j] = 0
    BY <1>3 DEF BudgetInv
<1>6. phase = "paying" => Committed < Limit
  <2>1. lost.spent - lost.deposits <= over
      BY DEF BudgetInv
  <2> QED
      BY <1>1, <1>3, <2>1 DEF Committed, Budget!SpendAssumption
<1>7. \A k \in Jobs \ {j} : job[k].phase \in {"checking", "paying"} => lock' = lock
    BY <1>3 DEF BudgetInv, Budget!SpendAssumption
<1> HIDE DEF r
<1>8. job' = [job EXCEPT ![j] = r]
    BY <1>3 DEF r
<1> QED
    BY <1>2, <1>3, <1>4, <1>5, <1>6, <1>7, <1>8, QuietJobStep

LEMMA PayDepositStep ==
  ASSUME Budget!SpendAssumption, BudgetInv, NEW j \in Jobs, Budget!PayDeposit(j) PROVE BudgetInv'
<1>1. /\ job[j] \in JobRecords /\ job \in [Jobs -> JobRecords] /\ spent[j] \in Nat
      /\ counter \in Int /\ over \in Int /\ lost.spent \in Int /\ lost.deposits \in Int
      /\ job[j].refund = 0 /\ Committed < Limit /\ lock = j
    BY DEF BudgetInv, SpendTypes, Budget!PayDeposit
<1>2. /\ counter' = counter + Deposit /\ UNCHANGED <<spent, paid, lost, over>>
         /\ lock' = Budget!Unlocked(j)
    BY DEF Budget!PayDeposit
<1>3. PICK phase \in {"working", "settling"} :
        job' = [job EXCEPT ![j] = [job[j] EXCEPT !.phase = phase, !.refund = Deposit]]
    BY DEF Budget!PayDeposit
<1> DEFINE r == [job[j] EXCEPT !.phase = phase, !.refund = Deposit]
<1>4. r \in JobRecords /\ r.phase = phase /\ r.refund = Deposit
    BY <1>1 DEF JobRecords
<1> HIDE DEF r
<1>5. job' = [job EXCEPT ![j] = r]
    BY <1>3 DEF r
<1>6. spent' = [spent EXCEPT ![j] = spent[j]]
    BY <1>2 DEF BudgetInv, SpendTypes
<1>7. /\ job' \in [Jobs -> JobRecords] /\ spent' \in [Jobs -> Nat]
      /\ job'[j] = r /\ \A k \in Jobs \ {j} : job'[k] = job[k] /\ spent'[k] = spent[k]
      /\ SumOf(Refunds', Jobs) = SumOf(Refunds, Jobs) + (r.refund - job[j].refund)
    BY <1>1, <1>4, <1>5, <1>6, OneJobMoves
<1>8. SpendTypes' /\ Committed' = Committed + Deposit
    BY <1>1, <1>2, <1>7 DEF BudgetInv, SpendTypes, Committed, Budget!SpendAssumption
<1>9. ASSUME NEW k \in Jobs
      PROVE  /\ job'[k].phase \notin {"checking", "paying"}
             /\ job'[k].phase \in {"queued", "done"} => job'[k].refund = 0 /\ spent'[k] = 0
  <2>1. CASE k = j
      BY <1>4, <1>7, <2>1
  <2>2. CASE k # j
      BY <1>1, <1>7, <2>2 DEF BudgetInv
  <2> QED
      BY <2>1, <2>2
<1>10. counter' = (paid' - lost'.spent - SumOf(spent', Jobs)) + lost'.deposits + SumOf(Refunds',
       Jobs)
  <2>1. SumOf(Refunds, Jobs) \in Int /\ SumOf(spent, Jobs) \in Int /\ paid \in Int
      BY SumsAreNumbers DEF BudgetInv, SpendTypes
  <2>2. SumOf(Refunds', Jobs) = SumOf(Refunds, Jobs) + Deposit
      BY <1>1, <1>4, <1>7, <2>1 DEF Budget!SpendAssumption
  <2>3. counter = (paid - lost.spent - SumOf(spent, Jobs)) + lost.deposits + SumOf(Refunds, Jobs)
      BY DEF BudgetInv
  <2> QED
      BY <1>1, <1>2, <2>1, <2>2, <2>3 DEF Budget!SpendAssumption
<1>11. Committed' < Limit + Deposit /\ lost'.spent - lost'.deposits <= over'
  <2>1. Committed \in Int
      BY <1>1 DEF Committed
  <2> QED
      BY <1>1, <1>2, <1>8, <2>1 DEF BudgetInv, Budget!SpendAssumption
<1> QED
    BY <1>8, <1>9, <1>10, <1>11 DEF BudgetInv

LEMMA SettleStep ==
  ASSUME Budget!SpendAssumption, BudgetInv, NEW j \in Jobs, Budget!Settle(j) PROVE BudgetInv'
<1>1. /\ job[j] \in JobRecords /\ job \in [Jobs -> JobRecords] /\ spent[j] \in Nat
      /\ counter \in Int /\ over \in Int /\ lost.spent \in Int /\ lost.deposits \in Int
      /\ job[j].refund \in Int /\ Budget!Over(j) \in Nat
         /\ Budget!Over(j) >= spent[j] - job[j].refund
  <2>1. job[j] \in JobRecords
      BY DEF BudgetInv, SpendTypes
  <2>2. Budget!Over(j) \in Nat /\ Budget!Over(j) >= spent[j] - job[j].refund
      BY SumsAreNumbers DEF BudgetInv
  <2> QED
      BY <2>1, <2>2 DEF BudgetInv, SpendTypes, JobRecords, Budget!SpendAssumption
<1>2. /\ counter' = counter + (spent[j] - job[j].refund) /\ over' = over + Budget!Over(j)
      /\ UNCHANGED <<paid, lost>> /\ lock' = Budget!Unlocked(j)
      /\ spent' = [spent EXCEPT ![j] = 0]
      /\ job' = [job EXCEPT ![j] = [job[j] EXCEPT !.phase = "done", !.refund = 0]]
    BY DEF Budget!Settle, Budget!Balance
<1> DEFINE r == [job[j] EXCEPT !.phase = "done", !.refund = 0]
<1>3. r \in JobRecords /\ r.phase = "done" /\ r.refund = 0
    BY <1>1 DEF JobRecords
<1> HIDE DEF r
<1>4. job' = [job EXCEPT ![j] = r]
    BY <1>2 DEF r
<1>5. /\ job' \in [Jobs -> JobRecords] /\ spent' \in [Jobs -> Nat] /\ job'[j] = r /\ spent'[j] = 0
      /\ \A k \in Jobs \ {j} : job'[k] = job[k] /\ spent'[k] = spent[k]
      /\ SumOf(spent', Jobs) = SumOf(spent, Jobs) + (0 - spent[j])
      /\ SumOf(Refunds', Jobs) = SumOf(Refunds, Jobs) + (0 - job[j].refund)
  <2>1. 0 \in Nat
      OBVIOUS
  <2>2. /\ job' \in [Jobs -> JobRecords] /\ spent' \in [Jobs -> Nat] /\ job'[j] = r
           /\ spent'[j] = 0
        /\ \A k \in Jobs \ {j} : job'[k] = job[k] /\ spent'[k] = spent[k]
        /\ SumOf(spent', Jobs) = SumOf(spent, Jobs) + (0 - spent[j])
        /\ SumOf(Refunds', Jobs) = SumOf(Refunds, Jobs) + (r.refund - job[j].refund)
      BY <1>2, <1>3, <1>4, <2>1, OneJobMoves
  <2> QED
      BY <1>3, <2>2
<1>6. PICK ov \in Nat : ov = Budget!Over(j)
    BY <1>1
<1>7. SpendTypes'
    BY <1>1, <1>2, <1>5, <1>6 DEF BudgetInv, SpendTypes
<1>8. Committed' <= Committed /\ Committed \in Int /\ Committed' \in Int
  <2>1. PICK c \in Int, o \in Int, ls \in Int, ld \in Int, s \in Int, f \in Int :
          /\ c = counter /\ o = over /\ ls = lost.spent /\ ld = lost.deposits
          /\ s = spent[j] /\ f = job[j].refund
      BY <1>1
  <2>2. Committed = c + ls - ld - o /\ Committed' = (c + (s - f)) + ls - ld - (o + ov)
      BY <1>2, <1>6, <2>1 DEF Committed
  <2> QED
      BY <1>1, <1>6, <2>1, <2>2
<1>9. ASSUME NEW k \in Jobs
      PROVE  /\ job'[k].phase \in {"checking", "paying"} => lock' = k
             /\ job'[k].phase = "paying" => Committed' < Limit
             /\ job'[k].phase \in {"queued", "checking", "paying", "done"} =>
                  job'[k].refund = 0 /\ spent'[k] = 0
  <2>1. CASE k = j
      BY <1>3, <1>5, <2>1
  <2>2. CASE k # j
    <3>1. job[k].phase \in {"checking", "paying"} => lock' = lock /\ lock = k
        BY <1>2, <2>2 DEF BudgetInv, Budget!Unlocked
    <3>2. job[k].phase = "paying" => Committed' < Limit
        BY <1>8 DEF BudgetInv, Budget!SpendAssumption
    <3>3. job'[k] = job[k] /\ spent'[k] = spent[k]
        BY <1>5, <2>2
    <3> QED
        BY <3>1, <3>2, <3>3 DEF BudgetInv
  <2> QED
      BY <2>1, <2>2
<1>10. counter' = (paid' - lost'.spent - SumOf(spent', Jobs)) + lost'.deposits + SumOf(Refunds',
       Jobs)
  <2>1. SumOf(Refunds, Jobs) \in Int /\ SumOf(spent, Jobs) \in Int /\ paid \in Int
      BY SumsAreNumbers DEF BudgetInv, SpendTypes
  <2>2. counter = (paid - lost.spent - SumOf(spent, Jobs)) + lost.deposits + SumOf(Refunds, Jobs)
      BY DEF BudgetInv
  <2> QED
      BY <1>1, <1>2, <1>5, <2>1, <2>2
<1>11. Committed' < Limit + Deposit
    BY <1>8 DEF BudgetInv, Budget!SpendAssumption
<1>12. lost'.spent - lost'.deposits <= over'
  <2>1. lost.spent - lost.deposits <= over
      BY DEF BudgetInv
  <2> QED
      BY <1>1, <1>2, <1>6, <2>1
<1> QED
    BY <1>7, <1>9, <1>10, <1>11, <1>12 DEF BudgetInv

LEMMA CompleteStep ==
  ASSUME Budget!SpendAssumption, BudgetInv, NEW j \in Jobs, Budget!Complete(j) PROVE BudgetInv'
<1>1. /\ job[j] \in JobRecords /\ job \in [Jobs -> JobRecords] /\ spent \in [Jobs -> Nat]
      /\ spent[j] \in Nat /\ paid \in Int
      /\ counter \in Int /\ over \in Int /\ lost.spent \in Int /\ lost.deposits \in Int
    BY DEF BudgetInv, SpendTypes
<1>2. PICK c \in Nat, phase \in {"working", "asking"} :
        /\ spent' = [spent EXCEPT ![j] = spent[j] + c] /\ paid' = paid + c
        /\ job' = [job EXCEPT ![j] = [job[j] EXCEPT !.calls = job[j].calls + 1, !.phase = phase]]
  <2>1. PICK c \in Costs, fit \in BOOLEAN :
        /\ spent' = [spent EXCEPT ![j] = spent[j] + c] /\ paid' = paid + c
        /\ job' = [job EXCEPT ![j] = [job[j] EXCEPT !.calls = job[j].calls + 1,
                                        !.phase = IF fit THEN "working" ELSE "asking"]]
      BY DEF Budget!Complete
  <2> QED
      BY <2>1 DEF Budget!SpendAssumption
<1>3. UNCHANGED <<lock, counter, lost, over>>
    BY DEF Budget!Complete
<1> DEFINE r == [job[j] EXCEPT !.calls = job[j].calls + 1, !.phase = phase]
<1>4. r \in JobRecords /\ r.phase = phase /\ r.refund = job[j].refund
  <2>1. PICK was \in JobRecords : was = job[j]
      BY <1>1
  <2>2. was.calls + 1 \in Nat
      BY <2>1 DEF JobRecords
  <2>3. r = [was EXCEPT !.calls = was.calls + 1, !.phase = phase]
      BY <2>1
  <2> HIDE DEF r
  <2> QED
      BY <2>1, <2>2, <2>3 DEF JobRecords
<1> HIDE DEF r
<1>5. job' = [job EXCEPT ![j] = r] /\ spent[j] + c \in Nat
    BY <1>1, <1>2 DEF r
<1>6. /\ job' \in [Jobs -> JobRecords] /\ spent' \in [Jobs -> Nat] /\ job'[j] = r
      /\ \A k \in Jobs \ {j} : job'[k] = job[k] /\ spent'[k] = spent[k]
      /\ SumOf(spent', Jobs) = SumOf(spent, Jobs) + ((spent[j] + c) - spent[j])
      /\ SumOf(Refunds', Jobs) = SumOf(Refunds, Jobs) + (r.refund - job[j].refund)
    BY <1>2, <1>4, <1>5, OneJobMoves
<1>7. SpendTypes' /\ Committed' = Committed
    BY <1>1, <1>2, <1>3, <1>6 DEF BudgetInv, SpendTypes, Committed
<1>8. ASSUME NEW k \in Jobs
      PROVE  /\ job'[k].phase \in {"checking", "paying"} => lock' = k
             /\ job'[k].phase = "paying" => Committed' < Limit
             /\ job'[k].phase \in {"queued", "checking", "paying", "done"} =>
                  job'[k].refund = 0 /\ spent'[k] = 0
  <2>1. CASE k = j
      BY <1>4, <1>6, <2>1
  <2>2. CASE k # j
      BY <1>3, <1>6, <1>7, <2>2 DEF BudgetInv
  <2> QED
      BY <2>1, <2>2
<1>9. counter' = (paid' - lost'.spent - SumOf(spent', Jobs)) + lost'.deposits + SumOf(Refunds',
      Jobs)
  <2>1. SumOf(Refunds, Jobs) \in Int /\ SumOf(spent, Jobs) \in Int /\ job[j].refund \in Int
      BY <1>1, SumsAreNumbers DEF BudgetInv, JobRecords, Budget!SpendAssumption
  <2>2. counter = (paid - lost.spent - SumOf(spent, Jobs)) + lost.deposits + SumOf(Refunds, Jobs)
      BY DEF BudgetInv
  <2>3. SumOf(Refunds', Jobs) = SumOf(Refunds, Jobs)
        /\ SumOf(spent', Jobs) = SumOf(spent, Jobs) + c
      BY <1>1, <1>4, <1>6, <2>1
  <2> QED
      BY <1>1, <1>2, <1>3, <2>1, <2>2, <2>3
<1>10. Committed' < Limit + Deposit /\ lost'.spent - lost'.deposits <= over'
    BY <1>3, <1>7 DEF BudgetInv
<1> QED
    BY <1>7, <1>8, <1>9, <1>10 DEF BudgetInv

LEMMA CrashStep == ASSUME Budget!SpendAssumption, BudgetInv, Budget!Crash PROVE BudgetInv'
<1>1. /\ job \in [Jobs -> JobRecords] /\ paid \in Int /\ counter \in Int /\ over \in Int
      /\ lost.spent \in Int /\ lost.deposits \in Int /\ IsFiniteSet(Jobs)
    BY JobsAreFinite DEF BudgetInv, SpendTypes, Budget!SpendAssumption
<1>2. PICK S \in Int, R \in Int, O \in Int :
        /\ S = SumOf(spent, Jobs) /\ R = SumOf(Refunds, Jobs) /\ O = SumOf(Overs, Jobs)
        /\ S <= R + O
    BY SumsAreNumbers DEF BudgetInv
<1>3. /\ lost' = [spent |-> lost.spent + S, deposits |-> lost.deposits + R] /\ over' = over + O
      /\ job' = [j \in Jobs |-> IF job[j].phase = "done" THEN job[j] ELSE Budget!Fresh]
      /\ spent' = [j \in Jobs |-> 0] /\ UNCHANGED <<counter, paid>>
    BY <1>1, <1>2, SumsOfTheModel DEF Budget!Crash
<1>4. Budget!Fresh \in JobRecords /\ Budget!Fresh.phase = "queued" /\ Budget!Fresh.refund = 0
    BY DEF Budget!Fresh, JobRecords
<1>5. SpendTypes'
    BY <1>1, <1>2, <1>3, <1>4 DEF SpendTypes
<1>6. ASSUME NEW k \in Jobs
      PROVE  job'[k].phase \in {"queued", "done"} /\ job'[k].refund = 0 /\ spent'[k] = 0
    BY <1>3, <1>4 DEF BudgetInv
<1>7. SumOf(spent', Jobs) = 0 /\ SumOf(Refunds', Jobs) = 0
  <2>1. Refunds' = [k \in Jobs |-> 0]
      BY <1>6 DEF Refunds
  <2> QED
      BY <1>1, <1>3, <2>1, SumOfNothing
<1>8. counter' = (paid' - lost'.spent - SumOf(spent', Jobs)) + lost'.deposits + SumOf(Refunds',
      Jobs)
  <2>1. counter = (paid - lost.spent - S) + lost.deposits + R
      BY <1>2 DEF BudgetInv
  <2> QED
      BY <1>1, <1>2, <1>3, <1>7, <2>1
<1>9. Committed' < Limit + Deposit /\ lost'.spent - lost'.deposits <= over'
  <2>1. Committed < Limit + Deposit /\ lost.spent - lost.deposits <= over
      BY DEF BudgetInv
  <2>2. Committed' <= Committed /\ Committed \in Int /\ Committed' \in Int
      BY <1>1, <1>2, <1>3 DEF Committed
  <2> QED
      BY <1>1, <1>2, <1>3, <2>1, <2>2 DEF Budget!SpendAssumption
<1> QED
    BY <1>5, <1>6, <1>8, <1>9 DEF BudgetInv

LEMMA BudgetNext ==
  ASSUME Budget!SpendAssumption, BudgetInv, [Budget!Next]_(Budget!spendVars)
  PROVE  BudgetInv'
<1>1. CASE UNCHANGED Budget!spendVars
  <2>1. UNCHANGED <<job, lock, counter, spent, paid, lost, over>> /\ Refunds' = Refunds
        /\ Committed' = Committed
      BY <1>1 DEF Budget!spendVars, Refunds, Committed
  <2> QED
      BY <2>1 DEF BudgetInv, SpendTypes
<1>2. ASSUME NEW j \in Jobs,
             \/ Budget!Enter(j) \/ Budget!Check(j) \/ Budget!PayDeposit(j) \/ Budget!Settle(j)
                \/ Budget!Leave(j)
             \/ Budget!Acquire(j) \/ Budget!Complete(j) \/ Budget!RateLimited(j)
                \/ Budget!Awake(j) \/ Budget!Errs(j)
      PROVE  BudgetInv'
    BY <1>2, QuietSteps, PayDepositStep, SettleStep, CompleteStep
<1> QED
    BY <1>1, <1>2, CrashStep DEF Budget!Next

LEMMA BudgetAgrees == ASSUME Budget!SpendAssumption, BudgetInv PROVE Budget!Budgeted
<1>1. PICK S \in Int, R \in Int, O \in Int :
        /\ S = SumOf(spent, Jobs) /\ R = SumOf(Refunds, Jobs) /\ O = SumOf(Overs, Jobs)
        /\ S <= R + O
    BY SumsAreNumbers DEF BudgetInv
<1>2. /\ Budget!MapThenSumSet(LAMBDA j : spent[j], Jobs) = S
      /\ Budget!MapThenSumSet(LAMBDA j : job[j].refund, Jobs) = R
      /\ Budget!MapThenSumSet(Budget!Over, Jobs) = O
    BY <1>1, SumsOfTheModel, JobsAreFinite
<1>3. counter = (paid - lost.spent - S) + lost.deposits + R
    BY <1>1 DEF BudgetInv
<1>4. Budget!Ledger
    BY <1>2, <1>3 DEF Budget!Ledger
<1>5. /\ paid \in Int /\ counter \in Int /\ over \in Int /\ lost.spent \in Int
         /\ lost.deposits \in Int
      /\ counter + lost.spent - lost.deposits - over < Limit + Deposit
    BY DEF BudgetInv, SpendTypes, Committed
<1>6. paid < Limit + Deposit + over + O
    BY <1>1, <1>3, <1>5 DEF Budget!SpendAssumption
<1>7. Budget!WithinBudget
    BY <1>2, <1>6 DEF Budget!WithinBudget
<1> QED
    BY <1>4, <1>7 DEF Budget!Budgeted

(***************************************************************************)
(* Requests to the models (agent.py).                                      *)
(***************************************************************************)
\* The sizes of sets are those of FiniteSets.
LEMMA TalkSets ==
  \A S : (Talk!IsFiniteSet(S) <=> IsFiniteSet(S)) /\ Talk!Cardinality(S) = Cardinality(S)
    BY DEF Cardinality, Talk!Cardinality, IsFiniteSet, Talk!IsFiniteSet

Messages == [role : {"system", "user", "assistant", "tool"}, n : Nat]
Endings == {"plain", "note", "stop", "terminate"}
Ended == {k \in DOMAIN running : running[k] # None}

\* The prompts come first, and every answer is one to a call of the message before it.
History(m) ==
  /\ Len(m) >= 2 /\ m[1].role = "system" /\ m[2].role = "user"
  /\ \A i \in 1..Len(m) : m[i].role = "tool" =>
       \E j \in 1..(i - 1) : m[j].role = "assistant" /\ i <= j + m[j].n

Complete(m) == \A i \in 1..Len(m) : m[i].role = "assistant" => Talk!AnsweredAt(m, i)

\* The message at i made n calls, and those in S have ended.
Partly(m, i, n, S) ==
  /\ i \in 1..Len(m) /\ m[i].role = "assistant" /\ m[i].n = n
  /\ Len(m) = i + Talk!Cardinality(S) /\ S = {m[j].n : j \in (i + 1)..Len(m)}
  /\ \A j \in (i + 1)..Len(m) : m[j].role = "tool"
  /\ \A j \in 1..Len(m) : j # i /\ m[j].role = "assistant" => Talk!AnsweredAt(m, j)

MayAsk == (at = "ready" /\ ~ terminated /\ outcome = None) \/ at \in {"asking", "asking again"}

AgentInv ==
  /\ msgs \in Seq(Messages) /\ at \in {"ready", "asking", "asking again", "tools", "over"}
  /\ History(msgs)
  /\ at # "tools" => Complete(msgs)
  /\ at = "tools" => \E n \in Nat \ {0}, i \in 1..Len(msgs) :
       running \in [1..n -> Endings \cup {None}] /\ Partly(msgs, i, n, Ended)
  /\ MayAsk => msgs[Len(msgs)].role # "assistant"

\* m2 is m with more messages.
Longer(m, m2) == Len(m) <= Len(m2) /\ \A j \in 1..Len(m) : m2[j] = m[j]

LEMMA AnsweredStays ==
  ASSUME NEW m \in Seq(Messages), NEW m2 \in Seq(Messages), Longer(m, m2),
         NEW i \in 1..Len(m), Talk!AnsweredAt(m, i)
  PROVE  Talk!AnsweredAt(m2, i)
<1>1. Len(m) \in Nat /\ Len(m2) \in Nat /\ m[i].n \in Nat
  <2>1. m[i] \in Messages
      BY ElementOfSeq
  <2> QED
      BY <2>1, LenProperties DEF Messages
<1>2. PICK n \in Nat : n = m[i].n /\ n = m2[i].n
    BY <1>1 DEF Longer
<1>3. /\ Len(m) >= i + n /\ {m[j].n : j \in (i + 1)..(i + n)} = 1..n
      /\ \A j \in (i + 1)..(i + n) : m[j].role = "tool"
    BY <1>2 DEF Talk!AnsweredAt
<1>4. \A j \in (i + 1)..(i + n) : j \in 1..Len(m) /\ m2[j] = m[j]
    BY <1>1, <1>2, <1>3 DEF Longer
<1>5. {m2[j].n : j \in (i + 1)..(i + n)} = {m[j].n : j \in (i + 1)..(i + n)}
    BY <1>4
<1>6. \A j \in (i + 1)..(i + n) : m2[j].role = "tool"
    BY <1>3, <1>4
<1>7. {m2[j].n : j \in (i + 1)..(i + n)} = 1..n
    BY <1>3, <1>5
<1>8. Len(m2) >= i + n
    BY <1>1, <1>2, <1>3 DEF Longer
<1> QED
    BY <1>2, <1>6, <1>7, <1>8 DEF Talk!AnsweredAt

LEMMA HistoryGrows ==
  ASSUME NEW m \in Seq(Messages), NEW m2 \in Seq(Messages), Longer(m, m2), History(m),
         \A i \in (Len(m) + 1)..Len(m2) : m2[i].role # "tool"
  PROVE  History(m2)
<1>1. Len(m) \in Nat /\ Len(m2) \in Nat
    BY LenProperties
<1>2. ASSUME NEW i \in 1..Len(m2), m2[i].role = "tool"
      PROVE  \E j \in 1..(i - 1) : m2[j].role = "assistant" /\ i <= j + m2[j].n
  <2>1. i \in 1..Len(m) /\ m2[i] = m[i]
      BY <1>1, <1>2 DEF Longer
  <2>2. PICK j \in 1..(i - 1) : m[j].role = "assistant" /\ i <= j + m[j].n
      BY <1>2, <2>1 DEF History
  <2>3. m2[j] = m[j]
      BY <1>1, <2>1, <2>2 DEF Longer
  <2> QED
      BY <2>2, <2>3
<1> QED
    BY <1>1, <1>2 DEF History, Longer

\* Messages without calls are added.
LEMMA CompleteGrows ==
  ASSUME NEW m \in Seq(Messages), NEW m2 \in Seq(Messages), Longer(m, m2), Complete(m),
         \A i \in (Len(m) + 1)..Len(m2) : m2[i].role = "assistant" => m2[i].n = 0
  PROVE  Complete(m2)
<1>1. Len(m) \in Nat /\ Len(m2) \in Nat
    BY LenProperties
<1>2. ASSUME NEW i \in 1..Len(m2), m2[i].role = "assistant" PROVE Talk!AnsweredAt(m2, i)
  <2>1. CASE i \in 1..Len(m)
      BY <1>2, <2>1, AnsweredStays DEF Complete, Longer
  <2>2. CASE i \notin 1..Len(m)
    <3>1. m2[i].n = 0
        BY <1>1, <1>2, <2>2
    <3> QED
        BY <1>1, <3>1 DEF Talk!AnsweredAt
  <2> QED
      BY <2>1, <2>2
<1> QED
    BY <1>2 DEF Complete

LEMMA Appending ==
  ASSUME NEW m \in Seq(Messages), NEW x \in Messages
  PROVE  /\ Append(m, x) \in Seq(Messages) /\ Len(Append(m, x)) = Len(m) + 1
         /\ Append(m, x)[Len(m) + 1] = x /\ Longer(m, Append(m, x)) /\ Len(m) \in Nat
  BY AppendProperties, LenProperties DEF Longer

LEMMA Adding ==
  ASSUME NEW m \in Seq(Messages), NEW x \in Seq(Messages), NEW m2, m2 = m \o x
  PROVE  /\ m2 \in Seq(Messages) /\ Len(m2) = Len(m) + Len(x)
         /\ \A i \in 1..Len(x) : m2[Len(m) + i] = x[i]
         /\ Longer(m, m2) /\ Len(m) \in Nat /\ Len(x) \in Nat
<1>1. Len(m) \in Nat /\ Len(x) \in Nat
    BY LenProperties
<1>2. /\ m2 \in Seq(Messages) /\ Len(m2) = Len(m) + Len(x)
      /\ \A i \in 1..(Len(m) + Len(x)) : m2[i] = IF i <= Len(m) THEN m[i] ELSE x[i - Len(m)]
    BY ConcatProperties
<1>3. ASSUME NEW i \in 1..Len(x) PROVE m2[Len(m) + i] = x[i]
  <2>1. Len(m) + i \in 1..(Len(m) + Len(x)) /\ ~ (Len(m) + i <= Len(m))
        /\ (Len(m) + i) - Len(m) = i
      BY <1>1
  <2> QED
      BY <1>2, <2>1
<1>4. Longer(m, m2)
    BY <1>1, <1>2 DEF Longer
<1> QED
    BY <1>1, <1>2, <1>3, <1>4

LEMMA Added ==
  ASSUME NEW m \in Seq(Messages), NEW x \in Seq(Messages), NEW m2, m2 = m \o x,
         NEW i \in 1..Len(x)
  PROVE  m2[Len(m) + i] = x[i]
  BY Adding

LEMMA SameNumbers ==
  ASSUME NEW A, NEW B, NEW m, NEW m2,
         \A j \in A : \E l \in B : m2[j].n = m[l].n, \A j \in B : \E l \in A : m[j].n = m2[l].n
  PROVE  {m2[j].n : j \in A} = {m[j].n : j \in B}
<1>1. ASSUME NEW v \in {m2[j].n : j \in A} PROVE v \in {m[j].n : j \in B}
  <2>1. PICK j \in A : v = m2[j].n
      OBVIOUS
  <2> QED
      BY <2>1
<1>2. ASSUME NEW v \in {m[j].n : j \in B} PROVE v \in {m2[j].n : j \in A}
  <2>1. PICK j \in B : v = m[j].n
      OBVIOUS
  <2> QED
      BY <2>1
<1> QED
    BY <1>1, <1>2

LEMMA MessagesAre ==
  /\ Talk!Msg("system") \in Messages /\ Talk!Msg("user") \in Messages
  /\ \A n \in Nat : Talk!Said(n) \in Messages /\ Talk!Answer(n) \in Messages
  BY DEF Talk!Msg, Talk!Said, Talk!Answer, Messages

LEMMA AgentStarts == ASSUME Talk!AgentAssumption, Talk!Init PROVE AgentInv
<1>1. PICK m : m = <<Talk!Msg("system"), Talk!Msg("user")>> /\ m = msgs
    BY DEF Talk!Init
<1>2. m \in Seq(Messages) /\ Len(m) = 2 /\ m[1].role = "system" /\ m[2].role = "user"
    BY <1>1 DEF Talk!Msg, Messages
<1>3. History(m) /\ Complete(m) /\ m[Len(m)].role # "assistant"
    BY <1>2 DEF History, Complete
<1> QED
    BY <1>1, <1>2, <1>3 DEF AgentInv, Talk!Init

Places == {"ready", "asking", "asking again", "tools", "over"}

\* Steps that leave the messages alone.
LEMMA SameLog ==
  ASSUME AgentInv, UNCHANGED msgs, at # "tools", at' \in Places \ {"tools"}, MayAsk' => MayAsk
  PROVE  AgentInv'
<1>1. PICK m : m = msgs /\ m = msgs'
    OBVIOUS
<1>2. m \in Seq(Messages) /\ History(m) /\ Complete(m) /\ (MayAsk => m[Len(m)].role # "assistant")
    BY <1>1 DEF AgentInv
<1> QED
    BY <1>1, <1>2 DEF AgentInv, Places

LEMMA AskStep == ASSUME AgentInv, Talk!Ask PROVE AgentInv'
  BY SameLog DEF Talk!Ask, MayAsk, Places

LEMMA FailsStep == ASSUME AgentInv, Talk!Fails PROVE AgentInv'
<1>1. at' \in {"asking again", "over"} /\ UNCHANGED msgs /\ at \in {"asking", "asking again"}
    BY DEF Talk!Fails, Talk!Raise
<1> QED
    BY <1>1, SameLog DEF MayAsk, Places

LEMMA ReturnStep == ASSUME AgentInv, Talk!Return PROVE AgentInv'
<1>1. at' = "over" /\ UNCHANGED msgs /\ at = "ready"
    BY DEF Talk!Return
<1> QED
    BY <1>1, SameLog DEF MayAsk, Places

\* Steps after which every call is answered.
LEMMA WholeLog ==
  ASSUME NEW m \in Seq(Messages), msgs' = m, History(m), Complete(m),
         at' \in Places \ {"tools"}, MayAsk' => m[Len(m)].role # "assistant"
  PROVE  AgentInv'
<1>1. History(msgs)' /\ Complete(msgs)' /\ (MayAsk' => msgs'[Len(msgs')].role # "assistant")
    BY DEF History, Complete, Talk!AnsweredAt
<1> QED
    BY <1>1 DEF AgentInv, Places

LEMMA ResumeStep == ASSUME AgentInv, Talk!Resume PROVE AgentInv'
<1>1. PICK m, m2 : m = msgs /\ m2 = Append(m, Talk!Msg("user"))
    OBVIOUS
<1>2. m \in Seq(Messages) /\ History(m) /\ Complete(m) /\ msgs' = m2 /\ at' = "ready"
    BY <1>1 DEF AgentInv, Talk!Resume
<1>3. /\ m2 \in Seq(Messages) /\ Len(m2) = Len(m) + 1 /\ m2[Len(m) + 1] = Talk!Msg("user")
      /\ Longer(m, m2) /\ Len(m) \in Nat
    BY <1>1, <1>2, Appending, MessagesAre
<1>4. \A i \in (Len(m) + 1)..Len(m2) : m2[i] = Talk!Msg("user")
    BY <1>3
<1>5. Talk!Msg("user").role = "user"
    BY DEF Talk!Msg
<1>6. History(m2)
    BY <1>2, <1>3, <1>4, <1>5, HistoryGrows
<1>7. Complete(m2)
    BY <1>2, <1>3, <1>4, <1>5, CompleteGrows
<1>8. m2[Len(m2)].role # "assistant"
    BY <1>3, <1>5
<1> QED
    BY <1>2, <1>3, <1>6, <1>7, <1>8, WholeLog DEF Places

LEMMA ReplyStep == ASSUME Talk!AgentAssumption, AgentInv, Talk!Reply PROVE AgentInv'
<1>1. PICK n \in 0..(IF agent.kind = "classifier" THEN 0 ELSE MaxToolCalls), text \in BOOLEAN :
        /\ running' = [k \in 1..n |-> None]
        /\ IF n > 0
           THEN /\ text /\ msgs' = Append(msgs, Talk!Said(n)) /\ at' = "tools"
                /\ UNCHANGED <<terminated, outcome>>
           ELSE IF Talk!Nudged(text)
           THEN /\ msgs' = msgs \o <<Talk!Said(0), Talk!Msg("user")>> /\ at' = "ready"
                /\ UNCHANGED <<terminated, outcome>>
           ELSE /\ msgs' = Append(msgs, Talk!Said(0)) /\ at' = "ready" /\ terminated' = TRUE
                /\ outcome' = "result"
    BY DEF Talk!Reply
<1>2. n \in Nat
    BY <1>1 DEF Talk!AgentAssumption
<1>3. PICK m : m = msgs /\ m \in Seq(Messages) /\ History(m) /\ Complete(m)
    BY DEF AgentInv, Talk!Reply
<1>4. CASE n > 0
  <2>1. PICK m2 : m2 = Append(m, Talk!Said(n)) /\ m2 = msgs'
      BY <1>1, <1>3, <1>4
  <2>2. /\ m2 \in Seq(Messages) /\ Len(m2) = Len(m) + 1 /\ m2[Len(m) + 1] = Talk!Said(n)
        /\ Longer(m, m2) /\ Len(m) \in Nat
      BY <1>2, <1>3, <2>1, Appending, MessagesAre
  <2>3. Talk!Said(n).role = "assistant" /\ Talk!Said(n).n = n
      BY DEF Talk!Said
  <2>4. \A i \in (Len(m) + 1)..Len(m2) : m2[i] = Talk!Said(n)
      BY <2>2
  <2>5. History(m2)
      BY <1>3, <2>2, <2>3, <2>4, HistoryGrows
  <2>6. PICK i : i = Len(m) + 1 /\ i \in 1..Len(m2) /\ m2[i] = Talk!Said(n) /\ i = Len(m2)
      BY <2>2
  <2>7. Ended' = {} /\ Talk!Cardinality({}) = 0
    <3>1. running' = [k \in 1..n |-> None]
        BY <1>1
    <3> QED
        BY <3>1, FS_EmptySet, TalkSets DEF Ended
  <2>8. Partly(m2, i, n, {})
    <3>1. \A j \in 1..Len(m2) : j # i => j \in 1..Len(m) /\ m2[j] = m[j]
        BY <2>2, <2>6 DEF Longer
    <3>2. \A j \in 1..Len(m2) : j # i /\ m2[j].role = "assistant" => Talk!AnsweredAt(m2, j)
        BY <1>3, <2>2, <3>1, AnsweredStays DEF Complete
    <3>3. \A j \in (i + 1)..Len(m2) : FALSE
        BY <2>2, <2>6
    <3> QED
        BY <2>2, <2>3, <2>6, <2>7, <3>2, <3>3 DEF Partly
  <2>9. running' \in [1..n -> Endings \cup {None}]
      BY <1>1
  <2>10. Partly(msgs', i, n, Ended')
      BY <2>1, <2>7, <2>8
  <2>11. History(msgs') /\ msgs' \in Seq(Messages) /\ i \in 1..Len(msgs') /\ at' = "tools"
      BY <1>1, <1>4, <2>1, <2>2, <2>5, <2>6
  <2>12. \E q \in Nat \ {0}, j \in 1..Len(msgs') :
           running' \in [1..q -> Endings \cup {None}] /\ Partly(msgs', j, q, Ended')
      BY <1>2, <1>4, <2>9, <2>10, <2>11
  <2> QED
      BY <2>11, <2>12 DEF AgentInv, MayAsk
<1>5. CASE ~ (n > 0) /\ Talk!Nudged(text)
  <2>1. PICK x, m2 : x = <<Talk!Said(0), Talk!Msg("user")>> /\ m2 = m \o x /\ m2 = msgs'
             /\ at' = "ready"
      BY <1>1, <1>3, <1>5
  <2>2. /\ x \in Seq(Messages) /\ Len(x) = 2 /\ x[1].role = "assistant" /\ x[1].n = 0
        /\ x[2].role = "user"
      BY <2>1 DEF Talk!Said, Talk!Msg, Messages
  <2>3. /\ m2 \in Seq(Messages) /\ Len(m2) = Len(m) + 2 /\ Longer(m, m2) /\ Len(m) \in Nat
        /\ m2[Len(m) + 1] = x[1] /\ m2[Len(m) + 2] = x[2]
    <3>1. \A i \in 1..Len(x) : m2[Len(m) + i] = x[i]
        BY <1>3, <2>1, <2>2, Adding
    <3>2. 1 \in 1..Len(x) /\ 2 \in 1..Len(x)
        BY <2>2
    <3>3. m2 \in Seq(Messages) /\ Len(m2) = Len(m) + 2 /\ Longer(m, m2) /\ Len(m) \in Nat
        BY <1>3, <2>1, <2>2, Adding
    <3> QED
        BY <3>1, <3>2, <3>3
  <2>4. \A i \in (Len(m) + 1)..Len(m2) : i = Len(m) + 1 \/ i = Len(m) + 2
      BY <2>3
  <2>5. History(m2)
      BY <1>3, <2>2, <2>3, <2>4, HistoryGrows
  <2>6. Complete(m2)
      BY <1>3, <2>2, <2>3, <2>4, CompleteGrows
  <2> QED
      BY <2>1, <2>2, <2>3, <2>5, <2>6, WholeLog DEF Places
<1>6. CASE ~ (n > 0) /\ ~ Talk!Nudged(text)
  <2>1. PICK m2 : m2 = Append(m, Talk!Said(0)) /\ m2 = msgs' /\ at' = "ready"
             /\ terminated' = TRUE
      BY <1>1, <1>3, <1>6
  <2>2. /\ m2 \in Seq(Messages) /\ Len(m2) = Len(m) + 1 /\ m2[Len(m) + 1] = Talk!Said(0)
        /\ Longer(m, m2) /\ Len(m) \in Nat
      BY <1>3, <2>1, Appending, MessagesAre
  <2>3. Talk!Said(0).role = "assistant" /\ Talk!Said(0).n = 0
      BY DEF Talk!Said
  <2>4. \A i \in (Len(m) + 1)..Len(m2) : m2[i] = Talk!Said(0)
      BY <2>2
  <2>5. History(m2)
      BY <1>3, <2>2, <2>3, <2>4, HistoryGrows
  <2>6. Complete(m2)
      BY <1>3, <2>2, <2>3, <2>4, CompleteGrows
  <2> QED
      BY <2>1, <2>2, <2>5, <2>6, WholeLog DEF Places, MayAsk
<1> QED
    BY <1>4, <1>5, <1>6

LEMMA CallEndsStep ==
  ASSUME Talk!AgentAssumption, AgentInv, NEW k \in DOMAIN running,
       Talk!CallEnds(k) PROVE AgentInv'
<1>1. PICK n \in Nat \ {0}, i \in 1..Len(msgs) :
        running \in [1..n -> Endings \cup {None}] /\ Partly(msgs, i, n, Ended)
    BY DEF AgentInv, Talk!CallEnds
<1>2. PICK m, m2, S : m = msgs /\ m2 = Append(m, Talk!Answer(k)) /\ S = Ended
    OBVIOUS
<1>3. PICK a \in Endings :
        /\ running' = [running EXCEPT ![k] = a] /\ running[k] = None
        /\ m2 = msgs' /\ at = "tools" /\ at' = "tools"
    BY <1>2 DEF Talk!CallEnds, Talk!Actions, Endings
<1>4. /\ m \in Seq(Messages) /\ History(m) /\ k \in 1..n /\ i \in 1..Len(m) /\ Partly(m, i, n, S)
      /\ k \notin S /\ S \subseteq 1..n /\ k \in Nat
    BY <1>1, <1>2, <1>3 DEF AgentInv, Ended
<1>5. /\ m2 \in Seq(Messages) /\ Len(m2) = Len(m) + 1 /\ m2[Len(m) + 1] = Talk!Answer(k)
      /\ Longer(m, m2) /\ Len(m) \in Nat
    BY <1>2, <1>4, Appending, MessagesAre
<1>6. Talk!Answer(k).role = "tool" /\ Talk!Answer(k).n = k
    BY DEF Talk!Answer
<1>7. /\ running' \in [1..n -> Endings \cup {None}] /\ Ended' = S \cup {k}
  <2>1. None \notin Endings
      BY DEF Talk!AgentAssumption, Endings
  <2>2. running' \in [1..n -> Endings \cup {None}]
      BY <1>1, <1>3
  <2>3. \A j \in 1..n : running'[j] # None <=> j = k \/ running[j] # None
      BY <1>1, <1>3, <1>4, <2>1
  <2>4. Ended' = {j \in 1..n : running'[j] # None} /\ S = {j \in 1..n : running[j] # None}
      BY <1>1, <1>2, <2>2 DEF Ended
  <2> QED
      BY <1>4, <2>2, <2>3, <2>4
<1>8. PICK c \in Nat : c = Talk!Cardinality(S) /\ Talk!Cardinality(S \cup {k}) = c + 1
           /\ c + 1 <= n
  <2>1. Talk!IsFiniteSet(1..n) /\ Talk!Cardinality(1..n) = n
      BY <1>1, FS_Interval, TalkSets
  <2>2. S \cup {k} \subseteq 1..n
      BY <1>4
  <2>3. Talk!IsFiniteSet(S)
      BY <1>4, <2>1, FS_Subset, TalkSets
  <2>4. Talk!Cardinality(S \cup {k}) <= n
      BY <2>1, <2>2, FS_Subset, TalkSets
  <2>5. Talk!Cardinality(S) \in Nat
      BY <2>3, FS_CardinalityType, TalkSets
  <2>6. Talk!Cardinality(S \cup {k}) = Talk!Cardinality(S) + 1
      BY <1>4, <2>3, FS_AddElement, TalkSets
  <2> QED
      BY <2>4, <2>5, <2>6
<1>9. /\ m[i].role = "assistant" /\ m[i].n = n
      /\ Len(m) = i + c /\ S = {m[j].n : j \in (i + 1)..Len(m)}
      /\ \A j \in (i + 1)..Len(m) : m[j].role = "tool"
      /\ \A j \in 1..Len(m) : j # i /\ m[j].role = "assistant" => Talk!AnsweredAt(m, j)
    BY <1>4, <1>8 DEF Partly
<1>10. PICK l : /\ l = Len(m) + 1 /\ l = Len(m2) /\ i < l /\ m2[l].role = "tool" /\ m2[l].n = k
               /\ i \in 1..(l - 1) /\ l = i + c + 1 /\ l <= i + n
  <2>3. Len(m) = i + c /\ c + 1 <= n /\ c \in Nat
      BY <1>8, <1>9
  <2>4. i \in 1..Len(m) /\ Len(m) \in Nat
      BY <1>4, <1>5
  <2>5. i \in Nat
      BY <2>4
  <2>1. Len(m) = i + c /\ c + 1 <= n /\ c \in Nat /\ i \in Nat /\ i \in 1..Len(m) /\ n \in Nat
      BY <1>1, <2>3, <2>4, <2>5
  <2>2. i < Len(m) + 1 /\ i \in 1..((Len(m) + 1) - 1) /\ Len(m) + 1 = i + c + 1
        /\ Len(m) + 1 <= i + n
      BY <1>5, <2>1
  <2> QED
      BY <1>5, <1>6, <2>2
<1>11. m2[i] = m[i] /\ i \in 1..Len(m2)
    BY <1>4, <1>5, <1>10 DEF Longer
<1>12. History(m2)
  <2>1. ASSUME NEW j \in 1..Len(m2), m2[j].role = "tool"
        PROVE  \E q \in 1..(j - 1) : m2[q].role = "assistant" /\ j <= q + m2[q].n
    <3>1. CASE j \in 1..Len(m)
      <4>1. m2[j] = m[j]
          BY <1>5, <3>1 DEF Longer
      <4>2. PICK q \in 1..(j - 1) : m[q].role = "assistant" /\ j <= q + m[q].n
          BY <1>4, <2>1, <3>1, <4>1 DEF History
      <4>3. m2[q] = m[q]
          BY <1>5, <3>1, <4>2 DEF Longer
      <4> QED
          BY <4>2, <4>3
    <3>2. CASE j \notin 1..Len(m)
      <4>1. j = l
          BY <1>5, <1>10, <2>1, <3>2
      <4>2. i \in 1..(j - 1) /\ m2[i].role = "assistant" /\ m2[i].n = n
          BY <1>9, <1>10, <1>11, <4>1
      <4>3. j <= i + n
          BY <1>10, <4>1
      <4> QED
          BY <4>2, <4>3
    <3> QED
        BY <3>1, <3>2
  <2> QED
      BY <1>4, <1>5, <2>1 DEF History, Longer
<1>13. Partly(m2, i, n, S \cup {k})
  <2>1. \A j \in (i + 1)..Len(m2) : j = l
        \/ (j \in (i + 1)..Len(m) /\ j \in 1..Len(m) /\ m2[j] = m[j])
    <3>1. ASSUME NEW j \in (i + 1)..Len(m2), j # l
          PROVE  j \in (i + 1)..Len(m) /\ j \in 1..Len(m)
      <4>1. Len(m) \in Nat /\ i \in 1..Len(m) /\ l = Len(m) + 1 /\ Len(m2) = l
          BY <1>4, <1>5, <1>10
      <4> QED
          BY <3>1, <4>1
    <3> QED
        BY <1>5, <3>1 DEF Longer
  <2>2. \A j \in (i + 1)..Len(m2) : m2[j].role = "tool"
      BY <1>9, <1>10, <2>1
  <2>3. S \cup {k} = {m2[j].n : j \in (i + 1)..Len(m2)}
    <3>1. l \in (i + 1)..Len(m2) /\ \A j \in (i + 1)..Len(m) : j \in (i + 1)..Len(m2)
          /\ m2[j] = m[j]
        BY <1>4, <1>5, <1>10 DEF Longer
    <3>2. ASSUME NEW x \in S \cup {k} PROVE \E j \in (i + 1)..Len(m2) : x = m2[j].n
        BY <1>9, <1>10, <3>1
    <3>3. ASSUME NEW j \in (i + 1)..Len(m2) PROVE m2[j].n \in S \cup {k}
        BY <1>9, <1>10, <2>1
    <3> QED
        BY <3>2, <3>3
  <2>4. \A j \in 1..Len(m2) : j # i /\ m2[j].role = "assistant" => Talk!AnsweredAt(m2, j)
    <3>1. ASSUME NEW j \in 1..Len(m2), j # i, m2[j].role = "assistant"
          PROVE Talk!AnsweredAt(m2, j)
      <4>1. j \in 1..Len(m) /\ m2[j] = m[j]
          BY <1>5, <1>10, <3>1 DEF Longer
      <4> QED
          BY <1>4, <1>5, <1>9, <3>1, <4>1, AnsweredStays
    <3> QED
        BY <3>1
  <2>5. Len(m2) = i + Talk!Cardinality(S \cup {k})
    <3>1. i + c + 1 = i + (c + 1)
        OBVIOUS
    <3> QED
        BY <1>8, <1>10, <3>1
  <2> QED
      BY <1>9, <1>11, <2>2, <2>3, <2>4, <2>5 DEF Partly
<1>14. Partly(msgs', i, n, Ended') /\ History(msgs') /\ msgs' \in Seq(Messages)
    BY <1>3, <1>5, <1>7, <1>12, <1>13
<1>15. i \in 1..Len(msgs')
    BY <1>3, <1>11
<1> QED
    BY <1>1, <1>3, <1>7, <1>14, <1>15 DEF AgentInv, MayAsk

LEMMA ApplyStep == ASSUME Talk!AgentAssumption, AgentInv, Talk!Apply PROVE AgentInv'
<1>1. PICK n \in Nat \ {0}, i \in 1..Len(msgs) :
        running \in [1..n -> Endings \cup {None}] /\ Partly(msgs, i, n, Ended)
    BY DEF AgentInv, Talk!Apply
<1>2. PICK m, c, x : /\ m = msgs /\ c
                        = Talk!Cardinality({k \in DOMAIN running : running[k] = "note"})
                     /\ x = [k \in 1..c |-> Talk!Msg("user")]
    OBVIOUS
<1>3. at = "tools" /\ at' = "ready" /\ msgs' = m \o x
      /\ \A k \in DOMAIN running : running[k] # None
    BY <1>2 DEF Talk!Apply, Talk!WhenAll
<1>4. /\ m \in Seq(Messages) /\ History(m) /\ i \in 1..Len(m) /\ Partly(m, i, n, 1..n)
      /\ Len(m) \in Nat
  <2>1. Ended = 1..n
      BY <1>1, <1>3 DEF Ended
  <2> QED
      BY <1>1, <1>2, <2>1, LenProperties DEF AgentInv
<1>5. c \in Nat
  <2>1. Talk!IsFiniteSet(1..n)
      BY <1>1, FS_Interval, TalkSets
  <2>2. {k \in DOMAIN running : running[k] = "note"} \subseteq 1..n
      BY <1>1
  <2> QED
      BY <1>2, <2>1, <2>2, FS_Subset, FS_CardinalityType, TalkSets
<1>6. x \in Seq(Messages) /\ Len(x) = c /\ \A k \in 1..c : x[k].role = "user"
    BY <1>2, <1>5, MessagesAre DEF Talk!Msg
\* All calls have their answers.
<1>7. /\ m[i].role = "assistant" /\ m[i].n = n /\ Len(m) = i + n
      /\ 1..n = {m[j].n : j \in (i + 1)..Len(m)}
      /\ \A j \in (i + 1)..Len(m) : m[j].role = "tool"
      /\ \A j \in 1..Len(m) : j # i /\ m[j].role = "assistant" => Talk!AnsweredAt(m, j)
  <2>1. Talk!Cardinality(1..n) = n
      BY <1>1, FS_Interval, TalkSets
  <2> QED
      BY <1>4, <2>1 DEF Partly
<1>8. Complete(m)
  <2>1. Talk!AnsweredAt(m, i)
      BY <1>1, <1>7 DEF Talk!AnsweredAt
  <2> QED
      BY <1>7, <2>1 DEF Complete
<1>9. PICK m2 : m2 = m \o x /\ m2 = msgs'
    BY <1>3
<1>10. /\ m2 \in Seq(Messages) /\ Len(m2) = Len(m) + c /\ Longer(m, m2)
       /\ \A j \in 1..c : m2[Len(m) + j] = x[j]
  <2>1. m \in Seq(Messages) /\ x \in Seq(Messages) /\ m2 = m \o x
      BY <1>4, <1>6, <1>9
  <2>2. m2 \in Seq(Messages) /\ Len(m2) = Len(m) + Len(x) /\ Longer(m, m2)
      BY <2>1, Adding
  <2>3. \A j \in 1..Len(x) : m2[Len(m) + j] = x[j]
      BY <2>1, Adding
  <2>4. Len(x) = c
      BY <1>6
  <2> QED
      BY <2>2, <2>3, <2>4
<1>11. \A j \in (Len(m) + 1)..Len(m2) : m2[j].role = "user"
  <2>1. ASSUME NEW j \in (Len(m) + 1)..Len(m2) PROVE m2[j].role = "user"
    <3>1. j - Len(m) \in 1..c /\ Len(m) + (j - Len(m)) = j
        BY <1>4, <1>5, <1>10
    <3>2. m2[Len(m) + (j - Len(m))] = x[j - Len(m)]
        BY <1>10, <3>1
    <3> QED
        BY <1>6, <3>1, <3>2
  <2> QED
      BY <2>1
<1>12. History(m2) /\ Complete(m2)
    BY <1>4, <1>8, <1>10, <1>11, HistoryGrows, CompleteGrows
<1>13. m2[Len(m2)].role # "assistant"
  <2>1. CASE c = 0
    <3>1. Len(m2) = Len(m) /\ Len(m) \in (i + 1)..Len(m) /\ Len(m) \in 1..Len(m)
        BY <1>1, <1>4, <1>7, <1>10, <2>1
    <3> QED
        BY <1>7, <1>10, <3>1 DEF Longer
  <2>2. CASE c # 0
    <3>1. Len(m2) \in (Len(m) + 1)..Len(m2)
        BY <1>4, <1>5, <1>10, <2>2
    <3> QED
        BY <1>11, <3>1
  <2> QED
      BY <2>1, <2>2
<1> QED
    BY <1>3, <1>9, <1>10, <1>12, <1>13, WholeLog DEF Places

\* A piece of a sequence.
LEMMA Piece ==
  ASSUME NEW m \in Seq(Messages), NEW f \in Nat \ {0}, f <= Len(m) + 1
  PROVE  /\ SubSeq(m, f, Len(m)) \in Seq(Messages) /\ Len(SubSeq(m, f, Len(m))) = Len(m) - f + 1
         /\ \A j \in 1..(Len(m) - f + 1) : SubSeq(m, f, Len(m))[j] = m[f + j - 1]
<1>1. Len(m) \in Nat /\ \A j \in f..Len(m) : m[j] \in Messages
  <2>1. Len(m) \in Nat
      BY LenProperties
  <2>2. \A j \in f..Len(m) : j \in 1..Len(m)
      BY <2>1
  <2> QED
      BY <2>1, <2>2, ElementOfSeq
<1> QED
    BY <1>1, SubSeqProperties

\* m2 is m compressed: the prompts, a request to go on, and m from the reply at p.
Compressed(m, m2, p) ==
  /\ p \in 3..Len(m) /\ m[p].role = "assistant" /\ Len(m2) = Len(m) - p + 4
  /\ m2[1] = m[1] /\ m2[2] = m[2] /\ m2[3] = Talk!Msg("user")
  /\ \A j \in p..Len(m) : m2[j - p + 4] = m[j]
  /\ \A j \in 4..Len(m2) : m2[j] = m[j + p - 4]

LEMMA FromAReply ==
  ASSUME NEW m \in Seq(Messages), Talk!FromAssistant(m) # <<>>
  PROVE  \E p \in 1..Len(m) : m[p].role = "assistant"
         /\ Talk!FromAssistant(m) = SubSeq(m, p, Len(m))
<1>1. Len(m) \in Nat
    BY LenProperties
<1>2. PICK f \in Nat \ {0} : f = (2 * Len(m)) \div 3 + 1 /\ f <= Len(m) + 1
    BY <1>1
<1>3. PICK post : post = Talk!LastThird(m) /\ post = SubSeq(m, f, Len(m))
    BY <1>2 DEF Talk!LastThird
<1>4. /\ post \in Seq(Messages) /\ Len(post) = Len(m) - f + 1
      /\ \A j \in 1..(Len(m) - f + 1) : post[j] = m[f + j - 1]
  <2>1. post \in Seq(Messages) /\ Len(post) = Len(m) - f + 1
      BY <1>2, <1>3, Piece
  <2>2. \A j \in 1..(Len(m) - f + 1) : post[j] = m[f + j - 1]
      BY <1>2, <1>3, Piece
  <2> QED
      BY <2>1, <2>2
<1>5. PICK starts : starts = {k \in 1..Len(post) : post[k].role = "assistant"}
    OBVIOUS
<1>6. starts # {} /\ Talk!FromAssistant(m)
        = SubSeq(post, CHOOSE k \in starts : (\A j \in starts : k <= j), Len(post))
    BY <1>3, <1>5 DEF Talk!FromAssistant
<1>7. starts \in SUBSET Nat
  <2>1. Len(post) \in Nat
      BY <1>4, LenProperties
  <2> QED
      BY <1>5, <2>1
<1>8. \E k \in starts : \A j \in starts : k <= j
    BY <1>6, <1>7, LeastNumber
<1>9. PICK k \in starts : k = (CHOOSE l \in starts : (\A j \in starts : l <= j))
    BY <1>8
<1>10. k \in 1..Len(post) /\ k \in 1..(Len(m) - f + 1) /\ post[k].role = "assistant"
    BY <1>4, <1>5, <1>9
<1>11. PICK p \in 1..Len(m) : p = f + k - 1
  <2>1. k \in Nat /\ k >= 1 /\ k <= Len(m) - f + 1
      BY <1>1, <1>2, <1>10
  <2> QED
      BY <1>1, <1>2, <2>1
<1>12. m[p].role = "assistant"
    BY <1>4, <1>10, <1>11
<1>13. PICK x : x = Talk!FromAssistant(m) /\ x = SubSeq(post, k, Len(post))
    BY <1>6, <1>9
<1>14. /\ x \in Seq(Messages) /\ Len(x) = Len(post) - k + 1
       /\ \A j \in 1..(Len(post) - k + 1) : x[j] = post[k + j - 1]
  <2>1. Len(post) \in Nat
      BY <1>4, LenProperties
  <2>2. k \in Nat \ {0} /\ k <= Len(post) + 1
      BY <1>10, <2>1
  <2> QED
      BY <1>4, <1>13, <2>2, Piece
<1>15. PICK y : y = SubSeq(m, p, Len(m))
    OBVIOUS
<1>16. /\ y \in Seq(Messages) /\ Len(y) = Len(m) - p + 1
       /\ \A j \in 1..(Len(m) - p + 1) : y[j] = m[p + j - 1]
  <2>1. p \in Nat \ {0} /\ p <= Len(m) + 1
      BY <1>1
  <2> QED
      BY <1>15, <2>1, Piece
<1>17. Len(x) = Len(y) /\ Len(post) - k + 1 = Len(m) - p + 1
  <2>1. k \in Nat
      BY <1>7
  <2>2. Len(post) - k + 1 = Len(m) - p + 1
      BY <1>1, <1>2, <1>4, <1>11, <2>1
  <2> QED
      BY <1>14, <1>16, <2>2
<1>18. ASSUME NEW j \in 1..Len(x) PROVE x[j] = y[j]
  <2>1. x[j] = post[k + j - 1] /\ y[j] = m[p + j - 1]
      BY <1>14, <1>16, <1>17
  <2>2. k \in Nat /\ j \in Nat /\ j >= 1 /\ j <= Len(m) - p + 1 /\ k >= 1
      BY <1>1, <1>7, <1>10, <1>16, <1>17
  <2>3. k + j - 1 \in 1..(Len(m) - f + 1) /\ f + (k + j - 1) - 1 = p + j - 1
      BY <1>1, <1>2, <1>11, <2>2
  <2> QED
      BY <1>4, <2>1, <2>3
<1>19. x = y
    BY <1>14, <1>16, <1>17, <1>18, SeqEqual
<1> QED
    BY <1>12, <1>13, <1>15, <1>19

LEMMA Compressing ==
  ASSUME NEW m \in Seq(Messages), History(m), Talk!FromAssistant(m) # <<>>,
         NEW m2, m2 = SubSeq(m, 1, 2) \o <<Talk!Msg("user")>> \o Talk!FromAssistant(m)
  PROVE  m2 \in Seq(Messages) /\ \E p \in 3..Len(m) : Compressed(m, m2, p)
<1>1. PICK p \in 1..Len(m) : m[p].role = "assistant"
           /\ Talk!FromAssistant(m) = SubSeq(m, p, Len(m))
    BY FromAReply
<1>2. Len(m) \in Nat /\ Len(m) >= 2 /\ m[1].role = "system" /\ m[2].role = "user"
    BY LenProperties DEF History
<1>3. p \in 3..Len(m)
  <2>1. p # 1 /\ p # 2
      BY <1>1, <1>2
  <2> QED
      BY <1>2, <2>1
<1>4. PICK y : y = Talk!FromAssistant(m) /\ y = SubSeq(m, p, Len(m))
    BY <1>1
<1>5. /\ y \in Seq(Messages) /\ Len(y) = Len(m) - p + 1
      /\ \A j \in 1..(Len(m) - p + 1) : y[j] = m[p + j - 1]
  <2>1. p \in Nat \ {0} /\ p <= Len(m) + 1
      BY <1>2, <1>3
  <2>2. y \in Seq(Messages) /\ Len(y) = Len(m) - p + 1
      BY <1>4, <2>1, Piece
  <2>3. \A j \in 1..(Len(m) - p + 1) : y[j] = m[p + j - 1]
      BY <1>4, <2>1, Piece
  <2> QED
      BY <2>2, <2>3
<1>6. PICK x : x = SubSeq(m, 1, 2)
    OBVIOUS
<1>7. x \in Seq(Messages) /\ Len(x) = 2 /\ x[1] = m[1] /\ x[2] = m[2]
  <2>1. \A j \in 1..2 : m[j] \in Messages
    <3>1. \A j \in 1..2 : j \in 1..Len(m)
        BY <1>2
    <3> QED
        BY <3>1, ElementOfSeq
  <2>2. 1 \in Int /\ 2 \in Int
      OBVIOUS
  <2>3. x \in Seq(Messages) /\ Len(x) = IF 1 <= 2 THEN 2 - 1 + 1 ELSE 0
      BY <1>6, <2>1, <2>2, SubSeqProperties
  <2>4. \A j \in 1..(2 - 1 + 1) : x[j] = m[1 + j - 1]
      BY <1>6, <2>1, <2>2, SubSeqProperties
  <2>5. 1 \in 1..(2 - 1 + 1) /\ 2 \in 1..(2 - 1 + 1)
      OBVIOUS
  <2> QED
      BY <2>3, <2>4, <2>5
<1>8. PICK u, xu : u = <<Talk!Msg("user")>> /\ xu = x \o u
    OBVIOUS
<1>9. u \in Seq(Messages) /\ Len(u) = 1 /\ u[1] = Talk!Msg("user")
    BY <1>8, MessagesAre
<1>10. /\ xu \in Seq(Messages) /\ Len(xu) = 3 /\ xu[1] = m[1] /\ xu[2] = m[2]
       /\ xu[3] = Talk!Msg("user")
  <2>1. xu \in Seq(Messages) /\ Len(xu) = Len(x) + Len(u) /\ Longer(x, xu)
      BY <1>7, <1>8, <1>9, Adding
  <2>3. 1 \in 1..Len(u)
      BY <1>9
  <2>6. x \in Seq(Messages) /\ u \in Seq(Messages) /\ xu = x \o u
      BY <1>7, <1>8, <1>9
  <2>4. xu[Len(x) + 1] = u[1]
      BY <2>3, <2>6, Added
  <2>5. xu[1] = x[1] /\ xu[2] = x[2]
      BY <1>7, <2>1 DEF Longer
  <2> QED
      BY <1>7, <1>9, <2>1, <2>4, <2>5
<1>11. m2 = xu \o y
    BY <1>4, <1>6, <1>8
<1>12. m2 \in Seq(Messages) /\ Len(m2) = Len(m) - p + 4 /\ Longer(xu, m2)
  <2>1. m2 \in Seq(Messages) /\ Len(m2) = Len(xu) + Len(y) /\ Longer(xu, m2)
      BY <1>5, <1>10, <1>11, Adding
  <2>2. 3 + (Len(m) - p + 1) = Len(m) - p + 4
      BY <1>2, <1>3
  <2> QED
      BY <1>5, <1>10, <2>1, <2>2
<1>13. \A j \in 1..Len(y) : m2[3 + j] = y[j]
  <2>2. xu \in Seq(Messages) /\ y \in Seq(Messages)
      BY <1>5, <1>10
  <2>1. ASSUME NEW j \in 1..Len(y) PROVE m2[Len(xu) + j] = y[j]
      BY <1>11, <2>1, <2>2, Added
  <2> QED
      BY <1>10, <2>1
<1>14. m2[1] = m[1] /\ m2[2] = m[2] /\ m2[3] = Talk!Msg("user")
    BY <1>10, <1>12 DEF Longer
<1>15. ASSUME NEW j \in p..Len(m) PROVE m2[j - p + 4] = m[j]
  <2>1. /\ j - p + 1 \in 1..(Len(m) - p + 1) /\ 3 + (j - p + 1) = j - p + 4
        /\ p + (j - p + 1) - 1 = j
      BY <1>2, <1>3, <1>15
  <2>2. m2[3 + (j - p + 1)] = y[j - p + 1] /\ y[j - p + 1] = m[p + (j - p + 1) - 1]
      BY <1>5, <1>13, <2>1
  <2> QED
      BY <2>1, <2>2
<1>16. ASSUME NEW j \in 4..Len(m2) PROVE m2[j] = m[j + p - 4]
  <2>1. j + p - 4 \in p..Len(m) /\ (j + p - 4) - p + 4 = j
      BY <1>2, <1>3, <1>12, <1>16
  <2> QED
      BY <1>15, <2>1
<1> QED
    BY <1>1, <1>3, <1>12, <1>14, <1>15, <1>16 DEF Compressed

\* What compressed messages keep.
LEMMA KeepsHistory ==
  ASSUME NEW m \in Seq(Messages), NEW m2 \in Seq(Messages), NEW p \in 3..Len(m),
         Compressed(m, m2, p), History(m), Complete(m)
  PROVE  History(m2) /\ Complete(m2) /\ m2[Len(m2)] = m[Len(m)]
<1>1. Len(m) \in Nat /\ Len(m2) \in Nat /\ p \in Nat
    BY LenProperties
<1>2. /\ m[p].role = "assistant" /\ Len(m2) = Len(m) - p + 4
      /\ m2[1] = m[1] /\ m2[2] = m[2] /\ m2[3] = Talk!Msg("user")
      /\ \A j \in p..Len(m) : m2[j - p + 4] = m[j]
      /\ \A j \in 4..Len(m2) : m2[j] = m[j + p - 4]
    BY DEF Compressed
<1>3. m2[1].role = "system" /\ m2[2].role = "user" /\ m2[3].role = "user"
    BY <1>2 DEF History, Talk!Msg
<1>4. ASSUME NEW i \in 1..Len(m2), m2[i].role \in {"tool", "assistant"}
      PROVE  i \in 4..Len(m2) /\ i + p - 4 \in p..Len(m) /\ i + p - 4 \in 1..Len(m)
             /\ m2[i] = m[i + p - 4]
  <2>1. i # 1 /\ i # 2 /\ i # 3
      BY <1>3, <1>4
  <2>3. Len(m2) = Len(m) - p + 4 /\ i \in 1..Len(m2) /\ p >= 3
      BY <1>2
  <2>2. i \in 4..Len(m2) /\ i + p - 4 \in p..Len(m) /\ i + p - 4 \in 1..Len(m)
      BY <1>1, <2>1, <2>3
  <2> QED
      BY <1>2, <2>2
<1>5. ASSUME NEW i \in 1..Len(m2), m2[i].role = "tool"
      PROVE  \E j \in 1..(i - 1) : m2[j].role = "assistant" /\ i <= j + m2[j].n
  <2>1. PICK q \in p..Len(m) : q = i + p - 4 /\ m2[i] = m[q] /\ q \in 1..Len(m)
      BY <1>4, <1>5
  <2>2. PICK j \in 1..(q - 1) : m[j].role = "assistant" /\ q <= j + m[j].n
      BY <1>5, <2>1 DEF History
  <2>3. j \in 1..Len(m) /\ Talk!AnsweredAt(m, j) /\ j \in Nat
      BY <1>1, <2>1, <2>2 DEF Complete
  <2>9. m[j] \in Messages
      BY <2>3, ElementOfSeq
  <2>4. PICK n \in Nat : n = m[j].n
      BY <2>9 DEF Messages
  <2>5. \A l \in (j + 1)..(j + n) : m[l].role = "tool"
      BY <2>3, <2>4 DEF Talk!AnsweredAt
  <2>6. j >= p
    <3>1. ASSUME ~ (j >= p) PROVE FALSE
      <4>1. p \in (j + 1)..(j + n)
          BY <1>1, <2>1, <2>2, <2>3, <2>4, <3>1
      <4> QED
          BY <1>2, <2>5, <4>1
    <3> QED
        BY <3>1
  <2>7. j \in p..Len(m) /\ j - p + 4 \in 1..(i - 1) /\ i <= (j - p + 4) + n
      BY <1>1, <2>1, <2>2, <2>3, <2>4, <2>6
  <2>8. m2[j - p + 4] = m[j]
      BY <1>2, <2>7
  <2> QED
      BY <2>2, <2>4, <2>7, <2>8
<1>6. ASSUME NEW i \in 1..Len(m2), m2[i].role = "assistant" PROVE Talk!AnsweredAt(m2, i)
  <2>1. PICK q \in p..Len(m) : q = i + p - 4 /\ m2[i] = m[q] /\ q \in 1..Len(m)
      BY <1>4, <1>6
  <2>9. m[q] \in Messages
      BY <2>1, ElementOfSeq
  <2>2. PICK n \in Nat : n = m[q].n /\ n = m2[i].n
      BY <2>1, <2>9 DEF Messages
  <2>3. /\ Len(m) >= q + n /\ {m[j].n : j \in (q + 1)..(q + n)} = 1..n
        /\ \A j \in (q + 1)..(q + n) : m[j].role = "tool"
    <3>1. Talk!AnsweredAt(m, q)
        BY <1>6, <2>1 DEF Complete
    <3> QED
        BY <2>2, <3>1 DEF Talk!AnsweredAt
  <2>4. /\ i \in Nat /\ q \in Nat /\ q >= p /\ Len(m2) >= i + n
      BY <1>1, <1>2, <2>1, <2>2, <2>3
  <2>5. ASSUME NEW j \in (i + 1)..(i + n)
        PROVE  j + p - 4 \in (q + 1)..(q + n) /\ m2[j] = m[j + p - 4]
    <3>2. q = i + p - 4 /\ i \in Nat /\ Len(m2) >= i + n /\ n \in Nat /\ i >= 4
      <4>1. q = i + p - 4 /\ i \in Nat /\ Len(m2) >= i + n /\ q >= p
          BY <2>1, <2>4
      <4> QED
          BY <1>1, <2>2, <4>1
    <3>1. j + p - 4 \in (q + 1)..(q + n) /\ j \in 4..Len(m2)
        BY <1>1, <2>5, <3>2
    <3> QED
        BY <1>2, <3>1
  <2>6. ASSUME NEW j \in (q + 1)..(q + n)
        PROVE  j - p + 4 \in (i + 1)..(i + n) /\ m2[j - p + 4] = m[j]
    <3>2. q = i + p - 4 /\ Len(m) >= q + n /\ q \in p..Len(m) /\ n \in Nat
        BY <2>1, <2>2, <2>3
    <3>1. j - p + 4 \in (i + 1)..(i + n) /\ j \in p..Len(m)
        BY <1>1, <2>4, <2>6, <3>2
    <3> QED
        BY <1>2, <3>1
  <2>7. \A j \in (i + 1)..(i + n) : m2[j].role = "tool"
      BY <2>3, <2>5
  <2>8. {m2[j].n : j \in (i + 1)..(i + n)} = {m[j].n : j \in (q + 1)..(q + n)}
    <3>1. ASSUME NEW j \in (i + 1)..(i + n) PROVE \E l \in (q + 1)..(q + n) : m2[j].n = m[l].n
        BY <2>5
    <3>2. ASSUME NEW j \in (q + 1)..(q + n) PROVE \E l \in (i + 1)..(i + n) : m[j].n = m2[l].n
        BY <2>6
    <3>3. PICK A, B : A = (i + 1)..(i + n) /\ B = (q + 1)..(q + n)
        OBVIOUS
    <3>4. \A j \in A : \E l \in B : m2[j].n = m[l].n
        BY <3>1, <3>3
    <3>5. \A j \in B : \E l \in A : m[j].n = m2[l].n
        BY <3>2, <3>3
    <3>6. {m2[j].n : j \in A} = {m[j].n : j \in B}
        BY ONLY <3>4, <3>5, SameNumbers
    <3> QED
        BY <3>3, <3>6
  <2> QED
      BY <2>2, <2>3, <2>4, <2>7, <2>8 DEF Talk!AnsweredAt
<1>7. Len(m2) \in 4..Len(m2) /\ Len(m2) + p - 4 = Len(m)
    BY <1>1, <1>2
<1>8. m2[Len(m2)] = m[Len(m)]
    BY <1>2, <1>7
<1>9. History(m2)
  <2>1. Len(m2) >= 2
      BY <1>1, <1>7
  <2> QED
      BY <1>3, <1>5, <2>1 DEF History
<1> QED
    BY <1>6, <1>8, <1>9 DEF Complete

LEMMA ExceededStep == ASSUME AgentInv, Talk!Exceeded PROVE AgentInv'
<1>1. PICK m, f : m = msgs /\ f = Talk!FromAssistant(m)
    OBVIOUS
<1>2. m \in Seq(Messages) /\ History(m) /\ Complete(m) /\ m[Len(m)].role # "assistant"
    BY <1>1 DEF AgentInv, Talk!Exceeded, MayAsk
<1>3. CASE f = <<>>
  <2>1. UNCHANGED msgs /\ at' = "over" /\ at = "asking"
      BY <1>1, <1>3 DEF Talk!Exceeded, Talk!Raise
  <2> QED
      BY <2>1, SameLog DEF MayAsk, Places
<1>4. CASE f # <<>>
  <2>1. PICK m2 : m2 = SubSeq(m, 1, 2) \o <<Talk!Msg("user")>> \o Talk!FromAssistant(m)
      OBVIOUS
  <2>2. msgs' = m2 /\ at' = "asking again"
      BY <1>1, <1>4, <2>1 DEF Talk!Exceeded
  <2>3. m2 \in Seq(Messages) /\ \E p \in 3..Len(m) : Compressed(m, m2, p)
      BY <1>1, <1>2, <1>4, <2>1, Compressing
  <2>4. History(m2) /\ Complete(m2) /\ m2[Len(m2)] = m[Len(m)]
      BY <1>2, <2>3, KeepsHistory
  <2>5. at' \in Places \ {"tools"}
      BY <2>2 DEF Places
  <2> QED
      BY <1>2, <2>2, <2>3, <2>4, <2>5, WholeLog
<1> QED
    BY <1>3, <1>4

LEMMA AgentNext == ASSUME Talk!AgentAssumption, AgentInv, Talk!Next PROVE AgentInv'
  BY AskStep, ExceededStep, FailsStep, ReplyStep, ApplyStep, ResumeStep, ReturnStep, CallEndsStep
     DEF Talk!Next

LEMMA AgentStutters == ASSUME AgentInv, UNCHANGED Talk!agentVars PROVE AgentInv'
<1>1. UNCHANGED <<msgs, at, running, terminated, outcome>>
    BY DEF Talk!agentVars
<1>2. History(msgs)' /\ Complete(msgs)' <=> History(msgs) /\ Complete(msgs)
    BY <1>1 DEF History, Complete, Talk!AnsweredAt
<1>3. \A n, i : Partly(msgs, i, n, Ended) => Partly(msgs', i, n, Ended')
    BY <1>1 DEF Partly, Ended, Talk!AnsweredAt
<1>4. MayAsk' <=> MayAsk
    BY <1>1 DEF MayAsk
<1> QED
    BY <1>1, <1>2, <1>3, <1>4 DEF AgentInv

LEMMA AgentAgrees == ASSUME AgentInv PROVE Talk!RequestsWellFormed
<1>1. SUFFICES ASSUME at \in {"asking", "asking again"} PROVE Talk!RequestsWellFormed
    BY DEF Talk!RequestsWellFormed
<1>2. PICK m : m = msgs
    OBVIOUS
<1>3. m \in Seq(Messages) /\ History(m) /\ Complete(m) /\ m[Len(m)].role # "assistant"
    BY <1>1, <1>2 DEF AgentInv, MayAsk
<1>4. DOMAIN m = 1..Len(m)
    BY <1>3, LenProperties
<1>5. \A i \in DOMAIN m : m[i].role = "assistant" => Talk!AnsweredAt(m, i)
    BY <1>3, <1>4 DEF Complete
<1>6. /\ m[1].role = "system" /\ m[2].role = "user"
      /\ \A i \in DOMAIN m : m[i].role = "tool" =>
           \E j \in 1..(i - 1) : m[j].role = "assistant" /\ i <= j + m[j].n
    BY <1>3, <1>4 DEF History
<1> QED
    BY <1>2, <1>3, <1>5, <1>6 DEF Talk!RequestsWellFormed

LEMMA LastReply ==
  ASSUME NEW m \in Seq(Messages), NEW q \in 1..Len(m), m[q].role = "assistant",
         \A j \in (q + 1)..Len(m) : m[j].role # "assistant"
  PROVE  Talk!SinceReply(m) = SubSeq(m, q + 1, Len(m))
<1>1. Len(m) \in Nat /\ DOMAIN m = 1..Len(m)
    BY LenProperties
<1>2. PICK said : said = {i \in DOMAIN m : m[i].role = "assistant"} \cup {0}
    OBVIOUS
<1>3. q \in said /\ \A j \in said : j <= q
    BY <1>1, <1>2
<1>4. said \in SUBSET Int /\ q \in Int
    BY <1>1, <1>2
<1>5. q = (CHOOSE i \in said : \A j \in said : j <= i)
  <2>1. PICK i \in said :
        i = (CHOOSE k \in said : \A j \in said : j <= k) /\ \A j \in said : j <= i
      BY <1>3
  <2>2. i <= q /\ q <= i /\ i \in Int
      BY <1>3, <1>4, <2>1
  <2> QED
      BY <1>4, <2>1, <2>2
<1> QED
    BY <1>2, <1>5 DEF Talk!SinceReply

LEMMA KeepsTheTurn ==
  ASSUME NEW m \in Seq(Messages), NEW m2 \in Seq(Messages), NEW p \in 3..Len(m),
         Compressed(m, m2, p)
  PROVE  Talk!SinceReply(m2) = Talk!SinceReply(m)
<1>1. Len(m) \in Nat /\ Len(m2) \in Nat /\ p \in Nat
    BY LenProperties
<1>2. /\ m[p].role = "assistant" /\ Len(m2) = Len(m) - p + 4
      /\ \A j \in p..Len(m) : m2[j - p + 4] = m[j]
      /\ \A j \in 4..Len(m2) : m2[j] = m[j + p - 4]
    BY DEF Compressed
\* The last reply.
<1>3. PICK q \in p..Len(m) :
        m[q].role = "assistant" /\ \A j \in (q + 1)..Len(m) : m[j].role # "assistant"
  <2>1. PICK K : K = {k \in 0..(Len(m) - p) : m[Len(m) - k].role = "assistant"}
      OBVIOUS
  <2>2. K \in SUBSET Nat
      BY <2>1
  <2>3. Len(m) - p \in K
    <3>1. Len(m) - p \in 0..(Len(m) - p) /\ Len(m) - (Len(m) - p) = p
        BY <1>1
    <3> QED
        BY <1>2, <2>1, <3>1
  <2>4. PICK k \in K : \A j \in K : k <= j
      BY <2>2, <2>3, LeastNumber
  <2>5. PICK q : q = Len(m) - k
      OBVIOUS
  <2>6. q \in p..Len(m) /\ k = Len(m) - q /\ k \in Nat
      BY <1>1, <2>1, <2>5
  <2>7. m[q].role = "assistant"
      BY <2>1, <2>5
  <2>8. ASSUME NEW j \in (q + 1)..Len(m), m[j].role = "assistant" PROVE FALSE
    <3>1. Len(m) - j \in 0..(Len(m) - p) /\ Len(m) - (Len(m) - j) = j /\ ~ (k <= Len(m) - j)
        BY <1>1, <2>6, <2>8
    <3>2. Len(m) - j \in K
        BY <2>1, <2>8, <3>1
    <3> QED
        BY <2>4, <3>1, <3>2
  <2> QED
      BY <2>6, <2>7, <2>8
<1>4. PICK r : r = q - p + 4
    OBVIOUS
<1>5. r \in 1..Len(m2) /\ r \in 4..Len(m2) /\ q = r + p - 4 /\ q \in 1..Len(m) /\ q \in Nat
      /\ r \in Nat
  <2>1. Len(m2) = Len(m) - p + 4 /\ p >= 3
      BY <1>2
  <2> QED
      BY <1>1, <1>4, <2>1
<1>6. m2[r].role = "assistant"
    BY <1>2, <1>3, <1>4
<1>7. ASSUME NEW j \in (r + 1)..Len(m2) PROVE m2[j].role # "assistant"
  <2>1. Len(m2) = Len(m) - p + 4
      BY <1>2
  <2>2. j \in 4..Len(m2) /\ j + p - 4 \in (q + 1)..Len(m)
      BY <1>1, <1>5, <1>7, <2>1
  <2> QED
      BY <1>2, <1>3, <2>2
<1>8. Talk!SinceReply(m) = SubSeq(m, q + 1, Len(m))
    BY <1>3, <1>5, LastReply
<1>9. Talk!SinceReply(m2) = SubSeq(m2, r + 1, Len(m2))
    BY <1>5, <1>6, <1>7, LastReply
<1>10. PICK a, b : a = SubSeq(m, q + 1, Len(m)) /\ b = SubSeq(m2, r + 1, Len(m2))
    OBVIOUS
<1>11. /\ a \in Seq(Messages) /\ Len(a) = Len(m) - (q + 1) + 1
       /\ \A j \in 1..(Len(m) - (q + 1) + 1) : a[j] = m[(q + 1) + j - 1]
  <2>1. q + 1 \in Nat \ {0} /\ q + 1 <= Len(m) + 1
      BY <1>1, <1>5
  <2>2. a \in Seq(Messages) /\ Len(a) = Len(m) - (q + 1) + 1
      BY <1>10, <2>1, Piece
  <2>3. \A j \in 1..(Len(m) - (q + 1) + 1) : a[j] = m[(q + 1) + j - 1]
      BY <1>10, <2>1, Piece
  <2> QED
      BY <2>2, <2>3
<1>12. /\ b \in Seq(Messages) /\ Len(b) = Len(m2) - (r + 1) + 1
       /\ \A j \in 1..(Len(m2) - (r + 1) + 1) : b[j] = m2[(r + 1) + j - 1]
  <2>1. r + 1 \in Nat \ {0} /\ r + 1 <= Len(m2) + 1
      BY <1>1, <1>5
  <2>2. b \in Seq(Messages) /\ Len(b) = Len(m2) - (r + 1) + 1
      BY <1>10, <2>1, Piece
  <2>3. \A j \in 1..(Len(m2) - (r + 1) + 1) : b[j] = m2[(r + 1) + j - 1]
      BY <1>10, <2>1, Piece
  <2> QED
      BY <2>2, <2>3
<1>13. Len(m) - (q + 1) + 1 = Len(m2) - (r + 1) + 1
  <2>1. Len(m2) = Len(m) - p + 4
      BY <1>2
  <2> QED
      BY <1>1, <1>5, <2>1
<1>14. ASSUME NEW j \in 1..Len(a) PROVE a[j] = b[j]
  <2>1. a[j] = m[(q + 1) + j - 1] /\ b[j] = m2[(r + 1) + j - 1]
      BY <1>11, <1>12, <1>13
  <2>2. Len(m2) = Len(m) - p + 4 /\ Len(a) = Len(m) - (q + 1) + 1
      BY <1>2, <1>11
  <2>3. /\ (r + 1) + j - 1 \in 4..Len(m2)
        /\ ((r + 1) + j - 1) + p - 4 = (q + 1) + j - 1
      BY <1>1, <1>5, <2>2
  <2> QED
      BY <1>2, <2>1, <2>3
<1>15. a = b
    BY <1>11, <1>12, <1>13, <1>14, SeqEqual
<1> QED
    BY <1>8, <1>9, <1>10, <1>15

LEMMA TurnIsKept == ASSUME AgentInv, Talk!Next PROVE Talk!KeptTurn
<1>1. SUFFICES ASSUME at = "asking", at' = "asking again"
      PROVE  Talk!SinceReply(msgs') = Talk!SinceReply(msgs)
    BY DEF Talk!KeptTurn
<1>2. Talk!Exceeded \/ Talk!Fails
    BY <1>1 DEF Talk!Next, Talk!Ask, Talk!Reply, Talk!Apply, Talk!Resume, Talk!Return,
       Talk!CallEnds
<1>3. CASE Talk!Fails
    BY <1>3 DEF Talk!Fails
<1>4. CASE Talk!Exceeded
  <2>1. PICK m, f : m = msgs /\ f = Talk!FromAssistant(m)
      OBVIOUS
  <2>2. m \in Seq(Messages) /\ History(m)
      BY <2>1 DEF AgentInv
  <2>3. f # <<>>
      BY <1>1, <1>4, <2>1 DEF Talk!Exceeded, Talk!Raise
  <2>4. PICK m2 : m2 = SubSeq(m, 1, 2) \o <<Talk!Msg("user")>> \o Talk!FromAssistant(m)
             /\ msgs' = m2
      BY <1>4, <2>1, <2>3 DEF Talk!Exceeded
  <2>5. m2 \in Seq(Messages) /\ \E p \in 3..Len(m) : Compressed(m, m2, p)
      BY <2>1, <2>2, <2>3, <2>4, Compressing
  <2>6. Talk!SinceReply(m2) = Talk!SinceReply(m)
      BY <2>2, <2>5, KeepsTheTurn
  <2> QED
      BY <2>1, <2>4, <2>6
<1> QED
    BY <1>2, <1>3, <1>4

(***************************************************************************)
(* The sources of a project (crs/common/vfs).  Layers that are applied one *)
(* after the other hold what is read file by file, and a hash says what    *)
(* tree it is of: with the diff that the task has, and the edits.          *)
(***************************************************************************)
\* A path below a place, and what is left of it there.
LEMMA BelowPlace ==
  ASSUME NEW N, NEW x \in N, NEW n \in Seq(N)
  PROVE  /\ <<x>> \o n \in Seq(N) /\ Tail(<<x>> \o n) = n /\ Tree!IsPrefix(<<x>>, <<x>> \o n)
         /\ Len(<<x>> \o n) = Len(n) + 1
<1>1. <<x>> \in Seq(N) /\ Len(<<x>>) = 1 /\ <<x>>[1] = x
    OBVIOUS
<1>2. PICK p : p = <<x>> \o n
    OBVIOUS
<1>3. /\ p \in Seq(N) /\ Len(p) = Len(n) + 1
      /\ \A i \in 1..Len(p) : p[i] = IF i <= 1 THEN x ELSE n[i - 1]
  <2>1. /\ p \in Seq(N) /\ Len(p) = Len(<<x>>) + Len(n)
        /\ \A i \in 1..Len(p) : p[i] = IF i <= Len(<<x>>) THEN <<x>>[i] ELSE n[i - Len(<<x>>)]
      BY <1>1, <1>2, ConcatProperties
  <2>2. Len(p) = Len(n) + 1
      BY <1>1, <2>1
  <2>3. ASSUME NEW i \in 1..Len(p) PROVE p[i] = IF i <= 1 THEN x ELSE n[i - 1]
    <3>1. p[i] = IF i <= 1 THEN <<x>>[i] ELSE n[i - 1]
        BY <1>1, <2>1
    <3>2. i <= 1 => i = 1
        OBVIOUS
    <3> QED
        BY <1>1, <3>1, <3>2
  <2> QED
      BY <2>1, <2>2, <2>3
<1>4. Tail(p) = n
  <2>1. Len(n) \in Nat /\ p # <<>>
      BY <1>3
  <2>2. Tail(p) \in Seq(N) /\ Len(Tail(p)) = Len(n)
      BY <1>3, <2>1
  <2>3. ASSUME NEW i \in 1..Len(n) PROVE Tail(p)[i] = n[i]
    <3>1. i + 1 \in 1..Len(p) /\ ~ (i + 1 <= 1) /\ (i + 1) - 1 = i
        BY <1>3, <2>1
    <3>2. p[i + 1] = n[i]
        BY <1>3, <3>1
    <3>3. Tail(p)[i] = p[i + 1]
        BY <1>3, <2>1, <2>2, HeadTailProperties
    <3> QED
        BY <3>2, <3>3
  <2> QED
      BY <2>2, <2>3, SeqEqual
<1>5. Len(p) >= 1 /\ Len(p) \in Nat /\ p[1] = x
  <2>1. Len(n) \in Nat /\ 1 \in 1..Len(p)
      BY <1>3
  <2> QED
      BY <1>3, <2>1
<1>6. SubSeq(p, 1, 1) = SubSeq(<<x>>, 1, 1)
  <2>1. PICK a : a = SubSeq(p, 1, 1) /\ a \in Seq(N) /\ Len(a) = 1 /\ a[1] = x
    <3>1. SubSeq(p, 1, 1) \in Seq(N) /\ Len(SubSeq(p, 1, 1)) = 1
        BY <1>3, <1>5
    <3>2. SubSeq(p, 1, 1)[1] = p[1]
        BY <1>3, <1>5
    <3> QED
        BY <1>5, <3>1, <3>2
  <2>2. PICK b : b = SubSeq(<<x>>, 1, 1) /\ b \in Seq(N) /\ Len(b) = 1 /\ b[1] = x
    <3>1. PICK one \in Seq(N) : one = <<x>> /\ Len(one) = 1 /\ one[1] = x
        BY <1>1
    <3>2. SubSeq(one, 1, 1) \in Seq(N) /\ Len(SubSeq(one, 1, 1)) = 1
        BY <3>1
    <3>3. SubSeq(one, 1, 1)[1] = one[1]
        BY <3>1
    <3> QED
        BY <3>1, <3>2, <3>3
  <2>3. a = b
    <3>1. \A i \in 1..Len(a) : a[i] = b[i]
        BY <2>1, <2>2
    <3> QED
        BY <2>1, <2>2, <3>1, SeqEqual
  <2> QED
      BY <2>1, <2>2, <2>3
<1>7. Tree!IsPrefix(<<x>>, p)
    BY <1>1, <1>5, <1>6 DEF Tree!IsPrefix
<1> QED
    BY <1>2, <1>3, <1>4, <1>7

LEMMA AtPlace ==
  ASSUME NEW N, NEW x \in N, NEW p \in Seq(N), Tree!IsPrefix(<<x>>, p)
  PROVE  Tail(p) \in Seq(N) /\ p = <<x>> \o Tail(p) /\ p # <<>> /\ Tail(p) = SubSeq(p, 2, Len(p))
<1>1. Len(p) >= 1 /\ Len(p) \in Nat /\ p # <<>>
    BY DEF Tree!IsPrefix
<1>2. p[1] = x
  <2>1. SubSeq(<<x>>, 1, 1) = SubSeq(p, 1, 1)
      BY DEF Tree!IsPrefix
  <2>2. SubSeq(<<x>>, 1, 1)[1] = x /\ SubSeq(p, 1, 1)[1] = p[1]
      BY <1>1
  <2> QED
      BY <2>1, <2>2
<1>3. PICK t \in Seq(N) : t = Tail(p)
    BY <1>1, HeadTailProperties
<1>4. Len(t) = Len(p) - 1 /\ \A i \in 1..Len(t) : t[i] = p[i + 1]
    BY <1>1, <1>3, HeadTailProperties
<1>5. PICK u : u = <<x>> \o t
    OBVIOUS
<1>6. /\ u \in Seq(N) /\ Len(u) = Len(p) /\ <<x>>[1] = x
      /\ \A i \in 1..Len(u) : u[i] = IF i <= 1 THEN <<x>>[i] ELSE t[i - 1]
  <2>1. <<x>> \in Seq(N) /\ Len(<<x>>) = 1 /\ <<x>>[1] = x
      OBVIOUS
  <2>2. /\ u \in Seq(N) /\ Len(u) = Len(<<x>>) + Len(t)
        /\ \A i \in 1..Len(u) : u[i] = IF i <= Len(<<x>>) THEN <<x>>[i] ELSE t[i - Len(<<x>>)]
      BY <1>3, <1>5, <2>1, ConcatProperties
  <2>3. Len(u) = Len(p)
      BY <1>1, <1>4, <2>1, <2>2
  <2> QED
      BY <2>1, <2>2, <2>3
<1>7. \A i \in 1..Len(p) : u[i] = p[i]
  <2>1. SUFFICES ASSUME NEW i \in 1..Len(p) PROVE u[i] = p[i]
      OBVIOUS
  <2>2. CASE i = 1
      BY <1>2, <1>6, <2>2
  <2>3. CASE i # 1
    <3>1. i - 1 \in 1..Len(t) /\ (i - 1) + 1 = i /\ ~ (i <= 1)
        BY <1>1, <1>4, <2>3
    <3>2. t[i - 1] = p[i]
        BY <1>4, <3>1
    <3> QED
        BY <1>6, <3>1, <3>2
  <2> QED
      BY <2>2, <2>3
<1>8. u = p
    BY <1>6, <1>7, SeqEqual
<1>9. t = SubSeq(p, 2, Len(p))
  <2>1. PICK v : v = SubSeq(p, 2, Len(p))
      OBVIOUS
  <2>2. v \in Seq(N) /\ Len(v) = Len(p) - 1 /\ \A i \in 1..(Len(p) - 1) : v[i] = p[i + 1]
      BY <1>1, <2>1
  <2>3. v = t
      BY <1>4, <2>2, SeqEqual
  <2> QED
      BY <2>1, <2>3
<1> QED
    BY <1>1, <1>3, <1>5, <1>8, <1>9

(***************************************************************************)
(* Layers one after the other.                                             *)
(***************************************************************************)
LEMMA LargestOf ==
  ASSUME NEW n \in Nat, NEW T \in SUBSET (1..n), T # {}
  PROVE  Tree!Max(T) \in T /\ \A y \in T : Tree!Max(T) >= y
<1>1. PICK m \in {n - t : t \in T} : \A k \in {n - t : t \in T} : m <= k
  <2>1. \A t \in T : n - t \in Nat
      OBVIOUS
  <2>2. PICK gaps : gaps = {n - t : t \in T}
      OBVIOUS
  <2>3. gaps \in SUBSET Nat /\ gaps # {}
      BY <2>1, <2>2
  <2>4. \E m \in gaps : \A k \in gaps : m <= k
      BY <2>3, LeastNumber
  <2> QED
      BY <2>2, <2>4
<1>2. PICK x \in T : m = n - x
    BY <1>1
<1>3. \A y \in T : x >= y
  <2>1. SUFFICES ASSUME NEW y \in T PROVE x >= y
      OBVIOUS
  <2>2. n - x <= n - y
      BY <1>1, <1>2
  <2> QED
      BY <2>2
<1> QED
    BY <1>3 DEF Tree!Max

\* g has the trees of the layers at each set of places.
FoldsOf(g, s, D) ==
  g = [T \in SUBSET D |->
         IF T = {} THEN Tree!Empty ELSE Tree!ApplyLayer(g[T \ {Tree!Max(T)}], s[Tree!Max(T)])]

FoldsUpTo(g, s, D, n) ==
  /\ g = [T \in SUBSET D |-> g[T]]
  /\ \A T \in SUBSET D : Cardinality(T) <= n =>
       g[T] = IF T = {} THEN Tree!Empty ELSE Tree!ApplyLayer(g[T \ {Tree!Max(T)}], s[Tree!Max(T)])

LEMMA FoldsExist ==
  ASSUME NEW s, NEW l \in Nat PROVE \E g : FoldsOf(g, s, 1..l)
<1> DEFINE D == 1..l
           Lacking == {n \in Nat : ~ \E g : FoldsUpTo(g, s, D, n)}
<1>1. /\ IsFiniteSet(D) /\ Cardinality(D) \in Nat
      /\ \A T \in SUBSET D : /\ IsFiniteSet(T) /\ Cardinality(T) \in Nat
                             /\ Cardinality(T) <= Cardinality(D)
                                /\ (Cardinality(T) = 0 <=> T = {})
  <2>1. IsFiniteSet(D)
      BY FS_Interval
  <2> QED
      BY <2>1, FS_Subset, FS_CardinalityType, FS_EmptySet
<1> HIDE DEF D
<1>2. SUFFICES Cardinality(D) \notin Lacking
  <2>1. PICK g : FoldsUpTo(g, s, D, Cardinality(D))
      BY <1>1, <1>2
  <2>2. \A T \in SUBSET D :
          g[T] = IF T = {} THEN Tree!Empty ELSE Tree!ApplyLayer(g[T \ {Tree!Max(T)}], s[Tree!Max(T)])
      BY <1>1, <2>1 DEF FoldsUpTo
  <2>3. FoldsOf(g, s, D)
      BY <2>1, <2>2 DEF FoldsUpTo, FoldsOf
  <2> QED
      BY <2>3 DEF D
<1>3. SUFFICES ASSUME Lacking # {} PROVE FALSE
    OBVIOUS
<1>4. PICK n \in Lacking : \A m \in Lacking : n <= m
  <2>1. Lacking \in SUBSET Nat
      OBVIOUS
  <2> HIDE DEF Lacking
  <2> QED
      BY <1>3, <2>1, LeastNumber
<1>5. n # 0
  <2> DEFINE g == [T \in SUBSET D |-> Tree!Empty]
  <2>1. FoldsUpTo(g, s, D, 0)
      BY <1>1 DEF FoldsUpTo
  <2> QED
      BY <2>1
<1>6. n \in Nat /\ n - 1 \in Nat /\ n - 1 \notin Lacking
  <2>1. n \in Nat /\ n - 1 \in Nat /\ ~ (n <= n - 1)
      BY <1>5
  <2> QED
      BY <1>4, <2>1
<1>7. PICK h : FoldsUpTo(h, s, D, n - 1)
    BY <1>6
<1> DEFINE g == [T \in SUBSET D |-> IF Cardinality(T) <= n - 1 THEN h[T]
                                    ELSE IF T = {} THEN Tree!Empty
                                    ELSE Tree!ApplyLayer(h[T \ {Tree!Max(T)}], s[Tree!Max(T)])]
<1>8. ASSUME NEW T \in SUBSET D, Cardinality(T) <= n
      PROVE  g[T] = IF T = {} THEN Tree!Empty
                    ELSE Tree!ApplyLayer(g[T \ {Tree!Max(T)}], s[Tree!Max(T)])
  <2>1. CASE T = {}
      BY <1>1, <1>6, <1>7, <2>1 DEF FoldsUpTo
  <2>2. CASE T # {}
    <3>1. T \ {Tree!Max(T)} \in SUBSET D /\ Cardinality(T \ {Tree!Max(T)}) <= n - 1
      <4>1. Tree!Max(T) \in T
          BY <2>2, LargestOf DEF D
      <4>2. Cardinality(T \ {Tree!Max(T)}) = Cardinality(T) - 1 /\ Cardinality(T) \in Nat
          BY <1>1, <4>1, FS_RemoveElement
      <4> QED
          BY <1>6, <1>8, <4>2
    <3>2. g[T \ {Tree!Max(T)}] = h[T \ {Tree!Max(T)}]
        BY <3>1
    <3>3. g[T] = Tree!ApplyLayer(h[T \ {Tree!Max(T)}], s[Tree!Max(T)])
        BY <1>7, <2>2 DEF FoldsUpTo
    <3> QED
        BY <2>2, <3>2, <3>3
  <2> QED
      BY <2>1, <2>2
<1>9. g = [T \in SUBSET D |-> g[T]]
    OBVIOUS
<1> HIDE DEF g
<1>10. FoldsUpTo(g, s, D, n)
    BY <1>8, <1>9 DEF FoldsUpTo
<1> QED
    BY <1>10

\* The tree after each layer.
TreesOf(m, s) == m[0] = Tree!Empty /\ \A k \in 1..Len(s) : m[k] = Tree!ApplyLayer(m[k - 1], s[k])

LEMMA MaterializedIs ==
  ASSUME NEW S, NEW s \in Seq(S) PROVE \E m : TreesOf(m, s) /\ Tree!Materialized(s) = m[Len(s)]
<1>1. Len(s) \in Nat /\ DOMAIN s = 1..Len(s)
    OBVIOUS
<1>2. Tree!Materialized(s) = (CHOOSE g : FoldsOf(g, s, 1..Len(s)))[1..Len(s)]
    BY <1>1 DEF Tree!Materialized, Tree!FoldLeft, Tree!MapThenFoldSet, FoldsOf
<1>3. PICK g : FoldsOf(g, s, 1..Len(s)) /\ Tree!Materialized(s) = g[1..Len(s)]
  <2>1. \E g : FoldsOf(g, s, 1..Len(s))
      BY <1>1, FoldsExist
  <2> QED
      BY <1>2, <2>1
<1>4. ASSUME NEW k \in 1..Len(s) PROVE g[1..k] = Tree!ApplyLayer(g[1..(k - 1)], s[k])
  <2>1. 1..k \in SUBSET (1..Len(s)) /\ k \in 1..k /\ 1..k # {}
    <3>1. k \in 1..k /\ \A y \in 1..k : y \in 1..Len(s)
        BY <1>1
    <3> QED
        BY <3>1
  <2>2. Tree!Max(1..k) \in 1..k /\ \A y \in 1..k : Tree!Max(1..k) >= y
      BY <1>1, <2>1, LargestOf
  <2>3. Tree!Max(1..k) = k
      BY <2>1, <2>2
  <2>4. (1..k) \ {k} = 1..(k - 1)
      OBVIOUS
  <2>5. g[1..k] = Tree!ApplyLayer(g[(1..k) \ {Tree!Max(1..k)}], s[Tree!Max(1..k)])
      BY <1>3, <2>1 DEF FoldsOf
  <2> QED
      BY <2>3, <2>4, <2>5
<1>5. g[1..0] = Tree!Empty
  <2>1. 1..0 = {}
      OBVIOUS
  <2> QED
      BY <1>3, <2>1 DEF FoldsOf
<1>6. PICK m : m = [k \in 0..Len(s) |-> g[1..k]]
    OBVIOUS
<1>7. m[0] = Tree!Empty /\ m[Len(s)] = Tree!Materialized(s)
    BY <1>1, <1>3, <1>5, <1>6
<1>8. ASSUME NEW k \in 1..Len(s) PROVE m[k] = Tree!ApplyLayer(m[k - 1], s[k])
  <2>1. m[k] = g[1..k] /\ m[k - 1] = g[1..(k - 1)]
      BY <1>1, <1>6
  <2> QED
      BY <1>4, <2>1
<1> QED
    BY <1>7, <1>8 DEF TreesOf

LEMMA OneMoreLayer ==
  ASSUME NEW S, NEW s \in Seq(S), NEW x \in S
  PROVE  Tree!Materialized(Append(s, x)) = Tree!ApplyLayer(Tree!Materialized(s), x)
<1>1. PICK t \in Seq(S) : t = Append(s, x)
    BY AppendProperties
<1>2. /\ Len(s) \in Nat /\ Len(t) = Len(s) + 1 /\ t[Len(t)] = x
      /\ \A k \in 1..Len(s) : t[k] = s[k]
    BY <1>1, AppendProperties
<1>3. PICK m : TreesOf(m, s) /\ Tree!Materialized(s) = m[Len(s)]
    BY MaterializedIs
<1>4. PICK l : TreesOf(l, t) /\ Tree!Materialized(t) = l[Len(t)]
    BY MaterializedIs
<1>5. SUFFICES l[Len(s)] = m[Len(s)]
  <2>1. l[Len(t)] = Tree!ApplyLayer(l[Len(t) - 1], t[Len(t)]) /\ Len(t) - 1 = Len(s)
      BY <1>2, <1>4 DEF TreesOf
  <2> QED
      BY <1>1, <1>2, <1>3, <1>4, <1>5, <2>1
<1> DEFINE Bad == {k \in 0..Len(s) : l[k] # m[k]}
<1>6. SUFFICES ASSUME Bad # {} PROVE FALSE
    BY <1>2
<1>7. PICK k \in Bad : \A j \in Bad : k <= j
  <2>1. Bad \in SUBSET Nat
      BY <1>2
  <2> HIDE DEF Bad
  <2> QED
      BY <1>6, <2>1, LeastNumber
<1>8. k # 0
    BY <1>3, <1>4 DEF TreesOf
<1>9. k \in 1..Len(s) /\ k \in 1..Len(t) /\ k - 1 \in 0..Len(s) /\ ~ (k <= k - 1)
    BY <1>2, <1>8
<1>10. l[k - 1] = m[k - 1]
    BY <1>7, <1>9
<1>11. l[k] = Tree!ApplyLayer(l[k - 1], t[k]) /\ m[k] = Tree!ApplyLayer(m[k - 1], s[k])
       /\ t[k] = s[k]
    BY <1>2, <1>3, <1>4, <1>9 DEF TreesOf
<1> QED
    BY <1>7, <1>10, <1>11

LEMMA ThreeLayers ==
  ASSUME NEW a, NEW b, NEW c
  PROVE  Tree!Materialized(<<a, b, c>>)
         = Tree!ApplyLayer(Tree!ApplyLayer(Tree!ApplyLayer(Tree!Empty, a), b), c)
<1>1. PICK s \in Seq({a, b, c}) : s = <<a, b, c>> /\ Len(s) = 3 /\ s[1] = a /\ s[2] = b
           /\ s[3] = c
  <2>1. PICK S : S = {a, b, c}
      OBVIOUS
  <2>2. a \in S /\ b \in S /\ c \in S
      BY <2>1
  <2>3. <<a, b, c>> \in Seq(S)
      BY <2>2
  <2>4. Len(<<a, b, c>>) = 3 /\ <<a, b, c>>[1] = a /\ <<a, b, c>>[2] = b /\ <<a, b, c>>[3] = c
      OBVIOUS
  <2> QED
      BY <2>1, <2>3, <2>4
<1>2. PICK m : TreesOf(m, s) /\ Tree!Materialized(s) = m[3]
    BY <1>1, MaterializedIs
<1>3. m[0] = Tree!Empty /\ \A k \in 1..3 : m[k] = Tree!ApplyLayer(m[k - 1], s[k])
    BY <1>1, <1>2 DEF TreesOf
<1>4. m[1] = Tree!ApplyLayer(m[0], a)
  <2>1. m[1] = Tree!ApplyLayer(m[1 - 1], s[1])
      BY <1>3
  <2> QED
      BY <1>1, <2>1
<1>5. m[2] = Tree!ApplyLayer(m[1], b)
  <2>1. m[2] = Tree!ApplyLayer(m[2 - 1], s[2])
      BY <1>3
  <2> QED
      BY <1>1, <2>1
<1>6. m[3] = Tree!ApplyLayer(m[2], c)
  <2>1. m[3] = Tree!ApplyLayer(m[3 - 1], s[3])
      BY <1>3
  <2> QED
      BY <1>1, <2>1
<1> QED
    BY <1>1, <1>2, <1>3, <1>4, <1>5, <1>6

\* A layer that the image keeps where it is.
LEMMA PlacedTar ==
  ASSUME NEW files, DOMAIN files \subseteq Seq(PathNames)
  PROVE  Tree!Placed(Tree!Tar(files)) = [p \in DOMAIN files |-> files[p]]
<1>1. ASSUME NEW p \in Seq(PathNames) PROVE Tree!IsPrefix(<<>>, p)
             /\ <<>> \o SubSeq(p, 1, Len(p)) = p
  <2>1. PICK q : q = SubSeq(p, 1, Len(p))
      OBVIOUS
  <2>2. q \in Seq(PathNames) /\ Len(q) = Len(p) /\ \A i \in 1..Len(p) : q[i] = p[i]
      BY <2>1
  <2>3. q = p
      BY <2>2, SeqEqual
  <2>4. Tree!IsPrefix(<<>>, p)
    <3>1. SubSeq(<<>>, 1, 0) = <<>> /\ SubSeq(p, 1, 0) = <<>>
        BY SubSeqEmpty
    <3>2. Len(<<>>) = 0 /\ Len(p) \in Nat
        OBVIOUS
    <3> QED
        BY <3>1, <3>2 DEF Tree!IsPrefix
  <2> QED
      BY <2>1, <2>3, <2>4, ConcatEmptySeq
<1>2. PICK l : l = Tree!Tar(files)
    OBVIOUS
<1>3. l.at = <<>> /\ l.under = <<>> /\ l.files = files /\ Len(l.at) = 0 /\ Len(l.under) = 0
    BY <1>2 DEF Tree!Tar, Tree!Empty
<1>4. {p \in DOMAIN l.files : Tree!IsPrefix(l.under, p)} = DOMAIN files
    BY <1>1, <1>3
<1>5. \A p \in DOMAIN files : l.at \o SubSeq(p, Len(l.under) + 1, Len(p)) = p
  <2>1. SUFFICES ASSUME NEW p \in DOMAIN files
                 PROVE  l.at \o SubSeq(p, Len(l.under) + 1, Len(p)) = p
      OBVIOUS
  <2>2. Len(l.under) + 1 = 1
      BY <1>3
  <2> QED
      BY <1>1, <1>3, <2>2
<1>6. \A p \in DOMAIN files : l.under \o SubSeq(p, Len(l.at) + 1, Len(p)) = p
  <2>1. SUFFICES ASSUME NEW p \in DOMAIN files
                 PROVE  l.under \o SubSeq(p, Len(l.at) + 1, Len(p)) = p
      OBVIOUS
  <2>2. Len(l.at) + 1 = 1
      BY <1>3
  <2> QED
      BY <1>1, <1>3, <2>2
<1>7. {l.at \o SubSeq(p, Len(l.under) + 1, Len(p)) : p \in DOMAIN files} = DOMAIN files
    BY <1>5
<1>8. Tree!Placed(l) = [q \in DOMAIN files |-> files[l.under \o SubSeq(q, Len(l.at) + 1, Len(q))]]
    BY <1>3, <1>4, <1>7 DEF Tree!Placed
<1> QED
    BY <1>2, <1>6, <1>8

\* The tar of the repository and what the diff changes, at the mount.
Moved(l) == [l EXCEPT !.at = Tree!Mount, !.under = Tree!Folder]

LEMMA PlacedMoved ==
  ASSUME Tree!VfsAssumption, NEW files, DOMAIN files \subseteq Seq(PathNames),
       \A p \in DOMAIN files : Tree!IsPrefix(Tree!Folder, p)
  PROVE  Tree!Placed(Moved(Tree!Tar(files)))
         = [q \in {Tree!Mount \o Tail(p) : p \in DOMAIN files} |-> files[Tree!Folder \o Tail(q)]]
<1>1. PICK l : l = Moved(Tree!Tar(files))
    OBVIOUS
<1>2. l.at = Tree!Mount /\ l.under = Tree!Folder /\ l.files = files
    BY <1>1 DEF Moved, Tree!Tar
<1>3. Len(Tree!Mount) + 1 = 2 /\ Len(Tree!Folder) + 1 = 2
    BY DEF Tree!Mount, Tree!Folder
<1>4. \A p \in DOMAIN files : SubSeq(p, 2, Len(p)) = Tail(p) /\ Tail(p) \in Seq(PathNames)
  <2>1. SUFFICES ASSUME NEW p \in DOMAIN files
                 PROVE  SubSeq(p, 2, Len(p)) = Tail(p) /\ Tail(p) \in Seq(PathNames)
      OBVIOUS
  <2>2. p \in Seq(PathNames) /\ Tree!IsPrefix(<<"top">>, p)
      BY DEF Tree!Folder
  <2>3. "top" \in PathNames
      BY DEF Tree!VfsAssumption
  <2> QED
      BY <2>2, <2>3, AtPlace
<1>5. {p \in DOMAIN l.files : Tree!IsPrefix(l.under, p)} = DOMAIN files
    BY <1>2
<1>6. PICK D : D = {Tree!Mount \o Tail(p) : p \in DOMAIN files}
    OBVIOUS
<1>7. {l.at \o SubSeq(p, Len(l.under) + 1, Len(p)) : p \in DOMAIN files} = D
    BY <1>2, <1>3, <1>4, <1>6
<1>8. \A q \in D : SubSeq(q, 2, Len(q)) = Tail(q)
  <2>1. SUFFICES ASSUME NEW q \in D PROVE SubSeq(q, 2, Len(q)) = Tail(q)
      OBVIOUS
  <2>2. PICK n \in Seq(PathNames) : q = Tree!Mount \o n
      BY <1>4, <1>6
  <2>3. q = <<"repo">> \o n
      BY <2>2 DEF Tree!Mount
  <2>4. "repo" \in PathNames
      BY DEF Tree!VfsAssumption
  <2>5. q \in Seq(PathNames) /\ Tree!IsPrefix(<<"repo">>, q)
      BY <2>2, <2>3, <2>4, BelowPlace
  <2> QED
      BY <2>4, <2>5, AtPlace
<1>9. Tree!Placed(l) = [q \in D |-> files[l.under \o SubSeq(q, Len(l.at) + 1, Len(q))]]
    BY <1>2, <1>5, <1>7 DEF Tree!Placed
<1>10. Tree!Placed(l) = [q \in D |-> files[Tree!Folder \o Tail(q)]]
  <2>1. ASSUME NEW q \in D PROVE files[l.under \o SubSeq(q, Len(l.at) + 1, Len(q))]
               = files[Tree!Folder \o Tail(q)]
      BY <1>2, <1>3, <1>8
  <2> QED
      BY <1>9, <2>1
<1> QED
    BY <1>1, <1>6, <1>10

(***************************************************************************)
(* What the layers of a project hold.                                      *)
(***************************************************************************)
NoMount == Tree!Without(Image, {Tree!Mount})
RepoNames == {Tail(p) : p \in DOMAIN Repo}
RepoAt == [q \in {Tree!Mount \o n : n \in RepoNames} |-> Repo[Tree!Folder \o Tail(q)]]
DiffAt == [q \in {Tree!Mount \o n : n \in Tree!Patched} |-> delta[Tail(q)]]

LEMMA TreeFacts ==
  ASSUME NEW t, Tree!IsTree(t)
  PROVE  DOMAIN t \subseteq Seq(PathNames) /\ \A p \in DOMAIN t : t[p] # Gone
    BY DEF Tree!IsTree

LEMMA NamesFacts ==
  ASSUME Tree!VfsAssumption, NEW n \in Seq(PathNames)
  PROVE  /\ Tree!Mount \o n \in Seq(PathNames) /\ Tail(Tree!Mount \o n) = n
            /\ Tree!IsPrefix(Tree!Mount, Tree!Mount \o n)
         /\ Tree!Folder \o n \in Seq(PathNames) /\ Tail(Tree!Folder \o n) = n
            /\ Tree!IsPrefix(Tree!Folder, Tree!Folder \o n)
<1>1. "repo" \in PathNames /\ "top" \in PathNames
    BY DEF Tree!VfsAssumption
<1>2. Tree!Mount = <<"repo">> /\ Tree!Folder = <<"top">>
    BY DEF Tree!Mount, Tree!Folder
<1>3. <<"repo">> \o n \in Seq(PathNames) /\ Tail(<<"repo">> \o n) = n
      /\ Tree!IsPrefix(<<"repo">>, <<"repo">> \o n)
    BY <1>1, BelowPlace
<1>4. <<"top">> \o n \in Seq(PathNames) /\ Tail(<<"top">> \o n) = n
      /\ Tree!IsPrefix(<<"top">>, <<"top">> \o n)
    BY <1>1, BelowPlace
<1> QED
    BY <1>2, <1>3, <1>4

LEMMA BelowMount ==
  ASSUME Tree!VfsAssumption, NEW p \in Seq(PathNames), Tree!IsPrefix(Tree!Mount, p)
  PROVE  Tail(p) \in Seq(PathNames) /\ p = Tree!Mount \o Tail(p)
<1>1. "repo" \in PathNames /\ Tree!IsPrefix(<<"repo">>, p)
    BY DEF Tree!VfsAssumption, Tree!Mount
<1>2. Tail(p) \in Seq(PathNames) /\ p = <<"repo">> \o Tail(p)
    BY <1>1, AtPlace
<1> QED
    BY <1>2 DEF Tree!Mount

LEMMA InFolder ==
  ASSUME Tree!VfsAssumption, NEW p \in DOMAIN Repo
  PROVE  p \in Seq(PathNames) /\ Tree!IsPrefix(Tree!Folder, p) /\ Tail(p) \in Seq(PathNames)
         /\ p = Tree!Folder \o Tail(p)
<1>1. "top" \in PathNames /\ p \in Seq(PathNames) /\ Tree!IsPrefix(Tree!Folder, p)
    BY TreeFacts DEF Tree!VfsAssumption
<1>2. Tree!IsPrefix(<<"top">>, p)
    BY <1>1 DEF Tree!Folder
<1>3. Tail(p) \in Seq(PathNames) /\ p = <<"top">> \o Tail(p)
    BY <1>1, <1>2, AtPlace
<1> QED
    BY <1>1, <1>3 DEF Tree!Folder

\* A name is in the repository when its path is in the tar.
LEMMA RepoHas ==
  ASSUME Tree!VfsAssumption
  PROVE  RepoNames \subseteq Seq(PathNames)
         /\ \A n \in Seq(PathNames) : n \in RepoNames <=> Tree!Folder \o n \in DOMAIN Repo
<1>1. RepoNames \subseteq Seq(PathNames)
    BY InFolder DEF RepoNames
<1>2. ASSUME NEW n \in Seq(PathNames) PROVE n \in RepoNames <=> Tree!Folder \o n \in DOMAIN Repo
  <2>1. ASSUME n \in RepoNames PROVE Tree!Folder \o n \in DOMAIN Repo
    <3>1. PICK p \in DOMAIN Repo : n = Tail(p)
        BY <2>1 DEF RepoNames
    <3> QED
        BY <3>1, InFolder
  <2>2. ASSUME Tree!Folder \o n \in DOMAIN Repo PROVE n \in RepoNames
    <3>1. n = Tail(Tree!Folder \o n)
        BY NamesFacts
    <3> QED
        BY <2>2, <3>1 DEF RepoNames
  <2> QED
      BY <2>1, <2>2
<1> QED
    BY <1>1, <1>2

\* What the diff changes, and what it deletes.
LEMMA DiffFacts ==
  ASSUME Tree!VfsAssumption, delta \in Deltas
  PROVE  /\ DOMAIN delta \subseteq Seq(PathNames) /\ Tree!Patched \subseteq DOMAIN delta
         /\ \A n \in DOMAIN delta : n \in Tree!Patched <=> delta[n] # Gone
         /\ DOMAIN Tree!DiffFiles = {Tree!Folder \o n : n \in Tree!Patched}
         /\ DOMAIN Tree!DiffFiles \subseteq Seq(PathNames)
            /\ \A p \in DOMAIN Tree!DiffFiles : Tree!IsPrefix(Tree!Folder, p)
         /\ (Tree!DiffFiles = Tree!Empty => Tree!Patched = {})
         /\ \A n \in Seq(PathNames) : Tree!Folder \o n \in DOMAIN Tree!DiffFiles <=> n
            \in Tree!Patched
         /\ \A n \in Tree!Patched : Tree!DiffFiles[Tree!Folder \o n] = delta[n]
         /\ \A n \in Seq(PathNames) : Tree!Folder \o n \in Tree!DiffDeleted <=> n
            \in DOMAIN delta \ Tree!Patched
<1>1. /\ DOMAIN delta \subseteq Seq(PathNames) /\ Tree!Patched \subseteq DOMAIN delta
      /\ \A n \in DOMAIN delta : n \in Tree!Patched <=> delta[n] # Gone
    BY DEF Tree!VfsAssumption, Tree!Patched
<1>2. Tree!DiffFiles = [p \in {Tree!Folder \o n : n \in Tree!Patched} |-> delta[Tail(p)]]
    BY DEF Tree!DiffFiles
<1>3. \A n \in DOMAIN delta : /\ Tree!Folder \o n \in Seq(PathNames)
                                 /\ Tree!IsPrefix(Tree!Folder, Tree!Folder \o n)
                              /\ Tail(Tree!Folder \o n) = n
    BY <1>1, NamesFacts
<1>4. PICK P : P = Tree!Patched
    OBVIOUS
<1>5. DOMAIN Tree!DiffFiles = {Tree!Folder \o n : n \in P}
    BY <1>2, <1>4
<1>6. DOMAIN Tree!DiffFiles \subseteq Seq(PathNames)
      /\ \A p \in DOMAIN Tree!DiffFiles : Tree!IsPrefix(Tree!Folder, p)
    BY <1>1, <1>3, <1>4, <1>5
<1>7. ASSUME Tree!DiffFiles = Tree!Empty PROVE P = {}
  <2>1. DOMAIN Tree!Empty = {}
      BY DEF Tree!Empty
  <2> QED
      BY <1>5, <1>7, <2>1
<1>8. ASSUME NEW n \in Seq(PathNames), NEW m \in DOMAIN delta, Tree!Folder \o n = Tree!Folder \o m
      PROVE  n = m
  <2>1. Tail(Tree!Folder \o n) = n
      BY NamesFacts
  <2> QED
      BY <1>3, <1>8, <2>1
<1>9. \A n \in Seq(PathNames) : Tree!Folder \o n \in DOMAIN Tree!DiffFiles <=> n \in P
    BY <1>1, <1>4, <1>5, <1>8
<1>10. \A n \in P : Tree!DiffFiles[Tree!Folder \o n] = delta[n]
    BY <1>1, <1>2, <1>3, <1>4, <1>5
<1>11. \A n \in Seq(PathNames) : Tree!Folder \o n \in Tree!DiffDeleted <=> n \in DOMAIN delta \ P
    BY <1>4, <1>8 DEF Tree!DiffDeleted
<1> QED
    BY <1>1, <1>4, <1>5, <1>6, <1>7, <1>9, <1>10, <1>11

LEMMA OverIs ==
  ASSUME NEW a, NEW b
  PROVE  /\ DOMAIN Tree!Over(a, b) = DOMAIN a \cup DOMAIN b
         /\ \A p \in DOMAIN a \cup DOMAIN b : Tree!Over(a, b)[p] = IF p \in DOMAIN a THEN a[p]
            ELSE b[p]
         /\ Tree!Over(a, b) = [p \in DOMAIN Tree!Over(a, b) |-> Tree!Over(a, b)[p]]
    BY DEF Tree!Over

LEMMA NoMountIs ==
  ASSUME Tree!VfsAssumption
  PROVE  /\ DOMAIN NoMount = {q \in DOMAIN Image : ~ Tree!IsPrefix(Tree!Mount, q)}
         /\ \A q \in DOMAIN NoMount : NoMount[q] = Image[q]
         /\ DOMAIN NoMount \subseteq Seq(PathNames)
         /\ \A q \in DOMAIN Image : Image[q] # Gone
<1>1. /\ DOMAIN NoMount = {q \in DOMAIN Image : ~ Tree!IsPrefix(Tree!Mount, q)}
      /\ \A q \in DOMAIN NoMount : NoMount[q] = Image[q]
    BY DEF NoMount, Tree!Without, Tree!Restrict
<1>2. DOMAIN Image \subseteq Seq(PathNames) /\ \A q \in DOMAIN Image : Image[q] # Gone
    BY TreeFacts DEF Tree!VfsAssumption
<1> QED
    BY <1>1, <1>2

\* What is read of a project is what is intended.
LEMMA IntendedAt ==
  ASSUME Tree!VfsAssumption, delta \in Deltas, NEW project \in Tree!Given,
         NEW p \in Seq(PathNames)
  PROVE  /\ Tree!OfTree(Tree!Intended(project), p) = Tree!MountRead(project, p)
         /\ p \in DOMAIN Tree!Intended(project) <=> Tree!MountRead(project, p) # Gone
<1>1. PICK K : K = Tree!Kept(project)
    OBVIOUS
<1>2. PICK a : a = [q \in {Tree!Mount \o n : n \in K} |-> Tree!FileOf(project, Tail(q))]
    OBVIOUS
<1>3. PICK i : i = Tree!Intended(project) /\ i = Tree!Over(a, NoMount)
    BY <1>1, <1>2 DEF Tree!Intended, NoMount
<1>4. PICK N : N = Tree!NamesOf(project) /\ N = RepoNames \cup DOMAIN Tree!Changes(project)
    BY DEF Tree!NamesOf, RepoNames
<1>5. N \subseteq Seq(PathNames)
  <2>1. DOMAIN Tree!Empty = {}
      BY DEF Tree!Empty
  <2> QED
      BY <1>4, <2>1, RepoHas, DiffFacts DEF Tree!Changes
<1>6. \A n : n \in K <=> n \in N /\ Tree!FileOf(project, n) # Gone
    BY <1>1, <1>4 DEF Tree!Kept
<1>7. \A n \in K : /\ n \in Seq(PathNames) /\ Tail(Tree!Mount \o n) = n
                   /\ Tree!IsPrefix(Tree!Mount, Tree!Mount \o n)
    BY <1>5, <1>6, NamesFacts
<1>8. SUFFICES /\ p \in DOMAIN i <=> Tree!MountRead(project, p) # Gone
               /\ p \in DOMAIN i => i[p] = Tree!MountRead(project, p)
    BY <1>3, <1>8 DEF Tree!OfTree
<1>9. /\ p \in DOMAIN i <=> p \in DOMAIN a \/ p \in DOMAIN NoMount
      /\ p \in DOMAIN i => i[p] = IF p \in DOMAIN a THEN a[p] ELSE NoMount[p]
    BY <1>3 DEF Tree!Over
<1>10. DOMAIN a = {Tree!Mount \o n : n \in K}
    BY <1>2
<1>11. CASE ~ Tree!IsPrefix(Tree!Mount, p)
  <2>1. p \notin DOMAIN a
      BY <1>7, <1>10, <1>11
  <2>2. Tree!MountRead(project, p) = Tree!OfTree(Image, p)
      BY <1>11 DEF Tree!MountRead
  <2>3. p \in DOMAIN NoMount <=> p \in DOMAIN Image
      BY <1>11, NoMountIs
  <2>4. p \in DOMAIN NoMount => NoMount[p] = Image[p] /\ Image[p] # Gone
      BY <2>3, NoMountIs
  <2> QED
      BY <1>9, <2>1, <2>2, <2>3, <2>4 DEF Tree!OfTree
<1>12. CASE Tree!IsPrefix(Tree!Mount, p)
  <2>1. PICK n \in Seq(PathNames) : n = Tail(p) /\ p = Tree!Mount \o n
      BY <1>12, BelowMount
  <2>2. p \notin DOMAIN NoMount
      BY <1>12, NoMountIs
  <2>3. Tree!MountRead(project, p) = Tree!RepoRead(project, Tree!Folder \o n)
      BY <1>12, <2>1 DEF Tree!MountRead
  <2>4. p \in DOMAIN a <=> n \in K
    <3>1. \A m \in K : p = Tree!Mount \o m => m = n
        BY <1>7, <2>1
    <3> QED
        BY <1>10, <2>1, <3>1
  <2>5. p \in DOMAIN a => a[p] = Tree!FileOf(project, n)
      BY <1>2, <1>10, <2>1
  <2>6. /\ n \in RepoNames <=> Tree!Folder \o n \in DOMAIN Repo
        /\ n \in RepoNames => Repo[Tree!Folder \o n] # Gone
      BY RepoHas, TreeFacts DEF Tree!VfsAssumption
  <2>7. SUFFICES /\ n \in K <=> Tree!RepoRead(project, Tree!Folder \o n) # Gone
                 /\ n \in K => Tree!FileOf(project, n) = Tree!RepoRead(project, Tree!Folder \o n)
      BY <1>9, <2>2, <2>3, <2>4, <2>5, <2>7
  <2>8. CASE project = "base"
    <3>1. DOMAIN Tree!Changes("base") = {}
        BY DEF Tree!Changes, Tree!Empty
    <3>2. N = RepoNames /\ Tree!FileOf("base", n) = Repo[Tree!Folder \o n]
        BY <1>4, <2>8, <3>1 DEF Tree!FileOf
    <3>3. Tree!RepoRead("base", Tree!Folder \o n) = Tree!OfTree(Repo, Tree!Folder \o n)
        BY DEF Tree!RepoRead
    <3> QED
        BY <1>6, <2>6, <2>8, <3>2, <3>3 DEF Tree!OfTree
  <2>9. CASE project = "head"
    <3>1. N = RepoNames \cup DOMAIN delta
        BY <1>4, <2>9 DEF Tree!Changes
    <3>2. Tree!FileOf("head", n) = IF n \in DOMAIN delta THEN delta[n] ELSE Repo[Tree!Folder \o n]
        BY DEF Tree!FileOf, Tree!Changes
    <3>3. Tree!RepoRead("head", Tree!Folder \o n)
          = Tree!Overlaid(Tree!DiffFiles, Tree!DiffDeleted, Tree!OfTree(Repo, Tree!Folder \o n),
          Tree!Folder \o n)
        BY DEF Tree!RepoRead
    <3>4. /\ Tree!Folder \o n \in DOMAIN Tree!DiffFiles <=> n \in Tree!Patched
          /\ n \in Tree!Patched => Tree!DiffFiles[Tree!Folder \o n] = delta[n]
          /\ Tree!Folder \o n \in Tree!DiffDeleted <=> n \in DOMAIN delta \ Tree!Patched
          /\ n \in DOMAIN delta => (n \in Tree!Patched <=> delta[n] # Gone)
          /\ n \in Tree!Patched => n \in DOMAIN delta
        BY DiffFacts
    <3>5. CASE n \notin DOMAIN delta
        BY <1>6, <2>6, <2>9, <3>1, <3>2, <3>3, <3>4, <3>5 DEF Tree!Overlaid, Tree!OfTree
    <3>6. CASE n \in DOMAIN delta
        BY <1>6, <2>9, <3>1, <3>2, <3>3, <3>4, <3>6 DEF Tree!Overlaid
    <3> QED
        BY <3>5, <3>6
  <2> QED
      BY <2>8, <2>9 DEF Tree!Given
<1> QED
    BY <1>11, <1>12

(***************************************************************************)
(* What is read of a fork is what is intended, with its edits.             *)
(***************************************************************************)
TreeOf(o) == Tree!Over(o.files, Tree!Intended(o.project))
IsFork(o) ==
  /\ o.project \in Tree!Given /\ o.deleted = {}
  /\ DOMAIN o.files \subseteq Seq(PathNames) /\ \A p \in DOMAIN o.files : o.files[p] # Gone

LEMMA TreesAreTrees ==
  ASSUME Tree!VfsAssumption, delta \in Deltas, NEW o, IsFork(o)
  PROVE  DOMAIN TreeOf(o) \subseteq Seq(PathNames)
<1>1. PICK N : N = Tree!NamesOf(o.project)
               /\ N = RepoNames \cup DOMAIN Tree!Changes(o.project)
    BY DEF Tree!NamesOf, RepoNames
<1>2. N \subseteq Seq(PathNames)
  <2>1. DOMAIN Tree!Empty = {}
      BY DEF Tree!Empty
  <2> QED
      BY <1>1, <2>1, RepoHas, DiffFacts DEF Tree!Changes
<1>3. PICK K : K = Tree!Kept(o.project) /\ K \subseteq Seq(PathNames)
    BY <1>1, <1>2 DEF Tree!Kept
<1>4. \A n \in K : Tree!Mount \o n \in Seq(PathNames)
    BY <1>3, NamesFacts
<1>5. DOMAIN Tree!Intended(o.project) = {Tree!Mount \o n : n \in K} \cup DOMAIN NoMount
    BY <1>3 DEF Tree!Intended, NoMount, Tree!Over
<1>6. DOMAIN Tree!Intended(o.project) \subseteq Seq(PathNames)
    BY <1>4, <1>5, NoMountIs
<1>7. DOMAIN TreeOf(o) = DOMAIN o.files \cup DOMAIN Tree!Intended(o.project)
    BY OverIs DEF TreeOf
<1>8. DOMAIN o.files \subseteq Seq(PathNames)
    BY DEF IsFork
<1> QED
    BY <1>6, <1>7, <1>8

LEMMA ReadsRight ==
  ASSUME Tree!VfsAssumption, delta \in Deltas, NEW o, IsFork(o), NEW p \in Seq(PathNames)
  PROVE  /\ Tree!Read(o, p) = Tree!OfTree(TreeOf(o), p)
         /\ p \in DOMAIN TreeOf(o)
            <=> p \in DOMAIN o.files \/ Tree!MountRead(o.project, p) # Gone
<1>1. PICK i : i = Tree!Intended(o.project)
    OBVIOUS
<1>2. /\ Tree!OfTree(i, p) = Tree!MountRead(o.project, p)
      /\ p \in DOMAIN i <=> Tree!MountRead(o.project, p) # Gone
    BY <1>1, IntendedAt DEF IsFork
<1>3. TreeOf(o) = Tree!Over(o.files, i) /\ o.deleted = {}
    BY <1>1 DEF TreeOf, IsFork
<1> QED
    BY <1>2, <1>3 DEF Tree!Read, Tree!Overlaid, Tree!OfTree, Tree!Over

(***************************************************************************)
(* What the layers of a project hold.  What the diff deletes is still in   *)
(* them: rm is given other names.                                          *)
(***************************************************************************)
BaseTree == Tree!Over(RepoAt, NoMount)
RmAt == {Tree!Mount \o d : d \in Tree!DiffDeleted}
LayersTree(project) ==
  IF project = "base" \/ Tree!DiffFiles = Tree!Empty THEN BaseTree
  ELSE Tree!Without(Tree!Over(DiffAt, BaseTree), RmAt)
AstrayIn(project, p) ==
  \E n \in Tree!DeletedIn(project) :
    p = Tree!Mount \o n \/ Tree!IsPrefix(Tree!Mount \o Tree!Folder \o n, p)

LEMMA BaseAt ==
  ASSUME Tree!VfsAssumption, delta \in Deltas, NEW p \in Seq(PathNames)
  PROVE  /\ p \in DOMAIN BaseTree <=> Tree!MountIsFile("base", p)
         /\ Tree!OfTree(BaseTree, p) = Tree!MountRead("base", p)
         /\ Tree!MountIsFile("base", p) <=> Tree!MountRead("base", p) # Gone
<1>1. \A m \in RepoNames : /\ m \in Seq(PathNames) /\ Tail(Tree!Mount \o m) = m
                           /\ Tree!IsPrefix(Tree!Mount, Tree!Mount \o m)
    BY RepoHas, NamesFacts
<1>2. DOMAIN RepoAt = {Tree!Mount \o m : m \in RepoNames}
    BY DEF RepoAt
<1>3. /\ p \in DOMAIN BaseTree <=> p \in DOMAIN RepoAt \/ p \in DOMAIN NoMount
      /\ p \in DOMAIN BaseTree => BaseTree[p] = IF p \in DOMAIN RepoAt THEN RepoAt[p] ELSE NoMount[p]
    BY DEF BaseTree, Tree!Over
<1>4. CASE ~ Tree!IsPrefix(Tree!Mount, p)
  <2>1. p \notin DOMAIN RepoAt
      BY <1>1, <1>2, <1>4
  <2>2. Tree!MountRead("base", p) = Tree!OfTree(Image, p)
        /\ (Tree!MountIsFile("base", p) <=> p \in DOMAIN Image)
      BY <1>4 DEF Tree!MountRead, Tree!MountIsFile
  <2>3. p \in DOMAIN NoMount <=> p \in DOMAIN Image
      BY <1>4, NoMountIs
  <2>4. p \in DOMAIN NoMount => NoMount[p] = Image[p] /\ Image[p] # Gone
      BY <2>3, NoMountIs
  <2> QED
      BY <1>3, <2>1, <2>2, <2>3, <2>4 DEF Tree!OfTree
<1>5. CASE Tree!IsPrefix(Tree!Mount, p)
  <2>1. PICK n \in Seq(PathNames) : n = Tail(p) /\ p = Tree!Mount \o n
      BY <1>5, BelowMount
  <2>2. p \notin DOMAIN NoMount
      BY <1>5, NoMountIs
  <2>3. p \in DOMAIN RepoAt <=> n \in RepoNames
    <3>1. \A m \in RepoNames : p = Tree!Mount \o m => m = n
        BY <1>1, <2>1
    <3> QED
        BY <1>2, <2>1, <3>1
  <2>4. p \in DOMAIN RepoAt => RepoAt[p] = Repo[Tree!Folder \o n]
      BY <2>1 DEF RepoAt
  <2>5. /\ n \in RepoNames <=> Tree!Folder \o n \in DOMAIN Repo
        /\ n \in RepoNames => Repo[Tree!Folder \o n] # Gone
      BY RepoHas, TreeFacts DEF Tree!VfsAssumption
  <2>6. Tree!MountRead("base", p) = Tree!OfTree(Repo, Tree!Folder \o n)
        /\ (Tree!MountIsFile("base", p) <=> Tree!Folder \o n \in DOMAIN Repo)
      BY <1>5, <2>1 DEF Tree!MountRead, Tree!MountIsFile, Tree!RepoRead, Tree!RepoIsFile
  <2> QED
      BY <1>3, <2>2, <2>3, <2>4, <2>5, <2>6 DEF Tree!OfTree
<1> QED
    BY <1>4, <1>5

\* Removing in the mount a name as the tar has it.
LEMMA RmIs ==
  ASSUME Tree!VfsAssumption, delta \in Deltas, NEW p, ~ AstrayIn("head", p)
  PROVE  \A d \in RmAt : ~ Tree!IsPrefix(d, p)
<1>1. SUFFICES ASSUME NEW d \in RmAt, Tree!IsPrefix(d, p) PROVE FALSE
    OBVIOUS
<1>2. PICK n \in DOMAIN delta \ Tree!Patched : d = Tree!Mount \o (Tree!Folder \o n)
    BY DEF RmAt, Tree!DiffDeleted
<1>3. n \in Seq(PathNames) /\ n \in Tree!DeletedIn("head")
    BY DiffFacts DEF Tree!DeletedIn
<1>4. Tree!Mount \in Seq(PathNames) /\ Tree!Folder \in Seq(PathNames)
  <2>1. "repo" \in PathNames /\ "top" \in PathNames
      BY DEF Tree!VfsAssumption
  <2> QED
      BY <2>1 DEF Tree!Mount, Tree!Folder
<1>5. Tree!Mount \o (Tree!Folder \o n) = Tree!Mount \o Tree!Folder \o n
    BY <1>3, <1>4, ConcatAssociative
<1> QED
    BY <1>1, <1>2, <1>3, <1>5 DEF AstrayIn

\* The layers hold what is read, but for what the diff deletes.
LEMMA LayersAt ==
  ASSUME Tree!VfsAssumption, delta \in Deltas, NEW project \in Tree!Given,
         NEW p \in Seq(PathNames), ~ AstrayIn(project, p)
  PROVE  /\ Tree!OfTree(LayersTree(project), p) = Tree!MountRead(project, p)
         /\ Tree!MountIsFile(project, p) <=> Tree!MountRead(project, p) # Gone
<1>1. CASE project = "base"
    BY <1>1, BaseAt DEF LayersTree
<1>2. CASE project = "head" /\ ~ Tree!IsPrefix(Tree!Mount, p)
  <2>1. /\ Tree!MountRead("head", p) = Tree!MountRead("base", p)
        /\ Tree!MountIsFile("head", p) <=> Tree!MountIsFile("base", p)
      BY <1>2 DEF Tree!MountRead, Tree!MountIsFile
  <2>2. PICK t : t = Tree!Over(DiffAt, BaseTree)
      OBVIOUS
  <2>3. p \notin DOMAIN DiffAt
    <3>1. \A m \in Tree!Patched : m \in Seq(PathNames)
        BY DiffFacts
    <3>2. \A m \in Tree!Patched : Tree!IsPrefix(Tree!Mount, Tree!Mount \o m)
        BY <3>1, NamesFacts
    <3> QED
        BY <1>2, <3>2 DEF DiffAt
  <2>4. Tree!OfTree(t, p) = Tree!OfTree(BaseTree, p)
      BY <2>2, <2>3 DEF Tree!Over, Tree!OfTree
  <2>5. Tree!OfTree(Tree!Without(t, RmAt), p) = Tree!OfTree(t, p)
    <3>1. \A d \in RmAt : ~ Tree!IsPrefix(d, p)
        BY <1>2, RmIs
    <3> QED
        BY <3>1 DEF Tree!Without, Tree!Restrict, Tree!OfTree
  <2> QED
      BY <1>2, <2>1, <2>2, <2>4, <2>5, BaseAt DEF LayersTree
<1>3. CASE project = "head" /\ Tree!IsPrefix(Tree!Mount, p)
  <2>1. PICK n \in Seq(PathNames) : n = Tail(p) /\ p = Tree!Mount \o n
      BY <1>3, BelowMount
  <2>2. n \in DOMAIN delta => n \in Tree!Patched
    <3>1. n \in DOMAIN delta /\ n \notin Tree!Patched => n \in Tree!DeletedIn("head")
        BY DiffFacts DEF Tree!DeletedIn
    <3> QED
        BY <1>3, <2>1, <3>1 DEF AstrayIn
  <2>3. /\ Tree!Folder \o n \in DOMAIN Tree!DiffFiles <=> n \in Tree!Patched
        /\ n \in Tree!Patched => /\ Tree!DiffFiles[Tree!Folder \o n] = delta[n]
                                 /\ delta[n] # Gone /\ n \in DOMAIN delta
        /\ Tree!Folder \o n \notin Tree!DiffDeleted
    <3>1. Tree!Folder \o n \in DOMAIN Tree!DiffFiles <=> n \in Tree!Patched
        BY DiffFacts
    <3>2. n \in Tree!Patched => n \in DOMAIN delta
        BY DiffFacts
    <3>3. n \in Tree!Patched => Tree!DiffFiles[Tree!Folder \o n] = delta[n] /\ delta[n] # Gone
        BY <3>2, DiffFacts
    <3>4. Tree!Folder \o n \notin Tree!DiffDeleted
        BY <2>2, DiffFacts
    <3> QED
        BY <3>1, <3>2, <3>3, <3>4
  <2>4. /\ Tree!MountRead("base", p) = Tree!OfTree(Repo, Tree!Folder \o n)
        /\ Tree!MountIsFile("base", p) <=> Tree!Folder \o n \in DOMAIN Repo
      BY <1>3, <2>1 DEF Tree!MountRead, Tree!MountIsFile, Tree!RepoRead, Tree!RepoIsFile
  <2>5. /\ Tree!MountRead("head", p)
           = IF n \in Tree!Patched THEN delta[n] ELSE Tree!MountRead("base", p)
        /\ Tree!MountIsFile("head", p) <=> n \in Tree!Patched \/ Tree!MountIsFile("base", p)
    <3>1. Tree!MountRead("head", p)
          = Tree!Overlaid(Tree!DiffFiles, Tree!DiffDeleted, Tree!OfTree(Repo, Tree!Folder \o n),
          Tree!Folder \o n)
        BY <1>3, <2>1 DEF Tree!MountRead, Tree!RepoRead
    <3>2. Tree!MountIsFile("head", p) <=> Tree!Folder \o n \in DOMAIN Repo
          \/ Tree!Folder \o n \in DOMAIN Tree!DiffFiles
        BY <1>3, <2>1 DEF Tree!MountIsFile, Tree!RepoIsFile
    <3> QED
        BY <2>3, <2>4, <3>1, <3>2 DEF Tree!Overlaid
  <2>6. Tree!MountIsFile("head", p) <=> Tree!MountRead("head", p) # Gone
      BY <2>3, <2>5, BaseAt
  <2>7. CASE Tree!DiffFiles = Tree!Empty
    <3>1. Tree!Patched = {}
        BY <2>7, DiffFacts
    <3>2. LayersTree("head") = BaseTree
        BY <2>7 DEF LayersTree
    <3>3. Tree!OfTree(BaseTree, p) = Tree!MountRead("base", p)
        BY BaseAt
    <3> QED
        BY <1>3, <2>5, <2>6, <3>1, <3>2, <3>3
  <2>8. CASE Tree!DiffFiles # Tree!Empty
    <3>1. PICK t : t = Tree!Over(DiffAt, BaseTree) /\ LayersTree("head") = Tree!Without(t, RmAt)
        BY <2>8 DEF LayersTree
    <3>2. Tree!OfTree(LayersTree("head"), p) = Tree!OfTree(t, p)
      <4>1. \A d \in RmAt : ~ Tree!IsPrefix(d, p)
          BY <1>3, RmIs
      <4> QED
          BY <3>1, <4>1 DEF Tree!Without, Tree!Restrict, Tree!OfTree
    <3>3. p \in DOMAIN DiffAt <=> n \in Tree!Patched
      <4>1. \A m \in Tree!Patched : m \in Seq(PathNames)
          BY DiffFacts
      <4>2. \A m \in Tree!Patched : Tail(Tree!Mount \o m) = m
          BY <4>1, NamesFacts
      <4>3. \A m \in Tree!Patched : p = Tree!Mount \o m => m = n
          BY <2>1, <4>2
      <4>4. DOMAIN DiffAt = {Tree!Mount \o m : m \in Tree!Patched}
          BY DEF DiffAt
      <4> QED
          BY <2>1, <4>3, <4>4
    <3>4. n \in Tree!Patched => DiffAt[p] = delta[n]
        BY <2>1, <3>3 DEF DiffAt
    <3>5. Tree!OfTree(t, p)
          = IF n \in Tree!Patched THEN delta[n] ELSE Tree!OfTree(BaseTree, p)
        BY <3>1, <3>3, <3>4 DEF Tree!Over, Tree!OfTree
    <3> QED
        BY <1>3, <2>5, <2>6, <3>2, <3>5, BaseAt
  <2> QED
      BY <2>7, <2>8
<1> QED
    BY <1>1, <1>2, <1>3 DEF Tree!Given

LEMMA LayersNames ==
  ASSUME Tree!VfsAssumption, delta \in Deltas, NEW project
  PROVE  /\ DOMAIN LayersTree(project) \subseteq Seq(PathNames)
         /\ LayersTree(project) = [p \in DOMAIN LayersTree(project) |-> LayersTree(project)[p]]
<1>1. DOMAIN BaseTree \subseteq Seq(PathNames)
  <2>1. DOMAIN RepoAt \subseteq Seq(PathNames)
      BY RepoHas, NamesFacts DEF RepoAt
  <2>2. DOMAIN BaseTree = DOMAIN RepoAt \cup DOMAIN NoMount
      BY OverIs DEF BaseTree
  <2> QED
      BY <2>1, <2>2, NoMountIs
<1>2. PICK t : t = Tree!Over(DiffAt, BaseTree)
    OBVIOUS
<1>3. DOMAIN t \subseteq Seq(PathNames)
  <2>1. \A n \in Tree!Patched : n \in Seq(PathNames)
      BY DiffFacts
  <2>2. DOMAIN DiffAt \subseteq Seq(PathNames)
      BY <2>1, NamesFacts DEF DiffAt
  <2>3. DOMAIN t = DOMAIN DiffAt \cup DOMAIN BaseTree
      BY <1>2, OverIs
  <2> QED
      BY <1>1, <2>2, <2>3
<1>4. PICK w : w = Tree!Without(t, RmAt) /\ DOMAIN w \subseteq DOMAIN t
           /\ w = [p \in DOMAIN w |-> w[p]]
  <2>1. PICK D : D = {p \in DOMAIN t : \A d \in RmAt : ~ Tree!IsPrefix(d, p)}
      OBVIOUS
  <2>2. PICK u : u = [p \in D |-> t[p]]
      OBVIOUS
  <2>3. Tree!Without(t, RmAt) = u
      BY <2>1, <2>2 DEF Tree!Without, Tree!Restrict
  <2>4. DOMAIN u = D /\ D \subseteq DOMAIN t /\ u = [p \in DOMAIN u |-> u[p]]
      BY <2>1, <2>2
  <2> QED
      BY <2>3, <2>4
<1>5. BaseTree = [p \in DOMAIN BaseTree |-> BaseTree[p]]
    BY DEF BaseTree, Tree!Over
<1>6. LayersTree(project) = BaseTree \/ LayersTree(project) = w
    BY <1>2, <1>4 DEF LayersTree
<1>7. CASE LayersTree(project) = BaseTree
    BY <1>1, <1>5, <1>7
<1>8. CASE LayersTree(project) = w
    BY <1>3, <1>4, <1>8
<1> QED
    BY <1>6, <1>7, <1>8

(***************************************************************************)
(* Sequences that are written out.                                         *)
(***************************************************************************)
LEMMA Joined ==
  ASSUME NEW S, NEW s \in Seq(S), NEW t \in Seq(S), NEW u \in Seq(S), Len(u) = Len(s) + Len(t),
         \A k \in 1..Len(u) : u[k] = IF k <= Len(s) THEN s[k] ELSE t[k - Len(s)]
  PROVE  s \o t = u
<1>1. PICK w : w = s \o t
    OBVIOUS
<1>2. w \in Seq(S) /\ Len(w) = Len(s) + Len(t)
    BY <1>1, ConcatProperties
<1>3. \A k \in 1..Len(w) : w[k] = IF k <= Len(s) THEN s[k] ELSE t[k - Len(s)]
    BY <1>1, <1>2, ConcatProperties
<1> QED
    BY <1>1, <1>2, <1>3, SeqEqual

LEMMA OneAndOne == ASSUME NEW a, NEW b PROVE <<a>> \o <<b>> = <<a, b>>
<1>1. PICK S : S = {a, b}
    OBVIOUS
<1>2. a \in S /\ b \in S
    BY <1>1
<1>3. PICK s \in Seq(S) : s = <<a>> /\ Len(s) = 1 /\ s[1] = a
  <2>1. <<a>> \in Seq(S)
      BY <1>2
  <2>2. Len(<<a>>) = 1 /\ <<a>>[1] = a
      OBVIOUS
  <2> QED
      BY <2>1, <2>2
<1>4. PICK t \in Seq(S) : t = <<b>> /\ Len(t) = 1 /\ t[1] = b
  <2>1. <<b>> \in Seq(S)
      BY <1>2
  <2>2. Len(<<b>>) = 1 /\ <<b>>[1] = b
      OBVIOUS
  <2> QED
      BY <2>1, <2>2
<1>5. PICK u \in Seq(S) : u = <<a, b>> /\ Len(u) = 2 /\ u[1] = a /\ u[2] = b
  <2>1. <<a, b>> \in Seq(S)
      BY <1>2
  <2>2. Len(<<a, b>>) = 2 /\ <<a, b>>[1] = a /\ <<a, b>>[2] = b
      OBVIOUS
  <2> QED
      BY <2>1, <2>2
<1>6. \A k \in 1..Len(u) : u[k] = IF k <= Len(s) THEN s[k] ELSE t[k - Len(s)]
    BY <1>3, <1>4, <1>5
<1>7. Len(u) = Len(s) + Len(t)
    BY <1>3, <1>4, <1>5
<1>8. s \o t = u
    BY <1>6, <1>7, Joined
<1> QED
    BY <1>3, <1>4, <1>5, <1>8

LEMMA TwoAndOne == ASSUME NEW a, NEW b, NEW c PROVE <<a, b>> \o <<c>> = <<a, b, c>>
<1>1. PICK S : S = {a, b, c}
    OBVIOUS
<1>2. a \in S /\ b \in S /\ c \in S
    BY <1>1
<1>3. PICK s \in Seq(S) : s = <<a, b>> /\ Len(s) = 2 /\ s[1] = a /\ s[2] = b
  <2>1. <<a, b>> \in Seq(S)
      BY <1>2
  <2>2. Len(<<a, b>>) = 2 /\ <<a, b>>[1] = a /\ <<a, b>>[2] = b
      OBVIOUS
  <2> QED
      BY <2>1, <2>2
<1>4. PICK t \in Seq(S) : t = <<c>> /\ Len(t) = 1 /\ t[1] = c
  <2>1. <<c>> \in Seq(S)
      BY <1>2
  <2>2. Len(<<c>>) = 1 /\ <<c>>[1] = c
      OBVIOUS
  <2> QED
      BY <2>1, <2>2
<1>5. PICK u \in Seq(S) : u = <<a, b, c>> /\ Len(u) = 3 /\ u[1] = a /\ u[2] = b /\ u[3] = c
  <2>1. <<a, b, c>> \in Seq(S)
      BY <1>2
  <2>2. Len(<<a, b, c>>) = 3 /\ <<a, b, c>>[1] = a /\ <<a, b, c>>[2] = b /\ <<a, b, c>>[3] = c
      OBVIOUS
  <2> QED
      BY <2>1, <2>2
<1>6. \A k \in 1..Len(u) : u[k] = IF k <= Len(s) THEN s[k] ELSE t[k - Len(s)]
    BY <1>3, <1>4, <1>5
<1>7. Len(u) = Len(s) + Len(t)
    BY <1>3, <1>4, <1>5
<1>8. s \o t = u
    BY <1>6, <1>7, Joined
<1> QED
    BY <1>3, <1>4, <1>5, <1>8

\* Two layers, and as many more as a repository has.
LEMMA TwoAndMore ==
  ASSUME NEW a, NEW b, NEW c, NEW d, NEW e
  PROVE  /\ <<a, b>> \o <<c, d>> = Append(<<a, b, c>>, d)
         /\ <<a, b>> \o <<c, d, e>> = Append(Append(<<a, b, c>>, d), e)
<1>1. PICK S : S = {a, b, c, d, e}
    OBVIOUS
<1>2. a \in S /\ b \in S /\ c \in S /\ d \in S /\ e \in S
    BY <1>1
<1>3. <<a, b>> \in Seq(S) /\ <<c>> \in Seq(S) /\ <<d>> \in Seq(S) /\ <<e>> \in Seq(S)
      /\ <<c, d>> \in Seq(S) /\ <<a, b, c>> \in Seq(S)
    BY <1>2
<1>4. <<a, b>> \o <<c, d>> = Append(<<a, b, c>>, d)
  <2>1. <<a, b>> \o (<<c>> \o <<d>>) = (<<a, b>> \o <<c>>) \o <<d>>
      BY <1>3, ConcatAssociative
  <2>2. <<a, b, c>> \o <<d>> = Append(<<a, b, c>>, d)
      BY <1>2, <1>3, AppendIsConcat
  <2>3. <<c>> \o <<d>> = <<c, d>> /\ <<a, b>> \o <<c>> = <<a, b, c>>
      BY OneAndOne, TwoAndOne
  <2> QED
      BY <2>1, <2>2, <2>3
<1>5. <<a, b>> \o <<c, d, e>> = Append(Append(<<a, b, c>>, d), e)
  <2>1. <<a, b>> \o (<<c, d>> \o <<e>>) = (<<a, b>> \o <<c, d>>) \o <<e>>
      BY <1>3, ConcatAssociative
  <2>2. PICK four \in Seq(S) : four = Append(<<a, b, c>>, d)
      BY <1>2, <1>3, AppendProperties
  <2>3. four \o <<e>> = Append(four, e)
      BY <1>2, AppendIsConcat
  <2>4. <<c, d>> \o <<e>> = <<c, d, e>>
      BY TwoAndOne
  <2> QED
      BY <1>4, <2>1, <2>2, <2>3, <2>4
<1> QED
    BY <1>4, <1>5

LEMMA AppendedIs ==
  ASSUME NEW S, NEW s \in Seq(S), NEW x \in S PROVE s \o <<x>> \o <<>> = Append(s, x)
<1>1. s \o <<x>> \in Seq(S)
  <2>1. <<x>> \in Seq(S)
      OBVIOUS
  <2> QED
      BY <2>1, ConcatProperties
<1>2. s \o <<x>> = Append(s, x)
    BY AppendIsConcat
<1> QED
    BY <1>1, <1>2, ConcatEmptySeq

\* The layers of a project, applied one after the other.
LEMMA MountLayersAre ==
  ASSUME Tree!VfsAssumption, delta \in Deltas, NEW project \in Tree!Given
  PROVE  \E S : /\ Tree!MountLayers(project) \in Seq(S)
                /\ Tree!Materialized(Tree!MountLayers(project)) = LayersTree(project)
<1>1. PICK L1, L2, L3, L4, L5 :
        /\ L1 = Tree!Tar(Image) /\ L2 = Tree!RmRf({Tree!Mount})
        /\ L3 = Moved(Tree!Tar(Repo)) /\ L4 = Moved(Tree!Tar(Tree!DiffFiles))
        /\ L5 = Moved(Tree!RmRf(Tree!DiffDeleted))
    OBVIOUS
<1>2. PICK S : S = {L1, L2, L3, L4, L5}
    OBVIOUS
<1>3. L1 \in S /\ L2 \in S /\ L3 \in S /\ L4 \in S /\ L5 \in S
    BY <1>2
<1>4. PICK three \in Seq(S) : three = <<L1, L2, L3>>
  <2>1. <<L1, L2, L3>> \in Seq(S)
      BY <1>3
  <2> QED
      BY <2>1
<1>5. Tree!ApplyLayer(Tree!Empty, L1) = Tree!Over([p \in DOMAIN Image |-> Image[p]], Tree!Empty)
  <2>1. Tree!Placed(L1) = [p \in DOMAIN Image |-> Image[p]]
      BY <1>1, PlacedTar, TreeFacts DEF Tree!VfsAssumption
  <2>2. L1.kind = "tar"
      BY <1>1 DEF Tree!Tar
  <2> QED
      BY <2>1, <2>2 DEF Tree!ApplyLayer
<1>6. PICK t : t = Tree!ApplyLayer(Tree!Empty, L1) /\ DOMAIN t = DOMAIN Image
           /\ \A p \in DOMAIN Image : t[p] = Image[p]
  <2>1. DOMAIN Tree!Empty = {}
      BY DEF Tree!Empty
  <2> QED
      BY <1>5, <2>1 DEF Tree!Over
<1>7. Tree!ApplyLayer(t, L2) = NoMount
  <2>1. L2.kind = "rm" /\ L2.at = <<>> /\ L2.paths = {Tree!Mount}
      BY <1>1 DEF Tree!RmRf
  <2>2. <<>> \o Tree!Mount = Tree!Mount
    <3>1. Tree!Mount \in Seq(PathNames)
      <4>1. "repo" \in PathNames
          BY DEF Tree!VfsAssumption
      <4> QED
          BY <4>1 DEF Tree!Mount
    <3> QED
        BY <3>1, ConcatEmptySeq
  <2>3. {L2.at \o d : d \in L2.paths} = {Tree!Mount}
      BY <2>1, <2>2
  <2>4. Tree!ApplyLayer(t, L2) = Tree!Without(t, {Tree!Mount})
      BY <2>1, <2>3 DEF Tree!ApplyLayer
  <2>5. Tree!Without(t, {Tree!Mount}) = NoMount
      BY <1>6 DEF NoMount, Tree!Without, Tree!Restrict
  <2> QED
      BY <2>4, <2>5
<1>8. \A below : Tree!ApplyLayer(below, L3) = Tree!Over(RepoAt, below)
  <2>1. L3.kind = "tar"
      BY <1>1 DEF Moved, Tree!Tar
  <2>2. \A p \in DOMAIN Repo : p \in Seq(PathNames) /\ Tree!IsPrefix(Tree!Folder, p)
      BY InFolder
  <2>3. Tree!Placed(L3)
        = [q \in {Tree!Mount \o Tail(p) : p \in DOMAIN Repo} |-> Repo[Tree!Folder \o Tail(q)]]
      BY <1>1, <2>2, PlacedMoved
  <2>4. {Tree!Mount \o Tail(p) : p \in DOMAIN Repo} = {Tree!Mount \o n : n \in RepoNames}
      BY DEF RepoNames
  <2>5. Tree!Placed(L3) = RepoAt
      BY <2>3, <2>4 DEF RepoAt
  <2> QED
      BY <2>1, <2>5 DEF Tree!ApplyLayer
<1>9. \A below : Tree!ApplyLayer(below, L4) = Tree!Over(DiffAt, below)
  <2>1. L4.kind = "tar"
      BY <1>1 DEF Moved, Tree!Tar
  <2>2. PICK D : D = {Tree!Mount \o Tail(p) : p \in DOMAIN Tree!DiffFiles}
      OBVIOUS
  <2>3. Tree!Placed(L4) = [q \in D |-> Tree!DiffFiles[Tree!Folder \o Tail(q)]]
      BY <1>1, <2>2, DiffFacts, PlacedMoved
  <2>4. PICK P : P = Tree!Patched /\ P \subseteq Seq(PathNames)
    <3>1. Tree!Patched \subseteq Seq(PathNames)
        BY DiffFacts
    <3> QED
        BY <3>1
  <2>5. \A n \in P : Tail(Tree!Folder \o n) = n /\ Tail(Tree!Mount \o n) = n
      BY <2>4, NamesFacts
  <2>6. D = {Tree!Mount \o n : n \in P}
    <3>1. DOMAIN Tree!DiffFiles = {Tree!Folder \o n : n \in P}
        BY <2>4, DiffFacts
    <3>2. \A p \in DOMAIN Tree!DiffFiles : \E n \in P : Tree!Mount \o Tail(p) = Tree!Mount \o n
        BY <2>5, <3>1
    <3>3. \A n \in P : \E p \in DOMAIN Tree!DiffFiles : Tree!Mount \o n = Tree!Mount \o Tail(p)
        BY <2>5, <3>1
    <3>4. D \subseteq {Tree!Mount \o n : n \in P}
        BY <2>2, <3>2
    <3>5. {Tree!Mount \o n : n \in P} \subseteq D
        BY <2>2, <3>3
    <3> QED
        BY <3>4, <3>5
  <2>7. \A q \in D : Tree!DiffFiles[Tree!Folder \o Tail(q)] = delta[Tail(q)]
    <3>1. \A n \in P : Tree!DiffFiles[Tree!Folder \o n] = delta[n]
        BY <2>4, DiffFacts
    <3> QED
        BY <2>5, <2>6, <3>1
  <2>8. Tree!Placed(L4) = DiffAt
      BY <2>3, <2>4, <2>6, <2>7 DEF DiffAt
  <2> QED
      BY <2>1, <2>8 DEF Tree!ApplyLayer
<1>10. \A below : Tree!ApplyLayer(below, L5) = Tree!Without(below, RmAt)
  <2>1. L5.kind = "rm" /\ L5.at = Tree!Mount /\ L5.paths = Tree!DiffDeleted
      BY <1>1 DEF Moved, Tree!RmRf
  <2> QED
      BY <2>1 DEF Tree!ApplyLayer, RmAt
<1>11. Tree!Materialized(three) = BaseTree
  <2>1. Tree!Materialized(three)
        = Tree!ApplyLayer(Tree!ApplyLayer(Tree!ApplyLayer(Tree!Empty, L1), L2), L3)
      BY <1>4, ThreeLayers
  <2> QED
      BY <1>6, <1>7, <1>8, <2>1 DEF BaseTree
<1>12. PICK R : R = Tree!RepoLayers(project)
                /\ Tree!MountLayers(project) = <<L1, L2>> \o [k \in DOMAIN R |-> Moved(R[k])]
    BY <1>1 DEF Tree!MountLayers, Moved
<1>13. CASE project = "base" \/ Tree!DiffFiles = Tree!Empty
  <2>1. R = <<Tree!Tar(Repo)>>
      BY <1>12, <1>13 DEF Tree!RepoLayers, Tree!OverlayLayers
  <2>2. [k \in DOMAIN R |-> Moved(R[k])] = <<L3>>
      BY <1>1, <2>1
  <2>3. Tree!MountLayers(project) = three
      BY <1>4, <1>12, <2>2, TwoAndOne
  <2>4. LayersTree(project) = BaseTree
      BY <1>13 DEF LayersTree
  <2> QED
      BY <1>4, <1>11, <2>3, <2>4
<1>14. CASE project = "head" /\ Tree!DiffFiles # Tree!Empty
  <2>1. PICK a, b, c : a = Tree!Tar(Repo) /\ b = Tree!Tar(Tree!DiffFiles)
                       /\ c = Tree!RmRf(Tree!DiffDeleted)
      OBVIOUS
  <2>2. R = <<a>> \o <<b>> \o IF Tree!DiffDeleted = {} THEN <<>> ELSE <<c>>
      BY <1>12, <1>14, <2>1 DEF Tree!RepoLayers, Tree!OverlayLayers
  <2>3. PICK four \in Seq(S) : four = Append(three, L4)
      BY <1>3, <1>4, AppendProperties
  <2>4. PICK v : v = Tree!Over(DiffAt, BaseTree) /\ v = [p \in DOMAIN v |-> v[p]]
    <3>1. PICK u : u = Tree!Over(DiffAt, BaseTree)
        OBVIOUS
    <3>2. u = [p \in DOMAIN u |-> u[p]]
        BY <3>1 DEF Tree!Over
    <3> QED
        BY <3>1, <3>2
  <2>5. Tree!Materialized(four) = v
    <3>1. Tree!Materialized(four) = Tree!ApplyLayer(Tree!Materialized(three), L4)
        BY <1>3, <1>4, <2>3, OneMoreLayer
    <3> QED
        BY <1>9, <1>11, <2>4, <3>1
  <2>6. LayersTree(project) = Tree!Without(v, RmAt)
    <3>1. "head" # "base"
        OBVIOUS
    <3> QED
        BY <1>14, <2>4, <3>1 DEF LayersTree
  <2>7. CASE Tree!DiffDeleted = {}
    <3>1. R = <<a, b>>
      <4>1. <<a, b>> \in Seq({a, b})
          OBVIOUS
      <4>2. <<a, b>> \o <<>> = <<a, b>>
          BY <4>1, ConcatEmptySeq
      <4> QED
          BY <2>2, <2>7, <4>2, OneAndOne
    <3>2. [k \in DOMAIN R |-> Moved(R[k])] = <<L3, L4>>
        BY <1>1, <2>1, <3>1
    <3>3. Tree!MountLayers(project) = four
        BY <1>4, <1>12, <2>3, <3>2, TwoAndMore
    <3>4. Tree!Without(v, RmAt) = v
      <4>1. RmAt = {}
          BY <2>7 DEF RmAt
      <4>2. Tree!Without(v, {}) = [p \in DOMAIN v |-> v[p]]
          BY DEF Tree!Without, Tree!Restrict
      <4> QED
          BY <2>4, <4>1, <4>2
    <3> QED
        BY <2>3, <2>5, <2>6, <3>3, <3>4
  <2>8. CASE Tree!DiffDeleted # {}
    <3>1. R = <<a, b, c>>
      <4>1. R = <<a>> \o <<b>> \o <<c>>
          BY <2>2, <2>8
      <4>2. <<a>> \o <<b>> = <<a, b>> /\ <<a, b>> \o <<c>> = <<a, b, c>>
          BY OneAndOne, TwoAndOne
      <4> QED
          BY <4>1, <4>2
    <3>2. [k \in DOMAIN R |-> Moved(R[k])] = <<L3, L4, L5>>
        BY <1>1, <2>1, <3>1
    <3>3. Tree!MountLayers(project) = Append(four, L5)
        BY <1>4, <1>12, <2>3, <3>2, TwoAndMore
    <3>4. Append(four, L5) \in Seq(S)
        BY <1>3, <2>3, AppendProperties
    <3>5. Tree!Materialized(Append(four, L5)) = Tree!ApplyLayer(Tree!Materialized(four), L5)
        BY <1>3, <2>3, OneMoreLayer
    <3> QED
        BY <1>10, <2>5, <2>6, <3>3, <3>4, <3>5
  <2> QED
      BY <2>7, <2>8
<1> QED
    BY <1>13, <1>14 DEF Tree!Given

LEMMA LayersHoldTheTree ==
  ASSUME Tree!VfsAssumption, delta \in Deltas, NEW o, IsFork(o)
  PROVE  \E S : /\ Tree!Layers(o) \in Seq(S)
                /\ Tree!Materialized(Tree!Layers(o)) = Tree!Over(o.files, LayersTree(o.project))
<1>1. PICK S : /\ Tree!MountLayers(o.project) \in Seq(S)
               /\ Tree!Materialized(Tree!MountLayers(o.project)) = LayersTree(o.project)
    BY MountLayersAre DEF IsFork
<1>2. PICK s : s = Tree!MountLayers(o.project)
    OBVIOUS
<1>3. PICK i : i = LayersTree(o.project) /\ i = [p \in DOMAIN i |-> i[p]]
    BY LayersNames
<1>4. CASE o.files = Tree!Empty
  <2>1. Tree!Layers(o) = s
      BY <1>2, <1>4 DEF Tree!Layers, Tree!OverlayLayers
  <2>2. DOMAIN o.files = {}
      BY <1>4 DEF Tree!Empty
  <2>3. Tree!Over(o.files, i) = i
      BY <1>3, <2>2 DEF Tree!Over
  <2> QED
      BY <1>1, <1>2, <1>3, <2>1, <2>3
<1>5. CASE o.files # Tree!Empty
  <2>1. PICK x : x = Tree!Tar(o.files)
      OBVIOUS
  <2>2. PICK T : T = S \cup {x}
      OBVIOUS
  <2>3. s \in Seq(T) /\ x \in T
    <3>1. S \subseteq T /\ x \in T
        BY <2>2
    <3> QED
        BY <1>1, <1>2, <3>1
  <2>4. Tree!Layers(o) = s \o <<x>> \o <<>>
      BY <1>2, <1>5, <2>1 DEF Tree!Layers, Tree!OverlayLayers, IsFork
  <2>5. Tree!Layers(o) = Append(s, x) /\ Append(s, x) \in Seq(T)
      BY <2>3, <2>4, AppendedIs, AppendProperties
  <2>6. Tree!Materialized(Append(s, x)) = Tree!ApplyLayer(i, x)
      BY <1>1, <1>2, <1>3, <2>3, OneMoreLayer
  <2>7. Tree!ApplyLayer(i, x) = Tree!Over([p \in DOMAIN o.files |-> o.files[p]], i)
    <3>1. Tree!Placed(x) = [p \in DOMAIN o.files |-> o.files[p]] /\ x.kind = "tar"
      <4>1. DOMAIN o.files \subseteq Seq(PathNames)
          BY DEF IsFork
      <4>2. Tree!Placed(x) = [p \in DOMAIN o.files |-> o.files[p]]
          BY <2>1, <4>1, PlacedTar
      <4>3. x.kind = "tar"
          BY <2>1 DEF Tree!Tar
      <4> QED
          BY <4>2, <4>3
    <3> QED
        BY <3>1 DEF Tree!ApplyLayer
  <2>8. Tree!Over([p \in DOMAIN o.files |-> o.files[p]], i) = Tree!Over(o.files, i)
      BY DEF Tree!Over
  <2> QED
      BY <1>3, <2>5, <2>6, <2>7, <2>8
<1> QED
    BY <1>4, <1>5

(***************************************************************************)
(* What the caches hold under a hash.  With the diff d: the layers of a    *)
(* project, the name of a fork, and the tree that belongs under a name.    *)
(***************************************************************************)
PatchedIn(d) == {n \in DOMAIN d : d[n] # Gone}
FilesIn(d) == [p \in {Tree!Folder \o n : n \in PatchedIn(d)} |-> d[Tail(p)]]
RemovedIn(d) == {Tree!Folder \o n : n \in DOMAIN d \ PatchedIn(d)}
RepoLayersIn(d, project) ==
  IF project = "base" THEN <<Tree!Tar(Repo)>>
  ELSE Tree!OverlayLayers(<<Tree!Tar(Repo)>>, FilesIn(d), RemovedIn(d))
MountLayersIn(d, project) ==
  <<Tree!Tar(Image), Tree!RmRf({Tree!Mount})>> \o
    [k \in DOMAIN RepoLayersIn(d, project) |->
       [RepoLayersIn(d, project)[k] EXCEPT !.at = Tree!Mount, !.under = Tree!Folder]]
HashIn(d, o) ==
  [repo |-> IF o.project = "base" \/ FilesIn(d) = Tree!Empty THEN <<>>
            ELSE <<FilesIn(d), RemovedIn(d)>>,
   edits |-> IF o.files = Tree!Empty THEN <<>> ELSE <<o.files, o.deleted>>]
HashTreeIn(d, h) ==
  Tree!Materialized(Tree!OverlayLayers(MountLayersIn(d, IF h.repo = <<>> THEN "base" ELSE "head"),
                                       IF h.edits = <<>> THEN Tree!Empty ELSE h.edits[1],
                                       IF h.edits = <<>> THEN {} ELSE h.edits[2]))

LEMMA WithTheDiff ==
  ASSUME NEW o
  PROVE  /\ HashIn(delta, o) = Tree!ComputeHash(o)
         /\ \A project : MountLayersIn(delta, project) = Tree!MountLayers(project)
<1>1. FilesIn(delta) = Tree!DiffFiles /\ RemovedIn(delta) = Tree!DiffDeleted
    BY DEF FilesIn, Tree!DiffFiles, RemovedIn, Tree!DiffDeleted, PatchedIn, Tree!Patched
<1>2. HashIn(delta, o) = Tree!ComputeHash(o)
    BY <1>1 DEF HashIn, Tree!ComputeHash, Tree!RepoHash
<1>3. \A project : RepoLayersIn(delta, project) = Tree!RepoLayers(project)
    BY <1>1 DEF RepoLayersIn, Tree!RepoLayers
<1>4. ASSUME NEW project PROVE MountLayersIn(delta, project) = Tree!MountLayers(project)
  <2>1. PICK R : R = RepoLayersIn(delta, project) /\ R = Tree!RepoLayers(project)
      BY <1>3
  <2> QED
      BY <2>1 DEF MountLayersIn, Tree!MountLayers
<1> QED
    BY <1>2, <1>4

\* The name says what the layers of a fork are.
LEMMA LayersOfTheHash ==
  ASSUME NEW o, IsFork(o)
  PROVE  Tree!Materialized(Tree!Layers(o)) = HashTreeIn(delta, HashIn(delta, o))
<1>1. PICK h : h = Tree!ComputeHash(o) /\ h = HashIn(delta, o)
    BY WithTheDiff
<1>2. /\ h.repo = Tree!RepoHash(o.project)
      /\ h.edits = IF o.files = Tree!Empty THEN <<>> ELSE <<o.files, o.deleted>>
    BY <1>1 DEF Tree!ComputeHash
<1>3. \A a, b : <<a, b>> # <<>> /\ <<a, b>>[1] = a /\ <<a, b>>[2] = b
    OBVIOUS
<1>4. PICK e, r : /\ e = (IF h.edits = <<>> THEN Tree!Empty ELSE h.edits[1])
                  /\ r = (IF h.edits = <<>> THEN {} ELSE h.edits[2])
    OBVIOUS
<1>5. e = o.files /\ r = o.deleted
  <2>1. CASE o.files = Tree!Empty
      BY <1>2, <1>4, <2>1 DEF IsFork
  <2>2. CASE o.files # Tree!Empty
      BY <1>2, <1>3, <1>4, <2>2
  <2> QED
      BY <2>1, <2>2
<1>6. PICK project : project = IF h.repo = <<>> THEN "base" ELSE "head"
    OBVIOUS
<1>7. Tree!MountLayers(project) = Tree!MountLayers(o.project)
  <2>1. Tree!RepoLayers(project) = Tree!RepoLayers(o.project)
    <3>1. CASE o.project = "base"
        BY <1>2, <1>6, <3>1 DEF Tree!RepoHash
    <3>2. CASE o.project = "head" /\ Tree!DiffFiles # Tree!Empty
        BY <1>2, <1>3, <1>6, <3>2 DEF Tree!RepoHash
    <3>3. CASE o.project = "head" /\ Tree!DiffFiles = Tree!Empty
      <4>1. project = "base"
          BY <1>2, <1>6, <3>3 DEF Tree!RepoHash
      <4> QED
          BY <3>3, <4>1 DEF Tree!RepoLayers, Tree!OverlayLayers
    <3> QED
        BY <3>1, <3>2, <3>3 DEF IsFork, Tree!Given
  <2> QED
      BY <2>1 DEF Tree!MountLayers
<1>8. MountLayersIn(delta, project) = Tree!MountLayers(o.project)
    BY <1>7, WithTheDiff
<1>9. HashTreeIn(delta, h) = Tree!Materialized(Tree!OverlayLayers(Tree!MountLayers(o.project),
                                               o.files, o.deleted))
    BY <1>4, <1>5, <1>6, <1>8 DEF HashTreeIn
<1> QED
    BY <1>1, <1>9 DEF Tree!Layers

(***************************************************************************)
(* The invariant.                                                          *)
(***************************************************************************)
\* With the diff d: what a fork should hold.
ChangesIn(d, project) == IF project = "base" THEN Tree!Empty ELSE d
FileIn(d, project, n) ==
  IF n \in DOMAIN ChangesIn(d, project) THEN ChangesIn(d, project)[n] ELSE Repo[Tree!Folder \o n]
KeptIn(d, project) ==
  {n \in {Tail(p) : p \in DOMAIN Repo} \union DOMAIN ChangesIn(d, project) :
  FileIn(d, project, n) # Gone}
IntendedIn(d, project) ==
  Tree!Over([p \in {Tree!Mount \o n : n \in KeptIn(d, project)} |-> FileIn(d, project, Tail(p))],
  Tree!Without(Image, {Tree!Mount}))
TreeIn(d, o) == Tree!Over(o.files, IntendedIn(d, o.project))

LEMMA TheTree == ASSUME NEW o PROVE TreeIn(delta, o) = TreeOf(o)
<1>1. \A p : IntendedIn(delta, p) = Tree!Intended(p)
    BY DEF IntendedIn, Tree!Intended, KeptIn, Tree!Kept, Tree!NamesOf, FileIn, Tree!FileOf,
       ChangesIn, Tree!Changes
<1> QED
    BY <1>1 DEF TreeIn, TreeOf

IsOverlay(o) ==
  o = [project |-> o.project, files |-> o.files, deleted |-> o.deleted, hash |-> o.hash,
  writes |-> o.writes]
IsCall(c) ==
  /\ c = [fork |-> c.fork, tool |-> c.tool, path |-> c.path, data |-> c.data, key |-> c.key,
          written |-> c.written, tree |-> c.tree]
  /\ c.written \in BOOLEAN

HashFits(d, o) == o.hash \in {Tree!NoHash, <<HashIn(d, o)>>}

\* A tree that is kept, or is to be kept, under the hash h, when t are the hashes of forks that
\* were written before their layers were read.
Fits(d, t, h, x) == h \in t \/ x = HashTreeIn(d, h)

\* A call has the hash of its fork until that is written.
CallFits(d, forks, t, c) ==
  /\ IsCall(c) /\ c.fork \in {f \in Forks : forks[f].project # "none"}
  /\ c.tool = "write" => c.path \in Seq(PathNames) /\ c.data # Gone
  /\ c.tool # "write" /\ c.tree = Tree!Unread
       => c.written = TRUE \/ c.key = <<HashIn(d, forks[c.fork])>>
  /\ c.tool # "write" /\ c.tree # Tree!Unread => Fits(d, t, c.key[1], c.tree)

VfsInv ==
  /\ delta \in Deltas
  /\ overlay = [f \in Forks |-> overlay[f]] /\ sources = [f \in Forks |-> sources[f]]
  /\ \A f \in Forks : IsOverlay(overlay[f])
  /\ \A f \in Forks : overlay[f].project # "none" =>
       IsFork(overlay[f]) /\ HashFits(delta, overlay[f]) /\ sources[f] = TreeIn(delta, overlay[f])
  /\ \A f \in Forks : overlay[f].project = "none" => sources[f] = Tree!Empty
  /\ \A c \in doing : CallFits(delta, overlay, torn, c)
  /\ \A h \in DOMAIN vfsBuilds : Fits(delta, torn, h, vfsBuilds[h])
  /\ \A h \in DOMAIN trees : h \in torn \/ trees[h] = DOMAIN HashTreeIn(delta, h)

LEMMA UsedOverlay ==
  ASSUME VfsInv, NEW f \in Tree!Used
  PROVE  f \in Forks /\ IsFork(overlay[f])
         /\ Tree!Hash(overlay[f]) = <<HashIn(delta, overlay[f])>>
         /\ sources[f] = TreeOf(overlay[f])
<1>1. PICK o : o = overlay[f]
    OBVIOUS
<1>2. f \in Forks /\ IsFork(o) /\ HashFits(delta, o) /\ sources[f] = TreeOf(o)
    BY <1>1, TheTree DEF VfsInv, Tree!Used
<1>3. o.hash = Tree!NoHash \/ o.hash = <<HashIn(delta, o)>>
    BY <1>2 DEF HashFits
<1>4. HashIn(delta, o) = Tree!ComputeHash(o)
    BY WithTheDiff
<1>5. Tree!Hash(o) = <<HashIn(delta, o)>>
    BY <1>3, <1>4 DEF Tree!Hash
<1> QED
    BY <1>1, <1>2, <1>5

\* Every path that a property asks about is a sequence of names.
LEMMA PathsAreNames == ASSUME Tree!VfsAssumption, VfsInv PROVE Tree!Paths \subseteq Seq(PathNames)
<1>1. ASSUME NEW f \in Forks PROVE DOMAIN sources[f] \subseteq Seq(PathNames)
  <2>1. CASE f \in Tree!Used
      BY <2>1, UsedOverlay, TreesAreTrees DEF VfsInv
  <2>2. CASE f \notin Tree!Used
    <3>1. sources[f] = Tree!Empty
        BY <2>2 DEF VfsInv, Tree!Used
    <3> QED
        BY <3>1 DEF Tree!Empty
  <2> QED
      BY <2>1, <2>2
<1>2. DOMAIN Image \subseteq Seq(PathNames)
    BY TreeFacts DEF Tree!VfsAssumption
<1>3. \A p \in DOMAIN Repo : Tree!Mount \o Tail(p) \in Seq(PathNames)
    BY InFolder, NamesFacts
<1>4. \A n \in DOMAIN delta : Tree!Mount \o n \in Seq(PathNames)
    BY DiffFacts, NamesFacts DEF VfsInv
<1>5. ASSUME NEW p \in Tree!Paths
      PROVE  \/ \E f \in Forks : p \in DOMAIN sources[f]
             \/ p \in DOMAIN Image
             \/ \E q \in DOMAIN Repo : p = Tree!Mount \o Tail(q)
             \/ \E n \in DOMAIN delta : p = Tree!Mount \o n
  <2>1. PICK A, B, C : /\ A = UNION {DOMAIN sources[f] : f \in Forks}
                       /\ B = {Tree!Mount \o Tail(q) : q \in DOMAIN Repo}
                       /\ C = {Tree!Mount \o n : n \in DOMAIN delta}
      OBVIOUS
  <2>2. p \in A \/ p \in DOMAIN Image \/ p \in B \/ p \in C
    <3>1. Tree!Paths = A \cup DOMAIN Image \cup B \cup C
        BY <2>1, Zenon DEF Tree!Paths
    <3> QED
        BY <1>5, <3>1
  <2>3. p \in A => \E f \in Forks : p \in DOMAIN sources[f]
      BY <2>1
  <2>4. p \in B => \E q \in DOMAIN Repo : p = Tree!Mount \o Tail(q)
      BY <2>1
  <2>5. p \in C => \E n \in DOMAIN delta : p = Tree!Mount \o n
      BY <2>1
  <2> QED
      BY <2>2, <2>3, <2>4, <2>5
<1> QED
    BY <1>1, <1>2, <1>3, <1>4, <1>5

\* What is left astray is below the mount, and is not edited.
LEMMA AstrayIs ==
  ASSUME Tree!VfsAssumption, delta \in Deltas, NEW o, NEW p \in Seq(PathNames)
  PROVE  /\ Tree!Astray(o, p) <=> p \notin DOMAIN o.files /\ AstrayIn(o.project, p)
         /\ AstrayIn(o.project, p) => Tree!IsPrefix(Tree!Mount, p)
<1>1. Tree!Astray(o, p) <=> p \notin DOMAIN o.files /\ AstrayIn(o.project, p)
    BY DEF Tree!Astray, AstrayIn
<1>2. ASSUME AstrayIn(o.project, p) PROVE Tree!IsPrefix(Tree!Mount, p)
  <2>1. PICK n \in Tree!DeletedIn(o.project) :
          p = Tree!Mount \o n \/ Tree!IsPrefix(Tree!Mount \o Tree!Folder \o n, p)
      BY <1>2 DEF AstrayIn
  <2>2. n \in Seq(PathNames)
      BY <2>1, DiffFacts DEF Tree!DeletedIn
  <2>3. CASE p = Tree!Mount \o n
      BY <2>2, <2>3, NamesFacts
  <2>4. CASE Tree!IsPrefix(Tree!Mount \o Tree!Folder \o n, p)
    <3>1. PICK m : m = Tree!Folder \o n /\ m \in Seq(PathNames)
        BY <2>2, NamesFacts
    <3>2. Tree!Mount \o Tree!Folder \o n = Tree!Mount \o m
      <4>1. "repo" \in PathNames /\ "top" \in PathNames
          BY DEF Tree!VfsAssumption
      <4>2. Tree!Mount \in Seq(PathNames) /\ Tree!Folder \in Seq(PathNames)
          BY <4>1 DEF Tree!Mount, Tree!Folder
      <4> QED
          BY <2>2, <3>1, <4>2, ConcatAssociative
    <3>3. PICK q : q = Tree!Mount \o m /\ q \in Seq(PathNames) /\ Tree!IsPrefix(Tree!Mount, q)
        BY <3>1, NamesFacts
    <3>4. Tree!IsPrefix(q, p)
        BY <2>4, <3>2, <3>3
    <3>5. Len(Tree!Mount) = 1
        BY DEF Tree!Mount
    <3>6. Len(q) >= 1 /\ Len(q) <= Len(p) /\ SubSeq(q, 1, Len(q)) = SubSeq(p, 1, Len(q))
          /\ SubSeq(Tree!Mount, 1, 1) = SubSeq(q, 1, 1)
        BY <3>3, <3>4, <3>5 DEF Tree!IsPrefix
    <3>7. SubSeq(q, 1, 1) = SubSeq(p, 1, 1)
      <4>1. q[1] = p[1]
        <5>1. SubSeq(q, 1, Len(q))[1] = q[1] /\ SubSeq(p, 1, Len(q))[1] = p[1]
            BY <3>3, <3>6
        <5> QED
            BY <3>6, <5>1
      <4>2. PICK a : a = SubSeq(q, 1, 1) /\ a \in Seq(PathNames) /\ Len(a) = 1 /\ a[1] = q[1]
        <5>1. SubSeq(q, 1, 1) \in Seq(PathNames) /\ Len(SubSeq(q, 1, 1)) = 1
            BY <3>3, <3>6
        <5>2. SubSeq(q, 1, 1)[1] = q[1]
            BY <3>3, <3>6
        <5> QED
            BY <5>1, <5>2
      <4>3. PICK b : b = SubSeq(p, 1, 1) /\ b \in Seq(PathNames) /\ Len(b) = 1 /\ b[1] = p[1]
        <5>1. Len(p) >= 1
            BY <3>3, <3>6
        <5>2. SubSeq(p, 1, 1) \in Seq(PathNames) /\ Len(SubSeq(p, 1, 1)) = 1
            BY <5>1
        <5>3. SubSeq(p, 1, 1)[1] = p[1]
            BY <5>1
        <5> QED
            BY <5>2, <5>3
      <4>4. a = b
        <5>1. \A k \in 1..Len(a) : a[k] = b[k]
            BY <4>1, <4>2, <4>3
        <5> QED
            BY <4>2, <4>3, <5>1, SeqEqual
      <4> QED
          BY <4>2, <4>3, <4>4
    <3> QED
        BY <3>3, <3>5, <3>6, <3>7 DEF Tree!IsPrefix
  <2> QED
      BY <2>1, <2>3, <2>4
<1> QED
    BY <1>1, <1>2

\* What is built of a fork, file by file.
LEMMA BuiltAt ==
  ASSUME Tree!VfsAssumption, delta \in Deltas, NEW o, IsFork(o), NEW p \in Seq(PathNames),
         ~ Tree!Astray(o, p)
  PROVE  /\ Tree!OfTree(Tree!Materialized(Tree!Layers(o)), p) = Tree!OfTree(TreeOf(o), p)
         /\ Tree!IsFile(o, p) <=> p \in DOMAIN TreeOf(o)
<1>1. PICK t : t = LayersTree(o.project)
    OBVIOUS
<1>2. Tree!Materialized(Tree!Layers(o)) = Tree!Over(o.files, t)
    BY <1>1, LayersHoldTheTree
<1>3. Tree!Read(o, p) = Tree!OfTree(TreeOf(o), p) /\ o.deleted = {}
      /\ (p \in DOMAIN TreeOf(o) <=> p \in DOMAIN o.files \/ Tree!MountRead(o.project, p) # Gone)
    BY ReadsRight DEF IsFork
<1>4. CASE p \in DOMAIN o.files
  <2>1. Tree!OfTree(Tree!Over(o.files, t), p) = o.files[p]
      BY <1>4 DEF Tree!OfTree, Tree!Over
  <2>2. Tree!Read(o, p) = o.files[p]
      BY <1>3, <1>4 DEF Tree!Read, Tree!Overlaid
  <2> QED
      BY <1>2, <1>3, <1>4, <2>1, <2>2 DEF Tree!IsFile
<1>5. CASE p \notin DOMAIN o.files
  <2>1. ~ AstrayIn(o.project, p)
      BY <1>5, AstrayIs
  <2>2. /\ Tree!OfTree(t, p) = Tree!MountRead(o.project, p)
        /\ Tree!MountIsFile(o.project, p) <=> Tree!MountRead(o.project, p) # Gone
      BY <1>1, <2>1, LayersAt DEF IsFork
  <2>3. Tree!OfTree(Tree!Over(o.files, t), p) = Tree!OfTree(t, p)
      BY <1>5 DEF Tree!OfTree, Tree!Over
  <2>4. Tree!Read(o, p) = Tree!MountRead(o.project, p)
      BY <1>3, <1>5 DEF Tree!Read, Tree!Overlaid
  <2> QED
      BY <1>2, <1>3, <1>5, <2>2, <2>3, <2>4 DEF Tree!IsFile
<1> QED
    BY <1>4, <1>5

LEMMA LayersAreRight == ASSUME Tree!VfsAssumption, VfsInv PROVE Tree!LayersAreTheSources
<1>1. SUFFICES ASSUME NEW f \in Tree!Used, NEW o, NEW whole, o = overlay[f],
                      whole = Tree!Materialized(Tree!Layers(o))
               PROVE  /\ \A p \in Tree!Paths : Tree!Read(o, p) = Tree!OfTree(sources[f], p)
                      /\ \A p \in Tree!Paths \cup DOMAIN whole : ~ Tree!Astray(o, p) =>
                           /\ Tree!OfTree(whole, p) = Tree!OfTree(sources[f], p)
                           /\ Tree!IsFile(o, p) = (p \in DOMAIN sources[f])
    BY DEF Tree!LayersAreTheSources
<1>2. IsFork(o) /\ sources[f] = TreeOf(o) /\ delta \in Deltas
    BY <1>1, UsedOverlay DEF VfsInv
<1>3. DOMAIN whole \subseteq Seq(PathNames)
  <2>1. PICK t : t = LayersTree(o.project) /\ DOMAIN t \subseteq Seq(PathNames)
      BY <1>2, LayersNames
  <2>2. whole = Tree!Over(o.files, t)
      BY <1>1, <1>2, <2>1, LayersHoldTheTree
  <2>3. DOMAIN whole = DOMAIN o.files \cup DOMAIN t
      BY <2>2, OverIs
  <2> QED
      BY <1>2, <2>1, <2>3 DEF IsFork
<1>4. Tree!Paths \subseteq Seq(PathNames)
    BY PathsAreNames
<1>5. \A p \in Tree!Paths : Tree!Read(o, p) = Tree!OfTree(sources[f], p)
    BY <1>2, <1>4, ReadsRight
<1>6. ASSUME NEW p \in Tree!Paths \cup DOMAIN whole, ~ Tree!Astray(o, p)
      PROVE  /\ Tree!OfTree(whole, p) = Tree!OfTree(sources[f], p)
             /\ Tree!IsFile(o, p) = (p \in DOMAIN sources[f])
  <2>1. p \in Seq(PathNames)
      BY <1>3, <1>4
  <2>2. /\ Tree!OfTree(whole, p) = Tree!OfTree(sources[f], p)
        /\ Tree!IsFile(o, p) <=> p \in DOMAIN sources[f]
      BY <1>1, <1>2, <1>6, <2>1, BuiltAt
  <2>3. Tree!IsFile(o, p) \in BOOLEAN
      BY DEF Tree!IsFile
  <2> QED
      BY <2>2, <2>3
<1> QED
    BY <1>5, <1>6

LEMMA CommitsAreRight == ASSUME Tree!VfsAssumption, VfsInv PROVE Tree!CommitReadsAsBuilt
<1>1. SUFFICES ASSUME NEW f \in Tree!Used, NEW p \in Tree!Paths,
                      p \in DOMAIN Tree!Placed(Tree!Checkout) \/ ~ Tree!IsPrefix(Tree!Mount, p)
               PROVE  Tree!GitRead(overlay[f], p)
                      = Tree!OfTree(Tree!Materialized(Tree!GitLayers(overlay[f])), p)
    BY DEF Tree!CommitReadsAsBuilt
<1>2. PICK o : o = overlay[f]
    OBVIOUS
<1>3. IsFork(o) /\ delta \in Deltas /\ p \in Seq(PathNames)
    BY <1>2, UsedOverlay, PathsAreNames DEF VfsInv
<1>4. PICK t : t = Tree!Materialized(Tree!Layers(o))
    OBVIOUS
<1>5. ~ Tree!IsPrefix(Tree!Mount, p) => Tree!Read(o, p) = Tree!OfTree(t, p)
  <2>1. SUFFICES ASSUME ~ Tree!IsPrefix(Tree!Mount, p) PROVE Tree!Read(o, p) = Tree!OfTree(t, p)
      OBVIOUS
  <2>2. ~ Tree!Astray(o, p)
      BY <1>3, <2>1, AstrayIs
  <2>3. Tree!OfTree(t, p) = Tree!OfTree(TreeOf(o), p)
      BY <1>3, <1>4, <2>2, BuiltAt
  <2>4. Tree!Read(o, p) = Tree!OfTree(TreeOf(o), p)
      BY <1>3, ReadsRight
  <2> QED
      BY <2>3, <2>4
<1>6. PICK S : Tree!Layers(o) \in Seq(S)
    BY <1>3, LayersHoldTheTree
<1>7. PICK s, x, T : s = Tree!Layers(o) /\ x = Tree!Checkout /\ T = S \cup {x}
    OBVIOUS
<1>8. s \in Seq(T) /\ x \in T
  <2>1. S \subseteq T /\ x \in T
      BY <1>7
  <2> QED
      BY <1>6, <1>7, <2>1
<1>9. Tree!Materialized(Tree!GitLayers(o)) = Tree!ApplyLayer(t, x)
  <2>1. Tree!Materialized(Append(s, x)) = Tree!ApplyLayer(Tree!Materialized(s), x)
      BY <1>8, OneMoreLayer
  <2> QED
      BY <1>4, <1>7, <2>1 DEF Tree!GitLayers
<1>10. PICK l : l = Tree!Placed(Tree!Checkout)
    OBVIOUS
<1>11. Tree!ApplyLayer(t, x) = Tree!Over(l, Tree!Without(t, {Tree!Mount}))
  <2>1. x.kind = "checkout" /\ x.at = Tree!Mount
      BY <1>7 DEF Tree!Checkout
  <2> QED
      BY <1>7, <1>10, <2>1 DEF Tree!ApplyLayer
<1>12. /\ DOMAIN Tree!Without(t, {Tree!Mount}) = {q \in DOMAIN t : ~ Tree!IsPrefix(Tree!Mount, q)}
       /\ \A q \in DOMAIN Tree!Without(t, {Tree!Mount}) : Tree!Without(t, {Tree!Mount})[q] = t[q]
    BY DEF Tree!Without, Tree!Restrict
<1>13. Tree!GitRead(o, p) = Tree!OfTree(Tree!Over(l, Tree!Without(t, {Tree!Mount})), p)
  <2>1. CASE p \in DOMAIN l
      BY <1>10, <2>1 DEF Tree!GitRead, Tree!OfTree, Tree!Over
  <2>2. CASE p \notin DOMAIN l
    <3>1. ~ Tree!IsPrefix(Tree!Mount, p)
        BY <1>1, <1>10, <2>2
    <3>2. Tree!GitRead(o, p) = Tree!OfTree(t, p)
        BY <1>5, <1>10, <2>2, <3>1 DEF Tree!GitRead
    <3>3. PICK w : w = Tree!Without(t, {Tree!Mount})
        OBVIOUS
    <3>4. (p \in DOMAIN w <=> p \in DOMAIN t) /\ (p \in DOMAIN w => w[p] = t[p])
        BY <1>12, <3>1, <3>3
    <3> QED
        BY <2>2, <3>2, <3>3, <3>4 DEF Tree!OfTree, Tree!Over
  <2> QED
      BY <2>1, <2>2
<1> QED
    BY <1>2, <1>9, <1>11, <1>13

LEMMA CachesAreRight == ASSUME Tree!VfsAssumption, VfsInv PROVE Tree!CachesFit
<1>1. SUFFICES ASSUME NEW f \in Tree!Used, NEW h, h = Tree!Hash(overlay[f])[1], h \notin torn,
                      NEW whole, whole = Tree!Materialized(Tree!Layers(overlay[f]))
               PROVE  /\ h \in DOMAIN vfsBuilds => vfsBuilds[h] = whole
                      /\ h \in DOMAIN trees => trees[h] = DOMAIN whole
    BY DEF Tree!CachesFit
<1>2. PICK o : o = overlay[f]
    OBVIOUS
<1>3. IsFork(o) /\ Tree!Hash(o) = <<HashIn(delta, o)>>
    BY <1>2, UsedOverlay
<1>4. h = HashIn(delta, o)
    BY <1>1, <1>2, <1>3
<1>5. HashTreeIn(delta, h) = whole
    BY <1>1, <1>2, <1>3, <1>4, LayersOfTheHash
<1> QED
    BY <1>1, <1>5 DEF VfsInv, Fits

LEMMA VfsIsRight == ASSUME Tree!VfsAssumption, VfsInv PROVE Tree!VfsIsCoherent
    BY LayersAreRight, CommitsAreRight, CachesAreRight DEF Tree!VfsIsCoherent

LEMMA VfsBegins == ASSUME Tree!VfsAssumption, Tree!Init PROVE VfsInv
<1>1. \A o : o.files = Tree!Empty => TreeOf(o) = Tree!Intended(o.project)
  <2>1. SUFFICES ASSUME NEW o, o.files = Tree!Empty PROVE TreeOf(o) = Tree!Intended(o.project)
      OBVIOUS
  <2>2. PICK i : i = Tree!Intended(o.project) /\ i = [p \in DOMAIN i |-> i[p]]
      BY DEF Tree!Intended, Tree!Over
  <2>3. DOMAIN o.files = {}
      BY <2>1 DEF Tree!Empty
  <2>4. Tree!Over(o.files, i) = i
      BY <2>2, <2>3 DEF Tree!Over
  <2> QED
      BY <2>2, <2>4 DEF TreeOf
<1>2. \A f \in Forks : /\ overlay[f].project = (IF f \in Tree!Given THEN f ELSE "none")
                       /\ overlay[f].files = Tree!Empty /\ overlay[f].deleted = {}
                       /\ overlay[f].hash = Tree!NoHash /\ IsOverlay(overlay[f])
    BY DEF Tree!Init, Tree!Fresh, IsOverlay
<1>3. Tree!Used = Forks \cap Tree!Given
    BY <1>2 DEF Tree!Used, Tree!Given
<1>4. \A f \in Tree!Used : IsFork(overlay[f])
  <2>1. DOMAIN Tree!Empty = {}
      BY DEF Tree!Empty
  <2> QED
      BY <1>2, <1>3, <2>1 DEF IsFork
<1>5. \A f \in Tree!Used : sources[f] = TreeIn(delta, overlay[f])
    BY <1>1, <1>2, <1>3, TheTree DEF Tree!Init
<1>6. \A f \in Forks : overlay[f].project # "none" <=> f \in Tree!Used
    BY DEF Tree!Used
<1>7. \A f \in Tree!Used : HashFits(delta, overlay[f])
    BY <1>2, <1>3 DEF HashFits
<1>8. \A f \in Forks : overlay[f].project = "none" => sources[f] = Tree!Empty
    BY <1>3, <1>6 DEF Tree!Init
<1>9. delta \in Deltas /\ doing = {} /\ DOMAIN vfsBuilds = {} /\ DOMAIN trees = {}
    BY DEF Tree!Init, Tree!Empty
<1>10. overlay = [f \in Forks |-> overlay[f]] /\ sources = [f \in Forks |-> sources[f]]
    BY DEF Tree!Init
<1> QED
    BY <1>2, <1>4, <1>5, <1>6, <1>7, <1>8, <1>9, <1>10 DEF VfsInv

LEMMA VfsTyped ==
  ASSUME Tree!VfsAssumption, VfsInv, NEW f \in Forks, NEW d, NEW o,
         overlay' = [overlay EXCEPT ![f] = o], sources' = [sources EXCEPT ![f] = d]
  PROVE  /\ overlay' = [g \in Forks |-> overlay'[g]] /\ sources' = [g \in Forks |-> sources'[g]]
         /\ overlay'[f] = o /\ sources'[f] = d
         /\ \A g \in Forks \ {f} : overlay'[g] = overlay[g] /\ sources'[g] = sources[g]
    BY DEF VfsInv

LEMMA NewForkKeeps ==
  ASSUME Tree!VfsAssumption, VfsInv, NEW f \in Forks, NEW g \in Forks, Tree!NewFork(f, g)
  PROVE  VfsInv'
<1>1. PICK p, o : p = overlay[f] /\ o = [p EXCEPT !.hash = Tree!NoHash]
    OBVIOUS
<1>2. /\ p.project # "none" /\ overlay[g].project = "none" /\ f # g
      /\ overlay' = [overlay EXCEPT ![g] = o] /\ sources' = [sources EXCEPT ![g] = sources[f]]
      /\ delta' = delta /\ doing' = doing /\ vfsBuilds' = vfsBuilds /\ trees' = trees
      /\ torn' = torn
    BY <1>1 DEF Tree!NewFork, Tree!vfsVars
<1>3. IsOverlay(p) /\ IsFork(p) /\ sources[f] = TreeIn(delta, p)
    BY <1>1, <1>2 DEF VfsInv
<1>4. /\ o.project = p.project /\ o.files = p.files /\ o.deleted = p.deleted
         /\ o.hash = Tree!NoHash
      /\ IsOverlay(o)
    BY <1>1, <1>3 DEF IsOverlay
<1>5. IsFork(o) /\ HashFits(delta, o) /\ sources[f] = TreeIn(delta, o)
    BY <1>3, <1>4 DEF IsFork, HashFits, TreeIn
<1>6. /\ overlay' = [h \in Forks |-> overlay'[h]] /\ sources' = [h \in Forks |-> sources'[h]]
      /\ overlay'[g] = o /\ sources'[g] = sources[f]
      /\ \A h \in Forks \ {g} : overlay'[h] = overlay[h] /\ sources'[h] = sources[h]
    BY <1>2, VfsTyped
<1>7. ASSUME NEW h \in Forks
      PROVE  /\ IsOverlay(overlay'[h])
             /\ overlay'[h].project # "none" =>
                  /\ IsFork(overlay'[h]) /\ HashFits(delta, overlay'[h])
                  /\ sources'[h] = TreeIn(delta, overlay'[h])
             /\ overlay'[h].project = "none" => sources'[h] = Tree!Empty
  <2>1. CASE h = g
      BY <1>2, <1>4, <1>5, <1>6, <2>1
  <2>2. CASE h # g
      BY <1>6, <2>2 DEF VfsInv
  <2> QED
      BY <2>1, <2>2
<1>8. ASSUME NEW c \in doing PROVE CallFits(delta, overlay', torn, c)
  <2>1. CallFits(delta, overlay, torn, c)
      BY DEF VfsInv
  <2>2. c.fork \in Forks /\ c.fork # g
      BY <1>2, <2>1 DEF CallFits
  <2> QED
      BY <1>6, <2>1, <2>2 DEF CallFits
<1>9. delta \in Deltas
    BY DEF VfsInv
<1>10. /\ \A h \in DOMAIN vfsBuilds : Fits(delta, torn, h, vfsBuilds[h])
       /\ \A h \in DOMAIN trees : h \in torn \/ trees[h] = DOMAIN HashTreeIn(delta, h)
    BY DEF VfsInv
<1> QED
    BY <1>2, <1>6, <1>7, <1>8, <1>9, <1>10 DEF VfsInv

\* What is kept, when hashes are added to those of forks that were written too early.
LEMMA StillFits ==
  ASSUME NEW d, NEW t, NEW u, t \subseteq u
  PROVE  /\ \A h, x : Fits(d, t, h, x) => Fits(d, u, h, x)
         /\ \A forks, c : CallFits(d, forks, t, c) => CallFits(d, forks, u, c)
<1>1. \A h, x : Fits(d, t, h, x) => Fits(d, u, h, x)
    BY DEF Fits
<1> QED
    BY <1>1 DEF CallFits

LEMMA NewCall ==
  ASSUME NEW f, NEW tool, NEW p, NEW x, NEW k
  PROVE  LET c == Tree!Call(f, tool, p, x, k)
         IN IsCall(c) /\ c.fork = f /\ c.tool = tool /\ c.path = p /\ c.data = x /\ c.key = k
            /\ c.tree = Tree!Unread
    BY DEF Tree!Call, IsCall

LEMMA BeginWriteKeeps ==
  ASSUME Tree!VfsAssumption, VfsInv, NEW f \in Forks, Tree!BeginWrite(f) PROVE VfsInv'
<1>1. overlay[f].project # "none"
    BY DEF Tree!BeginWrite, Tree!Free
<1>2. PICK p \in VfsEdited, d \in VfsContents :
        doing' = doing \cup {Tree!Call(f, "write", p, d, Tree!NoHash)}
    BY DEF Tree!BeginWrite
<1>3. /\ overlay' = overlay /\ sources' = sources /\ delta' = delta
      /\ vfsBuilds' = vfsBuilds /\ trees' = trees /\ torn' = torn
    BY DEF Tree!BeginWrite
<1>4. PICK c : c = Tree!Call(f, "write", p, d, Tree!NoHash)
    OBVIOUS
<1>5. IsCall(c) /\ c.fork = f /\ c.tool = "write" /\ c.path = p /\ c.data = d
    BY <1>4, NewCall
<1>6. p \in Seq(PathNames) /\ d # Gone
    BY DEF Tree!VfsAssumption
<1>7. CallFits(delta, overlay, torn, c)
    BY <1>1, <1>5, <1>6 DEF CallFits
<1>8. \A e \in doing \cup {c} : CallFits(delta, overlay, torn, e)
    BY <1>7 DEF VfsInv
<1> QED
    BY <1>2, <1>3, <1>4, <1>8 DEF VfsInv

LEMMA EndWriteKeeps ==
  ASSUME Tree!VfsAssumption, VfsInv, NEW c \in doing, Tree!EndWrite(c) PROVE VfsInv'
<1>1. PICK f, p, d : f = c.fork /\ p = c.path /\ d = c.data
    OBVIOUS
<1>2. f \in Forks /\ overlay[f].project # "none" /\ p \in Seq(PathNames) /\ d # Gone
  <2>1. CallFits(delta, overlay, torn, c) /\ c.tool = "write"
      BY DEF VfsInv, Tree!EndWrite
  <2> QED
      BY <1>1, <2>1 DEF CallFits
<1>3. PICK b, o : b = overlay[f] /\ o = Tree!Written(b, p, d)
    OBVIOUS
<1>4. PICK s : s = Tree!Over(Tree!Only(p, d), sources[f])
    OBVIOUS
<1>5. /\ overlay' = [overlay EXCEPT ![f] = o] /\ sources' = [sources EXCEPT ![f] = s]
      /\ delta' = delta /\ vfsBuilds' = vfsBuilds /\ trees' = trees /\ torn' = torn
  <2>1. overlay = [h \in Forks |-> overlay[h]] /\ sources = [h \in Forks |-> sources[h]]
      BY DEF VfsInv
  <2> QED
      BY <1>1, <1>2, <1>3, <1>4, <2>1 DEF Tree!EndWrite
<1>6. IsOverlay(b) /\ IsFork(b) /\ sources[f] = TreeIn(delta, b)
    BY <1>2, <1>3 DEF VfsInv
<1>7. /\ o.project = b.project /\ o.files = Tree!Over(Tree!Only(p, d), b.files)
         /\ o.deleted = b.deleted \ {p}
      /\ o.hash = Tree!NoHash /\ IsOverlay(o)
  <2>1. o = [project |-> b.project, files |-> Tree!Over(Tree!Only(p, d), b.files),
        deleted |-> b.deleted \ {p},
             hash |-> Tree!NoHash, writes |-> b.writes + 1]
    <3>1. PICK x : x = Tree!Over(Tree!Only(p, d), b.files)
        OBVIOUS
    <3>2. o = [b EXCEPT !.files = x, !.deleted = @ \ {p}, !.writes = @ + 1, !.hash = Tree!NoHash]
        BY <1>3, <3>1 DEF Tree!Written
    <3> QED
        BY <1>6, <3>1, <3>2 DEF IsOverlay
  <2> QED
      BY <2>1 DEF IsOverlay
<1>8. IsFork(o)
  <2>1. /\ DOMAIN Tree!Over(Tree!Only(p, d), b.files) = {p} \cup DOMAIN b.files
        /\ \A q \in {p} \cup DOMAIN b.files :
             Tree!Over(Tree!Only(p, d), b.files)[q] = IF q = p THEN d ELSE b.files[q]
      BY DEF Tree!Over, Tree!Only
  <2>2. DOMAIN o.files \subseteq Seq(PathNames) /\ \A q \in DOMAIN o.files : o.files[q] # Gone
      BY <1>2, <1>6, <1>7, <2>1 DEF IsFork
  <2> QED
      BY <1>6, <1>7, <2>2 DEF IsFork
<1>9. s = TreeIn(delta, o)
  <2>1. PICK i : i = IntendedIn(delta, b.project)
      OBVIOUS
  <2>2. TreeIn(delta, b) = Tree!Over(b.files, i) /\ TreeIn(delta, o) = Tree!Over(o.files, i)
      BY <1>7, <2>1 DEF TreeIn
  <2>3. \A x, y, z : Tree!Over(Tree!Over(x, y), z) = Tree!Over(x, Tree!Over(y, z))
      BY DEF Tree!Over
  <2>4. TreeIn(delta, o) = Tree!Over(Tree!Only(p, d), Tree!Over(b.files, i))
      BY <1>7, <2>2, <2>3
  <2> QED
      BY <1>4, <1>6, <2>2, <2>4
<1>10. /\ overlay' = [h \in Forks |-> overlay'[h]] /\ sources' = [h \in Forks |-> sources'[h]]
       /\ overlay'[f] = o /\ sources'[f] = s
       /\ \A h \in Forks \ {f} : overlay'[h] = overlay[h] /\ sources'[h] = sources[h]
    BY <1>2, <1>5, VfsTyped
<1>11. ASSUME NEW h \in Forks
       PROVE  /\ IsOverlay(overlay'[h])
              /\ overlay'[h].project # "none" =>
                   /\ IsFork(overlay'[h]) /\ HashFits(delta, overlay'[h])
                   /\ sources'[h] = TreeIn(delta, overlay'[h])
              /\ overlay'[h].project = "none" => sources'[h] = Tree!Empty
  <2>1. CASE h = f
    <3>1. HashFits(delta, o)
        BY <1>7 DEF HashFits
    <3> QED
        BY <1>2, <1>3, <1>7, <1>8, <1>9, <1>10, <2>1, <3>1
  <2>2. CASE h # f
      BY <1>10, <2>2 DEF VfsInv
  <2> QED
      BY <2>1, <2>2
<1>12. ASSUME NEW e \in doing' PROVE CallFits(delta, overlay', torn, e)
  <2>1. PICK b0 \in doing \ {c} : e = [b0 EXCEPT !.written = @ \/ b0.fork = c.fork]
      BY <1>12 DEF Tree!EndWrite
  <2>2. CallFits(delta, overlay, torn, b0)
      BY DEF VfsInv
  <2>3. IsCall(b0)
      BY <2>2 DEF CallFits
  <2>4. PICK w \in BOOLEAN : w = (b0.written \/ b0.fork = c.fork)
      OBVIOUS
  <2>5. e = [b0 EXCEPT !.written = w]
      BY <2>1, <2>4
  <2>6. /\ e.fork = b0.fork /\ e.tool = b0.tool /\ e.path = b0.path /\ e.data = b0.data
        /\ e.key = b0.key /\ e.written = w /\ e.tree = b0.tree
      BY <2>3, <2>5 DEF IsCall
  <2>7. IsCall(e)
      BY <2>3, <2>4, <2>5, <2>6 DEF IsCall
  <2>8. e.fork \in {h \in Forks : overlay'[h].project # "none"}
    <3>1. e.fork \in Forks /\ overlay[e.fork].project # "none"
        BY <2>2, <2>6 DEF CallFits
    <3>2. e.fork = f => overlay'[e.fork].project # "none"
        BY <1>2, <1>3, <1>7, <1>10
    <3>3. e.fork # f => overlay'[e.fork].project # "none"
        BY <1>10, <3>1
    <3> QED
        BY <3>1, <3>2, <3>3
  <2>9. e.tool # "write" /\ e.tree = Tree!Unread
          => e.written = TRUE \/ e.key = <<HashIn(delta, overlay'[e.fork])>>
    <3>1. CASE b0.fork = f
        BY <1>1, <2>4, <2>6, <3>1
    <3>2. CASE b0.fork # f
      <4>1. overlay'[e.fork] = overlay[b0.fork]
          BY <1>10, <2>2, <2>6, <3>2 DEF CallFits
      <4>2. b0.written = TRUE => w = TRUE
          BY <2>4
      <4> QED
          BY <2>2, <2>6, <4>1, <4>2 DEF CallFits
    <3> QED
        BY <3>1, <3>2
  <2> QED
      BY <2>2, <2>6, <2>7, <2>8, <2>9 DEF CallFits
<1>13. /\ delta \in Deltas
       /\ \A h \in DOMAIN vfsBuilds : Fits(delta, torn, h, vfsBuilds[h])
       /\ \A h \in DOMAIN trees : h \in torn \/ trees[h] = DOMAIN HashTreeIn(delta, h)
    BY DEF VfsInv
<1> QED
    BY <1>5, <1>10, <1>11, <1>12, <1>13 DEF VfsInv

\* A build, or a tree, begins: the hash of the fork is the one of what it holds.
LEMMA BeginUseKeeps ==
  ASSUME Tree!VfsAssumption, VfsInv, NEW f \in Forks, NEW tool, NEW cache,
         Tree!BeginUse(f, tool, cache), tool # "write"
  PROVE  VfsInv'
<1>1. overlay[f].project # "none"
    BY DEF Tree!BeginUse, Tree!Free
<1>2. PICK b, h, o : b = overlay[f] /\ h = <<HashIn(delta, b)>> /\ o = [b EXCEPT !.hash = h]
    OBVIOUS
<1>3. IsOverlay(b) /\ IsFork(b) /\ sources[f] = TreeIn(delta, b)
    BY <1>1, <1>2 DEF VfsInv
<1>4. Tree!Hash(b) = h
  <2>1. f \in Tree!Used
      BY <1>1 DEF Tree!Used
  <2> QED
      BY <1>2, <2>1, UsedOverlay
<1>5. /\ overlay' = [overlay EXCEPT ![f] = o] /\ sources' = sources /\ delta' = delta
      /\ vfsBuilds' = vfsBuilds /\ trees' = trees /\ torn' = torn
      /\ doing' = doing \/ doing' = doing \cup {Tree!Call(f, tool, <<>>, Gone, h)}
  <2>1. overlay' = [overlay EXCEPT ![f].hash = h]
      BY <1>2, <1>4 DEF Tree!BeginUse
  <2>2. overlay' = [overlay EXCEPT ![f] = o]
      BY <1>2, <2>1
  <2> QED
      BY <1>2, <1>4, <2>2 DEF Tree!BeginUse
<1>6. /\ o.project = b.project /\ o.files = b.files /\ o.deleted = b.deleted /\ o.hash = h
      /\ IsOverlay(o)
    BY <1>2, <1>3 DEF IsOverlay
<1>7. HashIn(delta, o) = HashIn(delta, b) /\ TreeIn(delta, o) = TreeIn(delta, b)
    BY <1>6 DEF HashIn, TreeIn
<1>8. IsFork(o) /\ HashFits(delta, o) /\ sources[f] = TreeIn(delta, o)
  <2>1. HashFits(delta, o)
      BY <1>2, <1>6, <1>7 DEF HashFits
  <2> QED
      BY <1>3, <1>6, <1>7, <2>1 DEF IsFork
<1>9. /\ overlay' = [g \in Forks |-> overlay'[g]] /\ overlay'[f] = o
      /\ \A g \in Forks \ {f} : overlay'[g] = overlay[g]
    BY <1>5 DEF VfsInv
<1>10. ASSUME NEW g \in Forks
       PROVE  /\ IsOverlay(overlay'[g])
              /\ overlay'[g].project # "none" =>
                   /\ IsFork(overlay'[g]) /\ HashFits(delta, overlay'[g])
                   /\ sources[g] = TreeIn(delta, overlay'[g])
              /\ overlay'[g].project = "none" => sources[g] = Tree!Empty
  <2>1. CASE g = f
      BY <1>1, <1>2, <1>6, <1>8, <1>9, <2>1
  <2>2. CASE g # f
      BY <1>9, <2>2 DEF VfsInv
  <2> QED
      BY <2>1, <2>2
<1>11. ASSUME NEW e \in doing PROVE CallFits(delta, overlay', torn, e)
  <2>1. CallFits(delta, overlay, torn, e)
      BY DEF VfsInv
  <2>2. e.fork \in Forks /\ overlay[e.fork].project # "none"
      BY <2>1 DEF CallFits
  <2>3. /\ HashIn(delta, overlay'[e.fork]) = HashIn(delta, overlay[e.fork])
        /\ overlay'[e.fork].project = overlay[e.fork].project
    <3>1. CASE e.fork = f
        BY <1>2, <1>6, <1>7, <1>9, <3>1
    <3>2. CASE e.fork # f
        BY <1>9, <2>2, <3>2
    <3> QED
        BY <3>1, <3>2
  <2> QED
      BY <2>1, <2>2, <2>3 DEF CallFits
<1>12. PICK c : c = Tree!Call(f, tool, <<>>, Gone, h)
    OBVIOUS
<1>13. IsCall(c) /\ c.fork = f /\ c.tool = tool /\ c.key = h /\ c.tree = Tree!Unread
    BY <1>12, NewCall
<1>14. CallFits(delta, overlay', torn, c)
  <2>1. overlay'[f].project # "none" /\ HashIn(delta, overlay'[f]) = HashIn(delta, b)
      BY <1>1, <1>2, <1>6, <1>7, <1>9
  <2> QED
      BY <1>2, <1>13, <2>1 DEF CallFits
<1>15. \A e \in doing' : CallFits(delta, overlay', torn, e)
    BY <1>5, <1>11, <1>12, <1>14
<1>16. /\ delta \in Deltas /\ sources = [g \in Forks |-> sources[g]]
       /\ \A g \in DOMAIN vfsBuilds : Fits(delta, torn, g, vfsBuilds[g])
       /\ \A g \in DOMAIN trees : g \in torn \/ trees[g] = DOMAIN HashTreeIn(delta, g)
    BY DEF VfsInv
<1> QED
    BY <1>5, <1>9, <1>10, <1>15, <1>16 DEF VfsInv

\* What is read is what belongs under the key, unless the fork has been written.
LEMMA ReadLayersKeeps ==
  ASSUME Tree!VfsAssumption, VfsInv, NEW c \in doing, Tree!ReadLayers(c) PROVE VfsInv'
<1>1. PICK o, t : o = overlay[c.fork] /\ t = Tree!Materialized(Tree!Layers(o))
    OBVIOUS
<1>2. PICK e : e = [c EXCEPT !.tree = t]
    OBVIOUS
<1>3. /\ delta' = delta /\ overlay' = overlay /\ sources' = sources
      /\ vfsBuilds' = vfsBuilds /\ trees' = trees /\ c.tool # "write" /\ c.tree = Tree!Unread
      /\ doing' = (doing \ {c}) \cup {e}
    BY <1>1, <1>2 DEF Tree!ReadLayers
<1>4. torn \subseteq torn' /\ (c.written = TRUE => c.key[1] \in torn')
    BY DEF Tree!ReadLayers
<1>5. CallFits(delta, overlay, torn, c)
    BY DEF VfsInv
<1>6. IsCall(c) /\ c.fork \in Tree!Used
    BY <1>5 DEF CallFits, Tree!Used
<1>7. /\ e.fork = c.fork /\ e.tool = c.tool /\ e.path = c.path /\ e.data = c.data
      /\ e.key = c.key /\ e.written = c.written /\ e.tree = t
    BY <1>2, <1>6 DEF IsCall
<1>8. IsCall(e)
    BY <1>2, <1>6, <1>7 DEF IsCall
<1>9. Fits(delta, torn', c.key[1], t)
  <2>1. IsFork(o)
      BY <1>1, <1>6, UsedOverlay
  <2>2. t = HashTreeIn(delta, HashIn(delta, o))
      BY <1>1, <2>1, LayersOfTheHash
  <2>3. c.written = TRUE \/ c.key = <<HashIn(delta, o)>>
      BY <1>1, <1>3, <1>5 DEF CallFits
  <2>4. c.key = <<HashIn(delta, o)>> => c.key[1] = HashIn(delta, o)
      OBVIOUS
  <2> QED
      BY <1>4, <2>2, <2>3, <2>4 DEF Fits
<1>10. CallFits(delta, overlay, torn', e)
    BY <1>3, <1>5, <1>7, <1>8, <1>9 DEF CallFits
<1>11. /\ \A d \in doing : CallFits(delta, overlay, torn', d)
       /\ \A h \in DOMAIN vfsBuilds : Fits(delta, torn', h, vfsBuilds[h])
    BY <1>4, StillFits DEF VfsInv
<1>12. \A h \in DOMAIN trees : h \in torn' \/ trees[h] = DOMAIN HashTreeIn(delta, h)
    BY <1>4 DEF VfsInv
<1>13. \A d \in doing' : CallFits(delta, overlay, torn', d)
    BY <1>3, <1>10, <1>11
<1> QED
    BY <1>3, <1>11, <1>12, <1>13 DEF VfsInv

LEMMA EndUseKeeps ==
  ASSUME Tree!VfsAssumption, VfsInv, NEW c \in doing, Tree!EndBuild(c) \/ Tree!EndTree(c)
  PROVE  VfsInv'
<1>1. PICK k, t : k = c.key[1] /\ t = c.tree
    OBVIOUS
<1>2. Fits(delta, torn, k, t)
  <2>1. c.tool # "write" /\ c.tree # Tree!Unread
      BY DEF Tree!EndBuild, Tree!EndTree
  <2> QED
      BY <1>1, <2>1 DEF VfsInv, CallFits
<1>3. /\ doing' = doing \ {c} /\ delta' = delta /\ overlay' = overlay /\ sources' = sources
      /\ torn' = torn
      /\ vfsBuilds' = vfsBuilds \/ vfsBuilds' = Tree!Over(Tree!Only(k, t), vfsBuilds)
      /\ trees' = trees \/ trees' = Tree!Over(trees, Tree!Only(k, DOMAIN t))
    BY <1>1 DEF Tree!EndBuild, Tree!EndTree
<1>4. \A h \in DOMAIN vfsBuilds' : Fits(delta, torn, h, vfsBuilds'[h])
  <2>1. \A h \in DOMAIN vfsBuilds : Fits(delta, torn, h, vfsBuilds[h])
      BY DEF VfsInv
  <2>2. CASE vfsBuilds' = vfsBuilds
      BY <2>1, <2>2
  <2>3. CASE vfsBuilds' = Tree!Over(Tree!Only(k, t), vfsBuilds)
      BY <1>2, <2>1, <2>3 DEF Tree!Over, Tree!Only
  <2> QED
      BY <1>3, <2>2, <2>3
<1>5. \A h \in DOMAIN trees' : h \in torn \/ trees'[h] = DOMAIN HashTreeIn(delta, h)
  <2>1. \A h \in DOMAIN trees : h \in torn \/ trees[h] = DOMAIN HashTreeIn(delta, h)
      BY DEF VfsInv
  <2>2. CASE trees' = trees
      BY <2>1, <2>2
  <2>3. CASE trees' = Tree!Over(trees, Tree!Only(k, DOMAIN t))
    <3>1. k \in torn \/ DOMAIN t = DOMAIN HashTreeIn(delta, k)
        BY <1>2 DEF Fits
    <3> QED
        BY <2>1, <2>3, <3>1 DEF Tree!Over, Tree!Only
  <2> QED
      BY <1>3, <2>2, <2>3
<1>6. \A e \in doing \ {c} : CallFits(delta, overlay, torn, e)
    BY DEF VfsInv
<1> QED
    BY <1>3, <1>4, <1>5, <1>6 DEF VfsInv

LEMMA VfsMoves == ASSUME Tree!VfsAssumption, VfsInv, Tree!Next PROVE VfsInv'
<1>1. \A f \in Forks : Tree!BeginBuild(f) \/ Tree!BeginTree(f) => VfsInv'
  <2>1. SUFFICES ASSUME NEW f \in Forks, Tree!BeginBuild(f) \/ Tree!BeginTree(f) PROVE VfsInv'
      OBVIOUS
  <2>2. CASE Tree!BeginBuild(f)
      BY <2>2, BeginUseKeeps DEF Tree!BeginBuild
  <2>3. CASE Tree!BeginTree(f)
      BY <2>3, BeginUseKeeps DEF Tree!BeginTree
  <2> QED
      BY <2>1, <2>2, <2>3
<1> QED
    BY <1>1, NewForkKeeps, BeginWriteKeeps, EndWriteKeeps, ReadLayersKeeps, EndUseKeeps
       DEF Tree!Next

LEMMA VfsStutters == ASSUME VfsInv, UNCHANGED Tree!vfsVars PROVE VfsInv'
<1>1. /\ delta' = delta /\ overlay' = overlay /\ doing' = doing /\ vfsBuilds' = vfsBuilds
      /\ trees' = trees /\ torn' = torn /\ sources' = sources
    BY DEF Tree!vfsVars
<1> QED
    BY <1>1 DEF VfsInv

(***************************************************************************)
(* The parts together: one of them moves, the others have no variables.    *)
(***************************************************************************)
LEMMA PartsMove ==
  ASSUME [Next]_vars
  PROVE  /\ UNCHANGED subject
         /\ subject = "agent" => [Talk!Next]_(Talk!agentVars)
         /\ subject = "spend" => [Budget!Next]_(Budget!spendVars)
         /\ subject = "vfs" => [Tree!Next]_(Tree!vfsVars)
<1>1. CASE Next
    BY <1>1 DEF Next
<1>2. CASE UNCHANGED vars
  <2>1. UNCHANGED <<subject, agentVars, spendVars, vfsVars>>
      BY <1>2 DEF vars
  <2>2. UNCHANGED Talk!agentVars
      BY <2>1 DEF agentVars, Talk!agentVars
  <2>3. UNCHANGED Budget!spendVars
      BY <2>1 DEF spendVars, Budget!spendVars
  <2>4. UNCHANGED Tree!vfsVars
      BY <2>1 DEF vfsVars, Tree!vfsVars
  <2> QED
      BY <2>1, <2>2, <2>3, <2>4
<1> QED
    BY <1>1, <1>2

\* Every request is one the model APIs accept, for any numbers of iterations, tool calls and
\* failed completions, in whatever order the calls end and whatever is compressed away; and what
\* was said since the model's last words is in it (Agent.run, _apply_actions, compress).
THEOREM RequestsAreWellFormed == Spec => RequestsWellFormed
<1> DEFINE I == subject = "agent" => AgentInv
<1>1. Init => I
    BY AgentStarts, Assumptions DEF Init
<1>2. I /\ [Next]_vars => I'
    BY AgentNext, AgentStutters, PartsMove, Assumptions
<1>3. I => (subject = "agent" => Talk!RequestsWellFormed)
    BY AgentAgrees
<1>4. I /\ [Next]_vars => [subject = "agent" => Talk!KeptTurn]_<<subject, msgs, at>>
  <2>1. CASE subject = "agent" /\ I /\ Next
      BY <2>1, TurnIsKept, PartsMove DEF Next
  <2>2. CASE UNCHANGED vars
      BY <2>2 DEF vars, agentVars
  <2> QED
      BY <2>1, <2>2
<1> QED
    BY <1>1, <1>2, <1>3, <1>4, PTL DEF Spec, RequestsWellFormed

\* For any jobs, limits, deposits and costs, over retries, cancellations and crashes: what was
\* paid is the counter and what is still to settle, and passes the limit by less than a deposit
\* and what jobs overspend (SpendLimiter, completion, LLMSpendTracker).
THEOREM SpendingIsBounded == Spec => []Budgeted
<1> DEFINE I == subject = "spend" => BudgetInv
<1>1. Init => I
    BY BudgetStarts, Assumptions DEF Init
<1>2. I /\ [Next]_vars => I'
    BY BudgetNext, PartsMove, Assumptions
<1>3. I => Budgeted
    BY BudgetAgrees, Assumptions DEF Budgeted
<1> QED
    BY <1>1, <1>2, <1>3, PTL DEF Spec

\* For any trees of the image, the repository and another commit, any diff, any edits and any
\* number of calls on a fork, also of writes during other calls: what is read of a fork file by
\* file is what it should hold, and what is built of it from the layers holds the same, but for
\* the files that the diff deletes; so at another commit; and what is kept under the hash of a
\* fork is what is built of it, unless a fork with that hash was written between its hash and its
\* layers (MountFS, DiffOverlayFS, EditableOverlayFS, hash, _build, _tree).
THEOREM SourcesAreCoherent == Spec => []VfsIsCoherent
<1> DEFINE I == subject = "vfs" => VfsInv
<1>1. Init => I
    BY VfsBegins, Assumptions DEF Init
<1>2. I /\ [Next]_vars => I'
    BY VfsMoves, VfsStutters, PartsMove, Assumptions
<1>3. I => VfsIsCoherent
    BY VfsIsRight, Assumptions DEF VfsIsCoherent
<1> QED
    BY <1>1, <1>2, <1>3, PTL DEF Spec
===============================================================================
