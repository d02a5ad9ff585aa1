------------------------------ MODULE FuzzShares ------------------------------
(***************************************************************************)
(* How the fuzzers of all tasks share the cores of the fuzzing machines:   *)
(* FuzzOverwatcher and FuzzManager.run of crs/modules/fuzzing.py.          *)
(*                                                                         *)
(* A manager plans its jobs without an await, then sleeps until managers   *)
(* come or go, waits for REBALANCE_COOLDOWN, cancels its jobs and plans    *)
(* again.  A plan is the cores its semaphores let its jobs use at a time.  *)
(***************************************************************************)
EXTENDS Integers, Sequences, SequencesExt, FiniteSets, FiniteSetsExt

CONSTANTS
  Machines, Cores,   \* CRS_FUZZER_COUNT, CRS_FUZZER_CORES
  Managers,
  Sizes,             \* what a task may be: harnesses, and fuzzers of other sanitizers
  MaxSecondary,      \* MAX_SECONDARY_FUZZ_JOBS
  MaxEpoch           \* bound: how often managers come and go

ShareAssumption ==
  /\ Machines \in Nat /\ Cores \in Nat /\ MaxSecondary \in Nat /\ IsFiniteSet(Managers)
  /\ Sizes \subseteq [harnesses : Nat \ {0}, others : Nat] \* run() divides by the harnesses

VARIABLES
  active,  \* active_fuzzers (its length is running_fuzzers)
  epoch,
  size,    \* of the task of each manager
  plan     \* what each manager runs, and the epoch it planned for

shareVars == <<active, epoch, size, plan>>

Total == Cores * Machines
NoPlan == [epoch |-> 0, cores |-> 0, secondary |-> 1, cooling |-> FALSE]

Init ==
  /\ active = <<>> /\ epoch = 0
  /\ size \in [Managers -> Sizes]
  /\ plan = [m \in Managers |-> NoPlan]

(***************************************************************************)
(* task_core_share, task_cores_per_job and the first lines of run().       *)
(***************************************************************************)
Running == Len(active)
Place(m) == CHOOSE i \in DOMAIN active : active[i] = m
Base == Max({1, Total \div Running})
\* Mutant: everybody gets one of the cores that are left over.
ShareGenerous(m) == Base + (IF Total > Base * Running THEN 1 ELSE 0)
Share(m) == Base + (IF Place(m) > Running - (Total - Base * Running) THEN 1 ELSE 0)

LargestDivisor(n) == \* the largest number up to n that divides a machine
  CHOOSE d \in 1..n : Cores % d = 0 /\ \A e \in d + 1..n : Cores % e # 0
CoresPerJob(m) ==
  LET n == size[m].harnesses
  IN IF Share(m) \div n > Cores THEN Max({1, Cores})
     ELSE IF Share(m) < n THEN Max({1, Min({4, Cores \div 2})})
     ELSE LargestDivisor(Share(m) \div n)

Planned(m) ==
  LET others == size[m].others
      wanted == IF others = 0 THEN 0 ELSE Max({1, Min({Share(m) \div 3, MaxSecondary, others})})
      primary == Max({1, Share(m) - wanted})
      secondary == Share(m) - primary
      perJob == CoresPerJob(m)
      slots == primary \div perJob
      gaps == primary % perJob
      gapJob == LargestDivisor(Max({1, gaps \div size[m].harnesses}))
  IN [epoch |-> epoch, cooling |-> FALSE,
      cores |-> slots * perJob + (IF gaps = 0 THEN 0 ELSE (gaps \div gapJob) * gapJob) + secondary,
      \* the places the fuzzers of other sanitizers wait for
      secondary |-> IF others = 0 THEN 1 ELSE IF secondary > 0 THEN secondary ELSE slots]

(***************************************************************************)
(* Managers come (activate_fuzzer), plan, notice a change and go.          *)
(***************************************************************************)
Activate(m) ==
  /\ m \notin ToSet(active) /\ epoch < MaxEpoch
  /\ active' = Append(active, m) /\ epoch' = epoch + 1
  /\ UNCHANGED <<size, plan>>

Plan(m) ==
  /\ m \in ToSet(active)
  /\ plan[m].epoch = 0 \/ plan[m].cooling
  /\ plan' = [plan EXCEPT ![m] = Planned(m)]
  /\ UNCHANGED <<active, epoch, size>>

NoticeChange(m) ==
  /\ plan[m].epoch \notin {0, epoch} /\ ~plan[m].cooling
  /\ plan' = [plan EXCEPT ![m].cooling = TRUE]
  /\ UNCHANGED <<active, epoch, size>>

Deactivate(m) == \* the task is cancelled, or at its deadline
  /\ m \in ToSet(active) /\ epoch < MaxEpoch
  /\ active' = RemoveAt(active, Place(m)) /\ epoch' = epoch + 1
  /\ plan' = [plan EXCEPT ![m] = NoPlan]
  /\ UNCHANGED size

Next == \E m \in Managers : Activate(m) \/ Plan(m) \/ NoticeChange(m) \/ Deactivate(m)
SharesSpec == Init /\ [][Next]_shareVars

(***************************************************************************)
(* Properties.                                                             *)
(***************************************************************************)
InUse == MapThenSumSet(LAMBDA m : plan[m].cores, Managers)
Settled == \A m \in ToSet(active) : plan[m].epoch = epoch

\* Once everybody has planned for the managers there are, their shares are all the cores
\* (or a core each, when there are more managers), and their jobs never take more than
\* that: a share is rounded, cut into jobs whose size divides a machine, and the gap that
\* leaves is filled with jobs of its own.
CoresAreShared ==
  active # <<>> /\ Settled =>
    /\ MapThenSumSet(Share, ToSet(active)) = Max({Total, Running})
    /\ InUse <= Max({Total, Running})

\* "otherwise we need to contend with the primary cores": the fuzzers of other sanitizers
\* get a turn.  With one core to a task whose jobs take several, there is no place at all.
SecondariesRun == \A m \in Managers : plan[m].secondary > 0
=============================================================================
