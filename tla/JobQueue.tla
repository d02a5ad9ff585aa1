------------------------------ MODULE JobQueue ------------------------------
(***************************************************************************)
(* What the work database promises, without memory, loop or flushes: a job *)
(* becomes durable once, is then worked on by at most one callback at a    *)
(* time and only while unsettled, within the limit of its kind, and is     *)
(* settled at most once.  A crash stops callbacks and nothing else.        *)
(***************************************************************************)
EXTENDS Naturals, FiniteSets

CONSTANTS Jobs, Kinds, Outcomes, Limit, NoKind

VARIABLES
  fate,    \* "absent", "open", or one of Outcomes
  kind,    \* the kind of every durable job
  active   \* jobs whose callback is being run

jqVars == <<fate, kind, active>>

Init ==
  /\ fate = [j \in Jobs |-> "absent"]
  /\ kind = [j \in Jobs |-> NoKind]
  /\ active = {}

\* Some submissions become durable together.
Accept(S) ==
  /\ \A j \in S : fate[j] = "absent"
  /\ fate' = [j \in Jobs |-> IF j \in S THEN "open" ELSE fate[j]]
  /\ \A j \in Jobs : IF j \in S THEN kind'[j] \in Kinds ELSE kind'[j] = kind[j]
  /\ DOMAIN kind' = Jobs
  /\ UNCHANGED active

Start(j) ==
  /\ fate[j] = "open" /\ j \notin active
  /\ Cardinality({i \in active : kind[i] = kind[j]}) < Limit[kind[j]]
  /\ active' = active \cup {j}
  /\ UNCHANGED <<fate, kind>>

Stop(j) ==
  /\ j \in active
  /\ active' = active \ {j}
  /\ UNCHANGED <<fate, kind>>

\* Some jobs that nobody works on any more get their outcome.
Settle(S) ==
  /\ \A j \in S : fate[j] = "open" /\ j \notin active
  /\ \E outcome \in [S -> Outcomes] :
       fate' = [j \in Jobs |-> IF j \in S THEN outcome[j] ELSE fate[j]]
  /\ UNCHANGED <<kind, active>>

Crash ==
  /\ active' = {}
  /\ UNCHANGED <<fate, kind>>

Next ==
  \/ \E S \in SUBSET Jobs : Accept(S) \/ Settle(S)
  \/ \E j \in Jobs : Start(j) \/ Stop(j)
  \/ Crash

Spec == Init /\ [][Next]_jqVars
=============================================================================
