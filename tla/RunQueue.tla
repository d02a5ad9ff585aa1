------------------------------ MODULE RunQueue ------------------------------
(***************************************************************************)
(* What the job queue expects of a scheduler, and all it expects: slots    *)
(* are asked for, granted to some task that asked, and given back.  Which  *)
(* task is served first is left open.  Scheduler implements this.          *)
(***************************************************************************)
EXTENDS Naturals

CONSTANT Keys

VARIABLES waiting, running

rqVars == <<waiting, running>>

Init == /\ waiting = [k \in Keys |-> 0]
        /\ running = [k \in Keys |-> 0]

Ask(k) == /\ waiting' = [waiting EXCEPT ![k] = @ + 1]
          /\ UNCHANGED running

Withdraw(k) == /\ waiting[k] > 0
               /\ \E n \in 0..(waiting[k] - 1) :
                    waiting' = [waiting EXCEPT ![k] = n]
               /\ UNCHANGED running

Grant(k) == /\ waiting[k] > 0
            /\ waiting' = [waiting EXCEPT ![k] = @ - 1]
            /\ running' = [running EXCEPT ![k] = @ + 1]

GiveBack(k) == /\ running[k] > 0
               /\ running' = [running EXCEPT ![k] = @ - 1]
               /\ UNCHANGED waiting

Next == \E k \in Keys : Ask(k) \/ Withdraw(k) \/ Grant(k) \/ GiveBack(k)

Spec == Init /\ [][Next]_rqVars
=============================================================================
