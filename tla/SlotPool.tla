------------------------------ MODULE SlotPool ------------------------------
(***************************************************************************)
(* What a semaphore of N slots promises, whoever is served first: at most  *)
(* N clients own a slot, and a slot changes hands without being lost.      *)
(***************************************************************************)
EXTENDS Naturals, FiniteSets

CONSTANTS Clients, N

VARIABLE owners

Init == owners = {}

Take(c) == /\ c \notin owners /\ Cardinality(owners) < N
           /\ owners' = owners \cup {c}

Give(c) == /\ c \in owners
           /\ owners' = owners \ {c}

Pass(c, d) == /\ c \in owners /\ d \notin owners
              /\ owners' = (owners \ {c}) \cup {d}

Next == \E c \in Clients : Take(c) \/ Give(c) \/ \E d \in Clients : Pass(c, d)

Spec == Init /\ [][Next]_owners
=============================================================================
