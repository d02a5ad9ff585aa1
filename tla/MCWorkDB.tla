------------------------------ MODULE MCWorkDB ------------------------------
(* Instances of WorkDB for TLC. *)
EXTENDS WorkDB

CONSTANTS t1, t2, build, fuzz

Req(t, w, d, p, u) ==
  [task |-> t, worktype |-> w, data |-> d, priority |-> p, unique |-> u]

\* Two tasks, a repeated unique job and plain jobs of two priorities.
MixedRequests == { Req(t1, build, 1, 1, TRUE), Req(t1, build, 2, 0, FALSE),
                   Req(t2, build, 1, 1, FALSE) }

\* The same and a job of a second worktype.
TwoTypeRequests == MixedRequests \cup { Req(t2, fuzz, 1, 1, FALSE) }

\* One kind of job may outlive its expiration.
ShortLived == { Req(t1, build, 2, 0, FALSE) }

Nothing == {}

One == [w \in WorkTypes |-> 1]
Two == [w \in WorkTypes |-> 2]
=============================================================================
