----------------------------- MODULE MCBundling -----------------------------
(* Instances of Bundling: one vulnerability with a SARIF report, a patch and a POV. *)
EXTENDS Bundling

CONSTANTS v1, p1, q1

OneVuln == [x \in {p1, q1} |-> v1]
=============================================================================
