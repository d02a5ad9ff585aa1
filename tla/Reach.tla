-------------------------------- MODULE Reach --------------------------------
(***************************************************************************)
(* ReachabilityGraph of crs/modules/graph.py: the call graph, the          *)
(* functions each harness has run, and what can be reached from them.      *)
(*                                                                         *)
(* A hit is spread over the callees with a set of work that is popped in   *)
(* no particular order; closest is shared by all harnesses, reachable_hits *)
(* is not.  A node is the number the graph gave it, counted from 0.        *)
(***************************************************************************)
EXTENDS Integers, FiniteSets, FiniteSetsExt

CONSTANTS
  Nodes,      \* 0 .. n
  Graphs,     \* the call graphs to look at: sets of <<caller, callee>>
  Inputs,     \* inputs, each with a harness and the functions it runs through
  None

ReachAssumption ==
  /\ IsFiniteSet(Nodes) /\ Graphs \subseteq SUBSET (Nodes \X Nodes)
  /\ \A i \in Inputs : i.covers \subseteq Nodes /\ i.id \in Nat
  /\ None \notin [harness : {i.harness : i \in Inputs}, input : Inputs, entry : Nodes, distance : Nat]

VARIABLES
  calls,      \* the call graph
  direct, reachable, \* direct_hits and reachable_hits of each node
  frontier,   \* nodes with frontier set
  closest,    \* closest of each node
  rows,       \* coverage in the database: inputs stored
  loading,    \* rows the restarted graph has yet to add
  source,     \* the input being spread
  queued

reachVars == <<calls, direct, reachable, frontier, closest, rows, loading, source, queued>>

Callees(n) == {m \in Nodes : <<n, m>> \in calls}
Blank == [n \in Nodes |-> {}]

Init ==
  /\ calls \in Graphs
  /\ direct = Blank /\ reachable = Blank /\ frontier = {}
  /\ closest = [n \in Nodes |-> None]
  /\ rows = {} /\ loading = {}
  /\ source = None /\ queued = {}

(***************************************************************************)
(* add_new_hits, and add_new_hit for each row when the graph is loaded.    *)
(***************************************************************************)
\* get_info_for_line: `if not entry` is true of node 0 as well.
Resolved(n) == n # 0

Farther(c, distance) == c = None \/ distance < c.distance
Closest(input, entry, distance) == [harness |-> input.harness, input |-> input, entry |-> entry, distance |-> distance]

LeftFrontier(hit) == frontier \ hit

Hit(input, nodes) ==
  LET hit == {n \in nodes : Resolved(n)}
  IN /\ queued = {}
     /\ direct' = [n \in Nodes |-> IF n \in hit THEN direct[n] \union {input.harness} ELSE direct[n]]
     /\ closest' = [n \in Nodes |-> IF n \in hit /\ (closest[n] = None \/ closest[n].distance > 0)
                                    THEN Closest(input, n, 0) ELSE closest[n]]
     /\ frontier' = LeftFrontier(hit)
     /\ queued' = UNION {{[cur |-> m, entry |-> n, distance |-> 1] : m \in Callees(n)} : n \in hit}
     /\ source' = input
     /\ UNCHANGED <<calls, reachable>>

AddNewHits(input) == \* update_coverages: stored, then added
  /\ input \notin rows /\ loading = {}
  /\ Hit(input, input.covers)
  /\ rows' = rows \union {input} /\ UNCHANGED loading

\* Mutant: descendants are visited only when the node is new to the harness.
NewToHarness(n, nearer) == source.harness \notin reachable[n]
UpdateDescendants(n, nearer) == source.harness \notin reachable[n] \/ nearer

Spread(q) == \* one turn of the while loop
  LET n == q.cur
      nearer == Farther(closest[n], q.distance)
      rest == queued \ {q}
  IN IF source.harness \in direct[n]
     THEN queued' = rest /\ UNCHANGED <<calls, direct, reachable, frontier, closest, rows, loading, source>>
     ELSE /\ frontier' = IF q.distance = 1 /\ direct[n] = {} THEN frontier \union {n} ELSE frontier
          /\ reachable' = [reachable EXCEPT ![n] = @ \union {source.harness}]
          /\ closest' = IF nearer THEN [closest EXCEPT ![n] = Closest(source, q.entry, q.distance)] ELSE closest
          /\ queued' = rest \union IF UpdateDescendants(n, nearer)
                                   THEN {[cur |-> m, entry |-> q.entry, distance |-> q.distance + 1] : m \in Callees(n)}
                                   ELSE {}
          /\ UNCHANGED <<calls, direct, rows, loading, source>>

Of(n, h) == {i \in rows : i.harness = h /\ n \in i.covers}
First(n, h) == CHOOSE i \in Of(n, h) : \A j \in Of(n, h) : i.id <= j.id
Restart == \* initialize_graph, then foreach_covered_lines: one input of each line and harness
  /\ queued = {} /\ loading = {} /\ rows # {}
  /\ direct' = Blank /\ reachable' = Blank /\ frontier' = {}
  /\ closest' = [n \in Nodes |-> None]
  /\ loading' = {[input |-> First(x[1], x[2]), node |-> x[1]] :
                   x \in {y \in Nodes \X {i.harness : i \in rows} : Of(y[1], y[2]) # {}}}
  /\ UNCHANGED <<calls, rows, source, queued>>

AddNewHit(row) ==
  /\ Hit(row.input, {row.node})
  /\ loading' = loading \ {row} /\ UNCHANGED rows

Next ==
  \/ \E i \in Inputs : AddNewHits(i)
  \/ \E q \in queued : Spread(q)
  \/ Restart
  \/ \E row \in loading : AddNewHit(row)
ReachSpec == Init /\ [][Next]_reachVars

(***************************************************************************)
(* Properties.                                                             *)
(***************************************************************************)
Steps == 0..Cardinality(Nodes)
Reached(from) == \* what can be called within k calls from a set of functions
  [k \in Steps |-> {n \in Nodes : \E path \in [0..k -> Nodes] :
     path[0] \in from /\ path[k] = n /\ \A j \in 1..k : <<path[j - 1], path[j]>> \in calls}]
HitBy(h) == {n \in Nodes : h \in direct[n]}
AllHit == {n \in Nodes : direct[n] # {}}

\* Once a hit has spread, whatever the order, each node knows the harnesses that can reach
\* it, the frontier is the callees of hit functions that are not hit, and closest is a
\* function at the shortest distance from the node, with an input and a harness that do
\* run it: the input a branch flip starts from.
GraphIsExact ==
  queued = {} /\ loading = {} =>
    \A n \in Nodes :
      /\ \A i \in rows : LET r == Reached(HitBy(i.harness)) IN
           i.harness \notin direct[n] =>
             (i.harness \in reachable[n] <=> \E k \in Steps : n \in r[k])
      /\ n \in frontier <=> n \notin AllHit /\ n \in Reached(AllHit)[1]
      /\ IF closest[n] = None THEN \A k \in Steps : n \notin Reached(AllHit)[k]
         ELSE /\ closest[n].entry \in closest[n].input.covers /\ closest[n].input \in rows
              /\ n \in Reached({closest[n].entry})[closest[n].distance]
              /\ \A k \in 0..closest[n].distance - 1 : n \notin Reached(AllHit)[k]

\* query_hit: "Attempts to answer IS the given file and line be reached from user input".
\* The function with number 0 is never found.
HitsAreFound == queued = {} /\ loading = {} => \A i \in rows : \A n \in i.covers : direct[n] # {}
=============================================================================
