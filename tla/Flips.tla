-------------------------------- MODULE Flips --------------------------------
(***************************************************************************)
(* From a seed of the fuzzer to a branch flip: BulkCoverageWorker of       *)
(* crs/app/helpers.py, CoverageAnalyzer and CoverageDB of                  *)
(* crs/modules/coverage.py, pre_flip_branch and flip_branch of             *)
(* crs/app/app.py.  One harness; a function stands for its lines.          *)
(*                                                                         *)
(* What is covered is kept four times: in the parser's bitmap (a file), in *)
(* the coverage table, in the graph (memory), and as the frontiers already *)
(* tried (a table).  A function the bitmap has is never reported again.    *)
(***************************************************************************)
EXTENDS Integers, Sequences, SequencesExt, FiniteSets, Functions

CONSTANTS
  Seeds, Funcs,
  Covers,     \* the functions a seed runs through
  Callees,    \* the call graph: the functions a function calls
  MaxFlips,   \* MAX_BRANCH_FLIP_PER_TASK
  MaxFaults, MaxCrashes  \* bounds

FlipsAssumption ==
  /\ IsFiniteSet(Seeds)
  /\ Covers \in [Seeds -> SUBSET Funcs] /\ Callees \in [Funcs -> SUBSET Funcs]
  /\ {MaxFlips, MaxFaults, MaxCrashes} \subseteq Nat

VARIABLES
  coverage,  \* the PROCESS_COVERAGE job of each seed
  batch,     \* what BulkCoverageWorker does
  bitmap,    \* cov.bmp
  table,     \* functions with rows in coverage
  loaded,    \* CoverageAnalyzer.init has run
  hits,      \* functions with direct hits in the graph
  closest,   \* the hit next to a frontier function
  branchflips, \* (target, closest) pairs of the table
  pre, flip, \* the PRE_FLIP_BRANCH and FLIP_BRANCH jobs of each pair
  budget,    \* the FLIP_BRANCH counter
  asked, started, \* history: jobs submitted for a pair, flips begun
  faults, crashes

flipVars == <<coverage, batch, bitmap, table, loaded, hits, closest, branchflips, pre, flip,
              budget, asked, started, faults, crashes>>

Pairs == Funcs \X Funcs
Idle == [phase |-> "idle", seeds |-> {}, failed |-> {}, todo |-> {}]

Init ==
  /\ coverage = [s \in Seeds |-> "none"]
  /\ batch = Idle
  /\ bitmap = {} /\ table = {} /\ branchflips = {}
  /\ loaded = FALSE /\ hits = {} /\ closest = << >>
  /\ pre = [p \in Pairs |-> "none"] /\ flip = [p \in Pairs |-> "none"]
  /\ budget = 0 /\ started = 0
  /\ asked = [p \in Pairs |-> 0]
  /\ faults = 0 /\ crashes = 0

(***************************************************************************)
(* The graph: a function called by a hit one that is not hit itself is on  *)
(* the frontier, and remembers the first caller that put it there.         *)
(***************************************************************************)
CallersOf(f, by) == {c \in by : f \in Callees[c]}
Frontier(by) == {f \in Funcs \ by : CallersOf(f, by) # {}}
ClosestTo(by, old) ==
  {c \in [Frontier(by) -> by] : \A f \in Frontier(by) :
      IF f \in DOMAIN old THEN c[f] = old[f] ELSE c[f] \in CallersOf(f, by)}

(***************************************************************************)
(* A seed is found; the worker takes what waits, runs it, and answers.     *)
(***************************************************************************)
AddSeed(s) ==
  /\ coverage[s] = "none"
  /\ coverage' = [coverage EXCEPT ![s] = "waiting"]
  /\ UNCHANGED <<batch, bitmap, table, loaded, hits, closest, branchflips, pre, flip, budget,
                 asked, started, faults, crashes>>

GraphLoaded == \* CoverageAnalyzer.init, once: the graph, filled from the table
  IF loaded THEN UNCHANGED <<loaded, hits, closest>>
  ELSE loaded' = TRUE /\ hits' = table /\ closest' \in ClosestTo(table, << >>)

StartBatch ==
  /\ batch.phase = "idle"
  /\ \E seeds \in SUBSET {s \in Seeds : coverage[s] = "waiting"} \ {{}} :
       batch' = [Idle EXCEPT !.phase = "run", !.seeds = seeds]
  /\ GraphLoaded
  /\ UNCHANGED <<coverage, bitmap, table, branchflips, pre, flip, budget, asked, started, faults, crashes>>

\* collect_coverages: the parser takes one report after the other, says what each covers
\* if any of it is new, and writes the bitmap back.  A seed whose file is gone by now is
\* answered without being run, one that times out has no report.
Covered(order, n) == UNION {Covers[order[i]] : i \in 1..n}
News(order) ==
  {n \in DOMAIN order : ~(Covers[order[n]] \subseteq bitmap \cup Covered(order, n - 1))}
Collect ==
  /\ batch.phase = "run"
  /\ \E present \in SUBSET batch.seeds : \E ran \in SUBSET present : \E order \in SetToSeqs(ran) :
       /\ ran # present => faults < MaxFaults
       /\ faults' = IF ran = present THEN faults ELSE faults + 1
       /\ bitmap' = bitmap \cup Covered(order, Len(order))
       /\ batch' = [batch EXCEPT !.phase = "parsed", !.failed = present \ ran,
                                 !.todo = UNION {Covers[order[n]] : n \in News(order)}]
  /\ UNCHANGED <<coverage, table, loaded, hits, closest, branchflips, pre, flip, budget, asked,
                 started, crashes>>

Stored(found) == hits \union found
Store == \* update_coverages, up to its commit
  /\ batch.phase = "parsed"
  /\ table' = table \union batch.todo
  /\ hits' = Stored(batch.todo) /\ closest' \in ClosestTo(hits', closest)
  /\ batch' = [batch EXCEPT !.phase = "stored", !.todo = {}]
  /\ UNCHANGED <<coverage, bitmap, loaded, branchflips, pre, flip, budget, asked, started, faults, crashes>>

\* The container, the parser or the database failed: every seed of the batch runs again.
BatchFails ==
  /\ batch.phase \in {"run", "parsed"} /\ faults < MaxFaults
  /\ faults' = faults + 1
  /\ batch' = [batch EXCEPT !.phase = "stored", !.todo = {}, !.failed = batch.seeds]
  /\ UNCHANGED <<coverage, bitmap, table, loaded, hits, closest, branchflips, pre, flip, budget,
                 asked, started, crashes>>

\* query_frontier and dedup_frontiers(update_db=True), which commits.
\* Mutant: the pairs are not written.
NoneMarked(new) == branchflips
Marked(new) == branchflips \union new
Dedup ==
  /\ batch.phase = "stored"
  /\ LET new == {<<f, closest[f]>> : f \in DOMAIN closest} \ branchflips
     IN /\ branchflips' = Marked(new)
        /\ batch' = [batch EXCEPT !.phase = "deduped", !.todo = new]
  /\ UNCHANGED <<coverage, bitmap, table, loaded, hits, closest, pre, flip, budget, asked,
                 started, faults, crashes>>

HandleFrontier == \* submits a job for one pair at a time
  \E p \in batch.todo :
    /\ batch.phase = "deduped"
    /\ batch' = [batch EXCEPT !.todo = @ \ {p}]
    /\ pre' = [pre EXCEPT ![p] = "waiting"] /\ asked' = [asked EXCEPT ![p] = @ + 1]
    /\ UNCHANGED <<coverage, bitmap, table, loaded, hits, closest, branchflips, flip, budget,
                   started, faults, crashes>>

Answer == \* a job that failed is retried
  /\ batch.phase = "deduped" /\ batch.todo = {}
  /\ coverage' = [s \in Seeds |-> IF s \in batch.failed \/ s \notin batch.seeds THEN coverage[s] ELSE "done"]
  /\ batch' = Idle
  /\ UNCHANGED <<bitmap, table, loaded, hits, closest, branchflips, pre, flip, budget, asked,
                 started, faults, crashes>>

(***************************************************************************)
(* The jobs of a pair.  Both look at the budget first.                     *)
(***************************************************************************)
PreFlip(p) == \* the delay is over
  /\ pre[p] = "waiting"
  /\ IF budget > MaxFlips THEN UNCHANGED <<loaded, hits, closest>> ELSE GraphLoaded
  /\ pre' = [pre EXCEPT ![p] = "done"]
  /\ \E likely \in BOOLEAN :
       flip' = [flip EXCEPT ![p] = IF likely /\ budget <= MaxFlips /\ p[1] \notin hits' THEN "waiting" ELSE @]
  /\ UNCHANGED <<coverage, batch, bitmap, table, branchflips, budget, asked, started, faults, crashes>>

CheckBudget(p) ==
  /\ flip[p] = "waiting"
  /\ flip' = [flip EXCEPT ![p] = IF budget > MaxFlips THEN "done" ELSE "checked"]
  /\ UNCHANGED <<coverage, batch, bitmap, table, loaded, hits, closest, branchflips, pre, budget,
                 asked, started, faults, crashes>>

Allowed(drawn) == drawn <= MaxFlips
DrawFlip(p) == \* fetch_add
  /\ flip[p] = "checked"
  /\ budget' = budget + 1
  /\ IF Allowed(budget)
     THEN flip' = [flip EXCEPT ![p] = "running"] /\ started' = started + 1
     ELSE flip' = [flip EXCEPT ![p] = "done"] /\ UNCHANGED started
  /\ UNCHANGED <<coverage, batch, bitmap, table, loaded, hits, closest, branchflips, pre, asked,
                 faults, crashes>>

FlipBranch(p) == \* the flipper ends; what it built is a seed like any other
  /\ flip[p] = "running"
  /\ flip' = [flip EXCEPT ![p] = "done"]
  /\ UNCHANGED <<coverage, batch, bitmap, table, loaded, hits, closest, branchflips, pre, budget,
                 asked, started, faults, crashes>>

Crash == \* jobs that were running run again
  /\ crashes < MaxCrashes /\ crashes' = crashes + 1
  /\ batch' = Idle /\ loaded' = FALSE /\ hits' = {} /\ closest' = << >>
  /\ flip' = [p \in Pairs |-> IF flip[p] \in {"checked", "running"} THEN "waiting" ELSE flip[p]]
  /\ UNCHANGED <<coverage, bitmap, table, branchflips, pre, budget, asked, started, faults>>

Next ==
  \/ \E s \in Seeds : AddSeed(s)
  \/ StartBatch \/ Collect \/ Store \/ BatchFails \/ Dedup \/ HandleFrontier \/ Answer
  \/ \E p \in Pairs : PreFlip(p) \/ CheckBudget(p) \/ DrawFlip(p) \/ FlipBranch(p)
  \/ Crash
FlipsSpec == Init /\ [][Next]_flipVars

(***************************************************************************)
(* Properties.                                                             *)
(***************************************************************************)
\* Crashes and failures included, no pair is handed to the flippers twice, and the flips
\* of a task stay within its budget although many jobs look at it before any has counted.
TriedOnce == (\A p \in Pairs : asked[p] <= 1) /\ started <= MaxFlips + 1

\* The graph shows the coverage of the table, also after it was loaded again, and nothing
\* is in the table that the bitmap would report anew.
GraphIsTable == (loaded => hits = table) /\ table \subseteq bitmap

\* Unless something failed, every pair that is marked was handed on, and everything the
\* bitmap will not report again is in the table.
NothingLeftOut ==
  faults = 0 /\ crashes = 0 =>
    /\ branchflips = {p \in Pairs : asked[p] > 0} \union (IF batch.phase = "deduped" THEN batch.todo ELSE {})
    /\ bitmap = table \union (IF batch.phase = "parsed" THEN batch.todo ELSE {})

FlipsAccounted == TriedOnce /\ GraphIsTable /\ NothingLeftOut

\* "if there was new coverage, update our graph": between two batches the graph has all
\* that was ever reported.  (Lost when the process ends after the bitmap is written.)
NewCoverageStored == batch.phase = "idle" => bitmap = table
=============================================================================
