-------------------------------- MODULE Corpus --------------------------------
(***************************************************************************)
(* The seeds of one harness (crs/modules/fuzzing.py): the directory on     *)
(* disk, CorpusManager.seeds in memory and the fuzzers' containers, while  *)
(* fuzzers find seeds, agents add some and the corpus is minimised.        *)
(*                                                                         *)
(* Files are written and removed by threads: a step on the disk and the    *)
(* step on the set that follows it are apart.  A seed is what it covers.   *)
(***************************************************************************)
EXTENDS Integers, FiniteSets, FiniteSetsExt

CONSTANTS
  Seeds,
  Covers,        \* what a seed covers
  Given,         \* seeds added with never_minimize (their names end in _nodelete)
  OthersSeeds,   \* seeds that other builds of the harness have
  MinSize,       \* should_minimize: 100
  Rounds, Restarts  \* bounds: minimisations (with the match) and restarts

VARIABLES
  files,      \* seed_path
  seeds,      \* CorpusManager.seeds
  lastMin,    \* last_min_size, and the checkpoint file
  box,        \* seeds in the fuzzer's container
  harvested,  \* FuzzHarnessManager.known_seeds
  writing,    \* seeds that were written and are not yet in the set: found, or added
  min,        \* the minimisation: its phase, the seeds it knew and those to remove
  covered,    \* history: what the files have covered
  mislaid,    \* history: seeds removed for a failed listing, or whose copy failed
  rounds, restarts

corpusVars == <<files, seeds, lastMin, box, harvested, writing, min, covered, mislaid, rounds,
                restarts>>

Idle == [at |-> "idle", known |-> {}, remove |-> {}]
CoverOf(s) == UNION {Covers[x] : x \in s}
Written(new) == files' = files \cup new /\ covered' = covered \cup CoverOf(new)

Init ==
  /\ files = {} /\ seeds = {} /\ lastMin = 0 /\ box = {} /\ harvested = {}
  /\ writing = [found |-> {}, added |-> {}]
  /\ min = Idle /\ covered = {} /\ mislaid = {}
  /\ rounds = 0 /\ restarts = 0

(***************************************************************************)
(* The fuzzer: it leaves a seed in its container; the loop of              *)
(* _inner_fuzz_loop reads what is new there (some of it: files may vanish),*)
(* and records it.                                                         *)
(***************************************************************************)
Found(s) ==
  /\ s \notin box \cup Given
  /\ box' = box \cup {s}
  /\ UNCHANGED <<files, seeds, lastMin, harvested, writing, min, covered, mislaid, rounds, restarts>>

Harvest ==
  /\ writing.found = {}
  /\ \E new \in (SUBSET (box \ (seeds \cup harvested))) \ {{}} :
       /\ Written(new) /\ writing' = [writing EXCEPT !.found = new]
  /\ UNCHANGED <<seeds, lastMin, box, harvested, min, mislaid, rounds, restarts>>

AddSeedsBulk ==
  /\ writing.found # {}
  /\ seeds' = seeds \cup writing.found /\ harvested' = harvested \cup writing.found
  /\ writing' = [writing EXCEPT !.found = {}]
  /\ UNCHANGED <<files, lastMin, box, min, covered, mislaid, rounds, restarts>>

\* untar_to_docker: a file that is missing by now is passed over.
SyncToFuzzer ==
  /\ ~ seeds \cap files \subseteq box
  /\ box' = box \cup (seeds \cap files)
  /\ UNCHANGED <<files, seeds, lastMin, harvested, writing, min, covered, mislaid, rounds, restarts>>

\* run_harness_task: the fuzzer failed, or others wait for its cores; the next container
\* begins with the seeds that are known, and what was left in the old one is gone.
NewContainer ==
  /\ box # seeds \cap files
  /\ box' = seeds \cap files
  /\ UNCHANGED <<files, seeds, lastMin, harvested, writing, min, covered, mislaid, rounds, restarts>>

\* do_unzip: the project's own seeds are unpacked in the container and written to disk;
\* they enter the set only when the fuzzer's loop sees them.
Unzip ==
  /\ \E s \in box \ (files \cup Given) : Written({s})
  /\ UNCHANGED <<seeds, lastMin, box, harvested, writing, min, mislaid, rounds, restarts>>

WipeStaleSeeds ==
  /\ ~ box \subseteq seeds
  /\ box' = box \cap seeds
  /\ UNCHANGED <<files, seeds, lastMin, harvested, writing, min, covered, mislaid, rounds, restarts>>

(***************************************************************************)
(* CorpusManager.add_seed, for the seeds of agents, of branch flips and of *)
(* a corpus match.                                                         *)
(***************************************************************************)
WriteSeed(s) ==
  /\ writing.added = {} /\ s \notin files
  /\ Written({s}) /\ writing' = [writing EXCEPT !.added = {s}]
  /\ UNCHANGED <<seeds, lastMin, box, harvested, min, mislaid, rounds, restarts>>

AddSeed ==
  /\ writing.added # {}
  /\ seeds' = seeds \cup writing.added
  /\ writing' = [writing EXCEPT !.added = {}]
  /\ UNCHANGED <<files, lastMin, box, harvested, min, covered, mislaid, rounds, restarts>>

MayFail == mislaid = {}  \* bound: one failure that mislays seeds
Copies(new) == IF MayFail THEN SUBSET new ELSE {new}

\* gather_local_seeds: the seeds of other builds of the harness; a copy that fails is
\* in the set nevertheless.
GatherLocalSeeds ==
  /\ writing.added = {}
  /\ \E new \in (SUBSET OthersSeeds) \ {{}} : \E copied \in Copies(new) :
       /\ Written(copied) /\ mislaid' = mislaid \cup (new \ copied)
       /\ writing' = [writing EXCEPT !.added = new]
  /\ UNCHANGED <<seeds, lastMin, box, harvested, min, rounds, restarts>>

(***************************************************************************)
(* match_corpus, once, under the lock minimize takes: seeds of a library   *)
(* that reach something are added one by one (WriteSeed, AddSeed).         *)
(***************************************************************************)
MatchCorpus ==
  /\ min = Idle /\ rounds < Rounds
  /\ min' = [Idle EXCEPT !.at = "matching"] /\ rounds' = rounds + 1
  /\ UNCHANGED <<files, seeds, lastMin, box, harvested, writing, covered, mislaid, restarts>>

Matched ==
  /\ min.at = "matching" /\ writing.added = {}
  /\ lastMin' \in {lastMin, Cardinality(seeds)}  \* it may have failed
  /\ min' = Idle
  /\ UNCHANGED <<files, seeds, box, harvested, writing, covered, mislaid, rounds, restarts>>

(***************************************************************************)
(* minimize: only seeds known before the merge are removed, by name.  The  *)
(* merge keeps a set of the seeds it was given that covers as much.        *)
(***************************************************************************)
ShouldMinimize == Cardinality(seeds) > Max({MinSize, 2 * lastMin})

StartMinimize ==
  /\ min = Idle /\ ShouldMinimize /\ rounds < Rounds
  /\ rounds' = rounds + 1
  /\ min' = [at |-> "merging", known |-> seeds, remove |-> seeds \cap files]
  /\ UNCHANGED <<files, seeds, lastMin, box, harvested, writing, covered, mislaid, restarts>>

\* Mutant: seeds that came during the merge are stale too.
StaleNow(keep) == seeds \ keep
Stale(keep) == min.known \ keep

\* docker.vls does not look at the status of find: a failure is an empty listing.
Listings(merged) == IF MayFail THEN {merged, {}} ELSE {merged}

Merge ==
  /\ min.at = "merging"
  /\ \E merged \in SUBSET min.remove : \E listed \in Listings(merged) :
       /\ CoverOf(merged) = CoverOf(min.remove)
       /\ min' = [min EXCEPT !.at = "unlinking", !.remove = Stale(listed) \ Given]
       /\ mislaid' = IF listed = merged THEN mislaid ELSE mislaid \cup min'.remove
  /\ UNCHANGED <<files, seeds, lastMin, box, harvested, writing, covered, rounds, restarts>>

MergeFails == \* or it times out
  /\ min.at = "merging" /\ min' = Idle
  /\ UNCHANGED <<files, seeds, lastMin, box, harvested, writing, covered, mislaid, rounds, restarts>>

Unlink ==
  /\ min.at = "unlinking"
  /\ files' = files \ min.remove /\ min' = [min EXCEPT !.at = "unlinked"]
  /\ UNCHANGED <<seeds, lastMin, box, harvested, writing, covered, mislaid, rounds, restarts>>

Minimized ==
  /\ min.at = "unlinked"
  /\ seeds' = seeds \ min.remove /\ lastMin' = Cardinality(seeds')
  /\ min' = Idle
  /\ UNCHANGED <<files, box, harvested, writing, covered, mislaid, rounds, restarts>>

Restart ==
  /\ restarts < Restarts /\ restarts' = restarts + 1
  /\ seeds' = files /\ box' = {} /\ harvested' = files
  /\ writing' = [found |-> {}, added |-> {}] /\ min' = Idle
  /\ UNCHANGED <<files, lastMin, covered, mislaid, rounds>>

Next ==
  \/ \E s \in Seeds : Found(s) \/ WriteSeed(s)
  \/ AddSeed \/ Harvest \/ AddSeedsBulk \/ SyncToFuzzer \/ NewContainer \/ WipeStaleSeeds
  \/ Unzip \/ GatherLocalSeeds \/ MatchCorpus \/ Matched
  \/ StartMinimize \/ Merge \/ MergeFails \/ Unlink \/ Minimized \/ Restart
CorpusSpec == Init /\ [][Next]_corpusVars

(***************************************************************************)
(* Properties.                                                             *)
(***************************************************************************)
\* "only remove from the minset those which we knew BEFORE and wanted to remove": whatever
\* is found and added while a merge runs, and if it ends halfway, what the files covered
\* once they cover for ever, and what only an agent's seed covers stays too: but for what the
\* known seeds alone cover that go when the merged ones cannot be listed, and seeds that are
\* known although their copy failed.
CoverageKept ==
  CoverOf(files) \subseteq covered /\ covered \subseteq CoverOf(files \cup mislaid)
=============================================================================
