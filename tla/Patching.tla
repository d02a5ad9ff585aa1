------------------------------ MODULE Patching ------------------------------
(***************************************************************************)
(* Patch sessions: the tools of crs/agents/produce_patch.py over one fork  *)
(* of the project each, its Editor (crs/modules/source_editor.py, over     *)
(* fuzzy_patch.py and an EditableOverlayFS) and the builds of              *)
(* crs/modules/project.py, which are cached in memory, in tar files named  *)
(* by the hash of the sources, and behind build_locks.                     *)
(*                                                                         *)
(* A source tree is the set of edits it contains; its hash is the set      *)
(* itself.  The tool calls of one message run concurrently; a step lies    *)
(* between two awaits that really wait.  One build config stands for all.  *)
(***************************************************************************)
EXTENDS Integers, Sequences, FiniteSets

CONSTANTS
  Sessions,  \* patch sessions, each with its fork of the project
  Edits, FileOf,  \* what apply_patch may be asked for, and the file it is in
  Broken,    \* the trees that do not compile
  Failing,   \* the trees that do not pass the tests of the project
  Fixed,     \* the trees on which no POV crashes
  Parallel,  \* bound: tool calls of one message
  Starts,    \* what a behaviour may start from: [warm: whether the project holds its builds
             \* in memory or, just restarted, on disk; disk: the trees that have a tar there;
             \* tests: whether the project has a test.sh; sessions, calls: who may make how
             \* many tool calls (the bounds)]
  None

Trees == SUBSET Edits
Slots == 1..Parallel

PatchingAssumption == \* None is none of the other values
  /\ None \notin Sessions /\ None \notin Sessions \X Slots
  /\ None \notin [diff : Trees, tested : SUBSET Trees, ran : [of : Trees, sound : BOOLEAN],
                  moved : SUBSET {FileOf[e] : e \in Edits}, erred : BOOLEAN]
  /\ \A start \in Starts :
       /\ start.warm \in BOOLEAN /\ start.tests \in BOOLEAN /\ start.calls \in Nat
       /\ {} \in start.disk /\ start.disk \subseteq Trees \ Broken

VARIABLES
  tree,      \* fork.vfs: what the files of each session hold
  patches,   \* editor.patches: the edits in force, in order
  tars,      \* the build tars on disk: the build in the one named by a tree
  builds,    \* Project.builds, shared with the forks of a project that has built
  opened,    \* get_build_vfs, memoised by the fork: the name and the build it opened
  locks,     \* build_locks: who builds a tree
  calls,     \* the tool calls in flight
  warm, tests, left,\* the start chosen, and the calls each session has left
  patch,     \* agent.patch: what was confirmed, and what was built and tested for it
  overwritten,\* history: whether an edit of the session was written over one it had not read
  compiled   \* history: how often a tree has been compiled under its own name

patchVars == <<tree, patches, tars, builds, opened, locks, calls, warm, tests, left, patch,
               overwritten, compiled>>

\* A build: the tree it was made of, and (history) that it was given the name it has with no
\* edit meanwhile, and not for a tar opened under another name.
Built(t) == [of |-> t, sound |-> TRUE]
\* moved (history): the files that other calls wrote since this one began.
Idle == [at |-> "idle", read |-> {}, edit |-> None, state |-> {}, key |-> {}, src |-> Built({}),
         art |-> Built({}), tested |-> {}, then |-> "tests", erred |-> FALSE, moved |-> {}]
MapOf(s) == IF warm THEN None ELSE s   \* `builds or defaultdict(dict)`

Init ==
  /\ \E start \in Starts :
       /\ warm = start.warm /\ tests = start.tests
       /\ left = [s \in Sessions |-> IF s \in start.sessions THEN start.calls ELSE 0]
       /\ tars = [t \in Trees |-> IF t \in start.disk THEN {Built(t)} ELSE {}]
  /\ tree = [s \in Sessions |-> {}] /\ patches = [s \in Sessions |-> <<>>]
  /\ builds = [m \in Sessions \cup {None} |->
                 [t \in Trees |-> IF warm /\ t = {} THEN {Built(t)} ELSE {}]]
  /\ opened = [s \in Sessions |-> {}]
  /\ locks = [t \in Trees |-> None]
  /\ calls = [s \in Sessions |-> [i \in Slots |-> Idle]]
  /\ patch = [s \in Sessions |-> None] /\ overwritten = [s \in Sessions |-> FALSE]
  /\ compiled = [t \in Trees |-> 0]

Call(s, i) == calls[s][i]
Go(s, i, c) == calls' = [calls EXCEPT ![s][i] = c]
Overtaken(c, file) == [c EXCEPT !.moved = @ \cup {file}]
\* The call is over and has written a file: the others know nothing of it.
Wrote(s, i, file) ==
  calls' = [calls EXCEPT ![s] =
              [j \in Slots |-> IF j = i THEN Idle ELSE Overtaken(calls[s][j], file)]]
\* A message is answered before the next one is asked for (module Agent).
Asked(s, i) ==
  /\ Call(s, i).at = "idle" /\ left[s] > 0
  /\ \A j \in 1..(i - 1) : Call(s, j).at # "idle"
  /\ left' = [left EXCEPT ![s] = @ - 1]

editing == <<tree, patches, overwritten>>
building == <<tars, builds, opened, locks, compiled>>
chosen == <<warm, tests>>

-----------------------------------------------------------------------------
\* apply_patch: the file is read; aligning the hunks and the diff take their time;
\* then the whole file is written back, and the edit recorded.
ApplyPatch(s, i, e) ==
  /\ e \notin tree[s]
  /\ Asked(s, i) /\ Go(s, i, [Idle EXCEPT !.at = "apply", !.edit = e, !.read = tree[s]])
  /\ UNCHANGED <<editing, building, chosen, patch>>

Rewritten(t, read, e) ==
  {x \in t : FileOf[x] # FileOf[e]} \cup {x \in read : FileOf[x] = FileOf[e]} \cup {e}

Write(s, i) ==
  LET c == Call(s, i) IN
  /\ c.at = "apply"
  /\ tree' = [tree EXCEPT ![s] = Rewritten(@, c.read, c.edit)]
  /\ patches' = [patches EXCEPT ![s] = Append(@, c.edit)]
  /\ overwritten' = [overwritten EXCEPT ![s] = @ \/ FileOf[c.edit] \in c.moved]
  /\ Wrote(s, i, FileOf[c.edit])
  /\ UNCHANGED <<building, chosen, left, patch>>

\* Mutant: the record of the edit is kept.
Kept(p) == p
Undone(p) == SubSeq(p, 1, Len(p) - 1)

\* undo_last_patch: rewind_to(-1) on files that are in memory does not wait.
UndoLastPatch(s, i) ==
  /\ patches[s] # <<>>
  /\ LET last == patches[s][Len(patches[s])] IN
       /\ tree' = [tree EXCEPT ![s] = @ \ {last}]
       /\ Wrote(s, i, FileOf[last])
  /\ patches' = [patches EXCEPT ![s] = Undone(@)]
  /\ Asked(s, i)
  /\ UNCHANGED <<building, chosen, patch, overwritten>>

-----------------------------------------------------------------------------
\* test_patch: build_all, run_tests, then every POV, which builds again by the tree of
\* that moment.
TestPatch(s, i) ==
  /\ Asked(s, i) /\ Go(s, i, [Idle EXCEPT !.at = "build"])
  /\ UNCHANGED <<editing, building, chosen, patch>>

BuiltMeanwhile(s, t) == builds[MapOf(s)][t]

\* build: memory, or the lock of this tree.
BuildHit(s, i) ==
  LET c == Call(s, i) IN
  /\ c.at = "build"
  /\ \E b \in builds[MapOf(s)][tree[s]] : Go(s, i, [c EXCEPT !.at = c.then, !.art = b])
  /\ UNCHANGED <<editing, building, chosen, left, patch>>

BuildMiss(s, i) ==
  LET c == Call(s, i) IN
  /\ c.at = "build" /\ builds[MapOf(s)][tree[s]] = {}
  /\ Go(s, i, [c EXCEPT !.at = "lock", !.state = tree[s]])
  /\ UNCHANGED <<editing, building, chosen, left, patch>>

Locked(s, i) ==
  LET c == Call(s, i) IN
  /\ c.at = "lock" /\ locks[c.state] = None
  /\ IF BuiltMeanwhile(s, c.state) # {}
     THEN /\ \E b \in BuiltMeanwhile(s, c.state) : Go(s, i, [c EXCEPT !.at = c.then, !.art = b])
          /\ UNCHANGED locks
     ELSE locks' = [locks EXCEPT ![c.state] = <<s, i>>]
          /\ Go(s, i, [c EXCEPT !.at = "key", !.key = tree[s]])
  /\ UNCHANGED <<editing, tars, builds, opened, compiled, chosen, left, patch>>

\* What _build returns is kept in memory under the tree that was asked for.
Keep(s, i, b) ==
  /\ builds' = [builds EXCEPT ![MapOf(s)][Call(s, i).state] = {b}]
  /\ Go(s, i, [Call(s, i) EXCEPT !.at = Call(s, i).then, !.art = b])

\* _build returns the tar of the key: get_build_vfs opens it, once per fork.
Opened(s, key) ==
  IF opened[s] # {} THEN opened[s] ELSE {[name |-> key, build |-> b] : b \in tars[key]}
OpenedFor(c, o) ==
  [of |-> o.build.of, sound |-> o.build.sound /\ o.name = c.key /\ c.moved = {}]

FromTar(s, i) ==
  LET c == Call(s, i) IN
  /\ c.at = "key" /\ tars[c.key] # {}
  /\ opened' = [opened EXCEPT ![s] = Opened(s, c.key)]
  /\ \E o \in Opened(s, c.key) : Keep(s, i, OpenedFor(c, o))
  /\ locks' = [locks EXCEPT ![c.state] = None]
  /\ UNCHANGED <<editing, tars, compiled, chosen, left, patch>>

\* A container was started: the layers of the tree are written into it.
Materialize(s, i) ==
  LET c == Call(s, i) IN
  /\ c.at = "key" /\ tars[c.key] = {}
  /\ Go(s, i, [c EXCEPT !.at = "compile", !.src = [of |-> tree[s], sound |-> c.moved = {}]])
  /\ UNCHANGED <<editing, tars, builds, opened, locks, compiled, chosen, left, patch>>

\* Without a build: test_patch says so, but to run_pov it is one POV that could not be run.
Unbuilt(c) == IF c.then = "tests" THEN Idle ELSE [c EXCEPT !.at = "hook", !.erred = TRUE]

Compile(s, i) ==
  LET c == Call(s, i) IN
  /\ c.at = "compile"
  /\ locks' = [locks EXCEPT ![c.state] = None]
  /\ \/ /\ c.src.of \notin Broken
        /\ tars' = [tars EXCEPT ![c.key] = {c.src}]
        /\ compiled' = [compiled EXCEPT ![c.key] = IF c.src.sound THEN @ + 1 ELSE @]
        /\ Keep(s, i, c.src)
     \/ Go(s, i, Unbuilt(c)) /\ UNCHANGED <<tars, builds, compiled>>  \* or it timed out
  /\ UNCHANGED <<editing, opened, chosen, left, patch>>

\* run_tests: its container gets the tree of that moment; a project may have no tests.
RunTests(s, i) ==
  LET c == Call(s, i)
      goOn == [c EXCEPT !.at = "build", !.then = "povs"]
  IN /\ c.at = "tests"
     /\ \/ ~tests /\ Go(s, i, goOn)
        \/ tests /\ Go(s, i, Idle)  \* they failed, or timed out
        \/ /\ tests /\ tree[s] \notin Broken \cup Failing
           /\ Go(s, i, [goOn EXCEPT !.tested = {tree[s]}])
     /\ UNCHANGED <<editing, building, chosen, left, patch>>

\* Mutant: a crash of a POV does not fail the test.
Crashes == {}
StillCrashes == Trees \ Fixed

\* Whatever is no crash lets the patch pass, a POV that could not be run too.
RunPovs(s, i) ==
  LET c == Call(s, i) IN
  /\ c.at = "povs"
  /\ \/ c.art.of \in StillCrashes /\ Go(s, i, Idle)
     \/ c.art.of \notin StillCrashes /\ Go(s, i, [c EXCEPT !.at = "hook"])
     \/ Go(s, i, [c EXCEPT !.at = "hook", !.erred = TRUE])
  /\ UNCHANGED <<editing, building, chosen, left, patch>>

\* test_patch_hook: the diff is that of the tree now, "build already done".
TestPatchHook(s, i) ==
  LET c == Call(s, i) IN
  /\ c.at = "hook"
  /\ patch' = [patch EXCEPT ![s] = [diff |-> tree[s], tested |-> c.tested, ran |-> c.art,
                                     moved |-> c.moved, erred |-> c.erred]]
  /\ Go(s, i, Idle)
  /\ UNCHANGED <<editing, building, chosen, left>>

Step(s, i) ==
  \/ \E e \in Edits : ApplyPatch(s, i, e)
  \/ Write(s, i) \/ UndoLastPatch(s, i)
  \/ TestPatch(s, i) \/ BuildHit(s, i) \/ BuildMiss(s, i) \/ Locked(s, i) \/ FromTar(s, i)
  \/ Materialize(s, i) \/ Compile(s, i) \/ RunTests(s, i) \/ RunPovs(s, i) \/ TestPatchHook(s, i)

Next == \E s \in Sessions, i \in Slots : Step(s, i)
Spec == Init /\ [][Next]_patchVars

-----------------------------------------------------------------------------

\* The files hold the edits the editor lists, each once: what the agent is told of its
\* edits, and what undo_last_patch takes back, is what is built (source_editor.py:29-95).
\* Only an edit that was made while another one rewrote its file may lose one.
PatchesDescribeFiles ==
  \A s \in Sessions : ~overwritten[s] =>
    LET p == patches[s] IN
      /\ tree[s] = {p[k] : k \in 1..Len(p)}
      /\ Len(p) = Cardinality(tree[s])

\* What build() keeps for a tree, and the tar it leaves on disk under the name of a tree,
\* were built from that tree (project.py:651-656, 718, 745), whatever other sessions and
\* calls do: only an edit of the session that builds, during the build, and a fork that finds
\* a second tar on disk, give a tree the build of another one.
BuildsAreTheirTrees ==
  \A t \in Trees :
    /\ \A b \in tars[t] : b.sound => b.of = t
    /\ \A m \in DOMAIN builds : \A b \in builds[m][t] : b.sound => b.of = t /\ tars[t] # {}

\* A confirmed patch is the diff of a tree that was built and is there as the tar that the
\* result names, that passed the tests if there are any, and on whose build no POV crashes any
\* more (produce_patch.py:43-150), but for its own reason each: an edit during the test, a
\* build that is not the tree's, a POV that could not be run.
ConfirmedIsTested ==
  \A s \in Sessions : patch[s] # None =>
    LET p == patch[s] IN
      /\ ~p.erred => p.ran.of \in Fixed
      /\ p.moved = {} =>
           /\ p.tested = IF tests THEN {p.diff} ELSE {}
           /\ tests => p.diff \notin Broken \cup Failing
           /\ p.ran.sound => p.ran.of = p.diff /\ tars[p.diff] # {} /\ p.diff \notin Broken

\* Sessions and calls that reach the same sources wait for one build of them (build_locks):
\* another one is made only after one that failed.
BuiltOnce == \A t \in Trees : compiled[t] <= 1

PatchesAreTested == PatchesDescribeFiles /\ BuildsAreTheirTrees /\ ConfirmedIsTested

\* "build is cached, just return it" (project.py:652): what a session is given for its sources
\* is a build of them.  It is not: get_build_vfs is memoised by the build config alone, so
\* a fork that finds a second tar on disk gets the first one again.
CachedIsTheBuild == \A m \in DOMAIN builds, t \in Trees : \A b \in builds[m][t] : b.of = t
=============================================================================
