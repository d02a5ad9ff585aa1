------------------------------- MODULE MCAgents -------------------------------
(***************************************************************************)
(* The agents on small instances, and what they work with: patches, edits, *)
(* crafted inputs, the debugger, the budget, file systems, builds and runs *)
(* of POVs.  A behaviour exercises one part, its subject; the variables of *)
(* the others hold nothing.                                                *)
(***************************************************************************)
EXTENDS Integers, Sequences, TLC

CONSTANTS
  Subjects, None,
  MaxIters, MaxToolCalls, MaxCompletionFaults,                          \* agent
  Candidates, Works, CraftParallel, Turns,                              \* crafting
  PatchSessions, PatchEdits, PatchFileOf, BrokenTrees, FailingTrees, FixedTrees, PatchParallel,
  Starts,                                                               \* patching
  EditFiles, Additions, Context, MaxLines, MaxPatches, New,  \* edits
  Callers, BuildFiles, Poms, BrokenFiles, MaxHits, MaxDebugFaults, MaxStops, \* debugger
  Jobs, Limit, Deposit, Costs, ModelSlots, Retries, Completions, MaxCrashes, \* spend
  Forks, Image, Repo, Commit, Deltas, VfsEdited, VfsContents, MaxWrites, MaxVfsCalls,
  Gone, PathNames,                                                      \* vfs
  Workers, Program, SourcesOf, MaxFileFaults, MaxFileCrashes,           \* artifacts
  HeadBuilds, BaseBuilds, Outcomes                                      \* povrun

VARIABLES
  subject,
  agent, msgs, at, session, iters, running, result, terminated, outcome, faults,
  kind, turns, toolCalls, kept, gates, seeds, checked, crossed, crafted,
  tree, patches, tars, treeBuilds, openedTars, locks, patchCalls, warm, tests, left, patch, overwritten,
  compiled,
  original, content, editPatches, wanted, raised,
  language, call, edited, once, inited, built, holder, debugFaults, stops,
  job, lock, counter, spent, slots, paid, lost, over, crashes,
  delta, overlay, doing, vfsBuilds, trees, torn, sources,
  mode, disk, projectBuilds, buildLock, progress, making, temp, had, fileFaults, fileCrashes,
  truth, based, missing, povPhase, first, tasks, verdict

(***************************************************************************)
(* Values for the constants.                                               *)
(***************************************************************************)
\* Two sessions over a warm build, or one over what an earlier process left on disk; e2 alone
\* does not compile, e3 alone does not pass the tests, e1 fixes.
PatchStarts ==
  {[warm |-> TRUE, disk |-> {{}}, tests |-> TRUE, sessions |-> {"s1", "s2"}, calls |-> 2],
   [warm |-> FALSE, disk |-> {{}, {"e1"}}, tests |-> FALSE, sessions |-> {"s1"}, calls |-> 4]}
\* A project that has built its sources again, and what two steps of an earlier session left.
StaleStarts ==
  {[warm |-> TRUE, disk |-> {{}, {"e1"}, {"e1", "e3"}}, tests |-> TRUE, sessions |-> {"s1"},
    calls |-> 4]}
PatchFiles == [e \in {"e1", "e2", "e3"} |-> IF e = "e3" THEN "g" ELSE "f"]
PatchFixed == {t \in SUBSET {"e1", "e2", "e3"} : "e1" \in t}

\* The image has a file of its own and one under the repository, which has a folder of the name
\* of its tar's.  A diff adds and edits, deletes, or both.
VfsImage == (<<"lib">> :> "l") @@ (<<"repo", "old">> :> "o")
VfsRepo == (<<"top", "x">> :> "0") @@ (<<"top", "y">> :> "0") @@ (<<"top", "top", "y">> :> "0")
VfsDeltas == {(<<"z">> :> "1") @@ (<<"x">> :> "2"), <<"x">> :> "gone",
              (<<"x">> :> "2") @@ (<<"y">> :> "gone")}

\* t1 prepares the project, t2 comes to it later, f is a fork with edited sources.
ArtifactPrograms ==
  [api |-> [t1 |-> <<"repo", "project", "src", "bear", "build", "harness", "defs">>,
            t2 |-> <<"repo", "src", "build", "harness", "defs">>,
            f |-> <<"build">>],
   oss |-> [t1 |-> <<"src", "plain build", "bear", "build", "defs">>, t2 |-> <<>>,
            f |-> <<"build">>]]
ArtifactSources == [w \in {"t1", "t2", "f"} |-> IF w = "f" THEN "edited" ELSE "plain"]
CommitFiles == <<"x">> :> "9"
EditPaths == {<<"repo", "x">>}
TextFiles == {<<"a", "b", "c">>}
TextAdditions == {<<"x">>, <<"b">>}

(***************************************************************************)
(* The parts.                                                              *)
(***************************************************************************)
IsPomFile(f) == f \in Poms

Talk == INSTANCE Agent WITH
  MaxCalls <- MaxToolCalls, MaxFaults <- MaxCompletionFaults

Pov == INSTANCE Crafting WITH
  Parallel <- CraftParallel, calls <- toolCalls, opened <- gates, outcome <- crafted

Patch == INSTANCE Patching WITH
  Sessions <- PatchSessions, Edits <- PatchEdits, FileOf <- PatchFileOf, Broken <- BrokenTrees,
  Failing <- FailingTrees, Fixed <- FixedTrees, Parallel <- PatchParallel, builds <- treeBuilds, opened <- openedTars,
  calls <- patchCalls

Source == INSTANCE Edits WITH
  Files <- EditFiles, patches <- editPatches

Debug == INSTANCE Debugger WITH
  Files <- BuildFiles, IsPom <- IsPomFile, Broken <- BrokenFiles, MaxFaults <- MaxDebugFaults,
  faults <- debugFaults

Budget == INSTANCE Spend WITH
  Slots <- ModelSlots, Calls <- Completions

Tree == INSTANCE Vfs WITH
  Names <- PathNames, Edited <- VfsEdited, Contents <- VfsContents, MaxCalls <- MaxVfsCalls,
  builds <- vfsBuilds

Build == INSTANCE Artifacts WITH
  Sources <- SourcesOf, MaxFaults <- MaxFileFaults, MaxCrashes <- MaxFileCrashes,
  builds <- projectBuilds, lock <- buildLock, at <- progress, phase <- making,
  faults <- fileFaults, crashes <- fileCrashes

Run == INSTANCE PovRun WITH
  phase <- povPhase

ASSUME Assumptions ==
  /\ Talk!AgentAssumption /\ Pov!CraftingAssumption /\ Patch!PatchingAssumption
  /\ Debug!DebuggerAssumption /\ Budget!SpendAssumption /\ Tree!VfsAssumption
  /\ Build!ArtifactsAssumption /\ Run!PovRunAssumption

(***************************************************************************)
(* The behaviours of every subject.                                        *)
(***************************************************************************)
Unused == None  \* the value of the variables of the other subjects

agentVars ==
  <<agent, msgs, at, session, iters, running, result, terminated, outcome, faults>>
craftingVars ==
  <<kind, turns, toolCalls, kept, gates, seeds, checked, crossed, crafted>>
patchingVars ==
  <<tree, patches, tars, treeBuilds, openedTars, locks, patchCalls, warm, tests, left, patch, overwritten,
  compiled>>
editsVars ==
  <<original, content, editPatches, wanted, raised>>
debuggerVars ==
  <<language, call, edited, once, inited, built, holder, debugFaults, stops>>
spendVars ==
  <<job, lock, counter, spent, slots, paid, lost, over, crashes>>
vfsVars ==
  <<delta, overlay, doing, vfsBuilds, trees, torn, sources>>
artifactsVars ==
  <<mode, disk, projectBuilds, buildLock, progress, making, temp, had, fileFaults, fileCrashes>>
povrunVars ==
  <<truth, based, missing, povPhase, first, tasks, verdict>>

NoAgent ==
  /\ agent = Unused /\ msgs = Unused /\ at = Unused /\ session = Unused /\ iters = Unused
  /\ running = Unused /\ result = Unused /\ terminated = Unused /\ outcome = Unused
  /\ faults = Unused

NoCrafting ==
  /\ kind = Unused /\ turns = Unused /\ toolCalls = Unused /\ kept = Unused
  /\ gates = Unused /\ seeds = Unused /\ checked = Unused /\ crossed = Unused
  /\ crafted = Unused

NoPatching ==
  /\ tree = Unused /\ patches = Unused /\ tars = Unused /\ treeBuilds = Unused
  /\ openedTars = Unused /\ locks = Unused /\ patchCalls = Unused /\ warm = Unused
  /\ tests = Unused /\ left = Unused /\ patch = Unused /\ overwritten = Unused
  /\ compiled = Unused

NoEdits ==
  /\ original = Unused /\ content = Unused /\ editPatches = Unused /\ wanted = Unused
  /\ raised = Unused

NoDebugger ==
  /\ language = Unused /\ call = Unused /\ edited = Unused /\ once = Unused
  /\ inited = Unused /\ built = Unused /\ holder = Unused /\ debugFaults = Unused
  /\ stops = Unused

NoSpend ==
  /\ job = Unused /\ lock = Unused /\ counter = Unused /\ spent = Unused /\ slots = Unused
  /\ paid = Unused /\ lost = Unused /\ over = Unused /\ crashes = Unused

NoVfs ==
  /\ delta = Unused /\ overlay = Unused /\ doing = Unused /\ vfsBuilds = Unused
  /\ trees = Unused /\ torn = Unused /\ sources = Unused

NoArtifacts ==
  /\ mode = Unused /\ disk = Unused /\ projectBuilds = Unused /\ buildLock = Unused
  /\ progress = Unused /\ making = Unused /\ temp = Unused /\ had = Unused
  /\ fileFaults = Unused /\ fileCrashes = Unused

NoPovrun ==
  /\ truth = Unused /\ based = Unused /\ missing = Unused /\ povPhase = Unused
  /\ first = Unused /\ tasks = Unused /\ verdict = Unused

Init ==
  /\ subject \in Subjects
  /\ IF subject = "agent" THEN Talk!Init ELSE NoAgent
  /\ IF subject = "crafting" THEN Pov!Init ELSE NoCrafting
  /\ IF subject = "patching" THEN Patch!Init ELSE NoPatching
  /\ IF subject = "edits" THEN Source!Init ELSE NoEdits
  /\ IF subject = "debugger" THEN Debug!Init ELSE NoDebugger
  /\ IF subject = "spend" THEN Budget!Init ELSE NoSpend
  /\ IF subject = "vfs" THEN Tree!Init ELSE NoVfs
  /\ IF subject = "artifacts" THEN Build!Init ELSE NoArtifacts
  /\ IF subject = "povrun" THEN Run!Init ELSE NoPovrun

Next ==
  /\ UNCHANGED subject
  /\ IF subject = "agent" THEN Talk!Next ELSE UNCHANGED agentVars
  /\ IF subject = "crafting" THEN Pov!Next ELSE UNCHANGED craftingVars
  /\ IF subject = "patching" THEN Patch!Next ELSE UNCHANGED patchingVars
  /\ IF subject = "edits" THEN Source!Next ELSE UNCHANGED editsVars
  /\ IF subject = "debugger" THEN Debug!Next ELSE UNCHANGED debuggerVars
  /\ IF subject = "spend" THEN Budget!Next ELSE UNCHANGED spendVars
  /\ IF subject = "vfs" THEN Tree!Next ELSE UNCHANGED vfsVars
  /\ IF subject = "artifacts" THEN Build!Next ELSE UNCHANGED artifactsVars
  /\ IF subject = "povrun" THEN Run!Next ELSE UNCHANGED povrunVars

vars ==
  <<subject, agentVars, craftingVars, patchingVars, editsVars, debuggerVars, spendVars, vfsVars,
    artifactsVars, povrunVars>>

Spec == Init /\ [][Next]_vars

(***************************************************************************)
(* Properties.                                                             *)
(***************************************************************************)
\* Whatever tools, hooks and faults do, a request to the model answers every tool call once
\* and in order, and a history that is cut down keeps what was said since the last reply.
RequestsWellFormed ==
  /\ [](subject = "agent" => Talk!RequestsWellFormed)
  /\ [][subject = "agent" => Talk!KeptTurn]_<<subject, msgs, at>>

\* A confirmed patch is the diff of a tree that was built, was tested and stops the POVs, but
\* for an edit during its test, a stale build or a POV that could not be run; edits and builds
\* are accounted for; sessions that reach the same sources share one build of them.
PatchesAreTested == subject = "patching" => Patch!PatchesAreTested /\ Patch!BuiltOnce

\* What a session is given for its sources is a build of them ("build is cached, just return
\* it", crs/modules/project.py:652).
CachedIsTheBuild == subject = "patching" => Patch!CachedIsTheBuild

\* An input is returned as confirmed exactly when some tool saw it work, and a parser that
\* parsed is not replaced by one that does not.
CraftedIsChecked == subject = "crafting" => Pov!CraftedIsChecked

\* The editor's account of a file is the file, over edits that are refused and undone.
EditsAreTracked == subject = "edits" => Source!EditsAreTracked

\* The debugger answers about the program that was asked for, once for all its callers.
DebuggerIsRight == subject = "debugger" => Debug!DebuggerIsRight

\* Spending passes the limit by one deposit at most, beyond what a job overspends, and the
\* counter forgets nothing over cancellations and crashes.
Budgeted == subject = "spend" => Budget!Budgeted

\* What is read of a fork is what is built of it, and what is kept under its hash, but for what
\* a diff deletes and for forks written between their hash and their layers.
VfsIsCoherent == subject = "vfs" => Tree!VfsIsCoherent

\* What the caches hold fits the sources it is used for, over failures and crashes.
ArtifactsAreRight == subject = "artifacts" => Build!ArtifactsAreRight

\* The verdict about a POV is the one its runs justify, in whatever order they end.
VerdictIsRight == subject = "povrun" => Run!VerdictIsRight
==============================================================================
