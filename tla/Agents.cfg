CONSTANTS
  Subjects = {"agent", "crafting", "patching", "edits", "debugger", "spend", "vfs", "artifacts", "povrun"}
  None = None
  MaxIters = 2
  MaxToolCalls = 2
  MaxCompletionFaults = 1
  Candidates = {"a", "b", "c"}
  Works = {"a"}
  CraftParallel = 2
  Turns = 4
  PatchSessions = {"s1", "s2"}
  PatchEdits = {"e1", "e2", "e3"}
  PatchFileOf <- PatchFiles
  BrokenTrees = {{"e2"}}
  FailingTrees = {{"e3"}}
  FixedTrees <- PatchFixed
  PatchParallel = 2
  Starts <- PatchStarts
  EditFiles <- TextFiles
  Additions <- TextAdditions
  Context = 1
  MaxLines = 5
  MaxPatches = 2
  New = New
  Callers = {"c1", "c2"}
  BuildFiles = {"p1", "p2", "x1"}
  Poms = {"p1", "p2"}
  BrokenFiles = {"p2"}
  MaxHits = 2
  MaxDebugFaults = 1
  MaxStops = 1
  Jobs = {"j1", "j2", "j3"}
  Limit = 2
  Deposit = 1
  Costs = {1, 2}
  ModelSlots = 1
  Retries = 1
  Completions = 1
  MaxCrashes = 1
  Forks = {"base", "head", "f"}
  Image <- VfsImage
  Repo <- VfsRepo
  Commit <- CommitFiles
  Deltas <- VfsDeltas
  VfsEdited <- EditPaths
  VfsContents = {"e"}
  MaxWrites = 1
  MaxVfsCalls = 2
  Gone = "gone"
  PathNames = {"lib", "repo", "old", "top", "x", "y", "z"}
  Workers = {"t1", "t2", "f"}
  Program <- ArtifactPrograms
  SourcesOf <- ArtifactSources
  MaxFileFaults = 2
  MaxFileCrashes = 1
  HeadBuilds = {"h1", "h2"}
  BaseBuilds = {"b1", "b2"}
  Outcomes = {"crash", "clean", "hangs", "fails"}
SPECIFICATION Spec
PROPERTY RequestsWellFormed
INVARIANTS PatchesAreTested CraftedIsChecked EditsAreTracked DebuggerIsRight Budgeted VfsIsCoherent ArtifactsAreRight VerdictIsRight
CHECK_DEADLOCK FALSE
