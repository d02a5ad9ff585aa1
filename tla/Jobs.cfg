CONSTANTS
  Subjects = {"pipeline", "coders", "server", "background", "containers", "corpus", "crashes", "shares", "flips", "reach", "suffixes"}
  None = None
  Bugs = {b1, b2}
  Stacked = {b1}
  Launches <- PipelineLaunches
  JobAttempts <- PipelineAttempts
  ExtraPovs = 1
  Patching = TRUE
  MaxReports = 2
  MaxPovs = 2
  CoderJobs = {"decoder", "encoder python", "f1", "f2"}
  FlipJobs = {"f1", "f2"}
  CoderAttempts = 2
  ServerTasks = {"t1", "t2"}
  ServerSarifs = {"s1"}
  Worlds <- ServerWorlds
  TaskOf <- ServerTaskOf
  SourcesOf <- ServerSources
  Delta = {"t1"}
  NoHarness = {"t2"}
  Harnesses = {"h1"}
  MaxLoopCrashes = 1
  MaxLoopFaults = 0
  Coverage = {"c1", "c2"}
  WaiterAttempts = 2
  MaxFailures = 1
  MaxTimeouts = 1
  MaxEvictions = 1
  MaxRestarts = 1
  Clients = {"c1", "c2", "c3"}
  Requests <- FuzzRequests
  Hosts <- FuzzHosts
  MaxStops = 2
  Seeds = {"a", "b", "g"}
  Covers <- SeedCovers
  Given = {"g"}
  OthersSeeds = {"a"}
  MinSize = 1
  Rounds = 2
  CorpusRestarts = 1
  Crashes = {"a", "b"}
  CrashJobs = {1, 2}
  Real = {"a", "b"}
  BucketOf <- CrashBuckets
  MaxPerBucket = 1
  BatchSize = 2
  CrashAttempts = 2
  MaxErrors = 1
  CrashRestarts = 1
  FuzzMachines = 2
  FuzzCores = 4
  FuzzManagers = {m1, m2, m3}
  FuzzSizes <- ShareSizes
  MaxSecondary = 2
  MaxEpoch = 3
  FlipSeeds = {"a", "b"}
  Funcs = {"f", "g", "h"}
  FlipCovers <- ReportedFuncs
  FlipCallees <- ReportedCalls
  MaxFlips = 0
  MaxFlipFaults = 1
  MaxFlipCrashes = 1
  GraphNodes = {0, 1, 2, 3}
  GraphCalls <- CallGraphs
  GraphInputs <- HarnessInputs
  SuffixNames = {"src", "work", "a", "b", "m", "x.c", "y.c", "xy.c", "q.c"}
  SuffixTrees <- SourceTrees
  SuffixPaths <- ReportedPaths
  SuffixLines = {1, 2, 3}
  SuffixEnds <- SameLetters
  MaxLineHits = 2
SPECIFICATION Spec
INVARIANTS OneVulnPerBug NothingForgotten OnDemandOnce PollsKeepUp WaitersAreFound ContainersAccounted CoverageKept CrashesReachTriage CoresAreShared FlipsAccounted GraphIsExact CoverageIsTold
CHECK_DEADLOCK FALSE
