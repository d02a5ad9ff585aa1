-------------------------------- MODULE MCJobs --------------------------------
(***************************************************************************)
(* The jobs of the CRS on small instances: how tasks come in, how reports  *)
(* and crashes become vulnerabilities, POVs and patches, the services      *)
(* beside them, and the fuzzing side: containers, the corpus, crashes on   *)
(* their way to triage, cores, branch flips, the call graph and coverage.  *)
(* A behaviour exercises one part, its subject; the variables of the       *)
(* others hold nothing.                                                    *)
(***************************************************************************)
EXTENDS Integers, Sequences

CONSTANTS
  Subjects, None,
  Bugs, Stacked, Launches, JobAttempts, ExtraPovs, Patching, MaxReports, MaxPovs,  \* pipeline
  CoderJobs, FlipJobs, CoderAttempts,                                              \* coders
  ServerTasks, ServerSarifs, Worlds, TaskOf, SourcesOf, Delta, NoHarness, Harnesses,
  MaxLoopCrashes, MaxLoopFaults,                                                   \* server
  Coverage, WaiterAttempts, MaxFailures, MaxTimeouts, MaxEvictions, MaxRestarts,   \* background
  Clients, Requests, Hosts, MaxStops,                                              \* containers
  Seeds, Covers, Given, OthersSeeds, MinSize, Rounds, CorpusRestarts,                         \* corpus
  Crashes, CrashJobs, Real, BucketOf, MaxPerBucket, BatchSize, CrashAttempts, MaxErrors,
  CrashRestarts,                                                                   \* crashes
  FuzzMachines, FuzzCores, FuzzManagers, FuzzSizes, MaxSecondary, MaxEpoch,        \* shares
  FlipSeeds, Funcs, FlipCovers, FlipCallees, MaxFlips, MaxFlipFaults, MaxFlipCrashes,  \* flips
  GraphNodes, GraphCalls, GraphInputs,                                             \* reach
  SuffixNames, SuffixTrees, SuffixPaths, SuffixLines, SuffixEnds, MaxLineHits                \* suffixes

VARIABLES
  subject,
  reports, vulns, povs, waiting, running, dupeLock, failures, extras, triaged, sent, again,
  dropped, gaveUp, faults,
  decoders, encoders, decLock, encLock, at, want, got, decoded, tries,
  world, taskRows, sarifRows, cancelRows, loopPhase, cursor, rows, jobs, gone, fetched,
  knownTasks, loopCrashes, loopFaults,
  waiter, launch, task, workers, events, made, launchFails, timeouts, evictions, restarts,
  client, slots, containers, processes, stray, stops,
  files, seeds, lastMin, box, harvested, writing, min, covered, mislaid, rounds,
  corpusRestarts,
  untested, bucketed, listed, reporting, known, job, phase, batch, accepted, adding, refused,
  redone, crashPovs, crashTriaged, errors, crashRestarts,
  active, epoch, size, plan,
  coverage, flipBatch, bitmap, table, loaded, hits, nearest, branchflips, pre, flip, budget,
  asked, started, flipFaults, flipCrashes,
  calls, direct, reachable, frontier, closest, inputs, loading, source, queued,
  sources, nodes, told, lines, answer

(***************************************************************************)
(* Values for the constants.                                               *)
(***************************************************************************)
\* One place with a crash or failing await, or two places whose jobs interleave.
PipelineLaunches ==
  {[jobs |-> {k}, places |-> 1, faults |-> 1] : k \in {"launch", "sarif"}} \cup
  {[jobs |-> {"diff"}, places |-> 1, faults |-> 0],
   [jobs |-> {"crash"}, places |-> 2, faults |-> 1],
   [jobs |-> {"launch", "crash"}, places |-> 2, faults |-> 0],
   [jobs |-> {"sarif", "crash"}, places |-> 2, faults |-> 0]}
PipelineAttempts ==
  [k \in {"launch", "diff", "sarif", "crash", "score", "analyze", "produce", "hint", "triage"} |->
     IF k \in {"produce", "diff", "triage"} THEN 2 ELSE 1]

\* One task has an archive and a diff, the other no harness; a SARIF may come for the first.
ServerWorlds == {{"t1", "s1"}, {"t1", "t2"}}
ServerSources == [t \in {"t1", "t2"} |-> IF t = "t1" THEN {"repo"} ELSE {}]
ServerTaskOf == [s \in {"s1"} |-> "t1"]

\* A group with a core more than one request takes, and a group a request asks in vain.
FuzzHosts == {[group |-> "fuzz", cores |-> 3, id |-> 1], [group |-> "build", cores |-> 2, id |-> 3]}
FuzzRequests ==
  {[group |-> "fuzz", cores |-> 1], [group |-> "fuzz", cores |-> 3],
   [group |-> "build", cores |-> 1], [group |-> "misc", cores |-> 1]}

\* Seed b covers less than a; g comes with the project.
SeedCovers == [a |-> {1, 2}, b |-> {1}, g |-> {3}]

CrashBuckets == [c \in {"a", "b"} |-> "x"]

\* Few and many harnesses, beside none or some fuzzers of other tasks.
ShareSizes == [harnesses : {2, 7}, others : {0, 3}]

ReportedFuncs == [a |-> {"f"}, b |-> {"f", "g"}]
ReportedCalls == [f |-> {"g", "h"}, g |-> {"h"}, h |-> {}]

\* A cycle with a way out, two routes to a cycle, a call of itself.
CallGraphs ==
  {{<<1, 2>>, <<2, 3>>, <<3, 1>>, <<2, 0>>},
   {<<0, 1>>, <<1, 2>>, <<1, 3>>, <<2, 3>>, <<3, 2>>},
   {<<1, 0>>, <<0, 2>>, <<2, 3>>, <<1, 3>>, <<3, 3>>}}
HarnessInputs ==
  {[id |-> 1, harness |-> 0, covers |-> {1}], [id |-> 2, harness |-> 1, covers |-> {1, 2}],
   [id |-> 3, harness |-> 0, covers |-> {0, 3}]}

\* Names that are unique at once, one directory up, or never; a file that is the end of
\* another; a name that ends in the letters of another.
SourceTrees ==
  {{<<"src", "a", "x.c">>, <<"src", "b", "x.c">>, <<"src", "y.c">>},
   {<<"src", "a", "m", "x.c">>, <<"src", "b", "m", "x.c">>, <<"src", "a", "xy.c">>, <<"b", "y.c">>},
   {<<"x.c">>, <<"src", "a", "x.c">>, <<"a", "xy.c">>}}
ReportedPaths ==
  {<<"src", "a", "x.c">>, <<"work", "b", "x.c">>, <<"work", "q.c">>, <<"work", "y.c">>,
   <<"src", "b", "m", "x.c">>, <<"x.c">>, <<"src", "a", "xy.c">>}
SameLetters == {<<"xy.c", "y.c">>}

(***************************************************************************)
(* The parts.                                                              *)
(***************************************************************************)
Pipe == INSTANCE Pipeline WITH
  Attempts <- JobAttempts

OnDemand == INSTANCE Coders WITH
  Jobs <- CoderJobs, Flips <- FlipJobs, Attempts <- CoderAttempts

Server == INSTANCE TaskLoop WITH
  Tasks <- ServerTasks, Sarifs <- ServerSarifs, MaxCrashes <- MaxLoopCrashes,
  MaxFaults <- MaxLoopFaults, phase <- loopPhase, batch <- rows, cancelled <- gone,
  files <- fetched, known <- knownTasks, crashes <- loopCrashes, faults <- loopFaults

Workers == INSTANCE Background WITH
  Attempts <- WaiterAttempts, job <- waiter, waiting <- events, failures <- launchFails

Docker == INSTANCE Containers WITH
  Timeouts <- MaxStops, timeouts <- stops

Kept == INSTANCE Corpus WITH
  Restarts <- CorpusRestarts, restarts <- corpusRestarts

Crash == INSTANCE FuzzCrashes WITH
  Jobs <- CrashJobs, Attempts <- CrashAttempts, MaxRestarts <- CrashRestarts, povs <- crashPovs,
  triaged <- crashTriaged, restarts <- crashRestarts

Share == INSTANCE FuzzShares WITH
  Machines <- FuzzMachines, Cores <- FuzzCores, Managers <- FuzzManagers, Sizes <- FuzzSizes

Flip == INSTANCE Flips WITH
  Seeds <- FlipSeeds, Covers <- FlipCovers, Callees <- FlipCallees, MaxFaults <- MaxFlipFaults,
  MaxCrashes <- MaxFlipCrashes, batch <- flipBatch, closest <- nearest,
  faults <- flipFaults, crashes <- flipCrashes

Graph == INSTANCE Reach WITH
  Nodes <- GraphNodes, Graphs <- GraphCalls, Inputs <- GraphInputs, rows <- inputs

Paths == INSTANCE Suffixes WITH
  Names <- SuffixNames, Trees <- SuffixTrees, Reported <- SuffixPaths, Lines <- SuffixLines,
  NameEnds <- SuffixEnds, MaxHits <- MaxLineHits, files <- sources

ASSUME Assumptions ==
  /\ Pipe!PipelineAssumption /\ OnDemand!CodersAssumption /\ Workers!BackgroundAssumption
  /\ Docker!ContainersAssumption /\ Crash!CrashesAssumption
  /\ Server!TaskLoopAssumption /\ Flip!FlipsAssumption /\ Share!ShareAssumption
  /\ Graph!ReachAssumption /\ Paths!SuffixAssumption

(***************************************************************************)
(* The behaviours of every subject.                                        *)
(***************************************************************************)
Unused == None  \* the value of the variables of the other subjects

pipelineVars ==
  <<reports, vulns, povs, waiting, running, dupeLock, failures, extras, triaged, sent, again,
    dropped, gaveUp, faults>>
codersVars ==
  <<decoders, encoders, decLock, encLock, at, want, got, decoded, tries>>
serverVars ==
  <<world, taskRows, sarifRows, cancelRows, loopPhase, cursor, rows, jobs, gone, fetched,
    knownTasks, loopCrashes, loopFaults>>
backgroundVars ==
  <<waiter, launch, task, workers, events, made, launchFails, timeouts, evictions, restarts>>
containersVars ==
  <<client, slots, containers, processes, stray, stops>>
corpusVars ==
  <<files, seeds, lastMin, box, harvested, writing, min, covered, mislaid, rounds,
    corpusRestarts>>
crashesVars ==
  <<untested, bucketed, listed, reporting, known, job, phase, batch, accepted, adding, refused,
    redone, crashPovs, crashTriaged, errors, crashRestarts>>
sharesVars ==
  <<active, epoch, size, plan>>
flipsVars ==
  <<coverage, flipBatch, bitmap, table, loaded, hits, nearest, branchflips, pre, flip, budget,
    asked, started, flipFaults, flipCrashes>>
reachVars ==
  <<calls, direct, reachable, frontier, closest, inputs, loading, source, queued>>
suffixesVars ==
  <<sources, nodes, told, lines, answer>>

NoPipeline ==
  /\ reports = Unused /\ vulns = Unused /\ povs = Unused /\ waiting = Unused
  /\ running = Unused /\ dupeLock = Unused /\ failures = Unused /\ extras = Unused
  /\ triaged = Unused /\ sent = Unused /\ again = Unused /\ dropped = Unused /\ gaveUp = Unused
  /\ faults = Unused

NoCoders ==
  /\ decoders = Unused /\ encoders = Unused /\ decLock = Unused /\ encLock = Unused
  /\ at = Unused /\ want = Unused /\ got = Unused /\ decoded = Unused /\ tries = Unused

NoServer ==
  /\ world = Unused /\ taskRows = Unused /\ sarifRows = Unused /\ cancelRows = Unused
  /\ loopPhase = Unused /\ cursor = Unused /\ rows = Unused /\ jobs = Unused /\ gone = Unused
  /\ fetched = Unused /\ knownTasks = Unused /\ loopCrashes = Unused /\ loopFaults = Unused

NoBackground ==
  /\ waiter = Unused /\ launch = Unused /\ task = Unused /\ workers = Unused /\ events = Unused
  /\ made = Unused /\ launchFails = Unused /\ timeouts = Unused /\ evictions = Unused
  /\ restarts = Unused

NoContainers ==
  /\ client = Unused /\ slots = Unused /\ containers = Unused /\ processes = Unused
  /\ stray = Unused /\ stops = Unused

NoCorpus ==
  /\ files = Unused /\ seeds = Unused /\ lastMin = Unused /\ box = Unused /\ harvested = Unused
  /\ writing = Unused /\ min = Unused /\ covered = Unused /\ rounds = Unused
  /\ mislaid = Unused /\ corpusRestarts = Unused

NoCrashes ==
  /\ untested = Unused /\ bucketed = Unused /\ listed = Unused /\ reporting = Unused
  /\ known = Unused /\ job = Unused /\ phase = Unused /\ batch = Unused /\ accepted = Unused
  /\ adding = Unused /\ refused = Unused /\ redone = Unused /\ crashPovs = Unused
  /\ crashTriaged = Unused /\ errors = Unused /\ crashRestarts = Unused

NoShares ==
  /\ active = Unused /\ epoch = Unused /\ size = Unused /\ plan = Unused

NoFlips ==
  /\ coverage = Unused /\ flipBatch = Unused /\ bitmap = Unused /\ table = Unused
  /\ loaded = Unused /\ hits = Unused /\ nearest = Unused /\ branchflips = Unused
  /\ pre = Unused /\ flip = Unused /\ budget = Unused /\ asked = Unused /\ started = Unused
  /\ flipFaults = Unused /\ flipCrashes = Unused

NoReach ==
  /\ calls = Unused /\ direct = Unused /\ reachable = Unused /\ frontier = Unused
  /\ closest = Unused /\ inputs = Unused /\ loading = Unused /\ source = Unused
  /\ queued = Unused

NoSuffixes ==
  /\ sources = Unused /\ nodes = Unused /\ told = Unused /\ lines = Unused /\ answer = Unused

Init ==
  /\ subject \in Subjects
  /\ IF subject = "pipeline" THEN Pipe!Init ELSE NoPipeline
  /\ IF subject = "coders" THEN OnDemand!Init ELSE NoCoders
  /\ IF subject = "server" THEN Server!Init ELSE NoServer
  /\ IF subject = "background" THEN Workers!Init ELSE NoBackground
  /\ IF subject = "containers" THEN Docker!Init ELSE NoContainers
  /\ IF subject = "corpus" THEN Kept!Init ELSE NoCorpus
  /\ IF subject = "crashes" THEN Crash!Init ELSE NoCrashes
  /\ IF subject = "shares" THEN Share!Init ELSE NoShares
  /\ IF subject = "flips" THEN Flip!Init ELSE NoFlips
  /\ IF subject = "reach" THEN Graph!Init ELSE NoReach
  /\ IF subject = "suffixes" THEN Paths!Init ELSE NoSuffixes

Next ==
  /\ UNCHANGED subject
  /\ IF subject = "pipeline" THEN Pipe!Next ELSE UNCHANGED pipelineVars
  /\ IF subject = "coders" THEN OnDemand!Next ELSE UNCHANGED codersVars
  /\ IF subject = "server" THEN Server!Next ELSE UNCHANGED serverVars
  /\ IF subject = "background" THEN Workers!Next ELSE UNCHANGED backgroundVars
  /\ IF subject = "containers" THEN Docker!Next ELSE UNCHANGED containersVars
  /\ IF subject = "corpus" THEN Kept!Next ELSE UNCHANGED corpusVars
  /\ IF subject = "crashes" THEN Crash!Next ELSE UNCHANGED crashesVars
  /\ IF subject = "shares" THEN Share!Next ELSE UNCHANGED sharesVars
  /\ IF subject = "flips" THEN Flip!Next ELSE UNCHANGED flipsVars
  /\ IF subject = "reach" THEN Graph!Next ELSE UNCHANGED reachVars
  /\ IF subject = "suffixes" THEN Paths!Next ELSE UNCHANGED suffixesVars

vars ==
  <<subject, pipelineVars, codersVars, serverVars, backgroundVars, containersVars, corpusVars,
    crashesVars, sharesVars, flipsVars, reachVars, suffixesVars>>

Spec == Init /\ [][Next]_vars

(***************************************************************************)
(* Properties.                                                             *)
(***************************************************************************)
\* Two jobs that find the same bug at once leave one vulnerability, however reports, crashes
\* and their deduplication interleave.
OneVulnPerBug == subject = "pipeline" => Pipe!OneVulnPerBug

\* Every vulnerability gets its patch job and every POV is triaged and bundled, but for what
\* a fault cut off while it was submitted or what failed too often; retries, hints and extra
\* POVs stay within their budgets.
NothingForgotten == subject = "pipeline" => Pipe!NothingForgotten /\ Pipe!BudgetsKept

\* A decoder or encoder that somebody asks for is made only while there is none, and the flip
\* that asked gets one of the type it wanted; the GENERATE jobs make one more in any case.
OnDemandOnce == subject = "coders" => OnDemand!OnDemandOnce

\* No row the loop has passed is lost, and nothing runs of a task whose cancellation it read.
PollsKeepUp == subject = "server" => Server!PollsKeepUp

\* Who waits for the workers of a task is woken by the workers that are there.
WaitersAreFound == subject = "background" => Workers!WaitersAreFound

\* Every slot and container belongs to a request that is served, also when it is cancelled
\* or times out half way, but for the container of a launch that was given up before its id
\* was known.
ContainersAccounted == subject = "containers" => Docker!ContainersAccounted

\* The corpus covers what its seeds have covered, whatever arrives while it is minimised, but
\* for seeds that a failed command of the container, or a failed copy, mislaid.
CoverageKept == subject = "corpus" => Kept!CoverageKept

\* A crash that happens again is triaged or is on its way, or its bucket was full of others,
\* over runs and batches that fail, jobs that time out and restarts.
CrashesReachTriage == subject = "crashes" => Crash!CrashesReachTriage

\* The cores given to the managers of an epoch are there, and every manager gets some.
CoresAreShared == subject = "shares" => Share!CoresAreShared

\* A frontier function is handed to the flippers once per harness and within the budget, over
\* faults and restarts, and the graph shows the coverage that the table has.
FlipsAccounted == subject = "flips" => Flip!FlipsAccounted

\* The incremental call graph is the one computed from all inputs at once.
GraphIsExact == subject = "reach" => Graph!GraphIsExact

\* Coverage is kept for the file the tool meant and told for the file one asks about.
CoverageIsTold == subject = "suffixes" => Paths!CoverageIsTold

\* A vulnerability that a SARIF report names is taken to a bundle, also one that was known
\* before: of those handle_analyzed_vuln makes the submission and never awaits it.
SarifsAreBundled == subject = "pipeline" => Pipe!SarifsAreBundled
==============================================================================
