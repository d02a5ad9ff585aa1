# RoboDuck in TLA+

RoboDuck is Theori's cyber reasoning system: one asyncio process that receives
tasks (source trees with fuzzing harnesses), builds them, finds
vulnerabilities with fuzzers and LLM agents, produces proofs of vulnerability
(POVs) and patches, and submits bundles of them. This directory holds TLA+
modules for the parts of it that are protocols, TLC configurations that check
them on small instances, and proofs that TLAPS checks for every instance.

## 1. Inventory

Almost everything runs in one event loop, so "concurrency" means coroutines
that interleave at `await`s (lock, queue, database call, sleep, subprocess). A
piece of code without an `await` is atomic. State that survives a restart is
in sqlite databases, each opened once and pinned to one connection
(`crs/app/app.py:1997-2000`), and in files under the data directory that are
taken for complete when they exist.

| Component | Source | State | Operations | What is hard, what makes it correct |
|---|---|---|---|---|
| Job queue (WorkDB) | `crs/common/workdb.py` | `jobs` table; Job objects, event list, dirty set, heaps per task and worktype, counts of running jobs | `submit_job`, `cancel_tasks`, `process_events`, `schedule_step`, `task_entry`/`done`, `setup` | memory is ahead of the table, crashes, retries, cancellations at any await; no acknowledged job lost, no job settled twice, limits kept, no idle slot forgotten |
| Fair scheduler | `crs/common/scheduler.py` | runtimes, loans, lazily sorted list of waiting tasks, counts | `add`, `remove`, `discard`, `schedule`, `finish` | lazy deletion and re-insertion, refunds; the least served waiting task is served |
| Priority semaphore | `crs/common/utils.py:144-222` | free slots, heap of waiters with futures | `acquire`, `release`, cancellation | cancellation between grant and resumption; no slot lost or made up, priorities kept |
| Counters | `crs/app/counter_db.py` | table, write-through cache | `get`, `fetch_add`, `set` | reads that race with writes across an await; distinct tickets, durable sums |
| Batch workers and their handlers | `crs/common/workdb.py:113-180`, `crs/app/helpers.py:57-164` | queue of items with futures | `enqueue_and_wait`, `run`, `_process`, `_handle_work` | failure and cancellation of a batch; each caller answered once |
| Memoising decorators | `crs/common/alru.py` | cache, lock per key | call, evict | single flight, eviction of keys in use |
| Task server and CRS loop | `crs/task_server/`, `crs/app/app.py:1878-2033`, `api_task.py` | tasks, SARIFs, cancellations, cursors | webhook, poll, `launch_task`, cancellation | replay after a restart, rows added during a poll; nothing is skipped, nothing runs of a cancelled task |
| Vulnerability pipeline | `crs/app/app.py:700-1440` | reports, vulns, POVs, counters | analyses, `dedupe_vuln`, `handle_analyzed_vuln`, `produce_pov`, `triage_pov`, `cluster_pov` | one bug found by many jobs at once, jobs cut off between a row and its follow-ups; one row per bug, nothing forgotten |
| Decoders and encoders | `crs/app/app.py:805-970` | two tables, locks per harness | `get_decoders`, `get_encoder`, the two generating jobs | made on demand by whoever comes first, and only once |
| Bundling, products database, submitter | `crs/app/app.py:1440-1752`, `products_db.py`, `submitter.py` | patches, POVs, results, bundles, submissions | `maybe_update_bundle`, `bundle_*`, `submit_bundle` | remote state against local rows over crashes and polls; one bundle per vuln |
| Background workers | `crs/app/app.py:440-560` | workers and waiters keyed by Task objects | `launch_bgworkers`, `wait_for_bgworker` | an event per task that several jobs share; whoever waits is woken |
| Spend limiter, LLM client | `crs/app/helpers.py:241-269`, `crs/common/llm_api.py` | counter, deposit; semaphore per model, retries | `limit`, `completion`, `priority_completion` | check, then charge after an await, cancellations; the ledger is right, the budget is kept |
| Agents | `crs/agents` | messages, tools' results, sessions | completion, tool calls, compression | calls that end in any order or raise; each request is well formed, a result was checked |
| Source editing | `crs/modules/source_editor.py`, `crs/common/fuzzy_patch.py`, `src/patch.rs` | edits in force | `apply_patch`, `undo_last_patch`, `rewrite_lines`, `fixup_line` | alignment, positions after several edits; the account of the edits is the file |
| Project, builds, harness runs, debugger | `crs/modules/project.py`, `debugger.py` | builds in memory and on disk, forks | `build`, `run_pov_*`, `Debugger.*` | shared caches under hashes of sources, partial files, races of runs; an answer is about the right sources |
| Virtual file systems | `crs/common/vfs` | layers, overlays, caches | read, write, `materialize`, hash | layers that are read one way and built another; both are the same sources |
| Containers | `crs/common/docker.py` | slots of hosts, waiting requests, containers | alloc, launch, exec, end | cancellation at every await; no slot and no container without an owner |
| Fuzzing | `crs/modules/fuzzing.py` | corpus on disk and in memory, crash buckets, plans | add seeds, minimise, rebalance, `add_crash` | minimisation racing with new seeds, changing shares; coverage and crashes are kept |
| Coverage, frontier | `crs/modules/coverage.py`, `graph.py`, `src/path_suffix.rs` | coverage table, bitmap, graph, tried branches | batches, `update_coverages`, frontier, flips | four copies of the coverage over restarts, incremental reachability, ambiguous names |
| Search and analysis, SARIF model, OSS mode, quantile, rust helpers, evaluation, tooling | `crs/analysis`, `sarif_model.py`, `oss_crs_*`, `quantile.py`, `src/*.rs`, `crs/eval`, `infra` | | | external tools, generated code, I/O |

How they interact: the CRS loop submits jobs to WorkDB; WorkDB asks Scheduler
whose turn it is and runs the worktype's callback; callbacks call the products
database, the counters, the LLM client (through the priority semaphore), hand
items to batch workers, ask the container manager for machines, and submit
further jobs. `PROJECT.json` lists every component with its status, and every
hazard with its line and the properties that cover it.

## 2. Modules

| Module | Models | Composition |
|---|---|---|
| `JobQueue` | the promise of the work database | abstract |
| `WorkDB` | `class WorkDB` with its coroutines, crashes and cancellations | implements `JobQueue` |
| `MCWorkDB` | instances of `WorkDB` | |
| `WorkDBProofs` | theorems about `WorkDB`, among them that it implements `JobQueue` | |
| `RunQueue` | who waits and who runs | abstract |
| `Scheduler` | `class Scheduler` and `ScheduleTask` | implements `RunQueue` |
| `SlotPool` | a pool of slots | abstract |
| `PrioritySemaphore` | `class PrioritySemaphore` | implements `SlotPool` |
| `CounterDB` | `class CounterDB` over one sqlite connection | |
| `BulkWorker` | `class BulkTaskWorker` under the `retry_loop` of `launch_bgworkers` | |
| `AlruCache` | `alru_cache` and `LockGroup` | |
| `PrimitivesProofs` | theorems about `PrioritySemaphore`, `BulkWorker`, `AlruCache`, `Scheduler` and `CounterDB` as `MCPrimitives` runs them | |
| `Bundling` | the bundling jobs of `app.py` over `products_db.py` and `submitter.py`, against the competition API | its jobs run at least once, as `WorkDB` promises |
| `BundlingProofs` | theorems about `Bundling` | |
| `Pipeline` | from reports and crashes to vulnerabilities, POVs and patches (`app.py`) | jobs as `WorkDB` promises them; ends where `Bundling` begins |
| `PipelineProofs` | theorems about `Pipeline` and `FuzzShares` as `MCJobs` runs them | cites `SumProofs` |
| `Coders` | decoders and encoders on demand | |
| `TaskLoop` | task server, CRS loop, download and launch of tasks | two processes over one database |
| `Background` | the workers of a task and who waits for them | |
| `Agent` | one agent's loop and sessions (`agent.py`) | |
| `Crafting` | sessions that craft POVs, encoders, decoders, parsers, seeds | its messages are those of `Agent` |
| `Patching` | patch sessions with their editors and the builds they share | edits as sets; `Edits` has them line by line |
| `Edits` | hunks, edits, undo and line numbers | |
| `Debugger` | the debugger and its one build | memoised as in `AlruCache` |
| `Spend` | deposits and settlements, the LLM client's retries and slots | |
| `Vfs` | layers of sources, their caches and hashes | |
| `Artifacts` | files and builds on disk over crashes, both modes | |
| `PovRun` | a POV on many builds | |
| `Containers` | slots, containers, cancellations and timeouts | |
| `Corpus` | seeds of a harness and their minimisation | |
| `FuzzCrashes` | from a crash in a container to its triage | |
| `FuzzShares` | shares of cores | |
| `Flips` | from coverage to branch flips | |
| `Reach` | the incremental reachability graph | |
| `Suffixes` | file names by shortest unique suffix | |
| `MCBundling` | instances of `Bundling` | |
| `MCPrimitives`, `MCServed` | instances of semaphore, scheduler, counters, batch worker, memoising; of three of them and `TaskLoop` under fairness | |
| `MCJobs`, `MCAgents` | an instance of each of the other modules | |
| `JobsProofs` | theorems about `Coders`, `TaskLoop`, `Background`, `Containers`, `Corpus`, `FuzzCrashes`, `Flips` and `Reach` as `MCJobs` runs them | cites `SumProofs` |
| `AgentsProofs` | theorems about `Crafting`, `Patching`, `Debugger`, `Artifacts` and `PovRun` as `MCAgents` runs them | |
| `RequestsProofs` | theorems about `Agent`, `Spend` and `Vfs` as `MCAgents` runs them | cites `SumProofs` |
| `SumProofs` | sums over finite sets (they exist, are unique, compare, and change with one of their numbers) and paths in a graph | lemmas only |

`MCPrimitives`, `MCServed`, `MCJobs` and `MCAgents` hold several instances. A
behaviour exercises one of them, its `subject`, chosen at the start; a property
of a component is about the behaviours whose subject it is. Each component has
variables of its own, which hold `Unused` in the behaviours of the others; the
constants of the components that are proved about are constants there too, so
that their theorems are about every value of them, and the cfg gives the small
ones. The assumptions of the components are conjuncts of the ASSUME of the
module that holds them.
Components are put together where they share what they
need (`WorkDB` with the scheduler's counts, `Patching` with editors and builds,
`FuzzCrashes` and `Flips` with batches and jobs, `Spend` with the semaphore's
slots); the subjects of one module do not interact.

### WorkDB

*State.* `row`, `rowFailures` are the committed table; `req`, `status`,
`failures` the Job objects (the row of a job and its object share the rowid);
`eventQueue` is the list `submit_job` appends to, `dirty` the set of jobs to be
written, `jobQueue` the heaps, `waiting` and `running` the scheduler's counts,
`workCounts` and `taskWorkCounts` the counters of `schedule_step`; `co[id]` is
where the coroutine of a job is (`starting` covers the retry delay, before
`done` is attached).

*Atomicity.* An action is what the code does between two awaits.
`schedule_step` never awaits, so its `Dispatch` steps exclude every other
coroutine (`Interleaved`); `process_events` awaits the database, so its parts
interleave with everything. A commit of the pinned connection makes all earlier
statements durable; the UPDATE of `setup` is committed with the next batch, which
makes no difference because the next `setup` repeats it.

*Scheduler inside WorkDB.* `Dispatch` lets any waiting task be picked, an
abstraction of the fair choice that `Scheduler` models. `schedule_step` stops at
the first task whose batch slots are taken (`workdb.py:485`), also when a slot of the
worktype is free for the task behind it; whether runtimes lead there is a question
about both modules together, and `LoopIsWokenUp` excepts the case.

*Bounds.* `MaxJobs` rowids, `MaxCrashes` crashes and, for worktypes without
`attempts`, `MaxFailures` failures. Two or three jobs are enough for every pair of
places a job can be in. With `BATCHSIZE = 1` (`workdb_crash`, `workdb_cancel_leak`)
every flush of two rows is split; with 2 (`workdb_cancel`) it is one statement.

*Fairness* (`FairSpec`). `loop()` and the coroutines are asyncio tasks that are
ready whenever their action is enabled: weak fairness of `LoopStep` and of each
`CoStep`. A callback ends because `asyncio.timeout` bounds it. `CancelTasks`
is fair because the CRS loop polls for ever. Submissions, cancellation
requests, expiry and crashes are not fair.

### Scheduler, PrioritySemaphore, CounterDB

`Scheduler` has one action per method over a discrete clock; `time` moves by
itself (`Advance`). The list may hold stale and duplicate entries, as the
code's does. `PrioritySemaphore` gives each client its own place in `acquire`
(free, waiting in the heap, granted but not resumed, holding) and can cancel it
at each of them. `CounterDB` models the connection as the external thread it
is: statements are run in the order in which they were issued, and answers
resume their callers.

### BulkWorker and AlruCache

`BulkWorker` has the queue, the batch that is being collected, the future of
each item and the place of the worker; a job may give up (its future is
cancelled) at any await, a batch may raise, and the whole worker may be
cancelled. `AlruCache` has the cached keys as a set and
who was used before whom as a relation. It keeps lock objects apart from keys, because that is
where it could go wrong: a `LockState` lives as long as somebody counts in it,
and two callers of one key must find the same one. Three callers, four keys
and a cache of one entry make every eviction meet a key in use.

### Bundling

*State.* A patch, a POV or a SARIF report stands for its row and for the job
that bundles it (`pc`). SUBMIT_BUNDLE jobs are created by every change of a
bundle: those that wait are counted (`pending`), those that run have one of the
`Slots`. `sub`, `saved` and `row` are the submission a product points at, its
committed value, and what is recorded of each attempt; `made` is what the API
has of bundles. `lock`, `step` and `work` are the holder of the task's
condition, its place and its local variables.

*Atomicity.* All handlers but the polls run under one `asyncio.Condition` per
task, so a step is what the holder does between two awaits that write
something. A POST and the record of its answer are two steps. Polls interleave
with everything. The clearing of an errored submission is not committed by
itself: `saved` catches up with the next commit on the same connection, whoever
makes it, and a crash falls back to it.

*What the code does that one might not expect.* `Submitter.update_bundle` names
the local row id to the API (`submitter.py:179`), which rejects it, so
`UpdateBundle` sends the job back. Only `bundle_pov` and `bundle_patch` notify
the waiting jobs (`Told`). A patch that fails its own test leaves the bundle
as it is (`Test`).

*Bounds.* One patch, one POV and one SARIF report give the three triggers of
`maybe_update_bundle` in every order; whether the patch fixes the POV is chosen
at the start. `MaxVerdicts` attempts are judged and `MaxTroubles` crashes,
failing calls or lost answers happen, at any step. When the competition judges
is only visible through a poll, so the verdict is drawn there. A job runs again
after a crash when it was the last to end.

*Abstractions.* Calls of sqlite do not fail; a failing test of a patch in the
containers is a failing call. A POV has its row before its vulnerability
(`AddPov`, `AssignPov`): patches are tested against it from the first on
(`app.py:1606`), and the second comes at any moment, because `assign_vuln_to_pov`
does not take the condition (`app.py:1142`). That a triage that runs again moves
a POV to another vulnerability is left out. `attempts` of the bundle jobs are not
counted.

### The other modules

The head of each module says what its state stands for. What they have in
common:

*Jobs* are rows that `WorkDB` runs at least once: a job that fails goes back
until its `Attempts` are used up, a crash puts every running job back, and a
`gather` of several submissions is a set (`todo`) whose elements are submitted
in any order with faults in between.

*What is not ours answers freely.* An agent, a harness, a build or a container
returns any of the outcomes that the code tells apart; `Faults` and `Crashes`
are bounded by constants. Two things are taken to be right: an agent that
deduplicates recognises a vulnerability that it is shown (`Pipeline`), and a
build of given sources is a function of them (`Patching`, `Vfs`).

*Bags and tables.* `waiting` of `Pipeline` is a function from the queued jobs to
how often each is queued (`With`, `Without`); the tables of products are
sequences, where the row id is the position. `CoresOf` of `Containers` lists the
cores that a host has booked, so that `InUse` is their number.

*Data.* Sources are sets of edits (`Patching`), functions from paths to contents
(`Vfs`) or sequences of lines (`Edits`); a seed is what it covers; a message is
its role and its calls; money is a small integer.

*Bounds* are constants in the cfg or arguments of the INSTANCEs in `MCJobs` and `MCAgents`, with a
comment where a choice is not plain. They are the smallest at which the race or
failure in question happens: two jobs or callers that meet (three where one has
to wait behind another), one crash, one or two faults, a bucket or batch of two,
two rounds of minimisation with one failure that mislays seeds, three epochs of
shares with a machine of four cores, call graphs of four functions with a cycle.

## 3. What the runs show

| Run | Question |
|---|---|
| `workdb_cancel` | With two jobs, retries, expiry, a cancelled task and callbacks that end in `CancelledError` by themselves: do heap, counters, coroutines and table stay consistent (`Accounted`, `Covered`), is no callback of a cancelled task entered, does it implement `JobQueue`? |
| `workdb_crash` | Two worktypes, limits of one, a crash anywhere, and fairness: is nothing acknowledged lost, no unique work duplicated and no wakeup missed (`NothingLost`), do rows only move forward, are limits kept, is every row settled and every caller answered (`Served`)? |
| `primitives` | Semaphore, scheduler, counters, batch worker and memoising decorator, each over every order of calls, cancellations, failures and crashes of its instance: is nothing lost, doubled or overtaken, and do semaphore and scheduler implement `SlotPool` and `RunQueue`? |
| `served` | Under fairness: does the best waiter of the semaphore, every job of a batch and every caller of a memoised function come back, and does every task or cancellation the server accepted take effect? |
| `jobs` | Pipeline, coders, task loop, background workers, containers, corpus, crashes, shares, flips, graph and paths: one property each, listed with its comment in `MCJobs`. |
| `agents` | Agents, crafting, patching, edits, debugger, spending, file systems, artifacts and POV runs: one property each, listed in `MCAgents`. |
| `bundling` | Over crashes, failing calls and lost answers: is nothing submitted twice without a reason (`Accounted`), is every pair of patch and POV tested and does every product of a bundle have a job that will submit it (`NothingLeftUndone`), does no bundle get a patch that is known to be bad? |
| `workdb_cancel_leak` | Finding: a job cancelled during its retry delay stays RUNNING for ever (no `done`), against `tests/common/test_workdb.py`. |
| `patch_stale_build` | Finding: with one tool call at a time, a build that a session finds on disk is not one of its sources: `get_build_vfs` is memoised by the build config alone (`project.py:497-499`), against "build is cached, just return it" (`project.py:652`). |
| `counter_get` | Finding: `get()` that missed the cache overwrites a newer cached value. |
| `bundling_ready` | Finding: a patch is submitted although its own job has already recorded that it fails. |
| `sarif_forgotten` | Finding: the BUNDLE_SARIF job of a report whose vulnerability is known, also from the job's own first attempt, is never submitted. |

Each property of a passing run has a mutant in `PROJECT.json`: a plausible
change of the code under which TLC finds the property violated in the same run.
A property of several parts (`Accounted`, `NothingLost`, `SharedCalls`, ...) is
the conjunction of named parts, each with a comment of its own in its module.

`NothingLeftUndone` has one exception, `missed`: a process that dies after the
bundle was written, or a submission cleared, and before the submit job was
queued, in a job other than a submit job, loses that job; the job that runs
again sees no change and queues nothing. It is a real gap of the code that the
property names. `NothingForgotten` excepts in the same way what a fault cut off
(`dropped`) or exhausted (`gaveUp`).

*Fairness of the other modules.* A coroutine that can go on goes on (weak
fairness of its step); a batch ends, and a caller that holds the lock of
`AlruCache` comes back, because the callback's `asyncio.timeout` bounds it. The loop of
the CRS polls for ever, and `WorkDB` starts a job that can start (its own
`Served`), so the steps of `TaskLoop` that are the loop's and the jobs' are fair.
Arrivals, cancellations, failures and crashes are never fair.

### Gaps without a run of their own

Some modules name a property that the code's comments announce and that does
not hold. TLC refutes each of them, within seconds, when it takes the place of
the subject's property in `MCJobs` or `MCAgents` (`SecondariesRun` with
`FuzzMachines` of one).

| Property | What a comment says, what the code does |
|---|---|
| `Coders.EncoderFits` | "fetch corresponding encoder" (`app.py:1827`): when no decoder could decode the input, `decode_pov` still returns the last it tried, and its counterpart encodes the flipped input |
| `TaskLoop.CancelledStaysQuiet` | the cancellations of before a restart are polled again only after `WorkDB` has started its loop (`app.py:2006-2033`): a job of a cancelled task may run in between |
| `Background.FuzzersAreWoken` | `launch_fuzzers` waits for an event (`app.py:470`) that a coverage job whose wait timed out, or a new Task object, takes away |
| `FuzzCrashes.FailedRunsStay` | "note we do NOT delete the crash in this path" (`helpers.py:148`): the `batch_unlink` below deletes every file of the batch |
| `FuzzShares.SecondariesRun` | "otherwise we need to contend with the primary cores" (`fuzzing.py:1040`): with fewer cores to a task than its jobs take there is no primary slot, and the semaphore has no place |
| `Flips.NewCoverageStored` | "if there was new coverage, update our graph" (`coverage.py:485`): the bitmap is ahead of the table, so coverage is not new again after a failure in between |
| `Reach.HitsAreFound` | "IS the given file and line be reached from user input" (`coverage.py:533`): `if not entry` (`graph.py:155`) takes the function with number 0 for one that is not there |
| `Edits.UndoWorks` | "ensure we can undo" (`tests/modules/test_source_editor.py:42`): a hunk that changes nothing becomes an edit without a file, which cannot be read when it is taken back |
| `Spend.SleepersHoldNoSlot` | "put job back in queue, then sleep" (`llm_api.py:371`): it sleeps inside the semaphore |
| `PovRun.RemediatedWasRun` | "True indicates the patch remediates the pov" (`helpers.py:182`): runs that hang or fail are passed over, and no crash is what remains |

### What the properties except

Where the code does not keep a promise in some case, the model has the case and the
property names it: by a history variable, or by a predicate on the data. Outside of
these the promise is unconditional.

- `CoverageKept` (`Corpus`), `mislaid`: a listing of the merged seeds that comes back
  empty because its command failed (`fuzzing.py:415`) removes all the seeds that were
  known, and a copy that failed leaves its seed in memory only.
- `CraftedIsChecked` (`Crafting`), `crossed`: of two calls of one message that replace the
  parser, one restores what the other has replaced, and a trial that raises does not
  restore it at all (`generate_kaitai.py:60-87`, caught in `agent.py:277`); a terminating
  call may come over a crash that another call of the message recorded. That
  nothing is confirmed without having been seen has no exception.
- `PatchesAreTested` (`Patching`): calls of one message edit, build and test side by side.
  An edit made from a file that another call rewrites meanwhile takes the other's away
  (`overwritten`); what is built or tested while the tree is edited is of neither
  tree (`moved`); a fork that finds a second tar on disk is given the build of the first
  (`sound`; it is the finding of `patch_stale_build`); and a POV that could not be run
  counts as no crash (`erred`, the `case _` of `produce_patch.py:84-94`). Each part of the
  claim excepts its own of the four. A project without tests has its patches confirmed
  untested, which the property says.
- `EditsAreTracked` (`Edits`): a hunk that begins with what it adds is placed by an
  alignment that does not determine where (`src/patch.rs:236`), so nothing is claimed of
  its place. `fixup_line` compares with the end of a hunk's new lines
  (`source_editor.py:47`): the lines just behind a hunk that grew are taken for lines of
  it (`Overrun`), and the last lines of one that shrank for lines behind it (`Mistaken`).
  After an undo that raised (`raised`) nothing is claimed.
- `VfsIsCoherent` (`Vfs`): a build takes its name from the hash and its layers after an
  await (`project.py:681-720`), so a write in between leaves another build under that
  hash (`torn`). What a diff deletes is taken away with the name that the tar gives it,
  folder included, which no layer has: the file stays in the layers, and `is_file` finds
  it there (`Astray`; `tar.py:275-315`), while `read` does not.
- `CoverageIsTold` (`Suffixes`): a file that is the end of another shares its name with it
  (`Namesake`), and `str.endswith` takes `y.c` for the end of `xy.c` (`Mistaken`,
  `coverage.py:629`). Even then nothing covered is called missed.
- `ContainersAccounted` (`Containers`), `stray`: `run()` gives a launch up that shows no id
  in time (`docker.py:302-319`), and the container that comes up later is nobody's.
- `CrashesReachTriage` (`FuzzCrashes`): a bucket is a list that is looked at before two
  awaits and appended to after them (`fuzzing.py:467-475`), so it may pass its limit by less
  than a batch, and a crash whose job ran twice (`redone`) may be in it twice.
- `BundlesAreVetted` (`Bundling`): a POV that got its vulnerability after the job had read
  them (`work.own`) may refute what the bundle is given; its own bundling job is
  still to come and reviews the bundle.
- `CountersHold` (`CounterDB`): an upsert whose caller is cancelled before the commit
  (`counter_db.py:56-61`) runs all the same, and nobody owes its commit.

## 4. What is proved

`WorkDBProofs` (for any tasks, worktypes, requests, limits and bounds, assuming
only `RequestsAssumption` and `BoundsAssumption` of `WorkDB`):

- `SafetyOfWorkDB`: `Spec => []Inv`. `Inv` is the inductive invariant. The
  checked invariants are not inductive: that the slots add up depends on a
  coroutine having status RUNNING or DONE (`Places`); that in turn depends on a
  queued job having no coroutine, on ids above `nextJobid` being unused
  (`FreshIds`), on a submission being in one event list at most once
  (`Handover`), and on memory being empty while the process is down (`Phases`).
  `FailuresCounted` (attempts are left) and `CancelsPending` complete it. There is
  one lemma per action, with one step per conjunct.
- Consequences: `TypeCorrect`, `SlotsNeverDrift` and `QueuesNeverDrift`, together
  `BooksAreRight`; `CallbacksAreCovered` and `NoLagIsForgotten`, together
  `RowsCoverCallbacks`; with a second invariant on the counters, `LimitsAreKept`;
  and the action properties `SettledRowsStay`, `FailuresNeverForgotten` and
  `RowsKeepTheirWork`, together `RowsOnlyMoveForward`, and `CancelledTasksStayOut`.

On top of `SafetyOfWorkDB`, with the same assumptions:

- `WorkDBIsAJobQueue`: every step maps to a step of `JobQueue` or a stutter.
  `CommitAdds` maps to `Accept`, the flush that writes a settled row to `Settle`,
  the dispatch of a coroutine to `Start`, its leaving of the callback to `Stop`,
  `Crash` to `Crash`; the rest stutters. That `Start` never exceeds the abstract
  limit needs the count of `LimitsAreKept`.
- `AnswersAreDurable`: a submission whose caller still waits is on its way or in
  the table (`Delivered`). `LoopIsWokenUp`: `schedule_step` has left every worktype
  for a reason that still holds, and what came in since has set `wakeup`
  (`Attentive`).
- `UniqueWorkOnce`, and with it `NothingIsLost`, assume `AwaitingCallers`: a
  caller awaits its submission of unique work before it repeats it, as the calls in
  `app.py` are written. Two at once would both pass the look-up.

`PrimitivesProofs` (from the assumptions of the primitives; theorems of each component's
own specification, and, since a step of one primitive leaves the others alone, of the
specification that `primitives` runs: `SemaphoreIsKept`, `QueueIsKept`, `CountersAreKept`,
`CallsAreShared`, `SlotsGoInOrder`, `PrimitivesRefine`):

- *Semaphore*, for any finite set of clients, any priorities and slots: slot conservation
  and the waiter invariant of the docstring, no idle slot, no overtaking, and that it
  implements `SlotPool`. *Batch worker*, for any jobs, batches and failures: every item has
  its own answer or its future is told.
- *Cache*, for any callers and keys: `NeverComputedTwice`, `ResultsAreFound` and
  `CacheIsConsistent`, which `CallsAreShared` cites. A lock has as many users as there are
  callers between entering and leaving it; neither the order in which waiters get it nor what
  the cache holds plays a part in the first. `CacheContents` adds that the order of use is a
  strict total order of the cached keys, so the oldest unused key exists (`OldestAreEnough`),
  and the keys over the limit are all in use.
- *Scheduler*, for any keys and shares: `LeastServedGoesFirst` and `SchedulerIsARunQueue`.
  The sort is only known to permute and to order by runtime (`SortingKeepsAndOrders`). The
  invariant says that whoever waits is in the list and in the waiting set
  (`NobodyForgotten`), that the loans of running slots are in the runtimes
  (`LoansCovered`) and that no clock that was read is ahead of the real one
  (`ClocksBehind`): otherwise an accounting round could take runtime away, and a loan
  with it.
- *Counters*, for any coroutines, calls, amounts, crashes and cancellations:
  `CounterIsConsistent` (every call under way has one statement or answer, of the kind that it
  waits for, and what is not committed is owed to a caller that is writing it or that was
  cancelled before its commit); `CacheWritesThrough` and `TicketsAreDistinct`, which carry the
  values the row will have after each queued statement (a function of the position in the
  queue): the cached value is the last of them, and the ranges that tickets reserve are
  disjoint; and `AddsSurviveCrashes`, where the sum is replaced by the set of the units that
  each call has added.

`BundlingProofs` (for any patches, POVs, vulnerabilities, submit slots and faults,
assuming `BundlingAssumption`: the names of the kinds of jobs are disjoint):

- `NoPairGoesUntested` and `BundlesHoldNoRefutedPatch`. The invariant adds what the
  holder of the condition has seen when its tests start (`Seen`: every job of the
  other kind that was done by then) and that the draft between choice and write
  holds no patch that a POV in `work.own`, or one whose job is done, refutes
  (`Drafted`), which stays so only because tests are recorded under the same
  condition, while vulnerabilities are assigned without it. A finished job of either kind thus always lies
  before the other's look at the tables.
- `LedgerIsKept`, `NothingIsSubmittedTwice` (`Accounted`): `Rows` counts, per product, the
  answered attempts that were not cleared: none if it points at nothing, the one it points at
  otherwise, and on disk possibly the one before, since clearing is committed by whoever
  commits next. `Drawn` says that what a submit job read of its bundle still holds of what
  it has not submitted, `Polling` what is polled, `Bundled` that a bundle is made once.
- `NothingIsLeftUndone` (`NothingLeftUndone`): a product that is `Owed` a submission has a
  submit job that waits or runs, or a holder of the condition that will queue one
  (`Attended`), unless the process died in the window `missed`.

`JobsProofs` (theorems of the specification that `jobs` runs, from the assumptions of the
components, which TLC evaluates there):

- `CodersAreMadeOnce` (any jobs, flips and number of attempts). `OnDemandOnce` speaks of
  the tables; the invariant adds who holds which lock (`DecoderLockHeld`: exactly the job
  that is decoding; `EncoderLocksHeld`: from `MakeEncoder` to `Encoded`, for the type
  wanted then) and that only a python encoder ever needs a decoder (`PythonOnly`). Without
  the last one an encoder stored as raw by default could not be told from one that was
  wanted raw. That a flip gets the type it wanted rests on `FlipIsServed`: it wants a
  python encoder only when it has seen a decoder, none is ever deleted, so it never has to
  make one and never falls back to a raw encoder.
- `NextLaunchFindsWaiters` (any jobs and bounds). While no wait times out and nothing is
  evicted there is one Task for each start of the program, and it is the only key of
  workers, events and waiters (`OneTask`, `HasEvent`).
- `SlotsAndContainersAccounted` (any hosts, clients and requests). A client has a host
  exactly while it is in its scope, with enough cores (`Hosted`), and a host has booked
  exactly what its guests asked for (`Booked`). A process belongs to a client with a host, or
  to one that has given its slot back and waits for the process to end; a container to a client
  that is launching, running or killing it, or to a launch that was given up (`Cared`). That
  hosts are not overbooked is a count of the booked cores, one by one.
- `CoverageIsKept` (any seeds, coverage and files). But for what is `mislaid`, the set in
  memory was on disk once (`OnceWritten`); while a merge runs, its files and the files it does
  not know cover all it knows (`MergeCovers`); what is about to be unlinked is covered by the
  rest (`RestCovers`).
- `BucketsReachTriage` (any crashes, buckets and batches). The batch is the jobs that run, and
  those of it that timed out are queued again (`BatchRuns`); an accepted crash has its file, row
  and triage job as far as the phase of the batch says (`OnTheWay`). The list of a bucket is as
  long as the bucket or longer, and with what the batch still has to append less than a batch
  over the limit (`Lists`). Until a restart a crash has one job, and its file is from that
  job (`OneJobEach`, `FileOfJob`); with these the list of a bucket that no job touched twice is
  the bucket (`ListIsBucket`), so a full list means a bucket full of others.
- `NoRowIsLost` (any tasks, SARIFs, diffs and messages of the server). The tables only grow
  at the end (`RowsStay`), so what was read up to a cursor stays what is there; the invariant
  adds that an id behind the third cursor is remembered (`CancelledRest`), which a restart
  forgets together with the cursor, and that of the analyses of a diff, which are not unique,
  the first is there if any is (`LaunchesDone`).
- `FlipsAreAccounted` (any seeds, coverage and call graph). A pair is marked before it is
  handed on, and only then (`PairsOK`); the graph is loaded while a batch is at work, and the
  bitmap is ahead of table and graph (`GraphOK`); what is begun was counted (`BudgetOK`).
  `NewsAreTold` is about the parser: in whatever order it reads the reports, what the bitmap
  gains is told, because a new function has a first report that covers it.
- `GraphIsAlwaysExact` (`GraphIsExact`; any call graphs, harnesses and inputs). What is exact
  when the hits have spread is inductive only together with what is still to spread: a callee
  of a node that is marked for a harness is marked too, or queued for it (`ReachFits`); a
  callee of a hit function is hit, in the frontier or queued at distance 1 (`FrontierFits`);
  `closest` is where a path of its length begins, and no farther than over any caller, unless
  the callee is queued at that distance (`ClosestFits`); and what is queued is that many calls
  from a function its input runs through (`QueueFits`). With an empty queue, an induction along
  any path gives the one half of each equivalence, the path that is kept the other; and a path
  need not be longer than there are functions (`ShortPaths`).

`PipelineProofs` (any bugs, jobs, places, faults and rows):

- `OneRowPerBug` (`OneVulnPerBug`). Who is deduplicating has the lock and has seen all rows,
  because rows are only added under the lock (`PlaceOK`); a triage that is about to assign a
  vulnerability has one of its POV's bug; and every job that is queued, running or about to
  be submitted is about a row that is there (`HasRow`), also after a restart. One lemma,
  `OnePlaceMoves`, shows that a step of one place leaves all others as they were, as long as
  tables only grow.
- `NothingIsForgotten` (`NothingForgotten`). The invariant is `Book`: `Ledger` is the
  property itself with what it needs of the places (`TodoOK`: a place that submits still
  holds what is to be submitted, and a triage that ends has bundled); `HintsOnce` says that
  a hint comes with the second failure, from one place and once; `RetriesCount` that the
  retries on account of a vulnerability have different numbers below its counter, so that
  there are at most `ExtraPovs`. `Grows` is what every step of a place has to show: a new
  POV comes with its triage, a new vulnerability with its patch job.

- `CoresAreAllShared` (any machines, cores, tasks, harnesses and fuzzers of other
  sanitizers). The shares are summed by place: the first k managers have k times the base,
  and one more for each that stands late enough, so all of them have all the cores, or one
  each. A plan is cut from its share: the slots and the gap that they leave are a division
  with remainder, and the gap's own jobs are not more than the gap. `ShareInv` adds that a
  manager is in the list once, that who has left uses nothing, and that no plan is ahead of
  the epoch, so whoever comes or goes makes all plans those of an epoch that is over.

`AgentsProofs` (from the assumptions of the components):

- `VerdictsAreJustified` (any builds and outcomes). The verdict follows the runs that have
  ended (`RunsAgree`): while a phase lasts, none of them has crashed in it, and the runs on
  the builds from before the diff follow a crash on the others.
- `CraftedInputsAreChecked` (any candidates, tools and turns, any number of calls at once). A
  call is of a tool that its session has (`ToolsFit`); what is kept as confirmed was checked
  (`KeptWasSeen`). Unless calls crossed, what was seen to work is kept (`RecordedIsKept`), and
  at most one parser is on trial, which can be rolled back to one that reads the corpus
  (`ParserWasRead`).
- `DebuggerAnswersRight` (any callers, files and breakpoints). A step of `init` that is done
  has left nothing to edit, a step that failed was a fault, and the build is of the edits
  there are (`KeptIsRight`); who builds or edits has the lock for it, and an answer agrees
  with the hits (`CallersFit`).
- `ArtifactsFit` (any tasks, forks and programs that the modes allow). What is on disk in part
  is parsed again, or is the copy of the one worker it is for (`PartsAreKnown`); a worker that
  builds has the lock of the builds of its sources, which are not built yet (`WorkerFits`).
- `ConfirmedPatchesWereTested` (any sessions, edits, builds on disk and POVs that err, any
  number of calls at once). The editor lists each edit in force once (`EditorFits`). What a
  call in flight has read of a file, built of the tree or tested is that of the tree there is,
  unless the tree was edited since the call began (`Fits`, for the places of a call one by
  one); every tar and build that is sound is of its sources (`BooksFit`); and a tree that was
  compiled was so once and has its tar (`CountsFit`; who compiles has the lock of its state,
  `LockFits`). Each claim of a confirmed patch then excepts only its own reason (section 3).
`RequestsProofs`:

- `RequestsAreWellFormed` (any iterations, tool calls and failed completions, the action
  property `KeptTurn` included). The prompts come first, every answer lies among the answers
  of the call before it (`History`), a message is answered by as many results as it made
  calls, right after it (`Complete`), and of the message whose calls run, those that have
  ended (`Partly`). What compression leaves is the prompts, a request to go on and a shifted
  end of the old messages that begins with a reply (`Compressed`), so that no call loses its
  answers.
- `SpendingIsBounded` (any jobs, limits, deposits, costs, slots and crashes). The counter is
  what was paid less what is unsettled, with the deposits that are out: an equation of sums
  over jobs (`BudgetInv`). What is committed passes the limit by less than a deposit, because
  the deposit is taken under the lock by one who has just seen it below (`Committed`).

- `SourcesAreCoherent` (`VfsIsCoherent`; any trees of the image, the repository and another
  commit, any edits, any diff, and any calls on a fork at once, writes among them). The layers
  are folded; that the trees after one, two and more layers exist and each comes from the one
  before is shown from a least counterexample among the numbers of layers (`FoldsExist`,
  `OneMoreLayer`). So what is built of a fork is known (`LayersTree`): the sources it should
  have and, of what the diff deletes, what the repository has below it (`AstrayIn`), at
  another commit too (`BaseAt`). A hash determines the layers and with them the tree
  (`LayersOfTheHash`, `HashTreeIn`). The invariant `VfsInv` adds that a call has the hash of
  its fork as long as nobody writes, that what it has read fits its key or the key is in
  `torn`, and that every tree and build is kept under a hash of its layers or a torn one.

`SumProofs` has what these need of sums. `MapThenSumSet` folds a set by CHOOSE; that it is
the sum, that it is unique and monotone and changes with one of its numbers is proved from a
least counterexample among the subsets (`SubsetsInduct`), which needs no induction scheme. So
is what holds along a path (`AlongAPath`), and a path without a loop has at most as many nodes
as there are (`ShortPaths`, by the pigeonhole principle).

Only model-checked:

- liveness (`Served`, `EverybodyServed`, `TasksSettle`): liveness under fairness and
  ENABLED are beyond TLAPS;
- of `MCJobs`: `CoverageIsTold`. Names that `endswith` finds in other files are characters,
  which the model has only as a relation between names;
- of `MCAgents`: `EditsAreTracked`. `Edits` aligns hunks with the lines of a file by the best
  of all alignments and follows each line through a sequence of edits: what those operators
  compute for every input is an induction over two sequences. The sums, paths and
  layers above could do with least counterexamples, because what they compute is determined by
  one number or one set.

## 5. Plan

1. Done: the job queue with its proofs, the primitives, bundling, and a module
   for every other component whose steps are a protocol.
   Proved of them: all safety properties of `workdb_cancel`, `workdb_crash`, `primitives`
   and `bundling`, all of `jobs` but `CoverageIsTold`, and eight of the nine of `agents`.
2. Next proof: `EditsAreTracked`, for patches of one hunk first, whose alignment is a number.
3. Next compositions: `TaskLoop` over `WorkDB` itself instead of its promise, and
   `Pipeline` with `Bundling`.

## 6. Not modelled

- The running quantile (floats without a protocol), the SARIF model (generated
  classes), the rust helpers for logging, HTTP and metrics, evaluation,
  simulation and deployment.
- Parsing, indexing and search of source code (`crs/analysis`, `search_code.py`,
  `static_analysis.py`, joern): pure work of external tools. What is cached of it
  on disk is in `Artifacts`.
- Of modelled components: the contents of prompts, reports, seeds, source trees
  and builds; container volumes, networks and cloud storage; the task server's
  status endpoints; the choice of a model, token counts and telemetry; scripts
  that test a project; the front end of the open-source mode that writes results.
  The notes in `PROJECT.json` say so for each component.
