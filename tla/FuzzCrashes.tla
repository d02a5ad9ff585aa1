----------------------------- MODULE FuzzCrashes -----------------------------
(***************************************************************************)
(* What becomes of the crashes a fuzzer leaves in its container:           *)
(* FuzzHarnessManager.on_crash_found writes the input to disk and queues a *)
(* TRIAGE_FUZZ_CRASH job, BulkCrashWorker (crs/app/helpers.py) runs the    *)
(* inputs of a batch again, CorpusManager.add_crash sorts those that crash *)
(* into buckets, and register_crashes (crs/app/app.py) makes POVs of them. *)
(* A batch may fail as a whole, a job may time out while it is handled,    *)
(* and after a restart a crash may be reported by a second job.  What is   *)
(* written to disk is written without an error.                            *)
(*                                                                         *)
(* The table of jobs, the disk and the table of POVs survive a restart.    *)
(***************************************************************************)
EXTENDS Integers, FiniteSets, FiniteSetsExt

CONSTANTS
  Crashes,
  Jobs,          \* bound: rows of TRIAGE_FUZZ_CRASH jobs
  Real,          \* those that crash when they are run again
  BucketOf,      \* the dedup token of a crash
  MaxPerBucket,  \* MAX_CRASHES_PER_BUCKET
  BatchSize,     \* WorkDesc.batchsize
  Attempts,
  MaxErrors, MaxRestarts  \* bounds: runs and batches that fail, restarts

CrashesAssumption ==
  /\ IsFiniteSet(Crashes) /\ IsFiniteSet(Jobs)
  /\ {MaxPerBucket, BatchSize, Attempts} \subseteq Nat \ {0}

VARIABLES
  untested,  \* files in crash_path/untested
  bucketed,  \* files in the buckets
  listed,    \* the length of each list in crash_buckets
  reporting, \* crashes on_crash_found has written and not reported
  known,     \* FuzzManager.known_crashes
  job,       \* the rows: a crash, its state and the attempts left
  phase, batch,  \* where the worker is, and the outcome of each job it handles
  accepted,  \* jobs whose crash add_crash takes ("is_new")
  adding,    \* those of them whose file is being written
  refused,   \* history: crashes add_crash did not take
  redone,    \* history: crashes whose job ran again though one may have taken them
  povs,      \* crashes with a row in povs
  triaged,   \* crashes with a TRIAGE_POV job
  errors, restarts

crashVars == <<untested, bucketed, listed, reporting, known, job, phase, batch, accepted, adding,
               refused, redone, povs, triaged, errors, restarts>>

Buckets == {BucketOf[c] : c \in Crashes}
Bucket(b) == {c \in bucketed : BucketOf[c] = b}
Full(c) == listed[BucketOf[c]] >= MaxPerBucket
Rows == DOMAIN job
JobsThatAre(state) == {j \in Rows : job[j].state = state}
Batch == DOMAIN batch
CrashesOf(jobs) == {job[j].crash : j \in jobs}

Init ==
  /\ untested = {} /\ bucketed = {} /\ listed = [b \in Buckets |-> 0]
  /\ reporting = {} /\ known = {}
  /\ job = <<>>
  /\ phase = "idle" /\ batch = <<>> /\ accepted = {} /\ adding = {}
  /\ refused = {} /\ redone = {}
  /\ povs = {} /\ triaged = {}
  /\ errors = 0 /\ restarts = 0

\* on_crash_found: the file is written whether the crash is known or not.
WriteCrash(c) ==
  /\ c \notin reporting
  /\ untested' = untested \cup {c}
  /\ reporting' = reporting \cup {c}
  /\ UNCHANGED <<bucketed, listed, known, job, phase, batch, accepted, adding, refused, redone,
                 povs, triaged, errors, restarts>>

\* known_crashes is not kept on disk: after a restart a crash gets another job.
Submitted(c) ==
  /\ Rows # Jobs
  /\ LET new == CHOOSE j \in Jobs : j \notin Rows
     IN job' = [j \in Rows \cup {new} |->
                  IF j = new THEN [crash |-> c, state |-> "queued", tries |-> Attempts] ELSE job[j]]
ReportCrash(c) ==
  /\ c \in reporting /\ reporting' = reporting \ {c}
  /\ known' = known \cup {c}
  /\ IF c \in known THEN job' = job ELSE Submitted(c)
  /\ UNCHANGED <<untested, bucketed, listed, phase, batch, accepted, adding, refused, redone,
                 povs, triaged, errors, restarts>>

(***************************************************************************)
(* BulkCrashWorker._handle_work.                                           *)
(***************************************************************************)
TakeBatch ==
  /\ phase = "idle"
  /\ \E some \in (SUBSET JobsThatAre("queued")) \ {{}} :
       /\ Cardinality(some) <= BatchSize
       /\ job' = [j \in Rows |-> IF j \in some THEN [job[j] EXCEPT !.state = "running"] ELSE job[j]]
       /\ \E err \in SUBSET {j \in some : job[j].crash \in untested} :
            /\ errors + Cardinality(err) <= MaxErrors
            /\ errors' = errors + Cardinality(err)
            /\ batch' = [j \in some |-> IF job[j].crash \notin untested THEN "missing"
                                        ELSE IF j \in err THEN "error"
                                        ELSE IF job[j].crash \in Real THEN "crash" ELSE "clean"]
  /\ phase' = "ran"
  /\ UNCHANGED <<untested, bucketed, listed, reporting, known, accepted, adding, refused, redone,
                 povs, triaged, restarts>>

\* A gather() of add_crash: each looks at its bucket before any of them has written, ...
Look ==
  /\ phase = "ran"
  /\ LET crashing == {j \in Batch : batch[j] = "crash"}
     IN /\ accepted' = {j \in crashing : ~Full(job[j].crash)}
        /\ refused' = refused \cup CrashesOf(crashing \ accepted')
  /\ adding' = accepted' /\ phase' = "adding"
  /\ UNCHANGED <<untested, bucketed, listed, reporting, known, job, batch, redone, povs, triaged,
                 errors, restarts>>

\* ... and appends to its list when its file is written, in any order.
AddCrash(j) ==
  /\ j \in adding /\ adding' = adding \ {j}
  /\ bucketed' = bucketed \cup {job[j].crash}
  /\ listed' = [listed EXCEPT ![BucketOf[job[j].crash]] = @ + 1]
  /\ UNCHANGED <<untested, reporting, known, job, phase, batch, accepted, refused, redone, povs,
                 triaged, errors, restarts>>

AddPovs ==
  /\ phase = "adding" /\ adding = {}
  /\ povs' = povs \cup CrashesOf(accepted) /\ phase' = "stored"
  /\ UNCHANGED <<untested, bucketed, listed, reporting, known, job, batch, accepted, adding,
                 refused, redone, triaged, errors, restarts>>

SubmitTriage(c) ==
  /\ phase = "stored" /\ c \in CrashesOf(accepted)
  /\ triaged' = triaged \cup {c}
  /\ UNCHANGED <<untested, bucketed, listed, reporting, known, job, phase, batch, accepted,
                 adding, refused, redone, povs, errors, restarts>>

Unlink ==
  /\ phase = "stored" /\ CrashesOf(accepted) \subseteq triaged
  /\ untested' = untested \ CrashesOf(Batch) /\ phase' = "unlinked"
  /\ UNCHANGED <<bucketed, listed, reporting, known, job, batch, accepted, adding, refused,
                 redone, povs, triaged, errors, restarts>>

Retried(j) ==
  IF job[j].tries = 1 THEN [job[j] EXCEPT !.state = "failed"]
  ELSE [crash |-> job[j].crash, state |-> "queued", tries |-> job[j].tries - 1]

\* Mutant: the error of a run is not the error of the job.
AllEndWell(j) == [job[j] EXCEPT !.state = "done"]
EndedAs(j) ==
  IF batch[j] \in {"crash", "clean"} THEN [job[j] EXCEPT !.state = "done"] ELSE Retried(j)

EndBatch == phase' = "idle" /\ batch' = <<>> /\ accepted' = {} /\ adding' = {}

Answer ==
  /\ phase = "unlinked"
  /\ job' = [j \in Rows |-> IF job[j].state = "running" THEN EndedAs(j) ELSE job[j]]
  /\ EndBatch
  /\ UNCHANGED <<untested, bucketed, listed, reporting, known, refused, redone, povs, triaged,
                 errors, restarts>>

\* The run of the POVs fails or times out, or a call of on_crashes does: every job of the
\* batch gets an error and no file is deleted.
BatchFails ==
  /\ errors < MaxErrors /\ errors' = errors + 1
  /\ phase \in {"ran", "adding", "stored"} /\ adding = {}
  /\ job' = [j \in Rows |-> IF job[j].state = "running" THEN Retried(j) ELSE job[j]]
  /\ redone' = redone \cup CrashesOf(accepted)
  /\ EndBatch
  /\ UNCHANGED <<untested, bucketed, listed, reporting, known, refused, povs, triaged, restarts>>

\* WorkDesc.timeout: the job gives up, its batch goes on.
TimesOut(j) ==
  /\ errors < MaxErrors /\ errors' = errors + 1
  /\ j \in JobsThatAre("running")
  /\ job' = [job EXCEPT ![j] = Retried(j)]
  /\ redone' = redone \cup {job[j].crash}
  /\ UNCHANGED <<untested, bucketed, listed, reporting, known, phase, batch, accepted, adding,
                 refused, povs, triaged, restarts>>

\* CorpusManager.init reads the lists from the directories.
Restart ==
  /\ restarts < MaxRestarts /\ restarts' = restarts + 1
  /\ job' = [j \in Rows |-> IF job[j].state = "running" THEN [job[j] EXCEPT !.state = "queued"]
                            ELSE job[j]]
  /\ \E written \in SUBSET adding : bucketed' = bucketed \cup CrashesOf(written)
  /\ listed' = [b \in Buckets |-> Cardinality(Bucket(b)')]
  /\ reporting' = {} /\ known' = {}
  /\ redone' = redone \cup CrashesOf(accepted)
  /\ EndBatch
  /\ UNCHANGED <<untested, refused, povs, triaged, errors>>

Next ==
  \/ \E c \in Crashes : WriteCrash(c) \/ ReportCrash(c) \/ SubmitTriage(c)
  \/ \E j \in Jobs : AddCrash(j) \/ TimesOut(j)
  \/ TakeBatch \/ Look \/ AddPovs \/ Unlink \/ Answer \/ BatchFails \/ Restart
CrashesSpec == Init /\ [][Next]_crashVars

(***************************************************************************)
(* Properties.                                                             *)
(***************************************************************************)
\* No file, row or job of a crash that another does not come from.
InOrder == triaged \subseteq povs /\ povs \subseteq bucketed

\* A crash whose job is done was triaged, unless it does not crash or its bucket was full; a
\* failure or restart between the file in the bucket, the row and the job loses none.
DoneIsTriaged ==
  \A j \in JobsThatAre("done") :
    job[j].crash \in Real => job[j].crash \in triaged \cup refused

\* No more than a batch too many are kept in a bucket, though its list may hold one twice.
BucketsAreBounded ==
  \A b \in Buckets : Cardinality(Bucket(b)) < MaxPerBucket + BatchSize

\* Whoever was refused was refused for as many others that are triaged or about to be.  Not
\* so after a restart, or when a job of the bucket ran again: its crash fills the list twice.
Undisturbed(b) == restarts = 0 /\ \A c \in redone : BucketOf[c] # b
RefusedForOthers ==
  \A c \in refused : Undisturbed(BucketOf[c]) =>
    /\ Cardinality(Bucket(BucketOf[c])) >= MaxPerBucket
    /\ Bucket(BucketOf[c]) \subseteq triaged \cup CrashesOf(accepted)

CrashesReachTriage == InOrder /\ DoneIsTriaged /\ BucketsAreBounded /\ RefusedForOthers

\* "note we do NOT delete the crash in this path": an input whose run failed stays on
\* disk.  Unlink removes the files of the whole batch.
FailedRunsStay ==
  phase = "unlinked" => \A j \in Batch : batch[j] = "error" => job[j].crash \in untested
=============================================================================
