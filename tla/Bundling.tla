------------------------------ MODULE Bundling ------------------------------
(***************************************************************************)
(* The bundling workflow of one task: crs/app/app.py (patch_vuln,          *)
(* cluster_pov, maybe_update_bundle, bundle_*, submit_bundle) over         *)
(* products_db.py and submitter.py, against the competition API.           *)
(*                                                                         *)
(* The jobs are durable and run at least once (module WorkDB).  All of     *)
(* them but the polls run under one asyncio.Condition per task; a step     *)
(* here is what lies between two awaits of the holder that write something. *)
(* What a patch, a POV or a SARIF assessment is called stands for its row  *)
(* and for the job that bundles it.  SUBMIT_BUNDLE jobs that wait for their *)
(* turn are counted in pending; those that run have one of the Slots.      *)
(***************************************************************************)
EXTENDS Integers, Sequences, FiniteSets

CONSTANTS
  Vulns,     \* vulnerabilities of the task
  Reported,  \* those a SARIF report was matched with
  Patches, Povs,
  Slots,     \* places of running SUBMIT_BUNDLE jobs, the limit of the work type
  VulnOf,    \* the vulnerability of a patch or POV
  Ratio,     \* UNVERIFIED_PATCH_RATIO
  Delta,     \* the task is a DeltaTask
  Verdicts,  \* what the API may say of an accepted product
  MaxVerdicts, \* bound: attempts that are judged
  MaxTroubles, \* bound: crashes, failing calls of the API and answers that are lost
  None

ASSUME BundlingAssumption ==
  /\ VulnOf \in [Patches \cup Povs -> Vulns]
  /\ Reported \subseteq Vulns
  \* what a name stands for can be told from it
  /\ Vulns \cap (Patches \cup Povs \cup Slots) = {}
  /\ Patches \cap (Povs \cup Slots) = {} /\ Povs \cap Slots = {}
  /\ None \notin Vulns \cup Patches \cup Povs \cup Slots
  /\ IsFiniteSet(Slots)
  /\ Ratio \in Nat /\ Delta \in BOOLEAN
  /\ Verdicts \subseteq {"passed", "failed", "errored", "deadline_exceeded"}
  /\ MaxVerdicts \in Nat /\ MaxTroubles \in Nat

Products == Vulns \cup Patches \cup Povs
Jobs == Products \cup Slots

VARIABLES
  pc, pending,      \* the jobs; the submit jobs of a vulnerability that wait
  target,           \* the vulnerability of a running submit job
  ended,            \* the job that ended last, while its end may not be on disk
  lock, step, work, \* who holds the condition, where it is, its local variables
  fixes,            \* the pairs <<patch, pov>> whose test succeeds: never changes
  verified,         \* patches that were made from a POV (pov_verified)
  results,          \* table patch_results, by its keys
  bundle,           \* table bundles: patch, pov, sarif, sent (submission_id, 0: NULL)
  sub, saved,       \* submission_id of a product (0: NULL), and its committed value
  row,              \* table submissions, with the attempts whose answer never came
  count,            \* the counters of bundled patches
  made,             \* the API: what became of each bundle it was given
  polls, polled,    \* the polls of a submit job; "polling"
  troubles,         \* crashes and failing calls so far
  clears, missed    \* history: cleared submissions, a crash before the submit job

tests == <<fixes, verified, results>>
tables == <<tests, bundle, sub, saved, row, count>>
history == <<clears, missed>>
submits == <<pending, target, polls, polled>>
jobs == <<pc, submits>>
holder == <<ended, lock, step, work>>
vars == <<jobs, holder, tables, made, troubles, history>>

\* own: the POVs of the vulnerability when the job last read them.
Idle == [draft |-> None, resubmit |-> FALSE, seen |-> {}, own |-> {}, todo |-> {}]
Empty == [patch |-> None, pov |-> None, sarif |-> FALSE, sent |-> 0]

Vuln(j) == CASE j \in Slots -> target[j] [] j \in Vulns -> j [] OTHER -> VulnOf[j]
\* The rows of the tables, and those of a vulnerability: a POV is added before it has one.
Known(S) == {x \in S : pc[x] # "absent"}
Of(v, S) == {x \in Known(S) : VulnOf[x] = v /\ pc[x] # "found"}
StatusOf(x) ==
  IF x = None THEN "none" ELSE IF sub[x] = 0 THEN "none" ELSE row[x][sub[x]]
Submittable(x) == StatusOf(x) \in {"none", "accepted", "passed"}
Refuting(p) == {q \in Of(VulnOf[p], Povs) : <<p, q>> \in results \ fixes}
Refuted(p) == Refuting(p) # {}

\* What a bundle submits; submit_bundle takes the patch first and the SARIF assessment last.
Content(v) ==
  LET b == bundle[v] IN ({b.patch, b.pov} \ {None}) \cup (IF b.sarif THEN {v} ELSE {})
First(S) ==
  LET kind == IF S \cap Patches # {} THEN Patches ELSE IF S \cap Povs # {} THEN Povs ELSE Vulns
  IN CHOOSE x \in S \cap kind : TRUE

-----------------------------------------------------------------------------
Init ==
  /\ pc = [j \in Jobs |-> IF j \in Slots THEN "free" ELSE "absent"]
  /\ target = [s \in Slots |-> None] /\ pending = [v \in Vulns |-> 0]
  /\ ended = None /\ lock = None /\ step = "none" /\ work = Idle
  /\ fixes \in SUBSET (Patches \X Povs)
  /\ verified = {} /\ results = {}
  /\ bundle = [v \in Vulns |-> Empty]
  /\ sub = [x \in Products |-> 0] /\ saved = sub
  /\ row = [x \in Products |-> <<>>]
  /\ count = [tested |-> 0, untested |-> 0, failed |-> 0]
  /\ made = [v \in Vulns |-> <<>>]
  /\ polls = [s \in Slots |-> {}] /\ polled = [s \in Slots |-> FALSE]
  /\ troubles = 0
  /\ clears = [x \in Products |-> 0] /\ missed = FALSE

\* patch_vuln read the POVs of the vulnerability before it called the agent.
StorePatch(p) ==
  /\ pc[p] = "absent"
  /\ pc' = [pc EXCEPT ![p] = "stored"]
  /\ \/ UNCHANGED verified
     \/ Of(VulnOf[p], Povs) # {} /\ verified' = verified \cup {p}
  /\ saved' = sub
  /\ UNCHANGED <<submits, holder, fixes, results, bundle, sub, row, count, made, troubles,
                 history>>

\* add_povs, and once it is triaged cluster_pov: assign_vuln_to_pov
AddPov(q) ==
  /\ pc[q] = "absent"
  /\ pc' = [pc EXCEPT ![q] = "found"]
  /\ saved' = sub
  /\ UNCHANGED <<submits, holder, tests, bundle, sub, row, count, made, troubles, history>>
AssignPov(q) ==
  /\ pc[q] = "found"
  /\ pc' = [pc EXCEPT ![q] = "stored"]
  /\ saved' = sub
  /\ UNCHANGED <<submits, holder, tests, bundle, sub, row, count, made, troubles, history>>

\* The job of a stored product is submitted; that of a SARIF report needs no row.
SubmitProduct(x) ==
  /\ x \in Vulns => x \in Reported
  /\ pc[x] = IF x \in Vulns THEN "absent" ELSE "stored"
  /\ pc' = [pc EXCEPT ![x] = IF x \in Patches \ verified THEN "delayed" ELSE "ready"]
  /\ UNCHANGED <<submits, holder, tables, made, troubles, history>>

\* bundle_patch_no_pov: the delay is over or a POV was seen, with the condition in hand.
DelayOver(p) ==
  /\ p \in Patches /\ pc[p] = "delayed" /\ lock = None
  /\ pc' = [pc EXCEPT ![p] = "ready"]
  /\ UNCHANGED <<submits, holder, tables, made, troubles, history>>

-----------------------------------------------------------------------------
Hold(j, s, w) ==
  /\ lock' = j /\ step' = s /\ work' = w /\ ended' = None
  /\ pc' = [pc EXCEPT ![j] = "holding"]

Continue(j, s, w) ==
  step' = s /\ work' = w /\ UNCHANGED <<jobs, ended, lock, troubles>>

\* A job that ends; a submit job leaves its slot.
After(j) == IF j \in Slots THEN "free" ELSE "done"
Without(f, j) == [s \in Slots |-> IF s = j THEN None ELSE f[s]]

Finish(j) ==
  /\ lock' = None /\ step' = "none" /\ work' = Idle
  /\ pc' = [pc EXCEPT ![j] = After(j)]
  /\ target' = Without(target, j) /\ ended' = IF j \in Products THEN j ELSE None
  /\ UNCHANGED <<pending, polls, polled, troubles>>

\* bundle_patch holds back a patch that no POV can confirm.
MustWait(p) ==
  /\ ~Delta /\ p \notin verified
  /\ Of(VulnOf[p], Povs) = {}
  /\ (count.tested - count.failed) * Ratio <= count.untested

EnterPatch(p) ==
  /\ p \in Patches /\ pc[p] = "ready" /\ lock = None
  /\ IF MustWait(p)
     THEN pc' = [pc EXCEPT ![p] = "waiting"] /\ UNCHANGED <<holder>>
     ELSE Hold(p, "testing", [Idle EXCEPT !.seen = Known(Povs), !.own = Of(VulnOf[p], Povs)])
  /\ UNCHANGED <<submits, tables, made, troubles, history>>

EnterPov(q) ==
  /\ q \in Povs /\ pc[q] = "ready" /\ lock = None
  /\ Hold(q, "testing", [Idle EXCEPT !.seen = Known(Patches)])
  /\ UNCHANGED <<submits, tables, made, troubles, history>>

\* bundle_sarif, and the end of a submit_bundle that was polling
EnterReview(j) ==
  /\ lock = None
  /\ \/ j \in Vulns /\ pc[j] = "ready"
     \/ j \in Slots /\ pc[j] = "polling" /\ polls[j] = {}
  /\ Hold(j, "review", Idle)
  /\ UNCHANGED <<submits, tables, made, troubles, history>>

\* Mutant: a patch that was made from a POV is taken to be tested.
TestsOfUnverified(j) ==
  IF j \in Patches THEN ({j} \ verified) \X work.seen ELSE work.seen \X {j}

\* test_povs_on_patches, add_patch_results
Tests(j) == IF j \in Patches THEN {j} \X work.seen ELSE work.seen \X {j}
FailsOwn(j) ==
  /\ j \in Patches
  /\ \E q \in work.own : <<j, q>> \notin fixes

Test(j) ==
  /\ lock = j /\ step = "testing"
  /\ results' = results \cup Tests(j)
  /\ saved' = sub
  /\ IF FailsOwn(j)
     THEN Finish(j)
     ELSE Continue(j, "review", Idle)
  /\ UNCHANGED <<fixes, verified, bundle, sub, row, count, made, history>>

-----------------------------------------------------------------------------
Resubmit(errored) == errored # {}

\* maybe_update_bundle, in four parts: drop what failed and clear what errored ...
Review(j) ==
  LET b == bundle[Vuln(j)]
      errored == {x \in {b.patch, b.pov} : StatusOf(x) = "errored"}
      patch == IF StatusOf(b.patch) = "failed" THEN None ELSE b.patch
      pov == IF StatusOf(b.pov) = "failed" THEN None ELSE b.pov
  IN /\ lock = j /\ step = "review"
     /\ count' = [count EXCEPT !.failed = @ + IF patch # b.patch THEN 1 ELSE 0]
     /\ saved' = sub \* get_or_create_bundle commits; what is cleared is not
     /\ sub' = [x \in Products |-> IF x \in errored THEN 0 ELSE sub[x]]
     /\ clears' = [x \in Products |-> clears[x] + IF x \in errored THEN 1 ELSE 0]
     /\ Continue(j, "choose", [Idle EXCEPT !.resubmit = Resubmit(errored),
                                 !.draft = [b EXCEPT !.patch = patch, !.pov = pov]])
     /\ UNCHANGED <<tests, bundle, row, made, missed>>

\* Mutant: the patch that the bundle has stays while it can be submitted.
KeepPatch(v, p) ==
  LET good == {g \in Of(v, Patches) : Submittable(g)}
  IN IF p \in good THEN {p} ELSE {g \in good : ~Refuted(g)} \cup {None}

\* ... choose a patch, a POV and the report, and count ...
NextPatch(v, p) ==
  LET good == {g \in Of(v, Patches) : Submittable(g) /\ ~Refuted(g)}
  IN IF p \in good THEN {p} ELSE IF good # {} THEN good ELSE {None}
NextPov(v, q) ==
  LET good == {g \in Of(v, Povs) : Submittable(g)}
  IN IF q = None /\ good # {} THEN good ELSE {q}

Choose(j) ==
  LET v == Vuln(j) IN
  /\ lock = j /\ step = "choose"
  /\ \E p \in NextPatch(v, work.draft.patch), q \in NextPov(v, work.draft.pov) :
       LET b == [work.draft EXCEPT !.patch = p, !.pov = q, !.sarif = @ \/ j \in Vulns]
           kind == IF q # None THEN "tested" ELSE "untested"
       IN IF b # bundle[v]
          THEN /\ count' = IF p = None THEN count ELSE [count EXCEPT ![kind] = @ + 1]
               /\ Continue(j, "update", [work EXCEPT !.draft = b, !.own = Of(v, Povs)])
          ELSE /\ UNCHANGED count
               /\ IF work.resubmit THEN Continue(j, "enqueue", work) ELSE Finish(j)
  /\ UNCHANGED <<tests, bundle, sub, saved, row, made, history>>

\* ... write the bundle ...
Update(j) ==
  /\ lock = j /\ step = "update"
  /\ bundle' = [bundle EXCEPT ![Vuln(j)] = work.draft]
  /\ saved' = sub
  /\ Continue(j, "enqueue", work)
  /\ UNCHANGED <<tests, sub, row, count, made, history>>

\* ... and submit a job for it.  Only bundle_pov and bundle_patch notify.
Told(j) == IF j \in Patches \cup Povs THEN {p \in Patches : pc[p] = "waiting"} ELSE {}

Enqueue(j) ==
  /\ lock = j /\ step = "enqueue"
  /\ lock' = None /\ step' = "none" /\ work' = Idle
  /\ pending' = [pending EXCEPT ![Vuln(j)] = @ + 1]
  /\ pc' = [k \in Jobs |-> IF k = j THEN After(j) ELSE IF k \in Told(j) THEN "ready" ELSE pc[k]]
  /\ target' = Without(target, j) /\ ended' = IF j \in Products THEN j ELSE None
  /\ UNCHANGED <<polls, polled, tables, made, troubles, history>>

-----------------------------------------------------------------------------
\* submit_bundle, once the API answers a ping: what needs a POST or a poll is read at once.
EnterSubmit(s, v) ==
  /\ lock = None /\ pending[v] > 0
  /\ pending' = [pending EXCEPT ![v] = @ - 1]
  /\ target' = [target EXCEPT ![s] = v]
  /\ LET Pending(x) == \/ StatusOf(x) = "none"
                       \/ x \notin Vulns /\ StatusOf(x) = "accepted"
     IN Hold(s, "submit", [Idle EXCEPT !.draft = sub,
                                       !.todo = {x \in Content(v) : Pending(x)}])
  /\ saved' = sub
  /\ UNCHANGED <<polls, polled, tests, bundle, sub, row, count, made, troubles, history>>

Submitting(s) == s \in Slots /\ lock = s /\ step = "submit"
Next1 == First(work.todo)
Rest == [work EXCEPT !.todo = @ \ {Next1}]

\* The POST is a step, its answer another; between them the process may die.
Post(s) ==
  /\ Submitting(s) /\ work.todo # {} /\ work.draft[Next1] = 0
  /\ row' = [row EXCEPT ![Next1] = Append(@, "unknown")]
  /\ Continue(s, "record", work)
  /\ UNCHANGED <<tests, bundle, sub, saved, count, made, history>>

StartPoll(s, x, n) ==
  /\ polls' = [polls EXCEPT ![s] = IF x \in Vulns THEN @ ELSE @ \cup {<<x, n>>}]
  /\ polled' = [polled EXCEPT ![s] = @ \/ x \notin Vulns]

\* Mutant: the row is written, the product does not point at it.
PutRow(x, n, status) ==
  /\ row' = [row EXCEPT ![x][n] = status]
  /\ saved' = sub
  /\ UNCHANGED sub

\* put_submission: one transaction, on the connection of every other write
Put(x, n, status) ==
  /\ row' = [row EXCEPT ![x][n] = status]
  /\ sub' = [sub EXCEPT ![x] = n]
  /\ saved' = sub'

Record(s) ==
  LET x == Next1 IN
  /\ lock = s /\ step = "record"
  /\ Put(x, Len(row[x]), "accepted")
  /\ StartPoll(s, x, Len(row[x]))
  /\ step' = "submit" /\ work' = Rest
  /\ UNCHANGED <<pc, pending, target, ended, lock, tests, bundle, count, made, troubles,
                 history>>

\* A product that an earlier job submitted and that has no verdict yet.
PollAgain(s) ==
  /\ Submitting(s) /\ work.todo # {} /\ work.draft[Next1] # 0
  /\ StartPoll(s, Next1, work.draft[Next1])
  /\ work' = Rest
  /\ UNCHANGED <<pc, pending, target, ended, lock, step, tables, made, troubles, history>>

\* A bundle needs two products.
Enough(s) == Cardinality(Content(target[s])) >= 2
AtBundle(s) == Submitting(s) /\ work.todo = {}
Leave(s) ==
  IF polled[s]
  THEN /\ lock' = None /\ step' = "none" /\ work' = Idle
       /\ pc' = [pc EXCEPT ![s] = "polling"]
       /\ polled' = [polled EXCEPT ![s] = FALSE]
       /\ UNCHANGED <<pending, target, ended, polls, troubles>>
  ELSE Finish(s)

CreateBundle(s) ==
  /\ AtBundle(s) /\ Enough(s) /\ bundle[target[s]].sent = 0
  /\ made' = [made EXCEPT ![target[s]] = Append(@, "posted")]
  /\ Continue(s, "created", work)
  /\ UNCHANGED <<tables, history>>

\* get_bundle, put_submission
RecordBundle(s) ==
  /\ lock = s /\ step = "created"
  /\ bundle' = [bundle EXCEPT ![target[s]].sent = Len(made[target[s]])]
  /\ saved' = sub
  /\ made' = [made EXCEPT ![target[s]][Len(made[target[s]])] = "recorded"]
  /\ Leave(s)
  /\ UNCHANGED <<tests, sub, row, count, history>>

\* The polls are tasks of the job's TaskGroup and end with it.
PollsWithout(j) == [s \in Slots |-> IF s = j THEN {} ELSE polls[s]]

\* Dropping a job's coroutine: its polls go with it, it runs again from the start.
Restart(j) ==
  /\ pc' = [pc EXCEPT ![j] = IF j \in Slots THEN "free" ELSE "ready"]
  /\ pending' = [v \in Vulns |-> pending[v] + IF j \in Slots /\ target[j] = v THEN 1 ELSE 0]
  /\ target' = Without(target, j)
  /\ polls' = PollsWithout(j)
  /\ polled' = [s \in Slots |-> IF s = j THEN FALSE ELSE polled[s]]
  /\ IF lock = j
     THEN lock' = None /\ step' = "none" /\ work' = Idle
     ELSE UNCHANGED <<lock, step, work>>
  /\ UNCHANGED <<ended, tables, made, history>>

\* Submitter.update_bundle names the row of the bundle to the API, which does not know it.
UpdateBundle(s) ==
  /\ AtBundle(s) /\ Enough(s) /\ bundle[target[s]].sent # 0
  /\ Restart(s)
  /\ UNCHANGED troubles

DeleteBundle(s) ==
  /\ AtBundle(s) /\ ~Enough(s) /\ bundle[target[s]].sent # 0
  /\ IF made[target[s]][bundle[target[s]].sent] = "deleted"
     THEN Restart(s) /\ UNCHANGED troubles
     ELSE /\ made' = [made EXCEPT ![target[s]][bundle[target[s]].sent] = "deleted"]
          /\ Continue(s, "deleted", work)
          /\ UNCHANGED <<tables, history>>

ForgetBundle(s) ==
  /\ lock = s /\ step = "deleted"
  /\ bundle' = [bundle EXCEPT ![target[s]].sent = 0]
  /\ saved' = sub
  /\ Leave(s)
  /\ UNCHANGED <<tests, sub, row, count, made, history>>

NoBundle(s) ==
  /\ AtBundle(s) /\ ~Enough(s) /\ bundle[target[s]].sent = 0
  /\ Leave(s)
  /\ UNCHANGED <<tables, made, history>>

\* External: the competition judges an attempt, once; when, only the polls can tell.
Given == UNION {{x} \X {n \in 1..Len(row[x]) : row[x][n] \in Verdicts} : x \in Products}
Judged(x, n) ==
  IF row[x][n] # "accepted" THEN {row[x][n]}
  ELSE {verdict \in Verdicts : Cardinality(Given) < MaxVerdicts}

\* poll_patch, poll_pov: the answer is a verdict, and is put.
PollDone(s) ==
  \E poll \in polls[s] : LET x == poll[1] n == poll[2] IN
    \E verdict \in Judged(x, n) :
      /\ Put(x, n, verdict)
      /\ polls' = [polls EXCEPT ![s] = @ \ {poll}]
      /\ UNCHANGED <<pc, pending, target, polled, holder, tests, bundle, count, made, troubles,
                     history>>

-----------------------------------------------------------------------------
\* A waiting job reaches the timeout of its work type and is tried again.
WaitTimeout(p) ==
  /\ p \in Patches /\ pc[p] = "waiting" /\ lock = None
  /\ pc' = [pc EXCEPT ![p] = "ready"]
  /\ UNCHANGED <<submits, holder, tables, made, troubles, history>>

\* A call of the API or of a container fails, or its answer is lost: the job is tried again.
Fault(j) ==
  /\ troubles < MaxTroubles /\ troubles' = troubles + 1
  /\ \/ lock = j /\ step \in {"testing", "submit", "record", "created", "deleted"}
     \/ j \in Slots /\ polls[j] # {}
  /\ Restart(j)

\* patch_vuln makes another patch; triage assigns the POV again; a job that ended but whose
\* row was not yet settled runs once more.
Crash ==
  /\ troubles < MaxTroubles /\ troubles' = troubles + 1
  /\ \E again \in {None, ended} :
       pc' = [j \in Jobs |->
         IF j \in Slots THEN "free"
         ELSE IF pc[j] = "stored" /\ j \in Patches THEN "orphan"
         ELSE IF pc[j] \in {"waiting", "holding"} \/ j = again THEN "ready"
         ELSE pc[j]]
  /\ pending' = [v \in Vulns |-> pending[v] + Cardinality({s \in Slots : target[s] = v})]
  /\ target' = [s \in Slots |-> None]
  /\ ended' = None /\ lock' = None /\ step' = "none" /\ work' = Idle
  /\ polls' = [s \in Slots |-> {}] /\ polled' = [s \in Slots |-> FALSE]
  /\ sub' = saved
  /\ missed' = (missed \/ (lock \in Products /\ step \in {"choose", "update", "enqueue"}))
  /\ UNCHANGED <<tests, bundle, saved, row, count, made, clears>>

-----------------------------------------------------------------------------
HolderStep(j) ==
  \/ Test(j) \/ Review(j) \/ Choose(j) \/ Update(j) \/ Enqueue(j)
  \/ Post(j) \/ Record(j) \/ PollAgain(j)
  \/ CreateBundle(j) \/ RecordBundle(j) \/ UpdateBundle(j)
  \/ DeleteBundle(j) \/ ForgetBundle(j) \/ NoBundle(j)

Enter(j) == EnterPatch(j) \/ EnterPov(j) \/ EnterReview(j)
FreeSlots == {s \in Slots : pc[s] = "free"}
EnterAny(v) == FreeSlots # {} /\ EnterSubmit(CHOOSE s \in FreeSlots : TRUE, v)

Next ==
  \/ \E p \in Patches : StorePatch(p) \/ DelayOver(p) \/ WaitTimeout(p)
  \/ \E q \in Povs : AddPov(q) \/ AssignPov(q)
  \/ \E x \in Products : SubmitProduct(x)
  \/ \E j \in Jobs : Enter(j) \/ HolderStep(j) \/ Fault(j)
  \/ \E v \in Vulns : EnterAny(v)
  \/ \E s \in Slots : PollDone(s)
  \/ Crash

Spec == Init /\ [][Next]_vars

-----------------------------------------------------------------------------
Status == {"accepted", "passed", "failed", "errored", "deadline_exceeded"}
Steps == {"none", "testing", "review", "choose", "update", "enqueue", "submit", "record",
          "created", "deleted"}

TypeOK ==
  /\ pc \in [Jobs -> {"absent", "found", "stored", "orphan", "free", "delayed", "ready", "waiting",
                      "holding", "polling", "done"}]
  /\ target \in [Slots -> Vulns \cup {None}] /\ polled \in [Slots -> BOOLEAN]
  /\ pending \in [Vulns -> Nat] /\ ended \in Products \cup {None}
  /\ lock \in Jobs \cup {None} /\ step \in Steps
  /\ verified \subseteq Patches /\ results \subseteq Patches \X Povs
  /\ \A v \in Vulns : bundle[v] \in [patch : Patches \cup {None}, pov : Povs \cup {None},
                                     sarif : BOOLEAN, sent : 0..Len(made[v])]
  /\ \A x \in Products :
       /\ row[x] \in Seq(Status \cup {"unknown"})
       /\ {sub[x], saved[x]} \subseteq 0..Len(row[x])
  /\ count \in [tested : Nat, untested : Nat, failed : Nat]

\* TypeOK, and: one job at a time has the condition; every product points at an attempt whose
\* answer was recorded; only submit jobs that hold the condition or poll have polls, each of an
\* attempt of their vulnerability.
Consistent ==
  /\ TypeOK
  /\ \A j \in Jobs : pc[j] = "holding" <=> lock = j
  /\ lock = None <=> step = "none"
  /\ \A x \in Products : \A n \in {sub[x], saved[x]} \ {0} : row[x][n] # "unknown"
  /\ \A s \in Slots : \A poll \in polls[s] :
       pc[s] \in {"holding", "polling"} /\ Vuln(poll[1]) = target[s]

\* Nothing is submitted twice without a reason: of the attempts whose answers came, all but one
\* were cleared as errored, and the API has no bundle but the recorded one and those whose
\* answers were lost (submit_bundle, Submitter).
SubmissionsAccounted ==
  /\ \A x \in Products :
       Cardinality({n \in 1..Len(row[x]) : row[x][n] # "unknown"}) <= 1 + clears[x]
  /\ \A v \in Vulns : \A n \in 1..Len(made[v]) :
       made[v][n] = "recorded" => n = bundle[v].sent

\* Whichever of a patch and a POV comes first, and whatever crashes: when the jobs of both are
\* done the patch has been tested against the POV (bundle_pov, bundle_patch).
NoPairUntested ==
  \A p \in Patches, q \in Povs : pc[p] = "done" /\ pc[q] = "done" => <<p, q>> \in results

\* What maybe_update_bundle writes never holds a patch that is known to leave a POV of its
\* vulnerability unfixed, although the choice and the write are separate steps: but for a POV
\* that was tested before it had a vulnerability and was given this one after the choice
\* (cluster_pov does not take the condition); then its own job, which reviews the bundle, is
\* still to come.
BundlesAreVetted ==
  [][\A v \in Vulns : bundle'[v] # bundle[v] /\ bundle'[v].sent = bundle[v].sent
                         /\ bundle'[v].patch # None =>
       \A q \in Refuting(bundle'[v].patch) :
         q \notin work.own /\ pc[q] \in {"stored", "ready"}]_vars

\* A product that a bundle has and that is not submitted has a job that will submit it, through
\* failed calls, lost answers and crashes; except when the process dies while a job other than
\* a submit job is between clearing or writing the bundle and the submission of that job.
ProductsHaveJobs ==
  \A v \in Vulns : \A x \in Content(v) :
    sub[x] = 0 /\ ~missed =>
      \/ pending[v] > 0
      \/ /\ lock # None /\ Vuln(lock) = v
         /\ \/ step = "enqueue"
            \/ step \in {"choose", "update"} /\ work.resubmit
            \/ step \in {"submit", "record"} /\ x \in work.todo

\* The rows, the condition and the polls agree, and no attempt is unaccounted for.
Accounted == Consistent /\ SubmissionsAccounted

\* Nothing is left undone: neither a test of a patch nor a submission waits for a job that
\* will never come.
NothingLeftUndone == NoPairUntested /\ ProductsHaveJobs

\* The comment of submit_bundle (crs/app/app.py:1671): "our bundling logic is responsible for limiting
\* what is available so if we see it, then it is ready to submit".  The patch that is posted
\* has not failed the test against a POV of its vulnerability.
ReadyToSubmit ==
  [][\A p \in Patches : Len(row'[p]) > Len(row[p]) => ~Refuted(p)]_vars
=============================================================================
