------------------------------- MODULE Pipeline -------------------------------
(***************************************************************************)
(* From reports and crashes to vulnerabilities, POVs and patches: the jobs *)
(* of crs/app/app.py between the analyses and the bundling workflow, over  *)
(* the tables reports, vulns and povs of products_db.py.                   *)
(*                                                                         *)
(* Jobs are durable and run at least once (module WorkDB): a job that      *)
(* fails is queued again until its attempts are used up, a crash queues    *)
(* every running job again.  A step lies between two awaits that other     *)
(* jobs can see; todo holds the jobs a gather() has still to submit.  What *)
(* an agent answers is chosen freely, but the deduplication is taken to be *)
(* right about the vulnerabilities it was shown.                           *)
(***************************************************************************)
EXTENDS Integers, Sequences, FiniteSets

CONSTANTS
  Bugs,        \* root causes
  Stacked,     \* those whose crashes leave a stack trace, always the same
  None,
  Launches,    \* what a behaviour may start with: jobs, a subset of Sources; the number
               \* of places of running jobs; a bound on crashes and failing awaits
  Attempts,    \* WorkDesc.attempts of a kind of job
  ExtraPovs,   \* EXTRA_POV_COUNT
  Patching,    \* ~ROBODUCK_MODE
  MaxReports, MaxPovs  \* bounds: rows of reports and of povs

Sources == {"launch", "diff", "sarif", "crash"}
Kinds == Sources \cup {"score", "analyze", "produce", "hint", "triage"}
\* patch_vuln and the jobs of the bundling workflow are module Bundling's matter.
Elsewhere == {"patch", "bundle_pov", "bundle_sarif"}
Jobs == [kind : Kinds \cup Elsewhere, of : Nat, expected : Nat, tries : Nat]

PipelineAssumption ==
  /\ Bugs # {} /\ None \notin Bugs \cup Jobs \cup Nat /\ Stacked \subseteq Bugs
  /\ Launches \subseteq [jobs : SUBSET Sources, places : Nat \ {0}, faults : Nat]
  /\ Patching \in BOOLEAN
  /\ Attempts \in [Kinds -> Nat \ {0}] /\ {ExtraPovs, MaxReports, MaxPovs} \subseteq Nat

VARIABLES
  reports,   \* table reports: what is really behind one (None: nothing), and if a SARIF is
  vulns,     \* table vulns: the bug of each
  povs,      \* table povs: the bug and vuln_id (0: NULL)
  waiting,   \* the bag of jobs that are queued: how often each of them is
  running,   \* what each place runs
  dupeLock,  \* dupe_locks[task]
  failures,  \* counters ProducePov(v)
  extras,    \* counters ExtraProducePov(v)
  triaged,   \* whether the fuzzer's crash is known (is_new)
  sent,      \* history: the kind and object of every job submitted
  again,     \* history: <<n, m>> for each retry of n because m came out, with its number
  dropped,   \* history: jobs whose submission a fault cut off
  gaveUp,    \* history: kind and object of the jobs that used up their attempts
  faults     \* how many are to come at most

tables == <<reports, vulns, povs>>
counters == <<failures, extras>>
pipeVars == <<tables, waiting, running, dupeLock, counters, triaged, sent, again, dropped,
              gaveUp, faults>>

Workers == DOMAIN running
Ids == 1..Cardinality(Bugs)
Job(kind, of) == [kind |-> kind, of |-> of, expected |-> 0, tries |-> 0]
Name(j) == <<j.kind, j.of>>
Free == [job |-> None, at |-> "free", bug |-> None, vuln |-> 0, seen |-> 0, todo |-> {}, next |-> "end"]
Started(j) == [Free EXCEPT !.job = j, !.at = "start"]
Busy == {w \in Workers : running[w].job # None}

Init ==
  /\ reports = <<>> /\ vulns = <<>> /\ povs = <<>>
  /\ \E L \in Launches :
       /\ waiting = [j \in {Job(k, 0) : k \in L.jobs} |-> 1]
       /\ running = [w \in 1..L.places |-> Free] /\ faults = L.faults
  /\ dupeLock = None
  /\ failures = [v \in Ids |-> 0] /\ extras = [v \in Ids |-> 0]
  /\ triaged = FALSE
  /\ sent = {} /\ again = {} /\ dropped = {} /\ gaveUp = {}

-----------------------------------------------------------------------------
\* The tables of products_db.py.  Ids count up from the largest there is (get_counter).
NextId(table) == Len(table) + 1

AddReport(b, ofSarif) ==
  Len(reports) < MaxReports /\ reports' = Append(reports, [bug |-> b, sarif |-> ofSarif])
GetReport(id) == reports[id]

AddVuln(b) == vulns' = Append(vulns, b)
KnownVulns == Len(vulns)  \* get_vulns_for_task: all of them, the last one has this id

AddPovs(b) == povs' = Append(povs, [bug |-> b, vuln |-> 0])
GetPov(id) == povs[id]
AssignVulnToPov(p, v) == povs' = [povs EXCEPT ![p].vuln = v]

\* The POVs that get_vuln_for_stacktrace may find: any with this stack and a vulnerability.
WithStack(b) == {q \in DOMAIN povs : povs[q].vuln # 0 /\ povs[q].bug = b /\ b \in Stacked}

-----------------------------------------------------------------------------
\* The bag of jobs that are queued: one more of each of the jobs J, one less of j.
Times(j, bag) == IF j \in DOMAIN bag THEN bag[j] ELSE 0
With(bag, J) == [j \in DOMAIN bag \cup J |-> Times(j, bag) + (IF j \in J THEN 1 ELSE 0)]
Without(bag, j) ==
  [i \in {i \in DOMAIN bag : i = j => bag[i] > 1} |-> IF i = j THEN bag[i] - 1 ELSE bag[i]]

\* Steps of any job.  A job counts as queued until it has done something others can
\* see; places are alike, and it takes the first free one.
Starts(w, j, kinds) ==
  /\ j.kind \in kinds
  /\ w \notin Busy /\ \A u \in 1..(w - 1) : u \in Busy

Begin(w, j, r) ==
  /\ running' = [running EXCEPT ![w] = r]
  /\ waiting' = Without(waiting, j)
  /\ UNCHANGED <<triaged, sent, dropped, gaveUp, faults>>

Move(w, r) ==
  /\ running' = [running EXCEPT ![w] = r]
  /\ UNCHANGED <<waiting, triaged, sent, dropped, gaveUp, faults>>

\* Go on to submit the jobs J, then to the step next.
ToSubmit(r, J, next) == [r EXCEPT !.at = "submit", !.todo = J, !.next = next]

Submit(w) ==
  /\ running[w].at = "submit"
  /\ \E j \in running[w].todo :
       /\ running' = [running EXCEPT ![w].todo = @ \ {j}]
       /\ waiting' = IF j.kind \in Elsewhere THEN waiting ELSE With(waiting, {j})
       /\ sent' = sent \cup {Name(j)}
  /\ UNCHANGED <<tables, dupeLock, counters, triaged, again, dropped, gaveUp, faults>>

Submitted(w, nexts) == running[w].at = "submit" /\ running[w].todo = {} /\ running[w].next \in nexts
Ended(w) == Move(w, Free) /\ UNCHANGED <<tables, dupeLock, counters, again>>
End(w) == Submitted(w, {"end", "more"}) /\ Ended(w)

\* A job that failed is queued again while it has attempts left.
Failed(w) ==
  LET j == running[w].job IN
    /\ running' = [running EXCEPT ![w] = Free]
    /\ IF j.tries + 1 < Attempts[j.kind]
       THEN waiting' = With(waiting, {[j EXCEPT !.tries = @ + 1]}) /\ UNCHANGED gaveUp
       ELSE gaveUp' = gaveUp \cup {Name(j)} /\ UNCHANGED waiting
    /\ dupeLock' = IF dupeLock = w THEN None ELSE dupeLock
    /\ dropped' = dropped \cup {Name(i) : i \in running[w].todo}

Retry(w) ==
  /\ Submitted(w, {"fail"}) /\ Failed(w)
  /\ UNCHANGED <<tables, counters, triaged, sent, again, faults>>

-----------------------------------------------------------------------------
\* launch_infer, launch_ainalysis: a report, and a job that scores it.
Report(w, j) ==
  /\ Starts(w, j, {"launch"})
  /\ \E b \in Bugs \cup {None} : AddReport(b, FALSE)
  /\ Begin(w, j, ToSubmit(Started(j), {Job("score", NextId(reports))}, "end"))
  /\ UNCHANGED <<vulns, povs, dupeLock, counters, again>>

\* score_vuln: above both thresholds or not
Score(w, j) ==
  /\ Starts(w, j, {"score"})
  /\ \E J \in SUBSET {Job("analyze", j.of)} : Begin(w, j, ToSubmit(Started(j), J, "end"))
  /\ UNCHANGED <<tables, dupeLock, counters, again>>

\* launch_sarif, once its first pass is over.
ReportSarif(w) ==
  /\ running[w].at = "report" /\ AddReport(running[w].bug, TRUE)
  /\ Move(w, ToSubmit(running[w], {Job("analyze", NextId(reports))}, "end"))
  /\ UNCHANGED <<vulns, povs, dupeLock, counters, again>>

-----------------------------------------------------------------------------
\* dedupe_vuln: the rows are read with the lock in hand, then an agent is asked.
Deduping(r, b) == [r EXCEPT !.at = "deduping", !.bug = b, !.seen = KnownVulns]

\* Mutant: no lock.
Unguarded == TRUE
Unlocked == dupeLock = None

Enter(w) ==
  Unlocked /\ dupeLock' = w /\ UNCHANGED <<tables, counters, again>>

\* analyze_vuln accepts a report; the first pass of launch_sarif; analyze_diff found a bug.
Accept(w, j) ==
  /\ Starts(w, j, {"analyze"})
  /\ LET b == GetReport(j.of).bug IN b # None /\ Begin(w, j, Deduping(Started(j), b))
  /\ Enter(w)

FirstPass(w, j) ==
  /\ Starts(w, j, {"sarif"})
  /\ \E b \in Bugs : Begin(w, j, Deduping(Started(j), b))
  /\ Enter(w)

AnalyzeDiff(w, j) ==
  /\ Starts(w, j, {"diff"})
  /\ \E b \in Bugs : Begin(w, j, Deduping(Started(j), b))
  /\ Enter(w)

NextOfDiff(w) ==
  /\ Submitted(w, {"more"}) /\ running[w].job.kind = "diff"
  /\ \E b \in Bugs : Move(w, Deduping(running[w], b))
  /\ Enter(w)

\* The end of triage_pov's agent
Blamed(w) ==
  /\ running[w].at = "triage"
  /\ Move(w, Deduping(running[w], GetPov(running[w].job.of).bug))
  /\ Enter(w)

\* handle_analyzed_vuln: what is submitted for a vulnerability that is new ...
Follow(j, v) ==
  (IF j.kind = "analyze" /\ GetReport(j.of).sarif THEN {Job("bundle_sarif", v)} ELSE {}) \cup
  (IF Patching THEN {Job("patch", v)} ELSE {}) \cup
  (IF j.kind # "triage" THEN {Job("produce", v)} ELSE {})

\* ... and for one that was known: nothing, not even the SARIF report's job.
FollowKnown(j, v) == {}

After(j) == CASE j.kind = "diff" -> "more" [] j.kind = "triage" -> "cluster" [] OTHER -> "end"

Match(r) == {v \in 1..r.seen : vulns[v] = r.bug}

Deduped(w) ==
  LET r == running[w]
      On(v, J) == Move(w, [ToSubmit(r, J, After(r.job)) EXCEPT !.vuln = v])
      new == NextId(vulns)
  IN  /\ r.at = "deduping" /\ r.job.kind # "sarif"
      /\ \/ Match(r) = {} /\ AddVuln(r.bug) /\ On(new, Follow(r.job, new))
         \/ \E v \in Match(r) : On(v, FollowKnown(r.job, v)) /\ UNCHANGED vulns
      /\ dupeLock' = None
      /\ UNCHANGED <<reports, povs, counters, again>>

\* The first pass adds nothing, and its exceptions are caught.
FirstPassed(w) ==
  /\ running[w].at = "deduping" /\ running[w].job.kind = "sarif"
  /\ Move(w, [running[w] EXCEPT !.at = "report"])
  /\ dupeLock' = None
  /\ UNCHANGED <<tables, counters, again>>

-----------------------------------------------------------------------------
\* handle_pov_produce_result, register_crashes: a POV and the job that triages it.
Triage(p, v) == [Job("triage", p) EXCEPT !.expected = v]

AddPov ==
  /\ Len(povs) < MaxPovs
  /\ \E b \in Bugs : AddPovs(b)

Produce(w, j) ==
  /\ Starts(w, j, {"produce", "hint"}) /\ AddPov
  /\ Begin(w, j, ToSubmit(Started(j), {Triage(NextId(povs), j.of)}, "more"))
  /\ UNCHANGED <<reports, vulns, dupeLock, counters, again>>

\* Other agents of the batch may have been done as well.
ProduceMore(w) ==
  /\ Submitted(w, {"more"}) /\ running[w].job.kind = "produce" /\ AddPov
  /\ Move(w, ToSubmit(running[w], {Triage(NextId(povs), running[w].job.of)}, "more"))
  /\ UNCHANGED <<reports, vulns, dupeLock, counters, again>>

\* The second batch that fails schedules a job that waits for a seed.
ProduceFails(w, j) ==
  /\ Starts(w, j, {"produce"})
  /\ failures' = [failures EXCEPT ![j.of] = @ + 1]
  /\ LET J == IF failures[j.of] = 1 THEN {Job("hint", j.of)} ELSE {}
     IN  Begin(w, j, ToSubmit(Started(j), J, "fail"))
  /\ UNCHANGED <<tables, dupeLock, extras, again>>

HintFails(w, j) ==
  /\ Starts(w, j, {"hint"})
  /\ Begin(w, j, ToSubmit(Started(j), {}, "fail"))
  /\ UNCHANGED <<tables, dupeLock, counters, again>>

\* The fuzzer's crash job: a crash that is not new is ignored.
RegisterCrash(w, j) ==
  /\ Starts(w, j, {"crash"}) /\ ~triaged /\ AddPov
  /\ running' = [running EXCEPT ![w] = ToSubmit(Started(j), {Triage(NextId(povs), 0)}, "end")]
  /\ waiting' = Without(waiting, j)
  /\ triaged' = TRUE
  /\ UNCHANGED <<reports, vulns, dupeLock, counters, sent, again, dropped, gaveUp, faults>>

\* Jobs with nothing to do: a report that is rejected, a hint for a vulnerability that
\* has a POV by now, a crash that is known.
Idle(j) ==
  /\ CASE j.kind = "analyze" -> TRUE
       [] j.kind = "hint" -> \E p \in DOMAIN povs : povs[p].vuln = j.of
       [] j.kind = "crash" -> triaged
       [] OTHER -> FALSE
  /\ waiting' = Without(waiting, j)
  /\ UNCHANGED <<tables, running, dupeLock, counters, triaged, sent, again, dropped, gaveUp, faults>>

-----------------------------------------------------------------------------
\* triage_pov: with a stack trace that another POV left, there is nothing to ask.
ByStack(p) == WithStack(GetPov(p).bug)

AskAgent(w, j) ==
  /\ Starts(w, j, {"triage"}) /\ ByStack(j.of) = {}
  /\ Begin(w, j, [Started(j) EXCEPT !.at = "triage"])
  /\ UNCHANGED <<tables, dupeLock, counters, again>>

\* Mutant: a POV that has its vulnerability is not bundled again.
BundledOnce(p) == IF GetPov(p).vuln = 0 THEN {Job("bundle_pov", p)} ELSE {}
Bundled(p) == {Job("bundle_pov", p)}

\* cluster_pov
Other(j, v) == j.expected \notin {0, v}
Retried(j, v) == Other(j, v) /\ extras[v] < ExtraPovs
Clustered(j, v) ==
  Bundled(j.of) \cup IF Retried(j, v) THEN {Job("produce", j.expected)} ELSE {}

Assign(j, v) ==
  /\ AssignVulnToPov(j.of, v)
  /\ extras' = IF Other(j, v) THEN [extras EXCEPT ![v] = @ + 1] ELSE extras
  /\ again' = IF Retried(j, v) THEN again \cup {<<j.expected, v, extras[v]>>} ELSE again
  /\ UNCHANGED <<reports, vulns, dupeLock, failures>>

ClusterByStack(w, j) ==
  /\ Starts(w, j, {"triage"})
  /\ \E q \in ByStack(j.of) :
       /\ Assign(j, povs[q].vuln)
       /\ Begin(w, j, ToSubmit(Started(j), Clustered(j, povs[q].vuln), "end"))

Cluster(w) ==
  /\ Submitted(w, {"cluster"})
  /\ LET r == running[w] IN
       Assign(r.job, r.vuln) /\ Move(w, ToSubmit(r, Clustered(r.job, r.vuln), "end"))

-----------------------------------------------------------------------------
\* An await that raises: an error of an agent, a spend limit, a timeout.
Fault(w) ==
  /\ w \in Busy /\ faults > 0 /\ Failed(w)
  /\ faults' = faults - 1
  /\ UNCHANGED <<tables, counters, triaged, sent, again>>

Crash ==
  /\ faults > 0 /\ Busy # {}
  /\ waiting' = [j \in DOMAIN waiting \cup {running[w].job : w \in Busy} |->
                   Times(j, waiting) + Cardinality({w \in Busy : running[w].job = j})]
  /\ running' = [w \in Workers |-> Free] /\ dupeLock' = None
  /\ dropped' = dropped \cup {Name(j) : j \in UNION {running[w].todo : w \in Busy}}
  /\ faults' = faults - 1
  /\ UNCHANGED <<tables, counters, triaged, sent, again, gaveUp>>

BeginJob(w, j) ==
  \/ Report(w, j) \/ Score(w, j) \/ Accept(w, j) \/ FirstPass(w, j) \/ AnalyzeDiff(w, j)
  \/ Produce(w, j) \/ ProduceFails(w, j) \/ HintFails(w, j) \/ RegisterCrash(w, j)
  \/ AskAgent(w, j) \/ ClusterByStack(w, j)

Step(w) ==
  \/ Submit(w) \/ End(w) \/ Retry(w) \/ ReportSarif(w) \/ NextOfDiff(w) \/ Blamed(w)
  \/ Deduped(w) \/ FirstPassed(w) \/ ProduceMore(w) \/ Cluster(w)

Next ==
  \/ Crash
  \/ \E w \in Workers : Step(w) \/ Fault(w)
  \/ \E j \in DOMAIN waiting : Idle(j) \/ \E w \in Workers : BeginJob(w, j)

Spec == Init /\ [][Next]_pipeVars

-----------------------------------------------------------------------------
\* A job is on its way: queued, running, or about to be submitted by one that runs.
Queued == {Name(j) : j \in DOMAIN waiting}
Doing == {Name(running[w].job) : w \in Busy}
ToDo == {Name(j) : j \in UNION {running[w].todo : w \in Busy}}
Pending == Queued \cup Doing \cup ToDo

\* The deduplication keeps one row per root cause, however many jobs find it at
\* the same time, and only one job at a time relies on the rows it has read.
OneVulnPerBug ==
  /\ \A u, v \in DOMAIN vulns : vulns[u] = vulns[v] => u = v
  /\ \A w \in Busy : running[w].at = "deduping" => dupeLock = w /\ running[w].seen = Len(vulns)
  /\ \A p \in DOMAIN povs : povs[p].vuln # 0 => vulns[povs[p].vuln] = povs[p].bug

\* Nothing that was found is forgotten: what a fault cut off while it was being
\* submitted (dropped) and what failed too often are the only ways to lose it.
\* A POV that has its vulnerability is bundled whatever happens in between.
NothingForgotten ==
  /\ \A v \in DOMAIN vulns : Patching => <<"patch", v>> \in sent \cup ToDo \cup dropped
  /\ \A p \in DOMAIN povs :
       IF povs[p].vuln = 0
       THEN <<"triage", p>> \in Pending \cup dropped \cup gaveUp
       ELSE \/ <<"bundle_pov", p>> \in sent
            \/ <<"triage", p>> \in Queued \cup Doing \cup gaveUp

\* Retries stay within their budgets, whatever the order of the jobs: one hint for
\* a vulnerability, ExtraPovs retries on account of a vulnerability that came out.
BudgetsKept ==
  /\ \A v \in Ids : \A w \in Busy :
       (failures[v] < 2 \/ <<"hint", v>> \in sent) => Job("hint", v) \notin running[w].todo
  /\ \A m \in Ids : Cardinality({a \in again : a[2] = m}) <= ExtraPovs

\* What the comment of WorkType.BUNDLE_SARIF and launch_sarif announce: a report
\* whose analysis named a vulnerability is assigned to a bundle.
SarifsAreBundled ==
  \A w \in Busy :
    LET r == running[w] IN
      (r.job.kind = "analyze" /\ r.vuln # 0 /\ reports[r.job.of].sarif) =>
        <<"bundle_sarif", r.vuln>> \in sent \cup {Name(j) : j \in r.todo}
=============================================================================
