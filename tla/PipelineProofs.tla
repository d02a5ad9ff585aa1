---------------------------- MODULE PipelineProofs ----------------------------
(***************************************************************************)
(* One row per root cause (crs/app/app.py, products_db.py), for any bugs,  *)
(* jobs, places and faults: what a deduplication has read is still all     *)
(* there is when it adds a row, and what a POV is given is its own bug.    *)
(* What was found is not forgotten: a vulnerability has its patch job and  *)
(* a POV is triaged and bundled, but for what a fault cut off or gave up.  *)
(* The jobs are those of module Pipeline, as MCJobs runs them.  At the     *)
(* end: how the tasks that are fuzzed share the cores.                     *)
(***************************************************************************)
EXTENDS
  MCJobs, FiniteSets, FiniteSetTheorems, FunctionTheorems, SequenceTheorems, SumProofs, TLAPS

\* Rows of the tables, and what a place may hold.
ReportRow == [bug : Bugs \cup {None}, sarif : BOOLEAN]
PovRow == [bug : Bugs, vuln : Nat]
Steps == {"free", "start", "triage", "deduping", "report", "submit"}
Nexts == {"end", "more", "cluster", "fail"}
Place ==
  [job : Pipe!Jobs \cup {None}, at : Steps, bug : Bugs \cup {None}, vuln : Nat, seen : Nat,
   todo : SUBSET Pipe!Jobs, next : Nexts]

\* The row a job is about is there.
HasRow(j) ==
  /\ j \in Pipe!Jobs
  /\ j.kind = "triage" => j.of \in DOMAIN povs
  /\ j.kind \in {"score", "analyze"} => j.of \in DOMAIN reports

\* The vulnerability v is one of the bug b.
IsOf(v, b) == v \in DOMAIN vulns /\ vulns[v] = b

\* What the place w runs: only who deduplicates has the lock, it has seen all rows, and
\* what it found is a vulnerability of the POV that it triages.
PlaceOK(w, r) ==
  /\ r \in Place
  /\ r.job = None <=> r.at = "free"
  /\ r.job # None => HasRow(r.job)
  /\ \A j \in r.todo : HasRow(j)
  /\ r.at = "deduping" <=> dupeLock = w
  /\ r.at = "deduping" =>
       /\ r.seen = Len(vulns) /\ r.bug \in Bugs
       /\ r.job.kind = "triage" => r.bug = povs[r.job.of].bug
  /\ r.at = "triage" => r.job.kind = "triage"
  /\ (r.at = "submit" /\ r.next = "cluster") =>
       r.job.kind = "triage" /\ IsOf(r.vuln, povs[r.job.of].bug)

RowsOK ==
  /\ reports \in Seq(ReportRow) /\ vulns \in Seq(Bugs) /\ povs \in Seq(PovRow)
  /\ \A u, v \in DOMAIN vulns : vulns[u] = vulns[v] => u = v
  /\ \A p \in DOMAIN povs : povs[p].vuln # 0 => IsOf(povs[p].vuln, povs[p].bug)

Inv ==
  /\ RowsOK
  /\ \A j \in DOMAIN waiting : HasRow(j)
  /\ Pipe!Workers \subseteq Nat /\ running \in [Pipe!Workers -> Place]
  /\ \A w \in Pipe!Workers : PlaceOK(w, running[w])
  /\ dupeLock \in Pipe!Workers \cup {None}

LEMMA KindsAre ==
  {"score", "analyze", "produce", "hint", "triage", "patch", "bundle_pov", "bundle_sarif"}
    \subseteq Pipe!Kinds \cup Pipe!Elsewhere
    BY DEF Pipe!Kinds, Pipe!Elsewhere

LEMMA JobType ==
  ASSUME NEW k \in Pipe!Kinds \cup Pipe!Elsewhere, NEW n \in Nat
  PROVE  Pipe!Job(k, n) \in Pipe!Jobs /\ Pipe!Job(k, n).kind = k /\ Pipe!Job(k, n).of = n
    BY DEF Pipe!Job, Pipe!Jobs

LEMMA FreeType ==
  /\ Pipe!Free \in Place
  /\ Pipe!Free.job = None /\ Pipe!Free.at = "free" /\ Pipe!Free.todo = {}
    BY DEF Pipe!Free, Place, Steps, Nexts

LEMMA StartedType ==
  ASSUME NEW j \in Pipe!Jobs
  PROVE  /\ Pipe!Started(j) \in Place
         /\ Pipe!Started(j).job = j /\ Pipe!Started(j).at = "start" /\ Pipe!Started(j).todo = {}
    BY DEF Pipe!Started, Pipe!Free, Place, Steps, Nexts

LEMMA ToSubmitType ==
  ASSUME NEW r \in Place, NEW J \in SUBSET Pipe!Jobs, NEW next \in Nexts
  PROVE  /\ Pipe!ToSubmit(r, J, next) \in Place
         /\ Pipe!ToSubmit(r, J, next).job = r.job /\ Pipe!ToSubmit(r, J, next).at = "submit"
         /\ Pipe!ToSubmit(r, J, next).todo = J /\ Pipe!ToSubmit(r, J, next).next = next
         /\ Pipe!ToSubmit(r, J, next).vuln = r.vuln
    BY DEF Pipe!ToSubmit, Place, Steps, Nexts

\* Whatever a place goes on with, the others are not disturbed while the tables grow, new
\* vulnerabilities come only from who has the lock and the lock goes to w or comes from it.
LEMMA OnePlaceMoves ==
  ASSUME Pipe!PipelineAssumption, Inv, NEW w \in Pipe!Workers, NEW r,
         running' = [running EXCEPT ![w] = r],
         RowsOK',
         DOMAIN reports \subseteq DOMAIN reports', DOMAIN povs \subseteq DOMAIN povs',
         DOMAIN vulns \subseteq DOMAIN vulns',
         \A p \in DOMAIN povs : povs'[p].bug = povs[p].bug,
         \A v \in DOMAIN vulns : vulns'[v] = vulns[v],
         Len(vulns') = Len(vulns) \/ dupeLock = w,
         \A j \in DOMAIN waiting' : j \in DOMAIN waiting \/ HasRow(j)',
         PlaceOK(w, r)',
         \/ dupeLock' = dupeLock
         \/ dupeLock = None /\ dupeLock' = w
         \/ dupeLock = w /\ dupeLock' = None
  PROVE  Inv'
<1>1. \A j : HasRow(j) => HasRow(j)'
    BY DEF HasRow
<1>2. \A v, b : IsOf(v, b) => IsOf(v, b)'
    BY DEF IsOf
<1>3. DOMAIN running' = Pipe!Workers /\ running'[w] = r
    BY DEF Inv
<1>4. r \in Place
    BY DEF PlaceOK
<1>5. running' \in [Pipe!Workers' -> Place]
    BY <1>3, <1>4 DEF Inv, Pipe!Workers
<1>6. (\A u \in Pipe!Workers : PlaceOK(u, running[u]))'
  <2> SUFFICES ASSUME NEW u \in Pipe!Workers PROVE PlaceOK(u, running[u])'
      BY <1>3 DEF Pipe!Workers
  <2>1. CASE u = w
      BY <2>1, <1>3
  <2>2. CASE u # w
    <3>1. PICK s : s = running[u]
        OBVIOUS
    <3>2. PlaceOK(u, s) /\ running'[u] = s
        BY <3>1, <2>2 DEF Inv
    <3>3. dupeLock' = u <=> dupeLock = u
      <4>1. u # None /\ w # None
          BY DEF Inv, Pipe!PipelineAssumption
      <4> QED
          BY <2>2, <4>1
    <3>4. s.at = "deduping" => Len(vulns') = Len(vulns) /\ s.job # None /\ HasRow(s.job)
        BY <3>2, <2>2 DEF PlaceOK
    <3>5. (s.at = "deduping" /\ s.job.kind = "triage") => povs'[s.job.of].bug = povs[s.job.of].bug
        BY <3>4 DEF HasRow
    <3>6. (s.at = "submit" /\ s.next = "cluster") =>
             povs'[s.job.of].bug = povs[s.job.of].bug
        BY <3>2 DEF PlaceOK, HasRow
    <3>7. PlaceOK(u, s)'
        BY <3>2, <3>3, <3>4, <3>5, <3>6, <1>1, <1>2 DEF PlaceOK
    <3> QED
        BY <3>2, <3>7
  <2> QED
      BY <2>1, <2>2
<1>7. \A j \in DOMAIN waiting' : HasRow(j)'
    BY <1>1 DEF Inv
<1>8. dupeLock' \in Pipe!Workers' \cup {None} /\ Pipe!Workers' \subseteq Nat
    BY <1>3 DEF Inv, Pipe!Workers
<1> QED
    BY <1>3, <1>5, <1>6, <1>7, <1>8 DEF Inv, Pipe!Workers

\* As it is when the tables stay.
LEMMA TablesStay ==
  ASSUME Pipe!PipelineAssumption, Inv, NEW w \in Pipe!Workers, NEW r,
         running' = [running EXCEPT ![w] = r], UNCHANGED Pipe!tables,
         \A j \in DOMAIN waiting' : j \in DOMAIN waiting \/ HasRow(j),
         PlaceOK(w, r)',
         \/ dupeLock' = dupeLock
         \/ dupeLock = None /\ dupeLock' = w
         \/ dupeLock = w /\ dupeLock' = None
  PROVE  Inv'
<1>1. UNCHANGED <<reports, vulns, povs>>
    BY DEF Pipe!tables
<1>2. RowsOK'
    BY <1>1 DEF Inv, RowsOK, IsOf
<1>3. \A j \in DOMAIN waiting' : j \in DOMAIN waiting \/ HasRow(j)'
    BY <1>1 DEF HasRow
<1> QED
    BY <1>1, <1>2, <1>3, OnePlaceMoves

\* What a free place starts with.
LEMMA StartsWith ==
  ASSUME Pipe!PipelineAssumption, Inv, NEW w \in Pipe!Workers, NEW j \in DOMAIN waiting,
       NEW kinds,
         Pipe!Starts(w, j, kinds)
  PROVE  /\ j.kind \in kinds /\ HasRow(j) /\ j # None /\ j \in Pipe!Jobs
         /\ dupeLock # w
         /\ Pipe!Started(j) \in Place /\ Pipe!Started(j).job = j
         /\ DOMAIN Pipe!Without(waiting, j) \subseteq DOMAIN waiting
<1>1. HasRow(j) /\ j \in Pipe!Jobs /\ j # None
    BY DEF Inv, HasRow, Pipe!PipelineAssumption
<1>2. running[w].job = None /\ PlaceOK(w, running[w])
    BY DEF Pipe!Starts, Pipe!Busy, Inv
<1>3. PICK s : s = running[w]
    OBVIOUS
<1>4. dupeLock # w
    BY <1>2, <1>3 DEF PlaceOK
<1>5. DOMAIN Pipe!Without(waiting, j) \subseteq DOMAIN waiting
    BY DEF Pipe!Without
<1> QED
    BY <1>1, <1>4, <1>5, StartedType DEF Pipe!Starts

\* A place that goes on to submit jobs whose rows are there.
LEMMA SubmitsOK ==
  ASSUME NEW w, NEW r \in Place, r.job # None, HasRow(r.job)', NEW J,
         \A i \in J : HasRow(i)', NEW next \in Nexts,
         next = "cluster" => r.job.kind = "triage" /\ IsOf(r.vuln, povs[r.job.of].bug)',
         dupeLock' # w, NEW s, s = Pipe!ToSubmit(r, J, next)
  PROVE  PlaceOK(w, s)'
<1>1. J \in SUBSET Pipe!Jobs
    BY DEF HasRow
<1>2. /\ s \in Place /\ s.job = r.job /\ s.at = "submit" /\ s.todo = J /\ s.next = next
      /\ s.vuln = r.vuln
    BY <1>1, ToSubmitType
<1> QED
    BY <1>2 DEF PlaceOK, HasRow, IsOf

LEMMA FreeOK == ASSUME NEW w, dupeLock' # w PROVE PlaceOK(w, Pipe!Free)'
<1>1. PICK s : s = Pipe!Free
    OBVIOUS
<1>2. s \in Place /\ s.job = None /\ s.at = "free" /\ s.todo = {}
    BY <1>1, FreeType
<1>3. PlaceOK(w, s)'
    BY <1>2 DEF PlaceOK
<1> QED
    BY <1>1, <1>3

\* Whoever enters the deduplication has seen the rows there are.
LEMMA DedupingOK ==
  ASSUME Inv, NEW w, NEW r \in Place, r.job # None, HasRow(r.job), NEW b \in Bugs,
         r.job.kind = "triage" => b = povs[r.job.of].bug,
         \A i \in r.todo : HasRow(i), UNCHANGED Pipe!tables, dupeLock' = w,
         NEW s, s = Pipe!Deduping(r, b)
  PROVE  PlaceOK(w, s)'
<1>1. UNCHANGED <<reports, vulns, povs>>
    BY DEF Pipe!tables
<1>3. Len(vulns) \in Nat
    BY LenProperties DEF Inv, RowsOK
<1>4. /\ s \in Place /\ s.job = r.job /\ s.at = "deduping" /\ s.todo = r.todo /\ s.bug = b
      /\ s.seen = Len(vulns)
    BY <1>3 DEF Pipe!Deduping, Pipe!KnownVulns, Place, Steps
<1> QED
    BY <1>1, <1>4 DEF PlaceOK, HasRow, IsOf

\* The tables grow.
LEMMA ReportsGrow ==
  ASSUME Inv, NEW b \in Bugs \cup {None}, NEW sarif \in BOOLEAN, Pipe!AddReport(b, sarif),
         UNCHANGED <<vulns, povs>>
  PROVE  /\ RowsOK' /\ DOMAIN reports \subseteq DOMAIN reports'
         /\ Pipe!NextId(reports) \in DOMAIN reports' /\ Pipe!NextId(reports) \in Nat
<1>1. reports \in Seq(ReportRow)
    BY DEF Inv, RowsOK
<1>2. PICK row \in ReportRow : row = [bug |-> b, sarif |-> sarif]
           /\ reports' = Append(reports, row)
    BY DEF ReportRow, Pipe!AddReport
<1>3. reports' \in Seq(ReportRow) /\ Len(reports') = Len(reports) + 1
    BY <1>1, <1>2, AppendProperties
<1>4. DOMAIN reports = 1..Len(reports) /\ DOMAIN reports' = 1..Len(reports')
      /\ Len(reports) \in Nat
    BY <1>1, <1>3, LenProperties
<1>5. RowsOK'
    BY <1>3 DEF Inv, RowsOK, IsOf
<1> QED
    BY <1>3, <1>4, <1>5 DEF Pipe!NextId

LEMMA PovsGrow ==
  ASSUME Inv, Pipe!AddPov, UNCHANGED <<reports, vulns>>
  PROVE  /\ RowsOK' /\ DOMAIN povs \subseteq DOMAIN povs'
         /\ Pipe!NextId(povs) \in DOMAIN povs' /\ Pipe!NextId(povs) \in Nat
         /\ \A p \in DOMAIN povs : povs'[p].bug = povs[p].bug
<1>1. povs \in Seq(PovRow)
    BY DEF Inv, RowsOK
<1>2. PICK b \in Bugs : Pipe!AddPovs(b)
    BY DEF Pipe!AddPov
<1>3. PICK row \in PovRow : row = [bug |-> b, vuln |-> 0] /\ povs' = Append(povs, row)
    BY <1>2 DEF PovRow, Pipe!AddPovs
<1>4. /\ povs' \in Seq(PovRow) /\ Len(povs') = Len(povs) + 1 /\ povs'[Len(povs) + 1] = row
      /\ \A p \in 1..Len(povs) : povs'[p] = povs[p]
    BY <1>1, <1>3, AppendProperties
<1>5. DOMAIN povs = 1..Len(povs) /\ DOMAIN povs' = 1..Len(povs') /\ Len(povs) \in Nat
    BY <1>1, <1>4, LenProperties
<1>6. ASSUME NEW p \in DOMAIN povs', povs'[p].vuln # 0
      PROVE  IsOf(povs'[p].vuln, povs'[p].bug)
  <2>1. row.vuln = 0
      BY <1>3
  <2>2. p # Len(povs) + 1
      BY <2>1, <1>4, <1>6
  <2>3. p \in DOMAIN povs /\ povs'[p] = povs[p]
      BY <2>2, <1>4, <1>5
  <2> QED
      BY <2>3, <1>6 DEF Inv, RowsOK
<1>7. RowsOK'
    BY <1>4, <1>6 DEF Inv, RowsOK, IsOf
<1> QED
    BY <1>4, <1>5, <1>7 DEF Pipe!NextId

LEMMA VulnsGrow ==
  ASSUME Inv, NEW b \in Bugs, \A v \in DOMAIN vulns : vulns[v] # b, Pipe!AddVuln(b),
         UNCHANGED <<reports, povs>>
  PROVE  /\ RowsOK' /\ DOMAIN vulns \subseteq DOMAIN vulns'
         /\ Pipe!NextId(vulns) \in Nat
         /\ Pipe!NextId(vulns) \in DOMAIN vulns' /\ vulns'[Pipe!NextId(vulns)] = b
         /\ \A v \in DOMAIN vulns : vulns'[v] = vulns[v]
<1>1. vulns \in Seq(Bugs)
    BY DEF Inv, RowsOK
<1>2. /\ vulns' \in Seq(Bugs) /\ Len(vulns') = Len(vulns) + 1 /\ vulns'[Len(vulns) + 1] = b
      /\ \A v \in 1..Len(vulns) : vulns'[v] = vulns[v]
    BY <1>1, AppendProperties DEF Pipe!AddVuln
<1>3. DOMAIN vulns = 1..Len(vulns) /\ DOMAIN vulns' = 1..Len(vulns') /\ Len(vulns) \in Nat
    BY <1>1, <1>2, LenProperties
<1>4. DOMAIN vulns \subseteq DOMAIN vulns' /\ \A v \in DOMAIN vulns : vulns'[v] = vulns[v]
    BY <1>2, <1>3
<1>5. \A u, v \in DOMAIN vulns' : vulns'[u] = vulns'[v] => u = v
  <2>1. \A v \in DOMAIN vulns' : v \in DOMAIN vulns \/ v = Len(vulns) + 1
      BY <1>2, <1>3
  <2> QED
      BY <2>1, <1>2, <1>4 DEF Inv, RowsOK
<1>6. \A p \in DOMAIN povs : povs[p].vuln # 0 =>
        povs[p].vuln \in DOMAIN vulns' /\ vulns'[povs[p].vuln] = povs[p].bug
    BY <1>4 DEF Inv, RowsOK, IsOf
<1>7. RowsOK'
    BY <1>2, <1>5, <1>6 DEF Inv, RowsOK, IsOf
<1> QED
    BY <1>2, <1>3, <1>4, <1>7 DEF Pipe!NextId

LEMMA PovAssigned ==
  ASSUME Inv, NEW p \in DOMAIN povs, NEW v, IsOf(v, povs[p].bug), Pipe!AssignVulnToPov(p, v),
         UNCHANGED <<reports, vulns>>
  PROVE  /\ RowsOK' /\ DOMAIN povs' = DOMAIN povs
         /\ \A q \in DOMAIN povs : povs'[q].bug = povs[q].bug
<1>1. povs \in Seq(PovRow)
    BY DEF Inv, RowsOK
<1>2. DOMAIN povs = 1..Len(povs) /\ \A q \in DOMAIN povs : povs[q] \in PovRow
    BY <1>1, LenProperties, ElementOfSeq
<1>3. vulns \in Seq(Bugs)
    BY DEF Inv, RowsOK
<1>4. v \in Nat
    BY <1>3, LenProperties DEF IsOf
<1>5. PICK row \in PovRow : row = [povs[p] EXCEPT !.vuln = v]
    BY <1>2, <1>4 DEF PovRow
<1>6. row.vuln = v /\ row.bug = povs[p].bug
    BY <1>2, <1>5 DEF PovRow
<1>7. povs' = [povs EXCEPT ![p] = row]
    BY <1>5 DEF Pipe!AssignVulnToPov
<1>8. /\ DOMAIN povs' = DOMAIN povs /\ povs'[p] = row
      /\ \A q \in DOMAIN povs : q # p => povs'[q] = povs[q]
    BY <1>7, <1>2
<1>9. povs' \in Seq(PovRow)
    BY <1>1, <1>7, ExceptSeq
<1>10. \A q \in DOMAIN povs : povs'[q].bug = povs[q].bug
    BY <1>6, <1>8
<1>11. ASSUME NEW q \in DOMAIN povs', povs'[q].vuln # 0
       PROVE  IsOf(povs'[q].vuln, povs'[q].bug)
    BY <1>6, <1>8, <1>11 DEF Inv, RowsOK
<1>12. RowsOK'
    BY <1>9, <1>11 DEF Inv, RowsOK, IsOf
<1> QED
    BY <1>8, <1>10, <1>12

-----------------------------------------------------------------------------
\* Jobs that begin with nothing others can see.
LEMMA BeginQuietly ==
  ASSUME Pipe!PipelineAssumption, Inv, NEW w \in Pipe!Workers, NEW j \in DOMAIN waiting,
       NEW kinds,
         Pipe!Starts(w, j, kinds), NEW J, \A i \in J : HasRow(i), NEW next \in Nexts
         \ {"cluster"},
         Pipe!Begin(w, j, Pipe!ToSubmit(Pipe!Started(j), J, next)),
         UNCHANGED <<Pipe!tables, dupeLock>>
  PROVE  Inv'
<1>1. /\ HasRow(j) /\ j # None /\ dupeLock # w
      /\ Pipe!Started(j) \in Place /\ Pipe!Started(j).job = j
      /\ DOMAIN Pipe!Without(waiting, j) \subseteq DOMAIN waiting
    BY StartsWith
<1>2. \A i : HasRow(i) => HasRow(i)'
    BY DEF HasRow, Pipe!tables
<1>3. PICK s : s = Pipe!ToSubmit(Pipe!Started(j), J, next)
    OBVIOUS
<1>4. PICK r \in Place : r = Pipe!Started(j)
    BY <1>1
<1>5. PlaceOK(w, s)'
    BY <1>1, <1>2, <1>3, <1>4, SubmitsOK
<1>6. running' = [running EXCEPT ![w] = s] /\ waiting' = Pipe!Without(waiting, j)
    BY <1>3 DEF Pipe!Begin
<1> QED
    BY <1>1, <1>5, <1>6, TablesStay

LEMMA ScoreStep ==
  ASSUME Pipe!PipelineAssumption, Inv, NEW w \in Pipe!Workers, NEW j \in DOMAIN waiting,
       Pipe!Score(w, j)
  PROVE  Inv'
<1>1. Pipe!Starts(w, j, {"score"}) /\ UNCHANGED <<Pipe!tables, dupeLock>>
    BY DEF Pipe!Score
<1>2. HasRow(j) /\ j.kind = "score"
    BY <1>1, StartsWith
<1>3. j.of \in Nat
    BY <1>2 DEF HasRow, Pipe!Jobs
<1>4. HasRow(Pipe!Job("analyze", j.of))
    BY <1>2, <1>3, JobType, KindsAre DEF HasRow
<1>5. PICK J \in SUBSET {Pipe!Job("analyze", j.of)} :
        Pipe!Begin(w, j, Pipe!ToSubmit(Pipe!Started(j), J, "end"))
    BY DEF Pipe!Score
<1> QED
    BY <1>1, <1>4, <1>5, BeginQuietly DEF Nexts

LEMMA FailSteps ==
  ASSUME Pipe!PipelineAssumption, Inv, NEW w \in Pipe!Workers, NEW j \in DOMAIN waiting,
         Pipe!ProduceFails(w, j) \/ Pipe!HintFails(w, j)
  PROVE  Inv'
<1>1. CASE Pipe!ProduceFails(w, j)
  <2>1. Pipe!Starts(w, j, {"produce"}) /\ UNCHANGED <<Pipe!tables, dupeLock>>
      BY <1>1 DEF Pipe!ProduceFails
  <2>2. j.of \in Nat
      BY <2>1, StartsWith DEF Pipe!Jobs
  <2>3. HasRow(Pipe!Job("hint", j.of))
      BY <2>2, JobType, KindsAre DEF HasRow
  <2>4. PICK J \in SUBSET {Pipe!Job("hint", j.of)} :
          Pipe!Begin(w, j, Pipe!ToSubmit(Pipe!Started(j), J, "fail"))
      BY <1>1 DEF Pipe!ProduceFails
  <2> QED
      BY <2>1, <2>3, <2>4, BeginQuietly DEF Nexts
<1>2. CASE Pipe!HintFails(w, j)
    BY <1>2, BeginQuietly DEF Pipe!HintFails, Nexts
<1> QED
    BY <1>1, <1>2

LEMMA AskAgentStep ==
  ASSUME Pipe!PipelineAssumption, Inv, NEW w \in Pipe!Workers, NEW j \in DOMAIN waiting,
       Pipe!AskAgent(w, j)
  PROVE  Inv'
<1>1. Pipe!Starts(w, j, {"triage"}) /\ UNCHANGED <<Pipe!tables, dupeLock>>
    BY DEF Pipe!AskAgent
<1>2. /\ j.kind = "triage" /\ HasRow(j) /\ j # None /\ dupeLock # w /\ j \in Pipe!Jobs
      /\ DOMAIN Pipe!Without(waiting, j) \subseteq DOMAIN waiting
    BY <1>1, StartsWith
<1>3. PICK s : s = [Pipe!Started(j) EXCEPT !.at = "triage"]
    OBVIOUS
<1>4. s \in Place /\ s.job = j /\ s.at = "triage" /\ s.todo = {}
    BY <1>2, <1>3, StartedType DEF Place, Steps
<1>5. PlaceOK(w, s)'
    BY <1>1, <1>2, <1>4 DEF PlaceOK, HasRow, Pipe!tables
<1>6. running' = [running EXCEPT ![w] = s] /\ waiting' = Pipe!Without(waiting, j)
    BY <1>3 DEF Pipe!AskAgent, Pipe!Begin
<1> QED
    BY <1>1, <1>2, <1>5, <1>6, TablesStay

\* Jobs that begin with the deduplication.
LEMMA BeginDeduping ==
  ASSUME Pipe!PipelineAssumption, Inv, NEW w \in Pipe!Workers, NEW j \in DOMAIN waiting,
       NEW kinds,
         Pipe!Starts(w, j, kinds), "triage" \notin kinds, NEW b \in Bugs,
         Pipe!Begin(w, j, Pipe!Deduping(Pipe!Started(j), b)), Pipe!Enter(w)
  PROVE  Inv'
<1>1. /\ HasRow(j) /\ j.kind # "triage" /\ j # None /\ j \in Pipe!Jobs
      /\ DOMAIN Pipe!Without(waiting, j) \subseteq DOMAIN waiting
    BY StartsWith
<1>2. PICK r \in Place : r = Pipe!Started(j)
    BY <1>1, StartedType
<1>3. r.job = j /\ r.todo = {}
    BY <1>1, <1>2, StartedType
<1>4. UNCHANGED Pipe!tables /\ dupeLock = None /\ dupeLock' = w
    BY DEF Pipe!Enter, Pipe!Unlocked
<1>5. PICK s : s = Pipe!Deduping(r, b)
    OBVIOUS
<1>6. PlaceOK(w, s)'
    BY <1>1, <1>3, <1>4, <1>5, DedupingOK
<1>7. running' = [running EXCEPT ![w] = s] /\ waiting' = Pipe!Without(waiting, j)
    BY <1>2, <1>5 DEF Pipe!Begin
<1> QED
    BY <1>1, <1>4, <1>6, <1>7, TablesStay

LEMMA DedupeStarts ==
  ASSUME Pipe!PipelineAssumption, Inv, NEW w \in Pipe!Workers, NEW j \in DOMAIN waiting,
         Pipe!Accept(w, j) \/ Pipe!FirstPass(w, j) \/ Pipe!AnalyzeDiff(w, j)
  PROVE  Inv'
<1>1. CASE Pipe!Accept(w, j)
  <2>1. PICK b : /\ b = Pipe!GetReport(j.of).bug /\ b # None
                 /\ Pipe!Begin(w, j, Pipe!Deduping(Pipe!Started(j), b))
      BY <1>1 DEF Pipe!Accept
  <2>2. Pipe!Starts(w, j, {"analyze"}) /\ Pipe!Enter(w)
      BY <1>1 DEF Pipe!Accept
  <2>3. j.of \in DOMAIN reports
      BY <2>2, StartsWith DEF HasRow
  <2>4. reports[j.of] \in ReportRow
    <3>1. reports \in Seq(ReportRow)
        BY DEF Inv, RowsOK
    <3> QED
        BY <3>1, <2>3, LenProperties, ElementOfSeq
  <2>5. b \in Bugs
      BY <2>1, <2>4 DEF Pipe!GetReport, ReportRow
  <2> QED
      BY <2>1, <2>2, <2>5, BeginDeduping
<1>2. CASE Pipe!FirstPass(w, j)
    BY <1>2, BeginDeduping DEF Pipe!FirstPass
<1>3. CASE Pipe!AnalyzeDiff(w, j)
    BY <1>3, BeginDeduping DEF Pipe!AnalyzeDiff
<1> QED
    BY <1>1, <1>2, <1>3

\* Jobs that begin with a row, and a job about it.
LEMMA ReportStep ==
  ASSUME Pipe!PipelineAssumption, Inv, NEW w \in Pipe!Workers, NEW j \in DOMAIN waiting,
       Pipe!Report(w, j)
  PROVE  Inv'
<1>1. /\ Pipe!Starts(w, j, {"launch"}) /\ UNCHANGED <<vulns, povs, dupeLock>>
      /\ Pipe!Begin(w, j,
           Pipe!ToSubmit(Pipe!Started(j), {Pipe!Job("score", Pipe!NextId(reports))}, "end"))
    BY DEF Pipe!Report
<1>2. /\ HasRow(j) /\ j # None /\ dupeLock # w /\ j \in Pipe!Jobs
      /\ DOMAIN Pipe!Without(waiting, j) \subseteq DOMAIN waiting
    BY <1>1, StartsWith
<1>3. /\ RowsOK' /\ DOMAIN reports \subseteq DOMAIN reports'
      /\ Pipe!NextId(reports) \in DOMAIN reports' /\ Pipe!NextId(reports) \in Nat
    BY ReportsGrow DEF Pipe!Report
<1>4. PICK i : i = Pipe!Job("score", Pipe!NextId(reports))
    OBVIOUS
<1>5. HasRow(i)'
    BY <1>3, <1>4, JobType, KindsAre DEF HasRow
<1>6. PICK r \in Place : r = Pipe!Started(j) /\ r.job = j
    BY <1>2, StartedType
<1>7. PICK s : s = Pipe!ToSubmit(r, {i}, "end")
    OBVIOUS
<1>8. HasRow(j)'
    BY <1>1, <1>2, <1>3 DEF HasRow
<1>9. PlaceOK(w, s)'
    BY <1>1, <1>2, <1>5, <1>6, <1>7, <1>8, SubmitsOK DEF Nexts
<1>10. running' = [running EXCEPT ![w] = s] /\ waiting' = Pipe!Without(waiting, j)
    BY <1>1, <1>4, <1>6, <1>7 DEF Pipe!Begin
<1> QED
    BY <1>1, <1>2, <1>3, <1>9, <1>10, OnePlaceMoves

\* A POV is added, and w goes on to submit the job that triages it.
LEMMA PovIsAdded ==
  ASSUME Pipe!PipelineAssumption, Inv, NEW w \in Pipe!Workers, NEW r \in Place, r.job # None,
       HasRow(r.job),
         Pipe!AddPov, UNCHANGED <<reports, vulns, dupeLock>>, dupeLock # w, NEW v \in Nat,
         NEW next \in Nexts \ {"cluster"},
         running' =
           [running EXCEPT ![w] = Pipe!ToSubmit(r, {Pipe!Triage(Pipe!NextId(povs), v)}, next)],
         DOMAIN waiting' \subseteq DOMAIN waiting
  PROVE  Inv'
<1>1. /\ RowsOK' /\ DOMAIN povs \subseteq DOMAIN povs'
      /\ Pipe!NextId(povs) \in DOMAIN povs' /\ Pipe!NextId(povs) \in Nat
      /\ \A p \in DOMAIN povs : povs'[p].bug = povs[p].bug
    BY PovsGrow
<1>2. PICK i : i = Pipe!Triage(Pipe!NextId(povs), v)
    OBVIOUS
<1>3. i \in Pipe!Jobs /\ i.kind = "triage" /\ i.of = Pipe!NextId(povs)
    BY <1>1, <1>2, KindsAre DEF Pipe!Triage, Pipe!Job, Pipe!Jobs
<1>4. HasRow(i)'
    BY <1>1, <1>3 DEF HasRow
<1>5. HasRow(r.job)'
    BY <1>1 DEF HasRow
<1>6. PICK s : s = Pipe!ToSubmit(r, {i}, next)
    OBVIOUS
<1>7. PlaceOK(w, s)'
    BY <1>4, <1>5, <1>6, SubmitsOK
<1>8. running' = [running EXCEPT ![w] = s]
    BY <1>2, <1>6
<1> QED
    BY <1>1, <1>7, <1>8, OnePlaceMoves

LEMMA ProduceSteps ==
  ASSUME Pipe!PipelineAssumption, Inv, NEW w \in Pipe!Workers, NEW j \in DOMAIN waiting,
         Pipe!Produce(w, j) \/ Pipe!RegisterCrash(w, j)
  PROVE  Inv'
<1>1. PICK kinds : Pipe!Starts(w, j, kinds)
    BY DEF Pipe!Produce, Pipe!RegisterCrash
<1>2. /\ HasRow(j) /\ j # None /\ dupeLock # w /\ j \in Pipe!Jobs
      /\ DOMAIN Pipe!Without(waiting, j) \subseteq DOMAIN waiting
    BY <1>1, StartsWith
<1>3. PICK r \in Place : r = Pipe!Started(j) /\ r.job = j
    BY <1>2, StartedType
<1>4. Pipe!AddPov /\ UNCHANGED <<reports, vulns, dupeLock>> /\ waiting' = Pipe!Without(waiting, j)
    BY DEF Pipe!Produce, Pipe!RegisterCrash, Pipe!Begin
<1>5. j.of \in Nat
    BY <1>2 DEF Pipe!Jobs
<1>6. CASE Pipe!Produce(w, j)
  <2>1. PICK v \in Nat : v = j.of
      BY <1>5
  <2>2. running' =
          [running EXCEPT ![w] = Pipe!ToSubmit(r, {Pipe!Triage(Pipe!NextId(povs), v)}, "more")]
      BY <1>3, <1>6, <2>1 DEF Pipe!Produce, Pipe!Begin
  <2> QED
      BY <2>2, <1>2, <1>3, <1>4, PovIsAdded DEF Nexts
<1>7. CASE Pipe!RegisterCrash(w, j)
  <2>1. running' =
          [running EXCEPT ![w] = Pipe!ToSubmit(r, {Pipe!Triage(Pipe!NextId(povs), 0)}, "end")]
      BY <1>3, <1>7 DEF Pipe!RegisterCrash
  <2> QED
      BY <2>1, <1>2, <1>3, <1>4, PovIsAdded DEF Nexts
<1> QED
    BY <1>6, <1>7

\* cluster_pov: the vulnerability that a POV gets is one of its bug.
LEMMA PovIsClustered ==
  ASSUME Pipe!PipelineAssumption, Inv, NEW w \in Pipe!Workers, NEW r \in Place, r.job # None,
       HasRow(r.job),
         r.job.kind = "triage", NEW v, IsOf(v, povs[r.job.of].bug), Pipe!Assign(r.job, v),
         UNCHANGED dupeLock, dupeLock # w,
         running' = [running EXCEPT ![w] = Pipe!ToSubmit(r, Pipe!Clustered(r.job, v), "end")],
         DOMAIN waiting' \subseteq DOMAIN waiting
  PROVE  Inv'
<1>1. r.job.of \in DOMAIN povs /\ Pipe!AssignVulnToPov(r.job.of, v)
      /\ UNCHANGED <<reports, vulns>>
    BY DEF HasRow, Pipe!Assign
<1>2. /\ RowsOK' /\ DOMAIN povs' = DOMAIN povs
      /\ \A p \in DOMAIN povs : povs'[p].bug = povs[p].bug
    BY <1>1, PovAssigned
<1>3. PICK J : J = Pipe!Clustered(r.job, v)
    OBVIOUS
<1>4. \A i \in J : HasRow(i)'
  <2>1. PICK m \in Nat, n \in Nat : m = r.job.of /\ n = r.job.expected
      BY DEF HasRow, Pipe!Jobs
  <2>2. \A i \in J : i = Pipe!Job("bundle_pov", m) \/ i = Pipe!Job("produce", n)
      BY <1>3, <2>1 DEF Pipe!Clustered, Pipe!Bundled
  <2>3. \A i \in J : i \in Pipe!Jobs /\ i.kind \in {"bundle_pov", "produce"}
      BY <2>2, JobType, KindsAre
  <2> QED
      BY <2>3 DEF HasRow
<1>5. HasRow(r.job)'
    BY <1>1, <1>2 DEF HasRow
<1>6. PICK s : s = Pipe!ToSubmit(r, J, "end")
    OBVIOUS
<1>7. PlaceOK(w, s)'
    BY <1>4, <1>5, <1>6, SubmitsOK DEF Nexts
<1>8. running' = [running EXCEPT ![w] = s]
    BY <1>3, <1>6
<1> QED
    BY <1>1, <1>2, <1>7, <1>8, OnePlaceMoves

LEMMA ClusterByStackStep ==
  ASSUME Pipe!PipelineAssumption, Inv, NEW w \in Pipe!Workers, NEW j \in DOMAIN waiting,
         Pipe!ClusterByStack(w, j)
  PROVE  Inv'
<1>1. Pipe!Starts(w, j, {"triage"})
    BY DEF Pipe!ClusterByStack
<1>2. PICK q \in Pipe!ByStack(j.of) :
        /\ Pipe!Assign(j, povs[q].vuln)
        /\ Pipe!Begin(w, j,
           Pipe!ToSubmit(Pipe!Started(j), Pipe!Clustered(j, povs[q].vuln), "end"))
    BY DEF Pipe!ClusterByStack
<1>3. /\ j.kind = "triage" /\ HasRow(j) /\ j # None /\ dupeLock # w /\ j \in Pipe!Jobs
      /\ DOMAIN Pipe!Without(waiting, j) \subseteq DOMAIN waiting
    BY <1>1, StartsWith
<1>4. PICK r \in Place : r = Pipe!Started(j) /\ r.job = j
    BY <1>3, StartedType
<1>5. IsOf(povs[q].vuln, povs[j.of].bug)
    BY <1>2 DEF Pipe!ByStack, Pipe!WithStack, Pipe!GetPov, Inv, RowsOK
<1>6. UNCHANGED dupeLock /\ waiting' = Pipe!Without(waiting, j)
    BY <1>2 DEF Pipe!Assign, Pipe!Begin, Pipe!ClusterByStack
<1>7. PICK v : v = povs[q].vuln
    OBVIOUS
<1>8. running' = [running EXCEPT ![w] = Pipe!ToSubmit(r, Pipe!Clustered(r.job, v), "end")]
    BY <1>2, <1>4, <1>7 DEF Pipe!Begin
<1>9. Pipe!Assign(r.job, v) /\ IsOf(v, povs[r.job.of].bug)
    BY <1>2, <1>4, <1>5, <1>7
<1> QED
    BY <1>3, <1>4, <1>6, <1>8, <1>9, PovIsClustered

LEMMA ClusterStep ==
  ASSUME Pipe!PipelineAssumption, Inv, NEW w \in Pipe!Workers, Pipe!Cluster(w)
  PROVE  Inv'
<1>1. PICK r : r = running[w]
    OBVIOUS
<1>2. /\ r.at = "submit" /\ r.next = "cluster" /\ Pipe!Assign(r.job, r.vuln)
      /\ Pipe!Move(w, Pipe!ToSubmit(r, Pipe!Clustered(r.job, r.vuln), "end"))
    BY <1>1 DEF Pipe!Cluster, Pipe!Submitted
<1>3. PlaceOK(w, r)
    BY <1>1 DEF Inv
<1>4. /\ r \in Place /\ r.job # None /\ HasRow(r.job) /\ r.job.kind = "triage"
      /\ IsOf(r.vuln, povs[r.job.of].bug) /\ dupeLock # w
    BY <1>2, <1>3 DEF PlaceOK
<1>5. /\ running' = [running EXCEPT ![w] = Pipe!ToSubmit(r, Pipe!Clustered(r.job, r.vuln), "end")]
      /\ UNCHANGED <<waiting, dupeLock>>
    BY <1>2 DEF Pipe!Move, Pipe!Assign
<1> QED
    BY <1>2, <1>4, <1>5, PovIsClustered

-----------------------------------------------------------------------------
\* Jobs that go on.
LEMMA SubmitStep ==
  ASSUME Pipe!PipelineAssumption, Inv, NEW w \in Pipe!Workers, Pipe!Submit(w)
  PROVE  Inv'
<1>1. PICK r : r = running[w]
    OBVIOUS
<1>2. PlaceOK(w, r) /\ r.at = "submit" /\ UNCHANGED <<Pipe!tables, dupeLock>>
    BY <1>1 DEF Inv, Pipe!Submit
<1>3. PICK j \in r.todo :
        /\ running' = [running EXCEPT ![w].todo = @ \ {j}]
        /\ waiting' = IF j.kind \in Pipe!Elsewhere THEN waiting ELSE Pipe!With(waiting, {j})
    BY <1>1 DEF Pipe!Submit
<1>4. HasRow(j)
    BY <1>2 DEF PlaceOK
<1>5. \A i \in DOMAIN waiting' : i \in DOMAIN waiting \/ HasRow(i)
    BY <1>3, <1>4 DEF Pipe!With
<1>6. PICK s : s = [r EXCEPT !.todo = @ \ {j}]
    OBVIOUS
<1>7. running' = [running EXCEPT ![w] = s]
    BY <1>1, <1>3, <1>6
<1>8. /\ s \in Place /\ s.job = r.job /\ s.at = "submit" /\ s.todo \subseteq r.todo
      /\ s.next = r.next /\ s.vuln = r.vuln
    BY <1>2, <1>6 DEF PlaceOK, Place
<1>9. PlaceOK(w, s)'
    BY <1>2, <1>8 DEF PlaceOK, HasRow, IsOf, Pipe!tables
<1> QED
    BY <1>2, <1>5, <1>7, <1>9, TablesStay

LEMMA EndStep ==
  ASSUME Pipe!PipelineAssumption, Inv, NEW w \in Pipe!Workers, Pipe!End(w)
  PROVE  Inv'
<1>1. PlaceOK(w, running[w]) /\ running[w].at = "submit"
    BY DEF Inv, Pipe!End, Pipe!Submitted
<1>2. UNCHANGED <<Pipe!tables, waiting, dupeLock>> /\ running' = [running EXCEPT ![w] = Pipe!Free]
    BY DEF Pipe!End, Pipe!Ended, Pipe!Move
<1>3. PICK r : r = running[w]
    OBVIOUS
<1>4. dupeLock' # w
    BY <1>1, <1>2, <1>3 DEF PlaceOK
<1>5. PICK s : s = Pipe!Free
    OBVIOUS
<1>6. PlaceOK(w, s)'
    BY <1>4, <1>5, FreeOK
<1> QED
    BY <1>2, <1>5, <1>6, TablesStay

LEMMA FailedStep ==
  ASSUME Pipe!PipelineAssumption, Inv, NEW w \in Pipe!Workers, running[w].job # None,
       Pipe!Failed(w),
         UNCHANGED Pipe!tables
  PROVE  Inv'
<1>1. PICK j : j = running[w].job
    OBVIOUS
<1>2. HasRow(j)
    BY <1>1 DEF Inv, PlaceOK
<1>3. HasRow([j EXCEPT !.tries = @ + 1])
    BY <1>2 DEF HasRow, Pipe!Jobs
<1>4. waiting' = Pipe!With(waiting, {[j EXCEPT !.tries = @ + 1]}) \/ waiting' = waiting
    BY <1>1 DEF Pipe!Failed
<1>5. \A i \in DOMAIN waiting' : i \in DOMAIN waiting \/ HasRow(i)
    BY <1>3, <1>4 DEF Pipe!With
<1>6. PICK s : s = Pipe!Free
    OBVIOUS
<1>7. dupeLock' = (IF dupeLock = w THEN None ELSE dupeLock) /\ w # None
    BY DEF Pipe!Failed, Inv, Pipe!PipelineAssumption
<1>8. PlaceOK(w, s)'
    BY <1>6, <1>7, FreeOK
<1>9. running' = [running EXCEPT ![w] = s]
    BY <1>6 DEF Pipe!Failed
<1> QED
    BY <1>5, <1>7, <1>8, <1>9, TablesStay

LEMMA FailedSteps ==
  ASSUME Pipe!PipelineAssumption, Inv, NEW w \in Pipe!Workers, Pipe!Retry(w) \/ Pipe!Fault(w)
  PROVE  Inv'
<1>1. CASE Pipe!Retry(w)
  <2>1. running[w].at = "submit" /\ PlaceOK(w, running[w])
      BY <1>1 DEF Pipe!Retry, Pipe!Submitted, Inv
  <2>2. PICK r : r = running[w]
      OBVIOUS
  <2>3. running[w].job # None
      BY <2>1, <2>2 DEF PlaceOK
  <2> QED
      BY <1>1, <2>3, FailedStep DEF Pipe!Retry
<1>2. CASE Pipe!Fault(w)
    BY <1>2, FailedStep DEF Pipe!Fault, Pipe!Busy
<1> QED
    BY <1>1, <1>2

LEMMA ReportSarifStep ==
  ASSUME Pipe!PipelineAssumption, Inv, NEW w \in Pipe!Workers, Pipe!ReportSarif(w)
  PROVE  Inv'
<1>1. PICK r : r = running[w]
    OBVIOUS
<1>2. PlaceOK(w, r) /\ r.at = "report"
    BY <1>1 DEF Inv, Pipe!ReportSarif
<1>3. r \in Place /\ r.job # None /\ HasRow(r.job) /\ dupeLock # w
    BY <1>2 DEF PlaceOK
<1>4. r.bug \in Bugs \cup {None} /\ Pipe!AddReport(r.bug, TRUE)
      /\ UNCHANGED <<vulns, povs, dupeLock>>
    BY <1>1, <1>3 DEF Pipe!ReportSarif, Place
<1>5. /\ RowsOK' /\ DOMAIN reports \subseteq DOMAIN reports'
      /\ Pipe!NextId(reports) \in DOMAIN reports' /\ Pipe!NextId(reports) \in Nat
    BY <1>4, ReportsGrow
<1>6. PICK i : i = Pipe!Job("analyze", Pipe!NextId(reports))
    OBVIOUS
<1>7. HasRow(i)'
    BY <1>5, <1>6, JobType, KindsAre DEF HasRow
<1>8. HasRow(r.job)'
    BY <1>3, <1>4, <1>5 DEF HasRow
<1>9. PICK s : s = Pipe!ToSubmit(r, {i}, "end")
    OBVIOUS
<1>10. PlaceOK(w, s)'
    BY <1>3, <1>4, <1>7, <1>8, <1>9, SubmitsOK DEF Nexts
<1>11. running' = [running EXCEPT ![w] = s] /\ UNCHANGED waiting
    BY <1>1, <1>6, <1>9 DEF Pipe!ReportSarif, Pipe!Move
<1> QED
    BY <1>4, <1>5, <1>10, <1>11, OnePlaceMoves

LEMMA ProduceMoreStep ==
  ASSUME Pipe!PipelineAssumption, Inv, NEW w \in Pipe!Workers, Pipe!ProduceMore(w)
  PROVE  Inv'
<1>1. PICK r : r = running[w]
    OBVIOUS
<1>2. PlaceOK(w, r) /\ r.at = "submit"
    BY <1>1 DEF Inv, Pipe!ProduceMore, Pipe!Submitted
<1>3. r \in Place /\ r.job # None /\ HasRow(r.job) /\ dupeLock # w
    BY <1>2 DEF PlaceOK
<1>4. PICK v \in Nat : v = r.job.of
    BY <1>3 DEF HasRow, Pipe!Jobs
<1>5. /\ Pipe!AddPov /\ UNCHANGED <<reports, vulns, dupeLock, waiting>>
      /\ running' =
           [running EXCEPT ![w] = Pipe!ToSubmit(r, {Pipe!Triage(Pipe!NextId(povs), v)}, "more")]
    BY <1>1, <1>4 DEF Pipe!ProduceMore, Pipe!Move
<1> QED
    BY <1>3, <1>5, PovIsAdded DEF Nexts

\* Entering the deduplication from a job that runs.
LEMMA GoesDeduping ==
  ASSUME Pipe!PipelineAssumption, Inv, NEW w \in Pipe!Workers, NEW r, PlaceOK(w, r), r.job # None,
         NEW b \in Bugs, r.job.kind = "triage" => b = povs[r.job.of].bug,
         Pipe!Move(w, Pipe!Deduping(r, b)), Pipe!Enter(w)
  PROVE  Inv'
<1>1. UNCHANGED Pipe!tables /\ dupeLock = None /\ dupeLock' = w
    BY DEF Pipe!Enter, Pipe!Unlocked
<1>2. r \in Place /\ HasRow(r.job) /\ \A i \in r.todo : HasRow(i)
    BY DEF PlaceOK
<1>3. PICK s : s = Pipe!Deduping(r, b)
    OBVIOUS
<1>4. PlaceOK(w, s)'
    BY <1>1, <1>2, <1>3, DedupingOK
<1>5. running' = [running EXCEPT ![w] = s] /\ UNCHANGED waiting
    BY <1>3 DEF Pipe!Move
<1> QED
    BY <1>1, <1>4, <1>5, TablesStay

LEMMA NextOfDiffStep ==
  ASSUME Pipe!PipelineAssumption, Inv, NEW w \in Pipe!Workers, Pipe!NextOfDiff(w)
  PROVE  Inv'
<1>1. PICK r : r = running[w]
    OBVIOUS
<1>2. PICK b \in Bugs : Pipe!Move(w, Pipe!Deduping(r, b))
    BY <1>1 DEF Pipe!NextOfDiff
<1>3. PlaceOK(w, r) /\ r.at = "submit" /\ r.job.kind = "diff" /\ Pipe!Enter(w)
    BY <1>1 DEF Inv, Pipe!NextOfDiff, Pipe!Submitted
<1>4. r.job # None
    BY <1>3 DEF PlaceOK
<1> QED
    BY <1>2, <1>3, <1>4, GoesDeduping

LEMMA BlamedStep ==
  ASSUME Pipe!PipelineAssumption, Inv, NEW w \in Pipe!Workers, Pipe!Blamed(w)
  PROVE  Inv'
<1>1. PICK r : r = running[w]
    OBVIOUS
<1>2. PlaceOK(w, r) /\ r.at = "triage" /\ Pipe!Enter(w)
    BY <1>1 DEF Inv, Pipe!Blamed
<1>3. r.job # None /\ r.job.kind = "triage" /\ r.job.of \in DOMAIN povs
    BY <1>2 DEF PlaceOK, HasRow
<1>4. povs[r.job.of] \in PovRow
  <2>1. povs \in Seq(PovRow)
      BY DEF Inv, RowsOK
  <2> QED
      BY <2>1, <1>3, LenProperties, ElementOfSeq
<1>5. PICK b \in Bugs : b = povs[r.job.of].bug
    BY <1>4 DEF PovRow
<1>6. Pipe!Move(w, Pipe!Deduping(r, b))
    BY <1>1, <1>5 DEF Pipe!Blamed, Pipe!GetPov
<1> QED
    BY <1>2, <1>3, <1>5, <1>6, GoesDeduping

\* The end of the deduplication: the place has the vulnerability v of its bug.
LEMMA DedupedOK ==
  ASSUME NEW w, NEW r, PlaceOK(w, r), r.at = "deduping", UNCHANGED <<reports, povs>>,
         NEW v \in Nat, IsOf(v, r.bug)', NEW J, \A i \in J : HasRow(i), dupeLock' # w,
         NEW s, s = [Pipe!ToSubmit(r, J, Pipe!After(r.job)) EXCEPT !.vuln = v]
  PROVE  PlaceOK(w, s)'
<1>1. r \in Place /\ r.job # None /\ HasRow(r.job)
    BY DEF PlaceOK
<1>2. J \in SUBSET Pipe!Jobs
    BY DEF HasRow
<1>3. Pipe!After(r.job) \in Nexts /\ (Pipe!After(r.job) = "cluster" => r.job.kind = "triage")
    BY DEF Pipe!After, Nexts
<1>4. PICK next \in Nexts : next = Pipe!After(r.job)
    BY <1>3
<1>5. PICK q \in Place : q = Pipe!ToSubmit(r, J, next)
    BY <1>1, <1>2, ToSubmitType
<1>6. q.job = r.job /\ q.at = "submit" /\ q.todo = J /\ q.next = next
    BY <1>1, <1>2, <1>5, ToSubmitType
<1>7. s = [q EXCEPT !.vuln = v]
    BY <1>4, <1>5
<1>8. /\ s \in Place /\ s.job = r.job /\ s.at = "submit" /\ s.todo = J /\ s.next = next
      /\ s.vuln = v
    BY <1>6, <1>7 DEF Place
<1>9. next = "cluster" =>
        r.job.kind = "triage" /\ v \in DOMAIN vulns' /\ vulns'[v] = povs'[r.job.of].bug
  <2>1. next = "cluster" => r.job.kind = "triage" /\ r.bug = povs'[r.job.of].bug
      BY <1>3, <1>4 DEF PlaceOK
  <2> QED
      BY <2>1 DEF IsOf
<1> QED
    BY <1>1, <1>8, <1>9 DEF PlaceOK, HasRow, IsOf

LEMMA DedupedStep ==
  ASSUME Pipe!PipelineAssumption, Inv, NEW w \in Pipe!Workers, Pipe!Deduped(w)
  PROVE  Inv'
<1>1. PICK r : r = running[w]
    OBVIOUS
<1>2. /\ PlaceOK(w, r) /\ r.at = "deduping" /\ r.job.kind # "sarif" /\ dupeLock' = None
      /\ UNCHANGED <<reports, povs>>
    BY <1>1 DEF Inv, Pipe!Deduped
<1>3. /\ r \in Place /\ r.job # None /\ HasRow(r.job) /\ dupeLock = w /\ dupeLock' # w
      /\ r.seen = Len(vulns) /\ r.bug \in Bugs
    BY <1>2 DEF PlaceOK, Inv, Pipe!PipelineAssumption
<1>4. vulns \in Seq(Bugs)
    BY DEF Inv, RowsOK
<1>5. DOMAIN vulns = 1..r.seen /\ Len(vulns) \in Nat
    BY <1>3, <1>4, LenProperties
<1>6. CASE /\ Pipe!Match(r) = {} /\ Pipe!AddVuln(r.bug)
           /\ Pipe!Move(w,
                [Pipe!ToSubmit(r, Pipe!Follow(r.job, Pipe!NextId(vulns)), Pipe!After(r.job))
                         EXCEPT !.vuln = Pipe!NextId(vulns)])
  <2>1. \A v \in DOMAIN vulns : vulns[v] # r.bug
      BY <1>5, <1>6 DEF Pipe!Match
  <2>2. PICK v : v = Pipe!NextId(vulns)
      OBVIOUS
  <2>3. /\ RowsOK' /\ DOMAIN vulns \subseteq DOMAIN vulns'
        /\ v \in Nat /\ v \in DOMAIN vulns' /\ vulns'[v] = r.bug
        /\ \A u \in DOMAIN vulns : vulns'[u] = vulns[u]
      BY <1>2, <1>3, <1>6, <2>1, <2>2, VulnsGrow
  <2>4. PICK J : J = Pipe!Follow(r.job, v)
      OBVIOUS
  <2>5. \A i \in J : HasRow(i)
    <3>1. \A i \in J : i = Pipe!Job("bundle_sarif", v)
                        \/ i = Pipe!Job("patch", v) \/ i = Pipe!Job("produce", v)
        BY <2>4 DEF Pipe!Follow
    <3>2. \A i \in J : i \in Pipe!Jobs /\ i.kind \in {"bundle_sarif", "patch", "produce"}
        BY <2>3, <3>1, JobType, KindsAre
    <3> QED
        BY <3>2 DEF HasRow
  <2>6. PICK s : s = [Pipe!ToSubmit(r, J, Pipe!After(r.job)) EXCEPT !.vuln = v]
      OBVIOUS
  <2>7. IsOf(v, r.bug)'
      BY <2>3 DEF IsOf
  <2>8. PlaceOK(w, s)'
      BY <1>2, <1>3, <2>3, <2>5, <2>6, <2>7, DedupedOK
  <2>9. running' = [running EXCEPT ![w] = s] /\ UNCHANGED waiting
      BY <1>6, <2>2, <2>4, <2>6 DEF Pipe!Move
  <2> QED
      BY <1>2, <1>3, <2>3, <2>8, <2>9, OnePlaceMoves
<1>7. ASSUME NEW v \in Pipe!Match(r), UNCHANGED vulns,
             Pipe!Move(w, [Pipe!ToSubmit(r, Pipe!FollowKnown(r.job, v), Pipe!After(r.job))
                             EXCEPT !.vuln = v])
      PROVE  Inv'
  <2>1. v \in Nat /\ IsOf(v, r.bug)
      BY <1>5, <1>7 DEF Pipe!Match, IsOf
  <2>2. IsOf(v, r.bug)'
      BY <1>7, <2>1 DEF IsOf
  <2>3. PICK s : s = [Pipe!ToSubmit(r, {}, Pipe!After(r.job)) EXCEPT !.vuln = v]
      OBVIOUS
  <2>4. PlaceOK(w, s)'
      BY <1>2, <1>3, <2>1, <2>2, <2>3, DedupedOK
  <2>5. running' = [running EXCEPT ![w] = s] /\ UNCHANGED waiting
      BY <1>7, <2>3 DEF Pipe!Move, Pipe!FollowKnown
  <2> QED
      BY <1>2, <1>3, <1>7, <2>4, <2>5, TablesStay DEF Pipe!tables
<1> QED
    BY <1>1, <1>6, <1>7 DEF Pipe!Deduped

LEMMA FirstPassedStep ==
  ASSUME Pipe!PipelineAssumption, Inv, NEW w \in Pipe!Workers, Pipe!FirstPassed(w)
  PROVE  Inv'
<1>1. PICK r : r = running[w]
    OBVIOUS
<1>2. PlaceOK(w, r) /\ r.at = "deduping" /\ UNCHANGED Pipe!tables /\ dupeLock' = None
    BY <1>1 DEF Inv, Pipe!FirstPassed
<1>3. r \in Place /\ r.job # None /\ HasRow(r.job) /\ dupeLock = w /\ dupeLock' # w
    BY <1>2 DEF PlaceOK, Inv, Pipe!PipelineAssumption
<1>4. PICK s : s = [r EXCEPT !.at = "report"]
    OBVIOUS
<1>5. s \in Place /\ s.job = r.job /\ s.at = "report" /\ s.todo = r.todo
    BY <1>3, <1>4 DEF Place, Steps
<1>6. PlaceOK(w, s)'
    BY <1>2, <1>3, <1>5 DEF PlaceOK, HasRow, Pipe!tables
<1>7. running' = [running EXCEPT ![w] = s] /\ UNCHANGED waiting
    BY <1>1, <1>4 DEF Pipe!FirstPassed, Pipe!Move
<1> QED
    BY <1>2, <1>3, <1>6, <1>7, TablesStay

\* Nothing moves, or everything stops.
LEMMA IdleStep ==
  ASSUME Pipe!PipelineAssumption, Inv, NEW j \in DOMAIN waiting, Pipe!Idle(j)
  PROVE  Inv'
<1>1. UNCHANGED <<reports, vulns, povs, running, dupeLock>>
    BY DEF Pipe!Idle, Pipe!tables
<1>2. DOMAIN waiting' \subseteq DOMAIN waiting
    BY DEF Pipe!Idle, Pipe!Without
<1> QED
    BY <1>1, <1>2 DEF Inv, RowsOK, IsOf, HasRow, PlaceOK, Pipe!Workers

LEMMA CrashStep ==
  ASSUME Pipe!PipelineAssumption, Inv, Pipe!Crash
  PROVE  Inv'
<1>1. UNCHANGED <<reports, vulns, povs>>
      /\ running' = [w \in Pipe!Workers |-> Pipe!Free] /\ dupeLock' = None
    BY DEF Pipe!Crash, Pipe!tables
<1>2. DOMAIN waiting' = DOMAIN waiting \cup {running[w].job : w \in Pipe!Busy}
    BY DEF Pipe!Crash
<1>3. \A w \in Pipe!Busy : HasRow(running[w].job)
    BY DEF Pipe!Busy, Inv, PlaceOK
<1>4. (\A j \in DOMAIN waiting : HasRow(j))'
    BY <1>1, <1>2, <1>3 DEF Inv, HasRow
<1>5. /\ Pipe!Workers' = Pipe!Workers /\ running' \in [Pipe!Workers -> Place]
      /\ \A w \in Pipe!Workers : running'[w] = Pipe!Free
    BY <1>1, FreeType DEF Pipe!Workers
<1>6. (\A w \in Pipe!Workers : PlaceOK(w, running[w]))'
  <2> SUFFICES ASSUME NEW w \in Pipe!Workers PROVE PlaceOK(w, running[w])'
      BY <1>5
  <2>1. PICK s : s = Pipe!Free
      OBVIOUS
  <2>2. dupeLock' # w
      BY <1>1 DEF Inv, Pipe!PipelineAssumption
  <2>3. PlaceOK(w, s)' /\ running'[w] = s
      BY <1>5, <2>1, <2>2, FreeOK
  <2> QED
      BY <2>3
<1> QED
    BY <1>1, <1>4, <1>5, <1>6 DEF Inv, RowsOK, IsOf

LEMMA InitInv == ASSUME Pipe!PipelineAssumption, Pipe!Init PROVE Inv
<1>1. reports = <<>> /\ vulns = <<>> /\ povs = <<>> /\ dupeLock = None
    BY DEF Pipe!Init
<1>2. PICK L \in Launches :
        waiting = [j \in {Pipe!Job(k, 0) : k \in L.jobs} |-> 1]
        /\ running = [w \in 1..L.places |-> Pipe!Free]
    BY DEF Pipe!Init
<1>3. L.jobs \subseteq Pipe!Sources /\ L.places \in Nat
    BY DEF Pipe!PipelineAssumption
<1>4. ASSUME NEW j \in DOMAIN waiting PROVE HasRow(j)
  <2>1. PICK k \in Pipe!Sources : j = Pipe!Job(k, 0)
      BY <1>2, <1>3
  <2>2. j \in Pipe!Jobs /\ j.kind = k
      BY <2>1, JobType DEF Pipe!Kinds
  <2> QED
      BY <2>2 DEF HasRow, Pipe!Sources
<1>5. Pipe!Workers = 1..L.places /\ Pipe!Workers \subseteq Nat
    BY <1>2, <1>3 DEF Pipe!Workers
<1>6. running \in [Pipe!Workers -> Place] /\ \A w \in Pipe!Workers : running[w] = Pipe!Free
    BY <1>2, <1>5, FreeType
<1>7. ASSUME NEW w \in Pipe!Workers PROVE PlaceOK(w, running[w])
  <2>1. w # None
      BY <1>5 DEF Pipe!PipelineAssumption
  <2>2. PICK s : s = Pipe!Free
      OBVIOUS
  <2>3. s \in Place /\ s.job = None /\ s.at = "free" /\ s.todo = {} /\ running[w] = s
      BY <2>2, <1>6, FreeType
  <2> QED
      BY <1>1, <2>1, <2>3 DEF PlaceOK
<1>8. RowsOK
    BY <1>1, EmptySeq DEF RowsOK
<1> QED
    BY <1>1, <1>4, <1>5, <1>6, <1>7, <1>8 DEF Inv

LEMMA NextInv == ASSUME Pipe!PipelineAssumption, Inv, [Pipe!Next]_(Pipe!pipeVars) PROVE Inv'
<1>1. CASE UNCHANGED Pipe!pipeVars
    BY <1>1 DEF Pipe!pipeVars, Pipe!tables, Inv, RowsOK, IsOf, HasRow, PlaceOK, Pipe!Workers
<1>2. ASSUME NEW w \in Pipe!Workers, Pipe!Step(w) PROVE Inv'
    BY <1>2, SubmitStep, EndStep, FailedSteps, ReportSarifStep, NextOfDiffStep, BlamedStep,
       DedupedStep, FirstPassedStep, ProduceMoreStep, ClusterStep DEF Pipe!Step
<1>3. ASSUME NEW w \in Pipe!Workers, NEW j \in DOMAIN waiting, Pipe!BeginJob(w, j) PROVE Inv'
    BY <1>3, ReportStep, ScoreStep, DedupeStarts, ProduceSteps, FailSteps, AskAgentStep,
       ClusterByStackStep DEF Pipe!BeginJob
<1> QED
    BY <1>1, <1>2, <1>3, CrashStep, IdleStep, FailedSteps DEF Pipe!Next

LEMMA InvImplies == ASSUME Inv PROVE Pipe!OneVulnPerBug
<1>1. ASSUME NEW w \in Pipe!Busy, running[w].at = "deduping"
      PROVE  dupeLock = w /\ running[w].seen = Len(vulns)
  <2>1. PICK r : r = running[w]
      OBVIOUS
  <2>2. PlaceOK(w, r)
      BY <2>1 DEF Pipe!Busy, Inv
  <2> QED
      BY <1>1, <2>1, <2>2 DEF PlaceOK
<1> QED
    BY <1>1 DEF Pipe!OneVulnPerBug, Inv, RowsOK, IsOf

-----------------------------------------------------------------------------
(***************************************************************************)
(* Nothing is forgotten, and the retries stay within their budgets.        *)
(***************************************************************************)
\* The sizes of sets are those of FiniteSets.
LEMMA PipeSets ==
  \A S : (Pipe!IsFiniteSet(S) <=> IsFiniteSet(S)) /\ Pipe!Cardinality(S) = Cardinality(S)
    BY DEF Cardinality, Pipe!Cardinality, IsFiniteSet, Pipe!IsFiniteSet

\* What jobs are about, as sent, dropped and gaveUp record it.
Names(J) == {Pipe!Name(j) : j \in J}

\* Only a place that submits has jobs to submit; when a triage comes to its end, the POV has
\* its vulnerability and is bundled or about to be.
TodoOK(r) ==
  /\ r.at # "submit" => r.todo = {}
  /\ r.at = "report" => r.job.kind = "sarif"
  /\ (r.at = "submit" /\ r.job.kind = "triage") =>
       /\ r.next # "more"
       /\ r.next = "end" => /\ povs[r.job.of].vuln # 0
                            /\ <<"bundle_pov", r.job.of>> \in sent \cup Names(r.todo)
  /\ \A i \in r.todo : i.kind = "hint" => i = Pipe!Job("hint", i.of)

Ledger == Pipe!NothingForgotten /\ \A w \in Pipe!Workers : TodoOK(running[w])

\* The hint for v comes from the second failure, one place submits it, and only once.
HintIn(v, J) == Pipe!Job("hint", v) \in J
HintsOnce ==
  /\ failures \in [Pipe!Ids -> Nat]
  /\ \A v \in Pipe!Ids :
       /\ failures[v] < 2 => <<"hint", v>> \notin sent
       /\ \A w \in Pipe!Workers : HintIn(v, running[w].todo) =>
            /\ ~(failures[v] < 2) /\ <<"hint", v>> \notin sent
            /\ \A u \in Pipe!Workers : HintIn(v, running[u].todo) => u = w

\* The retries on account of a vulnerability have different numbers, below the counter.
RetriesCount ==
  /\ extras \in [Pipe!Ids -> Nat]
  /\ \A a \in again : a[2] \in Pipe!Ids =>
       /\ a[3] \in Nat /\ a[3] < extras[a[2]] /\ a[3] < ExtraPovs
       /\ \A c \in again : (c[2] = a[2] /\ c[3] = a[3]) => a = c

Book == Ledger /\ HintsOnce /\ RetriesCount

\* How the tables grow while a place comes to hold s: a new POV has its triage, a POV gets
\* its vulnerability from its triage, a new vulnerability has its patch job.
Grows(s) ==
  /\ \A p \in DOMAIN povs' : p \notin DOMAIN povs =>
       povs'[p].vuln = 0 /\ <<"triage", p>> \in Names(s.todo)
  /\ \A p \in DOMAIN povs : p \in DOMAIN povs' /\
       \/ povs'[p].vuln = povs[p].vuln
       \/ povs'[p].vuln # 0 /\ s.job # None /\ Pipe!Name(s.job) = <<"triage", p>>
  /\ \A v \in DOMAIN vulns' : v \notin DOMAIN vulns =>
       (Patching => <<"patch", v>> \in Names(s.todo))

LEMMA NoGrowth == ASSUME UNCHANGED <<vulns, povs>>, NEW s PROVE Grows(s)
    BY DEF Grows

LEMMA Named ==
  ASSUME NEW J, NEW k, NEW p
  PROVE  <<k, p>> \in Names(J) <=> \E j \in J : j.kind = k /\ j.of = p
    BY DEF Names, Pipe!Name

\* Who is on its way, in terms of rows and places.
LEMMA OnTheWay ==
  ASSUME NEW k, NEW p
  PROVE  /\ <<k, p>> \in Pipe!Queued <=> \E j \in DOMAIN waiting : j.kind = k /\ j.of = p
         /\ <<k, p>> \in Pipe!Doing <=>
              \E w \in Pipe!Busy : running[w].job.kind = k /\ running[w].job.of = p
         /\ <<k, p>> \in Pipe!ToDo <=>
              \E w \in Pipe!Busy : \E j \in running[w].todo : j.kind = k /\ j.of = p
    BY DEF Pipe!Queued, Pipe!Doing, Pipe!ToDo, Pipe!Name

\* What a step keeps of the ledger while the place w goes from r to s.
LEMMA LedgerKept ==
  ASSUME Pipe!PipelineAssumption, Inv, Inv', Ledger, NEW w \in Pipe!Workers, NEW r,
       r = running[w],
         NEW s, running' = [running EXCEPT ![w] = s], TodoOK(s)', Grows(s),
         sent \subseteq sent', dropped \subseteq dropped', gaveUp \subseteq gaveUp',
         \A j \in DOMAIN waiting : j.kind = "triage" => j \in DOMAIN waiting' \/ s.job = j,
         (r.job # None /\ r.job.kind = "triage") =>
           \/ s.job = r.job
           \/ Pipe!Name(r.job) \in gaveUp'
           \/ \E j \in DOMAIN waiting' : j.kind = "triage" /\ j.of = r.job.of
           \/ povs'[r.job.of].vuln # 0 /\ <<"bundle_pov", r.job.of>> \in sent',
         \A i \in r.todo :
           \/ i \in s.todo
           \/ Pipe!Name(i) \in dropped'
           \/ Pipe!Name(i) \in sent' /\ (i.kind = "triage" => i \in DOMAIN waiting')
  PROVE  Ledger'
<1>1. /\ Pipe!Workers' = Pipe!Workers /\ running'[w] = s
      /\ \A u \in Pipe!Workers : u # w => running'[u] = running[u]
    BY DEF Inv, Pipe!Workers
<1>2. /\ \A u \in Pipe!Workers : PlaceOK(u, running[u])
      /\ PlaceOK(w, s)'
  <2>1. (\A u \in Pipe!Workers : PlaceOK(u, running[u]))'
      BY DEF Inv
  <2> QED
      BY <2>1, <1>1 DEF Inv
<1>3. s.todo # {} => s.job # None
    BY <1>2 DEF TodoOK, PlaceOK
<1>4. \A u \in Pipe!Workers : TodoOK(running[u])'
  <2> SUFFICES ASSUME NEW u \in Pipe!Workers PROVE TodoOK(running[u])'
      OBVIOUS
  <2>1. CASE u = w
      BY <2>1, <1>1
  <2>2. CASE u # w
    <3>1. PICK q : q = running[u]
        OBVIOUS
    <3>2. PlaceOK(u, q) /\ TodoOK(q) /\ running'[u] = q
        BY <1>1, <1>2, <2>2, <3>1 DEF Ledger
    <3>3. (q.at = "submit" /\ q.job.kind = "triage") => q.job.of \in DOMAIN povs
        BY <3>2 DEF PlaceOK, HasRow
    <3>4. (q.at = "submit" /\ q.job.kind = "triage" /\ povs[q.job.of].vuln # 0) =>
            povs'[q.job.of].vuln # 0
        BY <3>3 DEF Grows
    <3>5. TodoOK(q)'
        BY <3>2, <3>4 DEF TodoOK
    <3> QED
        BY <3>2, <3>5
  <2> QED
      BY <2>1, <2>2
\* The jobs that are to be submitted still are, but for some of w.
<1>5. \A k, p : <<k, p>> \in Pipe!ToDo =>
        \/ <<k, p>> \in Pipe!ToDo' \/ <<k, p>> \in dropped'
        \/ <<k, p>> \in sent' /\ (k = "triage" => <<k, p>> \in Pipe!Queued')
  <2> SUFFICES ASSUME NEW k, NEW p, <<k, p>> \in Pipe!ToDo
               PROVE  \/ <<k, p>> \in Pipe!ToDo' \/ <<k, p>> \in dropped'
                      \/ <<k, p>> \in sent' /\ (k = "triage" => <<k, p>> \in Pipe!Queued')
      OBVIOUS
  <2>1. PICK u \in Pipe!Busy : \E j \in running[u].todo : j.kind = k /\ j.of = p
      BY OnTheWay
  <2>2. PICK j \in running[u].todo : j.kind = k /\ j.of = p
      BY <2>1
  <2>3. Pipe!Name(j) = <<k, p>>
      BY <2>2 DEF Pipe!Name
  <2>4. CASE u # w
    <3>1. u \in Pipe!Busy' /\ running'[u] = running[u]
        BY <2>4, <1>1 DEF Pipe!Busy
    <3> QED
        BY <3>1, <2>2, <2>3 DEF Pipe!ToDo
  <2>5. CASE u = w /\ j \in s.todo
    <3>1. w \in Pipe!Busy' /\ running'[w] = s
        BY <2>5, <1>1, <1>3 DEF Pipe!Busy
    <3> QED
        BY <3>1, <2>5, <2>3 DEF Pipe!ToDo
  <2>6. CASE u = w /\ j \notin s.todo
    <3>1. \/ <<k, p>> \in dropped'
          \/ <<k, p>> \in sent' /\ (k = "triage" => j \in DOMAIN waiting')
        BY <2>6, <2>2, <2>3
    <3> QED
        BY <3>1, <2>3 DEF Pipe!Queued
  <2> QED
      BY <2>4, <2>5, <2>6
<1>6. \A k, p : (s.job # None /\ Pipe!Name(s.job) = <<k, p>>) => <<k, p>> \in Pipe!Doing'
    BY <1>1 DEF Pipe!Doing, Pipe!Busy
<1>7. \A k, p : <<k, p>> \in Names(s.todo) => <<k, p>> \in Pipe!ToDo'
    BY <1>1, <1>3 DEF Names, Pipe!ToDo, Pipe!Busy
\* The triage jobs are still queued or under way, or they did what they are for.
<1>8. \A p : <<"triage", p>> \in Pipe!Queued => <<"triage", p>> \in Pipe!Queued' \cup Pipe!Doing'
  <2> SUFFICES ASSUME NEW p, <<"triage", p>> \in Pipe!Queued
               PROVE  <<"triage", p>> \in Pipe!Queued' \cup Pipe!Doing'
      OBVIOUS
  <2>1. PICK j \in DOMAIN waiting : j.kind = "triage" /\ j.of = p
      BY OnTheWay
  <2>2. Pipe!Name(j) = <<"triage", p>> /\ j # None
      BY <2>1 DEF Pipe!Name, Inv, HasRow, Pipe!PipelineAssumption
  <2>3. CASE j \in DOMAIN waiting'
      BY <2>2, <2>3 DEF Pipe!Queued
  <2>4. CASE s.job = j
      BY <2>2, <2>4, <1>6
  <2> QED
      BY <2>1, <2>3, <2>4
<1>9. \A p : <<"triage", p>> \in Pipe!Doing =>
        \/ <<"triage", p>> \in Pipe!Queued' \cup Pipe!Doing' \cup gaveUp'
        \/ povs'[p].vuln # 0 /\ <<"bundle_pov", p>> \in sent'
  <2> SUFFICES ASSUME NEW p, <<"triage", p>> \in Pipe!Doing
               PROVE  \/ <<"triage", p>> \in Pipe!Queued' \cup Pipe!Doing' \cup gaveUp'
                      \/ povs'[p].vuln # 0 /\ <<"bundle_pov", p>> \in sent'
      OBVIOUS
  <2>1. PICK u \in Pipe!Busy : running[u].job.kind = "triage" /\ running[u].job.of = p
      BY OnTheWay
  <2>2. PICK j : j = running[u].job
      OBVIOUS
  <2>3. Pipe!Name(j) = <<"triage", p>> /\ j # None
      BY <2>1, <2>2 DEF Pipe!Name, Pipe!Busy
  <2>4. CASE u # w
    <3>1. u \in Pipe!Busy' /\ running'[u] = running[u]
        BY <2>4, <1>1 DEF Pipe!Busy
    <3> QED
        BY <3>1, <2>2, <2>3 DEF Pipe!Doing
  <2>5. CASE u = w
    <3>1. \/ s.job = j
          \/ Pipe!Name(j) \in gaveUp'
          \/ \E i \in DOMAIN waiting' : i.kind = "triage" /\ i.of = p
          \/ povs'[p].vuln # 0 /\ <<"bundle_pov", p>> \in sent'
        BY <2>1, <2>2, <2>3, <2>5
    <3>2. (\E i \in DOMAIN waiting' : i.kind = "triage" /\ i.of = p) =>
            <<"triage", p>> \in Pipe!Queued'
        BY DEF Pipe!Queued, Pipe!Name
    <3> QED
        BY <3>1, <3>2, <2>3, <1>6
  <2> QED
      BY <2>4, <2>5
<1>10. \A v \in DOMAIN vulns' : Patching => <<"patch", v>> \in sent' \cup Pipe!ToDo' \cup dropped'
  <2> SUFFICES ASSUME NEW v \in DOMAIN vulns', Patching
               PROVE  <<"patch", v>> \in sent' \cup Pipe!ToDo' \cup dropped'
      OBVIOUS
  <2>1. CASE v \in DOMAIN vulns
    <3>1. <<"patch", v>> \in sent \cup Pipe!ToDo \cup dropped
        BY <2>1 DEF Ledger, Pipe!NothingForgotten
    <3> QED
        BY <3>1, <1>5
  <2>2. CASE v \notin DOMAIN vulns
      BY <2>2, <1>7 DEF Grows
  <2> QED
      BY <2>1, <2>2
<1>11. \A p \in DOMAIN povs' : povs'[p].vuln = 0 =>
         <<"triage", p>> \in Pipe!Pending' \cup dropped' \cup gaveUp'
  <2> SUFFICES ASSUME NEW p \in DOMAIN povs', povs'[p].vuln = 0
               PROVE  <<"triage", p>> \in Pipe!Pending' \cup dropped' \cup gaveUp'
      OBVIOUS
  <2>1. CASE p \in DOMAIN povs
    <3>1. povs[p].vuln = 0
        BY <2>1 DEF Grows
    <3>2. <<"triage", p>> \in Pipe!Pending \cup dropped \cup gaveUp
        BY <2>1, <3>1 DEF Ledger, Pipe!NothingForgotten
    <3> QED
        BY <3>2, <1>5, <1>8, <1>9 DEF Pipe!Pending
  <2>2. CASE p \notin DOMAIN povs
      BY <2>2, <1>7 DEF Grows, Pipe!Pending
  <2> QED
      BY <2>1, <2>2
<1>12. \A p \in DOMAIN povs' : povs'[p].vuln # 0 =>
         \/ <<"bundle_pov", p>> \in sent'
         \/ <<"triage", p>> \in Pipe!Queued' \cup Pipe!Doing' \cup gaveUp'
  <2> SUFFICES ASSUME NEW p \in DOMAIN povs', povs'[p].vuln # 0
               PROVE  \/ <<"bundle_pov", p>> \in sent'
                      \/ <<"triage", p>> \in Pipe!Queued' \cup Pipe!Doing' \cup gaveUp'
      OBVIOUS
  <2>1. p \in DOMAIN povs
      BY DEF Grows
  <2>2. CASE povs[p].vuln # 0
    <3>1. \/ <<"bundle_pov", p>> \in sent
          \/ <<"triage", p>> \in Pipe!Queued \cup Pipe!Doing \cup gaveUp
        BY <2>1, <2>2 DEF Ledger, Pipe!NothingForgotten
    <3> QED
        BY <3>1, <1>8, <1>9
  <2>3. CASE povs[p].vuln = 0
      BY <2>1, <2>3, <1>6 DEF Grows
  <2> QED
      BY <2>2, <2>3
<1>13. Pipe!NothingForgotten'
    BY <1>10, <1>11, <1>12 DEF Pipe!NothingForgotten, Pipe!Pending
<1> QED
    BY <1>1, <1>4, <1>13 DEF Ledger
-----------------------------------------------------------------------------
\* A step that brings no hint to a place disturbs nothing of the hints: at most the place
\* w submits the one it had.
LEMMA HintsStay ==
  ASSUME Inv, HintsOnce, NEW w \in Pipe!Workers, NEW r, r = running[w],
         NEW s, running' = [running EXCEPT ![w] = s], UNCHANGED failures,
         \A v \in Pipe!Ids : HintIn(v, s.todo) => HintIn(v, r.todo),
         \A v \in Pipe!Ids : <<"hint", v>> \in sent' =>
           <<"hint", v>> \in sent \/ (HintIn(v, r.todo) /\ ~HintIn(v, s.todo))
  PROVE  HintsOnce'
<1>1. /\ Pipe!Workers' = Pipe!Workers /\ running'[w] = s
      /\ \A u \in Pipe!Workers : u # w => running'[u] = running[u]
    BY DEF Inv, Pipe!Workers
<1>2. Pipe!Ids' = Pipe!Ids
    BY DEF Pipe!Ids
<1>3. \A v \in Pipe!Ids : \A u \in Pipe!Workers :
        HintIn(v, running'[u].todo) => HintIn(v, running[u].todo)
    BY <1>1
<1>4. ASSUME NEW v \in Pipe!Ids, failures[v] < 2 PROVE <<"hint", v>> \notin sent'
    BY <1>4 DEF HintsOnce
<1>5. ASSUME NEW v \in Pipe!Ids, NEW u \in Pipe!Workers, HintIn(v, running'[u].todo)
      PROVE  /\ ~(failures[v] < 2) /\ <<"hint", v>> \notin sent'
             /\ \A q \in Pipe!Workers : HintIn(v, running'[q].todo) => q = u
  <2>1. HintIn(v, running[u].todo)
      BY <1>3, <1>5
  <2>2. /\ ~(failures[v] < 2) /\ <<"hint", v>> \notin sent
        /\ \A q \in Pipe!Workers : HintIn(v, running[q].todo) => q = u
      BY <2>1 DEF HintsOnce
  <2>3. <<"hint", v>> \notin sent'
    <3>1. HintIn(v, r.todo) => u = w
        BY <2>2
    <3>2. u = w => HintIn(v, s.todo)
        BY <1>1, <1>5
    <3> QED
        BY <3>1, <3>2, <2>2
  <2> QED
      BY <2>2, <2>3, <1>3
<1> QED
    BY <1>1, <1>2, <1>4, <1>5 DEF HintsOnce, HintIn

LEMMA NoHintIn ==
  ASSUME NEW J, \A i \in J : i.kind # "hint", NEW v
  PROVE  ~HintIn(v, J)
    BY DEF HintIn, Pipe!Job

\* The counters of the steps that do not cluster.
LEMMA RetriesStay == ASSUME RetriesCount, UNCHANGED <<extras, again>> PROVE RetriesCount'
    BY DEF RetriesCount, Pipe!Ids

\* A job begins.
LEMMA Begun ==
  ASSUME Pipe!PipelineAssumption, Inv, Inv', Book, NEW w \in Pipe!Workers,
       NEW j \in DOMAIN waiting,
         NEW kinds, Pipe!Starts(w, j, kinds), NEW s, running' = [running EXCEPT ![w] = s],
         waiting' = Pipe!Without(waiting, j), UNCHANGED <<sent, dropped, gaveUp>>,
         s.job = j, TodoOK(s)', Grows(s)
  PROVE  /\ Ledger'
         /\ (UNCHANGED failures /\ \A i \in s.todo : i.kind # "hint") => HintsOnce'
<1>1. PICK r : r = running[w]
    OBVIOUS
<1>2. PlaceOK(w, r) /\ TodoOK(r) /\ r.job = None
    BY <1>1 DEF Inv, Book, Ledger, Pipe!Starts, Pipe!Busy
<1>3. r.todo = {}
    BY <1>2 DEF PlaceOK, TodoOK
<1>4. \A i \in DOMAIN waiting : i \in DOMAIN waiting' \/ s.job = i
    BY DEF Pipe!Without
<1>5. Ledger'
    BY <1>1, <1>2, <1>3, <1>4, LedgerKept DEF Book
<1>6. ASSUME UNCHANGED failures, \A i \in s.todo : i.kind # "hint" PROVE HintsOnce'
    BY <1>1, <1>6, NoHintIn, HintsStay DEF Book
<1> QED
    BY <1>5, <1>6

\* A job goes on.
LEMMA Moved ==
  ASSUME Pipe!PipelineAssumption, Inv, Inv', Book, NEW w \in Pipe!Workers, NEW r, r = running[w],
         r.todo = {}, NEW s, running' = [running EXCEPT ![w] = s], s.job = r.job,
         UNCHANGED <<waiting, sent, dropped, gaveUp, failures>>, TodoOK(s)', Grows(s),
         \A i \in s.todo : i.kind # "hint"
  PROVE  Ledger' /\ HintsOnce'
<1>1. Ledger'
    BY LedgerKept DEF Book
<1>2. HintsOnce'
    BY NoHintIn, HintsStay DEF Book
<1> QED
    BY <1>1, <1>2

\* Places with nothing to submit, and places that go on to submit jobs.
LEMMA NothingToSubmit ==
  ASSUME NEW s, s.at # "submit", s.todo = {}, s.at = "report" => s.job.kind = "sarif"
  PROVE  TodoOK(s)'
    BY DEF TodoOK

LEMMA Submitting ==
  ASSUME NEW r \in Place, NEW J \in SUBSET Pipe!Jobs, NEW next \in Nexts,
         r.job.kind # "triage" \/ next \in {"cluster", "fail"},
         \A i \in J : i.kind = "hint" => i = Pipe!Job("hint", i.of),
         NEW s, s = Pipe!ToSubmit(r, J, next)
  PROVE  TodoOK(s)' /\ s.job = r.job /\ s.todo = J
<1>1. s.job = r.job /\ s.at = "submit" /\ s.todo = J /\ s.next = next
    BY ToSubmitType
<1> QED
    BY <1>1 DEF TodoOK

-----------------------------------------------------------------------------
\* Jobs that begin.
LEMMA StartsToSubmit ==
  ASSUME NEW j \in Pipe!Jobs, j.kind # "triage", NEW J \in SUBSET Pipe!Jobs, NEW next \in Nexts,
         \A i \in J : i.kind = "hint" => i = Pipe!Job("hint", i.of),
         NEW s, s = Pipe!ToSubmit(Pipe!Started(j), J, next)
  PROVE  TodoOK(s)' /\ s.job = j /\ s.todo = J
<1>1. PICK r \in Place : r = Pipe!Started(j) /\ r.job = j
    BY StartedType
<1> QED
    BY <1>1, Submitting

LEMMA ScoreBook ==
  ASSUME Pipe!PipelineAssumption, Inv, Inv', Book, NEW w \in Pipe!Workers,
       NEW j \in DOMAIN waiting,
         Pipe!Score(w, j)
  PROVE  Book'
<1>1. /\ Pipe!Starts(w, j, {"score"})
      /\ UNCHANGED <<vulns, povs, sent, dropped, gaveUp, failures, extras, again>>
    BY DEF Pipe!Score, Pipe!Begin, Pipe!tables, Pipe!counters
<1>2. PICK J \in SUBSET {Pipe!Job("analyze", j.of)} :
        Pipe!Begin(w, j, Pipe!ToSubmit(Pipe!Started(j), J, "end"))
    BY DEF Pipe!Score
<1>3. j.of \in Nat
    BY <1>1, StartsWith DEF Pipe!Jobs
<1>4. J \in SUBSET Pipe!Jobs /\ \A i \in J : i.kind # "hint"
    BY <1>2, <1>3, JobType, KindsAre
<1>5. PICK s : s = Pipe!ToSubmit(Pipe!Started(j), J, "end")
    OBVIOUS
<1>6. running' = [running EXCEPT ![w] = s] /\ waiting' = Pipe!Without(waiting, j)
    BY <1>2, <1>5 DEF Pipe!Begin
<1>7. Grows(s)
    BY <1>1, NoGrowth
<1>8. j \in Pipe!Jobs /\ j.kind # "triage"
    BY <1>1, StartsWith
<1>9. TodoOK(s)' /\ s.job = j /\ \A i \in s.todo : i.kind # "hint"
    BY <1>4, <1>5, <1>8, StartsToSubmit DEF Nexts
<1>10. Ledger' /\ HintsOnce'
    BY <1>1, <1>6, <1>7, <1>9, Begun
<1> QED
    BY <1>1, <1>10, RetriesStay DEF Book

LEMMA HintFailsBook ==
  ASSUME Pipe!PipelineAssumption, Inv, Inv', Book, NEW w \in Pipe!Workers,
       NEW j \in DOMAIN waiting,
         Pipe!HintFails(w, j)
  PROVE  Book'
<1>1. /\ Pipe!Starts(w, j, {"hint"})
      /\ UNCHANGED <<vulns, povs, sent, dropped, gaveUp, failures, extras, again>>
    BY DEF Pipe!HintFails, Pipe!Begin, Pipe!tables, Pipe!counters
<1>2. PICK s : s = Pipe!ToSubmit(Pipe!Started(j), {}, "fail")
    OBVIOUS
<1>3. running' = [running EXCEPT ![w] = s] /\ waiting' = Pipe!Without(waiting, j)
    BY <1>2 DEF Pipe!HintFails, Pipe!Begin
<1>4. Grows(s)
    BY <1>1, NoGrowth
<1>5. j \in Pipe!Jobs /\ j.kind # "triage"
    BY <1>1, StartsWith
<1>6. TodoOK(s)' /\ s.job = j /\ s.todo = {}
    BY <1>2, <1>5, StartsToSubmit DEF Nexts
<1>7. Ledger' /\ HintsOnce'
    BY <1>1, <1>3, <1>4, <1>6, Begun
<1> QED
    BY <1>1, <1>7, RetriesStay DEF Book

LEMMA ReportBook ==
  ASSUME Pipe!PipelineAssumption, Inv, Inv', Book, NEW w \in Pipe!Workers,
       NEW j \in DOMAIN waiting,
         Pipe!Report(w, j)
  PROVE  Book'
<1>1. /\ Pipe!Starts(w, j, {"launch"})
      /\ UNCHANGED <<vulns, povs, sent, dropped, gaveUp, failures, extras, again>>
    BY DEF Pipe!Report, Pipe!Begin, Pipe!counters
<1>2. PICK i : i = Pipe!Job("score", Pipe!NextId(reports))
    OBVIOUS
<1>3. Pipe!NextId(reports) \in Nat
    BY LenProperties DEF Inv, RowsOK, Pipe!NextId
<1>4. {i} \in SUBSET Pipe!Jobs /\ i.kind # "hint"
    BY <1>2, <1>3, JobType, KindsAre
<1>5. PICK s : s = Pipe!ToSubmit(Pipe!Started(j), {i}, "end")
    OBVIOUS
<1>6. running' = [running EXCEPT ![w] = s] /\ waiting' = Pipe!Without(waiting, j)
    BY <1>2, <1>5 DEF Pipe!Report, Pipe!Begin
<1>7. Grows(s)
    BY <1>1, NoGrowth
<1>8. j \in Pipe!Jobs /\ j.kind # "triage"
    BY <1>1, StartsWith
<1>9. TodoOK(s)' /\ s.job = j /\ \A q \in s.todo : q.kind # "hint"
    BY <1>4, <1>5, <1>8, StartsToSubmit DEF Nexts
<1>10. Ledger' /\ HintsOnce'
    BY <1>1, <1>6, <1>7, <1>9, Begun
<1> QED
    BY <1>1, <1>10, RetriesStay DEF Book

\* Jobs that begin without anything to submit yet.
LEMMA BegunQuietly ==
  ASSUME Pipe!PipelineAssumption, Inv, Inv', Book, NEW w \in Pipe!Workers,
       NEW j \in DOMAIN waiting,
         NEW kinds, Pipe!Starts(w, j, kinds), NEW s, s.job = j, s.at \notin {"submit", "report"},
         s.todo = {},
         Pipe!Begin(w, j, s), UNCHANGED <<Pipe!tables, Pipe!counters, again>>
  PROVE  Book'
<1>1. UNCHANGED <<vulns, povs, sent, dropped, gaveUp, failures, extras, again>>
      /\ running' = [running EXCEPT ![w] = s] /\ waiting' = Pipe!Without(waiting, j)
    BY DEF Pipe!Begin, Pipe!tables, Pipe!counters
<1>2. TodoOK(s)' /\ Grows(s)
    BY <1>1, NoGrowth, NothingToSubmit
<1>3. Ledger' /\ HintsOnce'
    BY <1>1, <1>2, Begun
<1> QED
    BY <1>1, <1>3, RetriesStay DEF Book

LEMMA DedupeStartsBook ==
  ASSUME Pipe!PipelineAssumption, Inv, Inv', Book, NEW w \in Pipe!Workers,
       NEW j \in DOMAIN waiting,
         Pipe!Accept(w, j) \/ Pipe!FirstPass(w, j) \/ Pipe!AnalyzeDiff(w, j)
  PROVE  Book'
<1>1. PICK kinds, b :
        /\ Pipe!Starts(w, j, kinds)
        /\ Pipe!Begin(w, j, Pipe!Deduping(Pipe!Started(j), b)) /\ Pipe!Enter(w)
    BY DEF Pipe!Accept, Pipe!FirstPass, Pipe!AnalyzeDiff
<1>2. PICK s : s = Pipe!Deduping(Pipe!Started(j), b)
    OBVIOUS
<1>3. s.job = j /\ s.at = "deduping" /\ s.todo = {}
    BY <1>2 DEF Pipe!Deduping, Pipe!Started, Pipe!Free
<1> QED
    BY <1>1, <1>2, <1>3, BegunQuietly DEF Pipe!Enter

LEMMA AskAgentBook ==
  ASSUME Pipe!PipelineAssumption, Inv, Inv', Book, NEW w \in Pipe!Workers,
       NEW j \in DOMAIN waiting,
         Pipe!AskAgent(w, j)
  PROVE  Book'
<1>1. PICK s : s = [Pipe!Started(j) EXCEPT !.at = "triage"]
    OBVIOUS
<1>2. s.job = j /\ s.at = "triage" /\ s.todo = {}
    BY <1>1 DEF Pipe!Started, Pipe!Free
<1>3. /\ Pipe!Starts(w, j, {"triage"}) /\ Pipe!Begin(w, j, s)
      /\ UNCHANGED <<Pipe!tables, Pipe!counters, again>>
    BY <1>1 DEF Pipe!AskAgent
<1> QED
    BY <1>2, <1>3, BegunQuietly

\* A POV comes with its triage.
LEMMA PovGrowth ==
  ASSUME Inv, Pipe!AddPov, UNCHANGED <<reports, vulns>>, NEW v \in Nat, NEW i,
         i = Pipe!Triage(Pipe!NextId(povs), v), NEW s, s.todo = {i}
  PROVE  Grows(s) /\ i \in Pipe!Jobs /\ i.kind = "triage"
<1>1. povs \in Seq(PovRow)
    BY DEF Inv, RowsOK
<1>2. PICK b \in Bugs : Pipe!AddPovs(b)
    BY DEF Pipe!AddPov
<1>3. PICK row \in PovRow : row.vuln = 0 /\ povs' = Append(povs, row)
    BY <1>2 DEF PovRow, Pipe!AddPovs
<1>4. /\ povs' \in Seq(PovRow) /\ Len(povs') = Len(povs) + 1 /\ povs'[Len(povs) + 1] = row
      /\ \A p \in 1..Len(povs) : povs'[p] = povs[p]
    BY <1>1, <1>3, AppendProperties
<1>5. DOMAIN povs = 1..Len(povs) /\ DOMAIN povs' = 1..Len(povs') /\ Len(povs) \in Nat
    BY <1>1, <1>4, LenProperties
<1>6. i \in Pipe!Jobs /\ i.kind = "triage" /\ i.of = Len(povs) + 1
    BY <1>5, KindsAre DEF Pipe!NextId, Pipe!Triage, Pipe!Job, Pipe!Jobs
<1>7. <<"triage", Len(povs) + 1>> \in Names(s.todo)
    BY <1>6, Named
<1>8. \A p \in DOMAIN povs' : p \notin DOMAIN povs => p = Len(povs) + 1
    BY <1>4, <1>5
<1>9. \A p \in DOMAIN povs : p \in DOMAIN povs' /\ povs'[p].vuln = povs[p].vuln
    BY <1>4, <1>5
<1> QED
    BY <1>3, <1>4, <1>6, <1>7, <1>8, <1>9 DEF Grows

LEMMA ProduceBook ==
  ASSUME Pipe!PipelineAssumption, Inv, Inv', Book, NEW w \in Pipe!Workers,
       NEW j \in DOMAIN waiting,
         Pipe!Produce(w, j) \/ Pipe!RegisterCrash(w, j)
  PROVE  Book'
<1>1. /\ Pipe!AddPov
      /\ UNCHANGED <<reports, vulns, sent, dropped, gaveUp, failures, extras, again>>
      /\ waiting' = Pipe!Without(waiting, j)
    BY DEF Pipe!Produce, Pipe!RegisterCrash, Pipe!Begin, Pipe!counters
<1>2. PICK kinds : Pipe!Starts(w, j, kinds) /\ "triage" \notin kinds
    BY DEF Pipe!Produce, Pipe!RegisterCrash
<1>3. j \in Pipe!Jobs /\ j.kind # "triage"
    BY <1>2, StartsWith
<1>4. PICK v \in Nat, next \in Nexts :
        running' =
          [running EXCEPT ![w] =
             Pipe!ToSubmit(Pipe!Started(j), {Pipe!Triage(Pipe!NextId(povs), v)}, next)]
    BY <1>3 DEF Pipe!Produce, Pipe!RegisterCrash, Pipe!Begin, Nexts, Pipe!Jobs
<1>5. PICK i : i = Pipe!Triage(Pipe!NextId(povs), v)
    OBVIOUS
<1>6. PICK s : s = Pipe!ToSubmit(Pipe!Started(j), {i}, next)
    OBVIOUS
<1>7. Pipe!NextId(povs) \in Nat
    BY LenProperties DEF Inv, RowsOK, Pipe!NextId
<1>8. i \in Pipe!Jobs /\ i.kind = "triage"
    BY <1>5, <1>7, KindsAre DEF Pipe!Triage, Pipe!Job, Pipe!Jobs
<1>9. TodoOK(s)' /\ s.job = j /\ s.todo = {i}
    BY <1>3, <1>6, <1>8, StartsToSubmit
<1>10. Grows(s)
    BY <1>1, <1>5, <1>9, PovGrowth
<1>11. running' = [running EXCEPT ![w] = s] /\ \A q \in s.todo : q.kind # "hint"
    BY <1>4, <1>5, <1>6, <1>8, <1>9
<1>12. Ledger' /\ HintsOnce'
    BY <1>1, <1>2, <1>9, <1>10, <1>11, Begun
<1> QED
    BY <1>1, <1>12, RetriesStay DEF Book

\* A place that has submitted what it had.
LEMMA HasSubmitted ==
  ASSUME Inv, Book, NEW w \in Pipe!Workers, NEW nexts, Pipe!Submitted(w, nexts), NEW r,
       r = running[w]
  PROVE  /\ r \in Place /\ r.job # None /\ r.job \in Pipe!Jobs /\ HasRow(r.job) /\ r.todo = {}
         /\ r.next \in nexts /\ r.at = "submit" /\ TodoOK(r)
<1>1. PlaceOK(w, r) /\ TodoOK(r)
    BY DEF Inv, Book, Ledger
<1>2. r.at = "submit" /\ r.todo = {} /\ r.next \in nexts
    BY DEF Pipe!Submitted
<1> QED
    BY <1>1, <1>2 DEF PlaceOK, HasRow

LEMMA ProduceMoreBook ==
  ASSUME Pipe!PipelineAssumption, Inv, Inv', Book, NEW w \in Pipe!Workers, Pipe!ProduceMore(w)
  PROVE  Book'
<1>1. /\ Pipe!AddPov /\ Pipe!Submitted(w, {"more"})
      /\ UNCHANGED <<reports, vulns, waiting, sent, dropped, gaveUp, failures, extras, again>>
    BY DEF Pipe!ProduceMore, Pipe!Move, Pipe!counters
<1>2. PICK r : r = running[w]
    OBVIOUS
<1>3. r \in Place /\ r.job \in Pipe!Jobs /\ r.todo = {} /\ r.job.kind = "produce"
    BY <1>1, <1>2, HasSubmitted DEF Pipe!ProduceMore
<1>4. PICK v \in Nat : v = r.job.of
    BY <1>3 DEF Pipe!Jobs
<1>5. PICK i : i = Pipe!Triage(Pipe!NextId(povs), v)
    OBVIOUS
<1>6. PICK s : s = Pipe!ToSubmit(r, {i}, "more")
    OBVIOUS
<1>7. Pipe!NextId(povs) \in Nat
    BY LenProperties DEF Inv, RowsOK, Pipe!NextId
<1>8. i \in Pipe!Jobs /\ i.kind = "triage"
    BY <1>5, <1>7, KindsAre DEF Pipe!Triage, Pipe!Job, Pipe!Jobs
<1>9. TodoOK(s)' /\ s.job = r.job /\ s.todo = {i}
    BY <1>3, <1>6, <1>8, Submitting DEF Nexts
<1>10. Grows(s)
    BY <1>1, <1>5, <1>9, PovGrowth
<1>11. running' = [running EXCEPT ![w] = s] /\ \A q \in s.todo : q.kind # "hint"
    BY <1>2, <1>4, <1>5, <1>6, <1>8, <1>9 DEF Pipe!ProduceMore, Pipe!Move
<1>12. Ledger' /\ HintsOnce'
    BY <1>1, <1>2, <1>3, <1>9, <1>10, <1>11, Moved
<1> QED
    BY <1>1, <1>12, RetriesStay DEF Book

\* A counter goes up.
LEMMA OneMore ==
  ASSUME NEW S, NEW f \in [S -> Nat], NEW x
  PROVE  [f EXCEPT ![x] = @ + 1] \in [S -> Nat]
<1>1. CASE x \in S
  <2>1. f[x] + 1 \in Nat
      BY <1>1
  <2> QED
      BY <2>1
<1>2. CASE x \notin S
    BY <1>2
<1> QED
    BY <1>1, <1>2

\* The second failure is the only one that brings a hint.
LEMMA ProduceFailsBook ==
  ASSUME Pipe!PipelineAssumption, Inv, Inv', Book, NEW w \in Pipe!Workers,
       NEW j \in DOMAIN waiting,
         Pipe!ProduceFails(w, j)
  PROVE  Book'
<1>1. /\ Pipe!Starts(w, j, {"produce"}) /\ failures' = [failures EXCEPT ![j.of] = @ + 1]
      /\ UNCHANGED <<vulns, povs, sent, dropped, gaveUp, extras, again>>
    BY DEF Pipe!ProduceFails, Pipe!Begin, Pipe!tables
<1>2. PICK J : J = IF failures[j.of] = 1 THEN {Pipe!Job("hint", j.of)} ELSE {}
    OBVIOUS
<1>3. j \in Pipe!Jobs /\ j.kind # "triage" /\ j.of \in Nat
    BY <1>1, StartsWith DEF Pipe!Jobs
<1>4. /\ Pipe!Job("hint", j.of) \in Pipe!Jobs /\ Pipe!Job("hint", j.of).kind = "hint"
      /\ Pipe!Job("hint", j.of).of = j.of
    BY <1>3, JobType, KindsAre
<1>5. J \in SUBSET Pipe!Jobs /\ \A i \in J : i = Pipe!Job("hint", i.of)
    BY <1>2, <1>4
<1>6. PICK s : s = Pipe!ToSubmit(Pipe!Started(j), J, "fail")
    OBVIOUS
<1>7. running' = [running EXCEPT ![w] = s] /\ waiting' = Pipe!Without(waiting, j)
    BY <1>2, <1>6 DEF Pipe!ProduceFails, Pipe!Begin
<1>8. TodoOK(s)' /\ s.job = j /\ s.todo = J
    BY <1>3, <1>5, <1>6, StartsToSubmit DEF Nexts
<1>9. Ledger'
    BY <1>1, <1>7, <1>8, NoGrowth, Begun
<1>10. /\ Pipe!Workers' = Pipe!Workers /\ running'[w] = s /\ Pipe!Ids' = Pipe!Ids
       /\ \A u \in Pipe!Workers : u # w => running'[u] = running[u]
    BY <1>7 DEF Inv, Pipe!Workers, Pipe!Ids
<1>11. failures \in [Pipe!Ids -> Nat] /\ failures' \in [Pipe!Ids -> Nat]
  <2>1. failures \in [Pipe!Ids -> Nat]
      BY DEF Book, HintsOnce
  <2> QED
      BY <2>1, <1>1, OneMore
<1>12. \A v \in Pipe!Ids : failures'[v] = IF v = j.of THEN failures[v] + 1 ELSE failures[v]
    BY <1>1, <1>11
<1>13. \A v \in Pipe!Ids : HintIn(v, J) => v = j.of /\ failures[v] = 1
  <2>1. \A v : Pipe!Job("hint", v).of = v
      BY DEF Pipe!Job
  <2> QED
      BY <2>1, <1>2 DEF HintIn
<1>14. ASSUME NEW v \in Pipe!Ids, failures'[v] < 2 PROVE <<"hint", v>> \notin sent'
  <2>1. failures[v] < 2
      BY <1>11, <1>12, <1>14
  <2> QED
      BY <2>1, <1>1 DEF Book, HintsOnce
<1>15. ASSUME NEW v \in Pipe!Ids, NEW u \in Pipe!Workers, HintIn(v, running'[u].todo)
       PROVE  /\ ~(failures'[v] < 2) /\ <<"hint", v>> \notin sent'
              /\ \A q \in Pipe!Workers : HintIn(v, running'[q].todo) => q = u
  <2>1. CASE HintIn(v, J)
    <3>1. v = j.of /\ failures[v] < 2 /\ ~(failures'[v] < 2)
        BY <2>1, <1>11, <1>12, <1>13
    <3>2. <<"hint", v>> \notin sent /\ \A q \in Pipe!Workers : ~HintIn(v, running[q].todo)
        BY <3>1 DEF Book, HintsOnce
    <3>3. \A q \in Pipe!Workers : q # w => ~HintIn(v, running'[q].todo)
        BY <3>2, <1>10
    <3> QED
        BY <3>1, <3>2, <3>3, <1>1, <1>15
  <2>2. CASE ~HintIn(v, J)
    <3>1. \A q \in Pipe!Workers : HintIn(v, running'[q].todo) => HintIn(v, running[q].todo)
        BY <2>2, <1>8, <1>10
    <3>2. /\ ~(failures[v] < 2) /\ <<"hint", v>> \notin sent
          /\ \A q \in Pipe!Workers : HintIn(v, running[q].todo) => q = u
        BY <3>1, <1>15 DEF Book, HintsOnce
    <3>3. ~(failures'[v] < 2)
        BY <3>2, <1>11, <1>12
    <3> QED
        BY <3>1, <3>2, <3>3, <1>1
  <2> QED
      BY <2>1, <2>2
<1>16. HintsOnce'
    BY <1>10, <1>11, <1>14, <1>15 DEF HintsOnce, HintIn
<1> QED
    BY <1>1, <1>9, <1>16, RetriesStay DEF Book

\* cluster_pov: the POV gets a vulnerability and its job; a retry is counted.
LEMMA RetryCounted ==
  ASSUME RetriesCount, ExtraPovs \in Nat, NEW j, NEW v, Pipe!Assign(j, v)
  PROVE  RetriesCount'
<1>1. /\ extras' = IF Pipe!Other(j, v) THEN [extras EXCEPT ![v] = @ + 1] ELSE extras
      /\ again' = IF Pipe!Retried(j, v) THEN again \cup {<<j.expected, v, extras[v]>>} ELSE again
    BY DEF Pipe!Assign
<1>2. extras \in [Pipe!Ids -> Nat] /\ extras' \in [Pipe!Ids -> Nat] /\ Pipe!Ids' = Pipe!Ids
  <2>1. extras \in [Pipe!Ids -> Nat]
      BY DEF RetriesCount
  <2>2. extras' \in [Pipe!Ids -> Nat]
      BY <2>1, <1>1, OneMore
  <2> QED
      BY <2>1, <2>2 DEF Pipe!Ids
<1>3. \A m \in Pipe!Ids : extras[m] \in Nat /\ extras'[m] \in Nat /\ extras[m] <= extras'[m]
    BY <1>1, <1>2
<1>4. (Pipe!Retried(j, v) /\ v \in Pipe!Ids) => extras'[v] = extras[v] + 1
      /\ extras[v] < ExtraPovs
    BY <1>1, <1>2 DEF Pipe!Retried
<1>5. PICK n : n = <<j.expected, v, extras[v]>>
    OBVIOUS
<1>6. n[2] = v /\ n[3] = extras[v]
    BY <1>5
<1>7. \A a \in again' : a \in again \/ (a = n /\ Pipe!Retried(j, v))
    BY <1>1, <1>5
<1>8. ASSUME NEW a \in again, a[2] \in Pipe!Ids
      PROVE  a[3] \in Nat /\ a[3] < extras[a[2]] /\ a[3] < extras'[a[2]] /\ a[3] < ExtraPovs
  <2>1. a[3] \in Nat /\ a[3] < extras[a[2]] /\ a[3] < ExtraPovs
      BY <1>8 DEF RetriesCount
  <2> QED
      BY <2>1, <1>3, <1>8
<1>9. ASSUME NEW a \in again', a[2] \in Pipe!Ids
      PROVE  /\ a[3] \in Nat /\ a[3] < extras'[a[2]] /\ a[3] < ExtraPovs
             /\ \A c \in again' : (c[2] = a[2] /\ c[3] = a[3]) => a = c
  <2>1. CASE a \in again
    <3>1. ASSUME NEW c \in again', c[2] = a[2], c[3] = a[3] PROVE a = c
      <4>1. CASE c \in again
          BY <2>1, <3>1, <4>1, <1>9 DEF RetriesCount
      <4>2. CASE c = n
        <5>1. a[3] < extras[a[2]] /\ a[3] \in Nat
            BY <2>1, <1>8, <1>9
        <5> QED
            BY <5>1, <4>2, <3>1, <1>6
      <4> QED
          BY <4>1, <4>2, <3>1, <1>7
    <3> QED
        BY <2>1, <3>1, <1>8, <1>9
  <2>2. CASE a = n /\ Pipe!Retried(j, v)
    <3>1. v \in Pipe!Ids /\ a[2] = v /\ a[3] = extras[v]
        BY <2>2, <1>6, <1>9
    <3>2. a[3] \in Nat /\ a[3] < extras'[a[2]] /\ a[3] < ExtraPovs
        BY <3>1, <2>2, <1>2, <1>4
    <3>3. ASSUME NEW c \in again', c[2] = a[2], c[3] = a[3] PROVE a = c
      <4>1. c \notin again
        <5> SUFFICES ASSUME c \in again PROVE FALSE
            OBVIOUS
        <5>1. c[3] < extras[c[2]] /\ c[3] \in Nat
            BY <3>1, <3>3, <1>8
        <5> QED
            BY <5>1, <3>1, <3>3
      <4> QED
          BY <4>1, <3>3, <2>2, <1>7
    <3> QED
        BY <3>2, <3>3
  <2> QED
      BY <2>1, <2>2, <1>7, <1>9
<1> QED
    BY <1>2, <1>9 DEF RetriesCount

LEMMA Clusters ==
  ASSUME Pipe!PipelineAssumption, Inv, NEW r \in Place, r.job \in Pipe!Jobs,
       r.job.kind = "triage",
         HasRow(r.job), NEW v, v \in DOMAIN vulns, Pipe!Assign(r.job, v),
         NEW s, s = Pipe!ToSubmit(r, Pipe!Clustered(r.job, v), "end")
  PROVE  /\ Grows(s) /\ TodoOK(s)' /\ s.job = r.job
         /\ \A i \in s.todo : i.kind # "hint"
<1>1. /\ r.job.of \in DOMAIN povs /\ r.job # None
      /\ povs' = [povs EXCEPT ![r.job.of].vuln = v] /\ UNCHANGED vulns
    BY DEF HasRow, Pipe!Assign, Pipe!AssignVulnToPov, Pipe!PipelineAssumption
<1>2. povs \in Seq(PovRow) /\ vulns \in Seq(Bugs)
    BY DEF Inv, RowsOK
<1>3. \A p \in DOMAIN povs : povs[p] \in PovRow
    BY <1>2, LenProperties, ElementOfSeq
<1>4. v \in Nat /\ v # 0
    BY <1>2, LenProperties
<1>5. /\ DOMAIN povs' = DOMAIN povs /\ povs'[r.job.of].vuln = v
      /\ \A p \in DOMAIN povs : p # r.job.of => povs'[p] = povs[p]
    BY <1>1, <1>3 DEF PovRow
<1>6. PICK m \in Nat, n \in Nat : m = r.job.of /\ n = r.job.expected
    BY DEF Pipe!Jobs
<1>7. PICK J : J = Pipe!Clustered(r.job, v)
    OBVIOUS
<1>8. /\ Pipe!Job("bundle_pov", m) \in J
      /\ \A i \in J : i = Pipe!Job("bundle_pov", m) \/ i = Pipe!Job("produce", n)
    BY <1>6, <1>7 DEF Pipe!Clustered, Pipe!Bundled
<1>9. /\ Pipe!Job("bundle_pov", m).kind = "bundle_pov" /\ Pipe!Job("bundle_pov", m).of = m
      /\ \A i \in J : i \in Pipe!Jobs /\ i.kind # "hint"
    BY <1>8, JobType, KindsAre
<1>10. s.job = r.job /\ s.at = "submit" /\ s.todo = J /\ s.next = "end"
  <2>1. J \in SUBSET Pipe!Jobs /\ "end" \in Nexts
      BY <1>9 DEF Nexts
  <2> QED
      BY <2>1, <1>7, ToSubmitType
<1>11. <<"bundle_pov", m>> \in Names(s.todo)
    BY <1>8, <1>9, <1>10, Named
<1>12. TodoOK(s)'
    BY <1>4, <1>5, <1>6, <1>9, <1>10, <1>11 DEF TodoOK, Names
<1>13. Pipe!Name(s.job) = <<"triage", r.job.of>>
    BY <1>10 DEF Pipe!Name
<1>14. Grows(s)
    BY <1>1, <1>4, <1>5, <1>10, <1>13 DEF Grows
<1> QED
    BY <1>9, <1>10, <1>12, <1>14

LEMMA ClusterByStackBook ==
  ASSUME Pipe!PipelineAssumption, Inv, Inv', Book, NEW w \in Pipe!Workers,
       NEW j \in DOMAIN waiting,
         Pipe!ClusterByStack(w, j)
  PROVE  Book'
<1>1. Pipe!Starts(w, j, {"triage"})
    BY DEF Pipe!ClusterByStack
<1>2. PICK v : /\ v \in DOMAIN vulns /\ Pipe!Assign(j, v)
               /\ Pipe!Begin(w, j, Pipe!ToSubmit(Pipe!Started(j), Pipe!Clustered(j, v), "end"))
  <2>1. PICK q \in Pipe!ByStack(j.of) :
          /\ Pipe!Assign(j, povs[q].vuln)
          /\ Pipe!Begin(w, j,
               Pipe!ToSubmit(Pipe!Started(j), Pipe!Clustered(j, povs[q].vuln), "end"))
      BY DEF Pipe!ClusterByStack
  <2>2. povs[q].vuln \in DOMAIN vulns
      BY <2>1 DEF Pipe!ByStack, Pipe!WithStack, Inv, RowsOK, IsOf
  <2> QED
      BY <2>1, <2>2
<1>3. PICK r \in Place : r = Pipe!Started(j) /\ r.job = j
    BY <1>1, StartsWith
<1>4. r.job \in Pipe!Jobs /\ r.job.kind = "triage" /\ HasRow(r.job)
    BY <1>1, <1>3, StartsWith
<1>5. PICK s : s = Pipe!ToSubmit(r, Pipe!Clustered(r.job, v), "end")
    OBVIOUS
<1>6. /\ running' = [running EXCEPT ![w] = s] /\ waiting' = Pipe!Without(waiting, j)
      /\ UNCHANGED <<sent, dropped, gaveUp, failures>> /\ Pipe!Assign(r.job, v)
    BY <1>2, <1>3, <1>5 DEF Pipe!Begin, Pipe!Assign
<1>7. Grows(s) /\ TodoOK(s)' /\ s.job = j /\ \A i \in s.todo : i.kind # "hint"
    BY <1>2, <1>3, <1>4, <1>5, <1>6, Clusters
<1>8. Ledger' /\ HintsOnce'
    BY <1>1, <1>6, <1>7, Begun
<1> QED
    BY <1>2, <1>8, RetryCounted DEF Book, Pipe!PipelineAssumption

LEMMA ClusterBook ==
  ASSUME Pipe!PipelineAssumption, Inv, Inv', Book, NEW w \in Pipe!Workers, Pipe!Cluster(w)
  PROVE  Book'
<1>1. PICK r : r = running[w]
    OBVIOUS
<1>2. /\ r \in Place /\ r.job \in Pipe!Jobs /\ HasRow(r.job) /\ r.todo = {} /\ r.next = "cluster"
      /\ r.at = "submit"
    BY <1>1, HasSubmitted DEF Pipe!Cluster
<1>3. r.job.kind = "triage" /\ r.vuln \in DOMAIN vulns
    BY <1>1, <1>2 DEF Inv, PlaceOK, IsOf
<1>4. PICK v : v = r.vuln
    OBVIOUS
<1>5. PICK s : s = Pipe!ToSubmit(r, Pipe!Clustered(r.job, v), "end")
    OBVIOUS
<1>6. /\ running' = [running EXCEPT ![w] = s] /\ Pipe!Assign(r.job, v)
      /\ UNCHANGED <<waiting, sent, dropped, gaveUp, failures>>
    BY <1>1, <1>4, <1>5 DEF Pipe!Cluster, Pipe!Move, Pipe!Assign
<1>7. Grows(s) /\ TodoOK(s)' /\ s.job = r.job /\ \A i \in s.todo : i.kind # "hint"
    BY <1>2, <1>3, <1>4, <1>5, <1>6, Clusters
<1>8. Ledger' /\ HintsOnce'
    BY <1>1, <1>2, <1>6, <1>7, Moved
<1> QED
    BY <1>6, <1>8, RetryCounted DEF Book, Pipe!PipelineAssumption

-----------------------------------------------------------------------------
\* Jobs that go on with nothing to submit.
LEMMA MovedQuietly ==
  ASSUME Pipe!PipelineAssumption, Inv, Inv', Book, NEW w \in Pipe!Workers, NEW r, r = running[w],
         r.todo = {}, NEW s, s.job = r.job, s.at # "submit", s.todo = {}, Pipe!Move(w, s),
         s.at = "report" => s.job.kind = "sarif",
         UNCHANGED <<vulns, povs, Pipe!counters, again>>
  PROVE  Book'
<1>1. UNCHANGED <<waiting, sent, dropped, gaveUp, failures, extras, again>>
      /\ running' = [running EXCEPT ![w] = s]
    BY DEF Pipe!Move, Pipe!counters
<1>2. TodoOK(s)' /\ Grows(s)
    BY NoGrowth, NothingToSubmit
<1>3. Ledger' /\ HintsOnce'
    BY <1>1, <1>2, Moved
<1> QED
    BY <1>1, <1>3, RetriesStay DEF Book

LEMMA EntersBook ==
  ASSUME Pipe!PipelineAssumption, Inv, Inv', Book, NEW w \in Pipe!Workers,
         Pipe!NextOfDiff(w) \/ Pipe!Blamed(w) \/ Pipe!FirstPassed(w)
  PROVE  Book'
<1>1. PICK r : r = running[w]
    OBVIOUS
<1>2. r.todo = {}
    BY <1>1 DEF Pipe!NextOfDiff, Pipe!Blamed, Pipe!FirstPassed, Pipe!Submitted, Book, Ledger,
       TodoOK
<1>3. PICK s : /\ Pipe!Move(w, s) /\ s.job = r.job /\ s.todo = r.todo
               /\ s.at \in {"deduping", "report"}
               /\ s.at = "report" => s.job.kind = "sarif"
  <2>1. ASSUME NEW b PROVE /\ Pipe!Deduping(r, b).job = r.job /\ Pipe!Deduping(r, b).todo = r.todo
                           /\ Pipe!Deduping(r, b).at = "deduping"
    <3>1. r \in Place
        BY <1>1 DEF Inv
    <3> QED
        BY <3>1 DEF Pipe!Deduping, Place
  <2>2. CASE Pipe!NextOfDiff(w) \/ Pipe!Blamed(w)
      BY <2>1, <2>2, <1>1 DEF Pipe!NextOfDiff, Pipe!Blamed
  <2>3. CASE Pipe!FirstPassed(w)
    <3>1. PICK q : q = [r EXCEPT !.at = "report"]
        OBVIOUS
    <3>2. q.job = r.job /\ q.todo = r.todo /\ q.at = "report"
        BY <3>1, <1>1 DEF Inv, Place
    <3>3. Pipe!Move(w, q) /\ q.job.kind = "sarif"
        BY <3>1, <3>2, <2>3, <1>1 DEF Pipe!FirstPassed
    <3> QED
        BY <3>2, <3>3
  <2> QED
      BY <2>2, <2>3
<1>4. UNCHANGED <<vulns, povs, Pipe!counters, again>>
    BY DEF Pipe!NextOfDiff, Pipe!Blamed, Pipe!FirstPassed, Pipe!Enter, Pipe!tables
<1> QED
    BY <1>1, <1>2, <1>3, <1>4, MovedQuietly

LEMMA ReportSarifBook ==
  ASSUME Pipe!PipelineAssumption, Inv, Inv', Book, NEW w \in Pipe!Workers, Pipe!ReportSarif(w)
  PROVE  Book'
<1>1. PICK r : r = running[w]
    OBVIOUS
<1>2. PlaceOK(w, r) /\ TodoOK(r) /\ r.at = "report"
    BY <1>1 DEF Inv, Book, Ledger, Pipe!ReportSarif
<1>3. r \in Place /\ r.todo = {}
    BY <1>2 DEF PlaceOK, TodoOK
<1>4. PICK i : i = Pipe!Job("analyze", Pipe!NextId(reports))
    OBVIOUS
<1>5. Pipe!NextId(reports) \in Nat
    BY LenProperties DEF Inv, RowsOK, Pipe!NextId
<1>6. i \in Pipe!Jobs /\ i.kind = "analyze"
    BY <1>4, <1>5, JobType, KindsAre
<1>7. PICK s : s = Pipe!ToSubmit(r, {i}, "end")
    OBVIOUS
<1>8. r.job.kind # "triage"
    BY <1>2 DEF TodoOK
<1>9. TodoOK(s)' /\ s.job = r.job /\ s.todo = {i}
    BY <1>3, <1>6, <1>7, <1>8, Submitting DEF Nexts
<1>10. /\ UNCHANGED <<waiting, vulns, povs, sent, dropped, gaveUp, failures, extras, again>>
       /\ running' = [running EXCEPT ![w] = s]
    BY <1>1, <1>4, <1>7 DEF Pipe!ReportSarif, Pipe!Move, Pipe!counters
<1>11. Ledger' /\ HintsOnce'
    BY <1>1, <1>3, <1>6, <1>9, <1>10, NoGrowth, Moved
<1> QED
    BY <1>10, <1>11, RetriesStay DEF Book

\* The end of a deduplication: a vulnerability that is new comes with its patch job.
LEMMA FollowedUp ==
  ASSUME Inv, NEW j, NEW v \in Nat, NEW J, J = Pipe!Follow(j, v)
  PROVE  /\ J \in SUBSET Pipe!Jobs /\ \A i \in J : i.kind # "hint"
         /\ Patching => <<"patch", v>> \in Names(J)
<1>1. \A i \in J : i = Pipe!Job("bundle_sarif", v)
                        \/ i = Pipe!Job("patch", v) \/ i = Pipe!Job("produce", v)
    BY DEF Pipe!Follow
<1>2. \A i \in J : i \in Pipe!Jobs /\ i.kind # "hint"
    BY <1>1, JobType, KindsAre
<1>3. Patching => Pipe!Job("patch", v) \in J
    BY DEF Pipe!Follow
<1>4. Pipe!Job("patch", v).kind = "patch" /\ Pipe!Job("patch", v).of = v
    BY JobType, KindsAre
<1> QED
    BY <1>2, <1>3, <1>4, Named

LEMMA DedupedBook ==
  ASSUME Pipe!PipelineAssumption, Inv, Inv', Book, NEW w \in Pipe!Workers, Pipe!Deduped(w)
  PROVE  Book'
<1>1. PICK r : r = running[w]
    OBVIOUS
<1>2. PlaceOK(w, r) /\ TodoOK(r) /\ r.at = "deduping"
    BY <1>1 DEF Inv, Book, Ledger, Pipe!Deduped
<1>3. r \in Place /\ r.todo = {}
    BY <1>2 DEF PlaceOK, TodoOK
<1>4. UNCHANGED <<povs, failures, extras, again>>
    BY DEF Pipe!Deduped, Pipe!counters
<1>5. vulns \in Seq(Bugs)
    BY DEF Inv, RowsOK
<1>6. PICK v, J, s :
        /\ v \in Nat /\ J \in SUBSET Pipe!Jobs
        /\ \A i \in J : i.kind # "hint"
        /\ s = [Pipe!ToSubmit(r, J, Pipe!After(r.job)) EXCEPT !.vuln = v] /\ Pipe!Move(w, s)
        /\ \A u \in DOMAIN vulns' : u \notin DOMAIN vulns =>
             (Patching => <<"patch", u>> \in Names(J))
  <2>1. CASE /\ Pipe!AddVuln(r.bug)
             /\ Pipe!Move(w,
                [Pipe!ToSubmit(r, Pipe!Follow(r.job, Pipe!NextId(vulns)), Pipe!After(r.job))
                           EXCEPT !.vuln = Pipe!NextId(vulns)])
    <3>1. PICK v : v = Pipe!NextId(vulns)
        OBVIOUS
    <3>2. r.bug \in Bugs
        BY <1>2 DEF PlaceOK
    <3>3. /\ Len(vulns') = Len(vulns) + 1 /\ vulns' \in Seq(Bugs)
        BY <2>1, <3>2, <1>5, AppendProperties DEF Pipe!AddVuln
    <3>4. v \in Nat /\ \A u \in DOMAIN vulns' : u \notin DOMAIN vulns => u = v
      <4>1. DOMAIN vulns = 1..Len(vulns) /\ DOMAIN vulns' = 1..Len(vulns') /\ Len(vulns) \in Nat
          BY <1>5, <3>3, LenProperties
      <4> QED
          BY <4>1, <3>1, <3>3 DEF Pipe!NextId
    <3>5. PICK J : J = Pipe!Follow(r.job, v)
        OBVIOUS
    <3>6. /\ J \in SUBSET Pipe!Jobs /\ \A i \in J : i.kind # "hint"
          /\ Patching => <<"patch", v>> \in Names(J)
        BY <3>4, <3>5, FollowedUp
    <3>7. PICK s : s = [Pipe!ToSubmit(r, J, Pipe!After(r.job)) EXCEPT !.vuln = v]
        OBVIOUS
    <3>8. Pipe!Move(w, s)
        BY <2>1, <3>1, <3>5, <3>7
    <3> QED
        BY <3>4, <3>6, <3>7, <3>8
  <2>2. ASSUME NEW v \in Pipe!Match(r), UNCHANGED vulns,
               Pipe!Move(w, [Pipe!ToSubmit(r, {}, Pipe!After(r.job)) EXCEPT !.vuln = v])
        PROVE  v \in Nat /\ \A u \in DOMAIN vulns' : u \in DOMAIN vulns
    <3>1. r.seen \in Nat
        BY <1>3 DEF Place
    <3> QED
        BY <2>2, <3>1 DEF Pipe!Match
  <2>3. CASE \E v \in Pipe!Match(r) :
               /\ Pipe!Move(w, [Pipe!ToSubmit(r, Pipe!FollowKnown(r.job, v), Pipe!After(r.job))
                             EXCEPT !.vuln = v])
               /\ UNCHANGED vulns
    <3>1. PICK v \in Pipe!Match(r) :
               /\ Pipe!Move(w, [Pipe!ToSubmit(r, {}, Pipe!After(r.job)) EXCEPT !.vuln = v])
               /\ UNCHANGED vulns
        BY <2>3 DEF Pipe!FollowKnown
    <3>2. v \in Nat /\ \A u \in DOMAIN vulns' : u \in DOMAIN vulns
        BY <2>2, <3>1
    <3>3. PICK J \in SUBSET Pipe!Jobs : J = {}
        OBVIOUS
    <3>4. PICK s : s = [Pipe!ToSubmit(r, J, Pipe!After(r.job)) EXCEPT !.vuln = v]
        OBVIOUS
    <3>5. Pipe!Move(w, s)
        BY <3>1, <3>3, <3>4
    <3> QED
        BY <3>2, <3>3, <3>4, <3>5
  <2> QED
      BY <2>1, <2>3, <1>1 DEF Pipe!Deduped
<1>7. TodoOK(s)' /\ s.job = r.job /\ s.todo = J
  <2>1. Pipe!After(r.job) \in Nexts /\ (r.job.kind = "triage" => Pipe!After(r.job) = "cluster")
      BY DEF Pipe!After, Nexts
  <2>2. PICK q : q = Pipe!ToSubmit(r, J, Pipe!After(r.job))
      OBVIOUS
  <2>3. /\ q \in Place /\ q.job = r.job /\ q.at = "submit" /\ q.todo = J
        /\ q.next = Pipe!After(r.job)
      BY <1>3, <1>6, <2>1, <2>2, ToSubmitType
  <2>4. s = [q EXCEPT !.vuln = v]
      BY <1>6, <2>2
  <2>5. s.job = r.job /\ s.at = "submit" /\ s.todo = J /\ s.next = Pipe!After(r.job)
      BY <2>3, <2>4 DEF Place
  <2> QED
      BY <1>6, <2>1, <2>5 DEF TodoOK
<1>8. Grows(s)
    BY <1>4, <1>6, <1>7 DEF Grows
<1>9. UNCHANGED <<waiting, sent, dropped, gaveUp>> /\ running' = [running EXCEPT ![w] = s]
    BY <1>6 DEF Pipe!Move
<1>10. Ledger' /\ HintsOnce'
    BY <1>1, <1>3, <1>4, <1>6, <1>7, <1>8, <1>9, Moved
<1> QED
    BY <1>4, <1>10, RetriesStay DEF Book

-----------------------------------------------------------------------------
\* A job is submitted.
LEMMA SubmitBook ==
  ASSUME Pipe!PipelineAssumption, Inv, Inv', Book, NEW w \in Pipe!Workers, Pipe!Submit(w)
  PROVE  Book'
<1>1. PICK r : r = running[w]
    OBVIOUS
<1>2. /\ r \in Place /\ r.at = "submit" /\ TodoOK(r)
      /\ UNCHANGED <<vulns, povs, dropped, gaveUp, failures, extras, again>>
    BY <1>1 DEF Inv, Book, Ledger, Pipe!Submit, Pipe!tables, Pipe!counters
<1>3. PICK j \in r.todo :
        /\ running' = [running EXCEPT ![w].todo = @ \ {j}]
        /\ waiting' = IF j.kind \in Pipe!Elsewhere THEN waiting ELSE Pipe!With(waiting, {j})
        /\ sent' = sent \cup {Pipe!Name(j)}
    BY <1>1 DEF Pipe!Submit
<1>4. PICK s : s = [r EXCEPT !.todo = @ \ {j}]
    OBVIOUS
<1>5. running' = [running EXCEPT ![w] = s]
    BY <1>1, <1>3, <1>4
<1>6. s.job = r.job /\ s.at = "submit" /\ s.todo = r.todo \ {j} /\ s.next = r.next
    BY <1>2, <1>4 DEF Place
<1>7. TodoOK(s)'
  <2>1. (r.job.kind = "triage" /\ r.next = "end") =>
          <<"bundle_pov", r.job.of>> \in sent' \cup Names(s.todo)
      BY <1>2, <1>3, <1>6 DEF TodoOK, Names
  <2> QED
      BY <2>1, <1>2, <1>6 DEF TodoOK, Names
<1>8. \A i \in DOMAIN waiting : i \in DOMAIN waiting'
    BY <1>3 DEF Pipe!With
<1>9. j.kind = "triage" => j \in DOMAIN waiting'
    BY <1>3 DEF Pipe!With, Pipe!Elsewhere
<1>10. Ledger'
  <2>1. \A i \in r.todo :
          i \in s.todo \/ (Pipe!Name(i) \in sent' /\ (i.kind = "triage" => i \in DOMAIN waiting'))
      BY <1>3, <1>6, <1>9
  <2>2. Grows(s) /\ sent \subseteq sent'
      BY <1>2, <1>3, NoGrowth
  <2> QED
      BY <2>1, <2>2, <1>1, <1>2, <1>5, <1>6, <1>7, <1>8, LedgerKept DEF Book
<1>11. ASSUME NEW v \in Pipe!Ids, <<"hint", v>> \in sent', <<"hint", v>> \notin sent
       PROVE  HintIn(v, r.todo) /\ ~HintIn(v, s.todo)
  <2>1. Pipe!Name(j) = <<"hint", v>>
      BY <1>3, <1>11
  <2>2. j.kind = "hint" /\ j.of = v
      BY <2>1 DEF Pipe!Name
  <2>3. j = Pipe!Job("hint", v)
      BY <2>2, <1>2 DEF TodoOK
  <2> QED
      BY <2>3, <1>6 DEF HintIn
<1>12. HintsOnce'
  <2>1. \A v \in Pipe!Ids : HintIn(v, s.todo) => HintIn(v, r.todo)
      BY <1>6 DEF HintIn
  <2> QED
      BY <2>1, <1>1, <1>2, <1>5, <1>11, HintsStay DEF Book
<1> QED
    BY <1>2, <1>10, <1>12, RetriesStay DEF Book

\* A place that becomes free.
LEMMA Freed ==
  /\ Pipe!Free.todo = {} /\ TodoOK(Pipe!Free)' /\ \A v : ~HintIn(v, Pipe!Free.todo)
    BY DEF Pipe!Free, TodoOK, HintIn

LEMMA EndBook ==
  ASSUME Pipe!PipelineAssumption, Inv, Inv', Book, NEW w \in Pipe!Workers, Pipe!End(w)
  PROVE  Book'
<1>1. PICK r : r = running[w]
    OBVIOUS
<1>2. /\ r.todo = {} /\ r.next \in {"end", "more"} /\ r.at = "submit" /\ TodoOK(r)
    BY <1>1, HasSubmitted DEF Pipe!End
<1>3. /\ running' = [running EXCEPT ![w] = Pipe!Free]
      /\ UNCHANGED <<vulns, povs, waiting, sent, dropped, gaveUp, failures, extras, again>>
    BY DEF Pipe!End, Pipe!Ended, Pipe!Move, Pipe!tables, Pipe!counters
<1>4. r.job.kind = "triage" => /\ povs[r.job.of].vuln # 0
                               /\ <<"bundle_pov", r.job.of>> \in sent
    BY <1>2 DEF TodoOK, Names
<1>5. PICK s : s = Pipe!Free
    OBVIOUS
<1>6. s.todo = {} /\ TodoOK(s)' /\ \A v : ~HintIn(v, s.todo)
    BY <1>5, Freed
<1>7. Ledger'
    BY <1>1, <1>2, <1>3, <1>4, <1>5, <1>6, NoGrowth, LedgerKept DEF Book
<1>8. HintsOnce'
    BY <1>1, <1>3, <1>5, <1>6, HintsStay DEF Book
<1> QED
    BY <1>3, <1>7, <1>8, RetriesStay DEF Book

\* A job that fails is queued again or gives up; what it had to submit is dropped.
LEMMA FailedBook ==
  ASSUME Pipe!PipelineAssumption, Inv, Inv', Book, NEW w \in Pipe!Workers,
       Pipe!Retry(w) \/ Pipe!Fault(w)
  PROVE  Book'
<1>1. PICK r : r = running[w]
    OBVIOUS
<1>2. Pipe!Failed(w) /\ UNCHANGED <<vulns, povs, sent, failures, extras, again>>
    BY DEF Pipe!Retry, Pipe!Fault, Pipe!tables, Pipe!counters
<1>3. PICK s : s = Pipe!Free
    OBVIOUS
<1>4. s.todo = {} /\ TodoOK(s)' /\ \A v : ~HintIn(v, s.todo)
    BY <1>3, Freed
<1>5. /\ running' = [running EXCEPT ![w] = s]
      /\ dropped' = dropped \cup {Pipe!Name(i) : i \in r.todo}
    BY <1>1, <1>2, <1>3 DEF Pipe!Failed
<1>6. PlaceOK(w, r)
    BY <1>1 DEF Inv
<1>7. r.job # None => r.job \in Pipe!Jobs
    BY <1>6 DEF PlaceOK, HasRow
<1>8. r.job # None =>
        \/ /\ [r.job EXCEPT !.tries = @ + 1] \in DOMAIN waiting'
           /\ DOMAIN waiting \subseteq DOMAIN waiting' /\ UNCHANGED gaveUp
        \/ waiting' = waiting /\ gaveUp' = gaveUp \cup {Pipe!Name(r.job)}
    BY <1>1, <1>2 DEF Pipe!Failed, Pipe!With
<1>9. r.job # None /\ r.job \in Pipe!Jobs
  <2>1. CASE Pipe!Retry(w)
      BY <2>1, <1>1, HasSubmitted DEF Pipe!Retry
  <2>2. CASE Pipe!Fault(w)
      BY <2>2, <1>1, <1>7 DEF Pipe!Fault, Pipe!Busy
  <2> QED
      BY <2>1, <2>2
<1>10. PICK i : i = [r.job EXCEPT !.tries = @ + 1]
    OBVIOUS
<1>11. i.kind = r.job.kind /\ i.of = r.job.of
    BY <1>9, <1>10 DEF Pipe!Jobs
<1>12. /\ \A j \in DOMAIN waiting : j \in DOMAIN waiting'
       /\ gaveUp \subseteq gaveUp' /\ dropped \subseteq dropped'
       /\ \/ Pipe!Name(r.job) \in gaveUp'
          \/ \E j \in DOMAIN waiting' : j.kind = r.job.kind /\ j.of = r.job.of
       /\ \A j \in r.todo : Pipe!Name(j) \in dropped'
    BY <1>5, <1>8, <1>9, <1>10, <1>11
<1>13. Ledger'
    BY <1>1, <1>2, <1>4, <1>5, <1>12, NoGrowth, LedgerKept DEF Book
<1>14. HintsOnce'
    BY <1>1, <1>2, <1>4, <1>5, HintsStay DEF Book
<1> QED
    BY <1>2, <1>13, <1>14, RetriesStay DEF Book

-----------------------------------------------------------------------------
\* Jobs with nothing to do are no triages, and a crash queues what was running again.
LEMMA IdleBook ==
  ASSUME Pipe!PipelineAssumption, Inv, Inv', Book, NEW j \in DOMAIN waiting, Pipe!Idle(j)
  PROVE  Book'
<1>1. /\ waiting' = Pipe!Without(waiting, j) /\ j.kind # "triage"
      /\ UNCHANGED <<vulns, povs, running, sent, dropped, gaveUp, failures, extras, again>>
    BY DEF Pipe!Idle, Pipe!tables, Pipe!counters
<1>2. \A i \in DOMAIN waiting : i.kind = "triage" => i \in DOMAIN waiting'
    BY <1>1 DEF Pipe!Without
<1>3. \A p : <<"triage", p>> \in Pipe!Queued => <<"triage", p>> \in Pipe!Queued'
  <2> SUFFICES ASSUME NEW p, <<"triage", p>> \in Pipe!Queued PROVE <<"triage", p>>
  \in Pipe!Queued'
      OBVIOUS
  <2>1. PICK i \in DOMAIN waiting : i.kind = "triage" /\ i.of = p
      BY OnTheWay
  <2> QED
      BY <2>1, <1>2 DEF Pipe!Queued, Pipe!Name
<1>4. Pipe!Doing' = Pipe!Doing /\ Pipe!ToDo' = Pipe!ToDo /\ Pipe!Workers' = Pipe!Workers
    BY <1>1 DEF Pipe!Doing, Pipe!ToDo, Pipe!Busy, Pipe!Workers
<1>5. Pipe!NothingForgotten'
    BY <1>1, <1>3, <1>4 DEF Book, Ledger, Pipe!NothingForgotten, Pipe!Pending
<1>6. Ledger'
    BY <1>1, <1>4, <1>5 DEF Book, Ledger, TodoOK
<1>7. HintsOnce'
    BY <1>1, <1>4 DEF Book, HintsOnce, HintIn, Pipe!Ids
<1> QED
    BY <1>1, <1>6, <1>7, RetriesStay DEF Book

LEMMA CrashBook ==
  ASSUME Pipe!PipelineAssumption, Inv, Inv', Book, Pipe!Crash
  PROVE  Book'
<1>1. /\ running' = [w \in Pipe!Workers |-> Pipe!Free]
      /\ DOMAIN waiting' = DOMAIN waiting \cup {running[w].job : w \in Pipe!Busy}
      /\ dropped' = dropped \cup {Pipe!Name(j) : j \in UNION {running[w].todo : w \in Pipe!Busy}}
      /\ UNCHANGED <<vulns, povs, sent, gaveUp, failures, extras, again>>
    BY DEF Pipe!Crash, Pipe!tables, Pipe!counters
<1>2. Pipe!Workers' = Pipe!Workers /\ \A w \in Pipe!Workers : running'[w] = Pipe!Free
    BY <1>1 DEF Pipe!Workers
<1>3. Pipe!Queued \cup Pipe!Doing \subseteq Pipe!Queued'
    BY <1>1 DEF Pipe!Queued, Pipe!Doing
<1>4. Pipe!ToDo \subseteq dropped' /\ dropped \subseteq dropped'
    BY <1>1 DEF Pipe!ToDo
<1>5. Pipe!NothingForgotten'
  <2>1. \A v \in DOMAIN vulns : Patching => <<"patch", v>> \in sent \cup dropped'
      BY <1>4 DEF Book, Ledger, Pipe!NothingForgotten
  <2>2. \A p \in DOMAIN povs : povs[p].vuln = 0 =>
          <<"triage", p>> \in Pipe!Queued' \cup dropped' \cup gaveUp
      BY <1>3, <1>4 DEF Book, Ledger, Pipe!NothingForgotten, Pipe!Pending
  <2>3. \A p \in DOMAIN povs : povs[p].vuln # 0 =>
          \/ <<"bundle_pov", p>> \in sent
          \/ <<"triage", p>> \in Pipe!Queued' \cup gaveUp
      BY <1>3 DEF Book, Ledger, Pipe!NothingForgotten
  <2> QED
      BY <2>1, <2>2, <2>3, <1>1 DEF Pipe!NothingForgotten, Pipe!Pending
<1>6. Ledger'
    BY <1>2, <1>5, Freed DEF Ledger
<1>7. HintsOnce'
  <2>1. \A v, w : w \in Pipe!Workers => ~HintIn(v, running'[w].todo)
      BY <1>2, Freed
  <2>2. \A v \in Pipe!Ids : failures[v] < 2 => <<"hint", v>> \notin sent
      BY DEF Book, HintsOnce
  <2> QED
      BY <2>1, <2>2, <1>1, <1>2 DEF Book, HintsOnce, HintIn, Pipe!Ids
<1> QED
    BY <1>1, <1>6, <1>7, RetriesStay DEF Book

LEMMA InitBook == ASSUME Pipe!PipelineAssumption, Pipe!Init PROVE Book
<1>1. /\ vulns = <<>> /\ povs = <<>> /\ sent = {} /\ again = {}
      /\ failures = [v \in Pipe!Ids |-> 0] /\ extras = [v \in Pipe!Ids |-> 0]
      /\ \A w \in Pipe!Workers : running[w] = Pipe!Free
    BY DEF Pipe!Init, Pipe!Workers
<1>2. DOMAIN vulns = {} /\ DOMAIN povs = {}
    BY <1>1
<1>3. Pipe!NothingForgotten
    BY <1>2 DEF Pipe!NothingForgotten
<1>4. \A w \in Pipe!Workers : TodoOK(running[w])
    BY <1>1 DEF Pipe!Free, TodoOK
<1>5. HintsOnce
    BY <1>1, Freed DEF HintsOnce
<1>6. RetriesCount
    BY <1>1 DEF RetriesCount
<1> QED
    BY <1>3, <1>4, <1>5, <1>6 DEF Book, Ledger

LEMMA NextBook ==
  ASSUME Pipe!PipelineAssumption, Inv, Book, [Pipe!Next]_(Pipe!pipeVars)
  PROVE  Book'
<1>1. Inv'
    BY NextInv
<1>2. CASE UNCHANGED Pipe!pipeVars
  <2>1. UNCHANGED <<vulns, povs, waiting, running, sent, again, dropped, gaveUp, failures,
        extras>>
      BY <1>2 DEF Pipe!pipeVars, Pipe!tables, Pipe!counters
  <2>2. /\ Pipe!Queued' = Pipe!Queued /\ Pipe!Doing' = Pipe!Doing /\ Pipe!ToDo' = Pipe!ToDo
        /\ Pipe!Workers' = Pipe!Workers /\ Pipe!Ids' = Pipe!Ids
      BY <2>1 DEF Pipe!Queued, Pipe!Doing, Pipe!ToDo, Pipe!Busy, Pipe!Workers, Pipe!Ids
  <2>3. Pipe!NothingForgotten' /\ \A w \in Pipe!Workers : TodoOK(running[w])'
      BY <2>1, <2>2 DEF Book, Ledger, Pipe!NothingForgotten, Pipe!Pending, TodoOK
  <2>4. HintsOnce'
      BY <2>1, <2>2 DEF Book, HintsOnce, HintIn
  <2> QED
      BY <2>1, <2>2, <2>3, <2>4, RetriesStay DEF Book, Ledger
<1>3. ASSUME NEW w \in Pipe!Workers, Pipe!Step(w) PROVE Book'
    BY <1>1, <1>3, SubmitBook, EndBook, FailedBook, ReportSarifBook, EntersBook, DedupedBook,
       ProduceMoreBook, ClusterBook DEF Pipe!Step
<1>4. ASSUME NEW w \in Pipe!Workers, NEW j \in DOMAIN waiting, Pipe!BeginJob(w, j) PROVE Book'
    BY <1>1, <1>4, ReportBook, ScoreBook, DedupeStartsBook, ProduceBook, ProduceFailsBook,
       HintFailsBook, AskAgentBook, ClusterByStackBook DEF Pipe!BeginJob
<1> QED
    BY <1>1, <1>2, <1>3, <1>4, CrashBook, IdleBook, FailedBook DEF Pipe!Next

\* The numbers of the retries are all different and below ExtraPovs.
LEMMA BudgetsHold == ASSUME Pipe!PipelineAssumption, Inv, Book PROVE Pipe!BudgetsKept
<1>1. ASSUME NEW v \in Pipe!Ids, NEW w \in Pipe!Busy, failures[v] < 2 \/ <<"hint", v>> \in sent
      PROVE  Pipe!Job("hint", v) \notin running[w].todo
  <2>1. w \in Pipe!Workers
      BY DEF Pipe!Busy
  <2> QED
      BY <1>1, <2>1 DEF Book, HintsOnce, HintIn
<1>2. ASSUME NEW m \in Pipe!Ids PROVE Pipe!Cardinality({a \in again : a[2] = m}) <= ExtraPovs
  <2> DEFINE S == {a \in again : a[2] = m}
             n == ExtraPovs - 1
             f == [a \in S |-> a[3]]
  <2>1. ExtraPovs \in Nat
      BY DEF Pipe!PipelineAssumption
  <2>2. \A a \in S : a[3] \in 0..n
      BY <2>1 DEF Book, RetriesCount
  <2>3. \A a, c \in S : a[3] = c[3] => a = c
      BY DEF Book, RetriesCount
  <2>4. f \in Injection(S, 0..n)
      BY <2>2, <2>3 DEF Injection, IsInjective
  <2>5. Pipe!IsFiniteSet(0..n) /\ Pipe!Cardinality(0..n) = ExtraPovs
      BY <2>1, FS_Interval, PipeSets
  <2>6. Pipe!Cardinality(S) <= Pipe!Cardinality(0..n)
      BY <2>4, <2>5, FS_Injection, PipeSets
  <2> QED
      BY <2>5, <2>6
<1> QED
    BY <1>1, <1>2, PipeSets DEF Pipe!BudgetsKept

\* A step of the other subjects leaves the variables of the pipeline alone.
LEMMA PipelineMoves ==
  ASSUME [Next]_vars
  PROVE  UNCHANGED subject /\ (subject = "pipeline" => [Pipe!Next]_(Pipe!pipeVars))
<1>1. CASE Next
    BY <1>1 DEF Next
<1>2. CASE UNCHANGED vars
  <2>1. UNCHANGED <<subject, pipelineVars>>
      BY <1>2 DEF vars
  <2>2. UNCHANGED Pipe!pipeVars
      BY <2>1 DEF pipelineVars, Pipe!pipeVars, Pipe!tables, Pipe!counters
  <2> QED
      BY <2>1, <2>2
<1> QED
    BY <1>1, <1>2

\* However many jobs find a bug at the same time, fail, are queued again or restarted with the
\* process, the table vulns has one row per root cause, who deduplicates has the lock and has
\* read every row, and the vulnerability of a POV is one of its bug (dedupe_vuln, cluster_pov).
THEOREM OneRowPerBug == Spec => []OneVulnPerBug
<1> DEFINE I == subject = "pipeline" => Inv
<1>1. Init => I
    BY InitInv, Assumptions DEF Init
<1>2. I /\ [Next]_vars => I'
    BY NextInv, PipelineMoves, Assumptions
<1>3. I => OneVulnPerBug
    BY InvImplies DEF OneVulnPerBug
<1> QED
    BY <1>1, <1>2, <1>3, PTL DEF Spec

\* Every vulnerability gets its patch job and every POV is triaged and bundled, but for what a
\* fault cut off while it was submitted and what failed too often, in every order of the jobs,
\* their failures and restarts; a vulnerability gets one hint, and no more than ExtraPovs
\* retries on account of one that came out (handle_analyzed_vuln, triage_pov, cluster_pov).
THEOREM NothingIsForgotten == Spec => []NothingForgotten
<1> DEFINE I == subject = "pipeline" => Inv /\ Book
<1>1. Init => I
    BY InitInv, InitBook, Assumptions DEF Init
<1>2. I /\ [Next]_vars => I'
    BY NextInv, NextBook, PipelineMoves, Assumptions
<1>3. I => NothingForgotten
    BY BudgetsHold, Assumptions DEF NothingForgotten, Book, Ledger
<1> QED
    BY <1>1, <1>2, <1>3, PTL DEF Spec

(***************************************************************************)
(* The cores of the fuzzing machines (FuzzOverwatcher, crs/modules/        *)
(* fuzzing.py).  The shares are summed by place: the first k managers have *)
(* k times what everybody gets, and one more for each that stands late     *)
(* enough.  What a manager plans is cut from its share.                    *)
(***************************************************************************)
LEMMA ManagersAreFinite == ASSUME Share!ShareAssumption PROVE IsFiniteSet(FuzzManagers)
    BY DEF Share!ShareAssumption, Share!IsFiniteSet, IsFiniteSet

LEMMA LargerOf ==
  ASSUME NEW a \in Int, NEW b \in Int
  PROVE  Share!Max({a, b}) = IF a >= b THEN a ELSE b
<1>1. CASE a >= b
  <2>1. a \in {a, b} /\ \A y \in {a, b} : a >= y
      BY <1>1
  <2>2. ASSUME NEW x \in {a, b}, \A y \in {a, b} : x >= y PROVE x = a
      BY <1>1, <2>2
  <2> QED
      BY <1>1, <2>1, <2>2 DEF Share!Max
<1>2. CASE ~ (a >= b)
  <2>1. b \in {a, b} /\ \A y \in {a, b} : b >= y
      BY <1>2
  <2>2. ASSUME NEW x \in {a, b}, \A y \in {a, b} : x >= y PROVE x = b
      BY <1>2, <2>2
  <2> QED
      BY <1>2, <2>1, <2>2 DEF Share!Max
<1> QED
    BY <1>1, <1>2

LEMMA LeastOf == ASSUME NEW a \in Int, NEW b \in Int PROVE Share!Min({a, b}) \in {a, b}
<1>1. \E x \in {a, b} : \A y \in {a, b} : x <= y
  <2>1. CASE a <= b
      BY <2>1
  <2>2. CASE ~ (a <= b)
      BY <2>2
  <2> QED
      BY <2>1, <2>2
<1> QED
    BY <1>1 DEF Share!Min

LEMMA LeastOfThree ==
  ASSUME NEW a \in Int, NEW b \in Int, NEW c \in Int PROVE Share!Min({a, b, c}) \in {a, b, c}
<1>1. \E x \in {a, b, c} : \A y \in {a, b, c} : x <= y
  <2>1. CASE a <= b /\ a <= c
      BY <2>1
  <2>2. CASE b <= a /\ b <= c
      BY <2>2
  <2>3. CASE c <= a /\ c <= b
      BY <2>3
  <2> QED
      BY <2>1, <2>2, <2>3
<1> QED
    BY <1>1 DEF Share!Min

LEMMA Divides ==
  ASSUME NEW a \in Nat, NEW b \in Nat \ {0}
  PROVE  /\ a \div b \in Nat /\ (a \div b) * b <= a /\ (a \div b) * b \in Nat /\ a % b \in Nat
         /\ (a \div b) * b + (a % b) = a
         /\ a >= b => a \div b >= 1
         /\ a < b => a \div b = 0
<1>1. a \div b \in Nat
    OBVIOUS
<1>2. (a \div b) * b <= a
    OBVIOUS
<1>3. a % b \in 0..(b - 1)
    OBVIOUS
<1>4. a = b * (a \div b) + (a % b)
    OBVIOUS
<1>5. a >= b => a \div b >= 1
    OBVIOUS
<1>6. a < b => a \div b = 0
    OBVIOUS
<1>7. ASSUME NEW x \in Nat PROVE x * b \in Nat /\ x * b = b * x
    OBVIOUS
<1> QED
    BY <1>1, <1>2, <1>3, <1>4, <1>5, <1>6, <1>7

Plans == [epoch : Nat, cores : Int, secondary : Int, cooling : BOOLEAN]

OnePlace == \A i, j \in DOMAIN active : active[i] = active[j] => i = j

ShareInv ==
  /\ active \in Seq(FuzzManagers) /\ OnePlace
  /\ epoch \in Nat /\ size \in [FuzzManagers -> FuzzSizes] /\ plan \in [FuzzManagers -> Plans]
  /\ \A m \in FuzzManagers : plan[m].epoch <= epoch
  /\ \A m \in FuzzManagers \ Share!ToSet(active) : plan[m].cores = 0
  /\ \A m \in Share!ToSet(active) : plan[m].epoch = epoch => plan[m].cores <= Share!Share(m)

LEMMA Totals == ASSUME Share!ShareAssumption PROVE Share!Total \in Nat
<1>1. ASSUME NEW x \in Nat, NEW y \in Nat PROVE x * y \in Nat
    OBVIOUS
<1> QED
    BY <1>1 DEF Share!Total, Share!ShareAssumption

LEMMA Places ==
  ASSUME active \in Seq(FuzzManagers), OnePlace
  PROVE  /\ Share!Running \in Nat /\ DOMAIN active = 1..Share!Running
         /\ \A i \in 1..Share!Running : active[i] \in FuzzManagers /\ Share!Place(active[i]) = i
         /\ \A m \in Share!ToSet(active) : Share!Place(m) \in 1..Share!Running
            /\ active[Share!Place(m)] = m /\ m \in FuzzManagers
<1>1. Share!Running \in Nat /\ DOMAIN active = 1..Share!Running
    BY LenProperties DEF Share!Running
<1>2. ASSUME NEW i \in 1..Share!Running PROVE active[i] \in FuzzManagers
             /\ Share!Place(active[i]) = i
  <2>1. active[i] \in FuzzManagers
      BY <1>1, ElementOfSeq DEF Share!Running
  <2>2. \A j \in DOMAIN active : active[j] = active[i] => j = i
      BY <1>1, <1>2 DEF OnePlace
  <2> QED
      BY <1>1, <1>2, <2>1, <2>2 DEF Share!Place
<1>3. ASSUME NEW m \in Share!ToSet(active)
      PROVE  Share!Place(m) \in 1..Share!Running /\ active[Share!Place(m)] = m
             /\ m \in FuzzManagers
  <2>1. PICK i \in 1..Share!Running : active[i] = m
      BY <1>1, <1>3 DEF Share!ToSet
  <2> QED
      BY <1>2, <2>1
<1> QED
    BY <1>1, <1>2, <1>3

\* What everybody gets.
LEMMA Bases ==
  ASSUME Share!ShareAssumption, Share!Running \in Nat \ {0}
  PROVE  /\ Share!Base \in Nat \ {0} /\ Share!Running * Share!Base \in Nat
            /\ Share!Base * Share!Running = Share!Running * Share!Base
         /\ Share!Total >= Share!Running => Share!Running * Share!Base <= Share!Total
            /\ Share!Total - Share!Base * Share!Running < Share!Running
         /\ Share!Total < Share!Running => Share!Base = 1
<1>1. Share!Total \in Nat
    BY Totals
<1>2. PICK t \in Nat, r \in Nat \ {0} : t = Share!Total /\ r = Share!Running
    BY <1>1
<1>3. t \div r \in Nat /\ (t \div r) * r <= t /\ (t >= r => t \div r >= 1)
      /\ (t < r => t \div r = 0)
    BY Divides
<1>4. PICK q \in Nat : q = t \div r
    BY <1>3
<1>5. Share!Max({1, q}) = IF 1 >= q THEN 1 ELSE q
    BY LargerOf
<1>6. Share!Base = IF q = 0 THEN 1 ELSE q
    BY <1>2, <1>4, <1>5 DEF Share!Base
<1>7. ASSUME NEW x \in Nat PROVE x * r \in Nat /\ r * x = x * r
    OBVIOUS
<1>8. t >= r => q >= 1 /\ q * r <= t /\ t - q * r < r
  <2>1. t % r \in 0..(r - 1) /\ (t \div r) * r + (t % r) = t
      BY Divides
  <2> QED
      BY <1>3, <1>4, <1>7, <2>1
<1>9. t < r => q = 0
    BY <1>3, <1>4
<1> QED
    BY <1>2, <1>6, <1>7, <1>8, <1>9

LEMMA Shares ==
  ASSUME Share!ShareAssumption, active \in Seq(FuzzManagers), OnePlace,
       NEW m \in Share!ToSet(active)
  PROVE  Share!Share(m) \in Nat \ {0}
<1>1. Share!Place(m) \in 1..Share!Running /\ Share!Running \in Nat
    BY Places
<1>2. Share!Running \in Nat \ {0}
    BY <1>1
<1>3. Share!Base \in Nat \ {0}
    BY <1>2, Bases
<1> QED
    BY <1>3 DEF Share!Share

\* The shares of the managers W by their place: the first ones get b, those after late one more.
ByPlace(D, W, p, b, late) ==
  [m \in D |-> IF m \in W THEN b + (IF p[m] > late THEN 1 ELSE 0) ELSE 0]

\* p has the places of the members of W, who has the one at each place.
PlacesOf(p, who, W, r) ==
  (\A m \in W : who[p[m]] = m) /\ (\A i \in 1..r : p[who[i]] = i)

LEMMA SumByPlace ==
  ASSUME NEW D, IsFiniteSet(D), NEW W \in SUBSET D, NEW r \in Nat,
         NEW p \in [W -> 1..r], NEW who \in [1..r -> W],
         PlacesOf(p, who, W, r), NEW b \in Nat, NEW late \in Nat
  PROVE  SumOf(ByPlace(D, W, p, b, late), D) = r * b + (IF r > late THEN r - late ELSE 0)
<1> DEFINE Share1(m) == b + (IF p[m] > late THEN 1 ELSE 0)
           Part(k) == [m \in D |-> IF m \in W /\ p[m] <= k THEN Share1(m) ELSE 0]
           Right(k) == SumOf(Part(k), D) = k * b + (IF k > late THEN k - late ELSE 0)
           Bad == {k \in 0..r : ~ Right(k)}
<1>1. ASSUME NEW k \in 0..r PROVE Part(k) \in [D -> Int]
    OBVIOUS
<1>2. Right(0)
  <2>1. \A m \in W : ~ (p[m] <= 0)
      OBVIOUS
  <2>2. Part(0) = [m \in D |-> 0]
      BY <2>1
  <2>3. SumOf([m \in D |-> 0], D) = 0
      BY SumOfNothing
  <2>4. 0 * b = 0
      OBVIOUS
  <2> HIDE DEF Part
  <2> QED
      BY <2>2, <2>3, <2>4
<1>3. ASSUME NEW k \in 1..r, Right(k - 1) PROVE Right(k)
  <2>1. PICK j \in W : j = who[k] /\ p[j] = k
      BY DEF PlacesOf
  <2>2. \A m \in D \ {j} : Part(k - 1)[m] = Part(k)[m]
    <3>1. ASSUME NEW m \in D \ {j} PROVE m \in W => (p[m] <= k - 1 <=> p[m] <= k)
      <4>1. ASSUME m \in W PROVE p[m] # k /\ p[m] \in 1..r
          BY <2>1, <4>1 DEF PlacesOf
      <4> QED
          BY <4>1
    <3> QED
        BY <3>1
  <2>3. Part(k - 1)[j] = 0 /\ Part(k)[j] = Share1(j)
      BY <2>1
  <2>4. SumOf(Part(k), D) = SumOf(Part(k - 1), D) + (Part(k)[j] - Part(k - 1)[j])
    <3>1. j \in D /\ k \in 0..r /\ k - 1 \in 0..r
        OBVIOUS
    <3>2. Part(k) \in [D -> Int] /\ Part(k - 1) \in [D -> Int]
        BY <1>1, <3>1
    <3>3. PICK new \in [D -> Int], old \in [D -> Int] : new = Part(k) /\ old = Part(k - 1)
        BY <3>2
    <3>4. \A m \in D \ {j} : old[m] = new[m]
        BY <2>2, <3>3
    <3> HIDE DEF Part, Share1, Right, Bad
    <3>5. SumOf(new, D) = SumOf(old, D) + (new[j] - old[j])
        BY <3>1, <3>4, SumChanges
    <3> QED
        BY <3>3, <3>5
  <2>5. Share1(j) = b + (IF k > late THEN 1 ELSE 0)
      BY <2>1
  <2>6. \A x \in Nat : (x + 1) * b = x * b + b /\ x * b \in Nat
      OBVIOUS
  <2>7. k - 1 \in Nat /\ (k - 1) + 1 = k
      OBVIOUS
  <2>8. k * b = (k - 1) * b + b /\ (k - 1) * b \in Nat
      BY <2>6, <2>7
  <2> HIDE DEF Part, Share1
  <2>9. SumOf(Part(k), D) = ((k - 1) * b + (IF k - 1 > late THEN (k - 1) - late ELSE 0))
                              + (b + (IF k > late THEN 1 ELSE 0) - 0)
      BY <1>3, <2>3, <2>4, <2>5
  <2> QED
      BY <2>8, <2>9
<1>4. Bad = {}
  <2>1. SUFFICES ASSUME Bad # {} PROVE FALSE
      OBVIOUS
  <2>2. Bad \in SUBSET Nat
      OBVIOUS
  <2>3. PICK k \in Bad : \A x \in Bad : k <= x
    <3> HIDE DEF Bad
    <3> QED
        BY <2>1, <2>2, LeastNumber
  <2>4. k \in 0..r /\ ~ Right(k)
      BY <2>3
  <2>5. k # 0
      BY <1>2, <2>4
  <2>6. k \in 1..r /\ k - 1 \in 0..r
      BY <2>4, <2>5
  <2>7. ASSUME ~ Right(k - 1) PROVE FALSE
    <3>1. k - 1 \in Bad
        BY <2>6, <2>7
    <3>2. k <= k - 1
        BY <2>3, <3>1
    <3> HIDE DEF Right, Bad
    <3> QED
        BY <2>6, <3>2
  <2>8. Right(k - 1)
      BY <2>7
  <2> HIDE DEF Right
  <2> QED
      BY <1>3, <2>4, <2>6, <2>8
<1>5. Right(r)
  <2> HIDE DEF Right
  <2> QED
      BY <1>4
<1>6. Part(r) = ByPlace(D, W, p, b, late)
    BY DEF ByPlace
<1> HIDE DEF Part
<1> QED
    BY <1>5, <1>6

\* Together the managers get all the cores, or one each.
LEMMA AllTheCores ==
  ASSUME Share!ShareAssumption, active \in Seq(FuzzManagers), OnePlace, active # <<>>,
         NEW D \in SUBSET FuzzManagers, Share!ToSet(active) \subseteq D
  PROVE  SumOf([m \in D |-> IF m \in Share!ToSet(active) THEN Share!Share(m) ELSE 0], D)
           = Share!Max({Share!Total, Share!Running})
<1>1. /\ Share!Running \in Nat /\ DOMAIN active = 1..Share!Running
      /\ \A i \in 1..Share!Running : active[i] \in FuzzManagers /\ Share!Place(active[i]) = i
      /\ \A m \in Share!ToSet(active) : Share!Place(m) \in 1..Share!Running
         /\ active[Share!Place(m)] = m
    BY Places
<1>2. Share!Running # 0
    BY EmptySeq, LenProperties DEF Share!Running
<1>3. PICK r \in Nat \ {0} : r = Share!Running
    BY <1>1, <1>2
<1>4. PICK t \in Nat : t = Share!Total
    BY Totals
<1>5. Share!Running \in Nat \ {0}
    BY <1>1, <1>2
<1>6. /\ Share!Base \in Nat \ {0} /\ Share!Running * Share!Base \in Nat
         /\ Share!Base * Share!Running = Share!Running * Share!Base
      /\ Share!Total >= Share!Running => Share!Running * Share!Base <= Share!Total
         /\ Share!Total - Share!Base * Share!Running < Share!Running
      /\ Share!Total < Share!Running => Share!Base = 1
    BY <1>5, Bases
<1>7. PICK b \in Nat \ {0} : b = Share!Base
    BY <1>6
<1>8. PICK rb \in Nat : rb = r * b /\ rb = b * r
    BY <1>3, <1>6, <1>7
<1>9. /\ t >= r => rb <= t /\ t - rb < r
      /\ t < r => b = 1
    BY <1>3, <1>4, <1>6, <1>7, <1>8
<1>10. t < r => rb = r
  <2>1. r * 1 = r
      OBVIOUS
  <2> QED
      BY <1>8, <1>9, <2>1
<1>11. PICK late \in Nat : late = r - (t - rb)
    BY <1>9, <1>10
<1>12. Share!Running - (Share!Total - Share!Base * Share!Running) = late
    BY <1>3, <1>4, <1>7, <1>8, <1>11
<1>13. PICK W : W = Share!ToSet(active)
    OBVIOUS
<1>14. PICK p : p = [m \in W |-> Share!Place(m)]
    OBVIOUS
<1>15. PICK who : who = [i \in 1..r |-> active[i]]
    OBVIOUS
<1>16. p \in [W -> 1..r]
    BY <1>1, <1>3, <1>13, <1>14
<1>17. who \in [1..r -> W]
    BY <1>1, <1>3, <1>13, <1>15 DEF Share!ToSet
<1>18. PlacesOf(p, who, W, r)
  <2>1. \A m \in W : who[p[m]] = m
      BY <1>1, <1>3, <1>13, <1>14, <1>15, <1>16
  <2>2. \A i \in 1..r : p[who[i]] = i
      BY <1>1, <1>3, <1>13, <1>14, <1>15, <1>17
  <2> QED
      BY <2>1, <2>2 DEF PlacesOf
<1>20. IsFiniteSet(D)
    BY FS_Subset, ManagersAreFinite
<1>21. W \in SUBSET D
    BY <1>13
<1>r. r \in Nat /\ b \in Nat /\ late \in Nat
    BY <1>3, <1>7, <1>11
<1>22. SumOf(ByPlace(D, W, p, b, late), D) = r * b + (IF r > late THEN r - late ELSE 0)
  <2> HIDE <1>1, <1>6
  <2> QED
      BY <1>r, <1>16, <1>17, <1>18, <1>20, <1>21, SumByPlace
<1>23. \A m \in W : Share!Share(m) = b + (IF p[m] > late THEN 1 ELSE 0)
    BY <1>7, <1>12, <1>14 DEF Share!Share
<1>24. ByPlace(D, W, p, b, late)
       = [m \in D |-> IF m \in Share!ToSet(active) THEN Share!Share(m) ELSE 0]
    BY <1>13, <1>23 DEF ByPlace
<1>25. r * b + (IF r > late THEN r - late ELSE 0) = IF t >= r THEN t ELSE r
    BY <1>8, <1>9, <1>10, <1>11
<1>26. Share!Max({t, r}) = IF t >= r THEN t ELSE r
    BY LargerOf
<1> QED
    BY <1>3, <1>4, <1>22, <1>24, <1>25, <1>26

\* A largest divisor is there.
LEMMA Divisors ==
  ASSUME Share!ShareAssumption, NEW n \in Nat \ {0} PROVE Share!LargestDivisor(n) \in 1..n
<1> DEFINE Fits(d) == FuzzCores % d = 0
           Gap == {x \in 0..(n - 1) : Fits(n - x)}
<1>1. FuzzCores \in Nat
    BY DEF Share!ShareAssumption
<1>2. \A c \in Nat : c % 1 = 0
    OBVIOUS
<1>3. n - 1 \in Gap
  <2>1. n - (n - 1) = 1 /\ n - 1 \in 0..(n - 1)
      OBVIOUS
  <2> QED
      BY <1>1, <1>2, <2>1
<1>4. Gap \in SUBSET Nat /\ Gap # {}
  <2>1. Gap \subseteq 0..(n - 1)
    <3> HIDE DEF Fits
    <3> QED
        OBVIOUS
  <2> HIDE DEF Gap
  <2> QED
      BY <1>3, <2>1
<1>5. PICK x \in Gap : \A y \in Gap : x <= y
  <2> HIDE DEF Gap
  <2> QED
      BY <1>4, LeastNumber
<1>6. x \in 0..(n - 1) /\ Fits(n - x)
    BY <1>5
<1>7. PICK d \in 1..n : d = n - x
    BY <1>6
<1>8. ASSUME NEW e \in d + 1..n PROVE ~ Fits(e)
  <2>1. n - e \in 0..(n - 1) /\ n - (n - e) = e /\ n - e < x
      BY <1>6, <1>7
  <2>2. ASSUME Fits(e) PROVE FALSE
    <3>1. n - e \in Gap
      <4> HIDE DEF Fits
      <4> QED
          BY <2>1, <2>2
    <3>2. x <= n - e
        BY <1>5, <3>1
    <3> HIDE DEF Gap, Fits
    <3> QED
        BY <1>6, <2>1, <3>2
  <2> QED
      BY <2>2
<1>9. d \in 1..n /\ FuzzCores % d = 0 /\ \A e \in d + 1..n : FuzzCores % e # 0
    BY <1>6, <1>7, <1>8
<1> QED
    BY <1>9 DEF Share!LargestDivisor

LEMMA JobsFit ==
  ASSUME Share!ShareAssumption, NEW m \in FuzzManagers, size[m] \in FuzzSizes,
       Share!Share(m) \in Nat \ {0}
  PROVE  Share!CoresPerJob(m) \in Nat \ {0}
<1>1. PICK n \in Nat \ {0} : n = size[m].harnesses
    BY DEF Share!ShareAssumption
<1>2. PICK s \in Nat \ {0} : s = Share!Share(m)
    OBVIOUS
<1>3. PICK c \in Nat : c = FuzzCores
    BY DEF Share!ShareAssumption
<1>4. CASE s \div n > c
  <2>1. Share!Max({1, c}) = IF 1 >= c THEN 1 ELSE c
      BY LargerOf
  <2>2. Share!CoresPerJob(m) = Share!Max({1, c})
      BY <1>1, <1>2, <1>3, <1>4 DEF Share!CoresPerJob
  <2> QED
      BY <2>1, <2>2
<1>5. CASE ~ (s \div n > c) /\ s < n
  <2>1. c \div 2 \in Int
      OBVIOUS
  <2>2. PICK k \in Int : k = Share!Min({4, c \div 2})
    <3>1. Share!Min({4, c \div 2}) \in {4, c \div 2}
        BY <2>1, LeastOf
    <3> QED
        BY <2>1, <3>1
  <2>3. Share!Max({1, k}) = IF 1 >= k THEN 1 ELSE k
      BY LargerOf
  <2>4. Share!CoresPerJob(m) = Share!Max({1, k})
      BY <1>1, <1>2, <1>3, <1>5, <2>2 DEF Share!CoresPerJob
  <2> QED
      BY <2>3, <2>4
<1>6. CASE ~ (s \div n > c) /\ ~ (s < n)
  <2>1. s \div n \in Nat /\ (s >= n => s \div n >= 1)
      BY Divides
  <2>2. s \div n \in Nat \ {0}
      BY <1>6, <2>1
  <2>3. Share!LargestDivisor(s \div n) \in 1..(s \div n)
      BY <2>2, Divisors
  <2>4. Share!CoresPerJob(m) = Share!LargestDivisor(s \div n)
      BY <1>1, <1>2, <1>3, <1>6 DEF Share!CoresPerJob
  <2> QED
      BY <2>1, <2>3, <2>4
<1> QED
    BY <1>4, <1>5, <1>6

\* What a manager plans is no more than its share.
LEMMA PlansFit ==
  ASSUME Share!ShareAssumption, NEW m \in FuzzManagers, size[m] \in FuzzSizes,
       Share!Share(m) \in Nat \ {0},
         epoch \in Nat
  PROVE  /\ Share!Planned(m) \in Plans /\ Share!Planned(m).cores <= Share!Share(m)
         /\ Share!Planned(m).epoch = epoch
<1>1. PICK others \in Nat : others = size[m].others
    BY DEF Share!ShareAssumption
<1>2. PICK n \in Nat \ {0} : n = size[m].harnesses
    BY DEF Share!ShareAssumption
<1>3. PICK s \in Nat \ {0} : s = Share!Share(m)
    OBVIOUS
<1>4. PICK wanted \in Int :
        wanted = IF others = 0 THEN 0
        ELSE Share!Max({1, Share!Min({s \div 3, MaxSecondary, others})})
  <2>1. s \div 3 \in Int /\ MaxSecondary \in Int
      BY DEF Share!ShareAssumption
  <2>2. PICK k \in Int : k = Share!Min({s \div 3, MaxSecondary, others})
    <3>1. Share!Min({s \div 3, MaxSecondary, others}) \in {s \div 3, MaxSecondary, others}
        BY <2>1, LeastOfThree
    <3> QED
        BY <2>1, <3>1
  <2>3. Share!Max({1, k}) = IF 1 >= k THEN 1 ELSE k
      BY LargerOf
  <2> QED
      BY <2>2, <2>3
<1>5. PICK primary \in Nat \ {0} : primary = Share!Max({1, s - wanted})
  <2>1. Share!Max({1, s - wanted}) = IF 1 >= s - wanted THEN 1 ELSE s - wanted
      BY LargerOf
  <2> QED
      BY <2>1
<1>6. PICK perJob \in Nat \ {0} : perJob = Share!CoresPerJob(m)
    BY JobsFit
<1>7. PICK places \in Nat : places = primary \div perJob
    BY Divides
<1>8. PICK gaps \in Nat : gaps = primary % perJob
    BY Divides
<1>9. PICK whole \in Nat : whole = places * perJob /\ whole + gaps = primary
  <2>1. (primary \div perJob) * perJob \in Nat
        /\ (primary \div perJob) * perJob + (primary % perJob) = primary
      BY Divides
  <2> QED
      BY <1>7, <1>8, <2>1
<1>10. PICK gapJob \in Nat \ {0} : gapJob = Share!LargestDivisor(Share!Max({1, gaps \div n}))
  <2>1. gaps \div n \in Nat
      BY Divides
  <2>2. PICK k \in Nat \ {0} : k = Share!Max({1, gaps \div n})
    <3>1. Share!Max({1, gaps \div n}) = IF 1 >= gaps \div n THEN 1 ELSE gaps \div n
        BY <2>1, LargerOf
    <3> QED
        BY <2>1, <3>1
  <2>3. Share!LargestDivisor(k) \in 1..k
      BY Divisors
  <2> QED
      BY <2>2, <2>3
<1>11. PICK fill \in Nat : fill = (gaps \div gapJob) * gapJob /\ fill <= gaps
    BY Divides
<1>12. PICK cores \in Int : /\ cores = whole + (IF gaps = 0 THEN 0 ELSE fill) + (s - primary)
                            /\ cores <= s
    BY <1>9, <1>11
<1>13. Share!Planned(m) =
         [epoch |-> epoch, cooling |-> FALSE, cores |-> cores,
          secondary |-> IF others = 0 THEN 1 ELSE IF s - primary > 0 THEN s - primary ELSE places]
    BY <1>1, <1>2, <1>3, <1>4, <1>5, <1>6, <1>7, <1>8, <1>9, <1>10, <1>11, <1>12 DEF Share!Planned
<1>14. Share!Planned(m) \in Plans
    BY <1>13 DEF Plans
<1> QED
    BY <1>3, <1>12, <1>13, <1>14

LEMMA SharesInit == ASSUME Share!ShareAssumption, Share!Init PROVE ShareInv
<1>1. active = <<>> /\ active \in Seq(FuzzManagers) /\ OnePlace
    BY EmptySeq, LenProperties DEF Share!Init, OnePlace
<1>2. Share!ToSet(active) = {}
    BY <1>1, EmptySeq, LenProperties DEF Share!ToSet
<1>3. Share!NoPlan \in Plans /\ Share!NoPlan.epoch = 0 /\ Share!NoPlan.cores = 0
    BY DEF Share!NoPlan, Plans
<1>4. epoch = 0 /\ size \in [FuzzManagers -> FuzzSizes]
      /\ plan = [m \in FuzzManagers |-> Share!NoPlan]
    BY DEF Share!Init
<1> QED
    BY <1>1, <1>2, <1>3, <1>4 DEF ShareInv

LEMMA ActivateKeepsShares ==
  ASSUME Share!ShareAssumption, ShareInv, NEW m \in FuzzManagers,
       Share!Activate(m) PROVE ShareInv'
<1>1. PICK n \in Nat : n = Len(active) /\ DOMAIN active = 1..n
    BY LenProperties DEF ShareInv
<1>2. /\ active' = Append(active, m) /\ epoch' = epoch + 1 /\ size' = size /\ plan' = plan
      /\ m \notin Share!ToSet(active)
    BY DEF Share!Activate
<1>3. /\ active' \in Seq(FuzzManagers) /\ Len(active') = n + 1
      /\ \A i \in 1..n : active'[i] = active[i]
      /\ active'[n + 1] = m
    BY <1>1, <1>2, AppendProperties DEF ShareInv
<1>4. DOMAIN active' = 1..(n + 1)
    BY <1>1, <1>3, LenProperties
<1>5. \A i \in 1..n : active[i] # m
    BY <1>1, <1>2 DEF Share!ToSet
<1>6. OnePlace'
  <2>1. SUFFICES ASSUME NEW i \in 1..(n + 1), NEW j \in 1..(n + 1), active'[i] = active'[j]
                 PROVE  i = j
      BY <1>4 DEF OnePlace
  <2>2. CASE i \in 1..n /\ j \in 1..n
      BY <1>1, <1>3, <2>1, <2>2 DEF ShareInv, OnePlace
  <2>3. CASE i = n + 1 \/ j = n + 1
      BY <1>1, <1>3, <1>5, <2>1, <2>3
  <2> QED
      BY <1>1, <2>2, <2>3
<1>7. Share!ToSet(active) \subseteq Share!ToSet(active')
    BY <1>1, <1>3, <1>4 DEF Share!ToSet
<1>8. \A x \in FuzzManagers : plan'[x].epoch <= epoch /\ plan'[x].epoch \in Nat
    BY <1>2 DEF ShareInv, Plans
<1>9. \A x \in FuzzManagers : plan'[x].epoch <= epoch' /\ plan'[x].epoch # epoch'
    BY <1>2, <1>8 DEF ShareInv
<1>10. Share!ToSet(active') \subseteq FuzzManagers
    BY <1>3, <1>4, ElementOfSeq DEF Share!ToSet
<1> QED
    BY <1>2, <1>3, <1>6, <1>7, <1>9, <1>10 DEF ShareInv

LEMMA PlanKeepsShares ==
  ASSUME Share!ShareAssumption, ShareInv, NEW m \in FuzzManagers, Share!Plan(m) PROVE ShareInv'
<1>1. /\ active' = active /\ epoch' = epoch /\ size' = size /\ m \in Share!ToSet(active)
      /\ plan' = [plan EXCEPT ![m] = Share!Planned(m)]
    BY DEF Share!Plan
<1>2. Share!Share(m) \in Nat \ {0}
    BY <1>1, Shares DEF ShareInv
<1>3. Share!Planned(m) \in Plans /\ Share!Planned(m).cores <= Share!Share(m)
      /\ Share!Planned(m).epoch = epoch
    BY <1>2, PlansFit DEF ShareInv
<1>4. plan' \in [FuzzManagers -> Plans] /\ plan'[m] = Share!Planned(m)
      /\ \A x \in FuzzManagers \ {m} : plan'[x] = plan[x]
    BY <1>1, <1>3 DEF ShareInv
<1>5. \A x : Share!Share(x)' = Share!Share(x)
    BY <1>1 DEF Share!Share, Share!Base, Share!Running, Share!Place
<1>6. \A x \in FuzzManagers : plan'[x].epoch <= epoch'
  <2>1. epoch <= epoch
      BY DEF ShareInv
  <2> QED
      BY <1>1, <1>3, <1>4, <2>1 DEF ShareInv
<1>7. \A x \in FuzzManagers \ Share!ToSet(active') : plan'[x].cores = 0
    BY <1>1, <1>4 DEF ShareInv
<1>8. ASSUME NEW x \in Share!ToSet(active'), plan'[x].epoch = epoch'
      PROVE plan'[x].cores <= Share!Share(x)'
  <2>1. CASE x = m
      BY <1>3, <1>4, <1>5, <2>1
  <2>2. CASE x # m
    <3>1. x \in FuzzManagers /\ x \in Share!ToSet(active)
        BY <1>1, <1>8, Places DEF ShareInv
    <3> QED
        BY <1>1, <1>4, <1>5, <1>8, <2>2, <3>1 DEF ShareInv
  <2> QED
      BY <2>1, <2>2
<1>9. OnePlace' /\ active' \in Seq(FuzzManagers) /\ epoch' \in Nat
      /\ size' \in [FuzzManagers -> FuzzSizes]
    BY <1>1 DEF ShareInv, OnePlace
<1> QED
    BY <1>4, <1>6, <1>7, <1>8, <1>9 DEF ShareInv

LEMMA NoticeKeepsShares ==
  ASSUME Share!ShareAssumption, ShareInv, NEW m \in FuzzManagers,
       Share!NoticeChange(m) PROVE ShareInv'
<1>1. /\ active' = active /\ epoch' = epoch /\ size' = size /\ plan[m].epoch # epoch
      /\ plan' = [plan EXCEPT ![m].cooling = TRUE]
    BY DEF Share!NoticeChange
<1>2. plan[m] \in Plans
    BY DEF ShareInv
<1>3. PICK p \in Plans : /\ p = [plan[m] EXCEPT !.cooling = TRUE]
                         /\ p.epoch = plan[m].epoch /\ p.cores = plan[m].cores
  <2>1. PICK q \in Plans : q = plan[m]
      BY <1>2
  <2>2. [q EXCEPT !.cooling = TRUE] \in Plans
        /\ [q EXCEPT !.cooling = TRUE].epoch = q.epoch
        /\ [q EXCEPT !.cooling = TRUE].cores = q.cores
      BY DEF Plans
  <2> QED
      BY <2>1, <2>2
<1>4. plan' \in [FuzzManagers -> Plans] /\ plan'[m] = p
      /\ \A x \in FuzzManagers \ {m} : plan'[x] = plan[x]
    BY <1>1, <1>3 DEF ShareInv
<1>5. \A x \in FuzzManagers : plan'[x].epoch = plan[x].epoch /\ plan'[x].cores = plan[x].cores
    BY <1>3, <1>4
<1>6. \A x : Share!Share(x)' = Share!Share(x)
    BY <1>1 DEF Share!Share, Share!Base, Share!Running, Share!Place
<1>7. Share!ToSet(active) \subseteq FuzzManagers
    BY Places DEF ShareInv
<1>8. OnePlace' /\ active' \in Seq(FuzzManagers) /\ epoch' \in Nat
      /\ size' \in [FuzzManagers -> FuzzSizes]
    BY <1>1 DEF ShareInv, OnePlace
<1> QED
    BY <1>1, <1>4, <1>5, <1>6, <1>7, <1>8 DEF ShareInv

LEMMA RemovedFromActive ==
  ASSUME NEW S, NEW q \in Seq(S), \A i, j \in DOMAIN q : q[i] = q[j] => i = j, NEW k \in DOMAIN q
  PROVE  /\ Share!RemoveAt(q, k) \in Seq(S)
         /\ \A i, j \in DOMAIN Share!RemoveAt(q, k) : Share!RemoveAt(q, k)[i]
            = Share!RemoveAt(q, k)[j] => i = j
         /\ Share!ToSet(q) \ {q[k]} \subseteq Share!ToSet(Share!RemoveAt(q, k))
         /\ Share!ToSet(Share!RemoveAt(q, k)) \subseteq Share!ToSet(q) \ {q[k]}
<1>1. PICK n \in Nat : n = Len(q) /\ DOMAIN q = 1..n
    BY LenProperties
<1>2. \A j \in 1..n : q[j] \in S
    BY <1>1, ElementOfSeq
<1>3. PICK a : a = SubSeq(q, 1, k - 1)
    OBVIOUS
<1>4. PICK b : b = SubSeq(q, k + 1, n)
    OBVIOUS
<1>5. a \in Seq(S) /\ Len(a) = k - 1 /\ \A i \in 1..(k - 1) : a[i] = q[i]
  <2>1. \A j \in 1..(k - 1) : q[j] \in S
      BY <1>1, <1>2
  <2> QED
      BY <1>1, <1>3, <2>1, SubSeqProperties
<1>6. b \in Seq(S) /\ Len(b) = n - k /\ \A i \in 1..(n - k) : b[i] = q[k + i]
  <2>1. \A j \in (k + 1)..n : q[j] \in S
      BY <1>1, <1>2
  <2> QED
      BY <1>1, <1>4, <2>1, SubSeqProperties
<1>7. PICK r : r = Share!RemoveAt(q, k) /\ r = a \o b
    BY <1>1, <1>3, <1>4 DEF Share!RemoveAt
<1>8. r \in Seq(S) /\ Len(r) = n - 1
  <2>1. r \in Seq(S) /\ Len(r) = Len(a) + Len(b)
    <3>1. a \in Seq(S) /\ b \in Seq(S)
        BY <1>5, <1>6
    <3>2. a \o b \in Seq(S) /\ Len(a \o b) = Len(a) + Len(b)
        BY <3>1, ConcatProperties
    <3> QED
        BY <1>7, <3>2
  <2> QED
      BY <1>1, <1>5, <1>6, <2>1
<1>9. DOMAIN r = 1..(n - 1)
    BY <1>8, LenProperties
<1>10. ASSUME NEW i \in 1..(n - 1) PROVE r[i] = IF i < k THEN q[i] ELSE q[i + 1]
  <2>1. r[i] = IF i <= Len(a) THEN a[i] ELSE b[i - Len(a)]
    <3>1. i \in 1..(Len(a) + Len(b))
        BY <1>1, <1>5, <1>6
    <3>2. a \in Seq(S) /\ b \in Seq(S)
        BY <1>5, <1>6
    <3>3. (a \o b)[i] = IF i <= Len(a) THEN a[i] ELSE b[i - Len(a)]
        BY <3>1, <3>2, ConcatProperties
    <3> QED
        BY <1>7, <3>3
  <2>2. CASE i < k
      BY <1>1, <1>5, <2>1, <2>2
  <2>3. CASE ~ (i < k)
    <3>1. b[i - (k - 1)] = q[k + (i - (k - 1))]
        BY <1>1, <1>6, <2>3
    <3>2. k + (i - (k - 1)) = i + 1
        BY <1>1
    <3> QED
        BY <1>1, <1>5, <2>1, <2>3, <3>1, <3>2
  <2> QED
      BY <2>2, <2>3
<1>11. PICK who : who = [i \in 1..(n - 1) |-> IF i < k THEN i ELSE i + 1]
    OBVIOUS
<1>12. ASSUME NEW i \in 1..(n - 1) PROVE r[i] = q[who[i]] /\ who[i] \in 1..n /\ who[i] # k
    BY <1>1, <1>10, <1>11
<1>13. \A i, j \in 1..(n - 1) : who[i] = who[j] => i = j
    BY <1>1, <1>11
<1>14. \A i, j \in DOMAIN r : r[i] = r[j] => i = j
  <2>1. SUFFICES ASSUME NEW i \in 1..(n - 1), NEW j \in 1..(n - 1), r[i] = r[j] PROVE i = j
      BY <1>9
  <2>2. who[i] = who[j]
      BY <1>1, <1>12, <2>1
  <2> QED
      BY <1>13, <2>2
<1>15. ASSUME NEW x \in Share!ToSet(q), x # q[k] PROVE x \in Share!ToSet(r)
  <2>1. PICK j \in 1..n : q[j] = x
      BY <1>1, <1>15 DEF Share!ToSet
  <2>2. j # k
      BY <1>15, <2>1
  <2>3. PICK i \in 1..(n - 1) : who[i] = j
    <3>1. CASE j < k
      <4>1. j \in 1..(n - 1) /\ who[j] = j
          BY <1>1, <1>11, <2>1, <3>1
      <4> QED
          BY <4>1
    <3>2. CASE j > k
      <4>1. j - 1 \in 1..(n - 1) /\ ~ (j - 1 < k) /\ (j - 1) + 1 = j
          BY <1>1, <2>1, <3>2
      <4>2. who[j - 1] = j
          BY <1>11, <4>1
      <4> QED
          BY <4>1, <4>2
    <3> QED
        BY <1>1, <2>2, <3>1, <3>2
  <2> QED
      BY <1>9, <1>12, <2>1, <2>3 DEF Share!ToSet
<1>16. ASSUME NEW x \in Share!ToSet(r) PROVE x \in Share!ToSet(q) /\ x # q[k]
  <2>1. PICK i \in 1..(n - 1) : r[i] = x
      BY <1>9, <1>16 DEF Share!ToSet
  <2>2. who[i] \in 1..n /\ who[i] # k /\ q[who[i]] = x
      BY <1>12, <2>1
  <2> QED
      BY <1>1, <2>2 DEF Share!ToSet
<1> QED
    BY <1>7, <1>8, <1>14, <1>15, <1>16

LEMMA DeactivateKeepsShares ==
  ASSUME Share!ShareAssumption, ShareInv, NEW m \in FuzzManagers,
       Share!Deactivate(m) PROVE ShareInv'
<1>1. /\ m \in Share!ToSet(active) /\ active' = Share!RemoveAt(active, Share!Place(m))
         /\ epoch' = epoch + 1
      /\ plan' = [plan EXCEPT ![m] = Share!NoPlan] /\ size' = size
    BY DEF Share!Deactivate
<1>2. PICK k \in DOMAIN active : k = Share!Place(m) /\ active[k] = m
    BY <1>1, Places DEF ShareInv
<1>3. active' = Share!RemoveAt(active, k)
    BY <1>1, <1>2
<1>4. active \in Seq(FuzzManagers) /\ \A i, j \in DOMAIN active : active[i] = active[j] => i = j
    BY DEF ShareInv, OnePlace
<1>5. active' \in Seq(FuzzManagers)
    BY <1>3, <1>4, RemovedFromActive
<1>6. OnePlace'
    BY <1>3, <1>4, RemovedFromActive DEF OnePlace
<1>7. Share!ToSet(active) \ {m} = Share!ToSet(active')
    BY <1>2, <1>3, <1>4, RemovedFromActive
<1>8. Share!NoPlan \in Plans /\ Share!NoPlan.epoch = 0 /\ Share!NoPlan.cores = 0
    BY DEF Share!NoPlan, Plans
<1>9. plan' \in [FuzzManagers -> Plans] /\ plan'[m] = Share!NoPlan
      /\ \A x \in FuzzManagers \ {m} : plan'[x] = plan[x]
    BY <1>1, <1>8 DEF ShareInv
<1>10. \A x \in FuzzManagers : plan'[x].epoch <= epoch /\ plan'[x].epoch \in Nat /\ epoch \in Nat
  <2>1. 0 <= epoch /\ epoch \in Nat
      BY DEF ShareInv
  <2> QED
      BY <1>8, <1>9, <2>1 DEF ShareInv, Plans
<1>11. \A x \in FuzzManagers : plan'[x].epoch <= epoch' /\ plan'[x].epoch # epoch'
    BY <1>1, <1>10
<1>12. \A x \in FuzzManagers \ Share!ToSet(active') : plan'[x].cores = 0
    BY <1>7, <1>8, <1>9 DEF ShareInv
<1>13. Share!ToSet(active') \subseteq FuzzManagers
    BY <1>4, <1>7, Places DEF OnePlace
<1>14. epoch' \in Nat /\ size' \in [FuzzManagers -> FuzzSizes]
    BY <1>1 DEF ShareInv
<1> QED
    BY <1>5, <1>6, <1>9, <1>11, <1>12, <1>13, <1>14 DEF ShareInv

LEMMA SharesNext ==
  ASSUME Share!ShareAssumption, ShareInv, [Share!Next]_(Share!shareVars)
  PROVE  ShareInv'
<1>1. CASE UNCHANGED Share!shareVars
  <2>1. active' = active /\ epoch' = epoch /\ size' = size /\ plan' = plan
      BY <1>1 DEF Share!shareVars
  <2>2. \A x : Share!Share(x)' = Share!Share(x)
      BY <2>1 DEF Share!Share, Share!Base, Share!Running, Share!Place
  <2> QED
      BY <2>1, <2>2 DEF ShareInv, OnePlace
<1>2. CASE Share!Next
    BY <1>2, ActivateKeepsShares, PlanKeepsShares, NoticeKeepsShares,
       DeactivateKeepsShares DEF Share!Next
<1> QED
    BY <1>1, <1>2

\* The model's sums are sums of functions.
CoresOf == [m \in FuzzManagers |-> plan[m].cores]
SharesOf(D) == [m \in D |-> IF m \in Share!ToSet(active) THEN Share!Share(m) ELSE 0]

LEMMA CoresInUse ==
  ASSUME IsFiniteSet(FuzzManagers)
  PROVE  Share!InUse = SumOf(CoresOf, FuzzManagers)
<1> DEFINE Sums(g) == g = [T \in SUBSET FuzzManagers |-> IF T = {} THEN 0
                                                     ELSE plan[One(T)].cores + g[Others(T)]]
<1>1. ASSUME NEW g PROVE Sums(g) <=> SumsOf(g, CoresOf, FuzzManagers)
  <2>1. \A T \in SUBSET FuzzManagers : T # {} => CoresOf[One(T)] = plan[One(T)].cores
      BY DEF CoresOf, One
  <2> HIDE DEF CoresOf
  <2> QED
      BY <2>1 DEF SumsOf
<1>2. Share!InUse = (CHOOSE g : Sums(g))[FuzzManagers]
    BY DEF Share!InUse, Share!MapThenSumSet, Share!MapThenFoldSet, One, Others
<1>3. SumsOf(CHOOSE g : Sums(g), CoresOf, FuzzManagers)
  <2> HIDE DEF Sums
  <2>1. \E g : Sums(g)
      BY <1>1, SumsExist
  <2> QED
      BY <1>1, <2>1
<1> QED
    BY <1>2, <1>3, SumIs

LEMMA SharesAddUp ==
  ASSUME IsFiniteSet(Share!ToSet(active))
  PROVE  Share!MapThenSumSet(Share!Share, Share!ToSet(active))
         = SumOf(SharesOf(Share!ToSet(active)), Share!ToSet(active))
<1> DEFINE D == Share!ToSet(active)
           f == SharesOf(D)
           Sums(g) ==
             g = [T \in SUBSET D |-> IF T = {} THEN 0 ELSE Share!Share(One(T)) + g[Others(T)]]
<1>1. ASSUME NEW g PROVE Sums(g) <=> SumsOf(g, f, D)
  <2>1. \A T \in SUBSET D : T # {} => f[One(T)] = Share!Share(One(T))
      BY DEF SharesOf, One
  <2> HIDE DEF f
  <2> QED
      BY <2>1 DEF SumsOf
<1>2. Share!MapThenSumSet(Share!Share, D) = (CHOOSE g : Sums(g))[D]
    BY DEF Share!MapThenSumSet, Share!MapThenFoldSet, One, Others
<1>3. SumsOf(CHOOSE g : Sums(g), f, D)
  <2> HIDE DEF Sums, f, D
  <2>1. \E g : Sums(g)
      BY <1>1, SumsExist DEF D
  <2> QED
      BY <1>1, <2>1
<1> HIDE DEF f
<1> QED
    BY <1>2, <1>3, SumIs DEF f

LEMMA ShareInvShares == ASSUME Share!ShareAssumption, ShareInv PROVE Share!CoresAreShared
<1>1. SUFFICES ASSUME active # <<>>, Share!Settled
               PROVE  /\ Share!MapThenSumSet(Share!Share, Share!ToSet(active))
                         = Share!Max({Share!Total, Share!Running})
                      /\ Share!InUse <= Share!Max({Share!Total, Share!Running})
    BY DEF Share!CoresAreShared
<1>2. active \in Seq(FuzzManagers) /\ OnePlace /\ IsFiniteSet(FuzzManagers)
    BY ManagersAreFinite DEF ShareInv
<1>3. Share!ToSet(active) \subseteq FuzzManagers
    BY <1>2, Places
<1>4. IsFiniteSet(Share!ToSet(active))
    BY <1>2, <1>3, FS_Subset
<1>5. SumOf(SharesOf(Share!ToSet(active)), Share!ToSet(active))
      = Share!Max({Share!Total, Share!Running})
    BY <1>1, <1>2, <1>3, AllTheCores DEF SharesOf
<1>6. SumOf(SharesOf(FuzzManagers), FuzzManagers) = Share!Max({Share!Total, Share!Running})
    BY <1>1, <1>2, <1>3, AllTheCores DEF SharesOf
<1>7. SharesOf(FuzzManagers) \in [FuzzManagers -> Int]
  <2>1. \A m \in Share!ToSet(active) : Share!Share(m) \in Int
      BY <1>2, Shares
  <2> QED
      BY <2>1 DEF SharesOf
<1>8. CoresOf \in [FuzzManagers -> Int]
    BY DEF CoresOf, ShareInv, Plans
<1>9. \A m \in FuzzManagers : CoresOf[m] <= SharesOf(FuzzManagers)[m]
  <2>1. ASSUME NEW m \in FuzzManagers, m \in Share!ToSet(active)
        PROVE  CoresOf[m] <= SharesOf(FuzzManagers)[m]
      BY <1>1, <2>1 DEF Share!Settled, ShareInv, CoresOf, SharesOf
  <2>2. ASSUME NEW m \in FuzzManagers, m \notin Share!ToSet(active)
        PROVE  CoresOf[m] <= SharesOf(FuzzManagers)[m]
      BY <2>2 DEF ShareInv, CoresOf, SharesOf
  <2> QED
      BY <2>1, <2>2
<1>10. SumOf(CoresOf, FuzzManagers) <= SumOf(SharesOf(FuzzManagers), FuzzManagers)
    BY <1>2, <1>7, <1>8, <1>9, SumsAreAsLarge
<1> QED
    BY <1>2, <1>4, <1>5, <1>6, <1>10, CoresInUse, SharesAddUp

LEMMA SharesMove ==
  ASSUME [Next]_vars
  PROVE  UNCHANGED subject /\ (subject = "shares" => [Share!Next]_(Share!shareVars))
<1>1. CASE Next
    BY <1>1 DEF Next
<1>2. CASE UNCHANGED vars
  <2>1. UNCHANGED <<subject, sharesVars>>
      BY <1>2 DEF vars
  <2>2. UNCHANGED Share!shareVars
      BY <2>1 DEF sharesVars, Share!shareVars
  <2> QED
      BY <2>1, <2>2
<1> QED
    BY <1>1, <1>2

\* For any machines, cores, tasks and harnesses: once every manager has planned for those that
\* are there, their shares are all the cores (or one core each), and what their jobs take at a
\* time is never more than that, however managers come, go and plan again
\* (task_core_share, task_cores_per_job, FuzzManager.run).
THEOREM CoresAreAllShared == Spec => []CoresAreShared
<1> DEFINE I == subject = "shares" => ShareInv
<1>1. Init => I
    BY SharesInit, Assumptions DEF Init
<1>2. I /\ [Next]_vars => I'
    BY SharesNext, SharesMove, Assumptions
<1>3. I => CoresAreShared
    BY ShareInvShares, Assumptions DEF CoresAreShared
<1> QED
    BY <1>1, <1>2, <1>3, PTL DEF Spec
===============================================================================
