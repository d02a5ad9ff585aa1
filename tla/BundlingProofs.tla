---------------------------- MODULE BundlingProofs ----------------------------
(***************************************************************************)
(* Results about the bundling workflow, for any number of patches, POVs,   *)
(* vulnerabilities and submit jobs, over failing calls and crashes.        *)
(*   - No pair of a patch and a POV goes untested, and no bundle is        *)
(*     written with a patch that is known to leave a POV unfixed.  (Inv)   *)
(*   - Nothing is submitted twice without a reason; the rows, the          *)
(*     condition and the polls agree.  (Inv /\ Ledger)                     *)
(*   - A product of a bundle that is not submitted has a job that will     *)
(*     submit it.  (Inv /\ Ledger /\ ProductsHaveJobs)                     *)
(***************************************************************************)
EXTENDS Bundling, FiniteSetTheorems, SequenceTheorems, TLAPS

\* A record of the table bundles, whatever its fields hold.
IsBundle(b) ==
  b = [patch |-> b.patch, pov |-> b.pov, sarif |-> b.sarif, sent |-> b.sent]

\* Variables are functions and records of the form they started with.
Shapes ==
  /\ pc = [j \in Jobs |-> pc[j]]
  /\ target = [s \in Slots |-> target[s]]
  /\ bundle = [v \in Vulns |-> bundle[v]] /\ \A v \in Vulns : IsBundle(bundle[v])
  /\ work = [draft |-> work.draft, resubmit |-> work.resubmit,
             seen |-> work.seen, own |-> work.own, todo |-> work.todo]

\* A submit job that holds the condition or polls knows its vulnerability.
Targeted ==
  \A s \in Slots : pc[s] = "polling" \/ lock = s => target[s] \in Vulns

\* A POV gets its row, its vulnerability and its job; nothing else happens to it outside the
\* condition.
Moves(q) ==
  \/ pc'[q] = pc[q]
  \/ pc[q] = "absent" /\ pc'[q] = "found"
  \/ pc[q] = "found" /\ pc'[q] = "stored"
  \/ pc[q] = "stored" /\ pc'[q] = "ready"

\* The bundle that is about to be written holds no patch that is known to fail, but for a POV
\* that was given its vulnerability since the choice.  What has been tested cannot change
\* meanwhile: that is what the condition is held for.
Drafted ==
  /\ step \in {"choose", "update"} => IsBundle(work.draft)
  /\ step = "update" =>
       /\ \A q \in Povs : q \in work.own => pc[q] \notin {"absent", "found"}
       /\ work.draft.patch # None =>
            \A q \in Refuting(work.draft.patch) :
              q \notin work.own /\ pc[q] \in {"stored", "ready"}

\* A job that tests has seen all the others that were done before it.
Seen ==
  step = "testing" =>
    /\ lock \in Povs => \A p \in Patches : pc[p] = "done" => p \in work.seen
    /\ lock \in Patches => \A q \in Povs : pc[q] = "done" => q \in work.seen

\* The tests of a job are over.
Past(x) == pc[x] = "done" \/ (lock = x /\ step # "testing")
Paired == \A p \in Patches, q \in Povs : Past(p) /\ Past(q) => <<p, q>> \in results

Inv == Shapes /\ Targeted /\ Drafted /\ Seen /\ Paired

-----------------------------------------------------------------------------
USE DEF tests, tables, history, submits, jobs, holder

LEMMA Kinds ==
  /\ \A x \in Slots : x \notin Products
  /\ \A x \in Vulns : x \notin Patches /\ x \notin Povs
  /\ \A x \in Patches : x \notin Povs /\ x \in Jobs
  /\ \A x \in Povs : x \in Jobs
  /\ None \notin Jobs
  BY BundlingAssumption DEF Products, Jobs

LEMMA InitInv == Init => Inv
<1> SUFFICES ASSUME Init PROVE Inv
    OBVIOUS
<1>1. Shapes
    BY DEF Init, Shapes, IsBundle, Empty, Idle
<1>2. Targeted
    BY Kinds DEF Init, Targeted, Jobs
<1>3. Drafted /\ Seen
    BY DEF Init, Drafted, Seen
<1>4. Paired
  <2>1. \A x \in Patches \cup Povs : pc[x] = "absent" /\ lock # x
      BY Kinds DEF Init, Jobs, Products
  <2> QED
      BY <2>1 DEF Paired, Past
<1> QED
    BY <1>1, <1>2, <1>3, <1>4 DEF Inv

LEMMA DraftedKept ==
  ASSUME Drafted, UNCHANGED <<step, work, fixes, results>>, \A q \in Povs : Moves(q)
  PROVE  Drafted'
<1>1. step' \in {"choose", "update"} => IsBundle(work'.draft)
    BY DEF Drafted, IsBundle
<1>2. ASSUME step' = "update", NEW q \in Povs, q \in work'.own
      PROVE  pc'[q] \notin {"absent", "found"}
    BY <1>2 DEF Drafted, Moves
<1>3. ASSUME step' = "update", work'.draft.patch # None,
             NEW q \in Povs, q \in Refuting(work.draft.patch)'
      PROVE  q \notin work'.own /\ pc'[q] \in {"stored", "ready"}
  <2>1. /\ pc'[q] \notin {"absent", "found"} /\ VulnOf[q] = VulnOf[work.draft.patch]
        /\ <<work.draft.patch, q>> \in results \ fixes
      BY <1>3 DEF Refuting, Of, Known
  <2>2. CASE pc[q] \in {"absent", "found"}
      BY <1>3, <2>1, <2>2 DEF Drafted, Moves
  <2>3. CASE pc[q] \notin {"absent", "found"}
    <3>1. q \in Refuting(work.draft.patch)
        BY <2>1, <2>3 DEF Refuting, Of, Known
    <3> QED
        BY <1>3, <2>3, <3>1 DEF Drafted, Moves
  <2> QED
      BY <2>2, <2>3
<1>4. \A q \in Refuting(work.draft.patch)' : q \in Povs
    BY DEF Refuting, Of, Known
<1> QED
    BY <1>1, <1>2, <1>3, <1>4 DEF Drafted

\* Steps outside the condition that end no job.
LEMMA OutsideStep ==
  ASSUME Inv, UNCHANGED <<lock, step, work, target, bundle, fixes, results>>,
         pc' = [j \in Jobs |-> pc'[j]], \A q \in Povs : Moves(q),
         \A j \in Jobs : pc'[j] \in {"done", "polling"} => pc'[j] = pc[j]
  PROVE  Inv'
<1> USE DEF Inv
<1>1. Shapes'
    BY DEF Shapes, IsBundle
<1>2. Targeted'
    BY DEF Targeted, Jobs
<1>3. Drafted'
    BY DraftedKept
<1>4. Seen'
    BY Kinds DEF Seen
<1>5. Paired'
    BY Kinds DEF Paired, Past
<1> QED
    BY <1>1, <1>2, <1>3, <1>4, <1>5

LEMMA StoreSteps ==
  ASSUME Inv,
         \/ \E p \in Patches : StorePatch(p) \/ DelayOver(p) \/ WaitTimeout(p)
         \/ \E q \in Povs : AddPov(q) \/ AssignPov(q)
         \/ \E x \in Products : SubmitProduct(x)
         \/ \E s \in Slots : PollDone(s)
         \/ UNCHANGED vars
  PROVE  Inv'
<1>1. /\ UNCHANGED <<lock, step, work, target, bundle, fixes, results>>
      /\ \/ UNCHANGED pc
         \/ \E j \in Jobs, c \in {"found", "stored", "delayed", "ready"} :
              /\ pc' = [pc EXCEPT ![j] = c]
              /\ j \in Povs => \/ c = "found" /\ pc[j] = "absent"
                               \/ c = "stored" /\ pc[j] = "found"
                               \/ c = "ready" /\ pc[j] = "stored"
    BY Kinds DEF StorePatch, DelayOver, WaitTimeout, AddPov, AssignPov, SubmitProduct,
                 PollDone, vars, Jobs, Products
<1>2. /\ pc' = [j \in Jobs |-> pc'[j]]
      /\ \A j \in Jobs : pc'[j] \in {"done", "polling"} => pc'[j] = pc[j]
    BY <1>1 DEF Inv, Shapes
<1>3. \A q \in Povs : Moves(q)
    BY <1>1, Kinds DEF Inv, Shapes, Moves
<1> QED
    BY <1>1, <1>2, <1>3, OutsideStep

\* A job takes the condition.
LEMMA EnterSteps ==
  ASSUME Inv, NEW j \in Jobs, Enter(j) PROVE Inv'
<1> USE DEF Inv
<1>1. CASE EnterPatch(j) /\ MustWait(j)
  <2>1. /\ UNCHANGED <<lock, step, work, target, bundle, fixes, results>>
        /\ pc' = [pc EXCEPT ![j] = "waiting"]
      BY <1>1 DEF EnterPatch
  <2>2. /\ pc' = [k \in Jobs |-> pc'[k]]
        /\ \A k \in Jobs : pc'[k] \in {"done", "polling"} => pc'[k] = pc[k]
      BY <2>1 DEF Shapes
  <2>3. \A q \in Povs : Moves(q)
      BY <1>1, <2>1, Kinds DEF Shapes, Moves, EnterPatch
  <2> QED
      BY <2>1, <2>2, <2>3, OutsideStep
<1>2. ASSUME NEW w, Hold(j, "testing", w), lock = None,
             UNCHANGED <<target, bundle, fixes, results>>,
             \/ /\ j \in Patches
                /\ w = [Idle EXCEPT !.seen = Known(Povs), !.own = Of(VulnOf[j], Povs)]
             \/ j \in Povs /\ w = [Idle EXCEPT !.seen = Known(Patches)]
      PROVE  Inv'
  <2>1. /\ lock' = j /\ step' = "testing" /\ work' = w
        /\ pc' = [pc EXCEPT ![j] = "holding"] /\ j \notin Slots
      BY <1>2, Kinds DEF Hold, Products
  <2>2. \A k \in Jobs : pc'[k] = IF k = j THEN "holding" ELSE pc[k]
      BY <2>1 DEF Shapes
  <2>3. Shapes'
      BY <1>2, <2>1 DEF Shapes, Idle, IsBundle
  <2>4. Targeted'
      BY <1>2, <2>1, <2>2 DEF Targeted, Jobs
  <2>5. Drafted'
      BY <2>1 DEF Drafted
  <2>6. Seen'
    <3>1. \A x \in Jobs : pc'[x] = "done" => pc[x] = "done"
        BY <2>2
    <3> QED
        BY <1>2, <2>1, <3>1, Kinds DEF Seen, Idle, Known
  <2>7. Paired'
      BY <1>2, <2>1, <2>2, Kinds DEF Paired, Past
  <2> QED
      BY <2>3, <2>4, <2>5, <2>6, <2>7
<1>3. CASE EnterReview(j)
  <2>1. /\ lock = None /\ lock' = j /\ step' = "review" /\ work' = Idle
        /\ pc' = [pc EXCEPT ![j] = "holding"]
        /\ UNCHANGED <<target, bundle, fixes, results>>
        /\ j \in Vulns \/ (j \in Slots /\ pc[j] = "polling")
      BY <1>3 DEF EnterReview, Hold
  <2>2. /\ \A k \in Jobs : pc'[k] = IF k = j THEN "holding" ELSE pc[k]
        /\ j \notin Patches /\ j \notin Povs
      BY <2>1, Kinds DEF Shapes, Products
  <2>3. Shapes'
      BY <2>1 DEF Shapes, Idle, IsBundle
  <2>4. Targeted'
      BY <2>1, <2>2, Kinds DEF Targeted, Jobs, Products
  <2>5. Drafted' /\ Seen'
      BY <2>1 DEF Drafted, Seen
  <2>6. Paired'
      BY <2>1, <2>2, Kinds DEF Paired, Past
  <2> QED
      BY <2>3, <2>4, <2>5, <2>6
<1>4. CASE EnterPatch(j) /\ ~MustWait(j)
    BY <1>2, <1>4 DEF EnterPatch
<1>5. CASE EnterPov(j)
    BY <1>2, <1>5 DEF EnterPov
<1> QED
    BY <1>1, <1>3, <1>4, <1>5 DEF Enter

-----------------------------------------------------------------------------
\* The condition is given back, by the job that had it or by a crash.
LEMMA Release ==
  ASSUME lock' = None, step' = "none", work' = Idle,
         pc' = [j \in Jobs |-> pc'[j]],
         target' = [s \in Slots |-> target'[s]],
         \A s \in Slots : pc'[s] = "polling" => target'[s] \in Vulns,
         bundle' = [v \in Vulns |-> bundle'[v]], \A v \in Vulns : IsBundle(bundle'[v]),
         \A p \in Patches, q \in Povs :
           pc'[p] = "done" /\ pc'[q] = "done" => <<p, q>> \in results'
  PROVE  Inv'
<1>1. Shapes'
    BY DEF Shapes, Idle, IsBundle
<1>2. Targeted'
    BY Kinds DEF Targeted, Jobs
<1>3. Drafted' /\ Seen'
    BY DEF Drafted, Seen
<1>4. Paired'
    BY Kinds DEF Paired, Past
<1> QED
    BY <1>1, <1>2, <1>3, <1>4 DEF Inv

\* The holder goes on.
LEMMA Keep ==
  ASSUME Inv, NEW j \in Jobs, lock = j, UNCHANGED <<lock, pc, target, fixes>>,
         step' # "testing",
         bundle' = [v \in Vulns |-> bundle'[v]], \A v \in Vulns : IsBundle(bundle'[v]),
         work' = [draft |-> work'.draft, resubmit |-> work'.resubmit,
                  seen |-> work'.seen, own |-> work'.own, todo |-> work'.todo],
         Drafted',
         \A p \in Patches, q \in Povs :
           (pc[p] = "done" \/ p = j) /\ (pc[q] = "done" \/ q = j) => <<p, q>> \in results'
  PROVE  Inv'
<1>1. Shapes'
    BY DEF Inv, Shapes, IsBundle
<1>2. Targeted'
    BY DEF Inv, Targeted
<1>3. Seen'
    BY DEF Seen
<1>4. Paired'
    BY DEF Paired, Past
<1> QED
    BY <1>1, <1>2, <1>3, <1>4 DEF Inv

\* Only a test changes what is known about the pairs.
LEMMA PairsOf ==
  ASSUME Inv, NEW j \in Jobs, lock = j, step # "testing"
  PROVE  \A p \in Patches, q \in Povs :
           (pc[p] = "done" \/ p = j) /\ (pc[q] = "done" \/ q = j) => <<p, q>> \in results
  BY DEF Inv, Paired, Past

\* A test is over: the pairs of the job are all in the table.
LEMMA PairsOfTest ==
  ASSUME Inv, NEW j \in Jobs, Test(j)
  PROVE  \A p \in Patches, q \in Povs :
           (pc[p] = "done" \/ p = j) /\ (pc[q] = "done" \/ q = j) => <<p, q>> \in results'
<1> SUFFICES ASSUME NEW p \in Patches, NEW q \in Povs,
                    pc[p] = "done" \/ p = j, pc[q] = "done" \/ q = j
             PROVE  <<p, q>> \in results'
    OBVIOUS
<1>1. lock = j /\ step = "testing" /\ results' = results \cup Tests(j)
    BY DEF Test
<1>2. CASE p = j
  <2>1. q # j /\ q \in work.seen
      BY <1>1, <1>2, Kinds DEF Inv, Seen
  <2> QED
      BY <1>1, <1>2, <2>1 DEF Tests
<1>3. CASE q = j
  <2>1. p # j /\ p \in work.seen
      BY <1>1, <1>3, Kinds DEF Inv, Seen
  <2>2. j \notin Patches
      BY <1>3, Kinds
  <2> QED
      BY <1>1, <1>3, <2>1, <2>2 DEF Tests
<1>4. CASE p # j /\ q # j
    BY <1>1, <1>4 DEF Inv, Paired, Past
<1> QED
    BY <1>2, <1>3, <1>4

\* The three ways in which the holder leaves.
LEMMA Departs ==
  ASSUME Inv, NEW j \in Jobs, lock = j,
         bundle' = [v \in Vulns |-> bundle'[v]], \A v \in Vulns : IsBundle(bundle'[v]),
         \A p \in Patches, q \in Povs :
           (pc[p] = "done" \/ p = j) /\ (pc[q] = "done" \/ q = j) => <<p, q>> \in results',
         Finish(j) \/ Leave(j) \/ Restart(j)
  PROVE  Inv'
<1> USE DEF Inv
<1>0. None \notin Jobs
    BY Kinds
<1>1. CASE Finish(j)
  <2>1. /\ lock' = None /\ step' = "none" /\ work' = Idle
        /\ pc' = [pc EXCEPT ![j] = After(j)] /\ target' = Without(target, j)
      BY <1>1 DEF Finish
  <2>2. /\ pc' = [k \in Jobs |-> pc'[k]]
        /\ \A k \in Jobs : pc'[k] = IF k = j THEN After(j) ELSE pc[k]
      BY <2>1 DEF Shapes
  <2>3. /\ target' = [s \in Slots |-> target'[s]]
        /\ \A s \in Slots : pc'[s] = "polling" => target'[s] \in Vulns
      BY <2>1, <2>2 DEF Without, After, Targeted, Jobs
  <2>4. \A p \in Patches, q \in Povs :
           pc'[p] = "done" /\ pc'[q] = "done" => <<p, q>> \in results'
      BY <2>2, Kinds
  <2> QED
      BY <2>1, <2>2, <2>3, <2>4, Release
<1>2. CASE Leave(j) /\ polled[j]
  <2>1. /\ lock' = None /\ step' = "none" /\ work' = Idle
        /\ pc' = [pc EXCEPT ![j] = "polling"] /\ UNCHANGED target
      BY <1>2 DEF Leave
  <2>2. /\ pc' = [k \in Jobs |-> pc'[k]]
        /\ \A k \in Jobs : pc'[k] = IF k = j THEN "polling" ELSE pc[k]
      BY <2>1 DEF Shapes
  <2>3. /\ target' = [s \in Slots |-> target'[s]]
        /\ \A s \in Slots : pc'[s] = "polling" => target'[s] \in Vulns
      BY <2>1, <2>2 DEF Targeted, Jobs, Shapes
  <2>4. \A p \in Patches, q \in Povs :
           pc'[p] = "done" /\ pc'[q] = "done" => <<p, q>> \in results'
      BY <2>2, Kinds
  <2> QED
      BY <2>1, <2>2, <2>3, <2>4, Release
<1>3. CASE Leave(j) /\ ~polled[j]
    BY <1>1, <1>3 DEF Leave
<1>4. CASE Restart(j)
  <2>1. /\ lock' = None /\ step' = "none" /\ work' = Idle
        /\ pc' = [pc EXCEPT ![j] = IF j \in Slots THEN "free" ELSE "ready"]
        /\ target' = Without(target, j)
      BY <1>4 DEF Restart
  <2>2. /\ pc' = [k \in Jobs |-> pc'[k]]
        /\ \A k \in Jobs : pc'[k] = IF k = j THEN IF j \in Slots THEN "free" ELSE "ready"
                                    ELSE pc[k]
      BY <2>1 DEF Shapes
  <2>3. /\ target' = [s \in Slots |-> target'[s]]
        /\ \A s \in Slots : pc'[s] = "polling" => target'[s] \in Vulns
      BY <2>1, <2>2 DEF Without, Targeted, Jobs
  <2>4. \A p \in Patches, q \in Povs :
           pc'[p] = "done" /\ pc'[q] = "done" => <<p, q>> \in results'
      BY <2>2, Kinds
  <2> QED
      BY <2>1, <2>2, <2>3, <2>4, Release
<1> QED
    BY <1>1, <1>2, <1>3, <1>4

-----------------------------------------------------------------------------
\* What Continue leaves to be shown.
LEMMA Continues ==
  ASSUME Inv, NEW j \in Jobs, lock = j, step # "testing",
         NEW s, NEW w, Continue(j, s, w), s # "testing",
         w = [draft |-> w.draft, resubmit |-> w.resubmit,
              seen |-> w.seen, own |-> w.own, todo |-> w.todo],
         UNCHANGED <<fixes, results>>, Drafted',
         bundle' = [v \in Vulns |-> bundle'[v]], \A v \in Vulns : IsBundle(bundle'[v])
  PROVE  Inv'
<1>1. /\ UNCHANGED <<lock, pc, target, fixes>> /\ step' # "testing" /\ work' = w
      /\ work' = [draft |-> work'.draft, resubmit |-> work'.resubmit,
                  seen |-> work'.seen, own |-> work'.own, todo |-> work'.todo]
    BY DEF Continue
<1>2. \A p \in Patches, q \in Povs :
        (pc[p] = "done" \/ p = j) /\ (pc[q] = "done" \/ q = j) => <<p, q>> \in results'
    BY PairsOf
<1> QED
    BY <1>1, <1>2, Keep

\* A record of the table that is changed is one.
Vetted(a, p, q) == [a EXCEPT !.patch = p, !.pov = q]
Redrafted(a, p, q, r) == [a EXCEPT !.patch = p, !.pov = q, !.sarif = r]

LEMMA Redrafts ==
  ASSUME NEW a, IsBundle(a), NEW p, NEW q, NEW r
  PROVE  /\ IsBundle(Vetted(a, p, q)) /\ IsBundle(Redrafted(a, p, q, r))
         /\ Redrafted(a, p, q, r).patch = p
<1> DEFINE d == [a EXCEPT !.patch = p] e == [d EXCEPT !.pov = q] f == [e EXCEPT !.sarif = r]
<1>1. PICK pa, po, sa, se : a = [patch |-> pa, pov |-> po, sarif |-> sa, sent |-> se]
    BY DEF IsBundle
<1>2. d = [patch |-> p, pov |-> po, sarif |-> sa, sent |-> se]
    BY <1>1
<1> HIDE DEF d
<1>3. e = [patch |-> p, pov |-> q, sarif |-> sa, sent |-> se]
    BY <1>2
<1> HIDE DEF e
<1>4. f = [patch |-> p, pov |-> q, sarif |-> r, sent |-> se]
    BY <1>3
<1>5. IsBundle(e)
    BY <1>3 DEF IsBundle
<1> HIDE DEF f
<1>6. IsBundle(f) /\ f.patch = p
    BY <1>4 DEF IsBundle
<1>7. e = Vetted(a, p, q) /\ f = Redrafted(a, p, q, r)
    BY DEF d, e, f, Vetted, Redrafted
<1> QED
    BY <1>5, <1>6, <1>7

\* A record of the local variables that is changed is one.
LEMMA Redraw ==
  ASSUME NEW r, NEW d
  PROVE  LET w == [Idle EXCEPT !.resubmit = r, !.draft = d] IN
           /\ w = [draft |-> w.draft, resubmit |-> w.resubmit,
                   seen |-> w.seen, own |-> w.own, todo |-> w.todo]
           /\ w.draft = d
<1> DEFINE u == [Idle EXCEPT !.resubmit = r] w == [u EXCEPT !.draft = d]
<1>0. PICK n, b, e, g, t : Idle = [draft |-> n, resubmit |-> b, seen |-> e, own |-> g, todo |-> t]
    BY DEF Idle
<1>1. u = [draft |-> n, resubmit |-> r, seen |-> e, own |-> g, todo |-> t]
    BY <1>0
<1> HIDE DEF u
<1>2. w = [draft |-> d, resubmit |-> r, seen |-> e, own |-> g, todo |-> t]
    BY <1>1
<1> HIDE DEF w
<1>3. w = [draft |-> w.draft, resubmit |-> w.resubmit,
           seen |-> w.seen, own |-> w.own, todo |-> w.todo]
      /\ w.draft = d
    BY <1>2
<1>4. w = [Idle EXCEPT !.resubmit = r, !.draft = d]
    BY DEF u, w
<1> QED
    BY <1>3, <1>4

\* The part that decides what the bundle will be, up to the submit job.
LEMMA TestStep == ASSUME Inv, NEW j \in Jobs, Test(j) PROVE Inv'
<1>1. \A p \in Patches, q \in Povs :
        (pc[p] = "done" \/ p = j) /\ (pc[q] = "done" \/ q = j) => <<p, q>> \in results'
    BY PairsOfTest
<1>2. lock = j /\ UNCHANGED <<fixes, bundle>> /\ (Finish(j) \/ Continue(j, "review", Idle))
    BY DEF Test
<1>3. bundle' = [v \in Vulns |-> bundle'[v]] /\ \A v \in Vulns : IsBundle(bundle'[v])
    BY <1>2 DEF Inv, Shapes
<1>4. CASE Finish(j)
    BY <1>1, <1>2, <1>3, <1>4, Departs
<1>5. CASE Continue(j, "review", Idle)
  <2>1. /\ UNCHANGED <<lock, pc, target>> /\ step' = "review" /\ work' = Idle
        /\ work' = [draft |-> work'.draft, resubmit |-> work'.resubmit,
                    seen |-> work'.seen, own |-> work'.own, todo |-> work'.todo]
      BY <1>5 DEF Continue, Idle
  <2>2. Drafted'
      BY <2>1 DEF Drafted
  <2> QED
      BY <1>1, <1>2, <1>3, <2>1, <2>2, Keep
<1> QED
    BY <1>2, <1>4, <1>5

\* The vulnerability of the holder has a bundle, where the holder reads it.
LEMMA HolderVuln == ASSUME Inv, NEW j \in Jobs, lock = j PROVE Vuln(j) \in Vulns
<1>1. CASE j \in Slots
    BY <1>1 DEF Vuln, Inv, Targeted
<1>2. CASE j \in Vulns
    BY <1>2, Kinds DEF Vuln, Products
<1>3. CASE j \in Patches \cup Povs
    BY <1>3, Kinds, BundlingAssumption DEF Vuln, Products
<1> QED
    BY <1>1, <1>2, <1>3 DEF Jobs, Products

LEMMA ReviewStep == ASSUME Inv, NEW j \in Jobs, Review(j) PROVE Inv'
<1> DEFINE b == bundle[Vuln(j)]
           errored == {x \in {b.patch, b.pov} : StatusOf(x) = "errored"}
           patch == IF StatusOf(b.patch) = "failed" THEN None ELSE b.patch
           pov == IF StatusOf(b.pov) = "failed" THEN None ELSE b.pov
           draft == [b EXCEPT !.patch = patch, !.pov = pov]
           w == [Idle EXCEPT !.resubmit = Resubmit(errored), !.draft = draft]
<1>1. /\ lock = j /\ step = "review" /\ UNCHANGED <<fixes, results, bundle>>
      /\ Continue(j, "choose", w)
    BY DEF Review
<1>2. Vuln(j) \in Vulns
    BY <1>1, HolderVuln
<1>3. IsBundle(b)
    BY <1>2 DEF Inv, Shapes
<1>4. IsBundle(draft)
  <2>1. draft = Vetted(b, patch, pov)
      BY DEF Vetted
  <2> HIDE DEF patch, pov, b, draft
  <2> QED
      BY <1>3, <2>1, Redrafts
<1>5. /\ w = [draft |-> w.draft, resubmit |-> w.resubmit,
              seen |-> w.seen, own |-> w.own, todo |-> w.todo]
      /\ w.draft = draft
  <2> DEFINE r == Resubmit(errored)
  <2> HIDE DEF draft, r
  <2> QED
    BY Redraw, Zenon
<1> HIDE DEF w, draft
<1>6. Drafted'
    BY <1>1, <1>4, <1>5 DEF Continue, Drafted, IsBundle
<1>7. bundle' = [v \in Vulns |-> bundle'[v]] /\ \A v \in Vulns : IsBundle(bundle'[v])
    BY <1>1 DEF Inv, Shapes
<1> QED
    BY <1>1, <1>5, <1>6, <1>7, Continues

\* The choice is made.
LEMMA Redecide ==
  ASSUME Inv, NEW b, NEW o
  PROVE  [work EXCEPT !.draft = b, !.own = o] =
           [draft |-> b, resubmit |-> work.resubmit, seen |-> work.seen, own |-> o,
            todo |-> work.todo]
<1> DEFINE u == [work EXCEPT !.draft = b] w == [u EXCEPT !.own = o]
<1>1. PICK d, r, e, g, t :
        work = [draft |-> d, resubmit |-> r, seen |-> e, own |-> g, todo |-> t]
    BY DEF Inv, Shapes
<1>2. u = [draft |-> b, resubmit |-> r, seen |-> e, own |-> g, todo |-> t]
    BY <1>1
<1> HIDE DEF u
<1>3. w = [draft |-> b, resubmit |-> r, seen |-> e, own |-> o, todo |-> t]
    BY <1>2
<1>4. r = work.resubmit /\ e = work.seen /\ t = work.todo
    BY <1>1
<1> QED
    BY <1>3, <1>4 DEF u

\* A patch that is chosen has failed no test.
LEMMA ChosenPatch ==
  ASSUME NEW v, NEW p, NEW n \in NextPatch(v, p), n # None PROVE Refuting(n) = {}
  BY DEF NextPatch, Refuted

LEMMA ChooseStep == ASSUME Inv, NEW j \in Jobs, Choose(j) PROVE Inv'
<1>1. /\ lock = j /\ step = "choose" /\ UNCHANGED <<fixes, results, bundle>>
      /\ IsBundle(work.draft)
    BY DEF Choose, Inv, Drafted
<1>2. PICK p \in NextPatch(Vuln(j), work.draft.patch),
           q \in NextPov(Vuln(j), work.draft.pov) :
        LET b == [work.draft EXCEPT !.patch = p, !.pov = q, !.sarif = @ \/ j \in Vulns] IN
          \/ Continue(j, "update", [work EXCEPT !.draft = b, !.own = Of(Vuln(j), Povs)])
          \/ Continue(j, "enqueue", work)
          \/ Finish(j)
    BY DEF Choose
<1> DEFINE b == [work.draft EXCEPT !.patch = p, !.pov = q, !.sarif = @ \/ j \in Vulns]
           w == [work EXCEPT !.draft = b, !.own = Of(Vuln(j), Povs)]
<1>3. IsBundle(b) /\ b.patch = p
  <2> DEFINE r == work.draft.sarif \/ j \in Vulns
  <2>1. b = Redrafted(work.draft, p, q, r)
      BY DEF Redrafted
  <2>2. IsBundle(work.draft)
      BY <1>1
  <2> HIDE DEF r, b
  <2> QED
      BY <2>1, <2>2, Redrafts
<1>4. bundle' = [v \in Vulns |-> bundle'[v]] /\ \A v \in Vulns : IsBundle(bundle'[v])
    BY <1>1 DEF Inv, Shapes
<1> HIDE DEF b
<1>5. CASE Continue(j, "update", w)
  <2> DEFINE read == Of(Vuln(j), Povs)
  <2>1. w = [draft |-> b, resubmit |-> work.resubmit, seen |-> work.seen, own |-> read,
             todo |-> work.todo]
      BY Redecide
  <2>2. /\ w = [draft |-> w.draft, resubmit |-> w.resubmit, seen |-> w.seen, own |-> w.own,
                todo |-> w.todo]
        /\ w.draft = b /\ w.own = read
      BY <2>1
  <2>3. work' = w /\ step' = "update" /\ UNCHANGED pc
      BY <1>5 DEF Continue
  <2> HIDE DEF w
  <2>4. p # None => Refuting(p) = {}
      BY ChosenPatch
  <2>5. Drafted'
    <3>1. \A q2 \in Povs : q2 \in work'.own => pc'[q2] \notin {"absent", "found"}
        BY <2>2, <2>3 DEF read, Of, Known
    <3>2. work'.draft.patch = p
        BY <1>3, <2>2, <2>3
    <3>3. Refuting(p)' = Refuting(p)
        BY <1>1, <2>3 DEF Refuting, Of, Known
    <3>4. IsBundle(work'.draft)
        BY <1>3, <2>2, <2>3 DEF IsBundle
    <3>5. p # None => \A q2 \in Refuting(work.draft.patch)' : FALSE
        BY <2>4, <3>2, <3>3 DEF Refuting
    <3> QED
        BY <2>3, <3>1, <3>2, <3>4, <3>5 DEF Drafted
  <2> QED
      BY <1>1, <1>4, <1>5, <2>2, <2>5, Continues
<1>6. CASE Continue(j, "enqueue", work)
  <2>1. Drafted'
      BY <1>6 DEF Drafted, Continue
  <2>2. work = [draft |-> work.draft, resubmit |-> work.resubmit,
                seen |-> work.seen, own |-> work.own, todo |-> work.todo]
      BY DEF Inv, Shapes
  <2> QED
      BY <1>1, <1>4, <1>6, <2>1, <2>2, Continues
<1>7. CASE Finish(j)
  <2>1. \A x \in Patches, y \in Povs :
          (pc[x] = "done" \/ x = j) /\ (pc[y] = "done" \/ y = j) => <<x, y>> \in results'
      BY <1>1, PairsOf
  <2> QED
      BY <1>1, <1>4, <1>7, <2>1, Departs
<1> QED
    BY <1>2, <1>5, <1>6, <1>7 DEF b

LEMMA UpdateStep == ASSUME Inv, NEW j \in Jobs, Update(j) PROVE Inv'
<1>1. /\ lock = j /\ step = "update" /\ UNCHANGED <<fixes, results>>
      /\ bundle' = [bundle EXCEPT ![Vuln(j)] = work.draft]
      /\ Continue(j, "enqueue", work)
    BY DEF Update
<1>2. IsBundle(work.draft)
    BY <1>1 DEF Inv, Drafted
<1>3. bundle' = [v \in Vulns |-> bundle'[v]] /\ \A v \in Vulns : IsBundle(bundle'[v])
    BY <1>1, <1>2 DEF Inv, Shapes
<1>4. Drafted'
    BY <1>1 DEF Drafted, Continue
<1>5. work = [draft |-> work.draft, resubmit |-> work.resubmit,
              seen |-> work.seen, own |-> work.own, todo |-> work.todo]
    BY DEF Inv, Shapes
<1> QED
    BY <1>1, <1>3, <1>4, <1>5, Continues

LEMMA EnqueueStep == ASSUME Inv, NEW j \in Jobs, Enqueue(j) PROVE Inv'
<1>1. /\ lock = j /\ step = "enqueue" /\ UNCHANGED <<fixes, results, bundle>>
      /\ lock' = None /\ step' = "none" /\ work' = Idle /\ target' = Without(target, j)
      /\ pc' = [k \in Jobs |-> IF k = j THEN After(j)
                               ELSE IF k \in Told(j) THEN "ready" ELSE pc[k]]
    BY DEF Enqueue
<1>2. /\ pc' = [k \in Jobs |-> pc'[k]]
      /\ \A k \in Jobs : pc'[k] \in {"done", "polling"} =>
           (k = j /\ pc'[k] = After(j)) \/ (k # j /\ pc'[k] = pc[k])
    BY <1>1
<1>3. /\ target' = [s \in Slots |-> target'[s]]
      /\ \A s \in Slots : pc'[s] = "polling" => target'[s] \in Vulns
    BY <1>1, <1>2 DEF Without, After, Inv, Targeted, Jobs
<1>4. \A p \in Patches, q \in Povs :
        pc'[p] = "done" /\ pc'[q] = "done" => <<p, q>> \in results'
    BY <1>1, <1>2, PairsOf, Kinds
<1>5. bundle' = [v \in Vulns |-> bundle'[v]] /\ \A v \in Vulns : IsBundle(bundle'[v])
    BY <1>1 DEF Inv, Shapes
<1> QED
    BY <1>1, <1>2, <1>3, <1>4, <1>5, Release

-----------------------------------------------------------------------------
\* The submit jobs.
LEMMA EnterAnyStep == ASSUME Inv, NEW v \in Vulns, EnterAny(v) PROVE Inv'
<1>1. PICK s \in Slots : EnterSubmit(s, v)
    BY DEF EnterAny, FreeSlots
<1>2. PICK w : /\ lock' = s /\ step' = "submit" /\ work' = w
               /\ pc' = [pc EXCEPT ![s] = "holding"]
               /\ target' = [target EXCEPT ![s] = v] /\ lock = None
               /\ UNCHANGED <<fixes, results, bundle>>
               /\ \E d, t : w = [Idle EXCEPT !.draft = d, !.todo = t]
    BY <1>1 DEF EnterSubmit, Hold
<1>3. \A k \in Jobs : pc'[k] = IF k = s THEN "holding" ELSE pc[k]
    BY <1>2 DEF Inv, Shapes
<1>4. Shapes'
  <2>1. PICK d, t : w = [Idle EXCEPT !.draft = d, !.todo = t]
      BY <1>2
  <2> DEFINE u == [Idle EXCEPT !.draft = d]
  <2>2. PICK n, b, e, g, o :
          Idle = [draft |-> n, resubmit |-> b, seen |-> e, own |-> g, todo |-> o]
      BY DEF Idle
  <2>3. u = [draft |-> d, resubmit |-> b, seen |-> e, own |-> g, todo |-> o]
      BY <2>2
  <2>4. w = [u EXCEPT !.todo = t]
      BY <2>1
  <2> HIDE DEF u
  <2>5. w = [draft |-> d, resubmit |-> b, seen |-> e, own |-> g, todo |-> t]
      BY <2>3, <2>4
  <2> QED
      BY <1>2, <2>5 DEF Inv, Shapes, IsBundle
<1>5. Targeted'
    BY <1>2, <1>3, Kinds DEF Inv, Shapes, Targeted, Jobs
<1>6. Drafted' /\ Seen'
    BY <1>2 DEF Drafted, Seen
<1>7. Paired'
    BY <1>2, <1>3, Kinds DEF Inv, Paired, Past, Products
<1> QED
    BY <1>4, <1>5, <1>6, <1>7 DEF Inv

\* Steps of a submit job that stays.
LEMMA SubmitSteps ==
  ASSUME Inv, NEW s \in Jobs,
         Post(s) \/ Record(s) \/ PollAgain(s) \/ CreateBundle(s) \/ (DeleteBundle(s) /\ lock' = s)
  PROVE  Inv'
<1>1. /\ lock = s /\ step \in {"submit", "record"} /\ UNCHANGED <<lock, pc, target>>
      /\ UNCHANGED <<fixes, results, bundle>>
      /\ step' \in {"submit", "record", "created", "deleted"} /\ work' \in {work, Rest}
  <2>1. CASE Post(s)
      BY <2>1 DEF Post, Submitting, Continue
  <2>2. CASE Record(s)
      BY <2>2 DEF Record
  <2>3. CASE PollAgain(s)
      BY <2>3 DEF PollAgain, Submitting
  <2>4. CASE CreateBundle(s)
      BY <2>4 DEF CreateBundle, AtBundle, Submitting, Continue
  <2>5. CASE DeleteBundle(s) /\ lock' = s
      BY <2>5, Kinds DEF DeleteBundle, AtBundle, Submitting, Continue, Restart
  <2> QED
      BY <2>1, <2>2, <2>3, <2>4, <2>5
<1>2. work' = [draft |-> work'.draft, resubmit |-> work'.resubmit,
               seen |-> work'.seen, own |-> work'.own, todo |-> work'.todo]
  <2>1. CASE work' = work
      BY <2>1 DEF Inv, Shapes
  <2>2. CASE work' = Rest
    <3>1. PICK d, r, e, g, t :
            work = [draft |-> d, resubmit |-> r, seen |-> e, own |-> g, todo |-> t]
        BY DEF Inv, Shapes
    <3>2. work' = [draft |-> d, resubmit |-> r, seen |-> e, own |-> g, todo |-> t \ {Next1}]
        BY <2>2, <3>1 DEF Rest
    <3> QED
        BY <3>2
  <2> QED
      BY <1>1, <2>1, <2>2
<1>3. Drafted'
    BY <1>1 DEF Drafted
<1>4. bundle' = [v \in Vulns |-> bundle'[v]] /\ \A v \in Vulns : IsBundle(bundle'[v])
    BY <1>1 DEF Inv, Shapes
<1>5. \A p \in Patches, q \in Povs :
        (pc[p] = "done" \/ p = s) /\ (pc[q] = "done" \/ q = s) => <<p, q>> \in results'
    BY <1>1, PairsOf
<1> QED
    BY <1>1, <1>2, <1>3, <1>4, <1>5, Keep

\* The column that a submit job writes leaves the rest of the bundle alone.
Stamped(b, n) == [b EXCEPT !.sent = n]

LEMMA Stamps ==
  ASSUME NEW b, IsBundle(b), NEW n
  PROVE  IsBundle(Stamped(b, n)) /\ (Stamped(b, n).sent = b.sent => Stamped(b, n) = b)
<1>1. PICK pa, po, sa, se : b = [patch |-> pa, pov |-> po, sarif |-> sa, sent |-> se]
    BY DEF IsBundle
<1>2. Stamped(b, n) = [patch |-> pa, pov |-> po, sarif |-> sa, sent |-> n]
    BY <1>1 DEF Stamped
<1> QED
    BY <1>1, <1>2 DEF IsBundle

\* What the two writes of that column do to the table.
LEMMA StampSteps ==
  ASSUME Inv, NEW s \in Jobs, RecordBundle(s) \/ ForgetBundle(s)
  PROVE  /\ lock = s /\ step # "testing" /\ Leave(s)
         /\ UNCHANGED <<fixes, results>>
         /\ bundle' = [v \in Vulns |-> bundle'[v]] /\ \A v \in Vulns : IsBundle(bundle'[v])
         /\ \A v \in Vulns : bundle'[v].sent = bundle[v].sent => bundle'[v] = bundle[v]
<1>1. PICK x, n : /\ bundle' = [bundle EXCEPT ![x].sent = n]
                  /\ lock = s /\ step # "testing" /\ Leave(s) /\ UNCHANGED <<fixes, results>>
    BY DEF RecordBundle, ForgetBundle
<1>2. bundle' = [bundle EXCEPT ![x] = Stamped(bundle[x], n)]
    BY <1>1 DEF Stamped
<1>3. \A v \in Vulns : bundle'[v] = IF v = x THEN Stamped(bundle[v], n) ELSE bundle[v]
    BY <1>2 DEF Inv, Shapes
<1>4. \A v \in Vulns : IsBundle(bundle[v])
    BY DEF Inv, Shapes
<1>5. \A v \in Vulns : /\ IsBundle(bundle'[v])
                       /\ bundle'[v].sent = bundle[v].sent => bundle'[v] = bundle[v]
  <2> TAKE v \in Vulns
  <2> QED
      BY <1>3, <1>4, Stamps
<1>6. bundle' = [v \in Vulns |-> bundle'[v]]
    BY <1>2 DEF Inv, Shapes
<1> QED
    BY <1>1, <1>5, <1>6

LEMMA LeaveSteps ==
  ASSUME Inv, NEW s \in Jobs,
         RecordBundle(s) \/ ForgetBundle(s) \/ NoBundle(s) \/ UpdateBundle(s)
           \/ (DeleteBundle(s) /\ Restart(s))
  PROVE  Inv'
<1>1. /\ lock = s /\ step # "testing" /\ UNCHANGED <<fixes, results>>
      /\ bundle' = [v \in Vulns |-> bundle'[v]] /\ \A v \in Vulns : IsBundle(bundle'[v])
      /\ Leave(s) \/ Restart(s)
  <2>1. CASE RecordBundle(s) \/ ForgetBundle(s)
      BY <2>1, StampSteps
  <2>2. CASE NoBundle(s)
      BY <2>2 DEF NoBundle, AtBundle, Submitting, Inv, Shapes
  <2>3. CASE UpdateBundle(s)
      BY <2>3 DEF UpdateBundle, AtBundle, Submitting, Restart, Inv, Shapes
  <2>4. CASE DeleteBundle(s) /\ Restart(s)
      BY <2>4 DEF DeleteBundle, AtBundle, Submitting, Restart, Inv, Shapes
  <2> QED
      BY <2>1, <2>2, <2>3, <2>4
<1>2. \A p \in Patches, q \in Povs :
        (pc[p] = "done" \/ p = s) /\ (pc[q] = "done" \/ q = s) => <<p, q>> \in results'
    BY <1>1, PairsOf
<1> QED
    BY <1>1, <1>2, Departs

LEMMA HolderSteps == ASSUME Inv, NEW j \in Jobs, HolderStep(j) PROVE Inv'
<1>1. CASE DeleteBundle(j)
  <2>1. Restart(j) \/ lock' = j
      BY <1>1 DEF DeleteBundle, Continue, AtBundle, Submitting
  <2> QED
      BY <1>1, <2>1, SubmitSteps, LeaveSteps
<1> QED
    BY <1>1, TestStep, ReviewStep, ChooseStep, UpdateStep, EnqueueStep, SubmitSteps, LeaveSteps
    DEF HolderStep

-----------------------------------------------------------------------------
\* Faults: a failing call or a lost answer, and the death of the process.
LEMMA FaultStep == ASSUME Inv, NEW j \in Jobs, Fault(j) PROVE Inv'
<1> USE DEF Inv
<1>1. Restart(j) /\ UNCHANGED <<fixes, results, bundle>> /\ (lock = j \/ j \in Slots)
    BY DEF Fault, Restart
<1>2. bundle' = [v \in Vulns |-> bundle'[v]] /\ \A v \in Vulns : IsBundle(bundle'[v])
    BY <1>1 DEF Shapes
<1>3. /\ pc' = [k \in Jobs |-> pc'[k]]
      /\ \A k \in Jobs : pc'[k] = IF k = j THEN IF j \in Slots THEN "free" ELSE "ready"
                                  ELSE pc[k]
    BY <1>1 DEF Restart, Shapes
<1>4. CASE lock = j
  <2>1. /\ lock' = None /\ step' = "none" /\ work' = Idle /\ target' = Without(target, j)
      BY <1>1, <1>4 DEF Restart
  <2>2. /\ target' = [s \in Slots |-> target'[s]]
        /\ \A s \in Slots : pc'[s] = "polling" => target'[s] \in Vulns
      BY <2>1, <1>3 DEF Without, Targeted, Jobs
  <2>3. \A p \in Patches, q \in Povs :
           pc'[p] = "done" /\ pc'[q] = "done" => <<p, q>> \in results'
      BY <1>1, <1>3, Kinds DEF Paired, Past
  <2> QED
      BY <1>2, <1>3, <2>1, <2>2, <2>3, Release
<1>5. CASE lock # j
  <2>1. /\ UNCHANGED <<lock, step, work>> /\ target' = Without(target, j) /\ j \in Slots
      BY <1>1, <1>5 DEF Restart
  <2>2. Shapes'
      BY <1>1, <1>2, <1>3, <2>1 DEF Shapes, Without
  <2>3. Targeted'
      BY <1>3, <1>5, <2>1 DEF Targeted, Without, Jobs
  <2>4. Drafted'
    <3>1. \A q \in Povs : Moves(q)
        BY <1>3, <2>1, Kinds DEF Moves, Products
    <3> QED
        BY <1>1, <2>1, <3>1, DraftedKept
  <2>5. Seen'
      BY <1>3, <2>1, Kinds DEF Seen
  <2>6. Paired'
      BY <1>1, <1>3, <2>1, Kinds DEF Paired, Past
  <2> QED
      BY <2>2, <2>3, <2>4, <2>5, <2>6
<1> QED
    BY <1>4, <1>5

LEMMA CrashStep == ASSUME Inv, Crash PROVE Inv'
<1> USE DEF Inv
<1>1. /\ lock' = None /\ step' = "none" /\ work' = Idle
      /\ target' = [s \in Slots |-> None] /\ UNCHANGED <<results, bundle>>
    BY DEF Crash
<1>2. /\ pc' = [j \in Jobs |-> pc'[j]]
      /\ \A j \in Jobs : (pc'[j] = "done" => pc[j] = "done")
      /\ \A s \in Slots : pc'[s] = "free"
  <2>1. PICK again : pc' = [j \in Jobs |->
         IF j \in Slots THEN "free"
         ELSE IF pc[j] = "stored" /\ j \in Patches THEN "orphan"
         ELSE IF pc[j] \in {"waiting", "holding"} \/ j = again THEN "ready"
         ELSE pc[j]]
      BY DEF Crash
  <2>2. pc' = [j \in Jobs |-> pc'[j]]
      BY <2>1
  <2>3. ASSUME NEW j \in Jobs
        PROVE  (pc'[j] = "done" => pc[j] = "done") /\ (j \in Slots => pc'[j] = "free")
    <3>1. CASE j \in Slots
        BY <2>1, <3>1
    <3>2. CASE j \notin Slots
        BY <2>1, <3>2
    <3> QED
        BY <3>1, <3>2
  <2> QED
      BY <2>2, <2>3 DEF Jobs
<1>3. \A p \in Patches, q \in Povs :
         pc'[p] = "done" /\ pc'[q] = "done" => <<p, q>> \in results'
    BY <1>1, <1>2, Kinds DEF Paired, Past
<1>4. bundle' = [v \in Vulns |-> bundle'[v]] /\ \A v \in Vulns : IsBundle(bundle'[v])
    BY <1>1 DEF Shapes
<1>5. /\ target' = [s \in Slots |-> target'[s]]
      /\ \A s \in Slots : pc'[s] = "polling" => target'[s] \in Vulns
    BY <1>1, <1>2
<1> QED
    BY <1>1, <1>2, <1>3, <1>4, <1>5, Release

LEMMA NextInv == ASSUME Inv, [Next]_vars PROVE Inv'
  BY StoreSteps, EnterSteps, HolderSteps, FaultStep, EnterAnyStep, CrashStep DEF Next

-----------------------------------------------------------------------------
\* The invariant the two results rest on: who holds the condition, what it has seen, and
\* what is known of the pairs whose tests are over (bundle_patch, bundle_pov,
\* maybe_update_bundle).
THEOREM SafetyOfBundling == Spec => []Inv
  BY InitInv, NextInv, PTL DEF Spec

\* When the jobs of a patch and of a POV are both done, the patch was tested against the POV,
\* whichever of them came first and whatever failed in between (bundle_pov, bundle_patch).
THEOREM NoPairGoesUntested == Spec => []NoPairUntested
<1>1. Inv => NoPairUntested
    BY DEF Inv, Paired, Past, NoPairUntested
<1> QED
    BY <1>1, SafetyOfBundling, PTL

\* What maybe_update_bundle writes holds no patch that is known to leave a POV of its
\* vulnerability unfixed: what has been tested cannot change while it has the condition.  A POV
\* may be given the vulnerability then, but its own job is still to come.
THEOREM BundlesHoldNoRefutedPatch == Spec => BundlesAreVetted
<1> DEFINE Vets == \A v \in Vulns :
             bundle'[v] # bundle[v] /\ bundle'[v].sent = bundle[v].sent
               /\ bundle'[v].patch # None =>
             \A q \in Refuting(bundle'[v].patch) :
               q \notin work.own /\ pc[q] \in {"stored", "ready"}
<1>1. ASSUME Inv, [Next]_vars PROVE Vets
  <2>1. CASE UNCHANGED bundle
      BY <2>1
  <2>2. ASSUME NEW j \in Jobs, Update(j) PROVE Vets
    <3>1. /\ step = "update" /\ bundle' = [bundle EXCEPT ![Vuln(j)] = work.draft]
          /\ work.draft.patch # None =>
               \A q \in Refuting(work.draft.patch) :
                 q \notin work.own /\ pc[q] \in {"stored", "ready"}
        BY <1>1, <2>2 DEF Update, Inv, Drafted
    <3>2. \A v \in Vulns : bundle'[v] = IF v = Vuln(j) THEN work.draft ELSE bundle[v]
        BY <1>1, <3>1 DEF Inv, Shapes
    <3> QED
        BY <3>1, <3>2
  <2>3. ASSUME NEW s \in Jobs, RecordBundle(s) \/ ForgetBundle(s) PROVE Vets
      BY <1>1, <2>3, StampSteps
  <2>4. UNCHANGED bundle \/ \E j \in Jobs : Update(j) \/ RecordBundle(j) \/ ForgetBundle(j)
    <3>1. ASSUME NEW j \in Jobs, HolderStep(j)
          PROVE  UNCHANGED bundle \/ Update(j) \/ RecordBundle(j) \/ ForgetBundle(j)
        BY <3>1 DEF HolderStep, Test, Review, Choose, Enqueue, Post, Record, PollAgain,
                    CreateBundle, UpdateBundle, DeleteBundle, NoBundle, Restart
    <3>2. ASSUME NEW j \in Jobs, Enter(j) \/ Fault(j) PROVE UNCHANGED bundle
        BY <3>2 DEF Enter, EnterPatch, EnterPov, EnterReview, Fault, Restart
    <3>3. ASSUME NEW v \in Vulns, EnterAny(v) PROVE UNCHANGED bundle
        BY <3>3 DEF EnterAny, EnterSubmit
    <3>4. CASE Crash
        BY <3>4 DEF Crash
    <3>5. CASE \/ \E p \in Patches : StorePatch(p) \/ DelayOver(p) \/ WaitTimeout(p)
               \/ \E q \in Povs : AddPov(q) \/ AssignPov(q)
               \/ \E x \in Products : SubmitProduct(x)
               \/ \E s \in Slots : PollDone(s)
               \/ UNCHANGED vars
        BY <3>5 DEF StorePatch, DelayOver, WaitTimeout, AddPov, AssignPov, SubmitProduct,
                    PollDone, vars
    <3> QED
        BY <1>1, <3>1, <3>2, <3>3, <3>4, <3>5 DEF Next
  <2> QED
      BY <2>1, <2>2, <2>3, <2>4
<1> QED
    BY <1>1, SafetyOfBundling, PTL DEF Spec, BundlesAreVetted
-----------------------------------------------------------------------------
(***************************************************************************)
(* The ledger: what was submitted, what is polled and what a job that      *)
(* holds the condition keeps of it agree.                                  *)
(***************************************************************************)
Submits == {"submit", "record", "created", "deleted"}

\* The attempts of a product that the API answered, and how many there are.
Answered(x) == {n \in 1..Len(row[x]) : row[x][n] # "unknown"}
Answers(x) == Cardinality(Answered(x))

\* The rows of the table bundles whose submission is one of S.
Bundles(S) == [patch : Patches \cup {None}, pov : Povs \cup {None}, sarif : BOOLEAN, sent : S]

\* The products of a bundle are of its vulnerability.
Belongs(b, v) ==
  /\ b.patch # None => VulnOf[b.patch] = v
  /\ b.pov # None => VulnOf[b.pov] = v

\* The jobs, and who holds the condition at which step.
Control ==
  /\ pc \in [Jobs -> {"absent", "found", "stored", "orphan", "free", "delayed", "ready",
                      "waiting", "holding", "polling", "done"}]
  /\ target \in [Slots -> Vulns \cup {None}] /\ polled \in [Slots -> BOOLEAN]
  /\ pending \in [Vulns -> Nat] /\ ended \in Products \cup {None}
  /\ lock \in Jobs \cup {None} /\ step \in Steps
  /\ \A j \in Jobs : pc[j] = "holding" <=> lock = j
  /\ lock = None <=> step = "none"
  /\ step = "testing" => lock \in Patches \cup Povs
  /\ step \in Submits => lock \in Slots

\* The tests and the counters.
Tested ==
  /\ verified \subseteq Patches /\ results \subseteq Patches \X Povs
  /\ count \in [tested : Nat, untested : Nat, failed : Nat]
  /\ step = "testing" => work.seen \subseteq IF lock \in Patches THEN Povs ELSE Patches

\* A submit job has polls while it holds the condition or waits for them.
Polling ==
  /\ polls \in [Slots -> SUBSET ((Patches \cup Povs) \X Nat)]
  /\ \A s \in Slots :
       /\ polls[s] # {} => \/ pc[s] = "polling"
                           \/ lock = s /\ polled[s] /\ step \in Submits
       /\ \A poll \in polls[s] :
            VulnOf[poll[1]] = target[s] /\ poll[2] \in Answered(poll[1])

\* A product points at an answered attempt, and all answered attempts but that one were
\* cleared.  On disk it may still be the one that was cleared last.
Rows ==
  /\ row \in [Products -> Seq(Status \cup {"unknown"})]
  /\ sub \in [Products -> Nat] /\ saved \in [Products -> Nat] /\ clears \in [Products -> Nat]
  /\ \A x \in Products :
       /\ sub[x] = 0 \/ sub[x] \in Answered(x)
       /\ saved[x] = 0 \/ saved[x] \in Answered(x)
       /\ sub[x] = saved[x] \/ sub[x] = 0
       /\ Answers(x) <= clears[x] + 1
       /\ sub[x] = 0 => Answers(x) <= clears[x]

\* What a submit job has read of its bundle still holds of what it has not submitted yet.
Drawn ==
  /\ step \in {"submit", "record"} =>
       /\ work.draft \in [Products -> Nat] /\ work.todo \subseteq Content(target[lock])
       /\ \A x \in Products : work.draft[x] # 0 => work.draft[x] \in Answered(x) /\ sub[x] # 0
       /\ \A x \in work.todo : work.draft[x] = 0 => Answers(x) <= clears[x]
  /\ step = "record" =>
       /\ work.todo # {} /\ work.draft[Next1] = 0
       /\ Len(row[Next1]) # 0 /\ Len(row[Next1]) \notin Answered(Next1)

\* A bundle is made once: while it is written, and until the API has answered.
Bundled ==
  /\ made \in [Vulns -> Seq({"posted", "recorded", "deleted"})]
  /\ \A v \in Vulns :
       /\ bundle[v] \in Bundles(0..Len(made[v])) /\ Belongs(bundle[v], v)
       /\ \A n \in 1..Len(made[v]) : made[v][n] = "recorded" => n = bundle[v].sent
  /\ step \in {"choose", "update"} =>
       /\ work.draft \in Bundles({bundle[Vuln(lock)].sent})
       /\ Belongs(work.draft, Vuln(lock))
  /\ step = "created" => bundle[target[lock]].sent = 0 /\ Len(made[target[lock]]) # 0
  /\ step = "deleted" =>
       LET n == bundle[target[lock]].sent IN n # 0 /\ made[target[lock]][n] = "deleted"

Ledger == Control /\ Tested /\ Polling /\ Rows /\ Drawn /\ Bundled

LEMMA LedgerInit == Init => Ledger
<1> SUFFICES ASSUME Init PROVE Ledger
    OBVIOUS
<1>1. Control
    BY Kinds DEF Init, Control, Steps, Submits, Jobs
<1>2. Tested /\ Polling /\ Drawn
    BY DEF Init, Tested, Polling, Drawn
<1>3. Rows
  <2>1. \A x \in Products : row[x] = <<>> /\ sub[x] = 0 /\ saved[x] = 0 /\ clears[x] = 0
      BY DEF Init
  <2>2. \A x \in Products : Answered(x) = {}
      BY <2>1 DEF Answered
  <2>3. \A x \in Products : Answers(x) = 0
      BY <2>2, FS_EmptySet DEF Answers
  <2>4. row \in [Products -> Seq(Status \cup {"unknown"})]
      BY DEF Init
  <2> QED
      BY <2>1, <2>3, <2>4 DEF Init, Rows
<1>4. Bundled
    BY DEF Init, Bundled, Bundles, Belongs, Empty
<1> QED
    BY <1>1, <1>2, <1>3, <1>4 DEF Ledger


-----------------------------------------------------------------------------
\* Who has the condition, and where.
LEMMA OutsideControl ==
  ASSUME Control,
         \/ \E p \in Patches : StorePatch(p) \/ DelayOver(p) \/ WaitTimeout(p)
         \/ \E q \in Povs : AddPov(q) \/ AssignPov(q)
         \/ \E x \in Products : SubmitProduct(x)
         \/ \E s \in Slots : PollDone(s)
         \/ \E j \in Jobs : EnterPatch(j) /\ MustWait(j)
         \/ UNCHANGED vars
  PROVE  Control'
<1>1. /\ UNCHANGED <<lock, step, target, polled, pending, ended>>
      /\ \/ UNCHANGED pc
         \/ \E j \in Jobs, c \in {"found", "stored", "delayed", "ready", "waiting"} :
              pc[j] # "holding" /\ pc' = [pc EXCEPT ![j] = c]
    BY Kinds DEF StorePatch, DelayOver, WaitTimeout, AddPov, AssignPov, SubmitProduct, EnterPatch,
                 PollDone, vars, Jobs, Products
<1> QED
    BY <1>1 DEF Control

LEMMA HoldControl ==
  ASSUME Control, NEW j \in Jobs, NEW s \in Steps, lock = None, pc[j] # "holding",
         lock' = j, step' = s, ended' = None, pc' = [pc EXCEPT ![j] = "holding"],
         s \in {"testing", "review", "submit"},
         s = "testing" => j \in Patches \cup Povs, s = "submit" => j \in Slots,
         target' \in [Slots -> Vulns \cup {None}], pending' \in [Vulns -> Nat],
         UNCHANGED polled
  PROVE  Control'
  BY Kinds DEF Control, Submits

LEMMA EnterControl ==
  ASSUME Control, \/ \E j \in Jobs : EnterPov(j) \/ EnterReview(j)
                  \/ \E j \in Jobs : EnterPatch(j) /\ ~MustWait(j)
                  \/ \E v \in Vulns : EnterAny(v)
  PROVE  Control'
<1>1. ASSUME NEW j \in Jobs, EnterPov(j) PROVE Control'
  <2>1. /\ j \in Povs /\ pc[j] = "ready" /\ lock = None /\ UNCHANGED <<target, pending, polled>>
        /\ lock' = j /\ step' = "testing" /\ ended' = None /\ pc' = [pc EXCEPT ![j] = "holding"]
      BY <1>1 DEF EnterPov, Hold
  <2> QED
      BY <2>1, HoldControl DEF Steps, Control
<1>2. ASSUME NEW j \in Jobs, EnterPatch(j), ~MustWait(j) PROVE Control'
  <2>1. /\ j \in Patches /\ pc[j] = "ready" /\ lock = None /\ UNCHANGED <<target, pending, polled>>
        /\ lock' = j /\ step' = "testing" /\ ended' = None /\ pc' = [pc EXCEPT ![j] = "holding"]
      BY <1>2 DEF EnterPatch, Hold
  <2> QED
      BY <2>1, HoldControl DEF Steps, Control
<1>3. ASSUME NEW j \in Jobs, EnterReview(j) PROVE Control'
  <2>1. /\ pc[j] # "holding" /\ lock = None /\ UNCHANGED <<target, pending, polled>>
        /\ lock' = j /\ step' = "review" /\ ended' = None /\ pc' = [pc EXCEPT ![j] = "holding"]
      BY <1>3 DEF EnterReview, Hold
  <2> QED
      BY <2>1, HoldControl DEF Steps, Control
<1>4. ASSUME NEW v \in Vulns, EnterAny(v) PROVE Control'
  <2>1. PICK s \in Slots : pc[s] = "free" /\ EnterSubmit(s, v)
    <3>1. FreeSlots # {} /\ EnterSubmit(CHOOSE s \in FreeSlots : TRUE, v)
        BY <1>4 DEF EnterAny
    <3> QED
        BY <3>1 DEF FreeSlots
  <2>2. /\ lock = None /\ lock' = s /\ step' = "submit" /\ ended' = None /\ UNCHANGED polled
        /\ pc' = [pc EXCEPT ![s] = "holding"] /\ target' = [target EXCEPT ![s] = v]
        /\ pending' = [pending EXCEPT ![v] = @ - 1] /\ pending[v] > 0
      BY <2>1 DEF EnterSubmit, Hold
  <2>3. target' \in [Slots -> Vulns \cup {None}] /\ pending' \in [Vulns -> Nat]
      BY <2>2 DEF Control
  <2> QED
      BY <2>1, <2>2, <2>3, HoldControl DEF Steps, Jobs
<1> QED
    BY <1>1, <1>2, <1>3, <1>4

\* The holder goes on.
LEMMA StayControl ==
  ASSUME Control, NEW j \in Jobs, lock = j, UNCHANGED <<pc, pending, target, ended, lock>>,
         polled' \in [Slots -> BOOLEAN], step' \in Steps \ {"none", "testing"},
         step' \in Submits => step \in Submits
  PROVE  Control'
  BY Kinds DEF Control, Submits

LEMMA LeaveControl ==
  ASSUME Control, NEW j \in Jobs, lock = j, lock' = None, step' = "none",
         pc' \in [Jobs -> {"absent", "found", "stored", "orphan", "free", "delayed", "ready",
                           "waiting", "holding", "polling", "done"}],
         \A k \in Jobs : pc'[k] # "holding" \/ (k # j /\ pc[k] = "holding"),
         target' \in [Slots -> Vulns \cup {None}], polled' \in [Slots -> BOOLEAN],
         pending' \in [Vulns -> Nat], ended' \in Products \cup {None}
  PROVE  Control'
  BY Kinds DEF Control, Submits, Steps

LEMMA FinishControl ==
  ASSUME Control, NEW j \in Jobs, lock = j,
         Finish(j) \/ (Leave(j) /\ j \in Slots) \/ Enqueue(j)
  PROVE  Control'
<1>1. CASE Finish(j)
  <2>1. /\ lock' = None /\ step' = "none" /\ pc' = [pc EXCEPT ![j] = After(j)]
        /\ target' = Without(target, j) /\ ended' = IF j \in Products THEN j ELSE None
        /\ UNCHANGED <<pending, polled>>
      BY <1>1 DEF Finish
  <2>2. After(j) \in {"free", "done"}
      BY DEF After
  <2>3. target' \in [Slots -> Vulns \cup {None}]
      BY <2>1 DEF Without, Control
  <2> QED
      BY <2>1, <2>2, <2>3, LeaveControl DEF Control
<1>2. CASE Leave(j) /\ polled[j] /\ j \in Slots
  <2>1. /\ lock' = None /\ step' = "none" /\ pc' = [pc EXCEPT ![j] = "polling"]
        /\ polled' = [polled EXCEPT ![j] = FALSE]
        /\ UNCHANGED <<pending, target, ended>>
      BY <1>2 DEF Leave
  <2> QED
      BY <2>1, LeaveControl DEF Control
<1>3. CASE Enqueue(j)
  <2>1. /\ lock' = None /\ step' = "none" /\ UNCHANGED polled
        /\ pc' = [k \in Jobs |-> IF k = j THEN After(j)
                                 ELSE IF k \in Told(j) THEN "ready" ELSE pc[k]]
        /\ target' = Without(target, j) /\ ended' = IF j \in Products THEN j ELSE None
        /\ pending' = [pending EXCEPT ![Vuln(j)] = @ + 1]
      BY <1>3 DEF Enqueue
  <2>2. After(j) \in {"free", "done"}
      BY DEF After
  <2>3. target' \in [Slots -> Vulns \cup {None}] /\ pending' \in [Vulns -> Nat]
    <3>1. target' \in [Slots -> Vulns \cup {None}]
        BY <2>1 DEF Without, Control
    <3>2. PICK v : pending' = [pending EXCEPT ![v] = @ + 1]
        BY <2>1
    <3>3. pending' \in [Vulns -> Nat]
      <4>1. pending \in [Vulns -> Nat]
          BY DEF Control
      <4>2. CASE v \in Vulns
          BY <3>2, <4>1, <4>2
      <4>3. CASE v \notin Vulns
          BY <3>2, <4>1, <4>3
      <4> QED
          BY <4>2, <4>3
    <3> QED
        BY <3>1, <3>3
  <2>4. /\ pc' \in [Jobs -> {"absent", "found", "stored", "orphan", "free", "delayed", "ready",
                             "waiting", "holding", "polling", "done"}]
        /\ \A k \in Jobs : pc'[k] # "holding" \/ (k # j /\ pc[k] = "holding")
      BY <2>1, <2>2 DEF Control
  <2> QED
      BY <2>1, <2>3, <2>4, LeaveControl DEF Control
<1> QED
    BY <1>1, <1>2, <1>3 DEF Leave

LEMMA RestartControl == ASSUME Control, NEW j \in Jobs, Restart(j) PROVE Control'
<1>1. /\ pc' = [pc EXCEPT ![j] = IF j \in Slots THEN "free" ELSE "ready"]
      /\ pending' = [v \in Vulns |-> pending[v] + IF j \in Slots /\ target[j] = v THEN 1 ELSE 0]
      /\ target' = Without(target, j) /\ UNCHANGED ended
      /\ polled' = [s \in Slots |-> IF s = j THEN FALSE ELSE polled[s]]
    BY DEF Restart
<1>2. /\ target' \in [Slots -> Vulns \cup {None}] /\ pending' \in [Vulns -> Nat]
      /\ polled' \in [Slots -> BOOLEAN]
  <2>1. target' \in [Slots -> Vulns \cup {None}]
      BY <1>1 DEF Without, Control
  <2>2. polled' \in [Slots -> BOOLEAN]
      BY <1>1 DEF Control
  <2>3. pending' \in [Vulns -> Nat]
      BY <1>1 DEF Control
  <2> QED
      BY <2>1, <2>2, <2>3
<1>3. CASE lock = j
  <2>1. lock' = None /\ step' = "none"
      BY <1>3 DEF Restart
  <2> QED
      BY <1>1, <1>2, <1>3, <2>1, LeaveControl DEF Control
<1>4. CASE lock # j
  <2>1. UNCHANGED <<lock, step>>
      BY <1>4 DEF Restart
  <2> QED
      BY <1>1, <1>2, <1>4, <2>1 DEF Control
<1> QED
    BY <1>3, <1>4

LEMMA CrashControl == ASSUME Control, Crash PROVE Control'
<1>1. /\ lock' = None /\ step' = "none" /\ ended' = None
      /\ target' = [s \in Slots |-> None] /\ polled' = [s \in Slots |-> FALSE]
    BY DEF Crash
<1>2. pending' \in [Vulns -> Nat]
  <2>1. \A v \in Vulns : IsFiniteSet({s \in Slots : target[s] = v})
      BY BundlingAssumption, FS_Subset
  <2>2. \A v \in Vulns : Cardinality({s \in Slots : target[s] = v}) \in Nat
      BY <2>1, FS_CardinalityType
  <2>3. pending' = [v \in Vulns |-> pending[v] + Cardinality({s \in Slots : target[s] = v})]
      BY DEF Crash
  <2> DEFINE n(v) == Cardinality({s \in Slots : target[s] = v})
  <2>4. pending' = [v \in Vulns |-> pending[v] + n(v)] /\ \A v \in Vulns : n(v) \in Nat
      BY <2>2, <2>3
  <2> HIDE DEF n
  <2> QED
      BY <2>4 DEF Control
<1>3. /\ pc' \in [Jobs -> {"absent", "found", "stored", "orphan", "free", "delayed", "ready",
                           "waiting", "holding", "polling", "done"}]
      /\ \A j \in Jobs : pc'[j] # "holding"
  <2>1. PICK again : pc' = [j \in Jobs |->
         IF j \in Slots THEN "free"
         ELSE IF pc[j] = "stored" /\ j \in Patches THEN "orphan"
         ELSE IF pc[j] \in {"waiting", "holding"} \/ j = again THEN "ready"
         ELSE pc[j]]
      BY DEF Crash
  <2> QED
      BY <2>1 DEF Control
<1> QED
    BY <1>1, <1>2, <1>3, Kinds DEF Control, Steps, Submits

LEMMA ControlStep == ASSUME Control, [Next]_vars PROVE Control'
<1>1. ASSUME NEW j \in Jobs, Test(j) \/ Choose(j) PROVE Control'
  <2>1. lock = j /\ (Finish(j) \/ \E w : \E s \in {"review", "update", "enqueue"} : Continue(j, s, w))
      BY <1>1 DEF Test, Choose
  <2>2. ASSUME NEW s \in {"review", "update", "enqueue"}, NEW w, Continue(j, s, w) PROVE Control'
      BY <2>1, <2>2, StayControl DEF Continue, Control, Steps, Submits
  <2> QED
      BY <2>1, <2>2, FinishControl
<1>2. ASSUME NEW j \in Jobs, Review(j) \/ Update(j) PROVE Control'
  <2>1. /\ lock = j /\ UNCHANGED <<pc, pending, target, ended, lock, polled>>
        /\ step' \in {"choose", "enqueue"}
      BY <1>2 DEF Review, Update, Continue
  <2> QED
      BY <2>1, StayControl DEF Control, Steps, Submits
<1>3. ASSUME NEW j \in Jobs, Post(j) \/ CreateBundle(j) PROVE Control'
  <2>1. /\ lock = j /\ UNCHANGED <<pc, pending, target, ended, lock, polled>>
        /\ step = "submit" /\ step' \in {"record", "created"}
      BY <1>3 DEF Post, CreateBundle, AtBundle, Submitting, Continue
  <2> QED
      BY <2>1, StayControl DEF Control, Steps, Submits
<1>4. ASSUME NEW j \in Jobs, Record(j) \/ PollAgain(j) PROVE Control'
  <2>1. /\ lock = j /\ UNCHANGED <<pc, pending, target, ended, lock>>
        /\ step \in {"submit", "record"} /\ step' = "submit"
        /\ \E x : polled' = [polled EXCEPT ![j] = @ \/ x \notin Vulns]
      BY <1>4 DEF Record, PollAgain, Submitting, StartPoll
  <2>2. j \in Slots
      BY <2>1 DEF Control, Submits
  <2>3. polled' \in [Slots -> BOOLEAN]
      BY <2>1, <2>2 DEF Control
  <2> QED
      BY <2>1, <2>3, StayControl DEF Control, Steps, Submits
<1>5. ASSUME NEW j \in Jobs, RecordBundle(j) \/ ForgetBundle(j) \/ NoBundle(j) PROVE Control'
  <2>1. lock = j /\ Leave(j) /\ step \in Submits
      BY <1>5 DEF RecordBundle, ForgetBundle, NoBundle, AtBundle, Submitting, Submits
  <2> QED
      BY <2>1, FinishControl DEF Control
<1>6. ASSUME NEW j \in Jobs, DeleteBundle(j) PROVE Control'
  <2>1. lock = j /\ step = "submit" /\ (Restart(j) \/ Continue(j, "deleted", work))
      BY <1>6 DEF DeleteBundle, AtBundle, Submitting
  <2>2. CASE Continue(j, "deleted", work)
      BY <2>1, <2>2, StayControl DEF Continue, Control, Steps, Submits
  <2> QED
      BY <2>1, <2>2, RestartControl
<1>7. ASSUME NEW j \in Jobs, Enqueue(j) PROVE Control'
    BY <1>7, FinishControl DEF Enqueue
<1>8. ASSUME NEW j \in Jobs, UpdateBundle(j) \/ Fault(j) PROVE Control'
    BY <1>8, RestartControl DEF UpdateBundle, Fault
<1> QED
    BY <1>1, <1>2, <1>3, <1>4, <1>5, <1>6, <1>7, <1>8, OutsideControl, EnterControl, CrashControl
    DEF Next, Enter, HolderStep


-----------------------------------------------------------------------------
\* The tests and the counters.
LEMMA CountsUp ==
  ASSUME NEW c \in [tested : Nat, untested : Nat, failed : Nat],
         NEW k \in {"tested", "untested", "failed"}, NEW n \in Nat
  PROVE  [c EXCEPT ![k] = @ + n] \in [tested : Nat, untested : Nat, failed : Nat]
<1>1. CASE k = "tested"
    BY <1>1
<1>2. CASE k = "untested"
    BY <1>2
<1>3. CASE k = "failed"
    BY <1>3
<1> QED
    BY <1>1, <1>2, <1>3

LEMMA TestedStep == ASSUME Control, Tested, [Next]_vars PROVE Tested'
<1>1. CASE /\ UNCHANGED <<verified, results, count>>
           /\ step' # "testing" \/ UNCHANGED <<step, work, lock>>
    BY <1>1 DEF Tested
<1>2. ASSUME NEW p \in Patches, StorePatch(p) PROVE Tested'
    BY <1>2 DEF StorePatch, Tested
<1>3. ASSUME NEW j \in Jobs, EnterPatch(j), ~MustWait(j) PROVE Tested'
  <2>1. /\ j \in Patches /\ lock' = j
        /\ work' = [Idle EXCEPT !.seen = Known(Povs), !.own = Of(VulnOf[j], Povs)]
        /\ UNCHANGED <<verified, results, count>>
      BY <1>3 DEF EnterPatch, Hold
  <2>2. work'.seen \subseteq Povs
      BY <2>1 DEF Idle, Known
  <2> QED
      BY <2>1, <2>2 DEF Tested
<1>4. ASSUME NEW j \in Jobs, EnterPov(j) PROVE Tested'
  <2>1. /\ j \in Povs /\ lock' = j /\ work' = [Idle EXCEPT !.seen = Known(Patches)]
        /\ UNCHANGED <<verified, results, count>>
      BY <1>4 DEF EnterPov, Hold
  <2>2. work'.seen \subseteq Patches
      BY <2>1 DEF Idle, Known
  <2> QED
      BY <2>1, <2>2, Kinds DEF Tested
<1>5. ASSUME NEW j \in Jobs, Test(j) PROVE Tested'
  <2>1. /\ lock = j /\ step = "testing" /\ results' = results \cup Tests(j)
        /\ UNCHANGED <<verified, count>> /\ step' \in {"none", "review"}
      BY <1>5 DEF Test, Finish, Continue
  <2>2. Tests(j) \subseteq Patches \X Povs
      BY <2>1, Kinds DEF Tests, Tested, Control
  <2> QED
      BY <2>1, <2>2 DEF Tested
<1>6. ASSUME NEW j \in Jobs, Review(j) PROVE Tested'
  <2>1. PICK n \in {0, 1} : count' = [count EXCEPT !.failed = @ + n]
      BY <1>6 DEF Review
  <2>2. UNCHANGED <<verified, results>> /\ step' = "choose"
      BY <1>6 DEF Review, Continue
  <2>3. count' = [count EXCEPT !["failed"] = @ + n]
      BY <2>1
  <2>4. count' \in [tested : Nat, untested : Nat, failed : Nat]
      BY <2>3, CountsUp DEF Tested
  <2> QED
      BY <2>2, <2>4 DEF Tested
<1>7. ASSUME NEW j \in Jobs, Choose(j) PROVE Tested'
  <2>1. /\ UNCHANGED <<verified, results>> /\ step' \in {"update", "enqueue", "none"}
        /\ \/ UNCHANGED count
           \/ \E kind \in {"tested", "untested"} : count' = [count EXCEPT ![kind] = @ + 1]
      BY <1>7 DEF Choose, Continue, Finish
  <2>2. count' \in [tested : Nat, untested : Nat, failed : Nat]
      BY <2>1, CountsUp DEF Tested
  <2> QED
      BY <2>1, <2>2 DEF Tested
<1>8. ASSUME NEW j \in Jobs,
             \/ EnterReview(j) \/ (EnterPatch(j) /\ MustWait(j)) \/ Update(j) \/ Enqueue(j)
             \/ Post(j) \/ Record(j) \/ PollAgain(j) \/ CreateBundle(j)
      PROVE  /\ UNCHANGED <<verified, results, count>>
             /\ step' # "testing" \/ UNCHANGED <<step, work, lock>>
    BY <1>8 DEF EnterReview, EnterPatch, Update, Enqueue, Post, Record, PollAgain, CreateBundle,
                Submitting, Hold, Continue
<1>11. ASSUME NEW j \in Jobs, RecordBundle(j) \/ ForgetBundle(j) \/ NoBundle(j)
      PROVE  /\ UNCHANGED <<verified, results, count>> /\ step' # "testing"
    BY <1>11 DEF RecordBundle, ForgetBundle, NoBundle, Leave, Finish
<1>9. ASSUME NEW j \in Jobs, DeleteBundle(j) \/ UpdateBundle(j) \/ Fault(j)
      PROVE  /\ UNCHANGED <<verified, results, count>>
             /\ step' # "testing" \/ UNCHANGED <<step, work, lock>>
    BY <1>9 DEF DeleteBundle, UpdateBundle, Fault, Restart, Continue
<1>10. ASSUME \/ \E p \in Patches : DelayOver(p) \/ WaitTimeout(p)
              \/ \E q \in Povs : AddPov(q) \/ AssignPov(q)
              \/ \E x \in Products : SubmitProduct(x)
              \/ \E s \in Slots : PollDone(s)
              \/ \E v \in Vulns : EnterAny(v)
              \/ Crash \/ UNCHANGED vars
      PROVE  /\ UNCHANGED <<verified, results, count>>
             /\ step' # "testing" \/ UNCHANGED <<step, work, lock>>
    BY <1>10 DEF DelayOver, WaitTimeout, AddPov, AssignPov, SubmitProduct, PollDone, EnterAny,
                 EnterSubmit, Hold, Crash, vars
<1> QED
    BY <1>1, <1>2, <1>3, <1>4, <1>5, <1>6, <1>7, <1>8, <1>9, <1>10, <1>11
    DEF Next, Enter, HolderStep


-----------------------------------------------------------------------------
\* The attempts.
LEMMA AnswersAreNatural ==
  ASSUME NEW x \in Products, row \in [Products -> Seq(Status \cup {"unknown"})]
  PROVE  IsFiniteSet(Answered(x)) /\ Answers(x) \in Nat /\ Len(row[x]) \in Nat
<1>1. Len(row[x]) \in Nat
    BY LenProperties
<1>2. IsFiniteSet(1..Len(row[x]))
    BY <1>1, FS_Interval
<1>3. IsFiniteSet(Answered(x))
    BY <1>2, FS_Subset DEF Answered
<1> QED
    BY <1>1, <1>3, FS_CardinalityType DEF Answers

\* An answer is written down: an attempt of the product is answered, nothing else changes.
LEMMA PutAnswers ==
  ASSUME Rows, NEW x \in Products, NEW n \in 1..Len(row[x]), NEW status \in Status,
         Put(x, n, status)
  PROVE  /\ row' \in [Products -> Seq(Status \cup {"unknown"})]
         /\ sub' \in [Products -> Nat] /\ saved' = sub'
         /\ \A y \in Products : y # x => /\ Answered(y)' = Answered(y)
                                         /\ Answers(y)' = Answers(y) /\ sub'[y] = sub[y]
         /\ Answered(x)' = Answered(x) \cup {n} /\ sub'[x] = n
         /\ \A y \in Products : Len(row'[y]) = Len(row[y])
<1>1. /\ row' = [row EXCEPT ![x] = [row[x] EXCEPT ![n] = status]]
      /\ sub' = [sub EXCEPT ![x] = n] /\ saved' = sub'
    BY DEF Put
<1>2. row[x] \in Seq(Status \cup {"unknown"}) /\ n \in Nat
    BY LenProperties DEF Rows
<1> DEFINE r == [row[x] EXCEPT ![n] = status]
<1>3. /\ r \in Seq(Status \cup {"unknown"}) /\ Len(r) = Len(row[x])
      /\ \A m \in 1..Len(row[x]) : r[m] = IF m = n THEN status ELSE row[x][m]
    BY <1>2, ExceptSeq
<1>4. row' = [row EXCEPT ![x] = r]
    BY <1>1
<1> HIDE DEF r
<1>5. /\ row' \in [Products -> Seq(Status \cup {"unknown"})]
      /\ row'[x] = r /\ \A y \in Products : y # x => row'[y] = row[y]
    BY <1>3, <1>4 DEF Rows
<1>6. sub' \in [Products -> Nat] /\ sub'[x] = n /\ \A y \in Products : y # x => sub'[y] = sub[y]
    BY <1>1, <1>2 DEF Rows
<1>7. \A y \in Products : y # x => Answered(y)' = Answered(y)
    BY <1>5 DEF Answered
<1>8. Answered(x)' = Answered(x) \cup {n}
    BY <1>3, <1>5 DEF Answered, Status
<1> QED
    BY <1>1, <1>5, <1>6, <1>7, <1>8 DEF Answers

LEMMA RowsKept ==
  ASSUME Rows, UNCHANGED <<row, sub, clears>>, saved' = saved \/ saved' = sub PROVE Rows'
  BY DEF Rows, Answered, Answers

\* The product that is submitted next, and those of a bundle.
LEMMA ContentOf ==
  ASSUME Bundled, NEW v \in Vulns
  PROVE  /\ Content(v) \subseteq Products
         /\ \A x \in Content(v) : x = v \/ (x \in Patches \cup Povs /\ VulnOf[x] = v)
<1>1. /\ bundle[v].patch \in Patches \cup {None} /\ bundle[v].pov \in Povs \cup {None}
      /\ Belongs(bundle[v], v)
    BY DEF Bundled, Bundles
<1> QED
    BY <1>1 DEF Content, Belongs, Products

LEMMA FirstOfSet ==
  ASSUME NEW S \in SUBSET Products, S # {} PROVE First(S) \in S
<1>1. CASE S \cap Patches # {}
    BY <1>1 DEF First
<1>2. CASE S \cap Patches = {} /\ S \cap Povs # {}
    BY <1>2 DEF First
<1>3. CASE S \cap Patches = {} /\ S \cap Povs = {}
  <2>1. S \cap Vulns # {}
      BY <1>3 DEF Products
  <2> QED
      BY <1>3, <2>1 DEF First
<1> QED
    BY <1>1, <1>2, <1>3

\* A submit job that has not done with its products.
LEMMA NextOne ==
  ASSUME Inv, Ledger, NEW s \in Jobs, lock = s, step \in {"submit", "record"}, work.todo # {}
  PROVE  /\ Next1 \in work.todo /\ Next1 \in Products /\ s \in Slots /\ target[s] \in Vulns
         /\ Next1 \notin Vulns => Next1 \in Patches \cup Povs /\ VulnOf[Next1] = target[s]
<1>1. s \in Slots /\ target[s] \in Vulns
    BY DEF Ledger, Control, Submits, Inv, Targeted
<1>2. work.todo \subseteq Content(target[s])
    BY DEF Ledger, Drawn
<1>3. /\ Content(target[s]) \subseteq Products
      /\ \A x \in Content(target[s]) :
           x = target[s] \/ (x \in Patches \cup Povs /\ VulnOf[x] = target[s])
    BY <1>1, ContentOf DEF Ledger
<1>4. Next1 \in work.todo
    BY <1>2, <1>3, FirstOfSet DEF Next1
<1> QED
    BY <1>1, <1>2, <1>3, <1>4

LEMMA RecordAnswers ==
  ASSUME Inv, Ledger, NEW s \in Jobs, Record(s)
  PROVE  \E x \in Products :
           /\ x = Next1 /\ x \in work.todo /\ s \in Slots /\ lock = s /\ step = "record"
           /\ x \notin Vulns => x \in Patches \cup Povs /\ VulnOf[x] = target[s]
           /\ Len(row[x]) \in 1..Len(row[x]) /\ Len(row[x]) \notin Answered(x)
           /\ Put(x, Len(row[x]), "accepted") /\ work.draft[x] = 0
           /\ Answers(x) <= clears[x]
<1>1. lock = s /\ step = "record" /\ Put(Next1, Len(row[Next1]), "accepted")
    BY DEF Record
<1>2. /\ work.todo # {} /\ work.draft[Next1] = 0 /\ Len(row[Next1]) # 0
      /\ Len(row[Next1]) \notin Answered(Next1)
    BY <1>1 DEF Ledger, Drawn
<1>3. /\ Next1 \in work.todo /\ Next1 \in Products /\ s \in Slots
      /\ Next1 \notin Vulns => Next1 \in Patches \cup Povs /\ VulnOf[Next1] = target[s]
    BY <1>1, <1>2, NextOne
<1>4. Len(row[Next1]) \in Nat
    BY <1>3, AnswersAreNatural DEF Ledger, Rows
<1>5. Answers(Next1) <= clears[Next1]
    BY <1>1, <1>2, <1>3 DEF Ledger, Drawn
<1>6. Len(row[Next1]) \in 1..Len(row[Next1])
    BY <1>2, <1>4
<1> QED
    BY <1>1, <1>2, <1>3, <1>5, <1>6

LEMMA PollAnswers ==
  ASSUME Inv, Ledger, NEW s \in Slots, PollDone(s)
  PROVE  \E x \in Products, n \in Nat, status \in Status :
           /\ n \in 1..Len(row[x]) /\ n \in Answered(x) /\ Put(x, n, status)
           /\ polls' = [polls EXCEPT ![s] = @ \ {<<x, n>>}]
<1>1. PICK poll \in polls[s] : \E verdict \in Judged(poll[1], poll[2]) :
        Put(poll[1], poll[2], verdict) /\ polls' = [polls EXCEPT ![s] = @ \ {poll}]
    BY DEF PollDone
<1> DEFINE x == poll[1] n == poll[2]
<1>2. /\ x \in Products /\ n \in Nat /\ poll = <<x, n>> /\ n \in Answered(x)
    BY DEF Ledger, Polling, Products
<1> HIDE DEF x, n
<1>3. PICK verdict \in Judged(x, n) :
        Put(x, n, verdict) /\ polls' = [polls EXCEPT ![s] = @ \ {<<x, n>>}]
    BY <1>1, <1>2 DEF x, n
<1>4. n \in 1..Len(row[x]) /\ row[x][n] # "unknown"
    BY <1>2 DEF Answered
<1>5. row[x][n] \in Status
  <2>1. row[x] \in Seq(Status \cup {"unknown"})
      BY <1>2 DEF Ledger, Rows
  <2> QED
      BY <1>4, <2>1, ElementOfSeq
<1>6. verdict \in Status
    BY <1>3, <1>5, BundlingAssumption DEF Judged, Status
<1> QED
    BY <1>2, <1>3, <1>4, <1>6


\* The steps that change the rows.
LEMMA RowMoves ==
  ASSUME Ledger, [Next]_vars
  PROVE  \/ UNCHANGED <<row, sub, clears>> /\ (saved' = saved \/ saved' = sub)
         \/ \E j \in Jobs : Post(j) \/ Record(j) \/ Review(j)
         \/ \E s \in Slots : PollDone(s)
         \/ Crash
<1> DEFINE Quiet == UNCHANGED <<row, sub, clears>> /\ (saved' = saved \/ saved' = sub)
<1>1. ASSUME NEW j \in Jobs, Test(j) \/ Choose(j) \/ Update(j) \/ Enqueue(j)
      PROVE  Quiet
    BY <1>1 DEF Test, Choose, Update, Enqueue, Continue, Finish
<1>2. ASSUME NEW j \in Jobs, PollAgain(j) \/ CreateBundle(j) \/ RecordBundle(j)
                               \/ ForgetBundle(j) \/ NoBundle(j)
      PROVE  Quiet
    BY <1>2 DEF PollAgain, CreateBundle, RecordBundle, ForgetBundle, NoBundle
<1>3. ASSUME NEW j \in Jobs, UpdateBundle(j) \/ DeleteBundle(j) \/ Fault(j)
      PROVE  Quiet
    BY <1>3 DEF UpdateBundle, DeleteBundle, Fault, Restart
<1>4. ASSUME NEW j \in Jobs, Enter(j) PROVE Quiet
    BY <1>4 DEF Enter, EnterPatch, EnterPov, EnterReview
<1>5. ASSUME \/ \E p \in Patches : StorePatch(p) \/ DelayOver(p) \/ WaitTimeout(p)
             \/ \E q \in Povs : AddPov(q) \/ AssignPov(q)
             \/ \E x \in Products : SubmitProduct(x)
             \/ \E v \in Vulns : EnterAny(v)
             \/ UNCHANGED vars
      PROVE  Quiet
    BY <1>5 DEF StorePatch, DelayOver, WaitTimeout, AddPov, AssignPov, SubmitProduct, EnterAny,
                EnterSubmit, vars
<1> QED
    BY <1>1, <1>2, <1>3, <1>4, <1>5 DEF Next, HolderStep

\* A POST adds an attempt that is not answered yet.
LEMMA PostAnswers ==
  ASSUME Inv, Ledger, NEW s \in Jobs, Post(s)
  PROVE  /\ Next1 \in work.todo /\ Next1 \in Products /\ s \in Slots /\ lock = s
         /\ step = "submit" /\ work.draft[Next1] = 0
         /\ row' \in [Products -> Seq(Status \cup {"unknown"})]
         /\ \A y \in Products : Answered(y)' = Answered(y) /\ Answers(y)' = Answers(y)
         /\ \A y \in Products :
              y = Next1 => Len(row'[y]) # 0 /\ Len(row'[y]) \notin Answered(y)'
         /\ UNCHANGED <<sub, saved, clears, polls, polled, target, bundle, pc, lock, work>>
         /\ step' = "record"
<1>1. /\ lock = s /\ step = "submit" /\ work.todo # {} /\ work.draft[Next1] = 0
      /\ row' = [row EXCEPT ![Next1] = Append(row[Next1], "unknown")]
      /\ UNCHANGED <<sub, saved, clears, polls, polled, target, bundle, pc, lock, work>>
      /\ step' = "record"
    BY DEF Post, Submitting, Continue
<1>2. Next1 \in work.todo /\ Next1 \in Products /\ s \in Slots
    BY <1>1, NextOne
<1>3. PICK x \in Products : x = Next1
    BY <1>2
<1> DEFINE r == Append(row[x], "unknown")
<1>4. row[x] \in Seq(Status \cup {"unknown"}) /\ Len(row[x]) \in Nat
    BY LenProperties DEF Ledger, Rows
<1>5. /\ r \in Seq(Status \cup {"unknown"}) /\ Len(r) = Len(row[x]) + 1
      /\ \A m \in 1..Len(row[x]) : r[m] = row[x][m]
      /\ r[Len(row[x]) + 1] = "unknown"
    BY <1>4, AppendProperties
<1> HIDE DEF r
<1>6. /\ row' \in [Products -> Seq(Status \cup {"unknown"})]
      /\ row'[x] = r /\ \A y \in Products : y # x => row'[y] = row[y]
    BY <1>1, <1>3, <1>5 DEF Ledger, Rows, r
<1>7. Answered(x)' = Answered(x)
  <2>1. \A m \in 1..Len(r) : m \in 1..Len(row[x]) \/ m = Len(row[x]) + 1
      BY <1>4, <1>5
  <2>2. \A m \in 1..Len(row[x]) : m \in 1..Len(r)
      BY <1>4, <1>5
  <2>3. Answered(x)' = {m \in 1..Len(r) : r[m] # "unknown"}
      BY <1>6 DEF Answered
  <2> QED
      BY <1>5, <2>1, <2>2, <2>3 DEF Answered
<1>8. \A y \in Products : Answered(y)' = Answered(y)
    BY <1>6, <1>7 DEF Answered
<1>9. \A y \in Products : Answers(y)' = Answers(y)
    BY <1>8 DEF Answers
<1>10. Len(row'[x]) # 0 /\ Len(row'[x]) \notin Answered(x)'
    BY <1>4, <1>5, <1>6, <1>7 DEF Answered
<1> QED
    BY <1>1, <1>2, <1>3, <1>6, <1>8, <1>9, <1>10

LEMMA RowsStep ==
  ASSUME Inv, Ledger, [Next]_vars
  PROVE  Rows' /\ \A x \in Products : Answered(x) \subseteq Answered(x)'
<1> USE DEF Ledger
<1>0. \A x \in Products : Answers(x) \in Nat /\ clears[x] \in Nat
    BY AnswersAreNatural DEF Rows
<1>1. CASE UNCHANGED <<row, sub, clears>> /\ (saved' = saved \/ saved' = sub)
    BY <1>1, RowsKept DEF Answered
<1>2. ASSUME NEW s \in Jobs, Post(s)
      PROVE  Rows' /\ \A x \in Products : Answered(x) \subseteq Answered(x)'
    BY <1>2, PostAnswers DEF Rows
<1>3. ASSUME NEW s \in Jobs, Record(s)
      PROVE  Rows' /\ \A x \in Products : Answered(x) \subseteq Answered(x)'
  <2> DEFINE n(x) == Len(row[x])
  <2>1. PICK x \in Products : /\ n(x) \in 1..Len(row[x]) /\ n(x) \notin Answered(x)
                              /\ Put(x, n(x), "accepted") /\ Answers(x) <= clears[x]
      BY <1>3, RecordAnswers
  <2> HIDE DEF n
  <2>2. /\ row' \in [Products -> Seq(Status \cup {"unknown"})]
        /\ sub' \in [Products -> Nat] /\ saved' = sub'
        /\ \A y \in Products : y # x => /\ Answered(y)' = Answered(y)
                                        /\ Answers(y)' = Answers(y) /\ sub'[y] = sub[y]
        /\ Answered(x)' = Answered(x) \cup {n(x)} /\ sub'[x] = n(x)
      BY <2>1, PutAnswers DEF Rows, Status
  <2>3. Answers(x)' = Answers(x) + 1
    <3>1. IsFiniteSet(Answered(x))
        BY AnswersAreNatural DEF Rows
    <3>2. Answers(x)' = Cardinality(Answered(x) \cup {n(x)})
        BY <2>2 DEF Answers
    <3> QED
        BY <2>1, <3>1, <3>2, FS_AddElement DEF Answers
  <2>4. UNCHANGED clears /\ n(x) \in Nat /\ n(x) # 0
      BY <1>3, <2>1, AnswersAreNatural DEF Record, Rows, n
  <2>5. \A y \in Products : Answered(y) \subseteq Answered(y)'
      BY <2>2
  <2>6. ASSUME NEW y \in Products
        PROVE  /\ sub'[y] = 0 \/ sub'[y] \in Answered(y)'
               /\ Answers(y)' <= clears'[y] + 1
               /\ sub'[y] = 0 => Answers(y)' <= clears'[y]
    <3>1. CASE y = x
        BY <1>0, <2>1, <2>2, <2>3, <2>4, <3>1
    <3>2. CASE y # x
        BY <2>2, <2>4, <3>2 DEF Rows
    <3> QED
        BY <3>1, <3>2
  <2> QED
      BY <2>2, <2>4, <2>5, <2>6 DEF Rows
<1>4. ASSUME NEW s \in Slots, PollDone(s)
      PROVE  Rows' /\ \A x \in Products : Answered(x) \subseteq Answered(x)'
  <2>1. PICK x \in Products, n \in Nat, status \in Status :
          n \in 1..Len(row[x]) /\ n \in Answered(x) /\ Put(x, n, status)
      BY <1>4, PollAnswers
  <2>2. /\ row' \in [Products -> Seq(Status \cup {"unknown"})]
        /\ sub' \in [Products -> Nat] /\ saved' = sub'
        /\ \A y \in Products : y # x => /\ Answered(y)' = Answered(y)
                                        /\ Answers(y)' = Answers(y) /\ sub'[y] = sub[y]
        /\ Answered(x)' = Answered(x) \cup {n} /\ sub'[x] = n
      BY <2>1, PutAnswers
  <2>3. \A y \in Products : Answered(y)' = Answered(y)
      BY <2>1, <2>2
  <2>4. \A y \in Products : Answers(y)' = Answers(y)
      BY <2>3 DEF Answers
  <2>5. UNCHANGED clears /\ n # 0
      BY <1>4, <2>1, AnswersAreNatural DEF PollDone, Rows
  <2> QED
      BY <2>1, <2>2, <2>3, <2>4, <2>5 DEF Rows
<1>5. ASSUME NEW j \in Jobs, Review(j)
      PROVE  Rows' /\ \A x \in Products : Answered(x) \subseteq Answered(x)'
  <2>1. PICK errored :
          /\ UNCHANGED row /\ saved' = sub
          /\ sub' = [x \in Products |-> IF x \in errored THEN 0 ELSE sub[x]]
          /\ clears' = [x \in Products |-> clears[x] + IF x \in errored THEN 1 ELSE 0]
      BY <1>5 DEF Review
  <2>2. \A x \in Products : Answered(x)' = Answered(x) /\ Answers(x)' = Answers(x)
      BY <2>1 DEF Answered, Answers
  <2>3. sub' \in [Products -> Nat] /\ clears' \in [Products -> Nat]
      BY <2>1 DEF Rows
  <2>4. ASSUME NEW x \in Products
        PROVE  /\ sub'[x] = 0 \/ sub'[x] = sub[x]
               /\ Answers(x)' <= clears'[x] + 1
               /\ sub'[x] = 0 => Answers(x)' <= clears'[x]
    <3>1. CASE x \in errored
        BY <1>0, <2>1, <2>2, <3>1 DEF Rows
    <3>2. CASE x \notin errored
        BY <1>0, <2>1, <2>2, <3>2 DEF Rows
    <3> QED
        BY <3>1, <3>2
  <2> QED
      BY <2>1, <2>2, <2>3, <2>4 DEF Rows
<1>6. ASSUME Crash
      PROVE  Rows' /\ \A x \in Products : Answered(x) \subseteq Answered(x)'
  <2>1. UNCHANGED <<row, saved, clears>> /\ sub' = saved
      BY <1>6 DEF Crash
  <2>2. \A x \in Products : Answered(x)' = Answered(x) /\ Answers(x)' = Answers(x)
      BY <2>1 DEF Answered, Answers
  <2> QED
      BY <2>1, <2>2 DEF Rows
<1> QED
    BY <1>1, <1>2, <1>3, <1>4, <1>5, <1>6, RowMoves


-----------------------------------------------------------------------------
\* What a submit job keeps of its bundle.
LEMMA DrawnKept ==
  ASSUME Drawn, UNCHANGED <<step, work, lock, bundle, clears>>, target'[lock] = target[lock],
         \A x \in Products : /\ Answered(x)' = Answered(x) /\ Len(row'[x]) = Len(row[x])
                             /\ sub[x] # 0 => sub'[x] # 0,
         work.todo # {} => Next1 \in Products, step = "record" => work.todo # {},
         step \in {"submit", "record"} => work.todo \subseteq Products
  PROVE  Drawn'
<1>1. \A x \in Products : Answers(x)' = Answers(x)
    BY DEF Answers
<1>2. Next1' = Next1
    BY DEF Next1
<1>3. step \in {"submit", "record"} => Content(target[lock])' = Content(target[lock])
    BY DEF Content
<1>4. ASSUME step \in {"submit", "record"}
      PROVE  /\ work'.draft \in [Products -> Nat] /\ work'.todo \subseteq Content(target[lock])'
             /\ \A x \in Products :
                  work'.draft[x] # 0 => work'.draft[x] \in Answered(x)' /\ sub'[x] # 0
             /\ \A x \in work'.todo : work'.draft[x] = 0 => Answers(x)' <= clears'[x]
    BY <1>1, <1>3, <1>4 DEF Drawn
<1>5. ASSUME step = "record"
      PROVE  Len(row'[Next1']) # 0 /\ Len(row'[Next1']) \notin Answered(Next1)'
  <2>1. PICK x \in Products : x = Next1
      BY <1>5
  <2>2. Len(row[x]) # 0 /\ Len(row[x]) \notin Answered(x)
      BY <1>5, <2>1 DEF Drawn
  <2>3. Len(row'[x]) # 0 /\ Len(row'[x]) \notin Answered(x)' /\ x = Next1'
      BY <1>2, <2>1, <2>2
  <2> QED
      BY <2>3 DEF Answered
<1> QED
    BY <1>2, <1>4, <1>5 DEF Drawn


LEMMA RestOf ==
  ASSUME Inv PROVE Rest.draft = work.draft /\ Rest.todo = work.todo \ {Next1}
<1>1. PICK d, r, e, g, t : work = [draft |-> d, resubmit |-> r, seen |-> e, own |-> g, todo |-> t]
    BY DEF Inv, Shapes
<1>2. Rest = [draft |-> d, resubmit |-> r, seen |-> e, own |-> g, todo |-> t \ {Next1}]
    BY <1>1 DEF Rest
<1> QED
    BY <1>1, <1>2

\* The condition, the bundles and what the holder knows stay as they are.
LEMMA DrawnAside ==
  ASSUME Inv, Ledger, UNCHANGED <<step, work, lock, bundle, clears>>,
         lock \in Slots => target'[lock] = target[lock],
         \/ UNCHANGED <<row, sub>>
         \/ \E s \in Slots : PollDone(s)
  PROVE  Drawn'
<1> USE DEF Ledger
<1>1. CASE step \notin {"submit", "record"}
    BY <1>1 DEF Drawn
<1>2. CASE step \in {"submit", "record"}
  <2>1. /\ lock \in Slots /\ lock \in Jobs /\ target[lock] \in Vulns
        /\ work.todo \subseteq Products
        /\ work.todo # {} => Next1 \in Products
    <3>1. lock \in Slots /\ lock \in Jobs
        BY <1>2 DEF Control, Submits, Jobs
    <3>2. target[lock] \in Vulns
        BY <3>1 DEF Inv, Targeted
    <3>3. work.todo \subseteq Products
        BY <1>2, <3>2, ContentOf DEF Drawn
    <3> QED
        BY <1>2, <3>1, <3>2, <3>3, NextOne
  <2>2. \A x \in Products : /\ Answered(x)' = Answered(x) /\ Len(row'[x]) = Len(row[x])
                            /\ sub[x] # 0 => sub'[x] # 0
    <3>1. CASE UNCHANGED <<row, sub>>
        BY <3>1 DEF Answered
    <3>2. ASSUME NEW s \in Slots, PollDone(s)
          PROVE  \A x \in Products : /\ Answered(x)' = Answered(x) /\ Len(row'[x]) = Len(row[x])
                                     /\ sub[x] # 0 => sub'[x] # 0
      <4>1. PICK x \in Products, n \in Nat, status \in Status :
              n \in 1..Len(row[x]) /\ n \in Answered(x) /\ Put(x, n, status)
          BY <3>2, PollAnswers
      <4>2. /\ \A y \in Products : y # x => Answered(y)' = Answered(y) /\ sub'[y] = sub[y]
            /\ Answered(x)' = Answered(x) \cup {n} /\ sub'[x] = n
            /\ \A y \in Products : Len(row'[y]) = Len(row[y])
          BY <4>1, PutAnswers
      <4>3. n # 0
          BY <4>1, AnswersAreNatural DEF Rows
      <4> QED
          BY <4>1, <4>2, <4>3
    <3> QED
        BY <3>1, <3>2
  <2>3. step = "record" => work.todo # {}
      BY DEF Drawn
  <2> QED
      BY <2>1, <2>2, <2>3, DrawnKept
<1> QED
    BY <1>1, <1>2

LEMMA DrawnStep == ASSUME Inv, Ledger, [Next]_vars PROVE Drawn'
<1> USE DEF Ledger
<1>1. ASSUME step' \notin {"submit", "record"} PROVE Drawn'
    BY <1>1 DEF Drawn
<1>2. ASSUME NEW v \in Vulns, EnterAny(v) PROVE Drawn'
  <2> DEFINE P(x) == \/ StatusOf(x) = "none"
                     \/ x \notin Vulns /\ StatusOf(x) = "accepted"
             t == {x \in Content(v) : P(x)}
             w == [Idle EXCEPT !.draft = sub, !.todo = t]
  <2>1. PICK s \in Slots :
          /\ target' = [target EXCEPT ![s] = v] /\ lock' = s /\ step' = "submit" /\ work' = w
          /\ UNCHANGED <<row, sub, bundle, clears>>
      BY <1>2 DEF EnterAny, FreeSlots, EnterSubmit, Hold
  <2>2. w.draft = sub /\ w.todo = t
    <3> DEFINE u == [Idle EXCEPT !.draft = sub]
    <3>1. PICK n, b, e, g, o :
            Idle = [draft |-> n, resubmit |-> b, seen |-> e, own |-> g, todo |-> o]
        BY DEF Idle
    <3> HIDE DEF t
    <3>2. u = [draft |-> sub, resubmit |-> b, seen |-> e, own |-> g, todo |-> o]
        BY <3>1
    <3>3. w = [u EXCEPT !.todo = t]
        OBVIOUS
    <3> HIDE DEF u
    <3>4. w = [draft |-> sub, resubmit |-> b, seen |-> e, own |-> g, todo |-> t]
        BY <3>2, <3>3
    <3> QED
        BY <3>4
  <2> HIDE DEF w
  <2>3. t \subseteq Content(v) /\ Content(v) \subseteq Products
      BY ContentOf
  <2> HIDE DEF t
  <2>4. \A x \in Products : Answered(x)' = Answered(x) /\ Answers(x)' = Answers(x)
      BY <2>1 DEF Answered, Answers
  <2>5. target'[s] = v /\ Content(v)' = Content(v)
      BY <2>1 DEF Control, Content
  <2>6. Content(target[lock])' = Content(v)
      BY <2>1, <2>5 DEF Content
  <2> QED
      BY <2>1, <2>2, <2>3, <2>4, <2>6 DEF Drawn, Rows
<1>3. ASSUME NEW s \in Jobs, Post(s) PROVE Drawn'
  <2>1. /\ Next1 \in work.todo /\ Next1 \in Products /\ lock = s /\ s \in Slots /\ step = "submit"
        /\ work.draft[Next1] = 0
        /\ \A y \in Products : Answered(y)' = Answered(y) /\ Answers(y)' = Answers(y)
        /\ \A y \in Products :
             y = Next1 => Len(row'[y]) # 0 /\ Len(row'[y]) \notin Answered(y)'
        /\ UNCHANGED <<sub, clears, target, bundle, lock, work>> /\ step' = "record"
      BY <1>3, PostAnswers
  <2>2. PICK x \in Products : x = Next1
      BY <2>1
  <2>3. x = Next1'
      BY <2>1, <2>2 DEF Next1
  <2>4. Len(row'[Next1']) # 0 /\ Len(row'[Next1']) \notin Answered(Next1)'
      BY <2>1, <2>2, <2>3 DEF Answered
  <2>5. work.todo \subseteq Products /\ Content(target[lock])' = Content(target[lock])
    <3>1. target[lock] \in Vulns
        BY <2>1 DEF Inv, Targeted
    <3>2. work.todo \subseteq Products
        BY <2>1, <3>1, ContentOf DEF Drawn
    <3> QED
        BY <2>1, <3>2 DEF Content
  <2> QED
      BY <2>1, <2>2, <2>3, <2>4, <2>5 DEF Drawn
<1>4. ASSUME NEW s \in Jobs, Record(s) PROVE Drawn'
  <2> DEFINE n(x) == Len(row[x])
  <2>1. PICK x \in Products :
          /\ x = Next1 /\ x \in work.todo /\ s \in Slots /\ lock = s /\ step = "record"
          /\ n(x) \in 1..Len(row[x]) /\ Put(x, n(x), "accepted")
      BY <1>4, RecordAnswers
  <2>2. n(x) \in Nat /\ n(x) # 0
      BY <2>1, AnswersAreNatural DEF Rows
  <2> HIDE DEF n
  <2>3. /\ \A y \in Products : y # x => /\ Answered(y)' = Answered(y)
                                        /\ Answers(y)' = Answers(y) /\ sub'[y] = sub[y]
        /\ Answered(x)' = Answered(x) \cup {n(x)} /\ sub'[x] = n(x)
      BY <2>1, PutAnswers DEF Status
  <2>4. /\ step' = "submit" /\ work' = Rest
        /\ UNCHANGED <<lock, target, bundle, clears>>
      BY <1>4 DEF Record
  <2>5. work'.draft = work.draft /\ work'.todo = work.todo \ {x}
      BY <2>1, <2>4, RestOf
  <2>6. work.todo \subseteq Products /\ Content(target[lock])' = Content(target[lock])
    <3>1. target[lock] \in Vulns
        BY <2>1 DEF Inv, Targeted
    <3>2. work.todo \subseteq Products
        BY <2>1, <3>1, ContentOf DEF Drawn
    <3> QED
        BY <2>4, <3>2 DEF Content
  <2>7. \A y \in Products : work'.draft[y] # 0 => work'.draft[y] \in Answered(y)' /\ sub'[y] # 0
      BY <2>1, <2>2, <2>3, <2>5 DEF Drawn
  <2>8. \A y \in work'.todo : work'.draft[y] = 0 => Answers(y)' <= clears'[y]
      BY <2>1, <2>3, <2>4, <2>5, <2>6 DEF Drawn
  <2> QED
      BY <2>1, <2>4, <2>5, <2>6, <2>7, <2>8 DEF Drawn
<1>5. ASSUME NEW s \in Jobs, PollAgain(s) PROVE Drawn'
  <2>1. /\ lock = s /\ step = "submit" /\ step' = "submit" /\ work' = Rest
        /\ UNCHANGED <<lock, target, bundle, clears, row, sub>>
      BY <1>5 DEF PollAgain, Submitting
  <2>2. work'.draft = work.draft /\ work'.todo \subseteq work.todo
      BY <2>1, RestOf
  <2>3. \A x : Answered(x)' = Answered(x) /\ Answers(x)' = Answers(x)
      BY <2>1 DEF Answered, Answers
  <2>4. Content(target[lock])' = Content(target[lock])
      BY <2>1 DEF Content
  <2> QED
      BY <2>1, <2>2, <2>3, <2>4 DEF Drawn
<1>6. ASSUME \/ \E p \in Patches : StorePatch(p) \/ DelayOver(p) \/ WaitTimeout(p)
             \/ \E q \in Povs : AddPov(q) \/ AssignPov(q)
             \/ \E x \in Products : SubmitProduct(x)
             \/ \E j \in Jobs : EnterPatch(j) /\ MustWait(j)
             \/ UNCHANGED vars
      PROVE  Drawn'
  <2>1. UNCHANGED <<step, work, lock, bundle, clears, target, row, sub>>
      BY <1>6 DEF StorePatch, DelayOver, WaitTimeout, AddPov, AssignPov, SubmitProduct,
                   EnterPatch, vars
  <2> QED
      BY <2>1, DrawnAside
<1>7. ASSUME NEW s \in Slots, PollDone(s) PROVE Drawn'
  <2>1. UNCHANGED <<step, work, lock, bundle, clears, target>>
      BY <1>7 DEF PollDone
  <2> QED
      BY <1>7, <2>1, DrawnAside
<1>8. ASSUME NEW j \in Jobs, Restart(j), UNCHANGED clears PROVE Drawn'
  <2>1. CASE lock = j
      BY <1>1, <1>8, <2>1 DEF Restart
  <2>2. CASE lock # j
    <3>1. UNCHANGED <<step, work, lock, bundle, clears, row, sub>> /\ target' = Without(target, j)
        BY <1>8, <2>2 DEF Restart
    <3> QED
        BY <2>2, <3>1, DrawnAside DEF Without
  <2> QED
      BY <2>1, <2>2
<1>9. ASSUME NEW j \in Jobs, UpdateBundle(j) \/ Fault(j) \/ DeleteBundle(j) PROVE Drawn'
    BY <1>1, <1>8, <1>9 DEF UpdateBundle, Fault, DeleteBundle, Continue, Restart
<1>10. ASSUME NEW j \in Jobs,
              \/ EnterPov(j) \/ EnterReview(j) \/ (EnterPatch(j) /\ ~MustWait(j))
              \/ Test(j) \/ Review(j) \/ Choose(j) \/ Update(j) \/ Enqueue(j)
              \/ CreateBundle(j)
       PROVE  step' \notin {"submit", "record"}
    BY <1>10 DEF EnterPov, EnterReview, EnterPatch, Test, Review, Choose, Update, Enqueue,
                 CreateBundle, Hold, Continue, Finish
<1>11. ASSUME NEW j \in Jobs, RecordBundle(j) \/ ForgetBundle(j) \/ NoBundle(j)
       PROVE  step' \notin {"submit", "record"}
    BY <1>11 DEF RecordBundle, ForgetBundle, NoBundle, Leave, Finish
<1>12. Crash => step' \notin {"submit", "record"}
    BY DEF Crash
<1> QED
    BY <1>1, <1>2, <1>3, <1>4, <1>5, <1>6, <1>7, <1>9, <1>10, <1>11, <1>12
    DEF Next, Enter, HolderStep


-----------------------------------------------------------------------------
\* The polls.
LEMMA PollingKept ==
  ASSUME Polling, polls' \in [Slots -> SUBSET ((Patches \cup Povs) \X Nat)],
         \A x \in Products : Answered(x) \subseteq Answered(x)',
         \A s \in Slots : polls'[s] # {} =>
           /\ polls'[s] \subseteq polls[s] /\ target'[s] = target[s]
           /\ pc'[s] = "polling" \/ (lock' = s /\ polled'[s] /\ step' \in Submits)
  PROVE  Polling'
<1>1. ASSUME NEW s \in Slots, NEW poll \in polls'[s]
      PROVE  VulnOf[poll[1]] = target'[s] /\ poll[2] \in Answered(poll[1])'
  <2>1. /\ poll \in polls[s] /\ target'[s] = target[s]
        /\ poll[1] \in Products
      BY <1>1 DEF Polling, Products
  <2> QED
      BY <2>1 DEF Polling
<1> QED
    BY <1>1 DEF Polling

LEMMA PollingOutside ==
  ASSUME Inv, Ledger, UNCHANGED <<lock, step, target, polls, polled>>,
         \A x \in Products : Answered(x) \subseteq Answered(x)',
         \A s \in Slots : pc'[s] = pc[s]
  PROVE  Polling'
  BY PollingKept DEF Ledger, Polling

\* A job takes the condition: who polls has it not, and does not end.
LEMMA PollingTakes ==
  ASSUME Inv, Ledger, NEW j \in Jobs, NEW s, NEW w, lock = None, Hold(j, s, w),
         j \in Slots => polls[j] = {}, UNCHANGED <<polls, polled>>,
         \A k \in Slots : k # j => target'[k] = target[k],
         \A x \in Products : Answered(x) \subseteq Answered(x)'
  PROVE  Polling'
<1>1. \A k \in Slots : k # j => pc'[k] = pc[k]
    BY DEF Hold, Ledger, Control
<1>2. \A k \in Slots : polls[k] # {} => pc[k] = "polling" /\ k # j
    BY Kinds DEF Ledger, Polling, Jobs
<1> QED
    BY <1>1, <1>2, PollingKept DEF Ledger, Polling

\* The holder goes on, and polls as before.
LEMMA PollingStays ==
  ASSUME Inv, Ledger, NEW j \in Jobs, lock = j, UNCHANGED <<lock, pc, target, polls, polled>>,
         step \in Submits => step' \in Submits,
         \A x \in Products : Answered(x) \subseteq Answered(x)'
  PROVE  Polling'
  BY PollingKept DEF Ledger, Polling

\* The holder leaves; if it has polls it waits for them.
LEMMA PollingLeaves ==
  ASSUME Inv, Ledger, NEW j \in Jobs, lock = j, UNCHANGED polls,
         \A k \in Slots : k # j => target'[k] = target[k] /\ pc'[k] = pc[k],
         j \in Slots => polls[j] = {} \/ (pc'[j] = "polling" /\ target'[j] = target[j]),
         \A x \in Products : Answered(x) \subseteq Answered(x)'
  PROVE  Polling'
  BY PollingKept DEF Ledger, Polling

LEMMA PollingFinish ==
  ASSUME Inv, Ledger, NEW j \in Jobs, lock = j,
         \/ Finish(j) /\ (step \in Submits => ~polled[j])
         \/ Leave(j)
         \/ Enqueue(j) /\ step \notin Submits,
         \A x \in Products : Answered(x) \subseteq Answered(x)'
  PROVE  Polling'
<1>1. ASSUME Finish(j), step \in Submits => ~polled[j] PROVE Polling'
  <2>1. pc' = [pc EXCEPT ![j] = After(j)] /\ target' = Without(target, j) /\ UNCHANGED polls
      BY <1>1 DEF Finish
  <2>2. \A k \in Slots : k # j => target'[k] = target[k] /\ pc'[k] = pc[k]
      BY <2>1 DEF Without, Ledger, Control
  <2>3. j \in Slots => polls[j] = {}
      BY <1>1 DEF Ledger, Polling, Control
  <2> QED
      BY <2>1, <2>2, <2>3, PollingLeaves
<1>2. CASE Leave(j) /\ polled[j]
  <2>1. pc' = [pc EXCEPT ![j] = "polling"] /\ UNCHANGED <<polls, target>>
      BY <1>2 DEF Leave
  <2>2. pc'[j] = "polling" /\ \A k \in Slots : k # j => pc'[k] = pc[k]
      BY <2>1 DEF Ledger, Control
  <2> QED
      BY <2>1, <2>2, PollingLeaves
<1>3. CASE Enqueue(j) /\ step \notin Submits
  <2>1. /\ pc' = [k \in Jobs |-> IF k = j THEN After(j)
                                 ELSE IF k \in Told(j) THEN "ready" ELSE pc[k]]
        /\ target' = Without(target, j) /\ UNCHANGED polls
      BY <1>3 DEF Enqueue
  <2>2. \A k \in Slots : k # j => target'[k] = target[k] /\ pc'[k] = pc[k]
      BY <2>1, Kinds DEF Without, Told, Jobs, Products
  <2>3. j \in Slots => polls[j] = {}
      BY <1>3 DEF Ledger, Polling, Control
  <2> QED
      BY <2>1, <2>2, <2>3, PollingLeaves
<1> QED
    BY <1>1, <1>2, <1>3 DEF Leave

\* A poll is started for a product whose attempt is answered.
LEMMA PollingStarts ==
  ASSUME Inv, Ledger, NEW s \in Slots, lock = s, UNCHANGED <<lock, pc, target>>,
         step' = "submit", NEW x \in Products, NEW n \in Nat, StartPoll(s, x, n),
         x \notin Vulns => /\ x \in Patches \cup Povs /\ VulnOf[x] = target[s]
                           /\ n \in Answered(x)',
         \A y \in Products : Answered(y) \subseteq Answered(y)'
  PROVE  Polling'
<1>0. polled \in [Slots -> BOOLEAN] /\ \A k \in Slots : pc[k] = "holding" <=> lock = k
    BY DEF Ledger, Control, Jobs
<1>1. CASE x \in Vulns
  <2>1. UNCHANGED polls
      BY <1>1 DEF StartPoll, Ledger, Polling
  <2>2. \A k \in Slots : polled[k] => polled'[k]
      BY <1>0 DEF StartPoll
  <2> QED
      BY <2>1, <2>2, PollingKept DEF Ledger, Polling, Submits
<1>2. CASE x \notin Vulns
  <2>1. polls' = [polls EXCEPT ![s] = @ \cup {<<x, n>>}]
      BY <1>2 DEF StartPoll
  <2>2. /\ polls' \in [Slots -> SUBSET ((Patches \cup Povs) \X Nat)]
        /\ polls'[s] = polls[s] \cup {<<x, n>>}
        /\ \A k \in Slots : k # s => polls'[k] = polls[k]
      BY <1>2, <2>1 DEF Ledger, Polling
  <2>3. polled'[s] /\ \A k \in Slots : k # s => polled'[k] = polled[k]
      BY <1>0, <1>2 DEF StartPoll
  <2>4. ASSUME NEW k \in Slots, NEW poll \in polls'[k]
        PROVE  VulnOf[poll[1]] = target'[k] /\ poll[2] \in Answered(poll[1])'
    <3>1. CASE poll \in polls[k]
      <4>1. poll[1] \in Products
          BY <3>1 DEF Ledger, Polling, Products
      <4> QED
          BY <3>1, <4>1 DEF Ledger, Polling
    <3>2. CASE k = s /\ poll = <<x, n>>
        BY <1>2, <3>2
    <3> QED
        BY <2>2, <2>4, <3>1, <3>2
  <2>5. \A k \in Slots : polls'[k] # {} =>
          pc'[k] = "polling" \/ (lock' = k /\ polled'[k] /\ step' \in Submits)
      BY <2>2, <2>3 DEF Ledger, Polling, Submits
  <2> QED
      BY <2>2, <2>4, <2>5 DEF Polling
<1> QED
    BY <1>1, <1>2


LEMMA PollingStep ==
  ASSUME Inv, Ledger, [Next]_vars, \A x \in Products : Answered(x) \subseteq Answered(x)'
  PROVE  Polling'
<1> USE DEF Ledger
<1>1. ASSUME \/ \E p \in Patches : StorePatch(p) \/ DelayOver(p) \/ WaitTimeout(p)
             \/ \E q \in Povs : AddPov(q) \/ AssignPov(q)
             \/ \E x \in Products : SubmitProduct(x)
             \/ \E j \in Jobs : EnterPatch(j) /\ MustWait(j)
             \/ UNCHANGED vars
      PROVE  Polling'
  <2>1. /\ UNCHANGED <<lock, step, target, polls, polled>>
        /\ UNCHANGED pc \/ \E c : \E x \in Products : pc' = [pc EXCEPT ![x] = c]
      BY <1>1 DEF StorePatch, DelayOver, WaitTimeout, AddPov, AssignPov, SubmitProduct,
                   EnterPatch, vars,
                  Products
  <2>2. \A s \in Slots : pc'[s] = pc[s]
      BY <2>1, Kinds DEF Control, Jobs
  <2> QED
      BY <2>1, <2>2, PollingOutside
<1>2. ASSUME NEW j \in Jobs, EnterPov(j) \/ (EnterPatch(j) /\ ~MustWait(j)) PROVE Polling'
  <2>1. /\ j \in Products /\ lock = None /\ UNCHANGED <<target, polls, polled>>
        /\ \E s, w : Hold(j, s, w)
      BY <1>2 DEF EnterPov, EnterPatch, Products
  <2> QED
      BY <2>1, Kinds, PollingTakes
<1>3. ASSUME NEW j \in Jobs, EnterReview(j) PROVE Polling'
  <2>1. /\ j \in Slots => polls[j] = {}
        /\ lock = None /\ UNCHANGED <<target, polls, polled>> /\ Hold(j, "review", Idle)
      BY <1>3, Kinds DEF EnterReview, Products
  <2> QED
      BY <2>1, PollingTakes
<1>4. ASSUME NEW v \in Vulns, EnterAny(v) PROVE Polling'
  <2>1. PICK s \in Slots : pc[s] = "free" /\ EnterSubmit(s, v)
    <3>1. FreeSlots # {} /\ EnterSubmit(CHOOSE s \in FreeSlots : TRUE, v)
        BY <1>4 DEF EnterAny
    <3> QED
        BY <3>1 DEF FreeSlots
  <2>2. /\ lock = None /\ target' = [target EXCEPT ![s] = v] /\ UNCHANGED <<polls, polled>>
        /\ \E w : Hold(s, "submit", w)
      BY <2>1 DEF EnterSubmit
  <2>3. polls[s] = {} /\ s \in Jobs
      BY <2>1, <2>2, Kinds DEF Polling, Jobs
  <2>4. \A k \in Slots : k # s => target'[k] = target[k]
      BY <2>2 DEF Control
  <2> QED
      BY <2>2, <2>3, <2>4, PollingTakes
<1>5. ASSUME NEW j \in Jobs, Test(j) \/ Choose(j) PROVE Polling'
  <2>1. /\ lock = j /\ step \in {"testing", "choose"}
        /\ Finish(j) \/ \E s, w : Continue(j, s, w)
      BY <1>5 DEF Test, Choose
  <2>2. ASSUME NEW s, NEW w, Continue(j, s, w) PROVE Polling'
      BY <2>1, <2>2, PollingStays DEF Continue, Submits
  <2> QED
      BY <2>1, <2>2, PollingFinish DEF Submits
<1>6. ASSUME NEW j \in Jobs, Review(j) \/ Update(j) \/ Post(j) \/ CreateBundle(j) PROVE Polling'
  <2>1. /\ lock = j /\ UNCHANGED <<lock, pc, target, polls, polled>>
        /\ step \in Submits => step' \in Submits
      BY <1>6 DEF Review, Update, Post, CreateBundle, AtBundle, Submitting, Continue, Submits
  <2> QED
      BY <2>1, PollingStays
<1>7. ASSUME NEW j \in Jobs, Enqueue(j) PROVE Polling'
    BY <1>7, PollingFinish DEF Enqueue, Submits
<1>8. ASSUME NEW s \in Jobs, Record(s) PROVE Polling'
  <2> DEFINE n(x) == Len(row[x])
  <2>1. PICK x \in Products :
          /\ x = Next1 /\ s \in Slots /\ lock = s
          /\ x \notin Vulns => x \in Patches \cup Povs /\ VulnOf[x] = target[s]
          /\ n(x) \in 1..Len(row[x]) /\ Put(x, n(x), "accepted")
      BY <1>8, RecordAnswers
  <2>2. n(x) \in Nat
      BY AnswersAreNatural DEF Rows
  <2>3. StartPoll(s, x, n(x)) /\ step' = "submit" /\ UNCHANGED <<lock, pc, target>>
      BY <1>8, <2>1 DEF Record
  <2> HIDE DEF n
  <2>4. n(x) \in Answered(x)'
      BY <2>1, PutAnswers DEF Status
  <2> QED
      BY <2>1, <2>2, <2>3, <2>4, PollingStarts
<1>9. ASSUME NEW s \in Jobs, PollAgain(s) PROVE Polling'
  <2>1. /\ lock = s /\ step = "submit" /\ step' = "submit" /\ work.todo # {}
        /\ work.draft[Next1] # 0 /\ StartPoll(s, Next1, work.draft[Next1])
        /\ UNCHANGED <<lock, pc, target>>
      BY <1>9 DEF PollAgain, Submitting
  <2>2. /\ Next1 \in Products /\ s \in Slots
        /\ Next1 \notin Vulns => Next1 \in Patches \cup Povs /\ VulnOf[Next1] = target[s]
      BY <2>1, NextOne
  <2>3. work.draft[Next1] \in Nat /\ work.draft[Next1] \in Answered(Next1)
      BY <2>1, <2>2 DEF Drawn
  <2>4. PICK x \in Products, n \in Nat : x = Next1 /\ n = work.draft[x]
      BY <2>2, <2>3
  <2>5. n \in Answered(x)'
      BY <2>3, <2>4
  <2> QED
      BY <2>1, <2>2, <2>4, <2>5, PollingStarts
<1>10. ASSUME NEW s \in Jobs, RecordBundle(s) \/ ForgetBundle(s) \/ NoBundle(s) PROVE Polling'
  <2>1. lock = s /\ Leave(s)
      BY <1>10 DEF RecordBundle, ForgetBundle, NoBundle, AtBundle, Submitting
  <2> QED
      BY <2>1, PollingFinish
<1>11. ASSUME NEW j \in Jobs, Restart(j) PROVE Polling'
  <2>1. /\ pc' = [pc EXCEPT ![j] = IF j \in Slots THEN "free" ELSE "ready"]
        /\ target' = Without(target, j) /\ polls' = PollsWithout(j)
        /\ polled' = [s \in Slots |-> IF s = j THEN FALSE ELSE polled[s]]
        /\ lock # j => UNCHANGED <<lock, step>>
      BY <1>11 DEF Restart
  <2>2. polls' \in [Slots -> SUBSET ((Patches \cup Povs) \X Nat)]
      BY <2>1 DEF PollsWithout, Polling
  <2>3. ASSUME NEW s \in Slots, polls'[s] # {}
        PROVE  /\ polls'[s] \subseteq polls[s] /\ target'[s] = target[s]
               /\ pc'[s] = "polling" \/ (lock' = s /\ polled'[s] /\ step' \in Submits)
    <3>1. s # j /\ polls'[s] = polls[s]
        BY <2>1, <2>3 DEF PollsWithout
    <3>2. target'[s] = target[s] /\ polled'[s] = polled[s] /\ pc'[s] = pc[s]
        BY <2>1, <3>1 DEF Without, Control
    <3> QED
        BY <2>1, <2>3, <3>1, <3>2 DEF Polling
  <2> QED
      BY <2>2, <2>3, PollingKept
<1>12. ASSUME NEW j \in Jobs, UpdateBundle(j) \/ Fault(j) PROVE Polling'
    BY <1>11, <1>12 DEF UpdateBundle, Fault
<1>13. ASSUME NEW j \in Jobs, DeleteBundle(j) PROVE Polling'
  <2>1. lock = j /\ step = "submit" /\ (Restart(j) \/ Continue(j, "deleted", work))
      BY <1>13 DEF DeleteBundle, AtBundle, Submitting
  <2>2. CASE Continue(j, "deleted", work)
      BY <2>1, <2>2, PollingStays DEF Continue, Submits
  <2> QED
      BY <1>11, <2>1, <2>2
<1>14. ASSUME NEW s \in Slots, PollDone(s) PROVE Polling'
  <2>1. PICK x, n : polls' = [polls EXCEPT ![s] = @ \ {<<x, n>>}]
      BY <1>14, PollAnswers
  <2>2. UNCHANGED <<pc, target, polled, lock, step>>
      BY <1>14 DEF PollDone
  <2>3. /\ polls' \in [Slots -> SUBSET ((Patches \cup Povs) \X Nat)]
        /\ \A k \in Slots : polls'[k] \subseteq polls[k]
      BY <2>1 DEF Polling
  <2>4. ASSUME NEW k \in Slots, polls'[k] # {}
        PROVE  pc'[k] = "polling" \/ (lock' = k /\ polled'[k] /\ step' \in Submits)
    <3>1. polls[k] # {}
        BY <2>3, <2>4
    <3> QED
        BY <2>2, <3>1 DEF Polling
  <2> QED
      BY <2>2, <2>3, <2>4, PollingKept
<1>15. CASE Crash
  <2>1. polls' = [s \in Slots |-> {}]
      BY <1>15 DEF Crash
  <2> QED
      BY <2>1 DEF Polling
<1> QED
    BY <1>1, <1>2, <1>3, <1>4, <1>5, <1>6, <1>7, <1>8, <1>9, <1>10, <1>12, <1>13, <1>14, <1>15
    DEF Next, Enter, HolderStep


-----------------------------------------------------------------------------
\* The bundles and what the API has of them.
LEMMA StampedBundle ==
  ASSUME NEW S, NEW b \in Bundles(S), NEW T, NEW n \in T, NEW v, Belongs(b, v)
  PROVE  Stamped(b, n) \in Bundles(T) /\ Stamped(b, n).sent = n /\ Belongs(Stamped(b, n), v)
<1>1. PICK pa, po, sa, se : b = [patch |-> pa, pov |-> po, sarif |-> sa, sent |-> se]
    BY DEF Bundles
<1>2. pa \in Patches \cup {None} /\ po \in Povs \cup {None} /\ sa \in BOOLEAN
    BY <1>1 DEF Bundles
<1>3. Stamped(b, n) = [patch |-> pa, pov |-> po, sarif |-> sa, sent |-> n]
    BY <1>1 DEF Stamped
<1> QED
    BY <1>1, <1>2, <1>3 DEF Bundles, Belongs

LEMMA RedraftedBundle ==
  ASSUME NEW S, NEW b \in Bundles(S), NEW v,
         NEW p \in Patches \cup {None}, NEW q \in Povs \cup {None}, NEW r \in BOOLEAN,
         p # None => VulnOf[p] = v, q # None => VulnOf[q] = v
  PROVE  /\ Vetted(b, p, q) \in Bundles(S) /\ Belongs(Vetted(b, p, q), v)
         /\ Redrafted(b, p, q, r) \in Bundles(S) /\ Belongs(Redrafted(b, p, q, r), v)
<1> DEFINE d == [b EXCEPT !.patch = p] e == [d EXCEPT !.pov = q] f == [e EXCEPT !.sarif = r]
<1>1. PICK pa, po, sa, se : b = [patch |-> pa, pov |-> po, sarif |-> sa, sent |-> se]
    BY DEF Bundles
<1>2. sa \in BOOLEAN /\ se \in S
    BY <1>1 DEF Bundles
<1>3. d = [patch |-> p, pov |-> po, sarif |-> sa, sent |-> se]
    BY <1>1
<1> HIDE DEF d
<1>4. e = [patch |-> p, pov |-> q, sarif |-> sa, sent |-> se]
    BY <1>3
<1> HIDE DEF e
<1>5. f = [patch |-> p, pov |-> q, sarif |-> r, sent |-> se]
    BY <1>4
<1> HIDE DEF f
<1>6. e = Vetted(b, p, q) /\ f = Redrafted(b, p, q, r)
    BY DEF d, e, f, Vetted, Redrafted
<1>7. e \in Bundles(S) /\ Belongs(e, v)
    BY <1>2, <1>4 DEF Bundles, Belongs
<1>8. f \in Bundles(S) /\ Belongs(f, v)
    BY <1>2, <1>5 DEF Bundles, Belongs
<1> QED
    BY <1>6, <1>7, <1>8

LEMMA BundledQuiet ==
  ASSUME Bundled, UNCHANGED <<bundle, made>>,
         step' \notin {"choose", "update", "created", "deleted"}
  PROVE  Bundled'
  BY DEF Bundled, Belongs

\* The holder, if there is one, keeps its place.
LEMMA BundledAside ==
  ASSUME Ledger, UNCHANGED <<bundle, made, lock, step, work>>,
         lock \in Slots => target'[lock] = target[lock]
  PROVE  Bundled'
<1>1. step \in Submits => target'[lock] = target[lock]
    BY DEF Ledger, Control
<1>2. Vuln(lock)' = Vuln(lock)
    BY DEF Vuln
<1>3. step \in {"choose", "update"} =>
        /\ work'.draft \in Bundles({bundle'[Vuln(lock)'].sent})
        /\ Belongs(work'.draft, Vuln(lock)')
    BY <1>2 DEF Ledger, Bundled
<1> QED
    BY <1>1, <1>3 DEF Ledger, Bundled, Submits, Belongs

\* The column with the submission of a bundle and what became of it change together.
LEMMA BundledWrites ==
  ASSUME Bundled, NEW v \in Vulns, NEW b, NEW m \in Seq({"posted", "recorded", "deleted"}),
         bundle' = [bundle EXCEPT ![v] = b], made' = [made EXCEPT ![v] = m],
         bundle = [w \in Vulns |-> bundle[w]],
         b \in Bundles(0..Len(m)), Belongs(b, v),
         \A n \in 1..Len(m) : m[n] = "recorded" => n = b.sent,
         step' \notin {"choose", "update"},
         step' = "created" => target'[lock'] = v /\ b.sent = 0 /\ Len(m) # 0,
         step' = "deleted" => target'[lock'] = v /\ b.sent # 0 /\ m[b.sent] = "deleted"
  PROVE  Bundled'
<1>1. \A w \in Vulns : /\ bundle'[w] = IF w = v THEN b ELSE bundle[w]
                       /\ made'[w] = IF w = v THEN m ELSE made[w]
    BY DEF Bundled
<1>2. made' \in [Vulns -> Seq({"posted", "recorded", "deleted"})]
    BY DEF Bundled
<1>3. ASSUME NEW w \in Vulns
      PROVE  /\ bundle'[w] \in Bundles(0..Len(made'[w])) /\ Belongs(bundle'[w], w)
             /\ \A n \in 1..Len(made'[w]) : made'[w][n] = "recorded" => n = bundle'[w].sent
    BY <1>1 DEF Bundled
<1> QED
    BY <1>1, <1>2, <1>3 DEF Bundled, Belongs, Bundles


LEMMA BundledReview == ASSUME Inv, Ledger, NEW j \in Jobs, Review(j) PROVE Bundled'
<1> USE DEF Ledger
<1> DEFINE b == bundle[Vuln(j)]
           errored == {x \in {b.patch, b.pov} : StatusOf(x) = "errored"}
           patch == IF StatusOf(b.patch) = "failed" THEN None ELSE b.patch
           pov == IF StatusOf(b.pov) = "failed" THEN None ELSE b.pov
           draft == [b EXCEPT !.patch = patch, !.pov = pov]
           w == [Idle EXCEPT !.resubmit = Resubmit(errored), !.draft = draft]
<1>1. lock = j /\ UNCHANGED bundle /\ UNCHANGED made /\ Continue(j, "choose", w)
    BY DEF Review
<1>2. PICK v \in Vulns : v = Vuln(j)
    BY <1>1, HolderVuln
<1>3. b \in Bundles(0..Len(made[v])) /\ Belongs(b, v)
    BY <1>2 DEF Bundled
<1>4. /\ patch \in Patches \cup {None} /\ pov \in Povs \cup {None}
      /\ patch # None => VulnOf[patch] = v
      /\ pov # None => VulnOf[pov] = v
    BY <1>3 DEF Bundles, Belongs
<1>5. b \in Bundles({b.sent})
    BY <1>3 DEF Bundles
<1>6. draft \in Bundles({b.sent}) /\ Belongs(draft, v)
  <2>1. draft = Vetted(b, patch, pov)
      BY DEF Vetted
  <2> HIDE DEF patch, pov, b, draft
  <2> QED
      BY <1>4, <1>5, <2>1, RedraftedBundle
<1>7. w.draft = draft
  <2> DEFINE r == Resubmit(errored)
  <2> HIDE DEF draft, r
  <2> QED
      BY Redraw, Zenon
<1> HIDE DEF draft, w
<1>8. /\ step' = "choose" /\ work' = w /\ UNCHANGED <<lock, target>> /\ Vuln(lock)' = Vuln(lock)
    BY <1>1 DEF Continue, Vuln
<1>9. work'.draft \in Bundles({bundle'[Vuln(lock)'].sent}) /\ Belongs(work'.draft, Vuln(lock)')
    BY <1>1, <1>2, <1>6, <1>7, <1>8 DEF Belongs
<1> QED
    BY <1>1, <1>8, <1>9 DEF Bundled, Belongs

LEMMA BundledChoose == ASSUME Inv, Ledger, NEW j \in Jobs, Choose(j) PROVE Bundled'
<1> USE DEF Ledger
<1>1. /\ lock = j /\ step = "choose" /\ UNCHANGED <<bundle, made>>
    BY DEF Choose
<1>2. PICK p \in NextPatch(Vuln(j), work.draft.patch),
           q \in NextPov(Vuln(j), work.draft.pov) :
        LET b == [work.draft EXCEPT !.patch = p, !.pov = q, !.sarif = @ \/ j \in Vulns] IN
          \/ Continue(j, "update", [work EXCEPT !.draft = b, !.own = Of(Vuln(j), Povs)])
          \/ Continue(j, "enqueue", work)
          \/ Finish(j)
    BY DEF Choose
<1> DEFINE b == [work.draft EXCEPT !.patch = p, !.pov = q, !.sarif = @ \/ j \in Vulns]
           w == [work EXCEPT !.draft = b, !.own = Of(Vuln(j), Povs)]
<1>3. PICK v \in Vulns : v = Vuln(j)
    BY <1>1, HolderVuln
<1>4. PICK n : n = bundle[v].sent
    OBVIOUS
<1>5. work.draft \in Bundles({n}) /\ Belongs(work.draft, v)
    BY <1>1, <1>3, <1>4 DEF Bundled
<1>6. /\ p \in Patches \cup {None} /\ q \in Povs \cup {None}
      /\ p # None => VulnOf[p] = v
      /\ q # None => VulnOf[q] = v
      /\ (work.draft.sarif \/ j \in Vulns) \in BOOLEAN
  <2>1. p \in Patches \cup {None} /\ (p # None => VulnOf[p] = v)
      BY <1>3 DEF NextPatch, Of, Known
  <2>2. q \in Povs \cup {None} /\ (q # None => VulnOf[q] = v)
      BY <1>3, <1>5 DEF NextPov, Of, Known, Bundles, Belongs
  <2>3. (work.draft.sarif \/ j \in Vulns) \in BOOLEAN
      BY <1>5 DEF Bundles
  <2> QED
      BY <2>1, <2>2, <2>3
<1>7. b \in Bundles({n}) /\ Belongs(b, v)
  <2> DEFINE r == work.draft.sarif \/ j \in Vulns
  <2>1. b = Redrafted(work.draft, p, q, r)
      BY DEF Redrafted
  <2>2. r \in BOOLEAN
      BY <1>6
  <2> HIDE DEF r, b
  <2> QED
      BY <1>5, <1>6, <2>1, <2>2, RedraftedBundle
<1> HIDE DEF b
<1>8. CASE Continue(j, "update", w)
  <2>1. w = [draft |-> b, resubmit |-> work.resubmit, seen |-> work.seen,
             own |-> Of(Vuln(j), Povs), todo |-> work.todo]
      BY Redecide
  <2>2. w.draft = b
      BY <2>1
  <2> HIDE DEF w
  <2>3. step' = "update" /\ work' = w /\ UNCHANGED <<lock, target>> /\ Vuln(lock)' = Vuln(lock)
      BY <1>8 DEF Continue, Vuln
  <2>4. work'.draft \in Bundles({bundle'[Vuln(lock)'].sent}) /\ Belongs(work'.draft, Vuln(lock)')
      BY <1>1, <1>3, <1>4, <1>7, <2>2, <2>3 DEF Belongs
  <2> QED
      BY <1>1, <2>3, <2>4 DEF Bundled, Belongs
<1>9. CASE Continue(j, "enqueue", work) \/ Finish(j)
  <2>1. step' \in {"enqueue", "none"}
      BY <1>9 DEF Continue, Finish
  <2> QED
      BY <1>1, <2>1, BundledQuiet
<1> QED
    BY <1>2, <1>8, <1>9 DEF b

LEMMA BundledUpdate == ASSUME Inv, Ledger, NEW j \in Jobs, Update(j) PROVE Bundled'
<1> USE DEF Ledger
<1>1. /\ lock = j /\ step = "update" /\ bundle' = [bundle EXCEPT ![Vuln(j)] = work.draft]
      /\ UNCHANGED made /\ step' = "enqueue"
    BY DEF Update, Continue
<1>2. PICK v \in Vulns : v = Vuln(j)
    BY <1>1, HolderVuln
<1>3. /\ work.draft \in Bundles({bundle[v].sent}) /\ Belongs(work.draft, v)
      /\ bundle[v] \in Bundles(0..Len(made[v]))
    BY <1>1, <1>2 DEF Bundled
<1>4. work.draft \in Bundles(0..Len(made[v])) /\ work.draft.sent = bundle[v].sent
    BY <1>3 DEF Bundles
<1>5. \A u \in Vulns : bundle'[u] = IF u = v THEN work.draft ELSE bundle[u]
    BY <1>1, <1>2 DEF Inv, Shapes
<1>6. ASSUME NEW u \in Vulns
      PROVE  /\ bundle'[u] \in Bundles(0..Len(made'[u])) /\ Belongs(bundle'[u], u)
             /\ \A n \in 1..Len(made'[u]) : made'[u][n] = "recorded" => n = bundle'[u].sent
    BY <1>1, <1>3, <1>4, <1>5 DEF Bundled
<1> QED
    BY <1>1, <1>6 DEF Bundled, Belongs, Bundles

\* The steps of a submit job at the bundle.
LEMMA AtSubmission ==
  ASSUME Inv, Ledger, NEW s \in Jobs, lock = s, step \in Submits
  PROVE  /\ s \in Slots /\ target[s] \in Vulns /\ bundle = [w \in Vulns |-> bundle[w]]
         /\ bundle[target[s]] \in Bundles(0..Len(made[target[s]]))
         /\ Belongs(bundle[target[s]], target[s])
         /\ made[target[s]] \in Seq({"posted", "recorded", "deleted"})
         /\ Len(made[target[s]]) \in Nat
<1>1. s \in Slots /\ target[s] \in Vulns
    BY DEF Ledger, Control, Inv, Targeted
<1> QED
    BY <1>1, LenProperties DEF Ledger, Bundled, Inv, Shapes

LEMMA BundledCreate == ASSUME Inv, Ledger, NEW s \in Jobs, CreateBundle(s) PROVE Bundled'
<1> USE DEF Ledger
<1>1. /\ lock = s /\ step = "submit" /\ bundle[target[s]].sent = 0 /\ UNCHANGED bundle
      /\ made' = [made EXCEPT ![target[s]] = Append(made[target[s]], "posted")]
      /\ step' = "created" /\ UNCHANGED <<lock, target>>
    BY DEF CreateBundle, AtBundle, Submitting, Continue
<1>2. PICK v \in Vulns : v = target[s]
    BY <1>1, AtSubmission DEF Submits
<1> DEFINE m == Append(made[v], "posted")
<1>3. /\ bundle[v] \in Bundles(0..Len(made[v])) /\ Belongs(bundle[v], v)
      /\ made[v] \in Seq({"posted", "recorded", "deleted"}) /\ Len(made[v]) \in Nat
      /\ bundle = [w \in Vulns |-> bundle[w]]
    BY <1>1, <1>2, AtSubmission DEF Submits
<1>4. /\ m \in Seq({"posted", "recorded", "deleted"}) /\ Len(m) = Len(made[v]) + 1
      /\ \A n \in 1..Len(made[v]) : m[n] = made[v][n]
      /\ m[Len(made[v]) + 1] = "posted"
    BY <1>3, AppendProperties
<1>5. made' = [made EXCEPT ![v] = m] /\ bundle' = [bundle EXCEPT ![v] = bundle[v]]
    BY <1>1, <1>2, <1>3
<1> HIDE DEF m
<1>6. \A n \in 1..Len(m) : m[n] = "recorded" => n = bundle[v].sent
  <2> TAKE n \in 1..Len(m)
  <2>1. n \in 1..Len(made[v]) \/ n = Len(made[v]) + 1
      BY <1>3, <1>4
  <2> QED
      BY <1>4, <2>1 DEF Bundled
<1>7. bundle[v] \in Bundles(0..Len(m))
    BY <1>3, <1>4 DEF Bundles
<1>8. Len(m) # 0 /\ bundle[v].sent = 0 /\ target'[lock'] = v
    BY <1>1, <1>2, <1>3, <1>4
<1>9. PICK b : b = bundle[v]
    OBVIOUS
<1>10. /\ bundle' = [bundle EXCEPT ![v] = b] /\ b \in Bundles(0..Len(m)) /\ Belongs(b, v)
       /\ \A n \in 1..Len(m) : m[n] = "recorded" => n = b.sent
       /\ b.sent = 0
    BY <1>3, <1>5, <1>6, <1>7, <1>8, <1>9
<1> QED
    BY <1>1, <1>3, <1>4, <1>5, <1>8, <1>10, BundledWrites

LEMMA BundledRecord == ASSUME Inv, Ledger, NEW s \in Jobs, RecordBundle(s) PROVE Bundled'
<1> USE DEF Ledger
<1>1. /\ lock = s /\ step = "created" /\ step' = "none"
      /\ bundle' = [bundle EXCEPT ![target[s]].sent = Len(made[target[s]])]
      /\ made' = [made EXCEPT ![target[s]][Len(made[target[s]])] = "recorded"]
    BY DEF RecordBundle, Leave, Finish
<1>2. PICK v \in Vulns : v = target[s]
    BY <1>1, AtSubmission DEF Submits
<1>3. PICK k : k = Len(made[v])
    OBVIOUS
<1> DEFINE m == [made[v] EXCEPT ![k] = "recorded"] b == Stamped(bundle[v], k)
<1>4. /\ bundle[v] \in Bundles(0..k) /\ Belongs(bundle[v], v)
      /\ made[v] \in Seq({"posted", "recorded", "deleted"}) /\ k \in Nat
      /\ bundle = [w \in Vulns |-> bundle[w]]
    BY <1>1, <1>2, <1>3, AtSubmission DEF Submits
<1>5. bundle[v].sent = 0 /\ k # 0
    BY <1>1, <1>2, <1>3 DEF Bundled
<1>6. /\ m \in Seq({"posted", "recorded", "deleted"}) /\ Len(m) = k
      /\ \A n \in 1..k : m[n] = IF n = k THEN "recorded" ELSE made[v][n]
    BY <1>3, <1>4, <1>5, ExceptSeq
<1>7. made' = [made EXCEPT ![v] = m] /\ bundle' = [bundle EXCEPT ![v] = b]
    BY <1>1, <1>2, <1>3 DEF Stamped
<1>8. b \in Bundles(0..k) /\ b.sent = k /\ Belongs(b, v)
  <2>1. k \in 0..k
      BY <1>4
  <2> QED
      BY <1>4, <2>1, StampedBundle
<1> HIDE DEF m, b
<1>9. \A n \in 1..Len(m) : m[n] = "recorded" => n = b.sent
  <2> TAKE n \in 1..Len(m)
  <2>1. CASE n = k
      BY <1>8, <2>1
  <2>2. CASE n # k
    <3>1. m[n] = made[v][n] /\ n \in 1..Len(made[v]) /\ n # 0
        BY <1>3, <1>4, <1>6, <2>2
    <3> QED
        BY <1>5, <3>1 DEF Bundled
  <2> QED
      BY <2>1, <2>2
<1> QED
    BY <1>1, <1>4, <1>6, <1>7, <1>8, <1>9, BundledWrites

LEMMA BundledForget == ASSUME Inv, Ledger, NEW s \in Jobs, ForgetBundle(s) PROVE Bundled'
<1> USE DEF Ledger
<1>1. /\ lock = s /\ step = "deleted" /\ step' = "none" /\ UNCHANGED made
      /\ bundle' = [bundle EXCEPT ![target[s]].sent = 0]
    BY DEF ForgetBundle, Leave, Finish
<1>2. PICK v \in Vulns : v = target[s]
    BY <1>1, AtSubmission DEF Submits
<1> DEFINE b == Stamped(bundle[v], 0)
<1>3. /\ bundle[v] \in Bundles(0..Len(made[v])) /\ Belongs(bundle[v], v)
      /\ made[v] \in Seq({"posted", "recorded", "deleted"}) /\ Len(made[v]) \in Nat
      /\ bundle = [w \in Vulns |-> bundle[w]]
    BY <1>1, <1>2, AtSubmission DEF Submits
<1>4. made[v][bundle[v].sent] = "deleted"
    BY <1>1, <1>2 DEF Bundled
<1>5. made' = [made EXCEPT ![v] = made[v]] /\ bundle' = [bundle EXCEPT ![v] = b]
    BY <1>1, <1>2 DEF Stamped, Bundled
<1>6. b \in Bundles(0..Len(made[v])) /\ b.sent = 0 /\ Belongs(b, v)
  <2>1. 0 \in 0..Len(made[v])
      BY <1>3
  <2> QED
      BY <1>3, <2>1, StampedBundle
<1> HIDE DEF b
<1>7. \A n \in 1..Len(made[v]) : made[v][n] # "recorded"
    BY <1>4 DEF Bundled
<1> QED
    BY <1>1, <1>3, <1>5, <1>6, <1>7, BundledWrites

\* The API deleted the bundle; the table still has it.
LEMMA BundledDelete ==
  ASSUME Inv, Ledger, NEW s \in Jobs, DeleteBundle(s), Continue(s, "deleted", work) PROVE Bundled'
<1> USE DEF Ledger
<1>1. /\ lock = s /\ step = "submit" /\ step' = "deleted" /\ UNCHANGED <<lock, target>>
      /\ bundle[target[s]].sent # 0
    BY DEF DeleteBundle, AtBundle, Submitting, Continue
<1>2. PICK v \in Vulns : v = target[s]
    BY <1>1, AtSubmission DEF Submits
<1>3. /\ bundle[v] \in Bundles(0..Len(made[v])) /\ Belongs(bundle[v], v)
      /\ made[v] \in Seq({"posted", "recorded", "deleted"}) /\ Len(made[v]) \in Nat
      /\ bundle = [w \in Vulns |-> bundle[w]]
    BY <1>1, <1>2, AtSubmission DEF Submits
<1>4. /\ UNCHANGED bundle
      /\ made' = [made EXCEPT ![target[s]][bundle[target[s]].sent] = "deleted"]
    BY <1>1 DEF DeleteBundle, Restart
<1>5. PICK b : b = bundle[v]
    OBVIOUS
<1> DEFINE m == [made[v] EXCEPT ![b.sent] = "deleted"]
<1>6. /\ b \in Bundles(0..Len(made[v])) /\ Belongs(b, v) /\ b.sent # 0
      /\ bundle' = [bundle EXCEPT ![v] = b]
    BY <1>1, <1>2, <1>3, <1>4, <1>5
<1>7. b.sent \in 1..Len(made[v])
    BY <1>3, <1>6 DEF Bundles
<1>8. /\ m \in Seq({"posted", "recorded", "deleted"}) /\ Len(m) = Len(made[v])
      /\ \A n \in 1..Len(made[v]) : m[n] = IF n = b.sent THEN "deleted" ELSE made[v][n]
    BY <1>3, <1>7, ExceptSeq
<1>9. made' = [made EXCEPT ![v] = m]
    BY <1>2, <1>4, <1>5
<1> HIDE DEF m
<1>10. \A n \in 1..Len(m) : m[n] = "recorded" => n = b.sent
    BY <1>5, <1>8 DEF Bundled
<1>11. m[b.sent] = "deleted" /\ b \in Bundles(0..Len(m)) /\ target'[lock'] = v
    BY <1>1, <1>2, <1>6, <1>7, <1>8
<1> QED
    BY <1>1, <1>3, <1>6, <1>8, <1>9, <1>10, <1>11, BundledWrites

LEMMA BundledStep == ASSUME Inv, Ledger, [Next]_vars PROVE Bundled'
<1> USE DEF Ledger
<1>1. ASSUME \/ \E p \in Patches : StorePatch(p) \/ DelayOver(p) \/ WaitTimeout(p)
             \/ \E q \in Povs : AddPov(q) \/ AssignPov(q)
             \/ \E x \in Products : SubmitProduct(x)
             \/ \E s \in Slots : PollDone(s)
             \/ \E j \in Jobs : EnterPatch(j) /\ MustWait(j)
             \/ UNCHANGED vars
      PROVE  Bundled'
  <2>1. UNCHANGED <<bundle, made, lock, step, work, target>>
      BY <1>1 DEF StorePatch, DelayOver, WaitTimeout, AddPov, AssignPov, SubmitProduct, EnterPatch,
                  PollDone, vars
  <2> QED
      BY <2>1, BundledAside
<1>2. ASSUME NEW j \in Jobs, EnterPov(j) \/ EnterReview(j) \/ (EnterPatch(j) /\ ~MustWait(j))
      PROVE  Bundled'
  <2>1. UNCHANGED <<bundle, made>> /\ step' \in {"testing", "review"}
      BY <1>2 DEF EnterPov, EnterReview, EnterPatch, Hold
  <2> QED
      BY <2>1, BundledQuiet
<1>3. ASSUME NEW v \in Vulns, EnterAny(v) PROVE Bundled'
  <2>1. UNCHANGED <<bundle, made>> /\ step' = "submit"
      BY <1>3 DEF EnterAny, EnterSubmit, Hold
  <2> QED
      BY <2>1, BundledQuiet
<1>4. ASSUME NEW j \in Jobs,
             Test(j) \/ Enqueue(j) \/ Post(j) \/ Record(j) \/ PollAgain(j) \/ NoBundle(j)
      PROVE  Bundled'
  <2>1. UNCHANGED <<bundle, made>> /\ step' \in {"none", "review", "submit", "record"}
      BY <1>4 DEF Test, Enqueue, Post, Record, PollAgain, NoBundle, Submitting, AtBundle, Leave,
                  Finish, Continue
  <2> QED
      BY <2>1, BundledQuiet
<1>5. ASSUME NEW j \in Jobs, Restart(j) PROVE Bundled'
  <2>1. CASE lock = j
    <3>1. UNCHANGED <<bundle, made>> /\ step' = "none"
        BY <1>5, <2>1 DEF Restart
    <3> QED
        BY <3>1, BundledQuiet
  <2>2. CASE lock # j
    <3>1. UNCHANGED <<bundle, made, lock, step, work>> /\ target' = Without(target, j)
        BY <1>5, <2>2 DEF Restart
    <3> QED
        BY <2>2, <3>1, BundledAside DEF Without
  <2> QED
      BY <2>1, <2>2
<1>6. ASSUME NEW j \in Jobs, UpdateBundle(j) \/ Fault(j) PROVE Bundled'
    BY <1>5, <1>6 DEF UpdateBundle, Fault
<1>7. ASSUME NEW j \in Jobs, DeleteBundle(j) PROVE Bundled'
    BY <1>5, <1>7, BundledDelete DEF DeleteBundle
<1>8. CASE Crash
  <2>1. UNCHANGED <<bundle, made>> /\ step' = "none"
      BY <1>8 DEF Crash
  <2> QED
      BY <2>1, BundledQuiet
<1> QED
    BY <1>1, <1>2, <1>3, <1>4, <1>6, <1>7, <1>8, BundledReview, BundledChoose, BundledUpdate,
       BundledCreate, BundledRecord, BundledForget DEF Next, Enter, HolderStep

-----------------------------------------------------------------------------
LEMMA LedgerStep == ASSUME Inv, Ledger, [Next]_vars PROVE Ledger'
  BY ControlStep, TestedStep, RowsStep, PollingStep, DrawnStep, BundledStep DEF Ledger

\* The ledger is kept for any number of vulnerabilities, products, jobs, crashes and failing
\* calls: crs/app/app.py (bundle_*, maybe_update_bundle, submit_bundle), submitter.py.
THEOREM LedgerIsKept == Spec => [](Inv /\ Ledger)
<1>1. Init => Inv /\ Ledger
    BY InitInv, LedgerInit
<1>2. Inv /\ Ledger /\ [Next]_vars => Inv' /\ Ledger'
    BY NextInv, LedgerStep
<1> QED
    BY <1>1, <1>2, PTL DEF Spec

\* From the ledger: the rows, the condition and the polls agree.
LEMMA ConsistentLedger == ASSUME Inv, Ledger PROVE Consistent
<1> USE DEF Ledger
<1>1. \A v \in Vulns : bundle[v] \in [patch : Patches \cup {None}, pov : Povs \cup {None},
                                     sarif : BOOLEAN, sent : 0..Len(made[v])]
    BY DEF Bundled, Bundles
<1>2. ASSUME NEW x \in Products
      PROVE  /\ row[x] \in Seq(Status \cup {"unknown"})
             /\ {sub[x], saved[x]} \subseteq 0..Len(row[x])
             /\ \A n \in {sub[x], saved[x]} \ {0} : row[x][n] # "unknown"
  <2>1. row[x] \in Seq(Status \cup {"unknown"}) /\ Len(row[x]) \in Nat
      BY AnswersAreNatural DEF Rows
  <2> QED
      BY <2>1 DEF Rows, Answered
<1>3. TypeOK
    BY <1>1, <1>2 DEF TypeOK, Control, Tested
<1>4. ASSUME NEW s \in Slots, NEW poll \in polls[s]
      PROVE  pc[s] \in {"holding", "polling"} /\ Vuln(poll[1]) = target[s]
  <2>1. s \in Jobs /\ poll[1] \in Patches \cup Povs /\ VulnOf[poll[1]] = target[s]
      BY DEF Polling, Jobs
  <2>2. pc[s] = "holding" \/ pc[s] = "polling"
      BY <2>1 DEF Polling, Control
  <2>3. Vuln(poll[1]) = VulnOf[poll[1]]
      BY <2>1, Kinds DEF Vuln, Products
  <2> QED
      BY <2>1, <2>2, <2>3
<1> QED
    BY <1>2, <1>3, <1>4 DEF Consistent, Control

LEMMA AccountedLedger == ASSUME Inv, Ledger PROVE Accounted
<1>1. ASSUME NEW x \in Products
      PROVE  Cardinality({n \in 1..Len(row[x]) : row[x][n] # "unknown"}) <= 1 + clears[x]
  <2>1. Answers(x) \in Nat /\ clears[x] \in Nat /\ Answers(x) <= clears[x] + 1
      BY AnswersAreNatural DEF Ledger, Rows
  <2> QED
      BY <2>1 DEF Answers, Answered
<1> QED
    BY <1>1, ConsistentLedger DEF Accounted, SubmissionsAccounted, Ledger, Bundled

\* Nothing is submitted twice without a reason, and the rows, the condition and the polls agree
\* (submit_bundle, maybe_update_bundle, Submitter).
THEOREM NothingIsSubmittedTwice == Spec => []Accounted
<1>1. Inv /\ Ledger => Accounted
    BY AccountedLedger
<1> QED
    BY <1>1, LedgerIsKept, PTL
-----------------------------------------------------------------------------
(***************************************************************************)
(* A product that is not submitted has a job.                              *)
(***************************************************************************)
\* The job that has the condition will see to the submission of x.
Attended(v, x) ==
  /\ lock # None /\ Vuln(lock) = v
  /\ \/ step = "enqueue"
     \/ step \in {"choose", "update"} /\ work.resubmit
     \/ step \in {"submit", "record"} /\ x \in work.todo

\* The bundle of v has x, which is to be submitted.
Owed(v, x) == x \in Content(v) /\ sub[x] = 0 /\ ~missed

LEMMA OwedHaveJobs ==
  ProductsHaveJobs <=> \A x : \A v \in Vulns : Owed(v, x) => pending[v] > 0 \/ Attended(v, x)
  BY DEF ProductsHaveJobs, Owed, Attended

LEMMA OwedHaveJobsPrimed ==
  ASSUME \A x : \A v \in Vulns : Owed(v, x)' => pending'[v] > 0 \/ Attended(v, x)'
  PROVE  ProductsHaveJobs'
  BY DEF ProductsHaveJobs, Owed, Attended

\* Steps that leave no product unattended.
LEMMA JobsKept ==
  ASSUME ProductsHaveJobs,
         \A x : \A v \in Vulns : Owed(v, x)' => Owed(v, x),
         \A v \in Vulns : pending[v] > 0 => pending'[v] > 0,
         \A x : \A v \in Vulns : Owed(v, x)' /\ Attended(v, x) => pending'[v] > 0 \/ Attended(v, x)'
  PROVE  ProductsHaveJobs'
  BY OwedHaveJobs, OwedHaveJobsPrimed

LEMMA OwedKept ==
  ASSUME UNCHANGED <<bundle, sub, missed>>
  PROVE  \A v, x : Owed(v, x)' <=> Owed(v, x)
  BY DEF Owed, Content

\* The holder, if there is one, keeps its place.
LEMMA JobsAside ==
  ASSUME ProductsHaveJobs, \A x : \A v \in Vulns : Owed(v, x)' => Owed(v, x),
         \A v \in Vulns : pending[v] > 0 => pending'[v] > 0,
         UNCHANGED <<lock, step, work>>, lock \in Slots => target'[lock] = target[lock]
  PROVE  ProductsHaveJobs'
<1>1. \A x : \A v \in Vulns : Attended(v, x) => Attended(v, x)'
    BY DEF Attended, Vuln
<1> QED
    BY <1>1, JobsKept

\* A step at which the holder, if there is one, does not see to a submission.
LEMMA JobsUnattended ==
  ASSUME ProductsHaveJobs, UNCHANGED <<bundle, sub, missed>>,
         \A v \in Vulns : pending[v] > 0 => pending'[v] > 0,
         \/ lock = None
         \/ step \in {"testing", "review", "created", "deleted"}
         \/ step = "submit" /\ work.todo = {}
  PROVE  ProductsHaveJobs'
<1>1. \A x : \A v \in Vulns : ~Attended(v, x)
    BY DEF Attended
<1> QED
    BY <1>1, OwedKept, JobsKept

LEMMA SlotVuln ==
  ASSUME NEW s \in Slots PROVE Vuln(s) = target[s] /\ Vuln(s)' = target'[s]
<1>0. s \notin Vulns
    BY Kinds DEF Products
<1>1. Vuln(s) = target[s]
    BY <1>0, Zenon DEF Vuln
<1>2. Vuln(s)' = target'[s]
    BY <1>0, Zenon DEF Vuln
<1> QED
    BY <1>1, <1>2

LEMMA Redrawn ==
  ASSUME NEW r, NEW d PROVE [Idle EXCEPT !.resubmit = r, !.draft = d].resubmit = r
<1> DEFINE u == [Idle EXCEPT !.resubmit = r] w == [u EXCEPT !.draft = d]
<1>0. PICK n, b, e, g, t : Idle = [draft |-> n, resubmit |-> b, seen |-> e, own |-> g, todo |-> t]
    BY DEF Idle
<1>1. u = [draft |-> n, resubmit |-> r, seen |-> e, own |-> g, todo |-> t]
    BY <1>0
<1> HIDE DEF u
<1>2. w = [draft |-> d, resubmit |-> r, seen |-> e, own |-> g, todo |-> t]
    BY <1>1
<1> HIDE DEF w
<1>3. w.resubmit = r
    BY <1>2
<1>4. w = [Idle EXCEPT !.resubmit = r, !.draft = d]
    BY DEF u, w
<1> QED
    BY <1>3, <1>4

LEMMA Drew ==
  ASSUME NEW d, NEW S PROVE [Idle EXCEPT !.draft = d, !.todo = S].todo = S
<1> DEFINE u == [Idle EXCEPT !.draft = d] w == [u EXCEPT !.todo = S]
<1>0. PICK n, b, e, g, t : Idle = [draft |-> n, resubmit |-> b, seen |-> e, own |-> g, todo |-> t]
    BY DEF Idle
<1>1. u = [draft |-> d, resubmit |-> b, seen |-> e, own |-> g, todo |-> t]
    BY <1>0
<1> HIDE DEF u
<1>2. w = [draft |-> d, resubmit |-> b, seen |-> e, own |-> g, todo |-> S]
    BY <1>1
<1> HIDE DEF w
<1>3. w.todo = S
    BY <1>2
<1>4. w = [Idle EXCEPT !.draft = d, !.todo = S]
    BY DEF u, w
<1> QED
    BY <1>3, <1>4

LEMMA JobsReview ==
  ASSUME Inv, Ledger, ProductsHaveJobs, NEW j \in Jobs, Review(j) PROVE ProductsHaveJobs'
<1> DEFINE b == bundle[Vuln(j)]
           errored == {x \in {b.patch, b.pov} : StatusOf(x) = "errored"}
           patch == IF StatusOf(b.patch) = "failed" THEN None ELSE b.patch
           pov == IF StatusOf(b.pov) = "failed" THEN None ELSE b.pov
           draft == [b EXCEPT !.patch = patch, !.pov = pov]
           w == [Idle EXCEPT !.resubmit = Resubmit(errored), !.draft = draft]
<1>1. /\ lock = j /\ step = "review" /\ UNCHANGED <<bundle, missed, pending>>
      /\ sub' = [x \in Products |-> IF x \in errored THEN 0 ELSE sub[x]]
      /\ Continue(j, "choose", w)
    BY DEF Review, Continue
<1>2. PICK v \in Vulns : v = Vuln(j)
    BY <1>1, HolderVuln
<1>3. b \in Bundles(0..Len(made[v])) /\ Belongs(b, v)
    BY <1>2 DEF Ledger, Bundled
<1>4. \A x \in errored : x \in Patches \cup Povs /\ VulnOf[x] = v
    BY <1>3 DEF Bundles, Belongs, StatusOf
<1>5. errored # {} => w.resubmit
  <2>1. w.resubmit = Resubmit(errored)
    <3> HIDE DEF draft, errored
    <3> QED
        BY Redrawn, Zenon
  <2> HIDE DEF w, errored
  <2> QED
      BY <2>1 DEF Resubmit
<1> HIDE DEF errored, w
<1>6. step' = "choose" /\ work' = w /\ UNCHANGED <<lock, target>> /\ Vuln(lock)' = Vuln(lock)
    BY <1>1 DEF Continue, Vuln
<1>7. ASSUME NEW u \in Vulns, NEW x, Owed(u, x)'
      PROVE  pending'[u] > 0 \/ Attended(u, x)'
  <2>1. x \in Content(u) /\ sub'[x] = 0 /\ ~missed
      BY <1>1, <1>7 DEF Owed, Content
  <2>2. x \in Products /\ (x = u \/ (x \in Patches \cup Povs /\ VulnOf[x] = u))
      BY <2>1, ContentOf DEF Ledger
  <2>3. CASE x \in errored
    <3>1. u = v
        BY <1>4, <2>2, <2>3, Kinds
    <3>2. work'.resubmit /\ lock' # None
        BY <1>1, <1>5, <1>6, <2>3, Kinds
    <3> QED
        BY <1>1, <1>2, <1>6, <3>1, <3>2 DEF Attended
  <2>4. CASE x \notin errored
    <3>1. Owed(u, x) /\ ~Attended(u, x)
        BY <1>1, <2>1, <2>2, <2>4 DEF Owed, Attended
    <3> QED
        BY <1>1, <3>1, OwedHaveJobs
  <2> QED
      BY <2>3, <2>4
<1> QED
    BY <1>7, OwedHaveJobsPrimed

LEMMA JobsChoose ==
  ASSUME Inv, Ledger, ProductsHaveJobs, NEW j \in Jobs, Choose(j) PROVE ProductsHaveJobs'
<1>1. /\ lock = j /\ step = "choose" /\ UNCHANGED <<bundle, sub, missed>>
    BY DEF Choose
<1>2. PICK p, q :
        LET b == [work.draft EXCEPT !.patch = p, !.pov = q, !.sarif = @ \/ j \in Vulns] IN
          \/ Continue(j, "update", [work EXCEPT !.draft = b, !.own = Of(Vuln(j), Povs)])
          \/ work.resubmit /\ Continue(j, "enqueue", work)
          \/ ~work.resubmit /\ Finish(j)
    BY DEF Choose
<1> DEFINE b == [work.draft EXCEPT !.patch = p, !.pov = q, !.sarif = @ \/ j \in Vulns]
           w == [work EXCEPT !.draft = b, !.own = Of(Vuln(j), Povs)]
<1> HIDE DEF b
<1>3. w.resubmit = work.resubmit
  <2>1. w = [draft |-> b, resubmit |-> work.resubmit, seen |-> work.seen,
             own |-> Of(Vuln(j), Povs), todo |-> work.todo]
      BY Redecide
  <2> QED
      BY <2>1
<1> HIDE DEF w
<1>4. UNCHANGED pending
    BY <1>2 DEF Continue, Finish
<1>5. CASE Continue(j, "update", w) \/ (work.resubmit /\ Continue(j, "enqueue", work))
  <2>1. UNCHANGED <<lock, target>> /\ Vuln(lock)' = Vuln(lock)
      BY <1>5 DEF Continue, Vuln
  <2>2. (step' = "update" /\ work'.resubmit = work.resubmit) \/ step' = "enqueue"
      BY <1>3, <1>5 DEF Continue
  <2>3. \A x : \A v \in Vulns : Attended(v, x) => Attended(v, x)'
      BY <1>1, <2>1, <2>2 DEF Attended
  <2> QED
      BY <1>1, <1>4, <2>3, OwedKept, JobsKept
<1>6. CASE ~work.resubmit
  <2>1. \A x : \A v \in Vulns : ~Attended(v, x)
      BY <1>1, <1>6 DEF Attended
  <2> QED
      BY <1>1, <1>4, <2>1, OwedKept, JobsKept
<1> QED
    BY <1>2, <1>5, <1>6 DEF b, w

LEMMA JobsUpdate ==
  ASSUME Inv, Ledger, ProductsHaveJobs, NEW j \in Jobs, Update(j) PROVE ProductsHaveJobs'
<1>1. /\ lock = j /\ step = "update" /\ bundle' = [bundle EXCEPT ![Vuln(j)] = work.draft]
      /\ UNCHANGED <<sub, missed, pending, lock, target>> /\ step' = "enqueue"
    BY DEF Update, Continue
<1>2. Vuln(lock)' = Vuln(lock) /\ lock # None
    BY <1>1, Kinds DEF Vuln
<1>3. ASSUME NEW v \in Vulns, NEW x, Owed(v, x)'
      PROVE  pending'[v] > 0 \/ Attended(v, x)'
  <2>1. CASE v = Vuln(j)
      BY <1>1, <1>2, <2>1 DEF Attended
  <2>2. CASE v # Vuln(j)
    <3>1. bundle'[v] = bundle[v]
        BY <1>1, <2>2 DEF Inv, Shapes
    <3>2. Owed(v, x) /\ ~Attended(v, x)
        BY <1>1, <1>3, <2>2, <3>1 DEF Owed, Content, Attended
    <3> QED
        BY <1>1, <3>2, OwedHaveJobs
  <2> QED
      BY <2>1, <2>2
<1> QED
    BY <1>3, OwedHaveJobsPrimed

LEMMA JobsEnqueue ==
  ASSUME Inv, Ledger, ProductsHaveJobs, NEW j \in Jobs, Enqueue(j) PROVE ProductsHaveJobs'
<1>1. /\ lock = j /\ UNCHANGED <<bundle, sub, missed>>
      /\ pending' = [pending EXCEPT ![Vuln(j)] = @ + 1] /\ pending \in [Vulns -> Nat]
    BY DEF Enqueue, Ledger, Control
<1>2. PICK v \in Vulns : v = Vuln(j)
    BY <1>1, HolderVuln
<1>3. \A u \in Vulns : pending[u] \in Nat /\ pending'[u] = IF u = v THEN pending[u] + 1 ELSE pending[u]
    BY <1>1, <1>2
<1>4. \A x : \A u \in Vulns : Attended(u, x) => pending'[u] > 0
    BY <1>1, <1>2, <1>3 DEF Attended
<1> QED
    BY <1>1, <1>3, <1>4, OwedKept, JobsKept

LEMMA JobsEnter ==
  ASSUME Inv, Ledger, ProductsHaveJobs, NEW v \in Vulns, EnterAny(v) PROVE ProductsHaveJobs'
<1> DEFINE S == {x \in Content(v) : \/ StatusOf(x) = "none"
                                    \/ x \notin Vulns /\ StatusOf(x) = "accepted"}
           w == [Idle EXCEPT !.draft = sub, !.todo = S]
<1>1. PICK s \in Slots : s = CHOOSE k \in FreeSlots : TRUE
    BY DEF EnterAny, FreeSlots
<1>2. /\ lock = None /\ pending' = [pending EXCEPT ![v] = @ - 1]
      /\ target' = [target EXCEPT ![s] = v] /\ Hold(s, "submit", w)
      /\ UNCHANGED <<bundle, sub, missed>>
    BY <1>1 DEF EnterAny, EnterSubmit
<1>3. w.todo = S
  <2> HIDE DEF S
  <2> QED
      BY Drew, Zenon
<1> HIDE DEF w
<1>4. lock' = s /\ step' = "submit" /\ work'.todo = S
    BY <1>2, <1>3 DEF Hold
<1>5. target'[s] = v /\ s # None
    BY <1>1, <1>2, Kinds DEF Inv, Shapes, Jobs
<1>6. ASSUME NEW u \in Vulns, NEW x, Owed(u, x)'
      PROVE  pending'[u] > 0 \/ Attended(u, x)'
  <2>1. Owed(u, x) /\ x \in Products
      BY <1>2, <1>6, OwedKept, ContentOf DEF Owed, Ledger
  <2>2. CASE u = v
    <3>1. x \in S
        BY <2>1, <2>2, Kinds DEF Owed, StatusOf, Jobs
    <3> QED
        BY <1>1, <1>4, <1>5, <2>2, <3>1, SlotVuln DEF Attended
  <2>3. CASE u # v
    <3>1. pending'[u] = pending[u] /\ ~Attended(u, x)
        BY <1>2, <2>3 DEF Ledger, Control, Attended
    <3> QED
        BY <2>1, <3>1, OwedHaveJobs
  <2> QED
      BY <2>2, <2>3
<1> QED
    BY <1>6, OwedHaveJobsPrimed

LEMMA JobsRecord ==
  ASSUME Inv, Ledger, ProductsHaveJobs, NEW s \in Jobs, Record(s) \/ PollAgain(s)
  PROVE  ProductsHaveJobs'
<1>1. /\ step \in {"submit", "record"} /\ step' = "submit" /\ work' = Rest
      /\ UNCHANGED <<lock, target, pending, bundle, missed>>
    BY DEF Record, PollAgain, Submitting
<1>2. work'.todo = work.todo \ {Next1}
    BY <1>1, RestOf
<1>3. \A x \in Products : sub'[x] = 0 => sub[x] = 0 /\ x # Next1
  <2>1. CASE Record(s)
    <3> DEFINE n(x) == Len(row[x])
    <3>1. PICK x \in Products : x = Next1 /\ n(x) \in 1..Len(row[x]) /\ Put(x, n(x), "accepted")
        BY <2>1, RecordAnswers
    <3>2. n(x) # 0
        BY <3>1, AnswersAreNatural DEF Ledger, Rows
    <3> HIDE DEF n
    <3>3. sub'[x] = n(x) /\ \A y \in Products : y # x => sub'[y] = sub[y]
        BY <3>1, PutAnswers DEF Status, Ledger
    <3> QED
        BY <3>1, <3>2, <3>3
  <2>2. CASE PollAgain(s)
    <3>1. /\ lock = s /\ step = "submit" /\ work.todo # {} /\ work.draft[Next1] # 0 /\ UNCHANGED sub
        BY <2>2 DEF PollAgain, Submitting
    <3>2. Next1 \in Products
        BY <3>1, NextOne
    <3>3. sub[Next1] # 0
        BY <3>1, <3>2 DEF Ledger, Drawn
    <3> QED
        BY <3>1, <3>3
  <2> QED
      BY <2>1, <2>2
<1>4. ASSUME NEW v \in Vulns, NEW x, Owed(v, x)'
      PROVE  Owed(v, x) /\ (Attended(v, x) => Attended(v, x)')
  <2>1. x \in Content(v) /\ sub'[x] = 0 /\ ~missed
      BY <1>1, <1>4 DEF Owed, Content
  <2>2. x \in Products
      BY <2>1, ContentOf DEF Ledger
  <2>3. Vuln(lock)' = Vuln(lock)
      BY <1>1 DEF Vuln
  <2> QED
      BY <1>1, <1>2, <1>3, <2>1, <2>2, <2>3 DEF Owed, Attended
<1> QED
    BY <1>1, <1>4, JobsKept

LEMMA JobsRestart ==
  ASSUME Inv, Ledger, ProductsHaveJobs, NEW j \in Jobs, Restart(j), UNCHANGED missed,
         lock = j => j \in Slots \/ step = "testing"
  PROVE  ProductsHaveJobs'
<1>1. /\ UNCHANGED <<bundle, sub, missed>> /\ pending \in [Vulns -> Nat]
      /\ pending' = [v \in Vulns |-> pending[v] + IF j \in Slots /\ target[j] = v THEN 1 ELSE 0]
    BY DEF Restart, Ledger, Control
<1>2. \A v \in Vulns : pending[v] \in Nat
    BY <1>1
<1>3. \A v \in Vulns : /\ pending[v] > 0 => pending'[v] > 0
                       /\ j \in Slots /\ target[j] = v => pending'[v] > 0
    BY <1>1, <1>2
<1>4. CASE lock # j
  <2>1. UNCHANGED <<lock, step, work>> /\ target' = Without(target, j)
      BY <1>4 DEF Restart
  <2>2. lock \in Slots => target'[lock] = target[lock]
      BY <1>4, <2>1 DEF Without
  <2> QED
      BY <1>1, <1>3, <2>1, <2>2, OwedKept, JobsAside
<1>5. CASE lock = j
  <2>1. CASE j \in Slots
    <3>1. \A x : \A v \in Vulns : Attended(v, x) => pending'[v] > 0
        BY <1>3, <1>5, <2>1, SlotVuln DEF Attended
    <3> QED
        BY <1>1, <1>3, <3>1, OwedKept, JobsKept
  <2>2. CASE step = "testing"
      BY <1>1, <1>3, <2>2, JobsUnattended
  <2> QED
      BY <1>5, <2>1, <2>2
<1> QED
    BY <1>4, <1>5

LEMMA JobsCrash == ASSUME Inv, Ledger, ProductsHaveJobs, Crash PROVE ProductsHaveJobs'
<1> DEFINE Running(v) == {s \in Slots : target[s] = v}
<1>1. /\ UNCHANGED bundle /\ sub' = saved /\ pending \in [Vulns -> Nat]
      /\ pending' = [v \in Vulns |-> pending[v] + Cardinality(Running(v))]
      /\ missed' = (missed \/ (lock \in Products /\ step \in {"choose", "update", "enqueue"}))
    BY DEF Crash, Ledger, Control
<1>2. \A v \in Vulns : /\ pending[v] \in Nat /\ Cardinality(Running(v)) \in Nat
                       /\ IsFiniteSet(Running(v))
  <2>1. \A v \in Vulns : IsFiniteSet(Running(v))
      BY BundlingAssumption, FS_Subset
  <2> QED
      BY <1>1, <2>1, FS_CardinalityType
<1>3. ASSUME NEW v \in Vulns, NEW s \in Slots, target[s] = v PROVE pending'[v] > 0
  <2>1. Cardinality(Running(v)) # 0
      BY <1>2, <1>3, FS_EmptySet
  <2> HIDE DEF Running
  <2> QED
      BY <1>1, <1>2, <2>1
<1>4. \A v \in Vulns : pending[v] > 0 => pending'[v] > 0
  <2> HIDE DEF Running
  <2> QED
      BY <1>1, <1>2
<1>5. ASSUME NEW v \in Vulns, NEW x, Owed(v, x)'
      PROVE  Owed(v, x) /\ (Attended(v, x) => pending'[v] > 0)
  <2>1. x \in Content(v) /\ saved[x] = 0 /\ ~missed'
      BY <1>1, <1>5 DEF Owed, Content
  <2>2. x \in Products
      BY <2>1, ContentOf DEF Ledger
  <2>3. sub[x] = 0
      BY <2>1, <2>2 DEF Ledger, Rows
  <2>4. Owed(v, x)
      BY <1>1, <2>1, <2>3 DEF Owed
  <2>5. ASSUME Attended(v, x) PROVE pending'[v] > 0
    <3>1. lock \in Slots
        BY <1>1, <2>1, <2>5 DEF Attended, Ledger, Control, Submits, Jobs
    <3> QED
        BY <1>3, <2>5, <3>1, SlotVuln DEF Attended
  <2> QED
      BY <2>4, <2>5
<1> QED
    BY <1>4, <1>5, JobsKept

LEMMA JobsStep == ASSUME Inv, Ledger, ProductsHaveJobs, [Next]_vars PROVE ProductsHaveJobs'
<1>1. ASSUME \/ \E p \in Patches : StorePatch(p) \/ DelayOver(p) \/ WaitTimeout(p)
             \/ \E q \in Povs : AddPov(q) \/ AssignPov(q)
             \/ \E x \in Products : SubmitProduct(x)
             \/ \E j \in Jobs : EnterPatch(j) /\ MustWait(j)
             \/ UNCHANGED vars
      PROVE  ProductsHaveJobs'
  <2>1. UNCHANGED <<bundle, sub, missed, pending, lock, step, work, target>>
      BY <1>1 DEF StorePatch, DelayOver, WaitTimeout, AddPov, AssignPov, SubmitProduct,
                   EnterPatch, vars
  <2> QED
      BY <2>1, OwedKept, JobsAside
<1>2. ASSUME NEW j \in Jobs, EnterPov(j) \/ EnterReview(j) \/ (EnterPatch(j) /\ ~MustWait(j))
      PROVE  ProductsHaveJobs'
  <2>1. lock = None /\ UNCHANGED <<bundle, sub, missed, pending>>
      BY <1>2 DEF EnterPov, EnterReview, EnterPatch, Hold
  <2> QED
      BY <2>1, JobsUnattended
<1>3. ASSUME NEW j \in Jobs, Test(j) \/ CreateBundle(j) \/ NoBundle(j) PROVE ProductsHaveJobs'
  <2>1. /\ UNCHANGED <<bundle, sub, missed, pending>>
        /\ step = "testing" \/ (step = "submit" /\ work.todo = {})
      BY <1>3 DEF Test, CreateBundle, NoBundle, AtBundle, Submitting, Leave, Finish, Continue
  <2> QED
      BY <2>1, JobsUnattended
<1>4. ASSUME NEW j \in Jobs, Post(j) PROVE ProductsHaveJobs'
  <2>1. /\ UNCHANGED <<bundle, sub, missed, pending, lock, work, target>>
        /\ step = "submit" /\ step' = "record"
      BY <1>4 DEF Post, Submitting, Continue
  <2>2. Vuln(lock)' = Vuln(lock)
      BY <2>1 DEF Vuln
  <2>3. \A x : \A v \in Vulns : Attended(v, x) => Attended(v, x)'
      BY <2>1, <2>2 DEF Attended
  <2> QED
      BY <2>1, <2>3, OwedKept, JobsKept
<1>5. ASSUME NEW j \in Jobs, RecordBundle(j) \/ ForgetBundle(j) PROVE ProductsHaveJobs'
  <2>1. step \in {"created", "deleted"} /\ lock = j /\ UNCHANGED <<sub, missed, pending>>
      BY <1>5 DEF RecordBundle, ForgetBundle, Leave, Finish
  <2>2. PICK u \in Vulns : u = target[j]
      BY <2>1, AtSubmission DEF Submits
  <2>3. PICK n : bundle' = [bundle EXCEPT ![u] = Stamped(bundle[u], n)]
      BY <1>5, <2>2 DEF RecordBundle, ForgetBundle, Stamped
  <2>4. \A v \in Vulns : /\ bundle'[v].patch = bundle[v].patch /\ bundle'[v].pov = bundle[v].pov
                         /\ bundle'[v].sarif = bundle[v].sarif
      BY <2>3 DEF Inv, Shapes, IsBundle, Stamped
  <2>5. \A x : \A v \in Vulns : Owed(v, x)' => Owed(v, x)
      BY <2>1, <2>4 DEF Owed, Content
  <2>6. \A x : \A v \in Vulns : ~Attended(v, x)
      BY <2>1 DEF Attended
  <2> QED
      BY <2>1, <2>5, <2>6, JobsKept
<1>6. ASSUME NEW j \in Jobs, UpdateBundle(j) \/ DeleteBundle(j) PROVE ProductsHaveJobs'
  <2>1. /\ step = "submit" /\ work.todo = {} /\ j \in Slots /\ lock = j /\ UNCHANGED missed
        /\ Restart(j) \/ Continue(j, "deleted", work)
        /\ UNCHANGED <<bundle, sub>>
      BY <1>6 DEF UpdateBundle, DeleteBundle, AtBundle, Submitting, Restart
  <2>2. CASE Restart(j)
      BY <2>1, <2>2, JobsRestart
  <2>3. CASE Continue(j, "deleted", work)
    <3>1. UNCHANGED pending
        BY <2>3 DEF Continue
    <3> QED
        BY <2>1, <3>1, JobsUnattended
  <2> QED
      BY <2>1, <2>2, <2>3
<1>7. ASSUME NEW j \in Jobs, Fault(j) PROVE ProductsHaveJobs'
  <2>1. Restart(j) /\ UNCHANGED missed
      BY <1>7 DEF Fault, Restart
  <2>2. lock = j => j \in Slots \/ step = "testing"
      BY <1>7 DEF Fault, Ledger, Control, Submits
  <2> QED
      BY <2>1, <2>2, JobsRestart
<1>8. ASSUME NEW s \in Slots, PollDone(s) PROVE ProductsHaveJobs'
  <2>1. PICK x \in Products, n \in Nat, status \in Status : n \in 1..Len(row[x]) /\ Put(x, n, status)
      BY <1>8, PollAnswers
  <2>2. n # 0 /\ sub'[x] = n /\ \A y \in Products : y # x => sub'[y] = sub[y]
      BY <2>1, AnswersAreNatural, PutAnswers DEF Ledger, Rows
  <2>3. UNCHANGED <<bundle, missed, pending, lock, step, work, target>>
      BY <1>8 DEF PollDone
  <2>4. \A y : \A v \in Vulns : Owed(v, y)' => y \in Products
      BY <2>3, ContentOf DEF Owed, Content, Ledger
  <2>5. \A y : \A v \in Vulns : Owed(v, y)' => Owed(v, y)
      BY <2>2, <2>3, <2>4 DEF Owed, Content
  <2> QED
      BY <2>3, <2>5, JobsAside
<1> QED
    BY <1>1, <1>2, <1>3, <1>4, <1>5, <1>6, <1>7, <1>8, JobsReview, JobsChoose, JobsUpdate,
       JobsEnqueue, JobsEnter, JobsRecord, JobsCrash DEF Next, Enter, HolderStep

\* Neither a test of a patch nor a submission is left without a job that will do it, whatever
\* calls fail and whenever the process dies outside the named window (bundle_pov, bundle_patch,
\* maybe_update_bundle, submit_bundle).
THEOREM NothingIsLeftUndone == Spec => []NothingLeftUndone
<1>1. Init => ProductsHaveJobs
    BY DEF Init, ProductsHaveJobs, Content, Empty
<1>2. Inv /\ Ledger /\ ProductsHaveJobs /\ [Next]_vars => ProductsHaveJobs'
    BY JobsStep
<1>3. Spec => []ProductsHaveJobs
    BY <1>1, <1>2, LedgerIsKept, PTL DEF Spec
<1> QED
    BY <1>3, NoPairGoesUntested, PTL DEF NothingLeftUndone
=============================================================================
