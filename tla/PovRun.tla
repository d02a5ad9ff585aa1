-------------------------------- MODULE PovRun --------------------------------
(***************************************************************************)
(* Does a POV crash a set of builds?  run_pov_first_crash and              *)
(* run_povs_post_acquire of crs/modules/project.py, and what               *)
(* _test_povs_on_patch of crs/app/helpers.py concludes from it.            *)
(*                                                                         *)
(* All builds run the POV at once, the first with a head start of five     *)
(* seconds; the first crash decides and ends the others.  A crash is run   *)
(* again on the builds from before the diff, if there are any.             *)
(***************************************************************************)
EXTENDS Integers, FiniteSets

CONSTANTS
  HeadBuilds, BaseBuilds,  \* builds
  Outcomes     \* of a run: among "crash", "clean", "hangs" and "fails"

\* The builds with the diff and those without it are of different sources.
PovRunAssumption == HeadBuilds \cap BaseBuilds = {}

VARIABLES
  truth,    \* what each build would do with the POV
  based,    \* are there builds from before the diff?
  missing,  \* the tar of a build of the patch is gone
  phase,    \* "head", "base", "done"
  first,    \* the build with the head start, until it is over
  tasks,    \* runs under way
  verdict

povVars == <<truth, based, missing, phase, first, tasks, verdict>>

First == CHOOSE b \in HeadBuilds : TRUE

Init ==
  /\ truth \in [HeadBuilds \union BaseBuilds -> Outcomes]
  /\ based \in BOOLEAN /\ missing \in BOOLEAN
  /\ phase = "head" /\ first = First /\ tasks = HeadBuilds
  /\ verdict = "none"

(***************************************************************************)
(* One run ends, or is cut off at the timeout.  The containers of the head *)
(* builds are gone when the base builds run, although they are still in    *)
(* the list: those runs fail.                                              *)
(***************************************************************************)
Result(b) == IF phase = "base" /\ b \in HeadBuilds THEN "fails" ELSE truth[b]

\* Mutant: the answer of the build with the head start is enough.
OnlyFirst(b) == IF first = b THEN {} ELSE tasks \ {b}
Remaining(b) == tasks \ {b}

\* Mutant: without a crash on the base builds the crash is forgotten.
Forgotten == "clean"
NotBefore == verdict

NextPhase(result) ==
  CASE phase = "head" /\ result = "crash" /\ based ->
         phase' = "base" /\ verdict' = "crash" /\ tasks' = HeadBuilds \union BaseBuilds /\ first' = First
    [] phase = "head" /\ (result # "crash" \/ ~based) ->
         phase' = "done" /\ verdict' = result /\ tasks' = {} /\ UNCHANGED first
    [] OTHER ->
         phase' = "done" /\ verdict' = (IF result = "crash" THEN "before" ELSE NotBefore)
           /\ tasks' = {} /\ UNCHANGED first

RunEnds(b) ==
  /\ phase # "done" /\ b \in tasks
  /\ first \in {"over", b}
  /\ IF Result(b) = "crash" THEN NextPhase("crash")
     ELSE IF Remaining(b) = {} THEN NextPhase("clean")
     ELSE tasks' = Remaining(b) /\ first' = "over" /\ UNCHANGED <<phase, verdict>>
  /\ UNCHANGED <<truth, based, missing>>

HeadStartOver ==
  /\ phase # "done" /\ first # "over"
  /\ first' = "over"
  /\ UNCHANGED <<truth, based, missing, phase, tasks, verdict>>

TimedOut == \* asyncio.timeout(global_timeout), or no container in time
  /\ phase # "done"
  /\ phase' = "done" /\ verdict' = "error" /\ tasks' = {}
  /\ UNCHANGED <<truth, based, missing, first>>

Next == (\E b \in HeadBuilds \union BaseBuilds : RunEnds(b)) \/ HeadStartOver \/ TimedOut
PovRunSpec == Init /\ [][Next]_povVars

(***************************************************************************)
(* Properties.                                                             *)
(***************************************************************************)
Crashes(builds) == \E b \in builds : truth[b] = "crash"

\* Whichever build is first and whatever hangs: a crash is reported exactly when a build
\* crashes, and as an old one exactly when a build from before the diff crashes as well.
VerdictIsRight ==
  phase = "done" /\ verdict # "error" =>
    /\ (verdict = "clean") <=> ~Crashes(HeadBuilds)
    /\ (verdict = "before") <=> Crashes(HeadBuilds) /\ based /\ Crashes(BaseBuilds)

\* _test_povs_on_patch: the patch holds if a run came back without a crash.
Remediates == phase = "done" /\ ~based /\ ~missing /\ verdict = "clean"

\* "True indicates the patch remediates the pov, False indicates otherwise".  A run that
\* hung or could not be made is passed over, and no crash is what remains.
RemediatedWasRun == Remediates => \E b \in HeadBuilds : truth[b] = "clean"
=============================================================================
