------------------------------- MODULE Debugger -------------------------------
(***************************************************************************)
(* Debugger of crs/modules/debugger.py: agents stop a harness at a         *)
(* breakpoint.  It works on a fork of the project, turns debug information *)
(* on in the build files of a Java project (once), builds (once) and runs  *)
(* gdb or jdb in a container.                                              *)
(*                                                                         *)
(* init, artifacts and the edits are memoised: alru_cache lets one caller  *)
(* run them while the others wait (AlruCache).                             *)
(***************************************************************************)
EXTENDS Integers, FiniteSets

CONSTANTS
  Callers,   \* agents that call gdb_exec or jdb_exec
  Files,     \* build files: the poms and the build.xml's
  IsPom(_),
  Broken,    \* build files that cannot be edited
  MaxHits,   \* bound: times that a run comes to the breakpoint
  MaxFaults, \* bound: a tree, a build or the harnesses fail
  MaxStops,  \* bound: a caller is cancelled
  None

DebuggerAssumption == \* None is none of the other values
  /\ None \notin Callers /\ \A S \in SUBSET Files : S # None
  /\ None \notin {"ok", "not hit", "failed", "unsupported", "wrong tool", "invalid", "timed out"}
  /\ \A f \in Files : IsPom(f) \in BOOLEAN

VARIABLES
  language, \* of the project: "c", "jvm" or another
  call,     \* of a caller: [phase, tool, todo, hits, at, answer]
  edited,   \* build files of the fork with debug information on
  once,     \* what _init_maven_debug and _init_ant_debug keep: "none", "ok", "err"
  inited,   \* init is kept: it keeps only Ok
  built,    \* artifacts is kept: the edits that it was built from, or None
  holder,   \* who runs init, who runs artifacts
  faults, stops

debugVars == <<language, call, edited, once, inited, built, holder, faults, stops>>

Idle == [phase |-> "idle", tool |-> None, todo |-> {}, hits |-> 0, at |-> None, answer |-> None]
Init ==
  /\ language \in {"c", "jvm", "go"}
  /\ call = [c \in Callers |-> Idle]
  /\ edited = {} /\ once = [maven |-> "none", ant |-> "none"]
  /\ inited = FALSE /\ built = None
  /\ holder = [init |-> None, artifacts |-> None]
  /\ faults = 0 /\ stops = 0

Fault == faults < MaxFaults /\ faults' = faults + 1
Free(what, c) == IF holder[what] = c THEN [holder EXCEPT ![what] = None] ELSE holder
Return(c, answer) == call' = [call EXCEPT ![c] = [@ EXCEPT !.phase = "done", !.answer = answer]]
Go(c, phase) == call' = [call EXCEPT ![c].phase = phase]

Exec(c, tool) == \* gdb_exec, jdb_exec
  /\ call[c].phase = "idle"
  /\ call' = [call EXCEPT ![c].phase = "init", ![c].tool = tool]
  /\ UNCHANGED <<language, edited, once, inited, built, holder, faults, stops>>

(***************************************************************************)
(* init.                                                                   *)
(***************************************************************************)
Kind == IF once.maven = "ok" THEN "ant" ELSE "maven"
FilesOf(kind) == {f \in Files : IsPom(f) = (kind = "maven")}

Inited(c) == \* nothing to do, or all is done
  /\ call[c].phase = "init"
  /\ IF inited THEN UNCHANGED <<inited, holder>>
     ELSE /\ language # "jvm" \/ once = [maven |-> "ok", ant |-> "ok"]
          /\ holder.init \in {None, c}
          /\ inited' = TRUE /\ holder' = Free("init", c)
  /\ Go(c, "artifacts")
  /\ UNCHANGED <<language, edited, once, built, faults, stops>>

FindFiles(c) == \* _find_src_files, in the tree of the sources
  /\ call[c].phase = "init" /\ language = "jvm" /\ ~inited
  /\ holder.init \in {None, c}
  /\ once[Kind] = "none"
  /\ \/ /\ call' = [call EXCEPT ![c].phase = "editing", ![c].todo = FilesOf(Kind)]
        /\ holder' = [holder EXCEPT !.init = c]
        /\ UNCHANGED <<once, faults>>
     \/ /\ Fault  \* no tree: async_once keeps the Err
        /\ once' = [once EXCEPT ![Kind] = "err"]
        /\ UNCHANGED <<call, holder>>
  /\ UNCHANGED <<language, edited, inited, built, stops>>

InitFailed(c) ==
  /\ call[c].phase = "init" /\ ~inited /\ language = "jvm"
  /\ holder.init \in {None, c} /\ "err" \in {once.maven, once.ant}
  /\ Return(c, "unsupported") /\ holder' = Free("init", c)
  /\ UNCHANGED <<language, edited, once, inited, built, faults, stops>>

EnableDebug(c, f) == \* enable_maven_debug_build, enable_ant_debug_build; what fails is logged
  /\ call[c].phase = "editing" /\ f \in call[c].todo
  /\ edited' = IF f \in Broken THEN edited ELSE edited \union {f}
  /\ call' = [call EXCEPT ![c].todo = @ \ {f}]
  /\ UNCHANGED <<language, once, inited, built, holder, faults, stops>>

\* Mutant: it is kept before the files are edited.
EarlyDone(c) == TRUE
AllDone(c) == call[c].todo = {}
Edited(c) ==
  /\ call[c].phase = "editing" /\ AllDone(c)
  /\ once' = [once EXCEPT ![Kind] = "ok"]
  /\ call' = [call EXCEPT ![c].phase = "init", ![c].todo = {}]
  /\ UNCHANGED <<language, edited, inited, built, holder, faults, stops>>

(***************************************************************************)
(* artifacts, and the rest of supports_debugging.                          *)
(***************************************************************************)
Artifacts(c) ==
  /\ call[c].phase = "artifacts"
  /\ IF built # None THEN Go(c, "harness") /\ UNCHANGED holder
     ELSE holder.artifacts = None /\ holder' = [holder EXCEPT !.artifacts = c] /\ Go(c, "building")
  /\ UNCHANGED <<language, edited, once, inited, built, faults, stops>>

Build(c) ==
  /\ call[c].phase \in {"building", "falling back"}
  /\ built' = edited /\ holder' = Free("artifacts", c) /\ Go(c, "harness")
  /\ UNCHANGED <<language, edited, once, inited, faults, stops>>

BuildFails(c) == \* then without -fno-inline; an Err is not kept
  /\ call[c].phase \in {"building", "falling back"} /\ Fault
  /\ IF call[c].phase = "building" THEN Go(c, "falling back") /\ UNCHANGED holder
     ELSE Return(c, "unsupported") /\ holder' = Free("artifacts", c)
  /\ UNCHANGED <<language, edited, once, inited, built, stops>>

HarnessInfo(c) ==
  /\ call[c].phase = "harness"
  /\ \/ Return(c, "unsupported") /\ Fault
     \/ Return(c, "wrong tool") /\ language \notin (IF call[c].tool = "gdb" THEN {"c"} ELSE {"jvm"}) /\ UNCHANGED faults
     \/ Return(c, "invalid") /\ UNCHANGED faults  \* the harness, the breakpoint or a command
     \/ /\ language = IF call[c].tool = "gdb" THEN "c" ELSE "jvm"
        /\ call' = [call EXCEPT ![c].phase = "running", ![c].at = IF call[c].tool = "gdb" THEN None ELSE "starting"]
        /\ UNCHANGED faults
  /\ UNCHANGED <<language, edited, once, inited, built, holder, stops>>

(***************************************************************************)
(* gdb runs its script to the end; jdb is led by the interactor, which     *)
(* waits for what jdb writes: "at" is where it stands.                     *)
(***************************************************************************)
Hit(c) == \* the harness comes to the breakpoint
  /\ call[c].phase = "running" /\ call[c].hits < MaxHits
  /\ call[c].at \in {None, "running"}
  /\ call' = [call EXCEPT ![c].hits = @ + 1, ![c].at = IF @ = None THEN None ELSE "stopped"]
  /\ UNCHANGED <<language, edited, once, inited, built, holder, faults, stops>>

Interact(c) == \* the breakpoint is set, then cont; at the breakpoint the commands, then cont
  /\ call[c].phase = "running" /\ call[c].at \in {"starting", "stopped"}
  /\ call' = [call EXCEPT ![c].at = "running"]
  /\ UNCHANGED <<language, edited, once, inited, built, holder, faults, stops>>

GivesUp(c) == \* an uncaught exception or a breakpoint it cannot set: nobody speaks to jdb any more
  /\ call[c].phase = "running" /\ call[c].at = "running"
  /\ call' = [call EXCEPT ![c].at = "left"]
  /\ UNCHANGED <<language, edited, once, inited, built, holder, faults, stops>>

Verdict(c, code) == IF code # 0 THEN "failed" ELSE IF call[c].hits = 0 THEN "not hit" ELSE "ok"
Exits(c, code) == \* the process is gone, and with it what the interactor reads
  /\ call[c].phase = "running"
  /\ Return(c, Verdict(c, code))
  /\ UNCHANGED <<language, edited, once, inited, built, holder, faults, stops>>

TimesOut(c) ==
  /\ call[c].phase = "running"
  /\ Return(c, "timed out")
  /\ UNCHANGED <<language, edited, once, inited, built, holder, faults, stops>>

Stop(c) == \* the caller is cancelled: nothing of what it runs is kept
  /\ call[c].phase \notin {"idle", "done"} /\ stops < MaxStops
  /\ stops' = stops + 1
  /\ call' = [call EXCEPT ![c] = Idle]
  /\ holder' = [what \in DOMAIN holder |-> IF holder[what] = c THEN None ELSE holder[what]]
  /\ UNCHANGED <<language, edited, once, inited, built, faults>>

Next == \E c \in Callers :
  \/ \E tool \in {"gdb", "jdb"} : Exec(c, tool)
  \/ Inited(c) \/ FindFiles(c) \/ InitFailed(c) \/ Edited(c) \/ \E f \in Files : EnableDebug(c, f)
  \/ Artifacts(c) \/ Build(c) \/ BuildFails(c) \/ HarnessInfo(c)
  \/ Hit(c) \/ Interact(c) \/ GivesUp(c) \/ TimesOut(c) \/ Stop(c) \/ \E code \in {0, 1} : Exits(c, code)
DebugSpec == Init /\ [][Next]_debugVars

(***************************************************************************)
(* Property.                                                               *)
(***************************************************************************)
\* What an agent is told of a run is true, and of the right program: the artifacts that jdb
\* runs were built, by one caller, after debug information was turned on in every build file
\* that can be edited, wherever init was interrupted; "ok" and "not hit" are what the run did.
\* Debugging is refused only after something failed.
DebuggerIsRight ==
  /\ language = "jvm" /\ built # None => Files \ Broken \subseteq built
  /\ Cardinality({c \in Callers : call[c].phase \in {"building", "falling back"}}) <= 1
  /\ \A c \in Callers :
       /\ call[c].phase = "running" => built # None /\ built = edited
       /\ call[c].answer \in {"ok", "not hit"} => (call[c].answer = "ok") = (call[c].hits > 0)
       /\ call[c].answer = "unsupported" => faults > 0
===============================================================================
