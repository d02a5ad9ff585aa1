------------------------------- MODULE Artifacts -------------------------------
(***************************************************************************)
(* What a task's launch leaves on disk for everyone after it: the tars     *)
(* that are downloaded (fetch_file, gunzip), unpacked and read out of      *)
(* images (app/api_task.py, _init_project_data), the builds and the index  *)
(* files under the hash of their sources (modules/project.py and           *)
(* search_code.py), and the tars of the open-source mode                   *)
(* (app/oss_crs_task.py).                                                  *)
(*                                                                         *)
(* A file that exists is taken as it is, by other tasks and after a        *)
(* restart.  Most are written beside their place and renamed; builds of    *)
(* the same sources wait for each other.  In open-source mode the program  *)
(* is started once, in a container of its own, and cannot build.           *)
(***************************************************************************)
EXTENDS Integers, Sequences, FiniteSets

CONSTANTS
  Workers,     \* tasks that are launched, and forks of their project
  Program,     \* mode |-> worker |-> the files it makes sure to have, in this order
  Sources,     \* worker |-> "plain", or "edited" by a fork
  MaxFaults,   \* bound: bad downloads, timeouts, failed builds
  MaxCrashes   \* bound

VARIABLES
  mode,     \* "api" or "oss": config.ROBODUCK_MODE
  disk,     \* file |-> "none", "part", "whole", or the sources that were built
  builds,   \* Project.builds: sources |-> the sources that were built, or "none"
  lock,     \* build_locks: sources |-> worker, or "none"
  at,       \* worker |-> how much of its program is done
  phase,    \* worker |-> "look", "make", "check", "wait", "build", "copy" or "failed"
  temp,     \* worker |-> its temporary file: "none", "whole", "short" or "wrong"
  had,      \* history: what each has been given, file |-> contents
  faults, crashes

artifactVars == <<mode, disk, builds, lock, at, phase, temp, had, faults, crashes>>
Rest == <<mode, builds, lock, faults, crashes>>

Fetched == {"repo", "diff"}
Parsed == {"defs"}   \* a parser rejects what is not whole, and it is made again
Copied == {"src", "bear", "plain build"} \* from the container's own directories, in open-source mode
BuildTar == [plain |-> "plain build", edited |-> "edited build"]
Files == {"repo", "diff", "project", "src", "harness", "defs", "bear", "plain build", "edited build"}
Kinds == {"plain", "edited"}

\* Programs are lists of files and builds.  An index is made from plain sources; in open-source
\* mode, where the program is started once, one worker copies, and the others ask for no build
\* of the plain sources.
Steps == (Files \cup {"build"}) \ {"edited build"}
Wants(m, w) == {Program[m][w][i] : i \in DOMAIN Program[m][w]}
ArtifactsAssumption ==
  /\ "none" \notin Workers /\ DOMAIN Program \subseteq {"api", "oss"}
  /\ Sources \in [Workers -> Kinds]
  /\ \A m \in DOMAIN Program : \A w \in Workers :
       /\ Program[m][w] \in Seq(Steps)
       /\ "bear" \in Wants(m, w) => Sources[w] = "plain"
       /\ "plain build" \in Wants(m, w) => m = "oss"
  /\ "oss" \in DOMAIN Program => \A v, w \in Workers :
       /\ Wants("oss", v) \cap Copied # {}
       /\ \/ Wants("oss", w) \cap Copied # {}
          \/ Sources[w] = "plain" /\ "build" \in Wants("oss", w)
       => v = w

Step(w) == Program[mode][w][at[w] + 1]
Busy(w, p) == at[w] < Len(Program[mode][w]) /\ phase[w] = p
IsBuild(w) == Step(w) = "build" \/ (Step(w) = "bear" /\ mode = "api")
InPlace(f) == f \in Parsed \/ (mode = "oss" /\ f \in Copied)
File(w) == IF Step(w) = "build" THEN BuildTar[Sources[w]] ELSE Step(w)
There(w) == disk[File(w)] # "none" /\ ~(Step(w) \in Parsed /\ disk[File(w)] = "part")

Init ==
  /\ mode \in DOMAIN Program
  /\ disk = [f \in Files |-> "none"] /\ builds = [k \in Kinds |-> "none"] /\ lock = [k \in Kinds |-> "none"]
  /\ at = [w \in Workers |-> 0] /\ phase = [w \in Workers |-> "look"] /\ temp = [w \in Workers |-> "none"]
  /\ had = [w \in Workers |-> [f \in Files |-> "none"]] /\ faults = 0 /\ crashes = 0

Has(w, what) == \* on to the next file
  /\ at' = [at EXCEPT ![w] = @ + 1] /\ phase' = [phase EXCEPT ![w] = "look"]
  /\ had' = [had EXCEPT ![w][File(w)] = what]
Goes(w, p) == phase' = [phase EXCEPT ![w] = p]
Fault == faults < MaxFaults /\ faults' = faults + 1

(***************************************************************************)
(* Files other than builds.                                                *)
(***************************************************************************)
Find(w) ==
  /\ Busy(w, "look") /\ ~IsBuild(w) /\ There(w)
  /\ Has(w, disk[File(w)])
  /\ UNCHANGED <<disk, temp, Rest>>

Begin(w) ==
  /\ Busy(w, "look") /\ ~IsBuild(w) /\ ~There(w)
  /\ Goes(w, "make")
  /\ disk' = IF InPlace(Step(w)) THEN [disk EXCEPT ![File(w)] = "part"] ELSE disk
  /\ UNCHANGED <<at, temp, had, Rest>>

Make(w) ==
  /\ Busy(w, "make")
  /\ temp' = [temp EXCEPT ![w] = "whole"] /\ Goes(w, "check")
  /\ UNCHANGED <<disk, at, had, Rest>>

\* A download may be cut off, or be something else: the digest is of what was received, not of
\* what was written.
MakeBadly(w) ==
  /\ Busy(w, "make") /\ Step(w) \in Fetched /\ Fault
  /\ \E bad \in {"short", "wrong"} : temp' = [temp EXCEPT ![w] = bad]
  /\ Goes(w, "check")
  /\ UNCHANGED <<mode, disk, builds, lock, at, had, crashes>>

DigestFits(t) == t # "wrong"
\* Mutant: gunzip's verdict is not looked at.
UnpacksAnyway(t) == TRUE
Unpacks(t) == t = "whole"
Good(t) == DigestFits(t) /\ Unpacks(t)

Contents(w) == IF File(w) \in {"bear", "plain build"} THEN "plain" ELSE temp[w]

\* rename: at once.  gunzip leaves a file that came to be meanwhile.
Publish(w) ==
  /\ Busy(w, "check") /\ Good(temp[w])
  /\ disk' = IF Step(w) \in Fetched /\ There(w) THEN disk ELSE [disk EXCEPT ![File(w)] = Contents(w)]
  /\ temp' = [temp EXCEPT ![w] = "none"]
  /\ builds' = IF Step(w) = "plain build" THEN [builds EXCEPT !["plain"] = disk'[File(w)]] ELSE builds
  /\ Has(w, disk'[File(w)])
  /\ UNCHANGED <<mode, lock, faults, crashes>>

TryAgain(w) == \* fetch_file, for ever, with a growing pause
  /\ Busy(w, "check") /\ ~Good(temp[w])
  /\ temp' = [temp EXCEPT ![w] = "none"] /\ Goes(w, "make")
  /\ UNCHANGED <<disk, at, had, Rest>>

TimesOut(w) == \* _init_project_data begins again; the others give up
  /\ Busy(w, "make") /\ Step(w) \notin Fetched /\ Fault
  /\ Goes(w, IF Step(w) = "src" /\ mode = "api" THEN "look" ELSE "failed")
  /\ UNCHANGED <<mode, disk, builds, lock, at, temp, had, crashes>>

(***************************************************************************)
(* Builds.  A bear build is of the sources without a fork's edits, and its *)
(* /out is kept as a build of the fork's sources as well.                  *)
(***************************************************************************)
Kind(w) == Sources[w]
BuiltOf(w) == IF Step(w) = "bear" THEN "plain" ELSE Kind(w)
Cached(w) == IF Step(w) = "bear" THEN disk["bear"] ELSE builds[Kind(w)]

FindBuild(w) ==
  /\ Busy(w, "look") /\ IsBuild(w) /\ Cached(w) # "none"
  /\ Has(w, Cached(w))
  /\ UNCHANGED <<disk, temp, Rest>>

WaitToBuild(w) ==
  /\ Busy(w, "look") /\ IsBuild(w) /\ Cached(w) = "none"
  /\ Goes(w, "wait")
  /\ UNCHANGED <<disk, at, temp, had, Rest>>

\* With the lock, it looks again.
MeanwhileBuilt(w) == Cached(w) # "none"
OnDisk(w) == disk[BuildTar[Kind(w)]] # "none" /\ (Step(w) = "bear" => disk["bear"] # "none")

EnterBuild(w) ==
  /\ Busy(w, "wait") /\ lock[Kind(w)] = "none"
  /\ \/ /\ MeanwhileBuilt(w) /\ Has(w, Cached(w)) /\ UNCHANGED <<builds, lock>>
     \/ /\ ~MeanwhileBuilt(w) /\ OnDisk(w)
        /\ builds' = [builds EXCEPT ![Kind(w)] = disk[BuildTar[Kind(w)]]]
        /\ Has(w, builds'[Kind(w)]) /\ UNCHANGED lock
     \/ /\ ~MeanwhileBuilt(w) /\ ~OnDisk(w)
        /\ IF mode = "oss" THEN Goes(w, "failed") /\ UNCHANGED lock
           ELSE lock' = [lock EXCEPT ![Kind(w)] = w] /\ Goes(w, "build")
        /\ UNCHANGED <<builds, at, had>>
  /\ UNCHANGED <<mode, disk, temp, faults, crashes>>

Compile(w) == \* /src is copied out first, if it is wanted
  /\ Busy(w, "build")
  /\ disk' = IF Step(w) = "bear" THEN [disk EXCEPT !["bear"] = "plain"] ELSE disk
  /\ Goes(w, "copy")
  /\ UNCHANGED <<at, temp, had, Rest>>

CopyOut(w) ==
  /\ Busy(w, "copy")
  /\ disk' = [disk EXCEPT ![BuildTar[Kind(w)]] = BuiltOf(w)]
  /\ builds' = [builds EXCEPT ![Kind(w)] = BuiltOf(w)]
  /\ lock' = [lock EXCEPT ![Kind(w)] = "none"]
  /\ Has(w, BuiltOf(w))
  /\ UNCHANGED <<mode, temp, faults, crashes>>

BuildFails(w) == \* without a bear build one goes on
  /\ \E p \in {"build", "copy"} : Busy(w, p)
  /\ Fault
  /\ lock' = [lock EXCEPT ![Kind(w)] = "none"]
  /\ \/ Step(w) = "bear" /\ Has(w, "none")
     \/ Step(w) = "build" /\ Goes(w, "failed") /\ UNCHANGED <<at, had>>
  /\ UNCHANGED <<mode, disk, builds, temp, crashes>>

Crash ==
  /\ mode = "api" /\ crashes < MaxCrashes /\ crashes' = crashes + 1
  /\ builds' = [k \in Kinds |-> "none"] /\ lock' = [k \in Kinds |-> "none"]
  /\ at' = [w \in Workers |-> 0] /\ phase' = [w \in Workers |-> "look"]
  /\ temp' = [w \in Workers |-> "none"] /\ had' = [w \in Workers |-> [f \in Files |-> "none"]]
  /\ UNCHANGED <<mode, disk, faults>>

Work(w) ==
  \/ Find(w) \/ Begin(w) \/ Make(w) \/ Publish(w) \/ TryAgain(w)
  \/ FindBuild(w) \/ WaitToBuild(w) \/ EnterBuild(w) \/ Compile(w) \/ CopyOut(w)
Next == Crash \/ \E w \in Workers : Work(w) \/ MakeBadly(w) \/ TimesOut(w) \/ BuildFails(w)
ArtifactSpec == Init /\ [][Next]_artifactVars

(***************************************************************************)
(* Properties.                                                             *)
(***************************************************************************)
\* Whatever a worker is given was complete, however many were making it and wherever the
\* program was stopped before.
FilesAreWhole == \A w \in Workers : \A f \in Files : had[w][f] \notin {"part", "short", "wrong"}

\* A build that is found for some sources, in memory or on disk, is a build of these sources.
BuildsFit ==
  \A k \in Kinds : builds[k] \in {"none", k} /\ disk[BuildTar[k]] \in {"none", "part", k}

\* The same sources are built once at a time, and a worker at it has the lock.
OneBuilder ==
  \A w \in Workers :
    phase[w] \in {"build", "copy"} =>
      lock[Kind(w)] = w /\ (Step(w) = "build" => builds[Kind(w)] = "none")
ArtifactsAreRight == FilesAreWhole /\ BuildsFit /\ OneBuilder
=============================================================================
