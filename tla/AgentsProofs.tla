------------------------------ MODULE AgentsProofs ------------------------------
(***************************************************************************)
(* What the agents work with promises, for any number of callers, jobs,    *)
(* candidates, workers and faults: invariants of Spec of MCAgents, part by *)
(* part.                                                                   *)
(***************************************************************************)
EXTENDS MCAgents, FiniteSets, FiniteSetTheorems, SequenceTheorems, NaturalsInduction, TLAPS

(***************************************************************************)
(* The verdict about a POV (crs/modules/project.py).                       *)
(***************************************************************************)
\* Who is not under way any more did not crash; the runs before the diff follow a crash.
RunsAgree ==
  /\ povPhase = "head" =>
       /\ verdict = "none" /\ tasks \subseteq HeadBuilds
       /\ \A b \in HeadBuilds \ tasks : truth[b] # "crash"
  /\ povPhase = "base" =>
       /\ verdict = "crash" /\ based /\ Run!Crashes(HeadBuilds)
       /\ \A b \in BaseBuilds \ tasks : truth[b] # "crash"
  /\ povPhase = "done" => verdict \in {"clean", "crash", "before", "error"}

RunInv ==
  /\ povPhase \in {"head", "base", "done"} /\ based \in BOOLEAN
  /\ RunsAgree /\ Run!VerdictIsRight

LEMMA RunInit == ASSUME Run!Init PROVE RunInv
    BY DEF Run!Init, RunInv, RunsAgree, Run!VerdictIsRight

LEMMA RunEndsStep ==
  ASSUME Run!PovRunAssumption, RunInv, NEW b \in HeadBuilds \cup BaseBuilds,
       Run!RunEnds(b) PROVE RunInv'
<1> USE DEF RunInv, RunsAgree
<1>1. /\ UNCHANGED <<truth, based, missing>> /\ povPhase # "done" /\ b \in tasks
      /\ \A builds : Run!Crashes(builds)' <=> Run!Crashes(builds)
    BY DEF Run!RunEnds, Run!Crashes
<1>2. CASE Run!Result(b) = "crash" /\ povPhase = "head" /\ based
  <2>1. povPhase' = "base" /\ verdict' = "crash" /\ tasks' = HeadBuilds \cup BaseBuilds
      BY <1>2 DEF Run!RunEnds, Run!NextPhase
  <2>2. Run!Crashes(HeadBuilds)
      BY <1>1, <1>2 DEF Run!Result, Run!Crashes
  <2> QED
      BY <1>1, <1>2, <2>1, <2>2 DEF Run!VerdictIsRight
<1>3. CASE Run!Result(b) = "crash" /\ povPhase = "head" /\ ~ based
  <2>1. povPhase' = "done" /\ verdict' = "crash"
      BY <1>3 DEF Run!RunEnds, Run!NextPhase
  <2>2. Run!Crashes(HeadBuilds)
      BY <1>1, <1>3 DEF Run!Result, Run!Crashes
  <2> QED
      BY <1>1, <1>3, <2>1, <2>2 DEF Run!VerdictIsRight
<1>4. CASE Run!Result(b) = "crash" /\ povPhase = "base"
  <2>1. povPhase' = "done" /\ verdict' = "before"
      BY <1>4 DEF Run!RunEnds, Run!NextPhase
  <2>2. b \in BaseBuilds /\ truth[b] = "crash"
      BY <1>4 DEF Run!Result
  <2> QED
      BY <1>1, <1>4, <2>1, <2>2 DEF Run!VerdictIsRight, Run!Crashes
<1>5. CASE Run!Result(b) # "crash" /\ Run!Remaining(b) = {} /\ povPhase = "head"
  <2>1. povPhase' = "done" /\ verdict' = "clean"
      BY <1>5 DEF Run!RunEnds, Run!NextPhase
  <2>2. ~ Run!Crashes(HeadBuilds)
      BY <1>5 DEF Run!Remaining, Run!Result, Run!Crashes
  <2> QED
      BY <1>1, <2>1, <2>2 DEF Run!VerdictIsRight
<1>6. CASE Run!Result(b) # "crash" /\ Run!Remaining(b) = {} /\ povPhase = "base"
  <2>1. povPhase' = "done" /\ verdict' = "crash"
      BY <1>6 DEF Run!RunEnds, Run!NextPhase, Run!NotBefore
  <2>2. ~ Run!Crashes(BaseBuilds)
      BY <1>6, Run!PovRunAssumption DEF Run!Remaining, Run!Result, Run!Crashes,
         Run!PovRunAssumption
  <2> QED
      BY <1>1, <1>6, <2>1, <2>2 DEF Run!VerdictIsRight
<1>7. CASE Run!Result(b) # "crash" /\ Run!Remaining(b) # {}
  <2>1. tasks' = tasks \ {b} /\ UNCHANGED <<povPhase, verdict>>
      BY <1>7 DEF Run!RunEnds, Run!Remaining
  <2>2. povPhase = "base" /\ b \in BaseBuilds => truth[b] # "crash"
      BY <1>7, Run!PovRunAssumption DEF Run!Result, Run!PovRunAssumption
  <2>3. povPhase = "head" => truth[b] # "crash"
      BY <1>7 DEF Run!Result
  <2> QED
      BY <1>1, <2>1, <2>2, <2>3 DEF Run!VerdictIsRight
<1> QED
    BY <1>1, <1>2, <1>3, <1>4, <1>5, <1>6, <1>7

LEMMA RunNext == ASSUME Run!PovRunAssumption, RunInv, [Run!Next]_(Run!povVars) PROVE RunInv'
<1>1. CASE Run!HeadStartOver \/ UNCHANGED Run!povVars
    BY <1>1 DEF Run!HeadStartOver, Run!povVars, RunInv, RunsAgree, Run!VerdictIsRight, Run!Crashes
<1>2. CASE Run!TimedOut
    BY <1>2 DEF Run!TimedOut, RunInv, RunsAgree, Run!VerdictIsRight
<1> QED
    BY <1>1, <1>2, RunEndsStep DEF Run!Next

(***************************************************************************)
(* Crafted inputs and parsers (crs/agents).                                *)
(***************************************************************************)
Results == [of : Candidates \cup {None}, confirmed : BOOLEAN]
CallPlaces == {"seed", "test", "end", "compile", "done"}
CallType == [tool : {"test_pov", "debug_pov", "terminate", "query_coverage", "test_decoding",
                     "test_decoder", "gdb_exec", "compile_kaitai"},
             arg : Candidates, at : CallPlaces, prev : Results]

\* What the variables may hold.
CraftTypes ==
  /\ kind \in Pov!Kinds /\ toolCalls \in Seq(CallType) /\ kept \in Results
     /\ checked \subseteq Works /\ crossed \in BOOLEAN

\* A call is one of a tool of the agent.
ToolsFit ==
  \A i \in DOMAIN toolCalls :
    /\ toolCalls[i].tool \in {"test_pov", "debug_pov", "terminate"} <=> kind = "pov"
    /\ toolCalls[i].tool \in {"test_decoder", "gdb_exec"} <=> kind = "decoder"
    /\ toolCalls[i].tool = "compile_kaitai" <=> kind = "kaitai"
    /\ toolCalls[i].tool = "test_decoding" => kind = "encoder"

\* What is kept as confirmed, and what is returned as such, was seen.
KeptWasSeen ==
  /\ kind \in {"pov", "flip"} /\ kept.confirmed => kept.of \in checked
  /\ Pov!ConfirmedWasSeen

\* A crash that was seen is what a POV's session keeps, unless it was crossed; between its
\* messages the session keeps nothing, and it is over once it has its result.
RecordedIsKept ==
  /\ crafted # None => toolCalls = <<>>
  /\ kind \in {"pov", "flip"} =>
       /\ checked # {} /\ ~crossed => kept.confirmed
       /\ toolCalls = <<>> /\ crafted = None => kept = Pov!Nothing
  /\ Pov!SeenIsReported

\* Trials that did not cross: there is one at most, of the parser that is kept, and the one it
\* goes back to has read the corpus if any has; else the one that is kept has read it.
Trials == {i \in DOMAIN toolCalls : toolCalls[i].at = "test"}
ParserWasRead ==
  /\ kind = "decoder" /\ "parsed" \in gates => kept.of \in Works
  /\ kind = "kaitai" /\ ~crossed =>
       /\ \A i, j \in Trials : i = j
       /\ \A i \in Trials :
            kept.of = toolCalls[i].arg /\ ("parsed" \in gates => toolCalls[i].prev.of \in Works)
       /\ Trials = {} /\ "parsed" \in gates => kept.of \in Works

CraftInv == CraftTypes /\ ToolsFit /\ KeptWasSeen /\ RecordedIsKept /\ ParserWasRead

LEMMA NothingIsAResult ==
  ASSUME Pov!CraftingAssumption
  PROVE  Pov!Nothing \in Results /\ Pov!Nothing # None
<1>1. Pov!Nothing \in Results
    BY DEF Results, Pov!Nothing
<1> QED
    BY <1>1 DEF Pov!CraftingAssumption, Results

LEMMA CraftBegins == ASSUME Pov!CraftingAssumption, Pov!Init PROVE CraftInv
<1>1. CraftTypes
  <2>1. crossed \in BOOLEAN
      BY DEF Pov!Init
  <2>2. toolCalls \in Seq(CallType)
      BY DEF Pov!Init
  <2>3. kind \in Pov!Kinds /\ kept = Pov!Nothing /\ checked = {}
      BY DEF Pov!Init
  <2> QED
      BY <2>1, <2>2, <2>3, NothingIsAResult DEF CraftTypes
<1>2. ToolsFit /\ KeptWasSeen
    BY DEF Pov!Init, ToolsFit, KeptWasSeen, Pov!ConfirmedWasSeen, Pov!Nothing
<1>3. RecordedIsKept /\ ParserWasRead
    BY DEF Pov!Init, RecordedIsKept, ParserWasRead, Trials, Pov!SeenIsReported
<1> QED
    BY <1>1, <1>2, <1>3 DEF CraftInv

\* A step of a call leaves the others and what was asked of it.
LEMMA CallGoes ==
  ASSUME CraftInv, NEW i \in DOMAIN toolCalls, NEW p \in CallPlaces, Pov!Go(i, p)
  PROVE  /\ toolCalls' \in Seq(CallType) /\ DOMAIN toolCalls' = DOMAIN toolCalls
            /\ Len(toolCalls') = Len(toolCalls)
         /\ toolCalls'[i].at = p /\ toolCalls'[i].prev = toolCalls[i].prev
         /\ \A j \in DOMAIN toolCalls :
              toolCalls'[j].tool = toolCalls[j].tool /\ toolCalls'[j].arg = toolCalls[j].arg
         /\ \A j \in DOMAIN toolCalls \ {i} : toolCalls'[j] = toolCalls[j]
         /\ toolCalls # <<>> /\ toolCalls' # <<>>
<1> USE DEF CraftInv, CraftTypes
<1>1. toolCalls[i] \in CallType /\ toolCalls' = [toolCalls EXCEPT ![i].at = p]
    BY DEF Pov!Go
<1>2. toolCalls' = [toolCalls EXCEPT ![i] = [toolCalls[i] EXCEPT !.at = p]]
    BY <1>1
<1>3. [toolCalls[i] EXCEPT !.at = p] \in CallType
    BY <1>1 DEF CallType
<1>4. toolCalls' \in Seq(CallType) /\ DOMAIN toolCalls' = DOMAIN toolCalls
      /\ Len(toolCalls') = Len(toolCalls)
    BY <1>2, <1>3, ExceptSeq
<1>5. toolCalls # <<>> /\ toolCalls' # <<>>
    BY <1>4
<1>6. toolCalls'[i] = [toolCalls[i] EXCEPT !.at = p]
      /\ \A j \in DOMAIN toolCalls \ {i} : toolCalls'[j] = toolCalls[j]
    BY <1>2
<1> QED
    BY <1>1, <1>4, <1>5, <1>6 DEF CallType

\* Most steps: what is kept stays, or becomes a candidate that was seen to work.
LEMMA CallKeeps ==
  ASSUME Pov!CraftingAssumption, CraftInv, NEW i \in DOMAIN toolCalls, NEW p \in CallPlaces,
       Pov!Go(i, p), crossed' \in BOOLEAN,
         UNCHANGED <<kind, crafted>>, checked \subseteq checked', checked' \subseteq Works,
         \/ kept' = kept
         \/ kept' = Pov!Confirmed(toolCalls[i].arg) /\ toolCalls[i].arg \in checked'
         \/ kept' = Pov!Claim(toolCalls[i].arg)
         \/ kind \notin {"pov", "flip"} /\ kept' \in Results
  PROVE  CraftTypes' /\ ToolsFit' /\ KeptWasSeen'
<1> USE DEF CraftInv
<1>1. toolCalls[i].arg \in Candidates
  <2>1. toolCalls \in Seq(CallType)
      BY DEF CraftTypes
  <2>2. toolCalls[i] \in CallType
      BY <2>1
  <2> QED
      BY <2>2 DEF CallType
<1>2. kept' \in Results
  <2>1. Pov!Confirmed(toolCalls[i].arg) \in Results /\ Pov!Claim(toolCalls[i].arg) \in Results
      BY <1>1 DEF Pov!Confirmed, Pov!Claim, Results
  <2> QED
      BY <2>1 DEF CraftTypes
<1>3. CraftTypes' /\ ToolsFit'
    BY <1>2, CallGoes DEF CraftTypes, ToolsFit
<1>4. kind \in {"pov", "flip"} /\ kept'.confirmed => kept'.of \in checked'
    BY DEF KeptWasSeen, Pov!Confirmed, Pov!Claim
<1>5. KeptWasSeen'
    BY <1>4 DEF KeptWasSeen, Pov!ConfirmedWasSeen
<1> QED
    BY <1>3, <1>5

\* Steps of a call that does not try a parser: it is enough that a session that makes POVs or
\* seeds keeps what it has seen, and a decoder's one that has read the corpus.
LEMMA CallsAreRecords ==
  ASSUME CraftInv, NEW i \in DOMAIN toolCalls, NEW p \in CallPlaces, Pov!Go(i, p),
         UNCHANGED <<kind, crafted>>, kind # "kaitai",
         kind \in {"pov", "flip"} /\ checked' # {} /\ ~crossed' => kept'.confirmed,
         kind = "decoder" /\ "parsed" \in gates' => kept'.of \in Works
  PROVE  RecordedIsKept' /\ ParserWasRead'
<1>1. toolCalls # <<>> /\ toolCalls' # <<>>
    BY CallGoes
<1>2. crafted' = None
    BY <1>1 DEF CraftInv, RecordedIsKept
<1>3. RecordedIsKept'
    BY <1>1, <1>2 DEF RecordedIsKept, Pov!SeenIsReported
<1> QED
    BY <1>3 DEF ParserWasRead

\* Steps that only end a call that is not a trial.
LEMMA CallEnds ==
  ASSUME Pov!CraftingAssumption, CraftInv, NEW i \in DOMAIN toolCalls, NEW p \in CallPlaces,
         Pov!Go(i, p), p # "test" \/ kind # "kaitai", toolCalls[i].at # "test" \/ kind # "kaitai",
         crossed' = crossed \/ crossed' = TRUE, UNCHANGED <<kind, crafted, kept, checked>>,
         gates' = gates \/ kind = "encoder" \/ (kind = "decoder" /\ gates' = gates \cup {"debugged"})
  PROVE  CraftInv'
<1>1. CraftTypes' /\ ToolsFit' /\ KeptWasSeen'
    BY CallKeeps DEF CraftInv, CraftTypes
<1>2. kind = "decoder" /\ "parsed" \in gates' => kept'.of \in Works
    BY DEF CraftInv, ParserWasRead
<1>3. kind \in {"pov", "flip"} /\ checked' # {} /\ ~crossed' => kept'.confirmed
    BY DEF CraftInv, RecordedIsKept
<1>4. CASE kind # "kaitai"
    BY <1>1, <1>2, <1>3, <1>4, CallsAreRecords DEF CraftInv
<1>5. CASE kind = "kaitai"
  <2>1. Trials' = Trials /\ \A j \in Trials : toolCalls'[j] = toolCalls[j]
    <3>1. DOMAIN toolCalls' = DOMAIN toolCalls /\ toolCalls'[i].at = p
          /\ \A j \in DOMAIN toolCalls \ {i} : toolCalls'[j] = toolCalls[j]
        BY CallGoes
    <3>2. i \notin Trials /\ i \notin Trials'
        BY <1>5, <3>1 DEF Trials
    <3> QED
        BY <3>1, <3>2 DEF Trials
  <2>2. ParserWasRead'
      BY <1>5, <2>1 DEF CraftInv, ParserWasRead
  <2>3. toolCalls # <<>> /\ toolCalls' # <<>>
      BY CallGoes
  <2>4. RecordedIsKept'
      BY <1>5, <2>3 DEF CraftInv, RecordedIsKept, Pov!SeenIsReported
  <2> QED
      BY <1>1, <2>2, <2>4 DEF CraftInv
<1> QED
    BY <1>4, <1>5

LEMMA SeedHookStep ==
  ASSUME Pov!CraftingAssumption, CraftInv, NEW i \in DOMAIN toolCalls, Pov!SeedHook(i)
  PROVE  CraftInv'
<1> DEFINE p == IF toolCalls[i].tool = "test_pov" THEN "test" ELSE "done"
<1>1. Pov!Go(i, p) /\ p \in CallPlaces
      /\ UNCHANGED <<kind, turns, kept, gates, checked, crossed, crafted>>
    BY DEF Pov!SeedHook, CallPlaces
<1>2. kind = "pov"
    BY DEF Pov!SeedHook, Pov!At, CraftInv, ToolsFit
<1> HIDE DEF p
<1> QED
    BY <1>1, <1>2, CallEnds

\* A tool of a session that makes POVs or seeds keeps what it sees.
LEMMA Crashed ==
  ASSUME Pov!CraftingAssumption, CraftInv, NEW i \in DOMAIN toolCalls, NEW p \in CallPlaces,
         Pov!Go(i, p), Pov!Seen(toolCalls[i].arg), kind \in {"pov", "flip"},
         UNCHANGED <<kind, gates, crossed, crafted>>,
         kept' = IF toolCalls[i].arg \in Works THEN Pov!Confirmed(toolCalls[i].arg) ELSE kept
  PROVE  CraftInv'
<1> DEFINE c == toolCalls[i].arg
<1>1. checked \subseteq checked' /\ checked' \subseteq Works /\ (c \in Works => c \in checked')
      /\ (c \notin Works => checked' = checked)
    BY DEF Pov!Seen, CraftInv, CraftTypes
<1>2. CraftTypes' /\ ToolsFit' /\ KeptWasSeen'
    BY <1>1, CallKeeps DEF CraftInv, CraftTypes
<1>3. checked' # {} /\ ~crossed' => kept'.confirmed
    BY <1>1 DEF CraftInv, RecordedIsKept, Pov!Confirmed
<1> QED
    BY <1>2, <1>3, CallsAreRecords DEF CraftInv

LEMMA TestPovStep ==
  ASSUME Pov!CraftingAssumption, CraftInv, NEW i \in DOMAIN toolCalls, Pov!TestPov(i)
  PROVE  CraftInv'
<1>1. kind = "pov"
    BY DEF Pov!TestPov, Pov!At, CraftInv, ToolsFit
<1> QED
    BY <1>1, Crashed DEF Pov!TestPov, CallPlaces, Pov!CrashesOn

LEMMA TestPovHookStep ==
  ASSUME Pov!CraftingAssumption, CraftInv, NEW i \in DOMAIN toolCalls, Pov!TestPovHook(i)
  PROVE  CraftInv'
<1> DEFINE p == IF toolCalls[i].arg \in Works THEN "done" ELSE "seed"
<1>1. kind = "pov"
    BY DEF Pov!TestPovHook, Pov!At, CraftInv, ToolsFit
<1>2. /\ Pov!Go(i, p) /\ Pov!Seen(toolCalls[i].arg) /\ p \in CallPlaces
         /\ UNCHANGED <<kind, gates, crossed, crafted>>
      /\ kept' = IF toolCalls[i].arg \in Works THEN Pov!Confirmed(toolCalls[i].arg) ELSE kept
    BY DEF Pov!TestPovHook, CallPlaces, Pov!CrashesOn, Pov!Recorded
<1> HIDE DEF p
<1> QED
    BY <1>1, <1>2, Crashed

LEMMA TerminateStep ==
  ASSUME Pov!CraftingAssumption, CraftInv, NEW i \in DOMAIN toolCalls, Pov!Terminate(i)
  PROVE  CraftInv'
<1>1. /\ Pov!Go(i, "done") /\ "done" \in CallPlaces
         /\ UNCHANGED <<kind, turns, gates, checked, crafted>>
      /\ kept' = Pov!Claim(toolCalls[i].arg) /\ crossed' = (crossed \/ kept.confirmed)
    BY DEF Pov!Terminate, CallPlaces
<1>2. kind = "pov"
    BY DEF Pov!Terminate, Pov!At, CraftInv, ToolsFit
<1>3. crossed' \in BOOLEAN
    BY <1>1 DEF CraftInv, CraftTypes, Results
<1>4. CraftTypes' /\ ToolsFit' /\ KeptWasSeen'
    BY <1>1, <1>3, CallKeeps DEF CraftInv, CraftTypes
<1>5. checked' # {} => crossed'
    BY <1>1, <1>2 DEF CraftInv, RecordedIsKept
<1> QED
    BY <1>1, <1>2, <1>4, <1>5, CallsAreRecords DEF CraftInv

LEMMA RaisedStep ==
  ASSUME Pov!CraftingAssumption, CraftInv, NEW i \in DOMAIN toolCalls, Pov!Raised(i)
  PROVE  CraftInv'
<1>1. /\ Pov!Go(i, "done") /\ "done" \in CallPlaces
         /\ UNCHANGED <<kind, turns, kept, gates, checked, crafted>>
      /\ crossed' = (crossed \/ Pov!OnTrial(i))
    BY DEF Pov!Raised, CallPlaces
<1>2. crossed' \in BOOLEAN /\ (crossed' = crossed \/ crossed' = TRUE)
    BY <1>1 DEF CraftInv, CraftTypes, Pov!OnTrial, Pov!At
<1>3. CASE toolCalls[i].at # "test" \/ kind # "kaitai"
    BY <1>1, <1>2, <1>3, CallEnds
<1>4. CASE toolCalls[i].at = "test" /\ kind = "kaitai"
  <2>1. crossed'
      BY <1>1, <1>4 DEF Pov!OnTrial, Pov!At, CraftInv, ToolsFit
  <2>2. CraftTypes' /\ ToolsFit' /\ KeptWasSeen'
      BY <1>1, <1>2, CallKeeps DEF CraftInv, CraftTypes
  <2>3. toolCalls # <<>> /\ toolCalls' # <<>>
      BY <1>1, CallGoes
  <2>4. RecordedIsKept'
      BY <1>1, <1>4, <2>3 DEF CraftInv, RecordedIsKept, Pov!SeenIsReported
  <2>5. ParserWasRead'
      BY <1>1, <1>4, <2>1 DEF ParserWasRead
  <2> QED
      BY <2>2, <2>4, <2>5 DEF CraftInv
<1> QED
    BY <1>3, <1>4

LEMMA QueryEncoderStep ==
  ASSUME Pov!CraftingAssumption, CraftInv, NEW i \in DOMAIN toolCalls,
       Pov!QueryEncoder(i) \/ Pov!TestDecoding(i)
  PROVE  CraftInv'
<1>1. Pov!Go(i, "done") /\ "done" \in CallPlaces
      /\ UNCHANGED <<kind, turns, kept, checked, crossed, crafted>>
    BY DEF Pov!QueryEncoder, Pov!TestDecoding, CallPlaces
<1>2. kind = "encoder"
    BY DEF Pov!QueryEncoder, Pov!TestDecoding, Pov!At, CraftInv, ToolsFit
<1> QED
    BY <1>1, <1>2, CallEnds

LEMMA TestDecoderStep ==
  ASSUME Pov!CraftingAssumption, CraftInv, NEW i \in DOMAIN toolCalls, Pov!TestDecoder(i)
  PROVE  CraftInv'
<1> DEFINE c == toolCalls[i].arg
<1>1. /\ Pov!Go(i, "done") /\ Pov!Seen(c) /\ "done" \in CallPlaces
         /\ UNCHANGED <<kind, turns, crossed, crafted>>
      /\ IF c \in Works THEN kept' = Pov!Confirmed(c) ELSE kept' = kept /\ gates' = gates
    BY DEF Pov!TestDecoder, CallPlaces
<1>2. kind = "decoder"
    BY DEF Pov!TestDecoder, Pov!At, CraftInv, ToolsFit
<1>3. checked \subseteq checked' /\ checked' \subseteq Works /\ (c \in Works => c \in checked')
    BY <1>1 DEF Pov!Seen, CraftInv, CraftTypes
<1>4. "parsed" \in gates' => kept'.of \in Works
    BY <1>1, <1>2 DEF CraftInv, ParserWasRead, Pov!Confirmed
<1> HIDE DEF c
<1>5. CraftTypes' /\ ToolsFit' /\ KeptWasSeen'
    BY <1>1, <1>3, CallKeeps DEF c, CraftInv, CraftTypes
<1> QED
    BY <1>1, <1>2, <1>4, <1>5, CallsAreRecords DEF CraftInv

LEMMA GdbExecStep ==
  ASSUME Pov!CraftingAssumption, CraftInv, NEW i \in DOMAIN toolCalls, Pov!GdbExec(i)
  PROVE  CraftInv'
<1>1. /\ Pov!Go(i, "done") /\ "done" \in CallPlaces
         /\ UNCHANGED <<kind, turns, kept, checked, crossed, crafted>>
      /\ gates' = gates \cup {"debugged"}
    BY DEF Pov!GdbExec, CallPlaces
<1>2. kind = "decoder"
    BY DEF Pov!GdbExec, Pov!At, CraftInv, ToolsFit
<1> QED
    BY <1>1, <1>2, CallEnds

LEMMA CompileKaitaiStep ==
  ASSUME Pov!CraftingAssumption, CraftInv, NEW i \in DOMAIN toolCalls, Pov!CompileKaitai(i)
  PROVE  CraftInv'
<1>1. /\ toolCalls' = [toolCalls EXCEPT ![i].at = "test", ![i].prev = kept]
      /\ kept' = Pov!Confirmed(toolCalls[i].arg) /\ toolCalls[i].at = "compile"
      /\ crossed' = (crossed \/ Pov!OthersOnTrial(i))
      /\ UNCHANGED <<kind, turns, gates, checked, crafted>>
    BY DEF Pov!CompileKaitai, Pov!At
<1>2. kind = "kaitai"
    BY DEF Pov!CompileKaitai, Pov!At, CraftInv, ToolsFit
<1>3. toolCalls \in Seq(CallType) /\ toolCalls[i] \in CallType
    BY DEF CraftInv, CraftTypes
<1> DEFINE new == [toolCalls[i] EXCEPT !.at = "test", !.prev = kept]
<1>4. /\ new \in CallType /\ new.at = "test" /\ new.prev = kept
      /\ new.tool = toolCalls[i].tool /\ new.arg = toolCalls[i].arg
    BY <1>3 DEF CallType, CallPlaces, CraftInv, CraftTypes
<1>5. toolCalls' = [toolCalls EXCEPT ![i] = new]
    BY <1>1
<1> HIDE DEF new
<1>6. /\ toolCalls' \in Seq(CallType) /\ DOMAIN toolCalls' = DOMAIN toolCalls
         /\ Len(toolCalls') = Len(toolCalls)
      /\ toolCalls'[i] = new /\ \A j \in DOMAIN toolCalls \ {i} : toolCalls'[j] = toolCalls[j]
    BY <1>3, <1>4, <1>5, ExceptSeq
<1>7. CraftTypes' /\ ToolsFit' /\ KeptWasSeen'
  <2>1. toolCalls[i].arg \in Candidates
      BY <1>3 DEF CallType
  <2>2. kept' \in Results
      BY <1>1, <2>1 DEF Pov!Confirmed, Results
  <2>3. crossed' \in BOOLEAN
      BY <1>1 DEF CraftInv, CraftTypes, Pov!OthersOnTrial
  <2> QED
      BY <1>1, <1>2, <1>4, <1>6, <2>2, <2>3
         DEF CraftInv, CraftTypes, ToolsFit, KeptWasSeen, Pov!ConfirmedWasSeen
<1>8. RecordedIsKept'
  <2>1. toolCalls # <<>>
      BY <1>3
  <2> QED
      BY <1>1, <1>2, <2>1 DEF CraftInv, RecordedIsKept, Pov!SeenIsReported
<1>9. ParserWasRead'
  <2>1. SUFFICES ASSUME ~crossed' PROVE ParserWasRead'
      BY <1>1, <1>2 DEF ParserWasRead
  <2>2. ~crossed /\ ~Pov!OthersOnTrial(i) /\ i \notin Trials
      BY <1>1, <2>1 DEF Trials
  <2>3. Trials \subseteq {i}
      BY <1>2, <2>2 DEF Trials, Pov!OthersOnTrial, Pov!OnTrial, Pov!At, CraftInv, ToolsFit
  <2>4. Trials' = {i}
      BY <1>4, <1>6, <2>3 DEF Trials
  <2>5. "parsed" \in gates => kept.of \in Works
      BY <1>2, <2>2, <2>3 DEF CraftInv, ParserWasRead
  <2>6. kept'.of = toolCalls'[i].arg /\ ("parsed" \in gates' => toolCalls'[i].prev.of \in Works)
      BY <1>1, <1>4, <1>6, <2>5 DEF Pov!Confirmed
  <2> QED
      BY <1>1, <1>2, <2>4, <2>6 DEF ParserWasRead
<1> QED
    BY <1>7, <1>8, <1>9 DEF CraftInv

LEMMA DecodeAllStep ==
  ASSUME Pov!CraftingAssumption, CraftInv, NEW i \in DOMAIN toolCalls, Pov!DecodeAll(i)
  PROVE  CraftInv'
<1> DEFINE c == toolCalls[i].arg
           prev == toolCalls[i].prev
<1>1. /\ Pov!Go(i, "done") /\ Pov!Seen(c) /\ "done" \in CallPlaces
         /\ UNCHANGED <<kind, turns, crafted>>
      /\ IF c \in Works
         THEN kept' = kept
              /\ crossed' = (crossed /\ (Pov!OthersOnTrial(i) \/ kept # Pov!Confirmed(c)))
         ELSE kept' = (IF prev # Pov!Nothing THEN prev ELSE kept) /\ gates' = gates
              /\ crossed' = crossed
      /\ toolCalls[i].at = "test"
    BY DEF Pov!DecodeAll, CallPlaces, Pov!RolledBack, Pov!OnTrial, Pov!At
<1>2. kind = "kaitai"
    BY DEF Pov!DecodeAll, Pov!OnTrial, Pov!At, CraftInv, ToolsFit
<1>3. checked \subseteq checked' /\ checked' \subseteq Works
    BY <1>1 DEF Pov!Seen, CraftInv, CraftTypes
<1>4. prev \in Results
  <2>1. toolCalls \in Seq(CallType)
      BY DEF CraftInv, CraftTypes
  <2>2. toolCalls[i] \in CallType
      BY <2>1
  <2> QED
      BY <2>2 DEF CallType
<1> HIDE DEF c, prev
<1>5. kept' \in Results /\ crossed' \in BOOLEAN
    BY <1>1, <1>4 DEF CraftInv, CraftTypes
<1>6. CraftTypes' /\ ToolsFit' /\ KeptWasSeen'
    BY <1>1, <1>2, <1>3, <1>5, CallKeeps
<1>7. /\ DOMAIN toolCalls' = DOMAIN toolCalls /\ toolCalls'[i].at = "done"
      /\ \A j \in DOMAIN toolCalls \ {i} : toolCalls'[j] = toolCalls[j]
      /\ toolCalls # <<>> /\ toolCalls' # <<>>
    BY <1>1, CallGoes
<1>8. RecordedIsKept'
    BY <1>1, <1>2, <1>7 DEF CraftInv, RecordedIsKept, Pov!SeenIsReported
<1>9. i \in Trials /\ Trials' = Trials \ {i}
    BY <1>1, <1>7 DEF Trials
<1>10. ASSUME ~crossed' PROVE Trials' = {} /\ ("parsed" \in gates' => kept'.of \in Works)
  <2>1. CASE crossed
    <3>1. c \in Works /\ ~Pov!OthersOnTrial(i) /\ kept = Pov!Confirmed(c) /\ kept' = kept
        BY <1>1, <1>10, <2>1
    <3>2. Trials \subseteq {i}
        BY <1>2, <3>1 DEF Trials, Pov!OthersOnTrial, Pov!OnTrial, Pov!At, CraftInv, ToolsFit
    <3> QED
        BY <1>9, <3>1, <3>2 DEF Pov!Confirmed
  <2>2. CASE ~crossed
    <3>1. Trials = {i} /\ kept.of = c /\ ("parsed" \in gates => prev.of \in Works)
        BY <1>2, <1>9, <2>2 DEF CraftInv, ParserWasRead, c, prev
    <3>2. prev.of \in Works => prev # Pov!Nothing
        BY DEF Pov!Nothing, Pov!CraftingAssumption
    <3> QED
        BY <1>1, <1>9, <3>1, <3>2
  <2> QED
      BY <2>1, <2>2
<1>11. ParserWasRead'
    BY <1>1, <1>2, <1>10 DEF ParserWasRead
<1> QED
    BY <1>6, <1>8, <1>11 DEF CraftInv

LEMMA CoverageHookStep ==
  ASSUME Pov!CraftingAssumption, CraftInv, NEW i \in DOMAIN toolCalls, Pov!CoverageHook(i)
  PROVE  CraftInv'
    BY Crashed DEF Pov!CoverageHook, CallPlaces

-----------------------------------------------------------------------------
LEMMA MessageStep ==
  ASSUME Pov!CraftingAssumption, CraftInv, Pov!Message
  PROVE  CraftInv'
<1>1. PICK n \in 1..CraftParallel : \E tools \in [1..n -> Pov!Tools], args
           \in [1..n -> Candidates] :
        toolCalls' = [i \in 1..n |-> [tool |-> tools[i][1], arg |-> args[i], at |-> tools[i][2],
                                  prev |-> Pov!Nothing]]
    BY DEF Pov!Message
<1>2. PICK tools \in [1..n -> Pov!Tools], args \in [1..n -> Candidates] :
        toolCalls' = [i \in 1..n |-> [tool |-> tools[i][1], arg |-> args[i], at |-> tools[i][2],
                                  prev |-> Pov!Nothing]]
    BY <1>1
<1>3. crafted = None /\ toolCalls = <<>> /\ UNCHANGED <<kind, kept, gates, checked, crossed, crafted>>
    BY DEF Pov!Message
<1>4. ASSUME NEW i \in 1..n
      PROVE  /\ toolCalls'[i]
                = [tool |-> tools[i][1], arg |-> args[i], at |-> tools[i][2],
                prev |-> Pov!Nothing]
             /\ tools[i] \in Pov!Tools /\ args[i] \in Candidates
    BY <1>2
<1>5. \A t \in Pov!Tools :
        /\ t[1] \in {"test_pov", "debug_pov", "terminate", "query_coverage", "test_decoding",
                     "test_decoder", "gdb_exec", "compile_kaitai"}
        /\ t[2] \in CallPlaces \ {"done"}
        /\ t[1] \in {"test_pov", "debug_pov", "terminate"} <=> kind = "pov"
        /\ t[1] \in {"test_decoder", "gdb_exec"} <=> kind = "decoder"
        /\ t[1] = "compile_kaitai" <=> kind = "kaitai"
        /\ t[1] = "test_decoding" => kind = "encoder"
        /\ kind = "kaitai" => t[2] # "test"
  <2> USE DEF CallPlaces, Pov!Tools
  <2>1. CASE kind = "pov"
      BY <2>1
  <2>2. CASE kind = "encoder"
      BY <2>2
  <2>3. CASE kind = "decoder"
      BY <2>3
  <2>4. CASE kind = "kaitai"
      BY <2>4
  <2>5. CASE kind = "flip"
      BY <2>5
  <2> QED
      BY <2>1, <2>2, <2>3, <2>4, <2>5 DEF CraftInv, CraftTypes, Pov!Kinds
<1>6. ASSUME NEW i \in 1..n PROVE toolCalls'[i] \in CallType
  <2>1. /\ tools[i][1]
           \in {"test_pov", "debug_pov", "terminate", "query_coverage", "test_decoding",
                           "test_decoder", "gdb_exec", "compile_kaitai"}
        /\ tools[i][2] \in CallPlaces
      BY <1>4, <1>5
  <2>2. args[i] \in Candidates /\ Pov!Nothing \in Results
      BY <1>4, NothingIsAResult
  <2> HIDE DEF CallPlaces, Results, Pov!Nothing
  <2>3. toolCalls'[i]
        = [tool |-> tools[i][1], arg |-> args[i], at |-> tools[i][2], prev |-> Pov!Nothing]
      BY <1>4
  <2> QED
      BY <2>1, <2>2, <2>3 DEF CallType
<1>7. toolCalls' \in Seq(CallType) /\ DOMAIN toolCalls' = 1..n /\ Len(toolCalls') = n
  <2>1. toolCalls' = [i \in 1..n |-> toolCalls'[i]]
      BY <1>2
  <2>2. toolCalls' \in [1..n -> CallType]
      BY <1>6, <2>1
  <2> QED
      BY <2>2
<1>8. CraftTypes' /\ ToolsFit' /\ KeptWasSeen'
  <2>1. ToolsFit'
      BY <1>3, <1>4, <1>5, <1>7 DEF ToolsFit
  <2> QED
      BY <1>3, <1>7, <2>1 DEF CraftInv, CraftTypes, KeptWasSeen, Pov!ConfirmedWasSeen
<1>9. RecordedIsKept'
  <2>1. toolCalls' # <<>>
    <3>1. Len(toolCalls') # 0
        BY <1>1, <1>7 DEF Pov!CraftingAssumption
    <3> QED
        BY <3>1, EmptySeq
  <2> QED
      BY <1>3, <2>1 DEF CraftInv, RecordedIsKept, Pov!SeenIsReported
<1>10. ParserWasRead'
  <2>1. Trials = {}
      BY <1>3 DEF Trials
  <2>2. kind = "kaitai" => Trials' = {}
      BY <1>4, <1>5, <1>7 DEF Trials
  <2> QED
      BY <1>3, <2>1, <2>2 DEF CraftInv, ParserWasRead
<1> QED
    BY <1>8, <1>9, <1>10 DEF CraftInv

LEMMA AfterCallsStep ==
  ASSUME Pov!CraftingAssumption, CraftInv, Pov!AfterCalls
  PROVE  CraftInv'
<1>1. /\ toolCalls' = <<>> /\ UNCHANGED <<kind, kept, gates, checked, crossed>> /\ Pov!Ended
      /\ crafted' = IF kind \in {"pov", "flip"} /\ kept # Pov!Nothing THEN Pov!Produced ELSE None
    BY DEF Pov!AfterCalls
<1>2. kept.confirmed => Pov!Produced = kept
    BY DEF Pov!Produced
<1>3. ~kept.confirmed => Pov!Produced = Pov!Nothing
    BY DEF Pov!Produced
<1>4. kept # None /\ Pov!Nothing # None
    BY NothingIsAResult DEF CraftInv, CraftTypes, Pov!CraftingAssumption, Results
<1>5. CraftTypes' /\ ToolsFit'
    BY <1>1 DEF CraftInv, CraftTypes, ToolsFit
<1>6. KeptWasSeen'
    BY <1>1, <1>2, <1>3 DEF CraftInv, KeptWasSeen, Pov!ConfirmedWasSeen, Pov!Nothing
<1>7. RecordedIsKept'
  <2>1. kind \in {"pov", "flip"} /\ checked # {} /\ ~crossed => kept.confirmed
      BY DEF CraftInv, RecordedIsKept
  <2>2. kind \in {"pov", "flip"} /\ crafted' = None => kept = Pov!Nothing
      BY <1>1, <1>2, <1>3, <1>4
  <2>3. Pov!SeenIsReported'
      BY <1>1, <1>2, <1>3, <2>1 DEF Pov!SeenIsReported, Pov!Nothing
  <2> QED
      BY <1>1, <2>1, <2>2, <2>3 DEF RecordedIsKept
<1>8. ParserWasRead'
  <2>1. \A i \in DOMAIN toolCalls : toolCalls[i].at = "done"
      BY <1>1 DEF Pov!Ended
  <2>2. Trials = {} /\ Trials' = {}
      BY <1>1, <2>1 DEF Trials
  <2> QED
      BY <1>1, <2>2 DEF CraftInv, ParserWasRead
<1> QED
    BY <1>5, <1>6, <1>7, <1>8 DEF CraftInv

LEMMA TextStep ==
  ASSUME Pov!CraftingAssumption, CraftInv, Pov!Text \/ Pov!LastWord
  PROVE  CraftInv'
<1>1. toolCalls = <<>> /\ crafted = None
      /\ UNCHANGED <<kind, toolCalls, kept, checked, crossed>>
    BY DEF Pov!Text, Pov!LastWord
<1>2. crafted' = None \/ kind \notin {"pov", "flip"} \/ crafted' = Pov!Nothing
      \/ \E c \in Candidates : crafted' = Pov!Claim(c)
    BY DEF Pov!Text, Pov!LastWord
<1>3. gates' = gates \/ kind = "encoder"
    BY DEF Pov!Text, Pov!LastWord
<1>4. kind \in {"pov", "flip"} /\ crafted' # None => ~ crafted'.confirmed
    BY <1>2 DEF Pov!Nothing, Pov!Claim
<1>5. CraftTypes' /\ ToolsFit' /\ KeptWasSeen'
    BY <1>1, <1>4 DEF CraftInv, CraftTypes, ToolsFit, KeptWasSeen, Pov!ConfirmedWasSeen
<1>6. RecordedIsKept'
  <2>1. kind \in {"pov", "flip"} => kept = Pov!Nothing /\ (checked # {} => crossed)
      BY <1>1 DEF CraftInv, RecordedIsKept, Pov!Nothing
  <2> QED
      BY <1>1, <2>1 DEF CraftInv, RecordedIsKept, Pov!SeenIsReported
<1>7. ParserWasRead'
  <2>1. Trials' = Trials
      BY <1>1 DEF Trials
  <2> QED
      BY <1>1, <1>3, <2>1 DEF CraftInv, ParserWasRead
<1> QED
    BY <1>5, <1>6, <1>7 DEF CraftInv

LEMMA CraftNext ==
  ASSUME Pov!CraftingAssumption, CraftInv, [Pov!Next]_(Pov!craftVars)
  PROVE  CraftInv'
<1>1. CASE UNCHANGED Pov!craftVars
    BY <1>1 DEF Pov!craftVars, CraftInv, CraftTypes, ToolsFit, KeptWasSeen, Pov!ConfirmedWasSeen,
       RecordedIsKept, ParserWasRead, Trials, Pov!SeenIsReported
<1>2. CASE Pov!Message
    BY <1>2, MessageStep
<1>3. CASE Pov!AfterCalls \/ Pov!Text \/ Pov!LastWord
    BY <1>3, AfterCallsStep, TextStep
<1>4. ASSUME NEW i \in DOMAIN toolCalls,
             \/ Pov!SeedHook(i) \/ Pov!TestPov(i) \/ Pov!TestPovHook(i) \/ Pov!Terminate(i)
             \/ Pov!Raised(i)
             \/ Pov!QueryEncoder(i) \/ Pov!TestDecoding(i) \/ Pov!TestDecoder(i) \/ Pov!GdbExec(i)
             \/ Pov!CompileKaitai(i) \/ Pov!DecodeAll(i) \/ Pov!CoverageHook(i)
      PROVE  CraftInv'
    BY <1>4, SeedHookStep, TestPovStep, TestPovHookStep, TerminateStep, RaisedStep,
       QueryEncoderStep, TestDecoderStep, GdbExecStep, CompileKaitaiStep, DecodeAllStep,
       CoverageHookStep
<1> QED
    BY <1>1, <1>2, <1>3, <1>4 DEF Pov!Next

LEMMA CraftAgrees == CraftInv => Pov!CraftedIsChecked
<1>1. CraftInv => Pov!ParserParses
    BY DEF CraftInv, ParserWasRead, Trials, Pov!ParserParses
<1> QED
    BY <1>1 DEF CraftInv, KeptWasSeen, RecordedIsKept, Pov!CraftedIsChecked

(***************************************************************************)
(* The debugger (crs/modules/debugger.py).                                 *)
(***************************************************************************)
\* The sizes of sets are those of FiniteSets.
LEMMA DebugSets ==
  \A S : (Debug!IsFiniteSet(S) <=> IsFiniteSet(S)) /\ Debug!Cardinality(S) = Cardinality(S)
    BY DEF Cardinality, Debug!Cardinality, IsFiniteSet, Debug!IsFiniteSet

CallPhases ==
  {"idle", "init", "editing", "artifacts", "building", "falling back", "harness", "running",
   "done"}
CallAnswers ==
  {None, "ok", "not hit", "failed", "unsupported", "wrong tool", "invalid", "timed out"}
CallRecords ==
  [phase : CallPhases, tool : {None, "gdb", "jdb"}, todo : SUBSET BuildFiles, hits : Nat,
   at : {None, "starting", "running", "stopped", "left"}, answer : CallAnswers]

DebugTypes ==
  /\ call \in [Callers -> CallRecords]
  /\ edited \subseteq BuildFiles /\ inited \in BOOLEAN /\ debugFaults \in Nat
  /\ once \in [{"maven", "ant"} -> {"none", "ok", "err"}]
  /\ holder \in [{"init", "artifacts"} -> Callers \cup {None}]

\* What is kept: a step of init that is done left nothing to edit, and one that failed was a
\* fault; after init the edits are those of the build.
KeptIsRight ==
  /\ \A k \in {"maven", "ant"} :
       /\ once[k] = "ok" => Debug!FilesOf(k) \ BrokenFiles \subseteq edited
       /\ once[k] = "err" => debugFaults > 0
  /\ inited /\ language = "jvm" => once["maven"] = "ok" /\ once["ant"] = "ok"
  /\ built # None => inited /\ built = edited

\* Whoever edits or builds has the right to; whoever is past init finds it done.
CallersFit(c) ==
  /\ call[c].phase = "editing" =>
       /\ holder["init"] = c /\ language = "jvm" /\ ~ inited /\ once[Debug!Kind] = "none"
       /\ Debug!FilesOf(Debug!Kind) \ BrokenFiles \subseteq edited \cup call[c].todo
  /\ call[c].phase \in {"artifacts", "building", "falling back", "harness", "running"} => inited
  /\ call[c].phase \in {"building", "falling back"} => holder["artifacts"] = c /\ built = None
  /\ call[c].phase \in {"harness", "running"} => built # None
  /\ call[c].answer # None => call[c].phase = "done"
  /\ call[c].answer \in {"ok", "not hit"} => (call[c].answer = "ok") = (call[c].hits > 0)
  /\ call[c].answer = "unsupported" => debugFaults > 0

DebugInv == DebugTypes /\ KeptIsRight /\ \A c \in Callers : CallersFit(c)

LEMMA DebugStarts == ASSUME Debug!DebuggerAssumption, Debug!Init PROVE DebugInv
<1>1. Debug!Idle \in CallRecords
    BY DEF Debug!Idle, CallRecords, CallPhases, CallAnswers
<1>2. DebugTypes
  <2>1. /\ once = [k \in {"maven", "ant"} |-> IF k = "maven" THEN "none" ELSE "none"]
        /\ holder = [k \in {"init", "artifacts"} |-> IF k = "init" THEN None ELSE None]
      BY SMT DEF Debug!Init
  <2> QED
      BY <1>1, <2>1 DEF Debug!Init, DebugTypes
<1>3. KeptIsRight
    BY DEF Debug!Init, KeptIsRight
<1>4. ASSUME NEW c \in Callers PROVE CallersFit(c)
    BY DEF Debug!Init, CallersFit, Debug!Idle, Debug!DebuggerAssumption
<1> QED
    BY <1>2, <1>3, <1>4 DEF DebugInv

\* A step changes the call of one caller.
LEMMA CallGoesOn ==
  ASSUME NEW c \in Callers, call \in [Callers -> CallRecords], NEW r \in CallRecords,
         call' = [call EXCEPT ![c] = r]
  PROVE  /\ call' \in [Callers -> CallRecords]
         /\ call'[c] = r /\ \A d \in Callers \ {c} : call'[d] = call[d]
    OBVIOUS

LEMMA GoesTo ==
  ASSUME DebugTypes, NEW c \in Callers, NEW phase \in CallPhases, Debug!Go(c, phase)
  PROVE  /\ call' \in [Callers -> CallRecords] /\ call'[c] = [call[c] EXCEPT !.phase = phase]
         /\ call'[c].phase = phase /\ call'[c].answer = call[c].answer
         /\ call'[c].hits = call[c].hits /\ call'[c].todo = call[c].todo
         /\ \A d \in Callers \ {c} : call'[d] = call[d]
<1>1. call \in [Callers -> CallRecords] /\ call[c] \in CallRecords
    BY DEF DebugTypes
<1>2. [call[c] EXCEPT !.phase = phase] \in CallRecords
    BY <1>1 DEF CallRecords
<1>3. call' = [call EXCEPT ![c] = [call[c] EXCEPT !.phase = phase]]
    BY DEF Debug!Go
<1>4. /\ call' \in [Callers -> CallRecords] /\ call'[c] = [call[c] EXCEPT !.phase = phase]
      /\ \A d \in Callers \ {c} : call'[d] = call[d]
    BY <1>1, <1>2, <1>3
<1> QED
    BY <1>1, <1>4 DEF CallRecords

LEMMA Answered ==
  ASSUME DebugTypes, NEW c \in Callers, NEW answer \in CallAnswers, Debug!Return(c, answer)
  PROVE  /\ call' \in [Callers -> CallRecords]
         /\ call'[c].phase = "done" /\ call'[c].answer = answer /\ call'[c].hits = call[c].hits
         /\ \A d \in Callers \ {c} : call'[d] = call[d]
<1>1. call \in [Callers -> CallRecords] /\ call[c] \in CallRecords
    BY DEF DebugTypes
<1>2. [call[c] EXCEPT !.phase = "done", !.answer = answer] \in CallRecords
    BY <1>1 DEF CallRecords, CallPhases
<1>3. call' = [call EXCEPT ![c] = [call[c] EXCEPT !.phase = "done", !.answer = answer]]
    BY DEF Debug!Return
<1>4. /\ call' \in [Callers -> CallRecords]
      /\ call'[c] = [call[c] EXCEPT !.phase = "done", !.answer = answer]
      /\ \A d \in Callers \ {c} : call'[d] = call[d]
    BY <1>1, <1>2, <1>3
<1> QED
    BY <1>1, <1>4 DEF CallRecords

LEMMA Released ==
  ASSUME DebugTypes, NEW c \in Callers, NEW what \in {"init", "artifacts"}
  PROVE  /\ Debug!Free(what, c) \in [{"init", "artifacts"} -> Callers \cup {None}]
         /\ \A k \in {"init", "artifacts"} : \A d \in Callers \ {c} :
              holder[k] = d => Debug!Free(what, c)[k] = d
         /\ \A k \in {"init", "artifacts"} \ {what} : Debug!Free(what, c)[k] = holder[k]
    BY DEF DebugTypes, Debug!Free

\* A caller that takes no step still fits if nobody takes from it what it holds.
LEMMA StaysFit ==
  ASSUME DebugInv, NEW d \in Callers, call'[d] = call[d], language' = language,
         debugFaults > 0 => debugFaults' > 0, edited \subseteq edited', inited => inited',
         built # None => built' # None,
         call[d].phase = "editing" => holder'["init"] = holder["init"] /\ ~ inited'
         /\ once' = once,
         call[d].phase \in {"building", "falling back"} =>
           holder'["artifacts"] = holder["artifacts"] /\ built' = built
  PROVE  CallersFit(d)'
<1>1. CallersFit(d)
    BY DEF DebugInv
<1>2. call[d].phase = "editing" =>
        Debug!Kind' = Debug!Kind /\ Debug!FilesOf(Debug!Kind)' = Debug!FilesOf(Debug!Kind)
        /\ once'[Debug!Kind'] = once[Debug!Kind]
    BY DEF Debug!Kind, Debug!FilesOf
<1>3. (call'[d].phase = "editing" =>
         /\ holder'["init"] = d /\ language' = "jvm" /\ ~ inited' /\ once'[Debug!Kind'] = "none"
         /\ Debug!FilesOf(Debug!Kind)' \ BrokenFiles \subseteq edited' \cup call'[d].todo)
    BY <1>1, <1>2 DEF CallersFit
<1>4. call'[d].answer = "unsupported" => debugFaults' > 0
  <2>1. call[d].answer = "unsupported" => debugFaults > 0
      BY <1>1 DEF CallersFit
  <2> QED
      BY <2>1
<1> QED
    BY <1>1, <1>3, <1>4 DEF CallersFit

LEMMA ExecStep ==
  ASSUME Debug!DebuggerAssumption, DebugInv, NEW c \in Callers, NEW tool \in {"gdb", "jdb"},
       Debug!Exec(c, tool)
  PROVE  DebugInv'
<1>1. call \in [Callers -> CallRecords] /\ call[c] \in CallRecords /\ call[c].phase = "idle"
    BY DEF DebugInv, DebugTypes, Debug!Exec
<1>2. call' = [call EXCEPT ![c] = [call[c] EXCEPT !.phase = "init", !.tool = tool]]
    BY DEF Debug!Exec
<1>3. [call[c] EXCEPT !.phase = "init", !.tool = tool] \in CallRecords
    BY <1>1 DEF CallRecords, CallPhases
<1>4. /\ call' \in [Callers -> CallRecords]
      /\ call'[c] = [call[c] EXCEPT !.phase = "init", !.tool = tool]
      /\ \A d \in Callers \ {c} : call'[d] = call[d]
    BY <1>1, <1>2, <1>3
<1>5. call[c].answer = None
    BY <1>1 DEF DebugInv, CallersFit
<1>6. call'[c].phase = "init" /\ call'[c].answer = None
    BY <1>1, <1>4, <1>5 DEF CallRecords
<1>7. UNCHANGED <<language, edited, once, inited, built, holder, debugFaults>>
      /\ debugFaults \in Nat
    BY DEF Debug!Exec, DebugInv, DebugTypes
<1>8. CallersFit(c)'
    BY <1>6 DEF CallersFit, Debug!DebuggerAssumption
<1>9. ASSUME NEW d \in Callers \ {c} PROVE CallersFit(d)'
  <2>1. call[d].phase = "editing" => ~ inited'
      BY <1>7 DEF DebugInv, CallersFit
  <2>2. call'[d] = call[d] /\ (debugFaults > 0 => debugFaults' > 0)
      BY <1>4, <1>7
  <2> QED
      BY <1>7, <2>1, <2>2, StaysFit
<1> QED
    BY <1>4, <1>7, <1>8, <1>9 DEF DebugInv, DebugTypes, KeptIsRight, Debug!FilesOf

LEMMA InitedStep ==
  ASSUME Debug!DebuggerAssumption, DebugInv, NEW c \in Callers, Debug!Inited(c)
  PROVE  DebugInv'
<1>1. call[c].phase = "init" /\ Debug!Go(c, "artifacts")
      /\ UNCHANGED <<language, edited, once, built, debugFaults>>
    BY DEF Debug!Inited
<1>2. /\ call' \in [Callers -> CallRecords]
      /\ call'[c].phase = "artifacts" /\ call'[c].answer = call[c].answer
      /\ \A d \in Callers \ {c} : call'[d] = call[d]
    BY <1>1, GoesTo DEF DebugInv, CallPhases
<1>3. inited' = TRUE /\ DebugTypes'
  <2>1. holder' = holder \/ holder' = Debug!Free("init", c)
      BY DEF Debug!Inited
  <2>2. inited' = TRUE
      BY DEF Debug!Inited, DebugInv, DebugTypes
  <2> QED
      BY <1>1, <1>2, <2>1, <2>2, Released DEF DebugInv, DebugTypes
<1>4. \/ inited
      \/ holder["init"] \in {None, c}
         /\ (language = "jvm" => once["maven"] = "ok" /\ once["ant"] = "ok")
    BY DEF Debug!Inited
<1>5. KeptIsRight'
    BY <1>1, <1>3, <1>4 DEF DebugInv, KeptIsRight, Debug!FilesOf
<1>6. ASSUME NEW d \in Callers PROVE call[d].phase # "editing"
    BY <1>1, <1>4 DEF DebugInv, CallersFit, Debug!DebuggerAssumption
<1>7. holder'["artifacts"] = holder["artifacts"]
    BY Released DEF Debug!Inited, DebugInv
<1>8. CallersFit(c)'
    BY <1>1, <1>2, <1>3 DEF DebugInv, CallersFit, Debug!DebuggerAssumption
<1>9. \A d \in Callers \ {c} : CallersFit(d)'
    BY <1>1, <1>2, <1>3, <1>6, <1>7, StaysFit DEF DebugInv, DebugTypes
<1> QED
    BY <1>3, <1>5, <1>8, <1>9 DEF DebugInv

LEMMA FindFilesStep ==
  ASSUME Debug!DebuggerAssumption, DebugInv, NEW c \in Callers, Debug!FindFiles(c)
  PROVE  DebugInv'
<1> USE DEF DebugInv, DebugTypes
<1>1. /\ call[c].phase = "init" /\ language = "jvm" /\ ~ inited /\ holder["init"] \in {None, c}
      /\ once[Debug!Kind] = "none" /\ Debug!Kind \in {"maven", "ant"}
      /\ UNCHANGED <<language, edited, inited, built>>
    BY DEF Debug!FindFiles, Debug!Kind
<1>2. ASSUME NEW d \in Callers PROVE call[d].phase = "editing" => d = c
    BY <1>1 DEF CallersFit, Debug!DebuggerAssumption
<1>3. CASE Debug!Fault /\ once' = [once EXCEPT ![Debug!Kind] = "err"]
           /\ UNCHANGED <<call, holder>>
  <2>1. debugFaults' \in Nat /\ debugFaults' > 0
      BY <1>3 DEF Debug!Fault
  <2>2. DebugTypes'
      BY <1>1, <1>3, <2>1
  <2>3. KeptIsRight'
      BY <1>1, <1>3, <2>1 DEF KeptIsRight, Debug!FilesOf
  <2>4. \A d \in Callers : CallersFit(d)'
      BY <1>1, <1>2, <1>3, <2>1, StaysFit
  <2> QED
      BY <2>2, <2>3, <2>4
<1>4. CASE /\ call' = [call EXCEPT ![c].phase = "editing", ![c].todo = Debug!FilesOf(Debug!Kind)]
           /\ holder' = [holder EXCEPT !.init = c] /\ UNCHANGED <<once, debugFaults>>
  <2>1. call[c] \in CallRecords /\ call[c].answer = None
      BY <1>1 DEF CallersFit
  <2>2. call' = [call EXCEPT ![c]
        = [call[c] EXCEPT !.phase = "editing", !.todo = Debug!FilesOf(Debug!Kind)]]
      BY <1>4
  <2>3. [call[c] EXCEPT !.phase = "editing", !.todo = Debug!FilesOf(Debug!Kind)] \in CallRecords
      BY <2>1 DEF CallRecords, CallPhases, Debug!FilesOf
  <2>4. /\ call' \in [Callers -> CallRecords]
        /\ call'[c] = [call[c] EXCEPT !.phase = "editing", !.todo = Debug!FilesOf(Debug!Kind)]
        /\ \A d \in Callers \ {c} : call'[d] = call[d]
      BY <2>2, <2>3
  <2>5. call'[c].phase = "editing" /\ call'[c].answer = None
        /\ call'[c].todo = Debug!FilesOf(Debug!Kind)
      BY <2>1, <2>4 DEF CallRecords
  <2>6. DebugTypes' /\ holder'["init"] = c /\ holder'["artifacts"] = holder["artifacts"]
      BY <1>1, <1>4, <2>4
  <2>7. KeptIsRight'
      BY <1>1, <1>4 DEF KeptIsRight, Debug!FilesOf
  <2>8. CallersFit(c)'
    <3>1. Debug!Kind' = Debug!Kind /\ Debug!FilesOf(Debug!Kind)' = Debug!FilesOf(Debug!Kind)
          /\ once'[Debug!Kind'] = "none"
        BY <1>1, <1>4 DEF Debug!Kind, Debug!FilesOf
    <3> QED
        BY <1>1, <2>5, <2>6, <3>1 DEF CallersFit, Debug!DebuggerAssumption
  <2>9. \A d \in Callers \ {c} : CallersFit(d)'
      BY <1>1, <1>2, <1>4, <2>4, <2>6, StaysFit
  <2> QED
      BY <2>6, <2>7, <2>8, <2>9
<1> QED
    BY <1>3, <1>4 DEF Debug!FindFiles

LEMMA InitFailedStep ==
  ASSUME Debug!DebuggerAssumption, DebugInv, NEW c \in Callers, Debug!InitFailed(c)
  PROVE  DebugInv'
<1> USE DEF DebugInv, DebugTypes
<1>1. /\ call[c].phase = "init" /\ holder["init"] \in {None, c} /\ holder' = Debug!Free("init", c)
      /\ "err" \in {once["maven"], once["ant"]} /\ Debug!Return(c, "unsupported")
      /\ UNCHANGED <<language, edited, once, inited, built, debugFaults>>
    BY DEF Debug!InitFailed
<1>2. /\ call' \in [Callers -> CallRecords]
      /\ call'[c].phase = "done" /\ call'[c].answer = "unsupported"
      /\ \A d \in Callers \ {c} : call'[d] = call[d]
    BY <1>1, Answered DEF CallAnswers
<1>3. DebugTypes' /\ holder'["artifacts"] = holder["artifacts"]
    BY <1>1, <1>2, Released
<1>4. debugFaults > 0
    BY <1>1 DEF KeptIsRight
<1>5. CallersFit(c)'
    BY <1>1, <1>2, <1>4 DEF CallersFit
<1>6. \A d \in Callers \ {c} : call[d].phase = "editing" => holder["init"] = d
    BY DEF CallersFit
<1>7. \A d \in Callers \ {c} : CallersFit(d)'
  <2> SUFFICES ASSUME NEW d \in Callers \ {c} PROVE CallersFit(d)'
      OBVIOUS
  <2>1. call[d].phase # "editing"
      BY <1>1, <1>6 DEF Debug!DebuggerAssumption
  <2>2. call'[d] = call[d] /\ (debugFaults > 0 => debugFaults' > 0)
      BY <1>1, <1>2
  <2> QED
      BY <1>1, <1>3, <2>1, <2>2, StaysFit
<1> QED
    BY <1>1, <1>3, <1>5, <1>7 DEF KeptIsRight, Debug!FilesOf

LEMMA EnableDebugStep ==
  ASSUME Debug!DebuggerAssumption, DebugInv, NEW c \in Callers, NEW f \in BuildFiles,
       Debug!EnableDebug(c, f)
  PROVE  DebugInv'
<1> USE DEF DebugInv, DebugTypes
<1>1. /\ call[c].phase = "editing"
         /\ edited' = IF f \in BrokenFiles THEN edited ELSE edited \union {f}
      /\ call' = [call EXCEPT ![c].todo = @ \ {f}]
      /\ UNCHANGED <<language, once, inited, built, holder, debugFaults>>
    BY DEF Debug!EnableDebug
<1>2. call[c] \in CallRecords /\ call[c].answer = None /\ ~ inited /\ built = None
    BY <1>1 DEF CallersFit, KeptIsRight
<1>3. call' = [call EXCEPT ![c] = [call[c] EXCEPT !.todo = call[c].todo \ {f}]]
    BY <1>1
<1>4. [call[c] EXCEPT !.todo = call[c].todo \ {f}] \in CallRecords
    BY <1>2 DEF CallRecords
<1>5. /\ call' \in [Callers -> CallRecords]
         /\ call'[c] = [call[c] EXCEPT !.todo = call[c].todo \ {f}]
      /\ \A d \in Callers \ {c} : call'[d] = call[d]
    BY <1>3, <1>4
<1>6. /\ call'[c].phase = "editing" /\ call'[c].answer = None
         /\ call'[c].todo = call[c].todo \ {f}
    BY <1>1, <1>2, <1>5 DEF CallRecords
<1>7. DebugTypes' /\ edited \subseteq edited'
    BY <1>1, <1>5
<1>8. KeptIsRight'
    BY <1>1, <1>2, <1>7 DEF KeptIsRight, Debug!FilesOf
<1>9. CallersFit(c)'
  <2>1. Debug!Kind' = Debug!Kind /\ Debug!FilesOf(Debug!Kind)' = Debug!FilesOf(Debug!Kind)
        /\ once'[Debug!Kind'] = once[Debug!Kind]
      BY <1>1 DEF Debug!Kind, Debug!FilesOf
  <2>2. Debug!FilesOf(Debug!Kind) \ BrokenFiles \subseteq edited' \cup call'[c].todo
    <3>1. Debug!FilesOf(Debug!Kind) \ BrokenFiles \subseteq edited \cup call[c].todo
        BY <1>1 DEF CallersFit
    <3> QED
        BY <1>1, <1>6, <3>1
  <2> QED
      BY <1>1, <1>6, <2>1, <2>2 DEF CallersFit, Debug!DebuggerAssumption
<1>10. \A d \in Callers \ {c} : CallersFit(d)'
    BY <1>1, <1>2, <1>5, <1>7, StaysFit
<1> QED
    BY <1>7, <1>8, <1>9, <1>10

LEMMA EditedStep ==
  ASSUME Debug!DebuggerAssumption, DebugInv, NEW c \in Callers, Debug!Edited(c)
  PROVE  DebugInv'
<1> USE DEF DebugInv, DebugTypes
<1>1. /\ call[c].phase = "editing" /\ call[c].todo = {}
         /\ once' = [once EXCEPT ![Debug!Kind] = "ok"]
      /\ call' = [call EXCEPT ![c].phase = "init", ![c].todo = {}]
      /\ UNCHANGED <<language, edited, inited, built, holder, debugFaults>>
    BY DEF Debug!Edited, Debug!AllDone
<1>2. call[c] \in CallRecords /\ call[c].answer = None /\ ~ inited
      /\ Debug!Kind \in {"maven", "ant"}
    BY <1>1 DEF CallersFit, Debug!Kind
<1>3. call' = [call EXCEPT ![c] = [call[c] EXCEPT !.phase = "init", !.todo = {}]]
    BY <1>1
<1>4. [call[c] EXCEPT !.phase = "init", !.todo = {}] \in CallRecords
    BY <1>2 DEF CallRecords, CallPhases
<1>5. /\ call' \in [Callers -> CallRecords]
         /\ call'[c] = [call[c] EXCEPT !.phase = "init", !.todo = {}]
      /\ \A d \in Callers \ {c} : call'[d] = call[d]
    BY <1>3, <1>4
<1>6. call'[c].phase = "init" /\ call'[c].answer = None
    BY <1>2, <1>5 DEF CallRecords
<1>7. DebugTypes'
    BY <1>1, <1>2, <1>5
<1>8. Debug!FilesOf(Debug!Kind) \ BrokenFiles \subseteq edited
    BY <1>1 DEF CallersFit
<1>9. KeptIsRight'
    BY <1>1, <1>2, <1>8 DEF KeptIsRight, Debug!FilesOf
<1>10. CallersFit(c)'
    BY <1>6 DEF CallersFit, Debug!DebuggerAssumption
<1>11. \A d \in Callers \ {c} : call[d].phase # "editing"
  <2>1. \A d \in Callers : call[d].phase = "editing" => holder["init"] = d
      BY DEF CallersFit
  <2> QED
      BY <1>1, <2>1
<1>12. \A d \in Callers \ {c} : CallersFit(d)'
    BY <1>1, <1>2, <1>5, <1>11, StaysFit
<1> QED
    BY <1>7, <1>9, <1>10, <1>12

LEMMA ArtifactsStep ==
  ASSUME Debug!DebuggerAssumption, DebugInv, NEW c \in Callers, Debug!Artifacts(c)
  PROVE  DebugInv'
<1> USE DEF DebugInv, DebugTypes
<1>1. call[c].phase = "artifacts"
      /\ UNCHANGED <<language, edited, once, inited, built, debugFaults>>
    BY DEF Debug!Artifacts
<1>2. inited /\ call[c].answer = None
    BY <1>1 DEF CallersFit
<1>3. CASE built # None /\ Debug!Go(c, "harness") /\ UNCHANGED holder
  <2>1. /\ call' \in [Callers -> CallRecords]
        /\ call'[c].phase = "harness" /\ call'[c].answer = None
        /\ \A d \in Callers \ {c} : call'[d] = call[d]
      BY <1>2, <1>3, GoesTo DEF CallPhases
  <2>2. CallersFit(c)'
      BY <1>1, <1>2, <1>3, <2>1 DEF CallersFit, Debug!DebuggerAssumption
  <2>3. \A d \in Callers \ {c} : CallersFit(d)'
      BY <1>1, <1>3, <2>1, StaysFit DEF CallersFit
  <2> QED
      BY <1>1, <1>3, <2>1, <2>2, <2>3 DEF KeptIsRight, Debug!FilesOf
<1>4. CASE /\ built = None /\ holder["artifacts"] = None
           /\ holder' = [holder EXCEPT !.artifacts = c] /\ Debug!Go(c, "building")
  <2>1. /\ call' \in [Callers -> CallRecords]
        /\ call'[c].phase = "building" /\ call'[c].answer = None
        /\ \A d \in Callers \ {c} : call'[d] = call[d]
      BY <1>2, <1>4, GoesTo DEF CallPhases
  <2>2. holder'["artifacts"] = c /\ holder'["init"] = holder["init"] /\ DebugTypes'
      BY <1>1, <1>4, <2>1
  <2>3. CallersFit(c)'
      BY <1>1, <1>2, <1>4, <2>1, <2>2 DEF CallersFit, Debug!DebuggerAssumption
  <2>4. \A d \in Callers \ {c} : call[d].phase \notin {"building", "falling back"}
    <3>1. None \notin Callers
        BY DEF Debug!DebuggerAssumption
    <3> QED
        BY <1>4, <3>1 DEF CallersFit
  <2>5. \A d \in Callers \ {c} : CallersFit(d)'
    <3> SUFFICES ASSUME NEW d \in Callers \ {c} PROVE CallersFit(d)'
        OBVIOUS
    <3>1. call[d].phase = "editing" => ~ inited'
        BY <1>1, <1>2 DEF CallersFit
    <3>2. call'[d] = call[d] /\ (debugFaults > 0 => debugFaults' > 0)
        BY <1>1, <2>1
    <3> QED
        BY <1>1, <2>2, <2>4, <3>1, <3>2, StaysFit
  <2> QED
      BY <1>1, <2>1, <2>2, <2>3, <2>5 DEF KeptIsRight, Debug!FilesOf
<1> QED
    BY <1>3, <1>4 DEF Debug!Artifacts

LEMMA BuildStep ==
  ASSUME Debug!DebuggerAssumption, DebugInv, NEW c \in Callers, Debug!Build(c)
  PROVE  DebugInv'
<1> USE DEF DebugInv, DebugTypes
<1>1. /\ call[c].phase \in {"building", "falling back"} /\ Debug!Go(c, "harness")
         /\ built' = edited
      /\ holder' = Debug!Free("artifacts", c)
         /\ UNCHANGED <<language, edited, once, inited, debugFaults>>
    BY DEF Debug!Build
<1>2. inited /\ call[c].answer = None /\ holder["artifacts"] = c /\ built' # None
    BY <1>1 DEF CallersFit, Debug!DebuggerAssumption
<1>3. /\ call' \in [Callers -> CallRecords]
      /\ call'[c].phase = "harness" /\ call'[c].answer = None
      /\ \A d \in Callers \ {c} : call'[d] = call[d]
    BY <1>1, <1>2, GoesTo DEF CallPhases
<1>4. holder'["init"] = holder["init"] /\ DebugTypes'
    BY <1>1, <1>3, Released
<1>5. CallersFit(c)'
    BY <1>1, <1>2, <1>3 DEF CallersFit, Debug!DebuggerAssumption
<1>6. \A d \in Callers \ {c} : call[d].phase \notin {"building", "falling back"}
    BY <1>2 DEF CallersFit
<1>7. \A d \in Callers \ {c} : CallersFit(d)'
  <2> SUFFICES ASSUME NEW d \in Callers \ {c} PROVE CallersFit(d)'
      OBVIOUS
  <2>1. call[d].phase = "editing" => ~ inited'
      BY <1>1, <1>2 DEF CallersFit
  <2>2. call'[d] = call[d] /\ (debugFaults > 0 => debugFaults' > 0)
      BY <1>1, <1>3
  <2> QED
      BY <1>1, <1>2, <1>4, <1>6, <2>1, <2>2, StaysFit
<1>8. KeptIsRight'
    BY <1>1, <1>2 DEF KeptIsRight, Debug!FilesOf
<1> QED
    BY <1>4, <1>5, <1>7, <1>8

LEMMA BuildFailsStep ==
  ASSUME Debug!DebuggerAssumption, DebugInv, NEW c \in Callers, Debug!BuildFails(c)
  PROVE  DebugInv'
<1> USE DEF DebugInv, DebugTypes
<1>1. /\ call[c].phase \in {"building", "falling back"} /\ Debug!Fault
      /\ UNCHANGED <<language, edited, once, inited, built>>
    BY DEF Debug!BuildFails
<1>2. inited /\ call[c].answer = None /\ holder["artifacts"] = c /\ built = None
    BY <1>1 DEF CallersFit
<1>3. debugFaults' \in Nat /\ debugFaults' > 0
  <2>1. debugFaults' = debugFaults + 1 /\ debugFaults \in Nat
      BY <1>1 DEF Debug!Fault
  <2> QED
      BY <2>1
<1>4. \A d \in Callers \ {c} : call[d].phase \notin {"building", "falling back"}
    BY <1>2 DEF CallersFit
<1>5. KeptIsRight'
    BY <1>1, <1>3 DEF KeptIsRight, Debug!FilesOf
<1>6. CASE Debug!Go(c, "falling back") /\ UNCHANGED holder
  <2>1. /\ call' \in [Callers -> CallRecords]
        /\ call'[c].phase = "falling back" /\ call'[c].answer = None
        /\ \A d \in Callers \ {c} : call'[d] = call[d]
      BY <1>2, <1>6, GoesTo DEF CallPhases
  <2>2. CallersFit(c)'
      BY <1>1, <1>2, <1>6, <2>1 DEF CallersFit, Debug!DebuggerAssumption
  <2>3. \A d \in Callers \ {c} : CallersFit(d)'
      BY <1>1, <1>3, <1>6, <2>1, StaysFit DEF CallersFit
  <2> QED
      BY <1>1, <1>3, <1>5, <1>6, <2>1, <2>2, <2>3
<1>7. CASE Debug!Return(c, "unsupported") /\ holder' = Debug!Free("artifacts", c)
  <2>1. /\ call' \in [Callers -> CallRecords]
        /\ call'[c].phase = "done" /\ call'[c].answer = "unsupported"
        /\ \A d \in Callers \ {c} : call'[d] = call[d]
      BY <1>7, Answered DEF CallAnswers
  <2>2. holder'["init"] = holder["init"] /\ DebugTypes'
    <3>1. /\ holder' \in [{"init", "artifacts"} -> Callers \cup {None}]
          /\ holder'["init"] = holder["init"]
        BY <1>7, Released
    <3> QED
        BY <1>1, <1>3, <2>1, <3>1
  <2>3. CallersFit(c)'
      BY <1>3, <2>1 DEF CallersFit
  <2>4. \A d \in Callers \ {c} : CallersFit(d)'
      BY <1>1, <1>3, <1>4, <2>1, <2>2, StaysFit DEF CallersFit
  <2> QED
      BY <1>5, <2>2, <2>3, <2>4
<1> QED
    BY <1>6, <1>7 DEF Debug!BuildFails

\* The rest changes a call that is past the build, or starts it anew.
LEMMA QuietStep ==
  ASSUME Debug!DebuggerAssumption, DebugInv, NEW c \in Callers, CallersFit(c)',
         call' \in [Callers -> CallRecords], \A d \in Callers \ {c} : call'[d] = call[d],
         debugFaults' \in Nat, debugFaults > 0 => debugFaults' > 0,
         UNCHANGED <<language, edited, once, inited, built, holder>>
  PROVE  DebugInv'
<1> USE DEF DebugInv, DebugTypes
<1>1. \A d \in Callers \ {c} : CallersFit(d)'
    BY StaysFit DEF CallersFit
<1> QED
    BY <1>1 DEF KeptIsRight, Debug!FilesOf
LEMMA HarnessInfoStep ==
  ASSUME Debug!DebuggerAssumption, DebugInv, NEW c \in Callers, Debug!HarnessInfo(c)
  PROVE  DebugInv'
<1>1. /\ call[c].phase = "harness" /\ UNCHANGED <<language, edited, once, inited, built, holder>>
      /\ DebugTypes /\ CallersFit(c) /\ debugFaults \in Nat
    BY DEF Debug!HarnessInfo, DebugInv, DebugTypes
<1>2. CASE Debug!Return(c, "unsupported") /\ Debug!Fault
  <2>1. /\ call' \in [Callers -> CallRecords]
        /\ call'[c].phase = "done" /\ call'[c].answer = "unsupported"
        /\ \A d \in Callers \ {c} : call'[d] = call[d]
      BY <1>1, <1>2, Answered DEF CallAnswers
  <2>2. debugFaults' \in Nat /\ debugFaults' > 0
      BY <1>1, <1>2 DEF Debug!Fault
  <2>3. CallersFit(c)'
      BY <2>1, <2>2 DEF CallersFit
  <2> QED
      BY <1>1, <2>1, <2>2, <2>3, QuietStep
<1>3. CASE \E answer \in {"wrong tool", "invalid"} : Debug!Return(c, answer)
           /\ UNCHANGED debugFaults
  <2>1. PICK answer \in {"wrong tool", "invalid"} : Debug!Return(c, answer)
             /\ UNCHANGED debugFaults
      BY <1>3
  <2>2. /\ call' \in [Callers -> CallRecords]
        /\ call'[c].phase = "done" /\ call'[c].answer = answer
        /\ \A d \in Callers \ {c} : call'[d] = call[d]
      BY <1>1, <2>1, Answered DEF CallAnswers
  <2>3. CallersFit(c)'
      BY <2>2 DEF CallersFit
  <2>4. debugFaults' \in Nat /\ (debugFaults > 0 => debugFaults' > 0)
      BY <1>1, <2>1
  <2> QED
      BY <1>1, <2>2, <2>3, <2>4, QuietStep
<1>4. ASSUME NEW p \in {None, "starting"},
             call' = [call EXCEPT ![c].phase = "running", ![c].at = p], UNCHANGED debugFaults
      PROVE  DebugInv'
  <2>1. call[c] \in CallRecords /\ call[c].answer = None /\ inited /\ built # None
      BY <1>1 DEF DebugTypes, CallersFit
  <2>2. call' = [call EXCEPT ![c] = [call[c] EXCEPT !.phase = "running", !.at = p]]
      BY <1>4
  <2>3. [call[c] EXCEPT !.phase = "running", !.at = p] \in CallRecords
      BY <2>1 DEF CallRecords, CallPhases
  <2>4. /\ call' \in [Callers -> CallRecords]
        /\ call'[c] = [call[c] EXCEPT !.phase = "running", !.at = p]
        /\ \A d \in Callers \ {c} : call'[d] = call[d]
      BY <1>1, <2>2, <2>3 DEF DebugTypes
  <2>5. call'[c].phase = "running" /\ call'[c].answer = None
      BY <2>1, <2>4 DEF CallRecords
  <2>6. CallersFit(c)'
      BY <1>1, <2>1, <2>5 DEF CallersFit, Debug!DebuggerAssumption
  <2>7. debugFaults' \in Nat /\ (debugFaults > 0 => debugFaults' > 0)
      BY <1>1, <1>4
  <2> QED
      BY <1>1, <2>4, <2>6, <2>7, QuietStep
<1> QED
    BY <1>2, <1>3, <1>4 DEF Debug!HarnessInfo

\* Steps of the run: they change what it has seen and where the interactor is.
LEMMA RunSteps ==
  ASSUME Debug!DebuggerAssumption, DebugInv, NEW c \in Callers,
       Debug!Hit(c) \/ Debug!Interact(c) \/ Debug!GivesUp(c)
  PROVE  DebugInv'
<1>1. /\ call[c].phase = "running"
      /\ UNCHANGED <<language, edited, once, inited, built, holder, debugFaults>>
      /\ call \in [Callers -> CallRecords] /\ CallersFit(c) /\ debugFaults \in Nat
    BY DEF Debug!Hit, Debug!Interact, Debug!GivesUp, DebugInv, DebugTypes
<1>2. call[c] \in CallRecords /\ call[c].answer = None
    BY <1>1 DEF CallersFit
<1>3. PICK hits \in Nat, p \in {None, "running", "stopped", "left"} :
        call' = [call EXCEPT ![c] = [call[c] EXCEPT !.hits = hits, !.at = p]]
  <2>1. call[c] = [phase |-> call[c].phase, tool |-> call[c].tool, todo |-> call[c].todo,
                   hits |-> call[c].hits, at |-> call[c].at, answer |-> call[c].answer]
        /\ call[c].hits \in Nat
      BY <1>2 DEF CallRecords
  <2>2. CASE Debug!Hit(c)
    <3>1. call' = [call EXCEPT ![c] = [call[c] EXCEPT !.hits = call[c].hits + 1,
                     !.at = IF call[c].at = None THEN None ELSE "stopped"]]
        BY <2>2 DEF Debug!Hit
    <3>2. call[c].hits + 1 \in Nat
        BY <2>1
    <3> QED
        BY <3>1, <3>2
  <2>3. CASE Debug!Interact(c)
    <3>1. call' = [call EXCEPT ![c] = [call[c] EXCEPT !.at = "running"]]
        BY <2>3 DEF Debug!Interact
    <3>2. [call[c] EXCEPT !.at = "running"]
          = [call[c] EXCEPT !.hits = call[c].hits, !.at = "running"]
        BY <2>1
    <3> QED
        BY <2>1, <3>1, <3>2
  <2>4. CASE Debug!GivesUp(c)
    <3>1. call' = [call EXCEPT ![c] = [call[c] EXCEPT !.at = "left"]]
        BY <2>4 DEF Debug!GivesUp
    <3>2. [call[c] EXCEPT !.at = "left"] = [call[c] EXCEPT !.hits = call[c].hits, !.at = "left"]
        BY <2>1
    <3> QED
        BY <2>1, <3>1, <3>2
  <2> QED
      BY <2>2, <2>3, <2>4
<1>4. [call[c] EXCEPT !.hits = hits, !.at = p] \in CallRecords
    BY <1>2 DEF CallRecords
<1>5. /\ call' \in [Callers -> CallRecords]
      /\ call'[c] = [call[c] EXCEPT !.hits = hits, !.at = p]
      /\ \A d \in Callers \ {c} : call'[d] = call[d]
    BY <1>1, <1>3, <1>4
<1>6. call'[c].phase = "running" /\ call'[c].answer = None
    BY <1>1, <1>2, <1>5 DEF CallRecords
<1>7. CallersFit(c)'
    BY <1>1, <1>6 DEF CallersFit, Debug!DebuggerAssumption
<1>8. debugFaults' \in Nat /\ (debugFaults > 0 => debugFaults' > 0)
    BY <1>1
<1> QED
    BY <1>1, <1>5, <1>7, <1>8, QuietStep

LEMMA HitsCount == \A h \in Nat : (h # 0) = (h > 0)
    OBVIOUS

LEMMA EndSteps ==
  ASSUME Debug!DebuggerAssumption, DebugInv, NEW c \in Callers, NEW code \in {0, 1},
         Debug!Exits(c, code) \/ Debug!TimesOut(c)
  PROVE  DebugInv'
<1>1. /\ UNCHANGED <<language, edited, once, inited, built, holder, debugFaults>>
      /\ call \in [Callers -> CallRecords] /\ DebugTypes /\ debugFaults \in Nat
    BY DEF Debug!Exits, Debug!TimesOut, DebugInv, DebugTypes
<1>2. PICK answer \in {"ok", "not hit", "failed", "timed out"} :
        /\ Debug!Return(c, answer)
        /\ answer = "ok" => call[c].hits # 0
        /\ answer = "not hit" => call[c].hits = 0
    BY DEF Debug!Exits, Debug!TimesOut, Debug!Verdict
<1>3. /\ call' \in [Callers -> CallRecords]
      /\ call'[c].phase = "done" /\ call'[c].answer = answer /\ call'[c].hits = call[c].hits
      /\ \A d \in Callers \ {c} : call'[d] = call[d]
    BY <1>1, <1>2, Answered DEF CallAnswers
<1>4. call[c].hits \in Nat
  <2>1. call[c] \in CallRecords
      BY <1>1
  <2> QED
      BY <2>1 DEF CallRecords
<1>5. answer \in {"ok", "not hit"} => (answer = "ok") = (call[c].hits > 0)
  <2>1. (call[c].hits # 0) = (call[c].hits > 0)
      BY <1>4, HitsCount
  <2>2. answer = "ok" => (call[c].hits > 0) = TRUE
      BY <1>2, <2>1
  <2>3. answer = "not hit" => (call[c].hits > 0) = FALSE
      BY <1>2, <2>1
  <2> QED
      BY <2>2, <2>3
<1>6. CallersFit(c)'
    BY <1>2, <1>3, <1>5 DEF CallersFit
<1>7. debugFaults' \in Nat /\ (debugFaults > 0 => debugFaults' > 0)
    BY <1>1
<1> QED
    BY <1>1, <1>3, <1>6, <1>7, QuietStep

LEMMA StopStep ==
  ASSUME Debug!DebuggerAssumption, DebugInv, NEW c \in Callers, Debug!Stop(c)
  PROVE  DebugInv'
<1> USE DEF DebugInv, DebugTypes
<1>1. /\ UNCHANGED <<language, edited, once, inited, built, debugFaults>> /\ debugFaults \in Nat
      /\ call' = [call EXCEPT ![c] = Debug!Idle]
      /\ holder' = [what \in DOMAIN holder |-> IF holder[what] = c THEN None ELSE holder[what]]
    BY DEF Debug!Stop
<1>2. Debug!Idle \in CallRecords /\ Debug!Idle.phase = "idle" /\ Debug!Idle.answer = None
    BY DEF Debug!Idle, CallRecords, CallPhases, CallAnswers
<1>3. /\ call' \in [Callers -> CallRecords] /\ call'[c] = Debug!Idle
      /\ \A d \in Callers \ {c} : call'[d] = call[d]
    BY <1>1, <1>2
<1>4. /\ holder' \in [{"init", "artifacts"} -> Callers \cup {None}]
      /\ \A k \in {"init", "artifacts"} : \A d \in Callers \ {c} : holder[k] = d => holder'[k] = d
    BY <1>1
<1>5. CallersFit(c)'
  <2>1. call'[c].phase = "idle" /\ call'[c].answer = None
      BY <1>2, <1>3
  <2> QED
      BY <2>1 DEF CallersFit, Debug!DebuggerAssumption
<1>6. ASSUME NEW d \in Callers \ {c} PROVE CallersFit(d)'
  <2>1. call'[d] = call[d] /\ debugFaults' \in Nat /\ (debugFaults > 0 => debugFaults' > 0)
      BY <1>1, <1>3
  <2>2. /\ call[d].phase = "editing" => holder["init"] = d /\ ~ inited
        /\ call[d].phase \in {"building", "falling back"} => holder["artifacts"] = d
      BY DEF CallersFit
  <2>3. /\ call[d].phase = "editing" => holder'["init"] = holder["init"] /\ ~ inited'
           /\ once' = once
        /\ call[d].phase \in {"building", "falling back"} =>
             holder'["artifacts"] = holder["artifacts"] /\ built' = built
      BY <1>1, <1>4, <2>2
  <2> QED
      BY <1>1, <2>1, <2>3, StaysFit
<1> QED
    BY <1>1, <1>3, <1>4, <1>5, <1>6 DEF KeptIsRight, Debug!FilesOf

LEMMA DebugNext ==
  ASSUME Debug!DebuggerAssumption, DebugInv, [Debug!Next]_(Debug!debugVars)
  PROVE  DebugInv'
<1>1. CASE UNCHANGED Debug!debugVars
  <2>1. DebugTypes' /\ KeptIsRight'
      BY <1>1 DEF Debug!debugVars, DebugInv, DebugTypes, KeptIsRight, Debug!FilesOf
  <2>2. \A d \in Callers : CallersFit(d)'
      BY <1>1 DEF Debug!debugVars, DebugInv, CallersFit, Debug!Kind, Debug!FilesOf
  <2> QED
      BY <2>1, <2>2 DEF DebugInv
<1>2. ASSUME NEW c \in Callers, NEW tool \in {"gdb", "jdb"}, Debug!Exec(c, tool) PROVE DebugInv'
    BY <1>2, ExecStep
<1>3. ASSUME NEW c \in Callers,
             Debug!Inited(c) \/ Debug!FindFiles(c) \/ Debug!InitFailed(c) \/ Debug!Edited(c)
             \/ Debug!Artifacts(c) \/ Debug!Build(c)
      PROVE  DebugInv'
    BY <1>3, InitedStep, FindFilesStep, InitFailedStep, EditedStep, ArtifactsStep, BuildStep
<1>4. ASSUME NEW c \in Callers, NEW f \in BuildFiles, Debug!EnableDebug(c, f) PROVE DebugInv'
    BY <1>4, EnableDebugStep
<1>5. ASSUME NEW c \in Callers,
             Debug!BuildFails(c) \/ Debug!HarnessInfo(c) \/ Debug!Hit(c) \/ Debug!Interact(c)
             \/ Debug!GivesUp(c) \/ Debug!Stop(c)
      PROVE  DebugInv'
    BY <1>5, BuildFailsStep, HarnessInfoStep, RunSteps, StopStep
<1>6. ASSUME NEW c \in Callers, NEW code \in {0, 1}, Debug!Exits(c, code)
             \/ Debug!TimesOut(c) PROVE DebugInv'
    BY <1>6, EndSteps
<1> QED
    BY <1>1, <1>2, <1>3, <1>4, <1>5, <1>6 DEF Debug!Next

LEMMA DebuggerAgrees == ASSUME Debug!DebuggerAssumption, DebugInv PROVE Debug!DebuggerIsRight
<1>1. language = "jvm" /\ built # None => BuildFiles \ BrokenFiles \subseteq built
  <2>1. BuildFiles = Debug!FilesOf("maven") \cup Debug!FilesOf("ant")
      BY DEF Debug!FilesOf, Debug!DebuggerAssumption
  <2> QED
      BY <2>1 DEF DebugInv, KeptIsRight
<1>2. Debug!Cardinality({c \in Callers : call[c].phase \in {"building", "falling back"}}) <= 1
  <2>1. \A c \in Callers : call[c].phase \in {"building", "falling back"}
        => c = holder["artifacts"]
      BY DEF DebugInv, CallersFit
  <2>2. {c \in Callers : call[c].phase
        \in {"building", "falling back"}} \subseteq {holder["artifacts"]}
      BY <2>1
  <2>3. Debug!IsFiniteSet({holder["artifacts"]}) /\ Debug!Cardinality({holder["artifacts"]}) = 1
      BY FS_Singleton, DebugSets
  <2>4. /\ Debug!IsFiniteSet({c \in Callers : call[c].phase \in {"building", "falling back"}})
        /\ Debug!Cardinality({c \in Callers : call[c].phase \in {"building", "falling back"}})
             <= Debug!Cardinality({holder["artifacts"]})
      BY <2>2, <2>3, FS_Subset, DebugSets
  <2> QED
      BY <2>3, <2>4
<1>3. ASSUME NEW c \in Callers
      PROVE  /\ call[c].phase = "running" => built # None /\ built = edited
             /\ call[c].answer \in {"ok", "not hit"}
                => (call[c].answer = "ok") = (call[c].hits > 0)
             /\ call[c].answer = "unsupported" => debugFaults > 0
    BY DEF DebugInv, CallersFit, KeptIsRight
<1> QED
    BY <1>1, <1>2, <1>3 DEF Debug!DebuggerIsRight

(***************************************************************************)
(* Files and builds (crs/app, crs/modules/project.py).                     *)
(***************************************************************************)
OnDisks == {"none", "part", "whole", "plain", "edited"}
Phases == {"look", "make", "check", "wait", "build", "copy", "failed"}

ArtTypes ==
  /\ mode \in DOMAIN Program /\ disk \in [Build!Files -> OnDisks]
  /\ projectBuilds \in [Build!Kinds -> {"none", "plain", "edited"}]
  /\ buildLock \in [Build!Kinds -> Workers \cup {"none"}]
  /\ progress \in [Workers -> Nat] /\ making \in [Workers -> Phases]
  /\ temp \in [Workers -> {"none", "whole", "short", "wrong"}]
  /\ had \in [Workers -> [Build!Files -> OnDisks]]

\* w makes f, or gave up while it did.
Doing(w, f) ==
  progress[w] < Len(Program[mode][w]) /\ Build!Step(w) = f
  /\ making[w] \in {"make", "check", "failed"}

\* What is only there in part is made again, or is the work of the one worker it is for.
PartsAreKnown ==
  \A f \in Build!Files : disk[f] = "part" =>
    f \in Build!Parsed \/ (mode = "oss" /\ f \in Build!Copied /\ \E w \in Workers : Doing(w, f))

WorkerFits(w) ==
  /\ making[w] # "look" => progress[w] < Len(Program[mode][w])
  /\ making[w] \in {"make", "check"} => ~ Build!IsBuild(w)
  /\ making[w] \in {"wait", "build", "copy"} => Build!IsBuild(w)
  /\ making[w] \in {"build", "copy"} =>
       mode # "oss" /\ buildLock[Build!Kind(w)] = w
       /\ (Build!Step(w) = "build" => projectBuilds[Build!Kind(w)] = "none")
  /\ \A f \in Build!Files : had[w][f] # "part"

ArtInv == ArtTypes /\ Build!BuildsFit /\ PartsAreKnown /\ \A w \in Workers : WorkerFits(w)

LEMMA TarOf == /\ Build!BuildTar["plain"] = "plain build"
                  /\ Build!BuildTar["edited"] = "edited build"
               /\ \A k \in Build!Kinds : Build!BuildTar[k] \in Build!Files
                  /\ Build!BuildTar[k] \in {"plain build", "edited build"}
<1>1. Build!BuildTar["plain"] = "plain build" /\ Build!BuildTar["edited"] = "edited build"
    BY DEF Build!BuildTar
<1> QED
    BY <1>1 DEF Build!Kinds, Build!Files

LEMMA ArtStarts == ASSUME Build!ArtifactsAssumption, Build!Init PROVE ArtInv
<1>1. ArtTypes
    BY DEF Build!Init, ArtTypes, OnDisks, Phases
<1>2. Build!BuildsFit /\ PartsAreKnown
    BY TarOf DEF Build!Init, Build!BuildsFit, PartsAreKnown
<1>3. ASSUME NEW w \in Workers PROVE WorkerFits(w)
    BY DEF Build!Init, WorkerFits
<1> QED
    BY <1>1, <1>2, <1>3 DEF ArtInv

LEMMA StepIsKnown ==
  ASSUME Build!ArtifactsAssumption, ArtTypes, NEW w \in Workers,
       progress[w] < Len(Program[mode][w])
  PROVE  /\ Build!Step(w) \in Build!Steps /\ Build!Step(w) \in Build!Wants(mode, w)
            /\ Build!File(w) \in Build!Files
         /\ Build!Kind(w) \in Build!Kinds /\ Build!BuildTar[Build!Kind(w)] \in Build!Files
<1>1. Program[mode][w] \in Seq(Build!Steps) /\ progress[w] \in Nat /\ SourcesOf[w] \in Build!Kinds
    BY DEF Build!ArtifactsAssumption, ArtTypes
<1>2. progress[w] + 1 \in DOMAIN Program[mode][w]
    BY <1>1
<1>3. Build!Step(w) \in Build!Steps /\ Build!Step(w) \in Build!Wants(mode, w)
    BY <1>1, <1>2 DEF Build!Step, Build!Wants
<1>4. \A k \in Build!Kinds : Build!BuildTar[k] \in Build!Files
    BY TarOf
<1> QED
    BY <1>1, <1>3, <1>4 DEF Build!File, Build!Steps, Build!Kind

\* Nobody finds a part of a file that is not made again: whoever could look at it is making it.
LEMMA FoundIsWhole ==
  ASSUME Build!ArtifactsAssumption, ArtInv, NEW w \in Workers,
       progress[w] < Len(Program[mode][w]),
         making[w] \in {"look", "wait"}, NEW f \in Build!Files \ Build!Parsed,
         \/ f = Build!Step(w)
         \/ f = "plain build" /\ Build!Step(w) = "build" /\ SourcesOf[w] = "plain"
         \/ f \notin Build!Copied
  PROVE  disk[f] # "part"
<1> SUFFICES ASSUME disk[f] = "part" PROVE FALSE
    OBVIOUS
<1>1. PICK v \in Workers : mode = "oss" /\ f \in Build!Copied /\ Doing(v, f)
    BY DEF ArtInv, PartsAreKnown
<1>2. mode \in DOMAIN Program /\ Build!Step(w) \in Build!Wants("oss", w)
      /\ Build!Step(v) \in Build!Wants("oss", v) /\ Build!Step(v) = f
    BY <1>1, StepIsKnown DEF ArtInv, ArtTypes, Doing
<1>3. Build!Wants("oss", v) \cap Build!Copied # {}
    BY <1>1, <1>2
<1>4. Build!Wants("oss", w) \cap Build!Copied # {}
      \/ (SourcesOf[w] = "plain" /\ "build" \in Build!Wants("oss", w))
    BY <1>1, <1>2
<1>5. v = w
    BY <1>1, <1>2, <1>3, <1>4 DEF Build!ArtifactsAssumption
<1> QED
    BY <1>1, <1>5 DEF Doing

LEMMA WorkerMoves ==
  ASSUME ArtInv, NEW w \in Workers, ArtTypes', Build!BuildsFit', WorkerFits(w)', mode' = mode,
         \A v \in Workers \ {w} : progress'[v] = progress[v] /\ making'[v] = making[v]
         /\ had'[v] = had[v],
         \A v \in Workers \ {w} : making[v] \in {"build", "copy"} =>
           buildLock'[Build!Kind(v)] = buildLock[Build!Kind(v)]
           /\ projectBuilds'[Build!Kind(v)] = projectBuilds[Build!Kind(v)],
         \A f \in Build!Files : disk'[f] = "part" =>
           \/ f \in Build!Parsed
           \/ disk[f] = "part" /\ ~ Doing(w, f)
           \/ mode = "oss" /\ f \in Build!Copied /\ Doing(w, f)'
  PROVE  ArtInv'
<1>1. ASSUME NEW v \in Workers \ {w} PROVE WorkerFits(v)' /\ \A f : Doing(v, f)' <=> Doing(v, f)
  <2>1. /\ progress'[v] = progress[v] /\ making'[v] = making[v] /\ had'[v] = had[v]
           /\ mode' = mode
        /\ WorkerFits(v)
      BY DEF ArtInv
  <2>2. Build!Step(v)' = Build!Step(v) /\ Build!Kind(v)' = Build!Kind(v)
        /\ Build!IsBuild(v)' = Build!IsBuild(v)
      BY <2>1 DEF Build!Step, Build!Kind, Build!IsBuild
  <2>3. \A f : Doing(v, f)' <=> Doing(v, f)
      BY <2>1, <2>2 DEF Doing
  <2>4. WorkerFits(v)'
      BY <2>1, <2>2 DEF WorkerFits
  <2> QED
      BY <2>3, <2>4
<1>2. PartsAreKnown'
  <2> SUFFICES ASSUME NEW f \in Build!Files, disk'[f] = "part", f \notin Build!Parsed
               PROVE  mode' = "oss" /\ f \in Build!Copied /\ \E v \in Workers : Doing(v, f)'
      BY DEF PartsAreKnown
  <2>1. CASE mode = "oss" /\ f \in Build!Copied /\ Doing(w, f)'
      BY <2>1
  <2>2. CASE disk[f] = "part" /\ ~ Doing(w, f)
    <3>1. PICK v \in Workers : mode = "oss" /\ f \in Build!Copied /\ Doing(v, f)
        BY <2>2 DEF ArtInv, PartsAreKnown
    <3>2. v \in Workers \ {w}
        BY <2>2, <3>1
    <3> QED
        BY <1>1, <3>1, <3>2
  <2> QED
      BY <2>1, <2>2
<1> QED
    BY <1>1, <1>2 DEF ArtInv

LEMMA HasMoves ==
  ASSUME ArtTypes, NEW w \in Workers, Build!File(w) \in Build!Files, NEW what \in OnDisks,
       Build!Has(w, what)
  PROVE  /\ progress' \in [Workers -> Nat] /\ making' \in [Workers -> Phases]
         /\ had' \in [Workers -> [Build!Files -> OnDisks]]
         /\ making'[w] = "look"
            /\ \A f \in Build!Files : had'[w][f] = IF f = Build!File(w) THEN what ELSE had[w][f]
         /\ \A v \in Workers \ {w} : progress'[v] = progress[v] /\ making'[v] = making[v]
            /\ had'[v] = had[v]
<1>1. progress' = [progress EXCEPT ![w] = progress[w] + 1]
      /\ making' = [making EXCEPT ![w] = "look"]
      /\ had' = [had EXCEPT ![w] = [had[w] EXCEPT ![Build!File(w)] = what]]
    BY DEF Build!Has
<1>2. progress[w] \in Nat /\ had[w] \in [Build!Files -> OnDisks]
    BY DEF ArtTypes
<1> QED
    BY <1>1, <1>2 DEF ArtTypes, Phases

\* A worker that has its file looks for the next one.
LEMMA HasFits ==
  ASSUME ArtInv, NEW w \in Workers, Build!File(w) \in Build!Files,
       NEW what \in OnDisks \ {"part"}, Build!Has(w, what)
  PROVE  WorkerFits(w)'
<1>1. \A f \in Build!Files : had'[w][f] # "part"
    BY HasMoves DEF ArtInv, WorkerFits
<1> QED
    BY <1>1, HasMoves DEF ArtInv, WorkerFits

LEMMA GoesMoves ==
  ASSUME ArtTypes, NEW w \in Workers, NEW p \in Phases, Build!Goes(w, p)
  PROVE  /\ making' \in [Workers -> Phases] /\ making'[w] = p
         /\ \A v \in Workers \ {w} : making'[v] = making[v]
    BY DEF ArtTypes, Build!Goes

LEMMA FindStep ==
  ASSUME Build!ArtifactsAssumption, ArtInv, NEW w \in Workers, Build!Find(w)
  PROVE  ArtInv'
<1>1. /\ progress[w] < Len(Program[mode][w]) /\ making[w] = "look" /\ ~ Build!IsBuild(w)
         /\ Build!There(w)
      /\ Build!Has(w, disk[Build!File(w)])
         /\ UNCHANGED <<disk, temp, mode, projectBuilds, buildLock>> /\ ArtTypes
    BY DEF Build!Find, Build!Busy, Build!Rest, ArtInv
<1>2. Build!File(w) \in Build!Files /\ Build!File(w) = Build!Step(w)
    BY <1>1, StepIsKnown DEF Build!IsBuild, Build!File
<1>3. disk[Build!File(w)] \in OnDisks \ {"part"}
  <2>1. CASE Build!File(w) \in Build!Parsed
      BY <1>1, <1>2, <2>1 DEF Build!There, ArtTypes
  <2>2. CASE Build!File(w) \notin Build!Parsed
      BY <1>1, <1>2, <2>2, FoundIsWhole DEF ArtTypes
  <2> QED
      BY <2>1, <2>2
<1>4. WorkerFits(w)'
    BY <1>1, <1>2, <1>3, HasFits
<1>5. /\ ArtTypes'
      /\ \A v \in Workers \ {w} : progress'[v] = progress[v] /\ making'[v] = making[v]
         /\ had'[v] = had[v]
    BY <1>1, <1>2, <1>3, HasMoves DEF ArtTypes
<1>6. Build!BuildsFit'
    BY <1>1 DEF ArtInv, Build!BuildsFit
<1>7. \A f \in Build!Files : ~ Doing(w, f)
    BY <1>1 DEF Doing
<1> QED
    BY <1>1, <1>4, <1>5, <1>6, <1>7, WorkerMoves

LEMMA BeginStep ==
  ASSUME Build!ArtifactsAssumption, ArtInv, NEW w \in Workers, Build!Begin(w)
  PROVE  ArtInv'
<1>1. /\ progress[w] < Len(Program[mode][w]) /\ making[w] = "look" /\ ~ Build!IsBuild(w)
         /\ ~ Build!There(w)
      /\ disk' = IF Build!InPlace(Build!Step(w)) THEN [disk EXCEPT ![Build!File(w)] = "part"]
         ELSE disk
      /\ Build!Goes(w, "make")
         /\ UNCHANGED <<progress, temp, had, mode, projectBuilds, buildLock>> /\ ArtTypes
    BY DEF Build!Begin, Build!Busy, Build!Rest, ArtInv
<1>2. Build!File(w) \in Build!Files /\ Build!File(w) = Build!Step(w)
      /\ Build!Step(w) \in Build!Steps
    BY <1>1, StepIsKnown DEF Build!IsBuild, Build!File
<1>3. making' \in [Workers -> Phases] /\ making'[w] = "make"
      /\ \A v \in Workers \ {w} : making'[v] = making[v]
    BY <1>1, GoesMoves DEF Phases
<1>4. disk' \in [Build!Files -> OnDisks] /\ ArtTypes'
    BY <1>1, <1>2, <1>3 DEF ArtTypes, OnDisks
<1>5. Build!Step(w)' = Build!Step(w) /\ Build!IsBuild(w)' = Build!IsBuild(w)
    BY <1>1 DEF Build!Step, Build!IsBuild
<1>6. WorkerFits(w)'
    BY <1>1, <1>3, <1>5 DEF ArtInv, WorkerFits
<1>7. Build!BuildsFit'
  <2>1. \A k \in Build!Kinds : disk'[Build!BuildTar[k]] \in {disk[Build!BuildTar[k]], "part"}
      BY <1>1, <1>2, TarOf DEF ArtTypes
  <2> QED
      BY <1>1, <2>1 DEF ArtInv, Build!BuildsFit
<1>8. ASSUME NEW f \in Build!Files, disk'[f] = "part"
      PROVE  \/ f \in Build!Parsed
             \/ disk[f] = "part" /\ ~ Doing(w, f)
             \/ mode = "oss" /\ f \in Build!Copied /\ Doing(w, f)'
  <2>1. CASE disk[f] = "part"
      BY <1>1, <2>1 DEF Doing
  <2>2. CASE disk[f] # "part"
    <3>1. Build!InPlace(f) /\ f = Build!Step(w)
        BY <1>1, <1>2, <1>8, <2>2 DEF ArtTypes
    <3> QED
        BY <1>1, <1>3, <1>5, <3>1 DEF Build!InPlace, Doing
  <2> QED
      BY <2>1, <2>2
<1> QED
    BY <1>1, <1>3, <1>4, <1>6, <1>7, <1>8, WorkerMoves

\* Steps of a worker that makes its file, and leave the disk alone.
LEMMA MakingSteps ==
  ASSUME Build!ArtifactsAssumption, ArtInv, NEW w \in Workers,
         Build!Make(w) \/ Build!MakeBadly(w) \/ Build!TryAgain(w) \/ Build!TimesOut(w)
         \/ Build!WaitToBuild(w)
  PROVE  ArtInv'
<1>1. ArtTypes /\ WorkerFits(w)
      /\ UNCHANGED <<disk, progress, had, mode, projectBuilds, buildLock>>
      /\ progress[w] < Len(Program[mode][w])
    BY DEF Build!Make, Build!MakeBadly, Build!TryAgain, Build!TimesOut, Build!WaitToBuild,
       Build!Rest, ArtInv, Build!Busy
<1>2. PICK p \in {"look", "make", "check", "wait", "failed"} :
        /\ Build!Goes(w, p)
        /\ p \in {"make", "check"} => making[w] \in {"make", "check"}
        /\ p \in {"look", "wait"} => (mode = "oss" => making[w] = "look")
        /\ p = "wait" => Build!IsBuild(w)
        /\ p = "failed" => making[w] = "make"
    BY DEF Build!Make, Build!MakeBadly, Build!TryAgain, Build!TimesOut, Build!WaitToBuild,
       Build!Busy
<1>3. making' \in [Workers -> Phases] /\ making'[w] = p
      /\ \A v \in Workers \ {w} : making'[v] = making[v]
    BY <1>1, <1>2, GoesMoves DEF Phases
<1>4. temp' \in [Workers -> {"none", "whole", "short", "wrong"}]
    BY <1>1 DEF Build!Make, Build!MakeBadly, Build!TryAgain, Build!TimesOut, Build!WaitToBuild,
       ArtTypes
<1>5. ArtTypes'
    BY <1>1, <1>3, <1>4 DEF ArtTypes
<1>6. Build!Step(w)' = Build!Step(w) /\ Build!IsBuild(w)' = Build!IsBuild(w)
    BY <1>1 DEF Build!Step, Build!IsBuild
<1>7. WorkerFits(w)'
    BY <1>1, <1>2, <1>3, <1>6 DEF WorkerFits
<1>8. Build!BuildsFit'
    BY <1>1 DEF ArtInv, Build!BuildsFit
<1>9. ASSUME NEW f \in Build!Files, disk'[f] = "part"
      PROVE  \/ f \in Build!Parsed
             \/ disk[f] = "part" /\ ~ Doing(w, f)
             \/ mode = "oss" /\ f \in Build!Copied /\ Doing(w, f)'
  <2>1. f \in Build!Parsed \/ (mode = "oss" /\ f \in Build!Copied)
      BY <1>1, <1>9 DEF ArtInv, PartsAreKnown
  <2>2. mode = "oss" /\ Doing(w, f) => Doing(w, f)'
      BY <1>1, <1>2, <1>3, <1>6 DEF Doing
  <2> QED
      BY <1>1, <1>9, <2>1, <2>2
<1> QED
    BY <1>1, <1>3, <1>5, <1>7, <1>8, <1>9, WorkerMoves

LEMMA PublishStep ==
  ASSUME Build!ArtifactsAssumption, ArtInv, NEW w \in Workers, Build!Publish(w)
  PROVE  ArtInv'
<1>1. /\ progress[w] < Len(Program[mode][w]) /\ making[w] = "check" /\ temp[w] = "whole"
      /\ disk' = IF Build!Step(w) \in Build!Fetched
         /\ Build!There(w) THEN disk ELSE [disk EXCEPT ![Build!File(w)] = Build!Contents(w)]
      /\ temp' = [temp EXCEPT ![w] = "none"]
      /\ projectBuilds' = IF Build!Step(w) = "plain build"
         THEN [projectBuilds EXCEPT !["plain"] = disk'[Build!File(w)]] ELSE projectBuilds
      /\ Build!Has(w, disk'[Build!File(w)]) /\ UNCHANGED <<mode, buildLock>> /\ ArtTypes
         /\ WorkerFits(w)
    BY DEF Build!Publish, Build!Busy, ArtInv, Build!Good, Build!Unpacks
<1>2. Build!File(w) \in Build!Files /\ Build!File(w) = Build!Step(w)
      /\ Build!Step(w) \in Build!Steps /\ Build!Step(w) \in Build!Wants(mode, w)
    BY <1>1, StepIsKnown DEF Build!IsBuild, Build!File, WorkerFits
<1>3. /\ Build!Contents(w) \in OnDisks \ {"part"}
      /\ Build!Step(w) = "plain build" => Build!Contents(w) = "plain"
    BY <1>1, <1>2 DEF Build!Contents, OnDisks
<1>4. disk' \in [Build!Files -> OnDisks] /\ disk'[Build!File(w)] # "part"
  <2>1. CASE Build!Step(w) \in Build!Fetched /\ Build!There(w)
    <3>1. disk[Build!File(w)] # "part"
        BY <1>2, <2>1 DEF ArtInv, PartsAreKnown, Build!Fetched, Build!Parsed, Build!Copied
    <3> QED
        BY <1>1, <2>1, <3>1 DEF ArtTypes
  <2>2. CASE ~ (Build!Step(w) \in Build!Fetched /\ Build!There(w))
      BY <1>1, <1>2, <1>3, <2>2 DEF ArtTypes
  <2> QED
      BY <2>1, <2>2
<1>5. disk'[Build!File(w)] \in OnDisks
    BY <1>2, <1>4
<1>6. \A f \in Build!Files : f # Build!File(w) => disk'[f] = disk[f]
    BY <1>1, <1>2 DEF ArtTypes
<1>7. Build!Step(w) = "plain build" => disk'[Build!File(w)] = "plain"
    BY <1>1, <1>2, <1>3 DEF Build!Fetched, ArtTypes
<1>8. /\ progress' \in [Workers -> Nat] /\ making' \in [Workers -> Phases]
      /\ had' \in [Workers -> [Build!Files -> OnDisks]]
      /\ \A v \in Workers \ {w} : progress'[v] = progress[v] /\ making'[v] = making[v]
         /\ had'[v] = had[v]
    BY <1>1, <1>2, <1>5, HasMoves
<1>9. projectBuilds' \in [Build!Kinds -> {"none", "plain", "edited"}]
    BY <1>1, <1>7 DEF ArtTypes
<1>10. ArtTypes'
    BY <1>1, <1>4, <1>8, <1>9 DEF ArtTypes
<1>11. WorkerFits(w)'
    BY <1>1, <1>2, <1>4, <1>5, HasFits
<1>12. Build!BuildsFit'
  <2> SUFFICES ASSUME NEW k \in Build!Kinds
               PROVE  projectBuilds'[k] \in {"none", k}
                      /\ disk'[Build!BuildTar[k]] \in {"none", "part", k}
      BY DEF Build!BuildsFit
  <2>1. projectBuilds[k] \in {"none", k} /\ disk[Build!BuildTar[k]] \in {"none", "part", k}
      BY DEF ArtInv, Build!BuildsFit
  <2>2. k = "plain" \/ k = "edited"
      BY DEF Build!Kinds
  <2>3. projectBuilds'[k] = projectBuilds[k] \/ (k = "plain" /\ projectBuilds'[k] = "plain")
      BY <1>1, <1>7, <2>2 DEF ArtTypes, Build!Kinds
  <2>4. Build!BuildTar[k] = Build!File(w) => k = "plain" /\ disk'[Build!BuildTar[k]] = "plain"
      BY <1>2, <1>7, <2>2, TarOf DEF Build!Steps
  <2> QED
      BY <1>6, <2>1, <2>3, <2>4, TarOf
<1>13. ASSUME NEW v \in Workers \ {w}, making[v] \in {"build", "copy"}
       PROVE  buildLock'[Build!Kind(v)] = buildLock[Build!Kind(v)]
              /\ projectBuilds'[Build!Kind(v)] = projectBuilds[Build!Kind(v)]
  <2>1. mode # "oss" /\ mode \in DOMAIN Program
      BY <1>1, <1>13 DEF ArtInv, WorkerFits, ArtTypes
  <2>2. Build!Step(w) # "plain build"
      BY <1>2, <2>1 DEF Build!ArtifactsAssumption
  <2> QED
      BY <1>1, <2>2
<1>14. ASSUME NEW f \in Build!Files, disk'[f] = "part" PROVE disk[f] = "part" /\ ~ Doing(w, f)
    BY <1>2, <1>4, <1>6, <1>14 DEF Doing
<1> QED
    BY <1>1, <1>8, <1>10, <1>11, <1>12, <1>13, <1>14, WorkerMoves

LEMMA FindBuildStep ==
  ASSUME Build!ArtifactsAssumption, ArtInv, NEW w \in Workers, Build!FindBuild(w)
  PROVE  ArtInv'
<1>1. /\ progress[w] < Len(Program[mode][w]) /\ making[w] = "look" /\ Build!IsBuild(w)
      /\ Build!Has(w, Build!Cached(w)) /\ UNCHANGED <<disk, temp, mode, projectBuilds, buildLock>>
         /\ ArtTypes
    BY DEF Build!FindBuild, Build!Busy, Build!Rest, ArtInv
<1>2. Build!File(w) \in Build!Files /\ Build!Kind(w) \in Build!Kinds
    BY <1>1, StepIsKnown
<1>3. Build!Cached(w) \in OnDisks \ {"part"}
  <2>1. CASE Build!Step(w) = "bear"
    <3>1. disk["bear"] # "part"
        BY <1>1, <2>1 DEF Build!IsBuild, ArtInv, PartsAreKnown, Build!Files, Build!Parsed
    <3> QED
        BY <2>1, <3>1 DEF Build!Cached, ArtTypes, Build!Files, ArtInv
  <2>2. CASE Build!Step(w) # "bear"
      BY <1>1, <1>2, <2>2 DEF Build!Cached, ArtTypes, OnDisks
  <2> QED
      BY <2>1, <2>2
<1>4. WorkerFits(w)'
    BY <1>1, <1>2, <1>3, HasFits
<1>5. /\ ArtTypes'
      /\ \A v \in Workers \ {w} : progress'[v] = progress[v] /\ making'[v] = making[v]
         /\ had'[v] = had[v]
    BY <1>1, <1>2, <1>3, HasMoves DEF ArtTypes
<1>6. Build!BuildsFit'
    BY <1>1 DEF ArtInv, Build!BuildsFit
<1>7. \A f \in Build!Files : ~ Doing(w, f)
    BY <1>1 DEF Doing
<1> QED
    BY <1>1, <1>4, <1>5, <1>6, <1>7, WorkerMoves

LEMMA EnterBuildStep ==
  ASSUME Build!ArtifactsAssumption, ArtInv, NEW w \in Workers, Build!EnterBuild(w)
  PROVE  ArtInv'
<1>1. /\ progress[w] < Len(Program[mode][w]) /\ making[w] = "wait"
         /\ buildLock[Build!Kind(w)] = "none"
      /\ UNCHANGED <<mode, disk, temp>> /\ ArtTypes /\ WorkerFits(w)
    BY DEF Build!EnterBuild, Build!Busy, ArtInv
<1>2. Build!File(w) \in Build!Files /\ Build!Kind(w) \in Build!Kinds
      /\ Build!BuildTar[Build!Kind(w)] \in Build!Files /\ Build!Step(w) \in Build!Steps
    BY <1>1, StepIsKnown
<1>3. ASSUME NEW v \in Workers, making[v] \in {"build", "copy"}
      PROVE Build!Kind(v) # Build!Kind(w)
  <2>1. "none" \notin Workers
      BY DEF Build!ArtifactsAssumption
  <2>2. buildLock[Build!Kind(v)] = v
      BY <1>3 DEF ArtInv, WorkerFits
  <2> QED
      BY <1>1, <2>1, <2>2
<1>4. \A f \in Build!Files : ~ Doing(w, f)
    BY <1>1 DEF Doing
<1>5. CASE Build!MeanwhileBuilt(w) /\ Build!Has(w, Build!Cached(w))
           /\ UNCHANGED <<projectBuilds, buildLock>>
  <2>1. Build!Cached(w) \in OnDisks \ {"part"}
    <3>1. CASE Build!Step(w) = "bear"
      <4>1. "bear" \in Build!Files \ Build!Parsed
          BY DEF Build!Files, Build!Parsed
      <4>2. disk["bear"] # "part"
          BY <1>1, <3>1, <4>1, FoundIsWhole
      <4> QED
          BY <1>1, <3>1, <4>1, <4>2 DEF Build!Cached, ArtTypes
    <3>2. CASE Build!Step(w) # "bear"
        BY <1>1, <1>2, <3>2 DEF Build!Cached, ArtTypes, OnDisks
    <3> QED
        BY <3>1, <3>2
  <2>2. WorkerFits(w)'
      BY <1>2, <1>5, <2>1, HasFits
  <2>3. /\ ArtTypes'
        /\ \A v \in Workers \ {w} : progress'[v] = progress[v] /\ making'[v] = making[v]
           /\ had'[v] = had[v]
      BY <1>1, <1>2, <1>5, <2>1, HasMoves DEF ArtTypes
  <2>4. Build!BuildsFit'
      BY <1>1, <1>5 DEF ArtInv, Build!BuildsFit
  <2> QED
      BY <1>1, <1>4, <1>5, <2>2, <2>3, <2>4, WorkerMoves
<1>6. CASE /\ projectBuilds'
              = [projectBuilds EXCEPT ![Build!Kind(w)] = disk[Build!BuildTar[Build!Kind(w)]]]
           /\ Build!Has(w, projectBuilds'[Build!Kind(w)]) /\ UNCHANGED buildLock
              /\ Build!OnDisk(w)
  <2>1. disk[Build!BuildTar[Build!Kind(w)]] # "none"
        /\ disk[Build!BuildTar[Build!Kind(w)]] \in {"none", "part", Build!Kind(w)}
      BY <1>2, <1>6 DEF Build!OnDisk, ArtInv, Build!BuildsFit
  <2>2. disk[Build!BuildTar[Build!Kind(w)]] # "part"
    <3>1. Build!BuildTar[Build!Kind(w)] \in Build!Files \ Build!Parsed
        BY <1>2, TarOf DEF Build!Parsed
    <3>2. CASE Build!Kind(w) = "plain"
      <4>1. Build!BuildTar[Build!Kind(w)] = "plain build" /\ SourcesOf[w] = "plain"
          BY <3>2, TarOf DEF Build!Kind
      <4>2. Build!IsBuild(w)
          BY <1>1 DEF WorkerFits
      <4>3. CASE mode = "oss"
        <5>1. Build!Step(w) = "build"
            BY <4>2, <4>3 DEF Build!IsBuild
        <5> QED
            BY <1>1, <3>1, <4>1, <5>1, FoundIsWhole
      <4>4. CASE mode # "oss"
          BY <1>2, <3>1, <4>4 DEF ArtInv, PartsAreKnown
      <4> QED
          BY <4>3, <4>4
    <3>3. CASE Build!Kind(w) # "plain"
      <4>1. Build!BuildTar[Build!Kind(w)] \notin Build!Copied
          BY <1>2, <3>3, TarOf DEF Build!Kinds, Build!Copied
      <4> QED
          BY <1>1, <3>1, <4>1, FoundIsWhole
    <3> QED
        BY <3>2, <3>3
  <2>3. /\ projectBuilds'[Build!Kind(w)] = Build!Kind(w)
           /\ projectBuilds' \in [Build!Kinds -> {"none", "plain", "edited"}]
        /\ \A k \in Build!Kinds : projectBuilds'[k] = projectBuilds[k] \/ projectBuilds'[k] = k
      BY <1>1, <1>2, <1>6, <2>1, <2>2 DEF ArtTypes, Build!Kinds
  <2>4. Build!Kind(w) \in OnDisks \ {"part"} /\ Build!Has(w, Build!Kind(w))
      BY <1>2, <1>6, <2>3 DEF Build!Kinds, OnDisks
  <2>5. WorkerFits(w)'
      BY <1>2, <2>4, HasFits
  <2>6. /\ ArtTypes'
        /\ \A v \in Workers \ {w} : progress'[v] = progress[v] /\ making'[v] = making[v]
           /\ had'[v] = had[v]
    <3>1. /\ progress' \in [Workers -> Nat] /\ making' \in [Workers -> Phases]
          /\ had' \in [Workers -> [Build!Files -> OnDisks]]
          /\ \A v \in Workers \ {w} : progress'[v] = progress[v] /\ making'[v] = making[v]
             /\ had'[v] = had[v]
        BY <1>1, <1>2, <2>4, HasMoves
    <3> QED
        BY <1>1, <1>6, <2>3, <3>1 DEF ArtTypes
  <2>7. Build!BuildsFit'
      BY <1>1, <2>3 DEF ArtInv, Build!BuildsFit
  <2>8. \A v \in Workers \ {w} : making[v] \in {"build", "copy"} =>
          buildLock'[Build!Kind(v)] = buildLock[Build!Kind(v)]
          /\ projectBuilds'[Build!Kind(v)] = projectBuilds[Build!Kind(v)]
      BY <1>1, <1>3, <1>6 DEF ArtTypes
  <2> QED
      BY <1>1, <1>4, <2>5, <2>6, <2>7, <2>8, WorkerMoves
<1>7. ASSUME NEW p \in {"failed", "build"}, Build!Goes(w, p), UNCHANGED <<projectBuilds, progress,
             had>>,
             buildLock' = IF p = "build" THEN [buildLock EXCEPT ![Build!Kind(w)] = w]
             ELSE buildLock,
             p = "build" => mode # "oss" /\ ~ Build!MeanwhileBuilt(w)
      PROVE  ArtInv'
  <2>1. making' \in [Workers -> Phases] /\ making'[w] = p
        /\ \A v \in Workers \ {w} : making'[v] = making[v]
      BY <1>1, <1>7, GoesMoves DEF Phases
  <2>2. /\ buildLock' \in [Build!Kinds -> Workers \cup {"none"}]
           /\ (p = "build" => buildLock'[Build!Kind(w)] = w)
        /\ \A k \in Build!Kinds \ {Build!Kind(w)} : buildLock'[k] = buildLock[k]
    <3>1. CASE p = "build"
        BY <1>1, <1>2, <1>7, <3>1 DEF ArtTypes
    <3>2. CASE p # "build"
        BY <1>1, <1>7, <3>2 DEF ArtTypes
    <3> QED
        BY <3>1, <3>2
  <2>3. ArtTypes' /\ Build!BuildsFit'
      BY <1>1, <1>7, <2>1, <2>2 DEF ArtTypes, ArtInv, Build!BuildsFit
  <2>4. Build!Step(w)' = Build!Step(w) /\ Build!IsBuild(w)' = Build!IsBuild(w)
        /\ Build!Kind(w)' = Build!Kind(w)
      BY <1>1, <1>7 DEF Build!Step, Build!IsBuild, Build!Kind
  <2>5. p = "build" /\ Build!Step(w) = "build" => projectBuilds[Build!Kind(w)] = "none"
      BY <1>7 DEF Build!MeanwhileBuilt, Build!Cached
  <2>6. WorkerFits(w)'
      BY <1>1, <1>7, <2>1, <2>2, <2>4, <2>5 DEF WorkerFits
  <2>7. \A v \in Workers \ {w} : making[v] \in {"build", "copy"} =>
          buildLock'[Build!Kind(v)] = buildLock[Build!Kind(v)]
          /\ projectBuilds'[Build!Kind(v)] = projectBuilds[Build!Kind(v)]
    <3>1. \A v \in Workers : Build!Kind(v) \in Build!Kinds
        BY DEF Build!Kind, Build!ArtifactsAssumption
    <3> QED
        BY <1>3, <1>7, <2>2, <3>1
  <2> QED
      BY <1>1, <1>4, <1>7, <2>1, <2>3, <2>6, <2>7, WorkerMoves
<1>8. CASE /\ ~ Build!MeanwhileBuilt(w) /\ UNCHANGED <<projectBuilds, progress, had>>
           /\ IF mode = "oss" THEN Build!Goes(w, "failed") /\ UNCHANGED buildLock
              ELSE buildLock' = [buildLock EXCEPT ![Build!Kind(w)] = w] /\ Build!Goes(w, "build")
  <2>1. CASE mode = "oss"
      BY <1>7, <1>8, <2>1
  <2>2. CASE mode # "oss"
      BY <1>7, <1>8, <2>2
  <2> QED
      BY <2>1, <2>2
<1> QED
    BY <1>5, <1>6, <1>8 DEF Build!EnterBuild

LEMMA CompileStep ==
  ASSUME Build!ArtifactsAssumption, ArtInv, NEW w \in Workers, Build!Compile(w)
  PROVE  ArtInv'
<1>1. /\ progress[w] < Len(Program[mode][w]) /\ making[w] = "build" /\ Build!Goes(w, "copy")
      /\ disk' = IF Build!Step(w) = "bear" THEN [disk EXCEPT !["bear"] = "plain"] ELSE disk
      /\ UNCHANGED <<progress, temp, had, mode, projectBuilds, buildLock>> /\ ArtTypes
         /\ WorkerFits(w)
    BY DEF Build!Compile, Build!Busy, Build!Rest, ArtInv
<1>2. making' \in [Workers -> Phases] /\ making'[w] = "copy"
      /\ \A v \in Workers \ {w} : making'[v] = making[v]
    BY <1>1, GoesMoves DEF Phases
<1>3. disk' \in [Build!Files -> OnDisks] /\ \A f \in Build!Files : disk'[f] = disk[f]
      \/ (f = "bear" /\ disk'[f] = "plain")
    BY <1>1 DEF ArtTypes, OnDisks
<1>4. ArtTypes'
    BY <1>1, <1>2, <1>3 DEF ArtTypes
<1>5. Build!BuildsFit'
    BY <1>1, <1>3, TarOf DEF ArtInv, Build!BuildsFit
<1>6. Build!Step(w)' = Build!Step(w) /\ Build!IsBuild(w)' = Build!IsBuild(w)
      /\ Build!Kind(w)' = Build!Kind(w)
    BY <1>1 DEF Build!Step, Build!IsBuild, Build!Kind
<1>7. WorkerFits(w)'
    BY <1>1, <1>2, <1>6 DEF WorkerFits
<1>8. \A f \in Build!Files : disk'[f] = "part" => disk[f] = "part" /\ ~ Doing(w, f)
    BY <1>1, <1>3 DEF Doing
<1> QED
    BY <1>1, <1>2, <1>4, <1>5, <1>7, <1>8, WorkerMoves

\* Whoever builds has the lock, so nobody else builds the same.
LEMMA BuildersDiffer ==
  ASSUME ArtInv, NEW w \in Workers, making[w] \in {"build", "copy"},
         NEW v \in Workers \ {w}, making[v] \in {"build", "copy"}
  PROVE  Build!Kind(v) # Build!Kind(w)
    BY DEF ArtInv, WorkerFits

LEMMA CopyOutStep ==
  ASSUME Build!ArtifactsAssumption, ArtInv, NEW w \in Workers, Build!CopyOut(w)
  PROVE  ArtInv'
<1>1. /\ progress[w] < Len(Program[mode][w]) /\ making[w] = "copy"
         /\ Build!Has(w, Build!BuiltOf(w))
      /\ disk' = [disk EXCEPT ![Build!BuildTar[Build!Kind(w)]] = Build!BuiltOf(w)]
      /\ projectBuilds' = [projectBuilds EXCEPT ![Build!Kind(w)] = Build!BuiltOf(w)]
      /\ buildLock' = [buildLock EXCEPT ![Build!Kind(w)] = "none"]
      /\ UNCHANGED <<mode, temp>> /\ ArtTypes /\ mode \in DOMAIN Program
    BY DEF Build!CopyOut, Build!Busy, ArtInv, ArtTypes
<1>2. /\ Build!File(w) \in Build!Files /\ Build!Kind(w) \in Build!Kinds
         /\ Build!BuildTar[Build!Kind(w)] \in Build!Files
      /\ Build!Step(w) \in Build!Wants(mode, w)
    BY <1>1, StepIsKnown
<1>3. Build!BuiltOf(w) = Build!Kind(w)
  <2>1. Build!Step(w) = "bear" => SourcesOf[w] = "plain"
      BY <1>1, <1>2 DEF Build!ArtifactsAssumption
  <2> QED
      BY <2>1 DEF Build!BuiltOf, Build!Kind
<1>4. Build!Kind(w) \in OnDisks \ {"part"}
    BY <1>2 DEF Build!Kinds, OnDisks
<1>5. WorkerFits(w)'
    BY <1>1, <1>2, <1>3, <1>4, HasFits
<1>6. /\ progress' \in [Workers -> Nat] /\ making' \in [Workers -> Phases]
      /\ had' \in [Workers -> [Build!Files -> OnDisks]]
      /\ \A v \in Workers \ {w} : progress'[v] = progress[v] /\ making'[v] = making[v]
         /\ had'[v] = had[v]
    BY <1>1, <1>2, <1>3, <1>4, HasMoves
<1>7. /\ disk' \in [Build!Files -> OnDisks]
         /\ projectBuilds' \in [Build!Kinds -> {"none", "plain", "edited"}]
      /\ buildLock' \in [Build!Kinds -> Workers \cup {"none"}]
      /\ \A f \in Build!Files : disk'[f] = disk[f]
         \/ (f = Build!BuildTar[Build!Kind(w)] /\ disk'[f] = Build!Kind(w))
      /\ \A k \in Build!Kinds : projectBuilds'[k] = projectBuilds[k] \/ projectBuilds'[k] = k
      /\ \A k \in Build!Kinds \ {Build!Kind(w)} : projectBuilds'[k] = projectBuilds[k]
         /\ buildLock'[k] = buildLock[k]
    BY <1>1, <1>2, <1>3, <1>4 DEF ArtTypes, Build!Kinds
<1>8. ArtTypes'
    BY <1>1, <1>6, <1>7 DEF ArtTypes
<1>9. Build!BuildsFit'
  <2> SUFFICES ASSUME NEW k \in Build!Kinds
               PROVE  projectBuilds'[k] \in {"none", k}
                      /\ disk'[Build!BuildTar[k]] \in {"none", "part", k}
      BY DEF Build!BuildsFit
  <2>1. projectBuilds[k] \in {"none", k} /\ disk[Build!BuildTar[k]] \in {"none", "part", k}
      BY DEF ArtInv, Build!BuildsFit
  <2>2. Build!BuildTar[k] = Build!BuildTar[Build!Kind(w)] => k = Build!Kind(w)
      BY <1>2, TarOf DEF Build!Kinds
  <2> QED
      BY <1>7, <2>1, <2>2, TarOf
<1>10. \A v \in Workers \ {w} : making[v] \in {"build", "copy"} =>
         buildLock'[Build!Kind(v)] = buildLock[Build!Kind(v)]
         /\ projectBuilds'[Build!Kind(v)] = projectBuilds[Build!Kind(v)]
  <2>1. \A v \in Workers : Build!Kind(v) \in Build!Kinds
      BY DEF Build!Kind, Build!ArtifactsAssumption
  <2> QED
      BY <1>1, <1>7, <2>1, BuildersDiffer
<1>11. \A f \in Build!Files : disk'[f] = "part" => disk[f] = "part" /\ ~ Doing(w, f)
    BY <1>1, <1>4, <1>7 DEF Doing
<1> QED
    BY <1>1, <1>5, <1>6, <1>8, <1>9, <1>10, <1>11, WorkerMoves

LEMMA BuildGivesUpStep ==
  ASSUME Build!ArtifactsAssumption, ArtInv, NEW w \in Workers, Build!BuildFails(w)
  PROVE  ArtInv'
<1>1. /\ progress[w] < Len(Program[mode][w]) /\ making[w] \in {"build", "copy"}
      /\ buildLock' = [buildLock EXCEPT ![Build!Kind(w)] = "none"]
      /\ UNCHANGED <<mode, disk, projectBuilds, temp>> /\ ArtTypes /\ WorkerFits(w)
    BY DEF Build!BuildFails, Build!Busy, ArtInv
<1>2. Build!File(w) \in Build!Files /\ Build!Kind(w) \in Build!Kinds
    BY <1>1, StepIsKnown
<1>3. buildLock' \in [Build!Kinds -> Workers \cup {"none"}]
      /\ \A k \in Build!Kinds \ {Build!Kind(w)} : buildLock'[k] = buildLock[k]
    BY <1>1, <1>2 DEF ArtTypes
<1>4. \A v \in Workers \ {w} : making[v] \in {"build", "copy"}
      => buildLock'[Build!Kind(v)] = buildLock[Build!Kind(v)]
  <2>1. \A v \in Workers : Build!Kind(v) \in Build!Kinds
      BY DEF Build!Kind, Build!ArtifactsAssumption
  <2> QED
      BY <1>1, <1>3, <2>1, BuildersDiffer
<1>5. Build!BuildsFit' /\ \A f \in Build!Files : ~ Doing(w, f)
    BY <1>1 DEF ArtInv, Build!BuildsFit, Doing
<1>6. CASE Build!Has(w, "none")
  <2>1. "none" \in OnDisks \ {"part"}
      BY DEF OnDisks
  <2>2. WorkerFits(w)'
      BY <1>2, <1>6, <2>1, HasFits
  <2>3. /\ progress' \in [Workers -> Nat] /\ making' \in [Workers -> Phases]
        /\ had' \in [Workers -> [Build!Files -> OnDisks]]
        /\ \A v \in Workers \ {w} : progress'[v] = progress[v] /\ making'[v] = making[v]
           /\ had'[v] = had[v]
      BY <1>1, <1>2, <1>6, <2>1, HasMoves
  <2>4. ArtTypes'
      BY <1>1, <1>3, <2>3 DEF ArtTypes
  <2> QED
      BY <1>1, <1>4, <1>5, <2>2, <2>3, <2>4, WorkerMoves
<1>7. CASE Build!Goes(w, "failed") /\ UNCHANGED <<progress, had>>
  <2>1. making' \in [Workers -> Phases] /\ making'[w] = "failed"
        /\ \A v \in Workers \ {w} : making'[v] = making[v]
      BY <1>1, <1>7, GoesMoves DEF Phases
  <2>2. ArtTypes'
      BY <1>1, <1>3, <1>7, <2>1 DEF ArtTypes
  <2>3. WorkerFits(w)'
      BY <1>1, <1>7, <2>1 DEF WorkerFits
  <2> QED
      BY <1>1, <1>4, <1>5, <1>7, <2>1, <2>2, <2>3, WorkerMoves
<1> QED
    BY <1>6, <1>7 DEF Build!BuildFails

LEMMA ArtCrash == ASSUME Build!ArtifactsAssumption, ArtInv, Build!Crash PROVE ArtInv'
<1>1. /\ mode = "api" /\ UNCHANGED <<mode, disk>> /\ making' = [w \in Workers |-> "look"]
      /\ had' = [w \in Workers |-> [f \in Build!Files |-> "none"]]
         /\ projectBuilds' = [k \in Build!Kinds |-> "none"]
    BY DEF Build!Crash
<1>2. ArtTypes'
    BY DEF Build!Crash, ArtInv, ArtTypes, OnDisks, Phases
<1>3. Build!BuildsFit' /\ PartsAreKnown'
    BY <1>1 DEF ArtInv, Build!BuildsFit, PartsAreKnown
<1>4. \A w \in Workers : WorkerFits(w)'
    BY <1>1 DEF WorkerFits
<1> QED
    BY <1>2, <1>3, <1>4 DEF ArtInv

LEMMA ArtNext ==
  ASSUME Build!ArtifactsAssumption, ArtInv, [Build!Next]_(Build!artifactVars)
  PROVE  ArtInv'
<1>1. CASE UNCHANGED Build!artifactVars
  <2>1. ArtTypes' /\ Build!BuildsFit' /\ \A w \in Workers : WorkerFits(w)'
      BY <1>1 DEF Build!artifactVars, ArtInv, ArtTypes, Build!BuildsFit, WorkerFits,
         Build!IsBuild, Build!Step, Build!Kind
  <2>2. PartsAreKnown'
      BY <1>1 DEF Build!artifactVars, ArtInv, PartsAreKnown, Doing, Build!Step
  <2> QED
      BY <2>1, <2>2 DEF ArtInv
<1>2. ASSUME NEW w \in Workers, Build!Find(w) \/ Build!Begin(w) \/ Build!Publish(w)
             \/ Build!FindBuild(w) \/ Build!EnterBuild(w)
      PROVE  ArtInv'
    BY <1>2, FindStep, BeginStep, PublishStep, FindBuildStep, EnterBuildStep
<1>3. ASSUME NEW w \in Workers,
             Build!Make(w) \/ Build!MakeBadly(w) \/ Build!TryAgain(w) \/ Build!TimesOut(w)
             \/ Build!WaitToBuild(w)
      PROVE  ArtInv'
    BY <1>3, MakingSteps
<1>4. ASSUME NEW w \in Workers, Build!Compile(w) \/ Build!CopyOut(w)
             \/ Build!BuildFails(w) PROVE ArtInv'
    BY <1>4, CompileStep, CopyOutStep, BuildGivesUpStep
<1> QED
    BY <1>1, <1>2, <1>3, <1>4, ArtCrash DEF Build!Next, Build!Work

LEMMA ArtifactsAgree == ArtInv => Build!ArtifactsAreRight
<1>1. ArtInv => Build!FilesAreWhole
  <2> SUFFICES ASSUME ArtInv, NEW w \in Workers, NEW f \in Build!Files
               PROVE  had[w][f] \notin {"part", "short", "wrong"}
      BY DEF Build!FilesAreWhole
  <2>1. had[w] \in [Build!Files -> OnDisks] /\ had[w][f] # "part"
      BY DEF ArtInv, ArtTypes, WorkerFits
  <2> QED
      BY <2>1 DEF OnDisks
<1>2. ArtInv => Build!OneBuilder
    BY DEF ArtInv, WorkerFits, Build!OneBuilder
<1> QED
    BY <1>1, <1>2 DEF ArtInv, Build!ArtifactsAreRight

(***************************************************************************)
(* Patches that are tried and tested (agents/produce_patch.py).            *)
(***************************************************************************)
\* The sizes of sets are those of FiniteSets.
LEMMA PatchSets ==
  \A S : (Patch!IsFiniteSet(S) <=> IsFiniteSet(S)) /\ Patch!Cardinality(S) = Cardinality(S)
    BY DEF Cardinality, Patch!Cardinality, IsFiniteSet, Patch!IsFiniteSet

PatchPlaces ==
  {"idle", "apply", "build", "lock", "key", "compile", "tests", "povs", "hook"}
PatchedFiles == {PatchFileOf[e] : e \in PatchEdits}
TreeBuilds == [of : Patch!Trees, sound : BOOLEAN]
PatchCalls ==
  [at : PatchPlaces, read : Patch!Trees, edit : PatchEdits \cup {None}, state : Patch!Trees,
   key : Patch!Trees, src : TreeBuilds, art : TreeBuilds, tested : SUBSET Patch!Trees,
   then : {"tests", "povs"}, erred : BOOLEAN, moved : SUBSET PatchedFiles]
PatchResults ==
  [diff : Patch!Trees, tested : SUBSET Patch!Trees, ran : TreeBuilds,
   moved : SUBSET PatchedFiles, erred : BOOLEAN]

BookTypes ==
  /\ left \in [PatchSessions -> Nat] /\ tars \in [Patch!Trees -> SUBSET TreeBuilds]
  /\ openedTars \in [PatchSessions -> SUBSET [name : Patch!Trees, build : TreeBuilds]]
  /\ treeBuilds \in [PatchSessions \cup {None} -> [Patch!Trees -> SUBSET TreeBuilds]]
  /\ locks \in [Patch!Trees -> (PatchSessions \X Patch!Slots) \cup {None}]
  /\ patch \in [PatchSessions -> PatchResults \cup {None}]
  /\ compiled \in [Patch!Trees -> Nat]
EditTypes ==
  /\ tree \in [PatchSessions -> Patch!Trees] /\ patches \in [PatchSessions -> Seq(PatchEdits)]
  /\ overwritten \in [PatchSessions -> BOOLEAN]
CallTypes == patchCalls \in [PatchSessions -> [Patch!Slots -> PatchCalls]]

\* The editor's list has every edit in force once, unless one was written over.
EditorFits(s) ==
  ~overwritten[s] =>
    /\ tree[s] = {patches[s][k] : k \in DOMAIN patches[s]}
    /\ \A j, k \in DOMAIN patches[s] : patches[s][j] = patches[s][k] => j = k

\* c is a call that s may have in flight as its i-th.  An edit has read its file as it is,
\* if nobody wrote that file since.
ReadFits(s, c) ==
  c.at = "apply" =>
    /\ c.edit \in PatchEdits \ c.read
    /\ PatchFileOf[c.edit] \notin c.moved =>
         \A x \in PatchEdits : PatchFileOf[x] = PatchFileOf[c.edit] =>
           (x \in c.read <=> x \in tree[s])
\* Who builds has the lock of the tree that was asked for.
LockFits(s, i, c) == c.at \in {"key", "compile"} => locks[c.state] = <<s, i>>
\* All that the call has seen is the tree there is, if nobody wrote since.
SeenFits(s, c) ==
  c.moved = {} =>
    /\ c.at \in {"lock", "key", "compile"} => c.state = tree[s]
    /\ c.at \in {"key", "compile"} => c.key = tree[s]
    /\ c.then = "povs" =>
         /\ c.tested = IF tests THEN {tree[s]} ELSE {}
         /\ tests => tree[s] \notin BrokenTrees \cup FailingTrees
\* What is compiled under its own name was not compiled before.
SourceFits(c) ==
  c.at = "compile" /\ c.src.sound =>
    c.src.of = c.key /\ c.key = c.state /\ compiled[c.key] = 0
\* What the call was given by build() was built, and of the tree there is.
GivenFits(s, c) ==
  /\ c.at \in {"povs", "hook"} => c.then = "povs"
  /\ c.at = "tests" => c.then = "tests"
  /\ c.then = "tests" => c.tested = {}
  /\ c.at = "tests" \/ c.then = "povs" =>
       /\ c.art.of \notin BrokenTrees
       /\ c.art.sound /\ c.moved = {} => c.art.of = tree[s] /\ tars[tree[s]] # {}
  /\ c.at = "hook" /\ ~c.erred => c.art.of \in FixedTrees
Fits(s, i, c) ==
  ReadFits(s, c) /\ LockFits(s, i, c) /\ SeenFits(s, c) /\ SourceFits(c) /\ GivenFits(s, c)

BooksFit ==
  /\ \A t \in Patch!Trees, b \in TreeBuilds : b \in tars[t] =>
       b.of \notin BrokenTrees /\ (b.sound => b.of = t)
  /\ \A m \in PatchSessions \cup {None}, t \in Patch!Trees, b \in TreeBuilds :
       b \in treeBuilds[m][t] =>
         b.of \notin BrokenTrees /\ (b.sound => b.of = t /\ tars[t] # {})
  /\ \A s \in PatchSessions : \A o \in openedTars[s] :
       o.build.of \notin BrokenTrees /\ (o.build.sound => o.build.of = o.name)
CountsFit ==
  \A t \in Patch!Trees : compiled[t] <= 1 /\ (compiled[t] = 1 => tars[t] # {})

CallsFit == \A s \in PatchSessions, i \in Patch!Slots : Fits(s, i, patchCalls[s][i])

PatchInv ==
  /\ warm \in BOOLEAN /\ tests \in BOOLEAN /\ BookTypes /\ EditTypes /\ CallTypes
  /\ \A s \in PatchSessions : EditorFits(s)
  /\ CallsFit /\ BooksFit /\ CountsFit /\ Patch!ConfirmedIsTested

LEMMA IdleCalls ==
  ASSUME NEW s, NEW i
  PROVE  /\ Patch!Idle \in PatchCalls /\ Patch!Idle.moved = {}
         /\ Fits(s, i, Patch!Idle) /\ Fits(s, i, Patch!Idle)'
<1>1. {} \in Patch!Trees /\ {} \in SUBSET Patch!Trees /\ {} \in SUBSET PatchedFiles
    BY DEF Patch!Trees
<1>2. Patch!Built({}) \in TreeBuilds
    BY <1>1 DEF Patch!Built, TreeBuilds
<1>3. /\ Patch!Idle.at = "idle" /\ Patch!Idle.then = "tests" /\ Patch!Idle.moved = {}
      /\ Patch!Idle.tested = {}
      /\ Patch!Idle \in PatchCalls
    BY <1>1, <1>2 DEF Patch!Idle, PatchCalls, PatchPlaces
<1> QED
    BY <1>3 DEF Fits, ReadFits, LockFits, SeenFits, SourceFits, GivenFits

LEMMA PatchingStarts ==
  ASSUME Patch!PatchingAssumption, Patch!Init
  PROVE  PatchInv
<1>1. PICK start \in Starts :
        /\ warm = start.warm /\ tests = start.tests
        /\ left = [s \in PatchSessions |-> IF s \in start.sessions THEN start.calls ELSE 0]
        /\ tars = [t \in Patch!Trees |-> IF t \in start.disk THEN {Patch!Built(t)} ELSE {}]
    BY DEF Patch!Init
<1>2. /\ start.warm \in BOOLEAN /\ start.tests \in BOOLEAN /\ start.calls \in Nat
      /\ {} \in start.disk /\ start.disk \subseteq Patch!Trees \ BrokenTrees
    BY <1>1 DEF Patch!PatchingAssumption
<1>3. {} \in Patch!Trees
    BY DEF Patch!Trees
<1>4. \A t \in Patch!Trees :
        /\ Patch!Built(t) \in TreeBuilds
        /\ Patch!Built(t).of = t
    BY DEF Patch!Built, TreeBuilds
<1>5. /\ treeBuilds = [m \in PatchSessions \cup {None} |->
           [t \in Patch!Trees |-> IF warm /\ t = {} THEN {Patch!Built(t)} ELSE {}]]
      /\ openedTars = [s \in PatchSessions |-> {}] /\ locks = [t \in Patch!Trees |-> None]
      /\ patch = [s \in PatchSessions |-> None] /\ compiled = [t \in Patch!Trees |-> 0]
      /\ overwritten = [s \in PatchSessions |-> FALSE]
      /\ tree = [s \in PatchSessions |-> {}] /\ patches = [s \in PatchSessions |-> <<>>]
      /\ patchCalls = [s \in PatchSessions |-> [i \in Patch!Slots |-> Patch!Idle]]
    BY DEF Patch!Init
<1>6. tars \in [Patch!Trees -> SUBSET TreeBuilds]
      /\ treeBuilds \in [PatchSessions \cup {None} -> [Patch!Trees -> SUBSET TreeBuilds]]
    BY <1>1, <1>4, <1>5
<1>7. BookTypes
    BY <1>1, <1>2, <1>5, <1>6 DEF BookTypes
<1>8. EditTypes /\ CallTypes
  <2>1. <<>> \in Seq(PatchEdits)
      BY EmptySeq
  <2> QED
      BY <1>3, <1>5, <2>1, IdleCalls DEF EditTypes, CallTypes
<1>9. \A s \in PatchSessions : EditorFits(s)
    BY <1>5, EmptySeq DEF EditorFits
<1>10. CallsFit
    BY <1>5, IdleCalls DEF CallsFit
<1>11. BooksFit
  <2>1. \A t \in Patch!Trees, b \in TreeBuilds :
          b \in tars[t] => b = Patch!Built(t) /\ t \in start.disk
      BY <1>1
  <2>2. \A m \in PatchSessions \cup {None}, t \in Patch!Trees, b \in TreeBuilds :
          b \in treeBuilds[m][t] => b = Patch!Built(t) /\ t = {}
      BY <1>5
  <2>3. tars[{}] # {} /\ {} \notin BrokenTrees
      BY <1>1, <1>2, <1>3
  <2>4. \A t \in start.disk : t \notin BrokenTrees
      BY <1>2
  <2>5. \A t \in Patch!Trees, b \in TreeBuilds : b \in tars[t] =>
          b.of \notin BrokenTrees /\ (b.sound => b.of = t)
      BY <1>4, <2>1, <2>4
  <2>6. \A m \in PatchSessions \cup {None}, t \in Patch!Trees, b \in TreeBuilds :
          b \in treeBuilds[m][t] =>
            b.of \notin BrokenTrees /\ (b.sound => b.of = t /\ tars[t] # {})
      BY <1>4, <2>2, <2>3
  <2>7. \A s \in PatchSessions : openedTars[s] = {}
      BY <1>5
  <2> QED
      BY <2>5, <2>6, <2>7 DEF BooksFit
<1>12. CountsFit /\ Patch!ConfirmedIsTested
    BY <1>5 DEF CountsFit, Patch!ConfirmedIsTested
<1> QED
    BY <1>1, <1>2, <1>7, <1>8, <1>9, <1>10, <1>11, <1>12 DEF PatchInv

\* The call of a step, and the others.
LEMMA TheCall ==
  ASSUME PatchInv, NEW s \in PatchSessions, NEW i \in Patch!Slots
  PROVE  /\ Patch!Call(s, i) = patchCalls[s][i] /\ patchCalls[s][i] \in PatchCalls
         /\ Fits(s, i, patchCalls[s][i]) /\ EditorFits(s)
         /\ tree[s] \in Patch!Trees /\ patches[s] \in Seq(PatchEdits)
         /\ Patch!MapOf(s) \in PatchSessions \cup {None}
    BY DEF PatchInv, EditTypes, CallTypes, CallsFit, Patch!Call, Patch!MapOf

LEMMA CallMoves ==
  ASSUME CallTypes, NEW s \in PatchSessions, NEW i \in Patch!Slots, NEW c \in PatchCalls,
         Patch!Go(s, i, c)
  PROVE  /\ CallTypes' /\ patchCalls'[s][i] = c
         /\ \A r \in PatchSessions, j \in Patch!Slots :
              <<r, j>> # <<s, i>> => patchCalls'[r][j] = patchCalls[r][j]
<1>1. PICK f : f = [patchCalls[s] EXCEPT ![i] = c]
    OBVIOUS
<1>2. patchCalls' = [patchCalls EXCEPT ![s] = f]
    BY <1>1 DEF Patch!Go
<1>3. /\ f \in [Patch!Slots -> PatchCalls] /\ f[i] = c
      /\ \A j \in Patch!Slots : j # i => f[j] = patchCalls[s][j]
    BY <1>1 DEF CallTypes
<1> QED
    BY <1>2, <1>3 DEF CallTypes

\* What takes no tar away, and neither the lock of c nor the count of what c compiles.
LEMMA StillFits ==
  ASSUME NEW s \in PatchSessions, NEW i \in Patch!Slots, NEW c \in PatchCalls, Fits(s, i, c),
         EditTypes, UNCHANGED <<tree, tests>>,
         \A t \in Patch!Trees : tars[t] # {} => tars'[t] # {},
         c.at \in {"key", "compile"} => locks'[c.state] = locks[c.state],
         c.at = "compile" /\ c.src.sound => compiled'[c.key] = compiled[c.key]
  PROVE  Fits(s, i, c)'
<1>1. ReadFits(s, c)' /\ LockFits(s, i, c)' /\ SeenFits(s, c)'
    BY DEF Fits, ReadFits, LockFits, SeenFits
<1>2. SourceFits(c)'
    BY DEF Fits, SourceFits
<1>3. GivenFits(s, c)'
  <2>1. tree[s] \in Patch!Trees
      BY DEF EditTypes
  <2> QED
      BY <2>1 DEF Fits, GivenFits
<1> QED
    BY <1>1, <1>2, <1>3 DEF Fits

\* Steps that write no file: the others' locks and counts stay.
LEMMA PatchStep ==
  ASSUME Patch!PatchingAssumption, PatchInv, NEW s \in PatchSessions, NEW i \in Patch!Slots,
         NEW c \in PatchCalls, Patch!Go(s, i, c), Fits(s, i, c)',
         UNCHANGED <<tree, patches, overwritten, warm, tests>>,
         BookTypes', BooksFit', CountsFit', Patch!ConfirmedIsTested',
         \A t \in Patch!Trees : tars[t] # {} => tars'[t] # {},
         \A t \in Patch!Trees : locks[t] \notin {None, <<s, i>>} => locks'[t] = locks[t],
         \A t \in Patch!Trees : locks[t] # <<s, i>> => compiled'[t] = compiled[t]
  PROVE  PatchInv'
<1>1. /\ CallTypes' /\ patchCalls'[s][i] = c
      /\ \A r \in PatchSessions, j \in Patch!Slots :
           <<r, j>> # <<s, i>> => patchCalls'[r][j] = patchCalls[r][j]
    BY CallMoves DEF PatchInv
<1>3. ASSUME NEW r \in PatchSessions, NEW j \in Patch!Slots, <<r, j>> # <<s, i>>
      PROVE  Fits(r, j, patchCalls[r][j])'
  <2>1. PICK d : d = patchCalls[r][j]
      OBVIOUS
  <2>2. d \in PatchCalls /\ Fits(r, j, d) /\ patchCalls'[r][j] = d
      BY <1>1, <1>3, <2>1, TheCall
  <2>3. <<r, j>> # None
    <3>1. <<r, j>> \in PatchSessions \X Patch!Slots
        OBVIOUS
    <3> QED
        BY <3>1 DEF Patch!PatchingAssumption
  <2>4. d.state \in Patch!Trees /\ d.key \in Patch!Trees
      BY <2>2 DEF PatchCalls
  <2>5. d.at \in {"key", "compile"} => locks[d.state] = <<r, j>>
      BY <2>2 DEF Fits, LockFits
  <2>6. d.at \in {"key", "compile"} => locks'[d.state] = locks[d.state]
      BY <1>3, <2>3, <2>4, <2>5
  <2>7. d.at = "compile" /\ d.src.sound => d.key = d.state
      BY <2>2 DEF Fits, SourceFits
  <2>8. d.at = "compile" /\ d.src.sound => compiled'[d.key] = compiled[d.key]
      BY <1>3, <2>4, <2>5, <2>7
  <2>9. Fits(r, j, d)'
      BY <2>2, <2>6, <2>8, StillFits DEF PatchInv
  <2> QED
      BY <2>2, <2>9
<1>4. CallsFit'
    BY <1>1, <1>3 DEF CallsFit
<1>5. EditTypes' /\ (\A r \in PatchSessions : EditorFits(r)')
    BY DEF PatchInv, EditTypes, EditorFits
<1> QED
    BY <1>1, <1>4, <1>5 DEF PatchInv

\* Steps that change neither what is built nor a lock.
LEMMA CallStep ==
  ASSUME Patch!PatchingAssumption, PatchInv, NEW s \in PatchSessions, NEW i \in Patch!Slots,
         NEW c \in PatchCalls, Patch!Go(s, i, c), Fits(s, i, c)',
         UNCHANGED <<tree, patches, overwritten, tars, treeBuilds, openedTars, locks, compiled,
           warm, tests, patch>>,
         left' \in [PatchSessions -> Nat]
  PROVE  PatchInv'
<1>1. BookTypes'
    BY DEF PatchInv, BookTypes
<1>2. BooksFit'
    BY DEF PatchInv, BooksFit
<1>3. CountsFit'
    BY DEF PatchInv, CountsFit
<1>4. Patch!ConfirmedIsTested'
    BY DEF PatchInv, Patch!ConfirmedIsTested
<1> QED
    BY <1>1, <1>2, <1>3, <1>4, PatchStep

\* A file is written: the other calls of the session have not read it.
LEMMA WroteStep ==
  ASSUME Patch!PatchingAssumption, PatchInv, NEW s \in PatchSessions, NEW i \in Patch!Slots,
         NEW f \in PatchedFiles, Patch!Wrote(s, i, f),
         UNCHANGED <<tars, treeBuilds, openedTars, locks, compiled, warm, tests, patch>>,
         left' \in [PatchSessions -> Nat], EditTypes', EditorFits(s)',
         \A r \in PatchSessions \ {s} :
           tree'[r] = tree[r] /\ patches'[r] = patches[r] /\ overwritten'[r] = overwritten[r],
         \A x \in PatchEdits : PatchFileOf[x] # f => (x \in tree'[s] <=> x \in tree[s])
  PROVE  PatchInv'
<1>1. PICK g : g = [j \in Patch!Slots |-> IF j = i THEN Patch!Idle
                     ELSE Patch!Overtaken(patchCalls[s][j], f)]
    OBVIOUS
<1>2. patchCalls' = [patchCalls EXCEPT ![s] = g]
    BY <1>1 DEF Patch!Wrote
<1>3. ASSUME NEW j \in Patch!Slots PROVE g[j] \in PatchCalls /\ Fits(s, j, g[j])'
  <2>1. CASE j = i
      BY <1>1, <2>1, IdleCalls
  <2>2. CASE j # i
    <3>1. PICK c, d : c = patchCalls[s][j] /\ d = [c EXCEPT !.moved = c.moved \cup {f}]
        OBVIOUS
    <3>2. c \in PatchCalls /\ Fits(s, j, c) /\ g[j] = d
        BY <1>1, <2>2, <3>1, TheCall DEF Patch!Overtaken
    <3>3. /\ d \in PatchCalls /\ d.moved = c.moved \cup {f} /\ d.at = c.at /\ d.read = c.read
          /\ d.edit = c.edit /\ d.state = c.state /\ d.key = c.key /\ d.src = c.src
          /\ d.art = c.art /\ d.then = c.then /\ d.erred = c.erred /\ d.tested = c.tested
        BY <3>1, <3>2 DEF PatchCalls
    <3>4. d.moved # {} /\ (\A x : x \in c.moved => x \in d.moved) /\ f \in d.moved
        BY <3>3
    <3>5. ReadFits(s, d)'
      <4>1. SUFFICES ASSUME d.at = "apply"
                     PROVE  /\ d.edit \in PatchEdits \ d.read
                            /\ PatchFileOf[d.edit] \notin d.moved =>
                                 \A x \in PatchEdits : PatchFileOf[x] = PatchFileOf[d.edit] =>
                                   (x \in d.read <=> x \in tree'[s])
          BY DEF ReadFits
      <4>2. /\ c.edit \in PatchEdits \ c.read
            /\ PatchFileOf[c.edit] \notin c.moved =>
                 \A x \in PatchEdits : PatchFileOf[x] = PatchFileOf[c.edit] =>
                   (x \in c.read <=> x \in tree[s])
          BY <3>2, <3>3, <4>1 DEF Fits, ReadFits
      <4>3. PatchFileOf[d.edit] \notin d.moved =>
              PatchFileOf[c.edit] # f /\ PatchFileOf[c.edit] \notin c.moved
          BY <3>3, <3>4
      <4> QED
          BY <3>3, <4>2, <4>3
    <3>6. LockFits(s, j, d)' /\ SeenFits(s, d)' /\ SourceFits(d)' /\ GivenFits(s, d)'
        BY <3>2, <3>3, <3>4 DEF Fits, LockFits, SeenFits, SourceFits, GivenFits
    <3> QED
        BY <3>2, <3>3, <3>5, <3>6 DEF Fits
  <2> QED
      BY <2>1, <2>2
<1>4. CallTypes' /\ patchCalls'[s] = g
      /\ \A r \in PatchSessions \ {s} : patchCalls'[r] = patchCalls[r]
  <2>1. g \in [Patch!Slots -> PatchCalls]
      BY <1>1, <1>3
  <2> QED
      BY <1>2, <2>1 DEF PatchInv, CallTypes
<1>5. ASSUME NEW r \in PatchSessions \ {s}, NEW j \in Patch!Slots
      PROVE  Fits(r, j, patchCalls[r][j])'
  <2>1. PICK d : d = patchCalls[r][j]
      OBVIOUS
  <2>2. d \in PatchCalls /\ Fits(r, j, d) /\ patchCalls'[r][j] = d /\ tree'[r] = tree[r]
      BY <1>4, <2>1, TheCall
  <2>3. Fits(r, j, d)'
      BY <2>2 DEF Fits, ReadFits, LockFits, SeenFits, SourceFits, GivenFits
  <2> QED
      BY <2>2, <2>3
<1>6. CallsFit'
    BY <1>3, <1>4, <1>5 DEF CallsFit
<1>7. \A r \in PatchSessions : EditorFits(r)'
    BY DEF PatchInv, EditorFits
<1>8. BookTypes'
    BY DEF PatchInv, BookTypes
<1>9. BooksFit' /\ CountsFit'
    BY DEF PatchInv, BooksFit, CountsFit
<1>10. Patch!ConfirmedIsTested'
    BY DEF PatchInv, Patch!ConfirmedIsTested
<1> QED
    BY <1>4, <1>6, <1>7, <1>8, <1>9, <1>10 DEF PatchInv

LEMMA AskedStep ==
  ASSUME PatchInv, NEW s \in PatchSessions, NEW i \in Patch!Slots, Patch!Asked(s, i)
  PROVE  left' \in [PatchSessions -> Nat] /\ patchCalls[s][i].at = "idle"
<1>1. left[s] > 0 /\ left' = [left EXCEPT ![s] = left[s] - 1] /\ left \in [PatchSessions -> Nat]
    BY DEF Patch!Asked, PatchInv, BookTypes
<1> QED
    BY <1>1 DEF Patch!Asked, Patch!Call

LEMMA ApplyPatchStep ==
  ASSUME Patch!PatchingAssumption, PatchInv, NEW s \in PatchSessions, NEW i \in Patch!Slots,
         NEW e \in PatchEdits, Patch!ApplyPatch(s, i, e)
  PROVE  PatchInv'
<1>1. PICK c : c = [Patch!Idle EXCEPT !.at = "apply", !.edit = e, !.read = tree[s]]
    OBVIOUS
<1>2. /\ c \in PatchCalls /\ c.at = "apply" /\ c.edit = e /\ c.read = tree[s]
      /\ c.then = "tests" /\ c.moved = {} /\ c.tested = {}
  <2>1. Patch!Idle \in PatchCalls /\ tree[s] \in Patch!Trees
      BY IdleCalls, TheCall
  <2>2. /\ c \in PatchCalls /\ c.at = "apply" /\ c.edit = e /\ c.read = tree[s]
        /\ c.then = Patch!Idle.then /\ c.moved = Patch!Idle.moved
        /\ c.tested = Patch!Idle.tested
      BY <1>1, <2>1 DEF PatchCalls, PatchPlaces
  <2> QED
      BY <2>2 DEF Patch!Idle
<1>3. /\ e \notin tree[s] /\ Patch!Asked(s, i) /\ Patch!Go(s, i, c)
      /\ UNCHANGED <<tree, patches, overwritten, tars, treeBuilds, openedTars, locks, compiled,
           warm, tests, patch>>
    BY <1>1 DEF Patch!ApplyPatch, Patch!editing, Patch!building, Patch!chosen
<1>4. Fits(s, i, c)'
    BY <1>2, <1>3 DEF Fits, ReadFits, LockFits, SeenFits, SourceFits, GivenFits
<1> QED
    BY <1>2, <1>3, <1>4, AskedStep, CallStep

LEMMA TestPatchStep ==
  ASSUME Patch!PatchingAssumption, PatchInv, NEW s \in PatchSessions, NEW i \in Patch!Slots,
         Patch!TestPatch(s, i)
  PROVE  PatchInv'
<1>1. PICK c : c = [Patch!Idle EXCEPT !.at = "build"]
    OBVIOUS
<1>2. c \in PatchCalls /\ c.at = "build" /\ c.then = "tests" /\ c.tested = {}
  <2>1. Patch!Idle \in PatchCalls
      BY IdleCalls
  <2>2. /\ c \in PatchCalls /\ c.at = "build" /\ c.then = Patch!Idle.then
        /\ c.tested = Patch!Idle.tested
      BY <1>1, <2>1 DEF PatchCalls, PatchPlaces
  <2> QED
      BY <2>2 DEF Patch!Idle
<1>3. /\ Patch!Asked(s, i) /\ Patch!Go(s, i, c)
      /\ UNCHANGED <<tree, patches, overwritten, tars, treeBuilds, openedTars, locks, compiled,
           warm, tests, patch>>
    BY <1>1 DEF Patch!TestPatch, Patch!editing, Patch!building, Patch!chosen
<1>4. Fits(s, i, c)'
    BY <1>2, <1>3 DEF Fits, ReadFits, LockFits, SeenFits, SourceFits, GivenFits
<1> QED
    BY <1>2, <1>3, <1>4, AskedStep, CallStep

LEMMA ListFits ==
  ASSUME NEW s, NEW q, patches'[s] = q, tree'[s] = {q[k] : k \in DOMAIN q},
         \A j, k \in DOMAIN q : q[j] = q[k] => j = k
  PROVE  EditorFits(s)'
    BY DEF EditorFits

\* An edit is appended, or the last one dropped.
LEMMA Appended ==
  ASSUME NEW s \in PatchSessions, EditorFits(s), ~overwritten[s],
         patches[s] \in Seq(PatchEdits), NEW e \in PatchEdits \ tree[s],
         patches'[s] = Append(patches[s], e), tree'[s] = tree[s] \cup {e}
  PROVE  EditorFits(s)'
<1>1. PICK p, t :
        /\ p \in Seq(PatchEdits) /\ p = patches[s] /\ t = tree[s] /\ t = {p[k] : k \in 1..Len(p)}
        /\ \A j, k \in 1..Len(p) : p[j] = p[k] => j = k
  <2>1. PICK p, t : p = patches[s] /\ t = tree[s]
      OBVIOUS
  <2>2. p \in Seq(PatchEdits) /\ DOMAIN p = 1..Len(p)
      BY <2>1
  <2> QED
      BY <2>1, <2>2 DEF EditorFits
<1> DEFINE q == Append(p, e)
<1>2. /\ q \in Seq(PatchEdits) /\ Len(q) = Len(p) + 1 /\ Len(p) \in Nat
      /\ \A k \in 1..Len(p) : q[k] = p[k]
      /\ q[Len(p) + 1] = e /\ DOMAIN q = 1..(Len(p) + 1)
    BY <1>1, AppendProperties, LenProperties
<1>3. \A k \in 1..(Len(p) + 1) : k \in 1..Len(p) \/ k = Len(p) + 1
    BY <1>2
<1>4. \A k \in 1..Len(p) : p[k] # e
    BY <1>1
<1> HIDE DEF q
<1>5. t \cup {e} = {q[k] : k \in 1..(Len(p) + 1)}
  <2>1. ASSUME NEW k \in 1..(Len(p) + 1) PROVE q[k] \in t \cup {e}
      BY <1>1, <1>2, <1>3
  <2>2. ASSUME NEW x \in t PROVE \E k \in 1..(Len(p) + 1) : x = q[k]
    <3>1. PICK k \in 1..Len(p) : x = p[k]
        BY <1>1
    <3>2. k \in 1..(Len(p) + 1)
        BY <1>2
    <3> QED
        BY <1>2, <3>1, <3>2
  <2>3. Len(p) + 1 \in 1..(Len(p) + 1)
      BY <1>2
  <2> QED
      BY <1>2, <2>1, <2>2, <2>3
<1>6. \A j, k \in 1..(Len(p) + 1) : q[j] = q[k] => j = k
    BY <1>1, <1>2, <1>3, <1>4
<1> QED
    BY <1>1, <1>2, <1>5, <1>6 DEF EditorFits, q

LEMMA Dropped ==
  ASSUME NEW s \in PatchSessions, EditorFits(s), ~overwritten[s],
         patches[s] \in Seq(PatchEdits), patches[s] # <<>>,
         patches'[s] = SubSeq(patches[s], 1, Len(patches[s]) - 1),
         tree'[s] = tree[s] \ {patches[s][Len(patches[s])]}
  PROVE  EditorFits(s)'
<1>1. PICK p, t :
        /\ p \in Seq(PatchEdits) /\ p = patches[s] /\ t = tree[s] /\ t = {p[k] : k \in 1..Len(p)}
           /\ p # <<>>
        /\ \A j, k \in 1..Len(p) : p[j] = p[k] => j = k
  <2>1. PICK p, t : p = patches[s] /\ t = tree[s]
      OBVIOUS
  <2>2. p \in Seq(PatchEdits) /\ DOMAIN p = 1..Len(p)
      BY <2>1
  <2> QED
      BY <2>1, <2>2 DEF EditorFits
<1>2. PICK n, q :
        /\ n \in Nat /\ Len(p) = n + 1 /\ \A k \in 1..n : k \in 1..Len(p) /\ p[k] \in PatchEdits
        /\ q = SubSeq(p, 1, n) /\ patches'[s] = q /\ tree'[s] = t \ {p[n + 1]}
  <2>1. PICK n, q : n = Len(p) - 1 /\ q = SubSeq(p, 1, n)
      OBVIOUS
  <2>2. n \in Nat /\ Len(p) = n + 1 /\ \A k \in 1..n : k \in 1..Len(p) /\ p[k] \in PatchEdits
      BY <1>1, <2>1, EmptySeq, LenProperties, ElementOfSeq
  <2>3. patches'[s] = q /\ tree'[s] = t \ {p[n + 1]}
      BY <1>1, <2>1, <2>2
  <2> QED
      BY <2>1, <2>2, <2>3
<1>3. q \in Seq(PatchEdits) /\ Len(q) = n /\ \A k \in 1..n : q[k] = p[k]
  <2>1. q \in Seq(PatchEdits) /\ Len(q) = (IF 1 <= n THEN n - 1 + 1 ELSE 0)
        /\ \A i \in 1..(n - 1 + 1) : q[i] = p[1 + i - 1]
      BY <1>2, SubSeqProperties
  <2> QED
      BY <1>2, <2>1
<1>4. DOMAIN q = 1..n
    BY <1>3, LenProperties
<1>5. \A k \in 1..(n + 1) : k \in 1..n \/ k = n + 1
    BY <1>2
<1>6. \A k \in 1..n : k # n + 1 /\ k \in 1..(n + 1)
    BY <1>2
<1>7. n + 1 \in 1..(n + 1)
    BY <1>2
<1>8. t \ {p[n + 1]} = {q[k] : k \in 1..n}
    BY <1>1, <1>2, <1>3, <1>5, <1>6, <1>7
<1>9. \A j, k \in 1..n : q[j] = q[k] => j = k
    BY <1>1, <1>2, <1>3, <1>6
<1>10. tree'[s] = {q[k] : k \in DOMAIN q} /\ \A j, k \in DOMAIN q : q[j] = q[k] => j = k
    BY <1>2, <1>4, <1>8, <1>9
<1> QED
    BY <1>2, <1>10, ListFits

LEMMA WriteStep ==
  ASSUME Patch!PatchingAssumption, PatchInv, NEW s \in PatchSessions, NEW i \in Patch!Slots,
         Patch!Write(s, i)
  PROVE  PatchInv'
<1>1. PICK c, e, t, u, f :
        /\ c = patchCalls[s][i] /\ e = c.edit /\ t = tree[s]
        /\ u = Patch!Rewritten(t, c.read, e) /\ f = PatchFileOf[e]
    OBVIOUS
<1>2. /\ c \in PatchCalls /\ Fits(s, i, c) /\ EditorFits(s) /\ t \in Patch!Trees
      /\ patches[s] \in Seq(PatchEdits) /\ c.read \in Patch!Trees
    BY <1>1, TheCall DEF PatchCalls
<1>3. /\ c.at = "apply" /\ tree' = [tree EXCEPT ![s] = u] /\ Patch!Wrote(s, i, f)
      /\ patches' = [patches EXCEPT ![s] = Append(patches[s], e)]
      /\ overwritten' = [overwritten EXCEPT ![s] = overwritten[s] \/ f \in c.moved]
      /\ UNCHANGED <<tars, treeBuilds, openedTars, locks, compiled, warm, tests, left, patch>>
    BY <1>1, TheCall DEF Patch!Write, Patch!building, Patch!chosen
<1>4. /\ e \in PatchEdits \ c.read
      /\ f \notin c.moved =>
           \A x \in PatchEdits : PatchFileOf[x] = f => (x \in c.read <=> x \in t)
    BY <1>1, <1>2, <1>3 DEF Fits, ReadFits
<1>5. /\ u \in Patch!Trees
      /\ \A x \in PatchEdits : PatchFileOf[x] # f => (x \in u <=> x \in t)
    BY <1>1, <1>2, <1>4 DEF Patch!Rewritten, Patch!Trees
<1>6. f \notin c.moved => u = t \cup {e} /\ e \notin t
  <2>1. \A x \in t \cup c.read : x \in PatchEdits
      BY <1>2 DEF Patch!Trees
  <2> QED
      BY <1>1, <1>4, <2>1 DEF Patch!Rewritten
<1>7. /\ EditTypes' /\ tree'[s] = u /\ patches'[s] = Append(patches[s], e)
      /\ overwritten'[s] = (overwritten[s] \/ f \in c.moved)
      /\ \A r \in PatchSessions \ {s} :
           tree'[r] = tree[r] /\ patches'[r] = patches[r] /\ overwritten'[r] = overwritten[r]
  <2>1. Append(patches[s], e) \in Seq(PatchEdits)
      BY <1>2, <1>4, AppendProperties
  <2>2. EditTypes
      BY DEF PatchInv
  <2>3. /\ tree' \in [PatchSessions -> Patch!Trees] /\ tree'[s] = u
        /\ \A r \in PatchSessions \ {s} : tree'[r] = tree[r]
      BY <1>3, <1>5, <2>2 DEF EditTypes
  <2>4. /\ patches' \in [PatchSessions -> Seq(PatchEdits)] /\ patches'[s] = Append(patches[s], e)
        /\ \A r \in PatchSessions \ {s} : patches'[r] = patches[r]
      BY <1>3, <2>1, <2>2 DEF EditTypes
  <2>5. PICK v \in BOOLEAN : v = (overwritten[s] \/ f \in c.moved)
      OBVIOUS
  <2>6. overwritten' = [overwritten EXCEPT ![s] = v]
      BY <1>3, <2>5
  <2>7. /\ overwritten' \in [PatchSessions -> BOOLEAN] /\ overwritten'[s] = v
        /\ \A r \in PatchSessions \ {s} : overwritten'[r] = overwritten[r]
      BY <2>2, <2>6 DEF EditTypes
  <2> QED
      BY <2>3, <2>4, <2>5, <2>7 DEF EditTypes
<1>8. EditorFits(s)'
  <2>1. CASE overwritten[s] \/ f \in c.moved
      BY <1>7, <2>1 DEF EditorFits
  <2>2. CASE ~overwritten[s] /\ f \notin c.moved
      BY <1>1, <1>2, <1>4, <1>6, <1>7, <2>2, Appended
  <2> QED
      BY <2>1, <2>2
<1>9. f \in PatchedFiles /\ left' \in [PatchSessions -> Nat]
    BY <1>1, <1>3, <1>4 DEF PatchedFiles, PatchInv, BookTypes
<1>10. \A x \in PatchEdits : PatchFileOf[x] # f => (x \in tree'[s] <=> x \in tree[s])
    BY <1>1, <1>5, <1>7
<1> QED
    BY <1>3, <1>7, <1>8, <1>9, <1>10, WroteStep

LEMMA UndoStep ==
  ASSUME Patch!PatchingAssumption, PatchInv, NEW s \in PatchSessions, NEW i \in Patch!Slots,
         Patch!UndoLastPatch(s, i)
  PROVE  PatchInv'
<1>1. PICK p, t, last, u, q, f :
        /\ p = patches[s] /\ t = tree[s] /\ last = p[Len(p)] /\ u = t \ {last}
        /\ q = SubSeq(p, 1, Len(p) - 1) /\ f = PatchFileOf[last]
    OBVIOUS
<1>2. /\ p # <<>> /\ Patch!Asked(s, i) /\ tree' = [tree EXCEPT ![s] = u]
      /\ patches' = [patches EXCEPT ![s] = q] /\ Patch!Wrote(s, i, f)
      /\ UNCHANGED <<tars, treeBuilds, openedTars, locks, compiled, warm, tests, patch,
           overwritten>>
    BY <1>1 DEF Patch!UndoLastPatch, Patch!building, Patch!chosen, Patch!Undone
<1>3. EditorFits(s) /\ t \in Patch!Trees /\ p \in Seq(PatchEdits)
    BY <1>1, TheCall
<1>4. last \in PatchEdits /\ q \in Seq(PatchEdits)
  <2>1. Len(p) \in Nat /\ Len(p) # 0
      BY <1>2, <1>3, EmptySeq, LenProperties
  <2>2. Len(p) \in 1..Len(p)
      BY <2>1
  <2>3. last \in PatchEdits
      BY <1>1, <1>3, <2>2, ElementOfSeq
  <2>4. \A k \in 1..(Len(p) - 1) : k \in 1..Len(p)
      BY <2>1
  <2>5. \A k \in 1..(Len(p) - 1) : p[k] \in PatchEdits
      BY <1>3, <2>4, ElementOfSeq
  <2>6. Len(p) - 1 \in Int /\ 1 \in Int
      BY <2>1
  <2>7. PICK n \in Int : n = Len(p) - 1
      BY <2>6
  <2>8. \A k \in 1..n : p[k] \in PatchEdits
      BY <2>5, <2>7
  <2>9. SubSeq(p, 1, n) \in Seq(PatchEdits)
      BY <2>6, <2>7, <2>8, SubSeqProperties
  <2> QED
      BY <1>1, <2>3, <2>7, <2>9
<1>5. /\ u \in Patch!Trees
      /\ \A x \in PatchEdits : PatchFileOf[x] # f => (x \in u <=> x \in t)
    BY <1>1, <1>3 DEF Patch!Trees
<1>6. /\ EditTypes' /\ tree'[s] = u /\ patches'[s] = q
      /\ \A r \in PatchSessions \ {s} :
           tree'[r] = tree[r] /\ patches'[r] = patches[r] /\ overwritten'[r] = overwritten[r]
    BY <1>2, <1>4, <1>5 DEF PatchInv, EditTypes
<1>7. EditorFits(s)'
  <2>1. CASE overwritten[s]
      BY <1>2, <2>1 DEF EditorFits
  <2>2. CASE ~overwritten[s]
      BY <1>1, <1>2, <1>3, <1>6, <2>2, Dropped
  <2> QED
      BY <2>1, <2>2
<1>8. f \in PatchedFiles /\ left' \in [PatchSessions -> Nat]
    BY <1>1, <1>2, <1>4, AskedStep DEF PatchedFiles
<1>9. \A x \in PatchEdits : PatchFileOf[x] # f => (x \in tree'[s] <=> x \in tree[s])
    BY <1>1, <1>5, <1>6
<1> QED
    BY <1>2, <1>6, <1>7, <1>8, <1>9, WroteStep

\* What build() finds was built, and from the tree if nobody wrote since.
LEMMA FoundFits ==
  ASSUME PatchInv, NEW s \in PatchSessions, NEW i \in Patch!Slots, NEW d \in PatchCalls,
         Fits(s, i, d), d.at \in {"build", "lock"}, NEW t \in Patch!Trees,
         d.moved = {} => t = tree[s], NEW b \in treeBuilds[Patch!MapOf(s)][t],
         NEW c, c = [d EXCEPT !.at = d.then, !.art = b],
         UNCHANGED <<tree, tests, tars>>
  PROVE  c \in PatchCalls /\ Fits(s, i, c)'
<1>1. Patch!MapOf(s) \in PatchSessions \cup {None} /\ BookTypes /\ BooksFit /\ EditTypes
    BY DEF PatchInv, Patch!MapOf
<1>2. b \in TreeBuilds /\ b.of \notin BrokenTrees /\ (b.sound => b.of = t /\ tars[t] # {})
    BY <1>1 DEF BookTypes, BooksFit
<1>3. /\ c \in PatchCalls /\ c.at = d.then /\ c.then = d.then /\ c.art = b
      /\ c.tested = d.tested /\ c.moved = d.moved /\ d.then \in {"tests", "povs"}
    BY <1>2 DEF PatchCalls, PatchPlaces
<1>4. ReadFits(s, c)' /\ LockFits(s, i, c)' /\ SourceFits(c)'
    BY <1>3 DEF ReadFits, LockFits, SourceFits
<1>5. SeenFits(s, c)'
    BY <1>3 DEF Fits, SeenFits
<1>6. GivenFits(s, c)'
    BY <1>2, <1>3 DEF Fits, GivenFits
<1> QED
    BY <1>3, <1>4, <1>5, <1>6 DEF Fits

LEMMA BuildHitStep ==
  ASSUME Patch!PatchingAssumption, PatchInv, NEW s \in PatchSessions, NEW i \in Patch!Slots,
         Patch!BuildHit(s, i)
  PROVE  PatchInv'
<1>1. PICK d : d = patchCalls[s][i] /\ d \in PatchCalls /\ Fits(s, i, d)
    BY TheCall
<1>2. /\ d.at = "build" /\ tree[s] \in Patch!Trees
      /\ UNCHANGED <<tree, patches, overwritten, tars, treeBuilds, openedTars, locks, compiled,
           warm, tests, left, patch>>
    BY <1>1, TheCall DEF Patch!BuildHit, Patch!editing, Patch!building, Patch!chosen
<1>3. PICK b \in treeBuilds[Patch!MapOf(s)][tree[s]] :
        Patch!Go(s, i, [d EXCEPT !.at = d.then, !.art = b])
    BY <1>1, TheCall DEF Patch!BuildHit
<1>4. PICK c : c = [d EXCEPT !.at = d.then, !.art = b]
    OBVIOUS
<1>5. c \in PatchCalls /\ Fits(s, i, c)'
    BY <1>1, <1>2, <1>4, FoundFits
<1>6. left' \in [PatchSessions -> Nat]
    BY <1>2 DEF PatchInv, BookTypes
<1> QED
    BY <1>2, <1>3, <1>4, <1>5, <1>6, CallStep

LEMMA BuildMissStep ==
  ASSUME Patch!PatchingAssumption, PatchInv, NEW s \in PatchSessions, NEW i \in Patch!Slots,
         Patch!BuildMiss(s, i)
  PROVE  PatchInv'
<1>1. PICK d, c : /\ d = patchCalls[s][i] /\ d \in PatchCalls /\ Fits(s, i, d)
                  /\ c = [d EXCEPT !.at = "lock", !.state = tree[s]]
    BY TheCall
<1>2. /\ d.at = "build" /\ tree[s] \in Patch!Trees /\ Patch!Go(s, i, c)
      /\ UNCHANGED <<tree, patches, overwritten, tars, treeBuilds, openedTars, locks, compiled,
           warm, tests, left, patch>>
    BY <1>1, TheCall DEF Patch!BuildMiss, Patch!editing, Patch!building, Patch!chosen
<1>3. /\ c \in PatchCalls /\ c.at = "lock" /\ c.state = tree[s] /\ c.then = d.then
      /\ c.tested = d.tested /\ c.moved = d.moved /\ c.art = d.art
    BY <1>1, <1>2 DEF PatchCalls, PatchPlaces
<1>4. ReadFits(s, c)' /\ LockFits(s, i, c)' /\ SourceFits(c)'
    BY <1>3 DEF ReadFits, LockFits, SourceFits
<1>5. SeenFits(s, c)'
    BY <1>1, <1>2, <1>3 DEF Fits, SeenFits
<1>6. GivenFits(s, c)'
    BY <1>1, <1>2, <1>3 DEF Fits, GivenFits
<1>7. left' \in [PatchSessions -> Nat]
    BY <1>2 DEF PatchInv, BookTypes
<1> QED
    BY <1>2, <1>3, <1>4, <1>5, <1>6, <1>7, CallStep DEF Fits

LEMMA LockedStep ==
  ASSUME Patch!PatchingAssumption, PatchInv, NEW s \in PatchSessions, NEW i \in Patch!Slots,
         Patch!Locked(s, i)
  PROVE  PatchInv'
<1>1. PICK d, m : /\ d = patchCalls[s][i] /\ d \in PatchCalls /\ Fits(s, i, d)
                  /\ m = Patch!MapOf(s)
    BY TheCall
<1>2. /\ d.at = "lock" /\ tree[s] \in Patch!Trees /\ locks[d.state] = None
      /\ d.state \in Patch!Trees
      /\ UNCHANGED <<tree, patches, overwritten, tars, treeBuilds, openedTars, compiled,
           warm, tests, left, patch>>
    BY <1>1, TheCall DEF Patch!Locked, Patch!editing, Patch!chosen, PatchCalls
<1>3. d.moved = {} => d.state = tree[s]
    BY <1>1, <1>2 DEF Fits, SeenFits
<1>4. left' \in [PatchSessions -> Nat]
    BY <1>2 DEF PatchInv, BookTypes
<1>5. CASE treeBuilds[m][d.state] # {}
  <2>1. /\ UNCHANGED locks
        /\ \E b \in treeBuilds[m][d.state] : Patch!Go(s, i, [d EXCEPT !.at = d.then, !.art = b])
      BY <1>1, <1>5, TheCall DEF Patch!Locked, Patch!BuiltMeanwhile
  <2>2. PICK b, c : /\ b \in treeBuilds[m][d.state]
                    /\ c = [d EXCEPT !.at = d.then, !.art = b] /\ Patch!Go(s, i, c)
      BY <2>1
  <2>3. c \in PatchCalls /\ Fits(s, i, c)'
      BY <1>1, <1>2, <1>3, <2>2, FoundFits
  <2> QED
      BY <1>2, <1>4, <2>1, <2>2, <2>3, CallStep
<1>6. CASE treeBuilds[m][d.state] = {}
  <2>1. PICK c : c = [d EXCEPT !.at = "key", !.key = tree[s]]
      OBVIOUS
  <2>2. locks' = [locks EXCEPT ![d.state] = <<s, i>>] /\ Patch!Go(s, i, c)
      BY <1>1, <1>6, <2>1, TheCall DEF Patch!Locked, Patch!BuiltMeanwhile
  <2>3. /\ c \in PatchCalls /\ c.at = "key" /\ c.key = tree[s] /\ c.then = d.then
        /\ c.tested = d.tested /\ c.state = d.state /\ c.moved = d.moved /\ c.art = d.art
      BY <1>1, <1>2, <2>1 DEF PatchCalls, PatchPlaces
  <2>4. BookTypes /\ <<s, i>> \in PatchSessions \X Patch!Slots
      BY DEF PatchInv
  <2>5. /\ locks' \in [Patch!Trees -> (PatchSessions \X Patch!Slots) \cup {None}]
        /\ locks'[d.state] = <<s, i>>
        /\ \A t \in Patch!Trees \ {d.state} : locks'[t] = locks[t]
      BY <1>2, <2>2, <2>4 DEF BookTypes
  <2>6. ReadFits(s, c)' /\ LockFits(s, i, c)' /\ SourceFits(c)'
      BY <2>3, <2>5 DEF ReadFits, LockFits, SourceFits
  <2>7. SeenFits(s, c)'
      BY <1>1, <1>2, <1>3, <2>3 DEF Fits, SeenFits
  <2>8. GivenFits(s, c)'
      BY <1>1, <1>2, <2>3 DEF Fits, GivenFits
  <2>9. BookTypes'
      BY <1>2, <2>4, <2>5 DEF BookTypes
  <2>10. BooksFit'
      BY <1>2 DEF PatchInv, BooksFit
  <2>11. CountsFit'
      BY <1>2 DEF PatchInv, CountsFit
  <2>12. Patch!ConfirmedIsTested'
      BY <1>2 DEF PatchInv, Patch!ConfirmedIsTested
  <2>13. \A t \in Patch!Trees : locks[t] \notin {None, <<s, i>>} => locks'[t] = locks[t]
      BY <1>2, <2>5
  <2>14. Fits(s, i, c)'
      BY <2>6, <2>7, <2>8 DEF Fits
  <2> QED
      BY <1>2, <2>2, <2>3, <2>9, <2>10, <2>11, <2>12, <2>13, <2>14, PatchStep
<1> QED
    BY <1>5, <1>6

LEMMA RunTestsStep ==
  ASSUME Patch!PatchingAssumption, PatchInv, NEW s \in PatchSessions, NEW i \in Patch!Slots,
         Patch!RunTests(s, i)
  PROVE  PatchInv'
<1>1. PICK d : d = patchCalls[s][i] /\ d \in PatchCalls /\ Fits(s, i, d)
    BY TheCall
<1>2. /\ d.at = "tests" /\ tree[s] \in Patch!Trees
      /\ UNCHANGED <<tree, patches, overwritten, tars, treeBuilds, openedTars, locks, compiled,
           warm, tests, left, patch>>
    BY <1>1, TheCall DEF Patch!RunTests, Patch!editing, Patch!building, Patch!chosen
<1>3. left' \in [PatchSessions -> Nat] /\ tests \in BOOLEAN
    BY <1>2 DEF PatchInv, BookTypes
\* It goes on, with the tree that passed if there are tests.
<1>4. ASSUME NEW x \in SUBSET Patch!Trees, NEW c, c \in PatchCalls, c.at = "build",
             c.then = "povs", c.tested = x, c.moved = d.moved, c.art = d.art,
             Patch!Go(s, i, c), x = IF tests THEN {tree[s]} ELSE {},
             tests => tree[s] \notin BrokenTrees \cup FailingTrees
      PROVE  PatchInv'
  <2>1. ReadFits(s, c)' /\ LockFits(s, i, c)' /\ SourceFits(c)'
      BY <1>4 DEF ReadFits, LockFits, SourceFits
  <2>2. SeenFits(s, c)'
      BY <1>2, <1>4 DEF SeenFits
  <2>3. GivenFits(s, c)'
      BY <1>1, <1>2, <1>4 DEF Fits, GivenFits
  <2> QED
      BY <1>2, <1>3, <1>4, <2>1, <2>2, <2>3, CallStep DEF Fits
<1>5. CASE Patch!Go(s, i, Patch!Idle)
    BY <1>2, <1>3, <1>5, IdleCalls, CallStep
<1>6. PICK g : g = [d EXCEPT !.at = "build", !.then = "povs"]
    OBVIOUS
<1>7. /\ g \in PatchCalls /\ g.at = "build" /\ g.then = "povs" /\ g.moved = d.moved
      /\ g.art = d.art /\ g.tested = d.tested
    BY <1>1, <1>6 DEF PatchCalls, PatchPlaces
<1>8. CASE ~tests /\ Patch!Go(s, i, g)
  <2>1. PICK c : c = g /\ c.tested = g.tested
      OBVIOUS
  <2>2. d.tested = {}
      BY <1>1, <1>2 DEF Fits, GivenFits
  <2> QED
      BY <1>4, <1>7, <1>8, <2>2
<1>9. CASE /\ tests /\ tree[s] \notin BrokenTrees \cup FailingTrees
           /\ Patch!Go(s, i, [g EXCEPT !.tested = {tree[s]}])
  <2>1. PICK c : c = [g EXCEPT !.tested = {tree[s]}]
      OBVIOUS
  <2>2. {tree[s]} \in SUBSET Patch!Trees
      BY <1>2
  <2>3. /\ c \in PatchCalls /\ c.at = "build" /\ c.then = "povs" /\ c.moved = d.moved
        /\ c.art = d.art /\ c.tested = {tree[s]}
      BY <1>7, <2>1, <2>2 DEF PatchCalls
  <2> QED
      BY <1>4, <1>9, <2>1, <2>2, <2>3
<1> QED
    BY <1>1, <1>5, <1>6, <1>8, <1>9, TheCall DEF Patch!RunTests

LEMMA RunPovsStep ==
  ASSUME Patch!PatchingAssumption, PatchInv, NEW s \in PatchSessions, NEW i \in Patch!Slots,
         Patch!RunPovs(s, i)
  PROVE  PatchInv'
<1>1. PICK d : d = patchCalls[s][i] /\ d \in PatchCalls /\ Fits(s, i, d)
    BY TheCall
<1>2. /\ d.at = "povs" /\ tree[s] \in Patch!Trees
      /\ UNCHANGED <<tree, patches, overwritten, tars, treeBuilds, openedTars, locks, compiled,
           warm, tests, left, patch>>
    BY <1>1, TheCall DEF Patch!RunPovs, Patch!editing, Patch!building, Patch!chosen
<1>3. left' \in [PatchSessions -> Nat]
    BY <1>2 DEF PatchInv, BookTypes
<1>4. ASSUME NEW c, c \in PatchCalls, c.at = "hook", c.then = d.then, c.tested = d.tested,
             c.moved = d.moved, c.art = d.art, c.erred \/ d.art.of \in FixedTrees,
             Patch!Go(s, i, c)
      PROVE  PatchInv'
  <2>1. ReadFits(s, c)' /\ LockFits(s, i, c)' /\ SourceFits(c)'
      BY <1>4 DEF ReadFits, LockFits, SourceFits
  <2>2. SeenFits(s, c)'
      BY <1>1, <1>2, <1>4 DEF Fits, SeenFits
  <2>3. GivenFits(s, c)'
      BY <1>1, <1>2, <1>4 DEF Fits, GivenFits
  <2> QED
      BY <1>2, <1>3, <1>4, <2>1, <2>2, <2>3, CallStep DEF Fits
<1>5. CASE Patch!Go(s, i, Patch!Idle)
    BY <1>2, <1>3, <1>5, IdleCalls, CallStep
<1>6. CASE d.art.of \notin Patch!StillCrashes /\ Patch!Go(s, i, [d EXCEPT !.at = "hook"])
  <2>1. PICK c : c = [d EXCEPT !.at = "hook"]
      OBVIOUS
  <2>2. /\ c \in PatchCalls /\ c.at = "hook" /\ c.then = d.then /\ c.tested = d.tested
        /\ c.moved = d.moved /\ c.art = d.art
      BY <1>1, <2>1 DEF PatchCalls, PatchPlaces
  <2>3. d.art.of \in FixedTrees
      BY <1>1, <1>6 DEF Patch!StillCrashes, PatchCalls, TreeBuilds
  <2> QED
      BY <1>4, <1>6, <2>1, <2>2, <2>3
<1>7. CASE Patch!Go(s, i, [d EXCEPT !.at = "hook", !.erred = TRUE])
  <2>1. PICK c : c = [d EXCEPT !.at = "hook", !.erred = TRUE]
      OBVIOUS
  <2>2. /\ c \in PatchCalls /\ c.at = "hook" /\ c.then = d.then /\ c.tested = d.tested
        /\ c.moved = d.moved /\ c.art = d.art /\ c.erred = TRUE
      BY <1>1, <2>1 DEF PatchCalls, PatchPlaces
  <2> QED
      BY <1>4, <1>7, <2>1, <2>2
<1> QED
    BY <1>1, <1>5, <1>6, <1>7, TheCall DEF Patch!RunPovs

LEMMA TestPatchHookStep ==
  ASSUME Patch!PatchingAssumption, PatchInv, NEW s \in PatchSessions, NEW i \in Patch!Slots,
         Patch!TestPatchHook(s, i)
  PROVE  PatchInv'
<1>0. PICK d : d = patchCalls[s][i] /\ d \in PatchCalls /\ Fits(s, i, d)
    BY TheCall
<1>1. PICK v :    /\ d = patchCalls[s][i] /\ d \in PatchCalls /\ Fits(s, i, d)
                  /\ v = [diff |-> tree[s], tested |-> d.tested, ran |-> d.art,
                          moved |-> d.moved, erred |-> d.erred]
    BY <1>0
<1>2. /\ d.at = "hook" /\ tree[s] \in Patch!Trees
      /\ patch' = [patch EXCEPT ![s] = v] /\ Patch!Go(s, i, Patch!Idle)
      /\ UNCHANGED <<tree, patches, overwritten, tars, treeBuilds, openedTars, locks, compiled,
           warm, tests, left>>
    BY <1>1, TheCall DEF Patch!TestPatchHook, Patch!editing, Patch!building, Patch!chosen
<1>3. /\ v \in PatchResults /\ v.diff = tree[s] /\ v.tested = d.tested /\ v.ran = d.art
      /\ v.moved = d.moved /\ v.erred = d.erred
    BY <1>1, <1>2 DEF PatchResults, PatchCalls
<1>4. BookTypes /\ BooksFit
    BY DEF PatchInv
<1>5. /\ patch' \in [PatchSessions -> PatchResults \cup {None}] /\ patch'[s] = v
      /\ \A r \in PatchSessions \ {s} : patch'[r] = patch[r]
    BY <1>2, <1>3, <1>4 DEF BookTypes
<1>6. /\ ~v.erred => v.ran.of \in FixedTrees
      /\ v.moved = {} =>
           /\ v.tested = IF tests THEN {v.diff} ELSE {}
           /\ tests => v.diff \notin BrokenTrees \cup FailingTrees
           /\ v.ran.sound => v.ran.of = v.diff /\ tars[v.diff] # {} /\ v.diff \notin BrokenTrees
  <2>1. d.then = "povs"
      BY <1>1, <1>2 DEF Fits, GivenFits
  <2>2. /\ d.art.of \notin BrokenTrees
        /\ d.art.sound /\ d.moved = {} => d.art.of = tree[s] /\ tars[tree[s]] # {}
        /\ ~d.erred => d.art.of \in FixedTrees
      BY <1>1, <1>2, <2>1 DEF Fits, GivenFits
  <2>3. d.moved = {} =>
          /\ d.tested = IF tests THEN {tree[s]} ELSE {}
          /\ tests => tree[s] \notin BrokenTrees \cup FailingTrees
      BY <1>1, <2>1 DEF Fits, SeenFits
  <2> QED
      BY <1>3, <2>2, <2>3
<1>7. Patch!ConfirmedIsTested'
    BY <1>2, <1>5, <1>6 DEF PatchInv, Patch!ConfirmedIsTested
<1>8. BookTypes'
    BY <1>2, <1>4, <1>5 DEF BookTypes
<1>9. BooksFit'
    BY <1>2 DEF PatchInv, BooksFit
<1>10. CountsFit'
    BY <1>2 DEF PatchInv, CountsFit
<1> QED
    BY <1>2, <1>7, <1>8, <1>9, <1>10, IdleCalls, PatchStep

\* Confirmed patches stay what they were while tars come.
LEMMA ConfirmedStays ==
  ASSUME PatchInv, UNCHANGED <<patch, tests>>,
         \A t \in Patch!Trees : tars[t] # {} => tars'[t] # {}
  PROVE  Patch!ConfirmedIsTested'
<1>1. \A s \in PatchSessions : patch[s] # None => patch[s].diff \in Patch!Trees
    BY DEF PatchInv, BookTypes, PatchResults
<1> QED
    BY <1>1 DEF PatchInv, Patch!ConfirmedIsTested

\* Steps that end with what was asked for in memory: c is the call that goes on with it.
LEMMA KeptStep ==
  ASSUME Patch!PatchingAssumption, PatchInv, NEW s \in PatchSessions, NEW i \in Patch!Slots,
         NEW d \in PatchCalls, d = patchCalls[s][i], Fits(s, i, d),
         d.at \in {"key", "compile"}, NEW b \in TreeBuilds, Patch!Keep(s, i, b),
         b.of \notin BrokenTrees,
         b.sound => b.of = d.state /\ tars'[d.state] # {},
         b.sound /\ d.moved = {} => b.of = tree[s] /\ tars'[tree[s]] # {},
         locks' = [locks EXCEPT ![d.state] = None],
         UNCHANGED <<tree, patches, overwritten, warm, tests, left, patch>>,
         tars' \in [Patch!Trees -> SUBSET TreeBuilds], compiled' \in [Patch!Trees -> Nat],
         openedTars' \in [PatchSessions -> SUBSET [name : Patch!Trees, build : TreeBuilds]],
         \A t \in Patch!Trees : tars[t] # {} => tars'[t] # {},
         \A t \in Patch!Trees, x \in TreeBuilds : x \in tars'[t] =>
           x.of \notin BrokenTrees /\ (x.sound => x.of = t),
         \A r \in PatchSessions : \A o \in openedTars'[r] :
           o.build.of \notin BrokenTrees /\ (o.build.sound => o.build.of = o.name),
         CountsFit', \A t \in Patch!Trees : locks[t] # <<s, i>> => compiled'[t] = compiled[t]
  PROVE  PatchInv'
<1>1. PICK m, k, c : /\ m = Patch!MapOf(s) /\ k = d.state
                     /\ c = [d EXCEPT !.at = d.then, !.art = b]
    OBVIOUS
<1>2. /\ m \in PatchSessions \cup {None} /\ k \in Patch!Trees /\ tree[s] \in Patch!Trees
      /\ BookTypes /\ BooksFit
    BY <1>1, TheCall DEF PatchInv, PatchCalls
<1>3. treeBuilds' = [treeBuilds EXCEPT ![m][k] = {b}] /\ Patch!Go(s, i, c)
    BY <1>1 DEF Patch!Keep, Patch!Call
<1>4. /\ c \in PatchCalls /\ c.at = d.then /\ c.then = d.then /\ c.art = b
      /\ c.tested = d.tested /\ c.moved = d.moved /\ d.then \in {"tests", "povs"}
    BY <1>1 DEF PatchCalls, PatchPlaces
<1>5. Fits(s, i, c)'
  <2>1. ReadFits(s, c)' /\ LockFits(s, i, c)' /\ SourceFits(c)'
      BY <1>4 DEF ReadFits, LockFits, SourceFits
  <2>2. SeenFits(s, c)'
      BY <1>4 DEF Fits, SeenFits
  <2>3. GivenFits(s, c)'
      BY <1>4 DEF Fits, GivenFits
  <2> QED
      BY <2>1, <2>2, <2>3 DEF Fits
<1>6. /\ treeBuilds' \in [PatchSessions \cup {None} -> [Patch!Trees -> SUBSET TreeBuilds]]
      /\ treeBuilds'[m][k] = {b}
      /\ \A n \in PatchSessions \cup {None}, u \in Patch!Trees :
           n # m \/ u # k => treeBuilds'[n][u] = treeBuilds[n][u]
  <2>1. PICK g : g = [treeBuilds[m] EXCEPT ![k] = {b}]
      OBVIOUS
  <2>2. treeBuilds \in [PatchSessions \cup {None} -> [Patch!Trees -> SUBSET TreeBuilds]]
      BY <1>2 DEF BookTypes
  <2>3. /\ g \in [Patch!Trees -> SUBSET TreeBuilds] /\ g[k] = {b}
        /\ \A u \in Patch!Trees \ {k} : g[u] = treeBuilds[m][u]
      BY <1>2, <2>1, <2>2
  <2>4. treeBuilds' = [treeBuilds EXCEPT ![m] = g]
      BY <1>3, <2>1
  <2> QED
      BY <1>2, <2>2, <2>3, <2>4
<1>7. /\ locks' \in [Patch!Trees -> (PatchSessions \X Patch!Slots) \cup {None}]
      /\ \A t \in Patch!Trees \ {k} : locks'[t] = locks[t]
    BY <1>1, <1>2 DEF BookTypes
<1>8. locks[k] = <<s, i>>
    BY <1>1 DEF Fits, LockFits
<1>9. BookTypes'
    BY <1>2, <1>6, <1>7 DEF BookTypes
<1>10. BooksFit'
  <2>1. ASSUME NEW n \in PatchSessions \cup {None}, NEW t \in Patch!Trees, NEW x \in TreeBuilds,
               x \in treeBuilds'[n][t]
        PROVE  x.of \notin BrokenTrees /\ (x.sound => x.of = t /\ tars'[t] # {})
    <3>1. CASE n = m /\ t = k
        BY <1>1, <1>6, <2>1, <3>1
    <3>2. CASE n # m \/ t # k
      <4>1. x \in treeBuilds[n][t]
          BY <1>6, <2>1, <3>2
      <4> QED
          BY <1>2, <4>1 DEF BooksFit
    <3> QED
        BY <3>1, <3>2
  <2> QED
      BY <2>1 DEF BooksFit
<1>11. \A t \in Patch!Trees : locks[t] \notin {None, <<s, i>>} => locks'[t] = locks[t]
    BY <1>7, <1>8
<1>12. Patch!ConfirmedIsTested'
    BY ConfirmedStays
<1> QED
    BY <1>3, <1>4, <1>5, <1>9, <1>10, <1>11, <1>12, PatchStep

LEMMA FromTarStep ==
  ASSUME Patch!PatchingAssumption, PatchInv, NEW s \in PatchSessions, NEW i \in Patch!Slots,
         Patch!FromTar(s, i)
  PROVE  PatchInv'
<1>0. PICK d : d = patchCalls[s][i] /\ d \in PatchCalls /\ Fits(s, i, d)
    BY TheCall
<1>1. PICK memo : memo = Patch!Opened(s, d.key)
    OBVIOUS
<1>2. /\ d.at = "key" /\ tars[d.key] # {}
      /\ openedTars' = [openedTars EXCEPT ![s] = memo]
      /\ locks' = [locks EXCEPT ![d.state] = None]
      /\ \E o \in memo : Patch!Keep(s, i, Patch!OpenedFor(d, o))
      /\ UNCHANGED <<tree, patches, overwritten, tars, compiled, warm, tests, left, patch>>
    BY <1>0, <1>1, TheCall DEF Patch!FromTar, Patch!editing, Patch!chosen
<1>3. d.key \in Patch!Trees /\ BookTypes /\ BooksFit
    BY <1>0 DEF PatchCalls, PatchInv
\* What was opened, or is now.
<1>4. ASSUME NEW o \in memo
      PROVE  /\ o \in [name : Patch!Trees, build : TreeBuilds]
             /\ o.build.of \notin BrokenTrees /\ (o.build.sound => o.build.of = o.name)
  <2>1. CASE openedTars[s] # {}
      BY <1>1, <1>3, <2>1 DEF Patch!Opened, BookTypes, BooksFit
  <2>2. CASE openedTars[s] = {}
    <3>1. PICK b \in tars[d.key] : o = [name |-> d.key, build |-> b]
        BY <1>1, <2>2 DEF Patch!Opened
    <3>2. b \in TreeBuilds /\ b.of \notin BrokenTrees /\ (b.sound => b.of = d.key)
        BY <1>3 DEF BookTypes, BooksFit
    <3>3. o.name = d.key /\ o.build = b /\ o \in [name : Patch!Trees, build : TreeBuilds]
        BY <1>3, <3>1, <3>2
    <3> QED
        BY <3>2, <3>3
  <2> QED
      BY <2>1, <2>2
<1>5. PICK o \in memo : Patch!Keep(s, i, Patch!OpenedFor(d, o))
    BY <1>2
<1>6. PICK v \in BOOLEAN : v = (o.build.sound /\ o.name = d.key /\ d.moved = {})
    OBVIOUS
<1>7. PICK b : b = [of |-> o.build.of, sound |-> v]
    OBVIOUS
<1>8. Patch!Keep(s, i, b)
  <2>1. Patch!OpenedFor(d, o) = b
      BY <1>6, <1>7 DEF Patch!OpenedFor
  <2> QED
      BY <1>5, <2>1
<1>9. b \in TreeBuilds /\ b.of = o.build.of /\ b.sound = v /\ b.of \notin BrokenTrees
    BY <1>4, <1>7 DEF TreeBuilds
<1>10. d.moved = {} => d.state = tree[s] /\ d.key = tree[s]
    BY <1>0, <1>2 DEF Fits, SeenFits
<1>11. /\ b.sound => b.of = d.state /\ tars'[d.state] # {}
       /\ b.sound /\ d.moved = {} => b.of = tree[s] /\ tars'[tree[s]] # {}
    BY <1>2, <1>4, <1>6, <1>9, <1>10
<1>12. /\ openedTars' \in [PatchSessions -> SUBSET [name : Patch!Trees, build : TreeBuilds]]
       /\ \A r \in PatchSessions : \A x \in openedTars'[r] :
            x.build.of \notin BrokenTrees /\ (x.build.sound => x.build.of = x.name)
  <2>1. memo \in SUBSET [name : Patch!Trees, build : TreeBuilds]
      BY <1>4
  <2>2. openedTars \in [PatchSessions -> SUBSET [name : Patch!Trees, build : TreeBuilds]]
      BY <1>3 DEF BookTypes
  <2>3. /\ openedTars' \in [PatchSessions -> SUBSET [name : Patch!Trees, build : TreeBuilds]]
        /\ openedTars'[s] = memo
        /\ \A r \in PatchSessions \ {s} : openedTars'[r] = openedTars[r]
      BY <1>2, <2>1, <2>2
  <2> QED
      BY <1>3, <1>4, <2>3 DEF BooksFit
<1>13. \A t \in Patch!Trees, x \in TreeBuilds : x \in tars'[t] =>
         x.of \notin BrokenTrees /\ (x.sound => x.of = t)
    BY <1>2, <1>3 DEF BooksFit
<1>14. tars' \in [Patch!Trees -> SUBSET TreeBuilds] /\ compiled' \in [Patch!Trees -> Nat]
    BY <1>2, <1>3 DEF BookTypes
<1>15. CountsFit'
    BY <1>2 DEF PatchInv, CountsFit
<1> QED
    BY <1>0, <1>2, <1>8, <1>9, <1>11, <1>12, <1>13, <1>14, <1>15, KeptStep

LEMMA MaterializeStep ==
  ASSUME Patch!PatchingAssumption, PatchInv, NEW s \in PatchSessions, NEW i \in Patch!Slots,
         Patch!Materialize(s, i)
  PROVE  PatchInv'
<1>0. PICK d : d = patchCalls[s][i] /\ d \in PatchCalls /\ Fits(s, i, d)
    BY TheCall
<1>1. PICK b : /\ d = patchCalls[s][i] /\ d \in PatchCalls /\ Fits(s, i, d)
               /\ b = [of |-> tree[s], sound |-> d.moved = {}]
    BY <1>0
<1>2. PICK c : c = [d EXCEPT !.at = "compile", !.src = b]
    OBVIOUS
<1>3. /\ d.at = "key" /\ tars[d.key] = {} /\ Patch!Go(s, i, c) /\ tree[s] \in Patch!Trees
      /\ UNCHANGED <<tree, patches, overwritten, tars, treeBuilds, openedTars, locks, compiled,
           warm, tests, left, patch>>
    BY <1>1, <1>2, TheCall DEF Patch!Materialize, Patch!editing, Patch!chosen
<1>4. b \in TreeBuilds /\ b.of = tree[s] /\ (b.sound <=> d.moved = {})
  <2>1. PICK v \in BOOLEAN : v = (d.moved = {})
      OBVIOUS
  <2>2. b = [of |-> tree[s], sound |-> v]
      BY <1>1, <2>1
  <2> QED
      BY <1>3, <2>1, <2>2 DEF TreeBuilds
<1>5. /\ c \in PatchCalls /\ c.at = "compile" /\ c.src = b /\ c.then = d.then
      /\ c.tested = d.tested /\ c.state = d.state /\ c.key = d.key /\ c.moved = d.moved
      /\ c.art = d.art
    BY <1>1, <1>2, <1>4 DEF PatchCalls, PatchPlaces
<1>6. ReadFits(s, c)' /\ LockFits(s, i, c)' /\ SeenFits(s, c)'
  <2>1. ReadFits(s, c)'
      BY <1>5 DEF ReadFits
  <2>2. LockFits(s, i, c)'
      BY <1>1, <1>3, <1>5 DEF Fits, LockFits
  <2>3. SeenFits(s, c)'
      BY <1>1, <1>3, <1>5 DEF Fits, SeenFits
  <2> QED
      BY <2>1, <2>2, <2>3
<1>7. GivenFits(s, c)'
    BY <1>1, <1>3, <1>5 DEF Fits, GivenFits
<1>8. SourceFits(c)'
  <2>1. SUFFICES ASSUME c.src.sound
                 PROVE  c.src.of = c.key /\ c.key = c.state /\ compiled[c.key] = 0
      BY <1>3 DEF SourceFits
  <2>2. d.moved = {} /\ d.key = tree[s] /\ d.state = tree[s]
      BY <1>1, <1>3, <1>4, <1>5, <2>1 DEF Fits, SeenFits
  <2>3. compiled[d.key] \in Nat /\ compiled[d.key] <= 1 /\ compiled[d.key] # 1
      BY <1>3, <2>2 DEF PatchInv, BookTypes, CountsFit
  <2> QED
      BY <1>4, <1>5, <2>2, <2>3
<1>9. left' \in [PatchSessions -> Nat]
    BY <1>3 DEF PatchInv, BookTypes
<1> QED
    BY <1>3, <1>5, <1>6, <1>7, <1>8, <1>9, CallStep DEF Fits

LEMMA CompilePatchStep ==
  ASSUME Patch!PatchingAssumption, PatchInv, NEW s \in PatchSessions, NEW i \in Patch!Slots,
         Patch!Compile(s, i)
  PROVE  PatchInv'
<1>1. PICK d : d = patchCalls[s][i] /\ d \in PatchCalls /\ Fits(s, i, d)
    BY TheCall
<1>2. /\ d.at = "compile" /\ locks' = [locks EXCEPT ![d.state] = None]
      /\ d.key \in Patch!Trees /\ d.state \in Patch!Trees /\ d.src \in TreeBuilds
      /\ UNCHANGED <<tree, patches, overwritten, openedTars, warm, tests, left, patch>>
    BY <1>1, TheCall DEF Patch!Compile, Patch!editing, Patch!chosen, PatchCalls
<1>3. BookTypes /\ BooksFit /\ CountsFit /\ locks[d.state] = <<s, i>>
    BY <1>1, <1>2 DEF PatchInv, Fits, LockFits
<1>4. CASE /\ d.src.of \notin BrokenTrees /\ tars' = [tars EXCEPT ![d.key] = {d.src}]
           /\ compiled' = [compiled EXCEPT ![d.key] =
                IF d.src.sound THEN compiled[d.key] + 1 ELSE compiled[d.key]]
           /\ Patch!Keep(s, i, d.src)
  <2>1. d.src.sound => d.src.of = d.key /\ d.key = d.state /\ compiled[d.key] = 0
      BY <1>1, <1>2 DEF Fits, SourceFits
  <2>2. /\ tars' \in [Patch!Trees -> SUBSET TreeBuilds] /\ tars'[d.key] = {d.src}
        /\ \A t \in Patch!Trees \ {d.key} : tars'[t] = tars[t]
      BY <1>2, <1>3, <1>4 DEF BookTypes
  <2>3. /\ compiled' \in [Patch!Trees -> Nat]
        /\ compiled'[d.key] = IF d.src.sound THEN 1 ELSE compiled[d.key]
        /\ \A t \in Patch!Trees \ {d.key} : compiled'[t] = compiled[t]
      BY <1>2, <1>3, <1>4, <2>1 DEF BookTypes
  <2>4. d.moved = {} => d.key = tree[s] /\ d.state = tree[s]
      BY <1>1, <1>2 DEF Fits, SeenFits
  <2>5. /\ d.src.sound => d.src.of = d.state /\ tars'[d.state] # {}
        /\ d.src.sound /\ d.moved = {} => d.src.of = tree[s] /\ tars'[tree[s]] # {}
      BY <2>1, <2>2, <2>4
  <2>6. \A t \in Patch!Trees : tars[t] # {} => tars'[t] # {}
      BY <2>2
  <2>7. \A t \in Patch!Trees, x \in TreeBuilds : x \in tars'[t] =>
          x.of \notin BrokenTrees /\ (x.sound => x.of = t)
      BY <1>3, <1>4, <2>1, <2>2 DEF BooksFit
  <2>8. CountsFit'
    <3>1. ASSUME NEW t \in Patch!Trees
          PROVE  compiled'[t] <= 1 /\ (compiled'[t] = 1 => tars'[t] # {})
      <4>1. CASE t = d.key
          BY <1>3, <2>2, <2>3, <4>1 DEF CountsFit
      <4>2. CASE t # d.key
          BY <1>3, <2>2, <2>3, <4>2 DEF CountsFit
      <4> QED
          BY <4>1, <4>2
    <3> QED
        BY <3>1 DEF CountsFit
  <2>9. \A t \in Patch!Trees : locks[t] # <<s, i>> => compiled'[t] = compiled[t]
    <3>1. ASSUME NEW t \in Patch!Trees, compiled'[t] # compiled[t] PROVE locks[t] = <<s, i>>
        BY <1>3, <2>1, <2>3, <3>1
    <3> QED
        BY <3>1
  <2>10. /\ openedTars' \in [PatchSessions -> SUBSET [name : Patch!Trees, build : TreeBuilds]]
         /\ \A r \in PatchSessions : \A o \in openedTars'[r] :
              o.build.of \notin BrokenTrees /\ (o.build.sound => o.build.of = o.name)
      BY <1>2, <1>3 DEF BookTypes, BooksFit
  <2>11. /\ tars' \in [Patch!Trees -> SUBSET TreeBuilds] /\ compiled' \in [Patch!Trees -> Nat]
         /\ d.src.of \notin BrokenTrees /\ Patch!Keep(s, i, d.src)
      BY <1>4, <2>2, <2>3
  <2>12. PICK b \in TreeBuilds : b = d.src
      BY <1>2
  <2> QED
      BY <1>1, <1>2, <2>5, <2>6, <2>7, <2>8, <2>9, <2>10, <2>11, <2>12, KeptStep
<1>5. CASE Patch!Go(s, i, Patch!Unbuilt(d)) /\ UNCHANGED <<tars, treeBuilds, compiled>>
  <2>1. PICK c : c = Patch!Unbuilt(d)
      OBVIOUS
  <2>2. c \in PatchCalls /\ Fits(s, i, c)'
    <3>1. CASE d.then = "tests"
        BY <2>1, <3>1, IdleCalls DEF Patch!Unbuilt
    <3>2. CASE d.then # "tests"
      <4>1. d.then = "povs" /\ c = [d EXCEPT !.at = "hook", !.erred = TRUE]
          BY <1>1, <2>1, <3>2 DEF Patch!Unbuilt, PatchCalls
      <4>2. /\ c \in PatchCalls /\ c.at = "hook" /\ c.then = d.then /\ c.tested = d.tested
            /\ c.moved = d.moved /\ c.art = d.art /\ c.erred = TRUE
          BY <1>1, <4>1 DEF PatchCalls, PatchPlaces
      <4>3. ReadFits(s, c)' /\ LockFits(s, i, c)' /\ SourceFits(c)'
          BY <4>2 DEF ReadFits, LockFits, SourceFits
      <4>4. SeenFits(s, c)'
          BY <1>1, <1>2, <4>1, <4>2 DEF Fits, SeenFits
      <4>5. GivenFits(s, c)'
          BY <1>1, <1>2, <1>5, <4>1, <4>2 DEF Fits, GivenFits
      <4> QED
          BY <4>2, <4>3, <4>4, <4>5 DEF Fits
    <3> QED
        BY <3>1, <3>2
  <2>3. /\ locks' \in [Patch!Trees -> (PatchSessions \X Patch!Slots) \cup {None}]
        /\ \A t \in Patch!Trees \ {d.state} : locks'[t] = locks[t]
      BY <1>2, <1>3 DEF BookTypes
  <2>4. BookTypes'
      BY <1>2, <1>3, <1>5, <2>3 DEF BookTypes
  <2>5. BooksFit' /\ CountsFit'
      BY <1>2, <1>3, <1>5 DEF BooksFit, CountsFit
  <2>6. \A t \in Patch!Trees : locks[t] \notin {None, <<s, i>>} => locks'[t] = locks[t]
      BY <1>3, <2>3
  <2>7. Patch!ConfirmedIsTested'
      BY <1>2, <1>5, ConfirmedStays
  <2> QED
      BY <1>2, <1>5, <2>1, <2>2, <2>4, <2>5, <2>6, <2>7, PatchStep
<1> QED
    BY <1>1, <1>4, <1>5, TheCall DEF Patch!Compile

LEMMA PatchNext ==
  ASSUME Patch!PatchingAssumption, PatchInv, Patch!Next \/ UNCHANGED Patch!patchVars
  PROVE  PatchInv'
<1>1. CASE Patch!Next
  <2>1. PICK s \in PatchSessions, i \in Patch!Slots : Patch!Step(s, i)
      BY <1>1 DEF Patch!Next
  <2> QED
      BY <2>1, ApplyPatchStep, WriteStep, UndoStep, TestPatchStep, BuildHitStep, BuildMissStep,
         LockedStep, FromTarStep, MaterializeStep, CompilePatchStep, RunTestsStep, RunPovsStep,
         TestPatchHookStep DEF Patch!Step
<1>2. CASE UNCHANGED Patch!patchVars
  <2>1. UNCHANGED <<warm, tests, left, tree, patches, overwritten, tars, treeBuilds, openedTars,
          locks, patchCalls, patch, compiled>>
      BY <1>2 DEF Patch!patchVars
  <2>2. BookTypes' /\ EditTypes' /\ CallTypes'
      BY <2>1 DEF PatchInv, BookTypes, EditTypes, CallTypes
  <2>3. \A s \in PatchSessions : EditorFits(s)'
      BY <2>1 DEF PatchInv, EditorFits
  <2>4. CallsFit'
    <3>1. ASSUME NEW s \in PatchSessions, NEW i \in Patch!Slots
          PROVE  Fits(s, i, patchCalls[s][i])'
      <4>1. PICK d : /\ d = patchCalls[s][i] /\ d = patchCalls'[s][i]
                     /\ d \in PatchCalls /\ Fits(s, i, d)
          BY <2>1, TheCall
      <4>2. Fits(s, i, d)'
          BY <2>1, <4>1, StillFits DEF PatchInv
      <4> QED
          BY <4>1, <4>2
    <3> QED
        BY <3>1 DEF CallsFit
  <2>5. BooksFit' /\ CountsFit' /\ Patch!ConfirmedIsTested'
      BY <2>1 DEF PatchInv, BooksFit, CountsFit, Patch!ConfirmedIsTested
  <2> QED
      BY <2>1, <2>2, <2>3, <2>4, <2>5 DEF PatchInv
<1> QED
    BY <1>1, <1>2

\* As many edits as the list is long.
LEMMA ListCounts ==
  ASSUME NEW p \in Seq(PatchEdits), \A j, k \in DOMAIN p : p[j] = p[k] => j = k
  PROVE  Len(p) = Patch!Cardinality({p[k] : k \in 1..Len(p)})
<1>1. Len(p) \in Nat /\ DOMAIN p = 1..Len(p)
    BY LenProperties
<1>2. PICK T : T = {p[k] : k \in 1..Len(p)}
    OBVIOUS
<1>3. PICK f : f = [k \in 1..Len(p) |-> p[k]]
    OBVIOUS
<1>4. f \in Bijection(1..Len(p), T)
    BY <1>1, <1>2, <1>3 DEF Bijection, Injection, Surjection, IsInjective
<1>5. ExistsBijection(1..Len(p), T)
    BY <1>4 DEF ExistsBijection
<1> QED
    BY <1>1, <1>2, <1>5, FS_CountingElements, PatchSets

LEMMA PatchingAgrees == ASSUME PatchInv PROVE Patch!PatchesAreTested /\ Patch!BuiltOnce
<1>1. Patch!PatchesDescribeFiles
  <2>1. ASSUME NEW s \in PatchSessions, ~overwritten[s]
        PROVE  /\ tree[s] = {patches[s][k] : k \in 1..Len(patches[s])}
               /\ Len(patches[s]) = Patch!Cardinality(tree[s])
    <3>1. patches[s] \in Seq(PatchEdits) /\ EditorFits(s)
        BY DEF PatchInv, EditTypes
    <3>2. DOMAIN patches[s] = 1..Len(patches[s])
        BY <3>1, LenProperties
    <3> QED
        BY <2>1, <3>1, <3>2, ListCounts DEF EditorFits
  <2> QED
      BY <2>1 DEF Patch!PatchesDescribeFiles
<1>2. Patch!BuildsAreTheirTrees
  <2>1. DOMAIN treeBuilds = PatchSessions \cup {None} /\ BookTypes /\ BooksFit
      BY DEF PatchInv, BookTypes
  <2>2. ASSUME NEW t \in Patch!Trees, NEW b \in tars[t] PROVE b.sound => b.of = t
      BY <2>1 DEF BookTypes, BooksFit
  <2>3. ASSUME NEW t \in Patch!Trees, NEW m \in DOMAIN treeBuilds, NEW b \in treeBuilds[m][t]
        PROVE  b.sound => b.of = t /\ tars[t] # {}
      BY <2>1 DEF BookTypes, BooksFit
  <2> QED
      BY <2>2, <2>3 DEF Patch!BuildsAreTheirTrees
<1> QED
    BY <1>1, <1>2 DEF PatchInv, Patch!PatchesAreTested, Patch!BuiltOnce, CountsFit

(***************************************************************************)
(* The parts together: one of them moves, the others have no variables.    *)
(***************************************************************************)
LEMMA PartsMove ==
  ASSUME [Next]_vars
  PROVE  /\ UNCHANGED subject
         /\ subject = "crafting" => [Pov!Next]_(Pov!craftVars)
         /\ subject = "patching" => [Patch!Next]_(Patch!patchVars)
         /\ subject = "debugger" => [Debug!Next]_(Debug!debugVars)
         /\ subject = "artifacts" => [Build!Next]_(Build!artifactVars)
         /\ subject = "povrun" => [Run!Next]_(Run!povVars)
<1>1. CASE Next
    BY <1>1 DEF Next
<1>2. CASE UNCHANGED vars
  <2>1. UNCHANGED <<subject, craftingVars, patchingVars, debuggerVars, artifactsVars, povrunVars>>
      BY <1>2 DEF vars
  <2>2. UNCHANGED Pov!craftVars
      BY <2>1 DEF craftingVars, Pov!craftVars
  <2>3. UNCHANGED Patch!patchVars
      BY <2>1 DEF patchingVars, Patch!patchVars
  <2>4. UNCHANGED Debug!debugVars
      BY <2>1 DEF debuggerVars, Debug!debugVars
  <2>5. UNCHANGED Build!artifactVars
      BY <2>1 DEF artifactsVars, Build!artifactVars
  <2>6. UNCHANGED Run!povVars
      BY <2>1 DEF povrunVars, Run!povVars
  <2> QED
      BY <2>1, <2>2, <2>3, <2>4, <2>5, <2>6
<1> QED
    BY <1>1, <1>2


\* For any candidates, messages, calls at once and results of the tools, and tools that raise:
\* what is returned as confirmed was seen to work by a tool, what was seen is returned unless
\* another call of the message has claimed otherwise since, and a parser that parsed is not
\* replaced by one that does not, unless trials crossed or raised (the agents that make POVs,
\* seeds, decoders and parsers).
THEOREM CraftedInputsAreChecked == Spec => []CraftedIsChecked
<1> DEFINE I == subject = "crafting" => CraftInv
<1>1. Init => I
    BY CraftBegins, Assumptions DEF Init
<1>2. I /\ [Next]_vars => I'
    BY CraftNext, PartsMove, Assumptions
<1>3. I => CraftedIsChecked
    BY CraftAgrees DEF CraftedIsChecked
<1> QED
    BY <1>1, <1>2, <1>3, PTL DEF Spec

\* For any number of agents at the debugger, over trees and builds that fail and callers that are
\* cancelled: one builds at a time, a run uses the build of the edits that were made, and an
\* answer tells whether the breakpoint was hit (gdb_exec, jdb_exec, init, artifacts).
THEOREM DebuggerAnswersRight == Spec => []DebuggerIsRight
<1> DEFINE I == subject = "debugger" => DebugInv
<1>1. Init => I
    BY DebugStarts, Assumptions DEF Init
<1>2. I /\ [Next]_vars => I'
    BY DebugNext, PartsMove, Assumptions
<1>3. I => DebuggerIsRight
    BY DebuggerAgrees, Assumptions DEF DebuggerIsRight
<1> QED
    BY <1>1, <1>2, <1>3, PTL DEF Spec

\* For any tasks, forks and programs that the modes allow, over failures and crashes: nobody is
\* given a file in part or a wrong one, a build is of the sources it is kept under, and builds of
\* the same sources wait for each other (fetch_file, the builds and indexes of a project).
THEOREM ArtifactsFit == Spec => []ArtifactsAreRight
<1> DEFINE I == subject = "artifacts" => ArtInv
<1>1. Init => I
    BY ArtStarts, Assumptions DEF Init
<1>2. I /\ [Next]_vars => I'
    BY ArtNext, PartsMove, Assumptions
<1>3. I => ArtifactsAreRight
    BY ArtifactsAgree DEF ArtifactsAreRight
<1> QED
    BY <1>1, <1>2, <1>3, PTL DEF Spec

\* The verdict about a POV is the one that its runs justify, for any builds and any order in
\* which the runs end, time out or outlast the head start (the runs of a POV on its builds).
THEOREM VerdictsAreJustified == Spec => []VerdictIsRight
<1> DEFINE I == subject = "povrun" => RunInv
<1>1. Init => I
    BY RunInit, Assumptions DEF Init
<1>2. I /\ [Next]_vars => I'
    BY RunNext, PartsMove, Assumptions
<1>3. I => VerdictIsRight
    BY DEF RunInv, VerdictIsRight
<1> QED
    BY <1>1, <1>2, <1>3, PTL DEF Spec

\* A confirmed patch is the diff of a tree that was built, is there as a tar, passed the tests
\* if there are any, and on whose build no POV crashes any more; what the editor lists is what
\* the files hold; what is kept as the build of a tree is one of that tree; no tree is built
\* twice: for any number of sessions, concurrent calls and builds on disk at the start, but for
\* what was written over, edited during its build or test, opened from a stale memo, or passed
\* because a POV could not be run.
THEOREM ConfirmedPatchesWereTested == Spec => []PatchesAreTested
<1> DEFINE I == subject = "patching" => PatchInv
<1>1. Init => I
    BY PatchingStarts, Assumptions DEF Init
<1>2. I /\ [Next]_vars => I'
    BY PatchNext, PartsMove, Assumptions
<1>3. I => PatchesAreTested
    BY PatchingAgrees DEF PatchesAreTested
<1> QED
    BY <1>1, <1>2, <1>3, PTL DEF Spec
=============================================================================
