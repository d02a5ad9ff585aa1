------------------------------ MODULE Crafting ------------------------------
(***************************************************************************)
(* What the agents that craft something keep between their tool calls, and *)
(* what they may return: POVs (pov_producer.py), input encoders, decoders  *)
(* (harness_input_decoder.py), Kaitai parsers (generate_kaitai.py), seeds  *)
(* that flip a branch (branch_flipper.py).  Module Agent has the loop; here *)
(* a message is its tool calls, which run concurrently, or a result.       *)
(*                                                                         *)
(* A candidate (a POV, an encoder, a descriptor, a seed) is a value; Works *)
(* are those that do what they should: crash, parse the corpus, reach.     *)
(***************************************************************************)
EXTENDS Integers, Sequences, FiniteSets

CONSTANTS
  Candidates, Works,
  Parallel,  \* bound: tool calls of a message
  Turns,     \* bound: messages of the session
  None

CraftingAssumption == \* None is neither a candidate nor a result
  /\ Works \subseteq Candidates /\ None \notin Candidates
  /\ None \notin [of : Candidates \cup {None}, confirmed : BOOLEAN]

VARIABLES
  kind,      \* which agent it is
  turns,     \* messages left
  calls,     \* the tool calls of the message: [tool, arg, at]
  kept,      \* self.result, input_decoder or parser: the candidate kept, or a claim
  opened,    \* the gates of get_result that are open
  seeds,     \* handed to seed_hook
  checked,   \* history: the candidates seen to work
  crossed,   \* history: a call has undone, or has left unread, what another one kept
  outcome

craftVars == <<kind, turns, calls, kept, opened, seeds, checked, crossed, outcome>>

Kinds == {"pov", "encoder", "decoder", "kaitai", "flip"}
Nothing == [of |-> None, confirmed |-> FALSE]
Claim(c) == [of |-> c, confirmed |-> FALSE]
Confirmed(c) == [of |-> c, confirmed |-> TRUE]

\* The tools that change anything, with where a call of them starts.
Tools ==
  CASE kind = "pov" -> {<<"test_pov", "seed">>, <<"debug_pov", "test">>, <<"terminate", "end">>}
    [] kind = "encoder" -> {<<"query_coverage", "test">>, <<"test_decoding", "end">>}
    [] kind = "decoder" -> {<<"test_decoder", "test">>, <<"gdb_exec", "end">>}
    [] kind = "kaitai" -> {<<"compile_kaitai", "compile">>}
    [] kind = "flip" -> {<<"query_coverage", "test">>}
\* What get_result asks for before a text may be the result.
Gates == CASE kind = "encoder" -> {"query", "decoding"} [] kind = "decoder" -> {"parsed", "debugged"}
           [] kind = "kaitai" -> {"parsed"} [] OTHER -> {}

Init ==
  /\ kind \in Kinds /\ turns = Turns
  /\ calls = <<>> /\ kept = Nothing /\ opened = {} /\ seeds = {} /\ checked = {}
  /\ crossed = FALSE /\ outcome = None

Message ==
  /\ outcome = None /\ calls = <<>> /\ turns > 0
  /\ \E n \in 1..Parallel : \E tools \in [1..n -> Tools], args \in [1..n -> Candidates] :
       calls' = [i \in 1..n |->
                  [tool |-> tools[i][1], arg |-> args[i], at |-> tools[i][2], prev |-> Nothing]]
  /\ turns' = turns - 1
  /\ UNCHANGED <<kind, kept, opened, seeds, checked, crossed, outcome>>

At(i, tool, at) == i \in DOMAIN calls /\ calls[i].tool = tool /\ calls[i].at = at
Go(i, at) == calls' = [calls EXCEPT ![i].at = at]
Seen(c) == checked' = checked \cup ({c} \cap Works)
\* The parser of a call has taken the place of the old one, and has not read the corpus yet.
OnTrial(i) == At(i, "compile_kaitai", "test")
OthersOnTrial(i) == \E j \in DOMAIN calls \ {i} : OnTrial(j)

-----------------------------------------------------------------------------
\* Pre-hook of test_pov and, after its own test, of debug_pov: the input becomes a seed.
SeedHook(i) ==
  /\ At(i, "test_pov", "seed") \/ At(i, "debug_pov", "seed")
  /\ seeds' = seeds \cup {calls[i].arg}
  /\ Go(i, IF calls[i].tool = "test_pov" THEN "test" ELSE "done")
  /\ UNCHANGED <<kind, turns, kept, opened, checked, crossed, outcome>>

\* Project.test_pov: the script makes an input that crashes a build; anything else is an error.
CrashesOn(c) == c \in Works

\* Mutant: the hook of debug_pov does not record what it found.
Forgotten(c) == kept
Recorded(c) == Confirmed(c)

\* test_pov with pov_hook: a crash is recorded and stops the agent.
TestPov(i) ==
  /\ At(i, "test_pov", "test")
  /\ kept' = IF CrashesOn(calls[i].arg) THEN Confirmed(calls[i].arg) ELSE kept
  /\ Seen(calls[i].arg) /\ Go(i, "done")
  /\ UNCHANGED <<kind, turns, opened, seeds, crossed, outcome>>

\* test_pov_hook: debug_pov of a POV that crashes is not debugged, but recorded.
TestPovHook(i) ==
  /\ At(i, "debug_pov", "test")
  /\ IF CrashesOn(calls[i].arg) THEN kept' = Recorded(calls[i].arg) /\ Go(i, "done")
     ELSE Go(i, "seed") /\ UNCHANGED kept
  /\ Seen(calls[i].arg)
  /\ UNCHANGED <<kind, turns, opened, seeds, crossed, outcome>>

\* terminate: whatever the agent claims is its result, over a crash that another call of the
\* message has recorded, too.
Terminate(i) ==
  /\ At(i, "terminate", "end")
  /\ kept' = Claim(calls[i].arg) /\ Go(i, "done")
  /\ crossed' = (crossed \/ kept.confirmed)
  /\ UNCHANGED <<kind, turns, opened, seeds, checked, outcome>>

\* A tool, or a hook of it, that raises is an error of the call: of a parser that is tried it
\* leaves the new one.  A descriptor that does not compile ends its call likewise.
Raised(i) ==
  /\ i \in DOMAIN calls /\ calls[i].at # "done"
  /\ Go(i, "done")
  /\ crossed' = (crossed \/ OnTrial(i))
  /\ UNCHANGED <<kind, turns, kept, opened, seeds, checked, outcome>>

-----------------------------------------------------------------------------
\* The encoder's queries (an error qualifies, too), and test_decoding, whatever it shows.
QueryEncoder(i) ==
  /\ kind = "encoder" /\ At(i, "query_coverage", "test")
  /\ \E error \in BOOLEAN :
       opened' = IF error \/ calls[i].arg \in Works THEN opened \cup {"query"} ELSE opened
  /\ Go(i, "done")
  /\ UNCHANGED <<kind, turns, kept, seeds, checked, crossed, outcome>>

TestDecoding(i) ==
  /\ At(i, "test_decoding", "end")
  /\ opened' = opened \cup {"decoding"} /\ Go(i, "done")
  /\ UNCHANGED <<kind, turns, kept, seeds, checked, crossed, outcome>>

\* test_decoder keeps the decoder that read the whole corpus.
TestDecoder(i) ==
  /\ At(i, "test_decoder", "test")
  /\ IF calls[i].arg \in Works THEN kept' = Confirmed(calls[i].arg) /\ opened' = opened \cup {"parsed"}
     ELSE UNCHANGED <<kept, opened>>
  /\ Seen(calls[i].arg) /\ Go(i, "done")
  /\ UNCHANGED <<kind, turns, seeds, crossed, outcome>>

GdbExec(i) ==
  /\ At(i, "gdb_exec", "end")
  /\ opened' = opened \cup {"debugged"} /\ Go(i, "done")
  /\ UNCHANGED <<kind, turns, kept, seeds, checked, crossed, outcome>>

\* compile_kaitai: the new parser takes the place of the old one, then reads the corpus.
CompileKaitai(i) ==
  /\ At(i, "compile_kaitai", "compile")
  /\ calls' = [calls EXCEPT ![i].at = "test", ![i].prev = kept]
  /\ kept' = Confirmed(calls[i].arg)
  /\ crossed' = (crossed \/ OthersOnTrial(i))
  /\ UNCHANGED <<kind, turns, opened, seeds, checked, outcome>>

\* Mutant: no rollback.
NotRolledBack(i) == kept
RolledBack(i) == IF calls[i].prev # Nothing THEN calls[i].prev ELSE kept

DecodeAll(i) ==
  /\ OnTrial(i)
  /\ IF calls[i].arg \in Works
     THEN /\ opened' = opened \cup {"parsed"} /\ UNCHANGED kept
          /\ crossed' = (crossed /\ (OthersOnTrial(i) \/ kept # Confirmed(calls[i].arg)))
     ELSE kept' = RolledBack(i) /\ UNCHANGED <<opened, crossed>>
  /\ Seen(calls[i].arg) /\ Go(i, "done")
  /\ UNCHANGED <<kind, turns, seeds, outcome>>

\* coverage_hook: a seed that was seen to reach the target is the result.
CoverageHook(i) ==
  /\ kind = "flip" /\ At(i, "query_coverage", "test")
  /\ kept' = IF calls[i].arg \in Works THEN Confirmed(calls[i].arg) ELSE kept
  /\ Seen(calls[i].arg) /\ Go(i, "done")
  /\ UNCHANGED <<kind, turns, opened, seeds, crossed, outcome>>

-----------------------------------------------------------------------------
Ended == calls # <<>> /\ \A i \in DOMAIN calls : calls[i].at = "done"

\* produce_pov takes a success only from a crash it saw.
Produced == IF kept.confirmed THEN kept ELSE Nothing

\* The calls ended: get_result, which for a POV or a seed takes what was recorded.
AfterCalls ==
  /\ Ended
  /\ calls' = <<>>
  /\ outcome' = IF kind \in {"pov", "flip"} /\ kept # Nothing THEN Produced ELSE None
  /\ UNCHANGED <<kind, turns, kept, opened, seeds, checked, crossed>>

\* A text, with a result if the gates are open; a POV needs terminate.
Text ==
  /\ outcome = None /\ calls = <<>> /\ turns > 0
  /\ turns' = turns - 1
  /\ outcome' \in (IF kind = "pov" \/ ~(Gates \subseteq opened) THEN {None}
                   ELSE IF kind \in {"decoder", "kaitai"} THEN {kept} ELSE {Claim(c) : c \in Candidates})
  /\ UNCHANGED <<kind, calls, kept, opened, seeds, checked, crossed>>

\* The iterations are used up: a decoder or a parser that is there is returned, the
\* encoder has one more message with its gates opened, the others have failed.
LastWord ==
  /\ outcome = None /\ calls = <<>> /\ turns = 0
  /\ IF kind = "encoder" /\ ~({"query", "decoding"} \subseteq opened)
     THEN opened' = {"query", "decoding"} /\ turns' = 1 /\ UNCHANGED outcome
     ELSE outcome' = (IF kind \in {"decoder", "kaitai"} THEN kept ELSE Nothing) /\ UNCHANGED <<opened, turns>>
  /\ UNCHANGED <<kind, calls, kept, seeds, checked, crossed>>

Next ==
  \/ Message \/ AfterCalls \/ Text \/ LastWord
  \/ \E i \in DOMAIN calls :
       \/ SeedHook(i) \/ TestPov(i) \/ TestPovHook(i) \/ Terminate(i) \/ Raised(i)
       \/ QueryEncoder(i) \/ TestDecoding(i) \/ TestDecoder(i) \/ GdbExec(i)
       \/ CompileKaitai(i) \/ DecodeAll(i) \/ CoverageHook(i)
Spec == Init /\ [][Next]_craftVars

-----------------------------------------------------------------------------
\* The corpus was read by the parser or decoder that is kept once the agent may return it: a
\* later one that fails does not take its place (generate_kaitai.py:50-87).  Two parsers of a
\* message on trial at once, and a trial that raises, may leave one that reads nothing, until
\* a parser is tried alone and reads.
ParserParses ==
  kind \in {"kaitai", "decoder"} /\ "parsed" \in opened /\ calls = <<>> /\ ~crossed =>
    kept.of \in Works

\* Nothing is returned as confirmed but a POV that crashed or a seed that reached its target
\* in some tool (pov_producer.py:364-372), and what did in whatever tool it was tried is
\* what the session returns (pov_producer.py:221-276), unless a terminate of the same
\* message came after it.
ConfirmedWasSeen ==
  kind \in {"pov", "flip"} /\ outcome # None /\ outcome.confirmed => outcome.of \in checked
SeenIsReported ==
  kind \in {"pov", "flip"} /\ outcome # None /\ checked # {} /\ ~crossed => outcome.confirmed

CraftedIsChecked == ParserParses /\ ConfirmedWasSeen /\ SeenIsReported
=============================================================================
