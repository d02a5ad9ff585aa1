------------------------------- MODULE Agent -------------------------------
(***************************************************************************)
(* One agent of crs/agents: the loop of agent.py (completion, tool calls,  *)
(* compression, fallback to another model), what ends it in xml_agent.py   *)
(* and tool_required_agent.py, and the sessions its caller grants it, each *)
(* with a last word and fewer iterations (triage.py, vuln_analyzer.py,     *)
(* pov_producer.py, dynamic_debug.py, source_questions.py).                *)
(*                                                                         *)
(* A message is its role; an assistant's has the number of its tool calls, *)
(* a tool's the call it answers.  The calls of a message run concurrently. *)
(***************************************************************************)
EXTENDS Integers, Sequences, FiniteSets, SequencesExt

CONSTANTS
  MaxIters,  \* bound: iterations of the first session (one, of the next ones)
  MaxCalls,  \* bound: tool calls of a message
  MaxFaults, \* bound: completions that fail
  None

AgentAssumption ==
  /\ MaxCalls \in Nat
  /\ None \notin {"plain", "note", "stop", "terminate", "result", "error", "raised"}

VARIABLES
  agent, msgs,
  at,        \* where the loop is
  session, iters,  \* the session, and the iterations it has left
  running,   \* what each tool call of the message did, None while it runs
  result,    \* self.result
  terminated, outcome,
  faults     \* bound: failures of completions left

agentVars == <<agent, msgs, at, session, iters, running, result, terminated, outcome, faults>>

Msg(role) == [role |-> role, n |-> 0]
Said(n) == [role |-> "assistant", n |-> n]
Answer(k) == [role |-> "tool", n |-> k]

\* The agents, and the iterations of the sessions their callers run: the next one after a
\* last word, if there is no result yet and the agent was not stopped.
Sessions(kind, plan) ==
  [kind |-> kind,
   plan |-> [s \in DOMAIN plan |-> IF s > 1 THEN 1 ELSE IF plan[s] > MaxIters THEN MaxIters ELSE plan[s]]]
Triage == Sessions("tool", <<30, 10, 1>>)
VulnAnalyzer == Sessions("xml", <<30, 10, 1>>)
SourceQuestions == Sessions("tool", <<40, 1>>)
DynamicDebug == Sessions("tool", <<40, 1>>)
DiffAnalyzer == Sessions("xml", <<40>>)
FuncSummarizer == Sessions("xml", <<40>>)
Classifier == Sessions("classifier", <<1>>)

Init ==
  /\ agent \in {Triage, VulnAnalyzer, SourceQuestions, DynamicDebug, DiffAnalyzer, FuncSummarizer, Classifier}
  /\ msgs = <<Msg("system"), Msg("user")>>
  /\ at = "ready" /\ session = 1 /\ iters = agent.plan[1]
  /\ running = <<>>
  /\ result = FALSE /\ terminated = FALSE /\ outcome = None
  /\ faults = MaxFaults

-----------------------------------------------------------------------------
\* One of the iterations: completion() of the messages so far.
Ask ==
  /\ at = "ready" /\ iters > 0 /\ ~terminated /\ outcome = None
  /\ at' = "asking" /\ iters' = iters - 1
  /\ UNCHANGED <<agent, msgs, session, running, result, terminated, outcome, faults>>

Raise == at' = "over" /\ outcome' = "raised"

\* compress: what it keeps starts at the first reply in the last third of the messages.
LastThird(m) == SubSeq(m, (2 * Len(m)) \div 3 + 1, Len(m))
FromAssistant(m) ==
  LET post == LastThird(m)
      starts == {k \in 1..Len(post) : post[k].role = "assistant"}
  IN IF starts = {} THEN <<>> ELSE SubSeq(post, CHOOSE k \in starts : (\A j \in starts : k <= j), Len(post))

\* The context window was exceeded: compress and ask again, once.
Exceeded ==
  /\ at = "asking" /\ faults > 0
  /\ faults' = faults - 1
  /\ IF FromAssistant(msgs) = <<>> THEN Raise /\ UNCHANGED msgs
     ELSE /\ msgs' = SubSeq(msgs, 1, 2) \o <<Msg("user")>> \o FromAssistant(msgs)
          /\ at' = "asking again" /\ UNCHANGED outcome
  /\ UNCHANGED <<agent, session, iters, running, result, terminated>>

\* Another error: the next model is asked, once.  A second failure of either kind is raised.
Fails ==
  /\ at \in {"asking", "asking again"} /\ faults > 0
  /\ faults' = faults - 1
  /\ IF at = "asking" THEN at' = "asking again" /\ UNCHANGED outcome ELSE Raise
  /\ UNCHANGED <<agent, msgs, session, iters, running, result, terminated>>

\* get_result of the kinds of agents, for a message without or with tool calls.
Nudged(text) == CASE agent.kind = "tool" -> TRUE [] agent.kind = "xml" -> ~text [] OTHER -> FALSE

\* The model replies: with tool calls, or with a text (a valid result or not).
Reply ==
  /\ at \in {"asking", "asking again"}
  /\ \E n \in 0..(IF agent.kind = "classifier" THEN 0 ELSE MaxCalls), text \in BOOLEAN :
       /\ running' = [k \in 1..n |-> None]
       /\ IF n > 0
          THEN text /\ msgs' = Append(msgs, Said(n)) /\ at' = "tools" /\ UNCHANGED <<terminated, outcome>>
          ELSE IF Nudged(text)
          THEN msgs' = msgs \o <<Said(0), Msg("user")>> /\ at' = "ready" /\ UNCHANGED <<terminated, outcome>>
          ELSE msgs' = Append(msgs, Said(0)) /\ at' = "ready" /\ terminated' = TRUE /\ outcome' = "result"
  /\ UNCHANGED <<agent, session, iters, result, faults>>

\* What a tool call comes to: an answer (an error is one, too), an answer with a note or
\* a stop of its hooks, the result of terminate.
Actions == {"plain", "note"} \cup (IF agent.kind = "tool" THEN {"stop", "terminate"} ELSE {})

CallEnds(k) ==
  /\ at = "tools" /\ running[k] = None
  /\ \E a \in Actions :
       /\ running' = [running EXCEPT ![k] = a]
       /\ result' = (result \/ a \in {"stop", "terminate"})
  /\ msgs' = Append(msgs, Answer(k))
  /\ UNCHANGED <<agent, at, session, iters, terminated, outcome, faults>>

\* Mutant: the notes are appended when the first call has ended.
WhenOne == \E k \in DOMAIN running : running[k] # None
WhenAll == \A k \in DOMAIN running : running[k] # None

\* All calls ended: the actions are applied in the order of the calls, then get_result.
Apply ==
  /\ at = "tools" /\ WhenAll
  /\ LET notes == {k \in DOMAIN running : running[k] = "note"}
         has == agent.kind = "tool" /\ result
     IN /\ msgs' = msgs \o [n \in 1..Cardinality(notes) |-> Msg("user")]
        /\ terminated' = (has \/ \E k \in DOMAIN running : running[k] = "stop")
        /\ outcome' = IF has THEN "result" ELSE outcome
  /\ at' = "ready" /\ running' = <<>>
  /\ UNCHANGED <<agent, session, iters, result, faults>>

\* The caller: without a result and unless terminated, a last word and another session.
MayResume == outcome = None /\ ~terminated /\ session < Len(agent.plan)
Resume ==
  /\ at = "ready" /\ iters = 0 /\ MayResume
  /\ session' = session + 1 /\ iters' = agent.plan[session + 1]
  /\ msgs' = Append(msgs, Msg("user")) /\ terminated' = FALSE
  /\ UNCHANGED <<agent, at, running, result, outcome, faults>>

Return ==
  /\ at = "ready"
  /\ terminated \/ outcome # None \/ (iters = 0 /\ ~MayResume)
  /\ at' = "over" /\ outcome' = IF outcome = None THEN "error" ELSE outcome
  /\ UNCHANGED <<agent, msgs, session, iters, running, result, terminated, faults>>

Next ==
  \/ Ask \/ Exceeded \/ Fails \/ Reply \/ Apply \/ Resume \/ Return
  \/ \E k \in DOMAIN running : CallEnds(k)

Spec == Init /\ [][Next]_agentVars

-----------------------------------------------------------------------------
\* What may follow an assistant's message: the answers to its calls, each once and
\* before anything else.
AnsweredAt(m, i) ==
  LET n == m[i].n IN
    /\ Len(m) >= i + n
    /\ {m[j].n : j \in (i + 1)..(i + n)} = 1..n
    /\ \A j \in (i + 1)..(i + n) : m[j].role = "tool"

\* Every request is one the model APIs accept: the prompts first, each tool call answered
\* exactly once right after the message that made it, no stray answer, and not ending with
\* the assistant's own words ("Invalid message state", agent.py:317); whatever was
\* compressed away, in whatever order the calls ended (agent.py:230-386).
RequestsWellFormed ==
  at \in {"asking", "asking again"} =>
    /\ msgs[1].role = "system" /\ msgs[2].role = "user"
    /\ msgs[Len(msgs)].role # "assistant"
    /\ \A i \in DOMAIN msgs : msgs[i].role = "assistant" => AnsweredAt(msgs, i)
    /\ \A i \in DOMAIN msgs : msgs[i].role = "tool" =>
         \E j \in 1..(i - 1) : msgs[j].role = "assistant" /\ i <= j + msgs[j].n

\* What was said since the model's last words (the answers to its calls, the hints of the
\* hooks, the last word of its caller) is never compressed away (agent.py:301-314).
SinceReply(m) ==
  LET said == {i \in DOMAIN m : m[i].role = "assistant"} \cup {0}
  IN SubSeq(m, (CHOOSE i \in said : \A j \in said : j <= i) + 1, Len(m))
KeptTurn == at = "asking" /\ at' = "asking again" => SinceReply(msgs') = SinceReply(msgs)
=============================================================================
