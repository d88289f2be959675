------------------------------- MODULE Agent --------------------------------
(***************************************************************************)
(* executeAgent of pkg/bifrost_core/mcp/agent.go: the tool calls of a      *)
(* model's response are executed in parallel, their results go back to the *)
(* model, and so on until it makes none, makes one that is not to be       *)
(* executed, or the depth is reached.  A call is its turn and its place in *)
(* it; whether a tool may be executed is the configuration's of that       *)
(* moment.                                                                 *)
(***************************************************************************)
EXTENDS Naturals, Sequences, FiniteSets

CONSTANTS
  MaxAgentDepth,  \* Config.MaxAgentDepth
  MaxToolCalls    \* bound: calls in one response

ASSUME AgentAssumption == MaxAgentDepth \in Nat \ {0} /\ MaxToolCalls \in Nat \ {0}

VARIABLES
  agent,         \* "loop", "execute", "decide", "done" or "error"
  turns,         \* Seq(Seq({"named", "nameless"})): the calls of the model's responses
  depth,
  manual,        \* nonAutoExecutableTools
  inFlight,      \* the goroutines that have not called wg.Done
  results,       \* channelToolResults, in the order in which they came
  authRequired,  \* authRequiredErr is set
  conversation,  \* conversationHistory: a response's turn, or the call that a result is of
  executed,      \* allExecutedToolCalls
  handed         \* the calls in the response that the caller gets

turnVars == <<manual, inFlight, results, authRequired>>
agentVars == <<agent, turns, depth, turnVars, conversation, executed, handed>>

Response == UNION {[1..n -> {"named", "nameless"}] : n \in 0..MaxToolCalls}

CallsOf(t) == {<<t, i>> : i \in DOMAIN turns[t]}
Current == CallsOf(Len(turns))
Made == UNION {CallsOf(t) : t \in DOMAIN turns}

\* A response without calls does not come here.
AgentInit ==
  /\ agent = "loop" /\ turns \in {<<r>> : r \in Response \ {<<>>}} /\ depth = 0
  /\ manual = {} /\ inFlight = {} /\ results = <<>> /\ authRequired = FALSE
  /\ conversation = <<>> /\ executed = {} /\ handed = {}

\* No calls, or too deep: the current response as it is.
LoopEnds ==
  /\ agent = "loop" /\ (depth = MaxAgentDepth \/ Current = {})
  /\ agent' = "done" /\ handed' = Current
  /\ UNCHANGED <<turns, depth, turnVars, conversation, executed>>

\* Mutant of NotExecuted: calls without a name are skipped.
NotExecutedNamed(auto) == {c \in Current \ auto : turns[c[1]][c[2]] = "named"}

NotExecuted(auto) == Current \ auto

\* Those to execute are started, after the response has joined the conversation.
Separate ==
  /\ agent = "loop" /\ depth < MaxAgentDepth /\ Current # {} /\ depth' = depth + 1
  /\ \E auto \in SUBSET {c \in Current : turns[c[1]][c[2]] = "named"} :
       /\ manual' = NotExecuted(auto) /\ inFlight' = auto
       /\ agent' = IF auto = {} THEN "decide" ELSE "execute"
       /\ conversation' = IF auto = {} THEN conversation
                          ELSE Append(conversation, <<"response", Len(turns)>>)
  /\ UNCHANGED <<turns, results, authRequired, executed, handed>>

\* A result or an error, which becomes a result; a missing credential is remembered as well.
Execute(c) ==
  /\ agent = "execute" /\ c \in inFlight /\ inFlight' = inFlight \ {c}
  /\ results' = Append(results, <<"result", c>>) /\ authRequired' \in {authRequired, TRUE}
  /\ UNCHANGED <<agent, turns, depth, manual, conversation, executed, handed>>

\* wg.Wait returns.
Collect ==
  /\ agent = "execute" /\ inFlight = {} /\ results' = <<>>
  /\ IF authRequired THEN agent' = "error" /\ UNCHANGED <<conversation, executed>>
     ELSE /\ agent' = "decide" /\ conversation' = conversation \o results
          /\ executed' = executed \cup {results[i][2] : i \in DOMAIN results}
  /\ UNCHANGED <<turns, depth, manual, inFlight, authRequired, handed>>

\* The first response as it is, or one with the results so far and the calls left over.
HandOver ==
  /\ agent = "decide" /\ manual # {} /\ agent' = "done"
  /\ handed' = IF depth = 1 /\ executed = {} THEN Current ELSE manual
  /\ UNCHANGED <<turns, depth, turnVars, conversation, executed>>

\* makeLLMCall.
AskModel ==
  /\ agent = "decide" /\ manual = {}
  /\ \/ agent' = "error" /\ UNCHANGED turns
     \/ agent' = "loop" /\ \E r \in Response : turns' = Append(turns, r)
  /\ UNCHANGED <<depth, turnVars, conversation, executed, handed>>

AgentNext ==
  \/ LoopEnds \/ Separate \/ Collect \/ HandOver \/ AskModel
  \/ \E c \in inFlight : Execute(c)

AgentSpec == AgentInit /\ [][AgentNext]_agentVars

----------------------------------------------------------------------------
(* What the model is asked next answers every call it has made, once, right *)
(* after the response that made it and in whatever order the tools came     *)
(* back; and of all calls that it ever made, each is either executed or in  *)
(* the response that the caller gets to handle, never both, whether the     *)
(* tools failed, had no name or the depth was reached.                      *)
CallsAccounted ==
  /\ agent = "decide" /\ manual = {} =>
       /\ \A p \in DOMAIN conversation : conversation[p][1] = "response" =>
            LET t == conversation[p][2]  n == Cardinality(CallsOf(t)) IN
            {conversation[q] : q \in p + 1 .. p + n} = {<<"result", c>> : c \in CallsOf(t)}
       /\ Len(conversation) = Len(turns) + Cardinality(Made)
  /\ agent = "done" => executed \cap handed = {} /\ executed \cup handed = Made
=============================================================================
