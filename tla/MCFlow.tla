------------------------------- MODULE MCFlow -------------------------------
(* What a request meets in bifrost_core.  In one part a request to a       *)
(* provider with two keys and three fallbacks: one without keys, one       *)
(* without configuration, one with two keys.  In the second the plugins    *)
(* that every try passes, with a plain and a streaming request while their *)
(* list changes.  In the third an MCP client under two callers, where      *)
(* monitors, connections and configurations in memory are reused when      *)
(* nothing refers to them, and in the last an agent.  Each part is         *)
(* explored with the others at rest.                                       *)
EXTENDS Fallbacks, Plugins, MCPClients, Agent

CONSTANTS k1, k2, k3, k4, own

mcKey == {k1, k2, k3, k4, own}
mcFallback == <<"keyless", "unknown", "other">>
mcConfigured == {"main", "keyless", "other"}
mcKeysOf == [main |-> {k1, k2}, keyless |-> {}, other |-> {k3, k4}]
mcRetriesOf == [main |-> 3, keyless |-> 0, other |-> 1]

VARIABLE part

requestVars == <<retryVars, callVars, flowVars>>

FallbacksRest ==
  stage = "start" /\ pin = NoKey /\ ~session /\ direct = NoKey /\ ~skip /\ ~filtering /\ ~encrypted
PluginsRest == llmPlugins = <<>> /\ traced = [c \in Call |-> FALSE]
AgentRest == turns = <<<<"named">>>>

MCInit ==
  /\ part \in {"fallbacks", "plugins", "clients", "agent"}
  /\ FlowInit /\ (part = "fallbacks" \/ FallbacksRest)
  /\ PluginInit /\ (part = "plugins" \/ PluginsRest)
  /\ MCPInit /\ pc[CHOOSE c \in Caller : TRUE] = "boot"  \* callers are alike
  /\ AgentInit /\ (part = "agent" \/ AgentRest)

MCNext ==
  \/ part = "fallbacks" /\ FlowNext /\ UNCHANGED <<part, pluginVars, mcpVars, agentVars>>
  \/ part = "plugins" /\ PluginNext /\ UNCHANGED <<part, requestVars, mcpVars, agentVars>>
  \/ part = "clients" /\ MCPNext /\ UNCHANGED <<part, requestVars, pluginVars, agentVars>>
  \/ part = "agent" /\ AgentNext /\ UNCHANGED <<part, requestVars, pluginVars, mcpVars>>

MCSpec == MCInit /\ [][MCNext]_<<part, requestVars, pluginVars, mcpVars, agentVars>>
=============================================================================
