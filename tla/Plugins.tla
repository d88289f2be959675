------------------------------ MODULE Plugins -------------------------------
(***************************************************************************)
(* The plugins of pkg/bifrost_core/bifrost.go: a list that is reloaded,    *)
(* shortened and reordered while requests run, the pipelines that take a   *)
(* copy of it, the hooks they run, and the stores of                       *)
(* schemas/context.go in which a request's hooks log.  A pipeline runs its *)
(* hooks one after the other and shares nothing but the pool of stores, so *)
(* one run over all plugins is one step; every hook logs.  A stream that   *)
(* is tried again on the same provider is the matter of Streams.           *)
(***************************************************************************)
EXTENDS Integers, Sequences, FiniteSets, SequencesExt

CONSTANTS
  Call,      \* calls of handleRequest and handleStreamRequest
  Streamed,  \* the second kind
  Names,     \* plugins by name
  Store,     \* pluginLogStores ever made
  Nil,
  MaxSwaps,  \* bound: changes of the list
  MaxTries,  \* bound: the primary provider and its fallbacks
  MaxChunks  \* bound: chunks of a stream before the final one

ASSUME PluginAssumption ==
  /\ Streamed \subseteq Call /\ Cardinality(Store) >= Cardinality(Call) /\ Nil \notin Store
  /\ IsFiniteSet(Names) /\ MaxSwaps \in Nat /\ MaxTries \in Nat /\ MaxChunks \in Nat

\* An instance of a plugin: its name, and the change that brought it.
Instance == Names \X (0..MaxSwaps)

VARIABLES
  llmPlugins,  \* Seq(Instance)
  swaps,
  where,       \* [Call -> where its current try is]
  round, chunks,  \* the try, and its chunks before the final one
  line,        \* [Call -> Seq(Instance)]: llmPlugins of the pipeline in use
  ran,         \* [Call -> Seq(Instance)]: the plugins whose PreLLMHook ran, in order
  cut,         \* [Call -> BOOLEAN]: one of them answered the request itself
  count,       \* [Call -> Nat]: tryRequest's pluginCount
  post,        \* [Call -> Seq(Instance) or Nil]: the last run of post hooks on it
  steady,      \* [Call -> BOOLEAN]: the list is still the one the try began with
  foreign,     \* [Call -> BOOLEAN]: the pipeline is not the one of the pre hooks
  traced,      \* [Call -> BOOLEAN]: its context has a tracer and a trace ID
  root,        \* [Call -> Store or Nil]: pluginLogs of the request's context
  logPool,     \* pluginLogStorePool
  log,         \* [Store -> SUBSET Call]: whose entries are in it
  attached     \* [Call -> SUBSET Call]: whose entries were attached to its trace

logVars == <<root, logPool, log>>
tryVars == <<round, chunks, line, ran, cut, count, foreign>>
pluginVars == <<llmPlugins, swaps, where, tryVars, post, steady, traced, logVars, attached>>

PluginInit ==
  /\ \E configured \in SUBSET Names : llmPlugins = SetToSeq({<<n, 0>> : n \in configured})
  /\ swaps = 0
  /\ where = [c \in Call |-> "new"] /\ round = [c \in Call |-> 0]
  /\ chunks = [c \in Call |-> 0] /\ line = [c \in Call |-> <<>>]
  /\ ran = [c \in Call |-> <<>>] /\ cut = [c \in Call |-> FALSE]
  /\ count = [c \in Call |-> 0] /\ post = [c \in Call |-> Nil]
  /\ steady = [c \in Call |-> TRUE] /\ foreign = [c \in Call |-> FALSE]
  /\ traced \in [Call -> BOOLEAN]
  /\ root = [c \in Call |-> Nil] /\ logPool = Store
  /\ log = [s \in Store |-> {}] /\ attached = [c \in Call |-> {}]

----------------------------------------------------------------------------
(* The list.  Each change is a compare-and-swap loop, hence one step.      *)

Swap(new) ==
  /\ swaps < MaxSwaps /\ swaps' = swaps + 1 /\ llmPlugins' = new
  /\ steady' = [c \in Call |-> FALSE]
  /\ UNCHANGED <<where, tryVars, post, logVars, attached>>

\* reloadLLMPlugin: in place of the old instance, or at the end.
ReloadPlugin(n) ==
  LET new == <<n, swaps + 1>> IN
  Swap(IF \E p \in ToSet(llmPlugins) : p[1] = n
       THEN [i \in DOMAIN llmPlugins |-> IF llmPlugins[i][1] = n THEN new ELSE llmPlugins[i]]
       ELSE Append(llmPlugins, new))

\* removeLLMPlugin; no two plugins have one name.
RemovePlugin(n) ==
  \E i \in DOMAIN llmPlugins : llmPlugins[i][1] = n /\ Swap(RemoveAt(llmPlugins, i))

\* reorderAtomicSlice, by any order of names.
ReorderPlugins ==
  \E new \in [DOMAIN llmPlugins -> ToSet(llmPlugins)] :
    ToSet(new) = ToSet(llmPlugins) /\ new # llmPlugins /\ Swap(new)

----------------------------------------------------------------------------
(* What the hooks of a request log.                                        *)

\* n hooks run: WithPluginScope finds the store of the context or gets one.
Hooks(c, n) ==
  IF n = 0 THEN UNCHANGED logVars
  ELSE \E s \in Store :
    /\ IF root[c] # Nil THEN s = root[c] ELSE s \in logPool
    /\ root' = [root EXCEPT ![c] = s] /\ logPool' = logPool \ {s}
    /\ log' = [log EXCEPT ![s] = @ \cup {c}]

\* What goes to the trace, if there is one.
Attach(c) ==
  attached' = IF traced[c] THEN [attached EXCEPT ![c] = @ \cup log[root[c]]] ELSE attached

\* Mutant of DrainPluginLogs: the context keeps the store that goes to the pool.
DrainPluginLogsKeeps(c) ==
  IF root[c] = Nil THEN UNCHANGED <<logVars, attached>>
  ELSE
    /\ Attach(c) /\ log' = [log EXCEPT ![root[c]] = {}]
    /\ logPool' = logPool \cup {root[c]} /\ UNCHANGED root

\* flushPluginLogs: the entries go to the trace or nowhere, the emptied store to the pool.
DrainPluginLogs(c) ==
  IF root[c] = Nil THEN UNCHANGED <<logVars, attached>>
  ELSE
    /\ Attach(c) /\ log' = [log EXCEPT ![root[c]] = {}]
    /\ logPool' = logPool \cup {root[c]} /\ root' = [root EXCEPT ![c] = Nil]

\* drainAndAttachPluginLogs: without a trace it returns before it drains.
DrainAndAttach(c) ==
  IF traced[c] THEN DrainPluginLogs(c) ELSE UNCHANGED <<logVars, attached>>

----------------------------------------------------------------------------
(* One request.                                                            *)

From(c, l) == where[c] = l
GoTo(c, l) == where' = [where EXCEPT ![c] = l]

\* RunPreRequestHooks, on a pipeline of its own, once for all tries.
PreRequestHooks(c) ==
  /\ From(c, "new") /\ GoTo(c, "try") /\ Hooks(c, Len(llmPlugins))
  /\ UNCHANGED <<llmPlugins, swaps, tryVars, post, steady, attached>>

\* No provider was found: flushPluginLogs, and the request ends.
Unresolved(c) ==
  /\ From(c, "try") /\ round[c] = 0 /\ GoTo(c, "refused") /\ DrainPluginLogs(c)
  /\ UNCHANGED <<llmPlugins, swaps, tryVars, post, steady>>

\* getPluginPipeline and RunLLMPreHooks up to n plugins, the last of which may cut it short
\* with an answer, an error or a stream.
PreHooks(c, n, short) ==
  /\ From(c, "try") /\ round[c] < MaxTries /\ round' = [round EXCEPT ![c] = @ + 1]
  /\ IF short THEN n > 0 ELSE n = Len(llmPlugins)
  /\ line' = [line EXCEPT ![c] = llmPlugins]
  /\ ran' = [ran EXCEPT ![c] = SubSeq(llmPlugins, 1, n)] /\ cut' = [cut EXCEPT ![c] = short]
  /\ steady' = [steady EXCEPT ![c] = TRUE] /\ foreign' = [foreign EXCEPT ![c] = FALSE]
  /\ post' = [post EXCEPT ![c] = Nil] /\ chunks' = [chunks EXCEPT ![c] = 0] /\ Hooks(c, n)
  /\ \/ GoTo(c, IF short THEN "answered" ELSE "send")
     \/ short /\ c \in Streamed /\ GoTo(c, "stream")
  /\ UNCHANGED <<llmPlugins, swaps, count, attached>>

\* The queue takes the request, and tryRequest counts the plugins of the list.
Enqueue(c) ==
  /\ From(c, "send") /\ GoTo(c, "wait") /\ count' = [count EXCEPT ![c] = Len(llmPlugins)]
  /\ UNCHANGED <<llmPlugins, swaps, round, chunks, line, ran, cut, foreign, post, steady,
                 logVars, attached>>

\* The queue is full or closing, or a plugin lost the request: no post hooks.
Dropped(c) ==
  /\ From(c, "send") /\ GoTo(c, "dropped")
  /\ UNCHANGED <<llmPlugins, swaps, tryVars, post, steady, logVars, attached>>

\* An answer for the caller, which has its own pipeline.
Answered(c) ==
  /\ From(c, "wait") /\ GoTo(c, "answered")
  /\ UNCHANGED <<llmPlugins, swaps, tryVars, post, steady, logVars, attached>>

\* Mutant of RunFrom: a short-circuited request counts all plugins too.
RunFromAll(c) == IF c \in Streamed \/ foreign[c] THEN Len(llmPlugins) ELSE count[c]

\* preCount; else the length of the list, now or when the request was sent.
RunFrom(c) ==
  CASE cut[c] -> Len(ran[c])
    [] ~cut[c] /\ (c \in Streamed \/ foreign[c]) -> Len(llmPlugins)
    [] OTHER -> count[c]

\* RunPostLLMHooks, in reverse order.
PostHooks(c) ==
  LET n == IF RunFrom(c) < Len(line[c]) THEN RunFrom(c) ELSE Len(line[c]) IN
  /\ post' = [post EXCEPT ![c] = Reverse(SubSeq(line[c], 1, n))] /\ Hooks(c, n)
  /\ UNCHANGED <<llmPlugins, swaps, round, line, ran, cut, count, foreign, steady, attached>>

Complete(c) ==
  /\ From(c, "answered") /\ GoTo(c, "drain") /\ PostHooks(c) /\ UNCHANGED chunks

\* The error of a stream that failed goes on to the caller.
AttachLogs(c) ==
  /\ DrainAndAttach(c)
  /\ \/ From(c, "drain") /\ GoTo(c, "done") /\ UNCHANGED <<line, foreign, post>>
     \/ /\ From(c, "failed") /\ GoTo(c, "answered")
        /\ line' = [line EXCEPT ![c] = ran[c]] /\ foreign' = [foreign EXCEPT ![c] = FALSE]
        /\ post' = [post EXCEPT ![c] = Nil]
  /\ UNCHANGED <<llmPlugins, swaps, round, chunks, ran, cut, count, steady>>

\* A worker's pipeline: that of a stream, or of a request that nobody waits for any more.
WorkerPipeline(c) ==
  /\ \/ c \in Streamed /\ From(c, "wait") /\ GoTo(c, "stream")
     \/ From(c, "left") /\ GoTo(c, "answered")
  /\ line' = [line EXCEPT ![c] = llmPlugins] /\ foreign' = [foreign EXCEPT ![c] = TRUE]
  /\ UNCHANGED <<llmPlugins, swaps, round, chunks, ran, cut, count, post, steady, logVars,
                 attached>>

\* Post hooks for a chunk; those for the final one end the stream, and those for an
\* error in front of everything else end the attempt.
Chunk(c) ==
  /\ From(c, "stream") /\ PostHooks(c)
  /\ \/ chunks[c] < MaxChunks /\ chunks' = [chunks EXCEPT ![c] = @ + 1] /\ UNCHANGED where
     \/ GoTo(c, "drain") /\ UNCHANGED chunks
     \/ foreign[c] /\ chunks[c] = 0 /\ GoTo(c, "failed") /\ UNCHANGED chunks

\* A plugin's own stream may end without a final chunk.
CutStreamEnds(c) ==
  /\ From(c, "stream") /\ cut[c] /\ GoTo(c, "drain")
  /\ UNCHANGED <<llmPlugins, swaps, tryVars, post, steady, logVars, attached>>

\* The caller stops waiting; what the worker sends may also go nowhere.
Depart(c) ==
  /\ From(c, "wait") /\ c \notin Streamed /\ (GoTo(c, "left") \/ GoTo(c, "lost"))
  /\ UNCHANGED <<llmPlugins, swaps, tryVars, post, steady, logVars, attached>>

\* The try has failed and there is a fallback.
TryFallback(c) ==
  /\ From(c, "done") \/ From(c, "dropped")
  /\ round[c] < MaxTries /\ GoTo(c, "try")
  /\ UNCHANGED <<llmPlugins, swaps, tryVars, post, steady, logVars, attached>>

----------------------------------------------------------------------------
CallNext(c) ==
  \/ PreRequestHooks(c) \/ Unresolved(c) \/ Enqueue(c) \/ Dropped(c) \/ Answered(c) \/ Complete(c)
  \/ AttachLogs(c) \/ WorkerPipeline(c) \/ Chunk(c) \/ CutStreamEnds(c) \/ Depart(c)
  \/ TryFallback(c)
  \/ \E n \in 0..Len(llmPlugins), short \in BOOLEAN : PreHooks(c, n, short)

PluginNext ==
  /\ \/ \E n \in Names : ReloadPlugin(n) \/ RemovePlugin(n)
     \/ ReorderPlugins
     \/ \E c \in Call : CallNext(c)
  /\ UNCHANGED traced

PluginSpec == PluginInit /\ [][PluginNext]_pluginVars

----------------------------------------------------------------------------
(* "Only the PostLLMHook methods of plugins that had their PreLLMHook      *)
(* executed are called in reverse order" where a plugin cuts a request     *)
(* short, however the list has changed by then, and in every request       *)
(* during which it did not change.  On the caller's own pipeline no plugin *)
(* sees an answer whose request it has not seen.                           *)
HooksNest ==
  \A c \in Call : post[c] # Nil =>
    /\ cut[c] \/ steady[c] => post[c] = Reverse(ran[c])
    /\ ~foreign[c] => post[c] = Reverse(SubSeq(ran[c], 1, Len(post[c])))

(* The entries attached to a request's trace are those of its own hooks,   *)
(* although the stores pass from request to request: a store in the pool   *)
(* is empty.  When a try of a traced request has ended, or any request was *)
(* refused, none of its entries is left in a store; without a trace they   *)
(* stay in the request's own context.                                      *)
LogsOwn ==
  /\ \A s \in logPool : log[s] = {}
  /\ \A c \in Call :
       /\ attached[c] \subseteq {c}
       /\ where[c] = "refused" \/ (where[c] = "done" /\ traced[c]) => \A s \in Store : c \notin log[s]
       /\ \A s \in Store : c \in log[s] => s = root[c]

(* "The plugin pipeline ensures symmetry: for every PreLLMHook executed,   *)
(* the corresponding PostLLMHook will be called in reverse order", of      *)
(* requests that are answered and plugins that are registered throughout.  *)
HooksPaired ==
  \A c \in Call : post[c] # Nil =>
    ToSet(ran[c]) \cap ToSet(llmPlugins) \subseteq ToSet(post[c])
=============================================================================
