# NerveGate in TLA+

TLA+ models of the NerveGate daemon and of the Bifrost core that its repository
carries, the TLC runs that check them on small instances, and theorems that
TLAPS checks for every value of the constants. Paths are relative to the
repository. `PROJECT.json` lists components, runs, mutants, findings, hazards
and theorems, and maps every definition that models code to its lines.

## The system

The repository holds two programs. NerveGate itself is a proxy for chat
completions. A request passes, in this order,

    listener -> body -> trimmer -> classifier -> rotator -> upstream
                                                    ^          |
                                                    +-- marks -+

`pkg/bifrost_core` is a library, a gateway to many model vendors, which no
package of NerveGate imports. A request passes, in this order,

    fallbacks -> plugins -> provider queue -> worker -> retries -> vendor
                    ^            |                          |
                    +--- post ---+------- channels, stream -+

and beside it stand the clients of MCP tool servers and the agent that lets a
model call their tools.

| Part | Code | State | Operations |
| --- | --- | --- | --- |
| rotator | `pkg/rotator/rotator.go` | per provider a list of keys and a cursor; per key an ID, a cool-down deadline, a window of request times, a window of token counts; all under one mutex | `AddKey`, `HasKeys`, `GetKey`, `MarkTokens`, `MarkCoolDown` |
| request path | `pkg/ingress/ingress.go`, `handleChatCompletions` | per request: the key in use | read and trim the body, pick a key, call upstream, `ModifyResponse` (cool-down, `recordTokens`), `ErrorHandler` |
| key loading | `commands/serve.go`, `loadKeyPool` | none of its own | one `AddKey` per non-blank entry, before the server starts |
| lifecycle | `ingress.go`, `Start`; `commands/serve.go` | listeners, Serve goroutines, `errCh`, context, the socket file and the port | start, fail, signal, `Shutdown` with a deadline, deferred removal, exit |
| trimmer | `pkg/trimmer/trimmer.go` | a global `sync.Pool` of buffers | `TrimBytes` |
| classifier | `pkg/classifier/classifier.go` | none | `Classify` |
| provider queues | `bifrost_core/bifrost.go` | per provider a buffered queue with its `closing` mark, workers, wait groups, a mutex; the lifecycle lock | lookup and lazy creation, send, work, `UpdateProvider`, `RemoveProvider`, `Shutdown` |
| request channels | `bifrost.go` | pools of messages and of their answer channels | `getChannelMessage`, answer, stop waiting, `billAbandonedTerminal`, `releaseChannelMessage` |
| retries | `bifrost.go`, `utils.go`, `encryptedreasoning.go` | per request: keys used, dead and rate limited, the attempt trail | `executeRequestWithRetries` and its key providers |
| fallbacks | `bifrost.go`, `utils.go` | the keys of the request's context | `handleRequest`, `handleStreamRequest`, `clearCtxForFallback` |
| plugins | `bifrost.go`, `schemas/context.go` | the list of plugins, pipelines that copy it, pooled log stores | reload, remove, reorder; pre-request, pre and post hooks; drain of the logs |
| streams | `bifrost.go`, `providers/utils`, `providers/openai` | per attempt a channel, a body, a canceller, an idle timer, a pipeline; flags of the context | first chunk, drain, retry, forward, release, finalize |
| MCP clients | `mcp/clientmanager.go`, `healthmonitor.go`, `mcp.go` | the client map, connections, the map of reconnections, the monitors, two locks | add, remove, enable, disable, update, reconnect, boot, health checks |
| MCP agent | `mcp/agent.go`, `agentadaptors.go` | a conversation, the calls executed | separate, execute in parallel, collect, ask again, hand over |

What makes NerveGate hard: handlers run concurrently on one rotator and call it
two or three times per request, with an upstream call of any length in between;
answers come back in any order; limits are counted in sliding windows of a
clock; the socket path is shared with whatever process runs next, or still; a
shutdown deadline races the requests in flight; pooled buffers are shared by all
handlers. What makes the core hard: queues, lists of plugins and clients are
replaced under traffic; callers stop waiting while a worker has their message,
and messages, channels, pipelines and log stores are pooled; one context carries
flags from attempt to attempt and from provider to provider; three goroutines
may close one body; two locks are taken in two orders.

What makes each part correct:

- rotator: no key beyond its limits on its whole history; no key lost for good;
  no key passed over although it is healthy; IDs lead to the right key;
- request path: a configured pool is never bypassed; a failing key is out until
  its cool-down is over; token accounting lags by a bounded amount; every
  request is answered;
- lifecycle: a stop that is reported clean has cut nothing off; a signal always
  ends the process; the socket path leads to the process that serves;
- trimmer: the loop drops exactly what it should; a result is never overwritten
  by another call; the pool retains nothing oversized;
- classifier: tiers consistent with the flag that callers act on;
- provider queues: no request executed twice or after its caller got an error;
  what is removed or replaced comes to rest; what callers find is served;
  buffered requests are answered; the administrative calls return;
- request channels: a caller gets the answer to its own request; a worker never
  blocks on an answer; a call is billed once;
- retries: a revoked key is not used again; rate limits are shared out; a
  repeated key was waited for; the trail tells what happened;
- fallbacks: providers in order, the right error at the end, nothing of one
  provider left for the next;
- plugins: post hooks mirror pre hooks; logs go to the request they are of;
- streams: one owner closes each body; the end is told once, on a pipeline that
  is still held; every goroutine ends;
- MCP clients: no connection lost; an enabled client is watched, a disabled one
  stays disabled; nobody waits for ever;
- MCP agent: every call is executed and answered, or left to the caller.

## Modules

`Rotator` models `KeyRotator`. Every method holds the mutex from its first
access to its return and reads the clock inside, so each method is one action
on the variables of the code (`keys`, `idx`, `id`, `CoolUntil`, `requestTimes`,
`tokenUsage`) and `now`. `GetKey` is two actions, for its two results; both
prune the windows of exactly the keys the scan has come past. `FirstLive` is
where the loops of `pruneWindow` stop, at the first entry in list order that is
recent enough; that this is also the first in time is a consequence, not an
assumption.

`RotatorAudit` runs the rotator beside an auditor that records complete
histories: every grant, every charge, the cool-down last ordered for the key the
caller meant. It states the rotator's properties on these. `KeyPool` is the
abstract specification: keys are available or not by a definition on complete
histories, without windows, cursor or IDs. `RotatorAudit!ImplementsPool` is the
refinement: `keys` maps to the set of members of each pool, the histories to
themselves.

`Gateway` extends `Rotator` by `loadKeyPool` and by request slots that run
`handleChatCompletions`. A slot's program counter stands at the places where
other goroutines can come between: before the body is read, before `GetKey`,
between `GetKey` and `HasKeys`, during the upstream call, during `recordTokens`'
reading of the body, and during the relay. Every rotator call is an action of
`Rotator`. Bodies, headers and status codes are abstracted to what the code
branches on; the answers 413, 400, 502 and 503 all end a request.

`Daemon` models `Start` and the serve command for several processes of a host
that share the socket path and the port; in behaviours with `alone`, chosen at
the start, none is started while another runs. Of `net` and `net/http` it models what
`Start` relies on (external in the map): closing a Unix listener unlinks its
path by name; `Serve` registers its listener, closes it when it returns, and
returns at once if the server is shutting down; `Shutdown` closes registered
listeners, waits for their `Serve` calls, then for connections or the deadline.

`TrimBytes` is the byte loop of one call; `BufferPool` is the sharing of pooled
buffers between concurrent calls, in which a call writes its own name instead of
bytes. Of the JSON that is parsed after the trimming `TrimBytes` knows strings:
where they begin and end, with backslashes that escape quotes, and what may not
stand in them; the digits of `\u` and the grammar outside strings do not change
with white space and are left out. `Classifier` is `Classify` as a function.

`ProviderQueues` is one provider. Each `ProviderQueue` ever made is a
generation; callers, workers, the cleanup goroutine of an update and the
administrative calls each have a program counter, which stands where the code
gives up a lock, blocks, or reads what another goroutine writes. The
compare-and-swap loops on the slice of providers are one step.

`RequestChannels` is how an answer comes back: messages and channels leave their
pools with whatever was left in them, a caller may stop waiting at any step, and
a worker that finds nobody waiting bills the call itself.

`Retries` is `executeRequestWithRetries`, with the outcome of every attempt
free. Its variable `trail` is the attempt trail of the code, with a note of
whether the attempt had waited. `Fallbacks` extends it by the chain of
providers: each try goes through the pre hooks, the queue and the worker, and
what it leaves in the context is state. What the caller has put there is free at
first: a pinned key, a session, a direct key, a skipped selection.

`Plugins` is the list of plugins and what a request does with it. A pipeline
copies the list when it is taken from the pool; how many post hooks it runs is a
number that each call site gets from somewhere else, which `RunFrom` says. One
run over all plugins is one step, as it shares nothing but the pool of log
stores. A request has a trace or not: without one `drainAndAttachPluginLogs`
returns before it drains, and the store stays in the context. A stream retried on the same provider is a matter of `Streams`.

`Streams` is one streaming request with its attempts: the worker that looks at
the first chunk, the provider goroutine (that of OpenAI's text completion) with
its deferred calls, the canceller, the idle timer, the release, the forwarder
and the client. The attempts share the flags of one context, as in the code.
Two paths of that goroutine are left out because no caller reaches them: the
return without a chunk where `postResponseConverter` gives nil
(`openai.go:749`; every call of the function passes a nil converter), and the
large-payload passthrough (`openai.go:543`; its context key is set by tests
only, and `schemas/bifrost.go:354` forbids callers to).

`MCPClients` is one client of the MCP manager under callers, the boot and its
health monitors. A section under a lock is one step, except where it waits for
the other lock. Connections, configurations and monitors are numbers that are
used again when nothing refers to them, as memory is. `Agent` is `executeAgent`.

`MC*` modules define the constants of the runs. Parts that share no state are
checked by one run: `MCIngress`, `MCLibraries`, `MCStreams` and `MCFlow` have a
variable `part` that says which one moves while the others rest. The eight `*Proofs`
modules extend the modules they are about and hold their inductive invariants,
theorems and proofs.

## Runs

| Run | Bounds | Shows |
| --- | --- | --- |
| `ingress` | daemon: 2 processes, one after the other or at any time, 1 request each; gateway: 2 slots, environments with no list, with blanks only and with two keys around a blank; RPM unset, TPM 1, answers of 1 token, cool-downs 2 and 1, clock to 2 | `SocketFollowsDaemon`, `CleanStopCutsNothing`, `SignalEndsProcess`, `PoolNeverBypassed`, `TPMOvershootBounded`, `CoolDownRespected`, `RightKeyCooled`, `EveryRequestAnswered` |
| `libraries` | rotator: 2 keys (one with its own ID and RPM 2; one with a made-up ID, RPM 1, TPM 2), window 1, clock to 3, 5 audited calls; trimmer: all payloads up to 6 bytes over newline, space, tab, quote, backslash and one other byte; 2 callers, 3 buffers, inputs of 1 and 3 bytes, pool cap 2; classifier: lengths on both sides of each threshold, 3 keywords of each kind | `RPMRespected`, `RoundRobin`, `LockoutBounded`, `ImplementsPool`, `TrimExact`, `ValidStaysValid`, `ResultStaysOwn`, `ReasoningIffCritical` |
| `queues` | 2 callers, one of them through `BatchCreateRequest`, 2 administrative calls of any kind, 1 worker per generation, buffer 1, creation may fail | `HandledOnce`, `StoppedIsQuiet`, `AlwaysServed` |
| `channels` | 3 requests, one of them streaming, 2 workers, 3 messages, 3 channels of each kind | `OwnAnswer`, `HookedOnce` |
| `streams` | 3 attempts, 2 chunks of data each, channel buffer 1; queues: 1 caller, 2 calls of `UpdateProvider` or `RemoveProvider` | `BodyClosedOnce`, `EndToldOnce`, `HooksHoldPipeline`, `StreamsEnd`, `BufferedIsAnswered`, `UpdatesReturn` |
| `flow` | a primary with 2 keys and 3 retries, then a keyless fallback, an unknown one, and one with 2 keys and 1 retry, with or without a direct key, a skipped selection allowed at the primary; plugins: a plain and a streaming request of 2 tries, each with or without a trace, 2 plugins, any of them configured at first, 1 change of the list, 1 chunk before the final one, 2 stores; MCP client: 2 callers, 2 calls and the boot, 2 monitors, 3 connections, 3 configurations, 1 failure until a reconnection; agent: depth 3, up to 3 calls per response | `KeysSpared`, `LimitsShared`, `TrailTellsRotations`, `TriedInOrder`, `FallbackStartsClean`, `SelectedKeyServed`, `HooksNest`, `LogsOwn`, `ConnectionsOwned`, `Watched`, `DisabledStays`, `CallsAccounted` |

`gateway_429`, `stream_retry`, `plugin_swap`, `fallback_order`, `mcp_locks` and
`mcp_disable` end in a counterexample; see below.

Why these bounds are enough for the cases of interest. With a window of 1 and a
clock to 3 entries are inside, exactly at and beyond the window's edge, and a
window empties and fills again; 5 audited calls fill the windows of both keys
and go on beyond. Two slots are enough for two answers on one key to cross, for
a grant between a grant and its tokens, and for a tick between any two steps;
the lists stay finite without further bounds because the limits bound them. Two
processes are enough for one to start, fail or stop in any state of the other.
Six bytes hold two runs of three of the same kind and every mixture of shorter
ones; the loop only looks two bytes back. Three buffers let two callers hold one
each while one is pooled or forgotten. With a buffer of 1 and two callers a
queue is full, empty and blocked on; `MaxGen` never binds, as there is at most
one generation to begin with, one per caller and one per update. Three requests
over three messages recycle a message while another is abandoned. Three retries
on two keys are enough for a whole round and the beginning of the next. Three
attempts of a stream are a first one, a retry and a fallback; a buffer of 1 and
two chunks fill the channel. Two calls and the boot make three operations on one
client meet.

Symmetry is used for callers and buffers (`libraries`), callers, administrative
calls and workers (`queues`), requests of one kind, workers and messages
(`channels`): runs without liveness. Deadlock is checked in `ingress` and
`queues`; elsewhere the work ends.

### Fairness

`FairGatewaySpec` assumes weak fairness of the handler of each slot: the Go
scheduler runs goroutines, and a call upstream ends, by an answer or by an error
of the transport. The second half is an assumption on the network: the code sets
no timeout on the call. Nobody has to send a request. `FairDaemonSpec` assumes
that the goroutines of a process are scheduled and that the timer of `Shutdown`
fires; requests need not end. `FairSpec` of `ProviderQueues` assumes that
callers, workers, cleanup goroutines and administrative calls that have begun go
on; a worker's call ends because the HTTP client of a provider has a timeout.
`FairStreamSpec` assumes that goroutines run, that timers fire, and that a client
who is offered a chunk takes it or leaves. It obliges the upstream to nothing;
draining a body that the upstream does not end is excluded from `StreamsEnd`,
because nothing in the code ends it either. `MCIngress` and `MCStreams` repeat
these assumptions for the part that moves.

### What the code does not do

Six runs end in a counterexample to what the repository says:

- `gateway_429`: two requests are in flight on a key; a 429 cools it for 30 s,
  the 5xx of the other overwrites the deadline with 10 s. `Cooldown429` is
  documented as the cool-down on 429. What does hold is `CoolDownRespected`: the
  cool-down of the *last* failure is respected.
- `stream_retry`: the mark of a stream's end, set by an error in the first chunk,
  survives into the retry, in which every chunk then counts as the final one
  (`bifrost.go:6255`). What does hold, `EndToldOnce` and `HooksHoldPipeline`, is
  about attempts that began without the mark.
- `plugin_swap`: the number of post hooks is the length of the list of plugins
  when the caller begins to wait, not the number of pre hooks that ran. Two
  plugins have seen a request; the first is removed before the request is sent;
  the first then gets the one post hook, and the second, which is still
  registered, gets none. `HooksNest` says what holds all the same.
- `fallback_order`: `prepareFallbackRequest` (`bifrost.go:4921`) has no case for
  image edits and variations, so their fallbacks go to the primary again, under
  the primary's name. `TriedInOrder`, each fallback in order and under its own
  name, holds of the other kinds, for which `flow` checks it.
- `mcp_locks`: `StartMonitoring` takes the lock of the monitors and then the
  manager's (`healthmonitor.go:314` and `77`), a removal or disabling the other
  way round (`clientmanager.go:732` and `792`). The boot and a removal wait for
  each other for ever.
- `mcp_disable`: an `AddClient` that is still connecting when its client is
  disabled fails and deletes the entry (`clientmanager.go:382`), which
  `DisableClient` promises to keep; the boot then puts the client back, enabled
  and with a monitor. `DisabledStays` says what holds while no `AddClient` is
  under way.

Other things met while modelling, which the properties leave room for:

- Requests in flight may exceed the tokens per minute, as tokens are known only
  afterwards; `TPMOvershootBounded` says by how much. `Start` removes the socket
  of a process that is serving, even if it then fails on the port, hence `alone`.
  A raw tab in a JSON string becomes a space before validation; `ValidStaysValid`
  is about the other direction. Nor does it say that a trimmed string is the one
  that was sent: runs of spaces inside strings are trimmed as well.
- `bifrost.go:5418`: a send between the check of `isClosing` and the last sweep's
  end is answered by nobody. An update cancels buffered requests when the new
  queue is full, and may answer a request as closing although the provider
  stays. `Shutdown` (8674) ranges over queues without the lock under which they
  are created; a provider prepared meanwhile keeps its workers, or keeps
  `Shutdown` waiting. A provider whose creation fails leaves a queue without
  workers (4410).
- A call that is abandoned at the right moment is billed by nobody (6992). A
  request that is dropped before the queue gets no post hooks, and its logs stay
  in its context's store. The error of a stream's first chunk passes the post
  hooks in the worker and again in `tryStreamRequest` (5809). `ReloadPlugin`'s
  comment speaks of a lock, but `Cleanup` runs while pipelines still use the
  instance. The log store of a retried stream goes to the pool at every chunk
  while scoped contexts keep it.
- `clearCtxForFallback` does not clear a direct key (`utils.go:344`), while
  `ClearContextForInternalRequest` does (`utils.go:362`): a fallback is asked with
  the key that the caller gave for the primary. `FallbackStartsClean` has it so,
  as no doc says whose key it is. Without a trace the entries that plugins log
  stay in the request's context, for the next request on it (7959); `LogsOwn`
  says that they are in no other. A try that was answered and whose answer a post
  hook turned into an error leaves its key as the selected one.
- The release of a stream drains its body with neither timer nor canceller
  (`providers/utils/utils.go:3229`).
- `AddClient`, the boot's too, takes no guard against others (`overlap`); an
  attempt that ends late can bring a removed client back (`stray`); a refused
  `EnableClient` leaves `Disabled` false; `AddClient` deletes the entry on failure although its
  comment says that it is retained. The periodic sync of tools, which is not
  modelled, writes what it has fetched to whatever client then has the ID
  (`toolsync.go:152`): a disabled one, whose tools the filter hides, or one that
  was connected anew.
- Two executed calls of one tool overwrite each other's result in the response
  that the agent composes (`agentadaptors.go:206`), at the greatest depth the
  last calls are returned unexecuted, and a missing credential discards the
  results of the other tools.

## Proofs

TLC checks small instances; the theorems hold for every value of the constants:
any number of keys, requests, workers, generations, attempts, plugins, clients.
Each theorem about a property rests on an inductive invariant: it holds at first
and every step keeps it. All of them were checked by TLC, on the instances of the
runs, before they were proved. There is a lemma for each action and below it a
step for each part of the invariant that the action can disturb.

`RotatorProofs` (`RotatorAudit`):

- `RotatorTyped`: `RotatorSpec => []RotatorTypeOK`. The cursor needs that
  `NextIdx` is a remainder of the pool's length, and that `AddKey` only makes a
  pool longer.
- `AuditIsRotator`: `AuditSpec => RotatorSpec`; the auditor only watches.
- `RPMHolds`: `AuditSpec => []RPMRespected`. `RPMRespected` is not inductive: it
  says nothing of `requestTimes`, by which `GetKey` decides. The inductive
  invariant `RPMInv` adds that the request window of a limited key is the end of
  its history of grants (`EndOf`), that what is missing at its front is older
  than the window, and that it is no longer than the limit. The lemmas
  `EndPruned`, `EndAppended` and `EndLater` are the three things that happen to
  a window; `GrantKeepsSpaced` is the step that matters: fewer than RPM entries
  are left, so the grant RPM entries back has been pruned as too old.
- `KeysTakeTurns`: `AuditSpec => []RoundRobin`. How often a key was passed over
  and how many rounds of the scan come before it (`Distance`) make less than a
  round (`Turns`): a grant brings every key it does not reach nearer by at least
  one, and all that it comes past were not healthy. Keys are in one place of one
  pool (`Separate`).
- `PoolImplemented`: `AuditSpec => ImplementsPool`, the refinement of the
  abstract pool. `AgreeInv` says that an ID leads to one key of a pool
  (`Identified`), so that the cool-down in force is the one ordered, and that
  grants are recorded in the order of time (`Ascending`), so that what is behind
  the first live entry is live too. `TokensAgree` says that the tokens of the
  pruned window are those of the recent charges, although the two sums are over
  different index sets; it follows from `ChargesInv`, by which the token window
  is what is left of the complete list of charges when its old front is dropped
  (`LeftOf`). `PoolStep` maps each action to its abstract one.
- `KeysRecover`: `RotatorSpec => []LockoutBounded`, whoever calls the rotator.
  `RecoveryInv` adds that no entry of a window lies in the future and that no
  cool-down ends later than the longest one from now; after that time all
  windows are pruned empty.

These rest on lemmas about pruning (`PruneTokensLeft`, `UsedOfLeft`, `UsedLater`)
and about sums (`SumOfAny`, `SumOfEnd`, `SumShifted`). The sums of the
community modules are folds over sets, defined by recursion. The provers cannot
instantiate a schema of induction, so `AllNaturals` and `AllFiniteSets` state it
for a *set* of numbers, or of sets, that is closed under the induction step, and
follow from a least counterexample; with these `SumsExist` shows that the
recursion has a solution and `SumsAgree` that all solutions agree.

`LibraryProofs` (`BufferPool`, `TrimBytes`, `Classifier`):

- `ResultsKept` (`BufferSpec => []ResultStaysOwn`), `PoolKeepsCap`
  (`[]PoolBounded`) and `BuffersTyped` (`[]BufferTypeOK`). None is inductive: a
  result could be overwritten, or a pooled buffer grow, through a second user of
  its memory. The invariant `BufferInv` adds `Exclusive` (a buffer that a call
  holds is neither pooled nor held by another call), that results live in memory
  of their callers, and that during the loop the buffer holds the call's own
  bytes, within the capacity that `Grow` has reserved.
- `TrimmedExactly` (`TrimSpec => []TrimExact`) and `TrimmedStaysValid`
  (`[]ValidStaysValid`), for payloads of any length over any bytes. Both are
  stated when the loop has ended; `TrimInv` says what holds after i bytes. The
  two variables `lastWasSpace` and `newlineCount` tell the same of what was read
  and of what was written (`Flags`), so that what the loop decides by them is
  what `Keep` decides by the bytes before (`KeepByFlags`); a byte is escaped in
  the result if and only if it is in the input, since what is dropped stands
  behind white space and runs of backslashes stay as they are (`EscapedNext`);
  and the quotes before a byte that are not escaped are as many in the result as
  in the input (`Quotes`), so that a byte is inside a string in both or in
  neither.
- `TierAgrees` (`ClassifierSpec => []ReasoningIffCritical`), for any keywords.

`IngressProofs` (`Gateway`, `Daemon`):

- `PoolKept` (`[]PoolNeverBypassed`), `CoolDownKept` (the action property
  `CoolDownRespected`) and `RightKeyIsCooled` (`RightKeyCooled`), from
  `PathInvariant`. `PathInv` adds `Numbered`: keys have the IDs of their places,
  so the ID by which `MarkCoolDown` searches is that of one key (`PoolNamedIsMeant`),
  and how far the list was read (`Loaded`); `Served`: nobody is served before the
  pool is complete, and a handler's key is one of it; `InForce`: the cool-down
  that was ordered last is in force or over.
- `GatewayUsesRotator`: `GatewaySpec => RotatorSpec`. The handlers call the
  rotator only as `Rotator` allows for: `recordTokens` runs only where a key of
  the pool was used (`Buffered`), and the cool-downs are the configured ones. So
  the rotator's theorems hold of the gateway, as `GatewayKeysRecover`
  (`GatewaySpec => []LockoutBounded`) shows.
- `OvershootBounded`: `GatewaySpec => []TPMOvershootBounded`, for any number of
  slots. With the invariants above and `Positive` (no recorded count is negative,
  so that pruning and time only take away from a window's sum) the bound is
  inductive: a request comes into flight only with a key that is below its limit
  (`FlightMoves`), and then at most all slots are in flight; a charge takes the
  place of the request that brings it (`WindowSums`).
- `CleanStops` (`[]CleanStopCutsNothing`) and `SocketFollows`
  (`[]SocketFollowsDaemon`), from `DaemonInvariant`. Neither says where the
  goroutines of a process are; `DaemonInv` does, for a start (`Launching`), a
  stop (`Stopping`), the port and listener (`Linked`) and the path while one
  process runs at a time (`Single`).

`RequestChannelsProofs` (`RequestChannels`): `AnswersOwn` (`[]OwnAnswer`) and
`HooksOnce` (`[]HookedOnce`), from `ChannelsInvariant`. Both would fail if a
message or a channel were recycled while somebody has it. `ChannelsInv` says that
a channel is in its pool or with one message (`PlacedOnce`), that a request has
one message, with nobody else's answer in its channels (`Owned`), what a caller
has while it waits (`Awaited`), and that a message that a queue or a worker has
is unanswered (`HandedOver`).

`ProviderQueuesProofs` (`ProviderQueues`): `MessagesHandledOnce`
(`[]HandledOnce`), `StoppedQuietly` (`[]StoppedIsQuiet`) and
`ProviderAlwaysServed` (`[]AlwaysServed`), from `QueuesInvariant`. `QueueInv`
says who holds which lock (`Locked`), that a message is in one queue or with one
worker (`Placed`) and unanswered there (`Pending`), which generation an
administrative call works on (`Aimed`), which generations still have workers or a
cleanup to come (`Followed`), and when the current one is open (`Open`). The
locks are what makes it inductive: without them two calls could move the same
buffer.

`StreamsProofs` (`Streams`): `BodiesClosedOnce` (`[]BodyClosedOnce`),
`EndsToldOnce` (`[]EndToldOnce`) and `HooksKeepPipeline`
(`[]HooksHoldPipeline`), from `StreamsInvariant`. The flags belong to the request
and not to an attempt, so `StreamInv` needs that attempts follow each other
(`Sequential`), then tells for each attempt what the flags mean at each place of
its goroutine: whether its body is closed (`BodyOK`) and its end told (`EndOK`).

`FlowProofs` (`Fallbacks`, `Retries`, `Plugins`):

- `DeadKeysSpared` (`[]KeysSpared`), `RotationsTold` (`[]TrailTellsRotations`)
  and `RateLimitsShared` (`[]LimitsShared`). `LoopInv` relates the loop to its
  trail: where it stands (`Position`), that denied keys are the dead ones
  (`Recorded`), and that in a round every live key was limited equally often,
  those already used once more (`Round`). `LimitsShared` speaks of counts, which
  lemmas about the cardinality of a set of places carry through `Append`.
- `FallbacksStartClean` (`[]FallbackStartsClean`), `SelectedKeysServed`
  (`[]SelectedKeyServed`) and `FallbacksInOrder`
  (`[](type = "chat" => TriedInOrder)`, "chat" for the kinds that
  `prepareFallbackRequest` renames).
  `FlowInvariant` adds to `LoopInv` how the caller's and the worker's places
  agree (`Stages`), what narrows the keys (`Narrowed`) and whose key the context
  names (`KeyTold`); `Ordered` says how far into the list a request is.
- `PostHooksNest` (`[]HooksNest`) and `LogsStayOwn` (`[]LogsOwn`), from
  `PluginInvariant`: a store has one owner (`Owned`), a traced request that has
  ended has none (`Drained`), and a pipeline is what the list was at its pre hooks (`Nested`).

`MCPProofs` (`MCPClients`, `Agent`):

- `EveryCallAccounted` (`[]CallsAccounted`), from `AgentInvariant`. Results come
  in any order, so `AgentInv` says for each place of the loop which calls of the
  last turn have their result in the conversation and which are still out
  (`Looping`, `Executing`, `Deciding`, `Ended`).
- `NoConnectionLeaks` (`[]ConnectionsOwned`), `ClientWatched` (`[]Watched`) and
  `DisabledIsKept` (the action property `DisabledStays`), from
  `ClientsInvariant`. `ClientsInv` says what goes with an attempt (`Paired`), who
  has the manager's lock (`Locked`) and the guard (`OneTakes`), that without
  `overlap` an unguarded operation is alone (`Alone`), which configuration an
  attempt works for (`Aimed`), whose the open connections are (`Connected`) and
  that the client's monitor runs or somebody will start one (`Minded`).

Trying to prove `DisabledStays` showed that the history variable `overlap` was
wrong, in a case beyond the bounds of the run. With three callers, an
`AddClient` under way can be met by the boot, which finds the entry and will put
it back; the client is removed, put back, disabled, and the attempt of
`AddClient` then connects it. `overlap` is to tell that `AddClient` met another
operation, and did not here; now it does, and TLC confirms the invariant with
three callers and three calls (1.4 million states).

Assumed of the constants is only what the modules state in `RotatorAssumption`,
`AuditAssumption`, `BufferAssumption`, `TrimAssumption`, `ClassifierAssumption`,
`GatewayAssumption`, `DaemonAssumption`, `ChannelAssumption`, `QueueAssumption`,
`StreamAssumption`, `RetryAssumption`, `FallbackAssumption`, `PluginAssumption`,
`AgentAssumption` and `MCPAssumption`: types, finite sets, limits that are
numbers, names that do not collide, that the keys of a list in the environment
have the IDs of their places in it, and that some answer may report a number of
tokens that is not negative. TLC evaluates each of them. `FirstLive` and the
choice of a free number are minima, so `RotatorProofs` and `MCPProofs` derive
from the well-foundedness of the naturals that they exist.

Only model-checked: liveness (`EveryRequestAnswered`, `SignalEndsProcess`,
`BufferedIsAnswered`, `UpdatesReturn`, `StreamsEnd`), which is beyond TLAPS, as is
`ENABLED`, which `NobodyStuck` speaks of. Every other property of a passing run is
also a theorem.

## Plan

1. Done: NerveGate itself (rotator, auditor, abstract pool, request path,
   lifecycle, trimmer, classifier), and the stateful parts of the Bifrost core
   (queues, channels, retries, fallbacks, plugins, streams, MCP clients, agent).
2. Done: proofs of all safety properties that the passing runs check, of the
   refinement of the abstract pool, and of the gateway as a caller of the rotator.
3. Model, where the bounds of a run leave room: the tool maps of MCP clients and
   their periodic sync; clients with per-user authentication; the hooks around
   MCP calls.

## Not modelled

Most lines of the repository convert between formats. The two dozen provider
packages of the core (`bifrost_core/providers`) map requests and answers between
the core's types and a vendor's JSON, field by field, and make one HTTP call
each; `bifrost_core/schemas` holds those types, their JSON forms and conversions
between them. They keep no state from one call to the next, and a model of a
field mapping would be the mapping again. What they share of control, in
streams, is in `Streams`. The models therefore cover what the repository
has of state and concurrency, which is a few percent of its lines.

Further left out: the scenarios and mocks under `internal` (tests); the weights
of the key selector (any candidate may be chosen); the cancellation tree of
`BifrostContext` (that a context ends is an action of its own wherever it is
waited for); the filters of MCP tools, their execution, the interpreter of code
mode, the credential store; HTTP clients, TLS and logging.

Of NerveGate the command line, the health endpoint, the formatting of metadata
headers and the text of classification reasons have no state. TLS, HTTP framing
and the upstream itself are external. The keyword search of the classifier and
the JSON grammar beyond strings and their escapes are abstracted.
