----------------------------- MODULE Fallbacks ------------------------------
(***************************************************************************)
(* handleRequest and handleStreamRequest of pkg/bifrost_core/bifrost.go:   *)
(* one request to its primary provider and then to its fallbacks.  A try is*)
(* tryRequest: plugins, the queue, and a worker that builds a key pool and *)
(* runs Retries.                                                           *)
(***************************************************************************)
EXTENDS Retries

CONSTANTS
  Primary, Fallback,  \* the request's provider and its sequence of fallbacks
  Configured,         \* the providers that GetConfigForProvider knows
  RetriesOf,          \* [provider -> MaxRetries]
  KeysOf,             \* [provider -> SUBSET Key], {} for one that needs no key
  DirectKeys,         \* raw keys that callers bring along
  Skippable,          \* the providers that isKeySkippingAllowed lets do without a key
  Type                \* kinds of request that are made

ASSUME FallbackAssumption ==
  /\ Type \subseteq {"chat", "imageEdit"} /\ DirectKeys \subseteq Key
  /\ Fallback \in Seq({Fallback[i] : i \in DOMAIN Fallback})
  /\ \A p \in Configured \cup {Primary} : RetriesOf[p] \in MaxRetries /\ KeysOf[p] \subseteq Key

VARIABLES
  stage,   \* "start", "try", "worker", "decide", "skip" or "done"
  type,    \* the kind of request
  index,   \* BifrostContextKeyFallbackIndex
  at,      \* the provider that the request of this try names
  pin,     \* BifrostContextKeyAPIKeyID, NoKey when it is not set
  session, \* a session ID and a KV store make the first try's key sticky
  direct,  \* BifrostContextKeyDirectKey, NoKey when it is not set
  skip,    \* BifrostContextKeySkipKeySelection
  whole,   \* the caller's request still has its encrypted reasoning
  ctxDone,
  gone,    \* the caller has stopped waiting for the worker
  end,     \* how this try ended: "ok", "error", "final", "cancelled"
  tries,   \* what was tried, how it ended, and whether a worker had an answer
  result   \* the try whose answer or error was returned, 0 for none

callVars == <<type, session, direct, skip, ctxDone>>
flowVars == <<stage, index, at, pin, whole, gone, end, tries, result>>

FlowInit ==
  /\ RetryInit
  /\ stage = "start" /\ type \in Type /\ index = 0 /\ at = Primary
  /\ pin \in KeysOf[Primary] \cup {NoKey} /\ session \in BOOLEAN /\ whole = encrypted
  /\ direct \in DirectKeys \cup {NoKey} /\ skip \in BOOLEAN
  /\ ctxDone = FALSE /\ gone = FALSE /\ end = "none" /\ tries = <<>> /\ result = 0

\* PreRequestHooks have run; a request that names no provider ends here.
Start ==
  /\ stage = "start"
  /\ stage' \in {"try", "done"}
  /\ UNCHANGED <<retryVars, callVars, index, at, pin, whole, gone, end, tries, result>>

----------------------------------------------------------------------------
(* One try.                                                                *)

\* An answer, an error that allows fallbacks or one that does not, as a plugin likes.
Plugin == {"ok", "error", "final"}

\* newBifrostCtxDoneError: neither a cancelled nor an expired request falls back.
CtxDoneError == {"cancelled", "final"}

\* A plugin short-circuits, or the queue does not take the request.
Refused ==
  /\ stage = "try" /\ stage' = "decide"
  /\ end' \in IF ctxDone THEN Plugin \cup CtxDoneError ELSE Plugin
  /\ UNCHANGED <<retryVars, callVars, index, at, pin, whole, gone, tries, result>>

(* The keys that a request may use at p: none at a provider without keys,  *)
(* the direct key before all others, none where the selection is skipped.  *)
KeysFor(p) ==
  IF KeysOf[p] = {} \/ (direct = NoKey /\ skip /\ p \in Skippable) THEN {}
  ELSE IF direct # NoKey THEN {direct}
  ELSE KeysOf[p]

Pinned == pin # NoKey /\ direct = NoKey

Pool(m, keys) == [mode |-> m, keys |-> keys]

\* Mutant of Pools: the session also fixes the key of a fallback.
PoolsAlwaysSticky ==
  LET keys == KeysFor(at) IN
  IF keys = {} THEN {Pool("none", {})}
  ELSE IF Pinned THEN {Pool("fixed", {pin} \cap keys)}
  ELSE IF Cardinality(keys) = 1 \/ session THEN {Pool("fixed", {k}) : k \in keys}
  ELSE {Pool("rotating", keys)}

\* What selectKeyFromProviderForModelWithPool may return.
Pools ==
  LET keys == KeysFor(at) IN
  IF keys = {} THEN {Pool("none", {})}
  ELSE IF Pinned THEN {Pool("fixed", {pin} \cap keys)}
  ELSE IF Cardinality(keys) = 1 \/ (session /\ index = 0) THEN {Pool("fixed", {k}) : k \in keys}
  ELSE {Pool("rotating", keys)}

\* A worker takes the request; a pinned key that is not there is an error.
Dispatch ==
  /\ stage = "try"
  /\ \E p \in Pools :
       IF p.mode = "fixed" /\ p.keys = {}
       THEN stage' = "decide" /\ end' \in Plugin /\ UNCHANGED retryVars
       ELSE stage' = "worker" /\ Begin(p.mode, p.keys, RetriesOf[at]) /\ UNCHANGED end
  /\ UNCHANGED <<callVars, index, at, pin, whole, gone, tries, result>>

\* The primary's try works on the caller's request itself, a fallback on a copy.
Work ==
  /\ RetryNext /\ whole' = IF index = 0 THEN encrypted' ELSE whole
  /\ UNCHANGED <<callVars, stage, index, at, pin, gone, end, tries, result>>

\* The worker's answer, as the post hooks leave it or change it.
Receive ==
  /\ stage = "worker" /\ rpc = "done" /\ stage' = "decide"
  /\ end' \in Plugin \cup {IF outcome \in {"ok", "cancelled"} THEN outcome ELSE "error"}
  /\ UNCHANGED <<retryVars, callVars, index, at, pin, whole, gone, tries, result>>

\* The worker goes on by itself.
GiveUp ==
  /\ stage = "worker" /\ ctxDone /\ stage' = "decide" /\ gone' = TRUE /\ end' \in CtxDoneError
  /\ UNCHANGED <<retryVars, callVars, index, at, pin, whole, tries, result>>

CtxDone ==
  /\ ~ctxDone /\ stage # "done" /\ ctxDone' = TRUE
  /\ UNCHANGED <<retryVars, flowVars, type, session, direct, skip>>

----------------------------------------------------------------------------
(* Between tries.                                                          *)

\* Mutant of Halts: an error that forbids fallbacks is not told apart.
HaltsOnCancelOnly(o) == o \in {"ok", "cancelled"}

\* shouldTryFallbacks and shouldContinueWithFallbacks.
Halts(o) == o \in {"ok", "cancelled", "final"}

Tried == Append(tries, [at |-> at, end |-> end, served |-> outcome = "ok"])

\* The try that decides, or the primary's when all have failed.
Returned == IF Halts(end) THEN Len(tries) + 1 ELSE 1

Stop ==
  /\ stage = "decide" /\ (Halts(end) \/ index = Len(Fallback))
  /\ tries' = Tried /\ stage' = "done"
  /\ result' = Returned
  /\ UNCHANGED <<retryVars, callVars, index, at, pin, whole, gone, end>>

\* prepareFallbackRequest names the fallback in the kinds of request it copies.
Rewritten(p) == IF type = "imageEdit" THEN Primary ELSE p

\* clearCtxForFallback; the direct key and the skipped selection stay.
Cleared == [pin |-> NoKey, trail |-> <<>>]

\* The next fallback; one without configuration is passed over.
GoOn ==
  /\ \/ stage = "decide" /\ ~Halts(end) /\ tries' = Tried
     \/ stage = "skip" /\ UNCHANGED tries
  /\ index < Len(Fallback) /\ index' = index + 1
  /\ pin' = Cleared.pin /\ trail' = Cleared.trail /\ encrypted' = whole /\ Leave
  /\ IF Fallback[index + 1] \in Configured
     THEN stage' = "try" /\ at' = Rewritten(Fallback[index + 1])
     ELSE stage' = "skip" /\ UNCHANGED at
  /\ UNCHANGED <<callVars, filtering, selected, whole, gone, end, result>>

\* The last fallbacks were passed over: the primary's error.
Exhausted ==
  /\ stage = "skip" /\ index = Len(Fallback)
  /\ stage' = "done" /\ result' = 1
  /\ UNCHANGED <<retryVars, callVars, index, at, pin, whole, gone, end, tries>>

FlowNext ==
  \/ Start \/ Refused \/ Dispatch \/ Work \/ Receive \/ GiveUp \/ CtxDone
  \/ Stop \/ GoOn \/ Exhausted

FlowSpec == FlowInit /\ [][FlowNext]_<<retryVars, callVars, flowVars>>

----------------------------------------------------------------------------
\* How many of the first n fallbacks have a configuration.
Known(n) == Cardinality({j \in 1..n : Fallback[j] \in Configured})

(* "It will try each fallback provider in order until one succeeds", "All  *)
(* providers failed, return the original error": the providers that were   *)
(* tried are those of the request, in its order, each under its own name,  *)
(* none after a success, a cancelled request or an error that allows no    *)
(* fallbacks; the request fails with the primary's error only when all     *)
(* were tried in vain, and otherwise ends as its last try did.             *)
TriedInOrder ==
  /\ \A i \in DOMAIN tries :
       /\ i = 1 => tries[i].at = Primary
       /\ i > 1 => \E j \in DOMAIN Fallback :
            Fallback[j] \in Configured /\ Known(j) = i - 1 /\ tries[i].at = Fallback[j]
       /\ i < Len(tries) => tries[i].end = "error"
  /\ stage = "done" /\ tries # <<>> =>
       IF tries[Len(tries)].end = "error"
       THEN result = 1 /\ Len(tries) = Known(Len(Fallback)) + 1
       ELSE result = Len(tries)

(* A fallback starts without what was chosen for the primary: a key that   *)
(* the caller pinned, or that a session made sticky, does not narrow its   *)
(* keys, and the trail is of the provider that was tried last, although a  *)
(* provider without keys does not restart it.  What clearCtxForFallback    *)
(* does not clear is in force at a fallback too: a skipped selection where *)
(* the provider allows it, and a direct key, whoever's it is, next to which*)
(* no registered key is ever used.                                         *)
FallbackStartsClean ==
  IF direct = NoKey
  THEN /\ stage = "worker" /\ at # Primary /\ ~(skip /\ at \in Skippable) => pool = KeysOf[at]
       /\ \A i \in DOMAIN trail : trail[i].key \in KeysOf[at]
  ELSE pool \subseteq {direct} /\ \A i \in DOMAIN trail : trail[i].key = direct

(* "selected_key is populated only on a successful response": when the     *)
(* request has ended, the key in its context is the direct key or one of a *)
(* provider, whose worker had an answer with it.                           *)
SelectedKeyServed ==
  stage = "done" /\ ~gone /\ selected # NoKey =>
    \E i \in DOMAIN tries :
      /\ tries[i].served
      /\ selected \in IF direct # NoKey THEN {direct} ELSE KeysOf[tries[i].at]
=============================================================================
