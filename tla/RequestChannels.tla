-------------------------- MODULE RequestChannels ---------------------------
(***************************************************************************)
(* The pooled messages of pkg/bifrost_core/bifrost.go: a request borrows a *)
(* ChannelMessage and its Response, Err and ResponseStream channels, hands *)
(* the message to a worker, waits for the answer and returns everything to *)
(* the pools, unless it stops waiting.  What a channel holds is named after*)
(* the request it was made for.  Queues are the subject of ProviderQueues. *)
(***************************************************************************)
EXTENDS Naturals, FiniteSets

CONSTANTS
  Request,   \* calls of tryRequest and tryStreamRequest
  Streaming, \* the second kind
  Worker,
  Msg,       \* ChannelMessages ever made
  Chan,      \* channels ever made, of each of the three kinds
  None

ASSUME ChannelAssumption ==
  Streaming \subseteq Request /\ None \notin Request \cup Msg \cup Chan

Kind == {"Response", "Err", "ResponseStream"}

VARIABLES
  msgPool,    \* channelMessagePool
  chanPool,   \* [Kind -> SUBSET Chan]: the three channel pools
  owner,      \* [Msg -> Request or None]: msg.BifrostRequest and msg.Context
  ends,       \* [Msg -> [Kind -> Chan or None]]: the channels of a message
  chan,       \* [Kind -> [Chan -> Request or None]]: what the one slot holds
  queue,      \* messages in pq.queue, in no particular order
  hold,       \* [Worker -> Msg or None]: the worker's req
  pc,         \* [Request -> ...]
  mine,       \* [Request -> Msg or None]: the caller's msg
  ctxDone,    \* [Request -> BOOLEAN]
  got,        \* [Request -> Request or None]: whose answer the caller received
  hooks       \* [Request -> Nat]: runs of the post hooks, which bill and log

poolVars == <<msgPool, chanPool, owner, ends, chan>>
vars == <<poolVars, queue, hold, pc, mine, ctxDone, got, hooks>>

NoChannels == [k \in Kind |-> None]

Init ==
  /\ msgPool = Msg /\ chanPool = [k \in Kind |-> Chan]
  /\ owner = [m \in Msg |-> None] /\ ends = [m \in Msg |-> NoChannels]
  /\ chan = [k \in Kind |-> [c \in Chan |-> None]]
  /\ queue = {} /\ hold = [w \in Worker |-> None]
  /\ pc = [r \in Request |-> "new"] /\ mine = [r \in Request |-> None]
  /\ ctxDone = [r \in Request |-> FALSE] /\ got = [r \in Request |-> None]
  /\ hooks = [r \in Request |-> 0]

----------------------------------------------------------------------------
(* The caller.                                                             *)

\* A choice of free channels: ResponseStream for streaming requests only.
Picks(r) ==
  {p \in [Kind -> Chan \cup {None}] :
     \A k \in Kind : IF k = "ResponseStream" /\ r \notin Streaming
                     THEN p[k] = None ELSE p[k] \in chanPool[k]}

\* The channels p with nothing in them.
Drained(p) == [k \in Kind |-> [c \in Chan |-> IF c = p[k] THEN None ELSE chan[k][c]]]

\* getChannelMessage: any free message and channels, emptied.
Acquire(r) ==
  /\ pc[r] = "new" /\ pc' = [pc EXCEPT ![r] = "acquired"]
  /\ \E m \in msgPool, p \in Picks(r) :
       /\ msgPool' = msgPool \ {m} /\ chanPool' = [k \in Kind |-> chanPool[k] \ {p[k]}]
       /\ chan' = Drained(p) /\ ends' = [ends EXCEPT ![m] = p]
       /\ owner' = [owner EXCEPT ![m] = r] /\ mine' = [mine EXCEPT ![r] = m]
  /\ UNCHANGED <<queue, hold, ctxDone, got, hooks>>

\* releaseChannelMessage: channels emptied and returned, the message cleared.
Release(m) ==
  /\ chan' = Drained(ends[m])
  /\ chanPool' = [k \in Kind |-> chanPool[k] \cup ({ends[m][k]} \ {None})]
  /\ owner' = [owner EXCEPT ![m] = None] /\ ends' = [ends EXCEPT ![m] = NoChannels]
  /\ msgPool' = msgPool \cup {m}

\* The queue took the message.
Send(r) ==
  /\ pc[r] = "acquired" /\ pc' = [pc EXCEPT ![r] = "wait"]
  /\ queue' = queue \cup {mine[r]}
  /\ UNCHANGED <<poolVars, hold, mine, ctxDone, got, hooks>>

\* It did not: closing, full, or the context is done.
SendFails(r) ==
  /\ pc[r] = "acquired" /\ pc' = [pc EXCEPT ![r] = "done"]
  /\ Release(mine[r]) /\ mine' = [mine EXCEPT ![r] = None]
  /\ UNCHANGED <<queue, hold, ctxDone, got, hooks>>

\* An answer arrives: post hooks, except for a stream, which runs its own, then release.
Receive(r, k) ==
  LET c == ends[mine[r]][k] IN
  /\ pc[r] = "wait" /\ c # None /\ chan[k][c] # None
  /\ pc' = [pc EXCEPT ![r] = "done"] /\ got' = [got EXCEPT ![r] = chan[k][c]]
  /\ hooks' = IF k = "ResponseStream" THEN hooks ELSE [hooks EXCEPT ![r] = @ + 1]
  /\ Release(mine[r]) /\ mine' = [mine EXCEPT ![r] = None]
  /\ UNCHANGED <<queue, hold, ctxDone>>

\* Mutant of StopWaiting: only the channels go back to their pools.
StopWaitingPoolsChannels(r) ==
  /\ pc[r] = "wait" /\ ctxDone[r] /\ pc' = [pc EXCEPT ![r] = "done"]
  /\ chanPool' = [k \in Kind |-> chanPool[k] \cup ({ends[mine[r]][k]} \ {None})]
  /\ mine' = [mine EXCEPT ![r] = None]
  /\ UNCHANGED <<msgPool, owner, ends, chan, queue, hold, ctxDone, got, hooks>>

\* ctx.Done() while waiting: the message leaks, on purpose.
StopWaiting(r) ==
  /\ pc[r] = "wait" /\ ctxDone[r] /\ pc' = [pc EXCEPT ![r] = "done"]
  /\ mine' = [mine EXCEPT ![r] = None]
  /\ UNCHANGED <<poolVars, queue, hold, ctxDone, got, hooks>>

Cancel(r) ==
  /\ ~ctxDone[r] /\ pc[r] # "done" /\ ctxDone' = [ctxDone EXCEPT ![r] = TRUE]
  /\ UNCHANGED <<poolVars, queue, hold, pc, mine, got, hooks>>

----------------------------------------------------------------------------
(* The worker, which knows the request only through its message.           *)

Take(w) ==
  /\ hold[w] = None
  /\ \E m \in queue : hold' = [hold EXCEPT ![w] = m] /\ queue' = queue \ {m}
  /\ UNCHANGED <<poolVars, pc, mine, ctxDone, got, hooks>>

\* A value for the request goes into the message's channel of kind k, if it is empty.
Put(m, k) ==
  /\ ends[m][k] # None /\ chan[k][ends[m][k]] = None
  /\ chan' = [chan EXCEPT ![k][ends[m][k]] = owner[m]]
  /\ UNCHANGED <<msgPool, chanPool, owner, ends>>

\* No usable key: an error without a select, and no provider is called.
RefuseKey(w) ==
  /\ hold[w] # None /\ hold' = [hold EXCEPT ![w] = None] /\ Put(hold[w], "Err")
  /\ UNCHANGED <<queue, pc, mine, ctxDone, got, hooks>>

\* What a provider's result or error is sent through.
Outcome(r) == {"Err", IF r \in Streaming THEN "ResponseStream" ELSE "Response"}

Answer(w, k) ==
  LET m == hold[w] IN
  /\ m # None /\ k \in Outcome(owner[m])
  /\ hold' = [hold EXCEPT ![w] = None]
  /\ Put(m, k)
  /\ UNCHANGED <<queue, pc, mine, ctxDone, got, hooks>>

\* Mutant of Abandon: the value is left in the channel too.
AbandonSendsToo(w, k) ==
  LET m == hold[w]  r == owner[m] IN
  /\ m # None /\ k \in Outcome(r) /\ ctxDone[r]
  /\ hold' = [hold EXCEPT ![w] = None]
  /\ hooks' = IF r \in Streaming THEN hooks ELSE [hooks EXCEPT ![r] = @ + 1]
  /\ Put(m, k)
  /\ UNCHANGED <<queue, pc, mine, ctxDone, got>>

\* The select takes ctx.Done(): billAbandonedTerminal, which leaves streams out.
Abandon(w, k) ==
  LET m == hold[w]  r == owner[m] IN
  /\ m # None /\ k \in Outcome(r) /\ ctxDone[r]
  /\ hold' = [hold EXCEPT ![w] = None]
  /\ hooks' = IF r \in Streaming THEN hooks ELSE [hooks EXCEPT ![r] = @ + 1]
  /\ UNCHANGED <<poolVars, queue, pc, mine, ctxDone, got>>

\* drainQueueWithErrors, the drain of a worker and the cancelling update.
Drain(m) ==
  /\ m \in queue /\ queue' = queue \ {m}
  /\ \/ Put(m, "Err")
     \/ ctxDone[owner[m]] /\ UNCHANGED poolVars
  /\ UNCHANGED <<hold, pc, mine, ctxDone, got, hooks>>

----------------------------------------------------------------------------
CallerNext(r) ==
  \/ Acquire(r) \/ Send(r) \/ SendFails(r) \/ StopWaiting(r) \/ Cancel(r)
  \/ \E k \in Kind : Receive(r, k)

WorkerNext(w) ==
  \/ Take(w) \/ RefuseKey(w)
  \/ \E k \in Kind : Answer(w, k) \/ Abandon(w, k)

Next ==
  \/ \E r \in Request : CallerNext(r)
  \/ \E w \in Worker : WorkerNext(w)
  \/ \E m \in Msg : Drain(m)

Spec == Init /\ [][Next]_vars

----------------------------------------------------------------------------
(* "Returning those channels to the pool now would let the next request    *)
(* reuse them while the worker is still writing to them": a caller only    *)
(* ever receives the answer to its own request, however messages and       *)
(* channels are recycled and callers stop waiting.  "The send always       *)
(* completes immediately": whoever has a message finds its channels there  *)
(* and empty, also for the errors that requestWorker sends without a       *)
(* select.                                                                 *)
OwnAnswer ==
  /\ \A r \in Request : got[r] \in {None, r}
  /\ \A m \in queue \cup ({hold[w] : w \in Worker} \ {None}) :
       /\ owner[m] # None
       /\ \A k \in Outcome(owner[m]) : ends[m][k] # None /\ chan[k][ends[m][k]] = None

(* "post-hooks never run twice for one call": nobody is billed by the      *)
(* caller and again by billAbandonedTerminal.                              *)
HookedOnce == \A r \in Request : hooks[r] <= 1
=============================================================================
