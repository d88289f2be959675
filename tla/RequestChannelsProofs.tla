----------------------- MODULE RequestChannelsProofs ------------------------
(***************************************************************************)
(* The pooled messages and channels of pkg/bifrost_core/bifrost.go, for    *)
(* any number of requests, workers, messages and channels: a caller gets   *)
(* the answer to its own request, a worker finds the channels it writes to *)
(* there and empty, and the post hooks of a call run once at most.         *)
(***************************************************************************)
EXTENDS RequestChannels, TLAPS

ChannelsTypeOK ==
  /\ msgPool \subseteq Msg /\ chanPool \in [Kind -> SUBSET Chan]
  /\ owner \in [Msg -> Request \cup {None}]
  /\ ends \in [Msg -> [Kind -> Chan \cup {None}]]
  /\ chan \in [Kind -> [Chan -> Request \cup {None}]]
  /\ queue \subseteq Msg /\ hold \in [Worker -> Msg \cup {None}]
  /\ pc \in [Request -> {"new", "acquired", "wait", "done"}]
  /\ mine \in [Request -> Msg \cup {None}] /\ ctxDone \in [Request -> BOOLEAN]
  /\ got \in [Request -> Request \cup {None}] /\ hooks \in [Request -> Nat]

\* A queue or a worker has the message.
InHand(m) == m \in queue \/ \E w \in Worker : hold[w] = m

\* Nothing was put into the channels of a message.
Empty(m) == \A k \in Kind : ends[m][k] # None => chan[k][ends[m][k]] = None

\* A message without a request has no channels, and a channel has one place to be:
\* in its pool or with one message.
PlacedOnce ==
  /\ \A m \in Msg : m \in msgPool => owner[m] = None
  /\ \A m \in Msg, k \in Kind : ends[m][k] # None =>
       /\ owner[m] # None /\ ends[m][k] \notin chanPool[k]
       /\ \A n \in Msg : ends[n][k] = ends[m][k] => n = m

\* A request has one message, with the channels for its outcome, in which there is no
\* answer to another; once it was billed, nobody will put one there.
Owned ==
  \A m \in Msg : owner[m] # None =>
    /\ pc[owner[m]] # "new"
    /\ \A n \in Msg : owner[n] = owner[m] => n = m
    /\ \A k \in Outcome(owner[m]) : ends[m][k] # None
    /\ \A k \in Kind : ends[m][k] # None => chan[k][ends[m][k]] \in {None, owner[m]}
    /\ hooks[owner[m]] # 0 => ~InHand(m) /\ Empty(m)

\* As long as a caller has a message it is the request's own, and empty until it is sent.
Awaited ==
  \A r \in Request :
    /\ pc[r] \in {"acquired", "wait"} => mine[r] \in Msg /\ owner[mine[r]] = r
    /\ pc[r] = "acquired" => Empty(mine[r])
    /\ pc[r] \in {"new", "acquired"} => hooks[r] = 0
    /\ hooks[r] <= 1 /\ got[r] \in {None, r}

\* One queue or one worker has a message, its caller has sent it, and it is unanswered.
HandedOver ==
  /\ \A m \in Msg : InHand(m) => owner[m] # None /\ pc[owner[m]] \in {"wait", "done"} /\ Empty(m)
  /\ \A w \in Worker : hold[w] # None =>
       hold[w] \notin queue /\ \A v \in Worker : hold[v] = hold[w] => v = w

ChannelsInv == ChannelsTypeOK /\ PlacedOnce /\ Owned /\ Awaited /\ HandedOver

----------------------------------------------------------------------------
(* In the beginning everything is pooled and empty.                          *)
LEMMA ChannelsInvInit == Init => ChannelsInv
BY ChannelAssumption DEF Init, ChannelsInv, ChannelsTypeOK, PlacedOnce, Owned, Awaited,
   HandedOver, InHand, Empty, NoChannels, Kind

(* getChannelMessage: the message was nobody's and its channels were pooled, so*)
(* no other message has them, and they are drained.                          *)
LEMMA AcquireKeeps ==
  ASSUME ChannelsInv, NEW r \in Request, Acquire(r)
  PROVE  ChannelsInv'
<1> USE ChannelAssumption DEF Kind, ChannelsInv, ChannelsTypeOK
<1>1. ChannelsTypeOK'
  BY DEF Acquire, Picks, Drained, PlacedOnce, Owned, Awaited, HandedOver, InHand,
     Empty, Outcome
<1>2. PlacedOnce'
  BY DEF Acquire, Picks, Drained, PlacedOnce, Owned, Awaited, HandedOver, InHand,
     Empty, Outcome
<1>3. Owned'
  BY DEF Acquire, Picks, Drained, PlacedOnce, Owned, Awaited, HandedOver, InHand,
     Empty, Outcome
<1>4. Awaited'
  BY DEF Acquire, Picks, Drained, PlacedOnce, Owned, Awaited, HandedOver, InHand,
     Empty, Outcome
<1>5. HandedOver'
  BY DEF Acquire, Picks, Drained, PlacedOnce, Owned, Awaited, HandedOver, InHand,
     Empty, Outcome
<1> QED BY <1>1, <1>2, <1>3, <1>4, <1>5

(* Sending: nobody had the message, and nothing is in its channels yet.      *)
LEMMA SendKeeps ==
  ASSUME ChannelsInv, NEW r \in Request, Send(r)
  PROVE  ChannelsInv'
<1> USE ChannelAssumption DEF Kind, ChannelsInv, ChannelsTypeOK
<1>1. ChannelsTypeOK'
  BY DEF Send, poolVars, PlacedOnce, Owned, Awaited, HandedOver, InHand, Empty, Outcome
<1>2. PlacedOnce'
  BY DEF Send, poolVars, PlacedOnce, Owned, Awaited, HandedOver, InHand, Empty, Outcome
<1>3. Owned'
  BY DEF Send, poolVars, PlacedOnce, Owned, Awaited, HandedOver, InHand, Empty, Outcome
<1>4. Awaited'
  BY DEF Send, poolVars, PlacedOnce, Owned, Awaited, HandedOver, InHand, Empty, Outcome
<1>5. HandedOver'
  BY DEF Send, poolVars, PlacedOnce, Owned, Awaited, HandedOver, InHand, Empty, Outcome
<1> QED BY <1>1, <1>2, <1>3, <1>4, <1>5

(* A failed send: only the caller has the message that goes back.            *)
LEMMA SendFailsKeeps ==
  ASSUME ChannelsInv, NEW r \in Request, SendFails(r)
  PROVE  ChannelsInv'
<1> USE ChannelAssumption DEF Kind, ChannelsInv, ChannelsTypeOK
<1>1. ChannelsTypeOK'
  BY DEF SendFails, Release, Drained, NoChannels, PlacedOnce, Owned, Awaited,
     HandedOver, InHand, Empty, Outcome
<1>2. PlacedOnce'
  BY DEF SendFails, Release, Drained, NoChannels, PlacedOnce, Owned, Awaited,
     HandedOver, InHand, Empty, Outcome
<1>3. Owned'
  BY DEF SendFails, Release, Drained, NoChannels, PlacedOnce, Owned, Awaited,
     HandedOver, InHand, Empty, Outcome
<1>4. Awaited'
  BY DEF SendFails, Release, Drained, NoChannels, PlacedOnce, Owned, Awaited,
     HandedOver, InHand, Empty, Outcome
<1>5. HandedOver'
  BY DEF SendFails, Release, Drained, NoChannels, PlacedOnce, Owned, Awaited,
     HandedOver, InHand, Empty, Outcome
<1> QED BY <1>1, <1>2, <1>3, <1>4, <1>5

(* An answer: it lies in a channel of the caller's own message, which is in  *)
(* nobody's hands any more and may go back; nobody has billed the call.      *)
LEMMA ReceiveKeeps ==
  ASSUME ChannelsInv, NEW r \in Request, NEW k \in Kind, Receive(r, k)
  PROVE  ChannelsInv'
<1> USE ChannelAssumption DEF Kind, ChannelsInv, ChannelsTypeOK
<1>1. ChannelsTypeOK'
  BY DEF Receive, Release, Drained, NoChannels, PlacedOnce, Owned, Awaited, HandedOver,
     InHand, Empty, Outcome
<1>2. PlacedOnce'
  BY DEF Receive, Release, Drained, NoChannels, PlacedOnce, Owned, Awaited, HandedOver,
     InHand, Empty, Outcome
<1>3. Owned'
  BY DEF Receive, Release, Drained, NoChannels, PlacedOnce, Owned, Awaited, HandedOver,
     InHand, Empty, Outcome
<1>4. Awaited'
  BY DEF Receive, Release, Drained, NoChannels, PlacedOnce, Owned, Awaited, HandedOver,
     InHand, Empty, Outcome
<1>5. HandedOver'
  BY DEF Receive, Release, Drained, NoChannels, PlacedOnce, Owned, Awaited, HandedOver,
     InHand, Empty, Outcome
<1> QED BY <1>1, <1>2, <1>3, <1>4, <1>5

(* The caller leaves: message and channels stay the request's.               *)
LEMMA StopWaitingKeeps ==
  ASSUME ChannelsInv, NEW r \in Request, StopWaiting(r)
  PROVE  ChannelsInv'
<1> USE ChannelAssumption DEF Kind, ChannelsInv, ChannelsTypeOK
<1>1. ChannelsTypeOK'
  BY DEF StopWaiting, poolVars, PlacedOnce, Owned, Awaited, HandedOver, InHand, Empty,
     Outcome
<1>2. PlacedOnce'
  BY DEF StopWaiting, poolVars, PlacedOnce, Owned, Awaited, HandedOver, InHand, Empty,
     Outcome
<1>3. Owned'
  BY DEF StopWaiting, poolVars, PlacedOnce, Owned, Awaited, HandedOver, InHand, Empty,
     Outcome
<1>4. Awaited'
  BY DEF StopWaiting, poolVars, PlacedOnce, Owned, Awaited, HandedOver, InHand, Empty,
     Outcome
<1>5. HandedOver'
  BY DEF StopWaiting, poolVars, PlacedOnce, Owned, Awaited, HandedOver, InHand, Empty,
     Outcome
<1> QED BY <1>1, <1>2, <1>3, <1>4, <1>5

(* The end of a context touches nothing else.                                *)
LEMMA CancelKeeps ==
  ASSUME ChannelsInv, NEW r \in Request, Cancel(r)
  PROVE  ChannelsInv'
<1> USE ChannelAssumption DEF Kind, ChannelsInv, ChannelsTypeOK
<1>1. ChannelsTypeOK'
  BY DEF Cancel, poolVars, PlacedOnce, Owned, Awaited, HandedOver, InHand, Empty,
     Outcome
<1>2. PlacedOnce'
  BY DEF Cancel, poolVars, PlacedOnce, Owned, Awaited, HandedOver, InHand, Empty,
     Outcome
<1>3. Owned'
  BY DEF Cancel, poolVars, PlacedOnce, Owned, Awaited, HandedOver, InHand, Empty,
     Outcome
<1>4. Awaited'
  BY DEF Cancel, poolVars, PlacedOnce, Owned, Awaited, HandedOver, InHand, Empty,
     Outcome
<1>5. HandedOver'
  BY DEF Cancel, poolVars, PlacedOnce, Owned, Awaited, HandedOver, InHand, Empty,
     Outcome
<1> QED BY <1>1, <1>2, <1>3, <1>4, <1>5

(* A worker takes a message out of the queue: it is still in one place.      *)
LEMMA TakeKeeps ==
  ASSUME ChannelsInv, NEW w \in Worker, Take(w)
  PROVE  ChannelsInv'
<1> USE ChannelAssumption DEF Kind, ChannelsInv, ChannelsTypeOK
<1>1. ChannelsTypeOK'
  BY DEF Take, poolVars, PlacedOnce, Owned, Awaited, HandedOver, InHand, Empty, Outcome
<1>2. PlacedOnce'
  BY DEF Take, poolVars, PlacedOnce, Owned, Awaited, HandedOver, InHand, Empty, Outcome
<1>3. Owned'
  BY DEF Take, poolVars, PlacedOnce, Owned, Awaited, HandedOver, InHand, Empty, Outcome
<1>4. Awaited'
  BY DEF Take, poolVars, PlacedOnce, Owned, Awaited, HandedOver, InHand, Empty, Outcome
<1>5. HandedOver'
  BY DEF Take, poolVars, PlacedOnce, Owned, Awaited, HandedOver, InHand, Empty, Outcome
<1> QED BY <1>1, <1>2, <1>3, <1>4, <1>5

(* An error for want of a key goes into a channel of the request's own.      *)
LEMMA RefuseKeyKeeps ==
  ASSUME ChannelsInv, NEW w \in Worker, RefuseKey(w)
  PROVE  ChannelsInv'
<1> USE ChannelAssumption DEF Kind, ChannelsInv, ChannelsTypeOK
<1>1. ChannelsTypeOK'
  BY DEF RefuseKey, Put, PlacedOnce, Owned, Awaited, HandedOver, InHand, Empty, Outcome
<1>2. PlacedOnce'
  BY DEF RefuseKey, Put, PlacedOnce, Owned, Awaited, HandedOver, InHand, Empty, Outcome
<1>3. Owned'
  BY DEF RefuseKey, Put, PlacedOnce, Owned, Awaited, HandedOver, InHand, Empty, Outcome
<1>4. Awaited'
  BY DEF RefuseKey, Put, PlacedOnce, Owned, Awaited, HandedOver, InHand, Empty, Outcome
<1>5. HandedOver'
  BY DEF RefuseKey, Put, PlacedOnce, Owned, Awaited, HandedOver, InHand, Empty, Outcome
<1> QED BY <1>1, <1>2, <1>3, <1>4, <1>5

(* So does a worker's answer, and the worker lets the message go.            *)
LEMMA AnswerKeeps ==
  ASSUME ChannelsInv, NEW w \in Worker, NEW k \in Kind, Answer(w, k)
  PROVE  ChannelsInv'
<1> USE ChannelAssumption DEF Kind, ChannelsInv, ChannelsTypeOK
<1>1. ChannelsTypeOK'
  BY DEF Answer, Put, PlacedOnce, Owned, Awaited, HandedOver, InHand, Empty, Outcome
<1>2. PlacedOnce'
  BY DEF Answer, Put, PlacedOnce, Owned, Awaited, HandedOver, InHand, Empty, Outcome
<1>3. Owned'
  BY DEF Answer, Put, PlacedOnce, Owned, Awaited, HandedOver, InHand, Empty, Outcome
<1>4. Awaited'
  BY DEF Answer, Put, PlacedOnce, Owned, Awaited, HandedOver, InHand, Empty, Outcome
<1>5. HandedOver'
  BY DEF Answer, Put, PlacedOnce, Owned, Awaited, HandedOver, InHand, Empty, Outcome
<1> QED BY <1>1, <1>2, <1>3, <1>4, <1>5

(* Billing in the worker: the channels stay empty, and nobody has the message*)
(* any more, so that the caller will find no answer and not bill again.      *)
LEMMA AbandonKeeps ==
  ASSUME ChannelsInv, NEW w \in Worker, NEW k \in Kind, Abandon(w, k)
  PROVE  ChannelsInv'
<1> USE ChannelAssumption DEF Kind, ChannelsInv, ChannelsTypeOK
<1>1. ChannelsTypeOK'
  BY DEF Abandon, poolVars, PlacedOnce, Owned, Awaited, HandedOver, InHand, Empty,
     Outcome
<1>2. PlacedOnce'
  BY DEF Abandon, poolVars, PlacedOnce, Owned, Awaited, HandedOver, InHand, Empty,
     Outcome
<1>3. Owned'
  BY DEF Abandon, poolVars, PlacedOnce, Owned, Awaited, HandedOver, InHand, Empty,
     Outcome
<1>4. Awaited'
  BY DEF Abandon, poolVars, PlacedOnce, Owned, Awaited, HandedOver, InHand, Empty,
     Outcome
<1>5. HandedOver'
  BY DEF Abandon, poolVars, PlacedOnce, Owned, Awaited, HandedOver, InHand, Empty,
     Outcome
<1> QED BY <1>1, <1>2, <1>3, <1>4, <1>5

(* Draining a queue answers a message once, for it leaves the queue.         *)
LEMMA DrainKeeps ==
  ASSUME ChannelsInv, NEW m \in Msg, Drain(m)
  PROVE  ChannelsInv'
<1> USE ChannelAssumption DEF Kind, ChannelsInv, ChannelsTypeOK
<1>1. ChannelsTypeOK'
  BY DEF Drain, Put, poolVars
<1>2. PlacedOnce'
  BY DEF Drain, Put, poolVars, PlacedOnce, Owned, Awaited, HandedOver, InHand, Empty,
     Outcome
<1>3. Owned'
  BY DEF Drain, Put, poolVars, PlacedOnce, Owned, Awaited, HandedOver, InHand, Empty,
     Outcome
<1>4. Awaited'
  BY DEF Drain, Put, poolVars, PlacedOnce, Owned, Awaited, HandedOver, InHand, Empty,
     Outcome
<1>5. HandedOver'
  BY DEF Drain, Put, poolVars, PlacedOnce, Owned, Awaited, HandedOver, InHand, Empty,
     Outcome
<1> QED BY <1>1, <1>2, <1>3, <1>4, <1>5

(* Every step of callers, workers and drains keeps the invariant.            *)
LEMMA ChannelsInvStep == ChannelsInv /\ [Next]_vars => ChannelsInv'
<1> SUFFICES ASSUME ChannelsInv, [Next]_vars PROVE ChannelsInv'
  OBVIOUS
<1>1. ASSUME NEW r \in Request, CallerNext(r) PROVE ChannelsInv'
  BY <1>1, AcquireKeeps, SendKeeps, SendFailsKeeps, StopWaitingKeeps, CancelKeeps,
     ReceiveKeeps DEF CallerNext
<1>2. ASSUME NEW w \in Worker, WorkerNext(w) PROVE ChannelsInv'
  BY <1>2, TakeKeeps, RefuseKeyKeeps, AnswerKeeps, AbandonKeeps DEF WorkerNext
<1>3. CASE UNCHANGED vars
  BY <1>3 DEF vars, poolVars, ChannelsInv, ChannelsTypeOK, PlacedOnce, Owned, Awaited,
              HandedOver, InHand, Empty
<1> QED
  BY <1>1, <1>2, <1>3, DrainKeeps DEF Next

(* The invariant holds of the channels always.                               *)
THEOREM ChannelsInvariant == Spec => []ChannelsInv
BY ChannelsInvInit, ChannelsInvStep, PTL DEF Spec

(* A caller of tryRequest or tryStreamRequest never receives the answer to another*)
(* request, and no worker finds a channel missing or full, however many requests*)
(* and workers share the pools and whenever callers stop waiting.            *)
THEOREM AnswersOwn == Spec => []OwnAnswer
<1>1. ChannelsInv => OwnAnswer
  BY ChannelAssumption DEF ChannelsInv, ChannelsTypeOK, Owned, Awaited, HandedOver,
     InHand,
     Empty, OwnAnswer, Outcome, Kind
<1> QED BY <1>1, ChannelsInvariant, PTL

(* The post hooks of a call, which bill it, run at most once: in the caller or in*)
(* billAbandonedTerminal, never in both.                                     *)
THEOREM HooksOnce == Spec => []HookedOnce
<1>1. ChannelsInv => HookedOnce
  BY DEF ChannelsInv, Awaited, HookedOnce
<1> QED BY <1>1, ChannelsInvariant, PTL
=============================================================================
