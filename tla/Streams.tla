------------------------------ MODULE Streams -------------------------------
(***************************************************************************)
(* A streaming request: the worker's attempts, the first chunk it looks at *)
(* (pkg/bifrost_core/providers/utils/stream.go), the provider's goroutine  *)
(* with its idle timer and its canceller, and the forwarder to the client. *)
(* The attempts share the flags of one BifrostContext.                     *)
(***************************************************************************)
EXTENDS Integers, Sequences

CONSTANTS
  MaxAttempts,  \* attempts of one request, fallbacks included
  MaxChunks,    \* chunks of data of one attempt
  Buffer        \* schemas.DefaultStreamBufferSize

ASSUME StreamAssumption ==
  MaxAttempts \in Nat \ {0} /\ MaxChunks \in Nat /\ Buffer \in Nat \ {0}

Attempt == 1..MaxAttempts

(* What goes down a channel: data, the final chunk, an error event or the  *)
(* truncation error, an error of the reader, the error of a cancelled or   *)
(* expired request.                                                        *)
Error == {"error", "unread", "cancelled"}
Chunk == {"data", "final"} \cup Error

VARIABLES
  ctxErr,
  ended,    \* BifrostContextKeyStreamEndIndicator
  closed,   \* BifrostContextKeyConnectionClosed
  span,     \* the tracer holds a deferred span of this trace
  n,        \* the attempt
  worker,   \* "attempt", "first", "drain", "failed" or "done"
  reader,       \* the provider goroutine of each attempt
  item,     \* the chunk that it processes
  chan, shut,  \* its response channel, and whether that is closed
  data,     \* chunks of data read
  watch,    \* the canceller is still there
  timer,    \* the idle timer is armed
  body,     \* how often the response's body was closed
  held,     \* the attempt's plugin pipeline is not yet back in the pool
  out,      \* the channel to the client, <<"none">> as long as nobody forwards
  stale,    \* ended was already set when the attempt began
  finals,   \* chunks that the post hooks were told to be final
  orphans   \* post hooks that ran on a pipeline the pool had back

ctxVars == <<ctxErr, ended, closed, span>>
streamVars == <<ctxErr, ended, closed, span, n, worker, reader, item, chan, shut, data, watch,
                timer, body, held, out, stale, finals, orphans>>

StreamInit ==
  /\ ctxErr = FALSE /\ ended = FALSE /\ closed = FALSE /\ span = FALSE
  /\ n = 1 /\ worker = "attempt"
  /\ reader = [a \in Attempt |-> "none"] /\ item = [a \in Attempt |-> "none"]
  /\ chan = [a \in Attempt |-> <<>>] /\ shut = [a \in Attempt |-> FALSE]
  /\ data = [a \in Attempt |-> 0] /\ watch = [a \in Attempt |-> FALSE]
  /\ timer = [a \in Attempt |-> FALSE] /\ body = [a \in Attempt |-> 0]
  /\ held = [a \in Attempt |-> FALSE] /\ out = <<"none">>
  /\ stale = [a \in Attempt |-> FALSE] /\ finals = [a \in Attempt |-> 0]
  /\ orphans = [a \in Attempt |-> 0]

----------------------------------------------------------------------------
(* The provider's goroutine.                                               *)

GoTo(a, l) == reader' = [reader EXCEPT ![a] = l]

\* It has a chunk for the post hooks, the last one or not.  (The converter that may
\* drop a chunk and return is nil at every call of this handler under providers/.)
Process(a, c) ==
  /\ item' = [item EXCEPT ![a] = c] /\ GoTo(a, "hook")
  /\ ended' = (ended \/ c # "data")

\* The body yields something.
ReadChunk(a) ==
  /\ reader[a] = "read" /\ ~closed /\ ~ctxErr
  /\ \/ data[a] < MaxChunks /\ data' = [data EXCEPT ![a] = @ + 1] /\ Process(a, "data")
     \/ \E c \in {"final", "error", "unread"} : Process(a, c) /\ UNCHANGED data
  /\ UNCHANGED <<ctxErr, closed, span, n, worker, chan, shut, watch, timer, body, held, out,
                 stale, finals, orphans>>

\* The read fails because the stream was closed, or the context is done.
ReadEnds(a) ==
  /\ reader[a] = "read"
  /\ \/ ctxErr /\ GoTo(a, "unwind") /\ UNCHANGED <<item, ended>>
     \/ closed /\ ~ctxErr /\ Process(a, "unread")
  /\ UNCHANGED <<ctxErr, closed, span, n, worker, chan, shut, data, watch, timer, body, held,
                 out, stale, finals, orphans>>

\* postHookRunner: IsFinalChunk tells the plugins whether this is the end.
Hook(a) ==
  /\ reader[a] = "hook" /\ GoTo(a, "send")
  /\ finals' = [finals EXCEPT ![a] = @ + (IF ended THEN 1 ELSE 0)]
  /\ orphans' = [orphans EXCEPT ![a] = @ + (IF held[a] THEN 0 ELSE 1)]
  /\ UNCHANGED <<ctxVars, n, worker, item, chan, shut, data, watch, timer, body, held, out, stale>>

ChanHasRoom(a) == Len(chan[a]) < Buffer

\* GateSendChunk: into the channel, or not at all once the context is done.
GateSendChunk(a) ==
  /\ reader[a] = "send" /\ GoTo(a, "sent")
  /\ \/ ChanHasRoom(a) /\ chan' = [chan EXCEPT ![a] = Append(@, item[a])]
     \/ ctxErr /\ UNCHANGED chan
  /\ UNCHANGED <<ctxVars, n, worker, item, shut, data, watch, timer, body, held, out, stale,
                 finals, orphans>>

\* completeDeferredSpan, if there is a span: the finalizer gives the pipeline back.
CompleteSpan(a) ==
  /\ held' = [held EXCEPT ![a] = @ /\ ~span] /\ span' = FALSE

\* Mutant of IsLast: every chunk completes the span.
IsLastAlways(a) == TRUE

\* ProcessAndSendError does not look for the span.
IsLast(a) == ended /\ item[a] # "unread"

Sent(a) ==
  /\ reader[a] = "sent" /\ IF IsLast(a) THEN CompleteSpan(a) ELSE UNCHANGED <<held, span>>
  /\ GoTo(a, CASE item[a] = "data" -> "read" [] item[a] = "cancelled" -> "close"
               [] OTHER -> "unwind")
  /\ UNCHANGED <<ctxErr, ended, closed, n, worker, item, chan, shut, data, watch, timer, body,
                 out, stale, finals, orphans>>

\* Mutant of Claim: the flag is set but not asked.
ClaimBlindly(a) == closed' = TRUE /\ body' = [body EXCEPT ![a] = @ + 1]

\* Whoever sets ConnectionClosed first closes the body.
Claim(a) ==
  /\ closed' = TRUE
  /\ body' = IF closed THEN body ELSE [body EXCEPT ![a] = @ + 1]

\* Mutant of Woken: nobody closes the channel done.
WokenByContext(a) == ctxErr

\* By the end of the context, or by the cleanup function.
Woken(a) == ctxErr \/ reader[a] = "unwind"

\* SetupStreamCancellation.
Canceller(a) ==
  /\ watch[a] /\ Woken(a) /\ watch' = [watch EXCEPT ![a] = FALSE]
  /\ IF ctxErr THEN Claim(a) ELSE UNCHANGED <<closed, body>>
  /\ UNCHANGED <<ctxErr, ended, span, n, worker, reader, item, chan, shut, data, timer, held, out,
                 stale, finals, orphans>>

\* NewIdleTimeoutReader's timer, which nothing resets while a chunk is processed.
IdleTimeout(a) ==
  /\ timer[a] /\ timer' = [timer EXCEPT ![a] = FALSE] /\ Claim(a)
  /\ UNCHANGED <<ctxErr, ended, span, n, worker, reader, item, chan, shut, data, watch, held, out,
                 stale, finals, orphans>>

\* The deferred calls: the canceller is waited for, the timer stopped.
Unwind(a) ==
  /\ reader[a] = "unwind" /\ ~watch[a] /\ GoTo(a, "release") /\ timer' = [timer EXCEPT ![a] = FALSE]
  /\ UNCHANGED <<ctxVars, n, worker, item, chan, shut, data, watch, body, held, out, stale,
                 finals, orphans>>

\* ReleaseStreamingResponse: whoever has the claim drains the body, without timer or canceller.
Release(a) ==
  /\ reader[a] = "release" /\ closed' = TRUE /\ GoTo(a, IF closed THEN "farewell" ELSE "drain")
  /\ UNCHANGED <<ctxErr, ended, span, n, worker, item, chan, shut, data, watch, timer, body, held,
                 out, stale, finals, orphans>>

\* The upstream ends the body: it is closed and the response goes back to its pool.
Drained(a) ==
  /\ reader[a] = "drain" /\ GoTo(a, "farewell") /\ body' = [body EXCEPT ![a] = @ + 1]
  /\ UNCHANGED <<ctxVars, n, worker, item, chan, shut, data, watch, timer, held, out, stale,
                 finals, orphans>>

\* Mutant of Farewell: an end that was told is told again.
FarewellAlways(a) ==
  /\ reader[a] = "farewell"
  /\ IF ctxErr THEN Process(a, "cancelled") ELSE GoTo(a, "close") /\ UNCHANGED <<item, ended>>
  /\ UNCHANGED <<ctxErr, closed, span, n, worker, chan, shut, data, watch, timer, body, held,
                 out, stale, finals, orphans>>

\* HandleStreamCancellation or HandleStreamTimeout, unless the end was told.
Farewell(a) ==
  /\ reader[a] = "farewell"
  /\ IF ctxErr /\ ~ended THEN Process(a, "cancelled")
     ELSE GoTo(a, "close") /\ UNCHANGED <<item, ended>>
  /\ UNCHANGED <<ctxErr, closed, span, n, worker, chan, shut, data, watch, timer, body, held,
                 out, stale, finals, orphans>>

\* CloseStream.
Close(a) ==
  /\ reader[a] = "close" /\ GoTo(a, "finalize") /\ shut' = [shut EXCEPT ![a] = TRUE]
  /\ UNCHANGED <<ctxVars, n, worker, item, chan, data, watch, timer, body, held, out, stale,
                 finals, orphans>>

\* EnsureStreamFinalizerCalled: whatever span is parked, then the finalizer.
Finalize(a) ==
  /\ reader[a] = "finalize" /\ GoTo(a, "gone")
  /\ span' = FALSE /\ held' = [held EXCEPT ![a] = FALSE]
  /\ UNCHANGED <<ctxErr, ended, closed, n, worker, item, chan, shut, data, watch, timer, body,
                 out, stale, finals, orphans>>

----------------------------------------------------------------------------
(* The worker: executeRequestWithRetries and CheckFirstStreamChunkForError.*)

\* A stream or an error.  (The passthrough of a large payload is out: no code but
\* the tests sets its key, and none takes the reader that it would leave.)
StartAttempt ==
  /\ worker = "attempt" /\ stale' = [stale EXCEPT ![n] = ended]
  /\ \/ /\ worker' = "first" /\ reader' = [reader EXCEPT ![n] = "read"]
        /\ watch' = [watch EXCEPT ![n] = TRUE] /\ timer' = [timer EXCEPT ![n] = TRUE]
        /\ held' = [held EXCEPT ![n] = TRUE]
     \/ worker' = "failed" /\ UNCHANGED <<reader, watch, timer, held>>
  /\ UNCHANGED <<ctxVars, n, item, chan, shut, data, body, out, finals, orphans>>

\* The first chunk is data: the stream is the answer, its span deferred.
FirstIsData ==
  /\ worker = "first" /\ chan[n] # <<>> /\ Head(chan[n]) \notin Error
  /\ worker' = "done" /\ out' = <<Head(chan[n])>> /\ chan' = [chan EXCEPT ![n] = Tail(@)]
  /\ span' = TRUE
  /\ UNCHANGED <<ctxErr, ended, closed, n, reader, item, shut, data, watch, timer, body, held,
                 stale, finals, orphans>>

\* Nothing came: an empty stream is an answer as well.
FirstIsNothing ==
  /\ worker = "first" /\ chan[n] = <<>> /\ shut[n] /\ worker' = "done"
  /\ UNCHANGED <<ctxVars, n, reader, item, chan, shut, data, watch, timer, body, held, out, stale,
                 finals, orphans>>

FirstIsError ==
  /\ worker = "first" /\ chan[n] # <<>> /\ Head(chan[n]) \in Error
  /\ worker' = "drain" /\ chan' = [chan EXCEPT ![n] = <<>>]
  /\ UNCHANGED <<ctxVars, n, reader, item, shut, data, watch, timer, body, held, out, stale, finals,
                 orphans>>

\* The dead stream is read to its end, and its claim on the context dropped.
DrainStream ==
  /\ worker = "drain" /\ chan' = [chan EXCEPT ![n] = <<>>]
  /\ IF shut[n] THEN worker' = "failed" /\ closed' = FALSE
     ELSE chan[n] # <<>> /\ UNCHANGED <<worker, closed>>
  /\ UNCHANGED <<ctxErr, ended, span, n, reader, item, shut, data, watch, timer, body, held, out,
                 stale, finals, orphans>>

\* Another attempt with the same context; an error of the reader is a Bifrost error.
Retry ==
  /\ worker = "failed" /\ n < MaxAttempts /\ item[n] \notin {"unread", "cancelled"}
  /\ n' = n + 1 /\ worker' = "attempt"
  /\ UNCHANGED <<ctxVars, reader, item, chan, shut, data, watch, timer, body, held, out, stale,
                 finals, orphans>>

\* The last attempt's finalizer, and clearCtxForFallback before another provider.
Fallback ==
  /\ worker = "failed" /\ n < MaxAttempts /\ item[n] # "cancelled"
  /\ n' = n + 1 /\ worker' = "attempt" /\ held' = [held EXCEPT ![n] = FALSE]
  /\ ended' = FALSE /\ closed' = FALSE
  /\ UNCHANGED <<ctxErr, span, reader, item, chan, shut, data, watch, timer, body, out, stale,
                 finals, orphans>>

\* No attempt left, or an error that is not retried.
Fail ==
  /\ worker = "failed" /\ worker' = "done" /\ held' = [held EXCEPT ![n] = FALSE]
  /\ UNCHANGED <<ctxVars, n, reader, item, chan, shut, data, watch, timer, body, out, stale, finals,
                 orphans>>

----------------------------------------------------------------------------
(* The forwarder and the client.                                           *)

Forwards == worker = "done" /\ out # <<"none">> /\ chan[n] # <<>>

\* On to the client, or into the void once the context is done.
Forward ==
  /\ Forwards /\ chan' = [chan EXCEPT ![n] = Tail(@)]
  /\ \/ out = <<>> /\ out' = <<Head(chan[n])>>
     \/ ctxErr /\ UNCHANGED out
  /\ UNCHANGED <<ctxVars, n, worker, reader, item, shut, data, watch, timer, body, held, stale,
                 finals, orphans>>

Offered == out \notin {<<>>, <<"none">>}

Consume ==
  /\ Offered /\ out' = <<>>
  /\ UNCHANGED <<ctxVars, n, worker, reader, item, chan, shut, data, watch, timer, body, held,
                 stale, finals, orphans>>

\* The client leaves, or the deadline passes.
ClientLeaves ==
  /\ ~ctxErr /\ ctxErr' = TRUE
  /\ UNCHANGED <<ended, closed, span, n, worker, reader, item, chan, shut, data, watch, timer, body,
                 held, out, stale, finals, orphans>>

----------------------------------------------------------------------------
Ends(a) ==
  \/ ReadEnds(a) \/ Hook(a) \/ GateSendChunk(a) \/ Sent(a) \/ Canceller(a) \/ IdleTimeout(a)
  \/ Unwind(a) \/ Release(a) \/ Farewell(a) \/ Close(a) \/ Finalize(a)

Work ==
  \/ StartAttempt \/ FirstIsData \/ FirstIsNothing \/ FirstIsError \/ DrainStream
  \/ Retry \/ Fallback \/ Fail

StreamNext ==
  \/ Work \/ Forward \/ Consume \/ ClientLeaves
  \/ \E a \in Attempt : ReadChunk(a) \/ Drained(a) \/ Ends(a)

StreamSpec == StreamInit /\ [][StreamNext]_streamVars

(* Goroutines run, timers fire, and a client that is offered a chunk takes *)
(* it or leaves.  Nothing obliges the upstream to send, or to end a body.  *)
FairStreamSpec ==
  /\ StreamSpec /\ WF_streamVars(Work) /\ WF_streamVars(Forward)
  /\ WF_streamVars(Offered /\ (Consume \/ ClientLeaves))
  /\ \A a \in Attempt : WF_streamVars(Ends(a))

----------------------------------------------------------------------------
(* "Only one owner may close the non-idempotent fasthttp body stream": of  *)
(* the canceller, the idle timer and the release exactly one closes each   *)
(* response's body, although they share one flag with all attempts.  And a *)
(* retry "doesn't see its own fresh stream as already closed": while an    *)
(* attempt reads, the flag is set only if its own body was closed.         *)
BodyClosedOnce ==
  \A a \in Attempt :
    /\ body[a] <= 1 /\ (reader[a] \in {"farewell", "close", "finalize", "gone"} => body[a] = 1)
    /\ reader[a] = "read" /\ closed => body[a] = 1

(* The plugins are told of every stream's end once, however it ended, when *)
(* the attempt did not begin with the flag of an earlier one.              *)
EndToldOnce ==
  \A a \in Attempt :
    ~stale[a] => finals[a] <= 1 /\ (reader[a] \in {"close", "finalize", "gone"} => finals[a] = 1)

(* "Cannot double-release the pipeline", and "a retry could run against a  *)
(* pipeline that was already returned": no post hook runs on a pipeline    *)
(* that is back in the pool, with the same exception.                      *)
HooksHoldPipeline ==
  \A a \in Attempt : ~stale[a] => orphans[a] = 0

(* "Call PostHookRunner for each streaming chunk, setting StreamEndIndicator*)
(* on the final chunk": no chunk follows one that was told to be final.    *)
FinalChunkIsLast ==
  \A a \in Attempt : finals[a] <= 1

(* No goroutine of a stream outlives it: the provider's ends and its       *)
(* pipeline goes back to the pool, whether the client stays or leaves and  *)
(* the upstream stalls or not, with one exception: draining a body that    *)
(* the upstream does not end, which neither timer nor canceller watches.   *)
StreamsEnd ==
  \A a \in Attempt : []<>(reader[a] \in {"none", "drain"} \/ (reader[a] = "gone" /\ ~held[a]))
=============================================================================
