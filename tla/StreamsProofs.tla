---------------------------- MODULE StreamsProofs ----------------------------
(***************************************************************************)
(* The streaming requests of Streams.tla, for any number of attempts, of   *)
(* chunks and any size of the channel: each body is closed once, each end  *)
(* is told once and no hook runs on a pipeline that is back in its pool.   *)
(***************************************************************************)
EXTENDS Streams, TLAPS

Over == {"finalize", "gone"}
Chunked == {"hook", "send", "sent"}
Leaving == {"unwind", "release", "drain", "farewell"}
PC == {"none", "read", "close"} \cup Chunked \cup Leaving \cup Over

StreamTypeOK ==
  /\ ctxErr \in BOOLEAN /\ ended \in BOOLEAN /\ closed \in BOOLEAN /\ span \in BOOLEAN
  /\ n \in Attempt /\ worker \in {"attempt", "first", "drain", "failed", "done"}
  /\ reader \in [Attempt -> PC] /\ item \in [Attempt -> Chunk \cup {"none"}]
  /\ shut \in [Attempt -> BOOLEAN] /\ watch \in [Attempt -> BOOLEAN]
  /\ timer \in [Attempt -> BOOLEAN] /\ held \in [Attempt -> BOOLEAN]
  /\ stale \in [Attempt -> BOOLEAN] /\ body \in [Attempt -> Nat]
  /\ finals \in [Attempt -> Nat] /\ orphans \in [Attempt -> Nat]

\* The attempts follow each other: of those before the last one nothing is left
\* but finalizers, and the claim of the last one is dropped before the next.
Sequential ==
  /\ \A a \in Attempt : a > n => reader[a] = "none"
  /\ \A a \in Attempt : a < n => reader[a] \in {"none"} \cup Over
  /\ worker = "attempt" => reader[n] = "none"
  /\ worker = "failed" => reader[n] \in {"none"} \cup Over
  /\ worker \in {"attempt", "failed"} => ~closed
  /\ \A a \in Attempt : shut[a] => reader[a] \in Over

\* The response of the attempt is not yet released.
Unreleased(a) ==
  reader[a] \in {"read", "unwind", "release"} \/ (reader[a] \in Chunked /\ item[a] # "cancelled")

\* Until then the flag tells whether its body was closed; canceller and timer are
\* gone before.
BodyOK(a) ==
  /\ reader[a] = "none" => body[a] = 0
  /\ watch[a] \/ timer[a] => Unreleased(a) /\ reader[a] # "release"
  /\ Unreleased(a) => body[a] = IF closed THEN 1 ELSE 0
  /\ reader[a] = "drain" => closed /\ body[a] = 0
  /\ reader[a] \notin {"none", "drain"} /\ ~Unreleased(a) => body[a] = 1

\* The flag tells whether the chunk at hand is the last, and then whether the end
\* was told; as long as it was not the attempt has its pipeline.
EndOK(a) ==
  /\ reader[a] = "none" => finals[a] = 0 /\ orphans[a] = 0
  /\ ~stale[a] =>
       /\ orphans[a] = 0
       /\ reader[a] = "read" => ~ended /\ finals[a] = 0
       /\ reader[a] = "hook" => (ended <=> item[a] # "data") /\ finals[a] = 0
       /\ reader[a] \in {"send", "sent"} =>
            (ended <=> item[a] # "data") /\ finals[a] = IF ended THEN 1 ELSE 0
       /\ reader[a] \in Leaving => finals[a] = (IF ended THEN 1 ELSE 0) /\ (ended \/ ctxErr)
       /\ reader[a] \in {"close"} \cup Over => finals[a] = 1
       /\ reader[a] # "none" /\ finals[a] = 0 => held[a]

StreamInv ==
  /\ StreamTypeOK /\ Sequential
  /\ \A a \in Attempt : BodyOK(a)
  /\ \A a \in Attempt : EndOK(a)

(* In the beginning nothing is attempted.                                  *)
LEMMA StreamInvInit == StreamInit => StreamInv
<1> SUFFICES ASSUME StreamInit PROVE StreamInv
  OBVIOUS
<1>1. StreamTypeOK
  <2>1. 1 \in Attempt /\ "none" \in PC
    BY StreamAssumption DEF Attempt, PC
  <2> QED BY <2>1 DEF StreamInit, StreamTypeOK
<1>2. Sequential
  BY <1>1 DEF StreamInit, StreamTypeOK, Sequential
<1>3. \A a \in Attempt : BodyOK(a) /\ EndOK(a)
  BY DEF StreamInit, BodyOK, EndOK, Unreleased, Chunked, Leaving, Over
<1> QED BY <1>1, <1>2, <1>3 DEF StreamInv

(* Only the last attempt is under way.                                     *)
LEMMA OneUnderWay ==
  ASSUME StreamInv, NEW a \in Attempt, reader[a] \notin {"none"} \cup Over
  PROVE  a = n /\ worker \notin {"attempt", "failed"}
<1>1. n \in Attempt /\ a \in Int /\ n \in Int
  BY DEF StreamInv, StreamTypeOK, Attempt
<1>2. ~(a > n) /\ ~(a < n)
  BY DEF StreamInv, Sequential
<1>3. a = n
  BY <1>1, <1>2
<1> QED BY <1>3 DEF StreamInv, Sequential

(* An attempt that is over, or has not begun, does not depend on the flags.*)
LEMMA Rests ==
  ASSUME NEW b \in Attempt, BodyOK(b), EndOK(b), reader[b] \in {"none"} \cup Over,
         reader'[b] = reader[b], item'[b] = item[b], watch'[b] = watch[b], timer'[b] = timer[b],
         body'[b] = body[b], stale'[b] = stale[b], finals'[b] = finals[b],
         orphans'[b] = orphans[b]
  PROVE  BodyOK(b)' /\ EndOK(b)'
BY DEF BodyOK, EndOK, Unreleased, Chunked, Leaving, Over

(* A step of the attempt that is under way leaves the others alone.        *)
LEMMA StepOfOne ==
  ASSUME StreamInv, NEW a \in Attempt, reader[a] \notin {"none"} \cup Over, StreamTypeOK',
         UNCHANGED <<n, worker>>, reader'[a] # "none",
         \A b \in Attempt : b # a =>
           /\ reader'[b] = reader[b] /\ item'[b] = item[b] /\ watch'[b] = watch[b]
           /\ timer'[b] = timer[b] /\ body'[b] = body[b] /\ stale'[b] = stale[b]
           /\ finals'[b] = finals[b] /\ orphans'[b] = orphans[b] /\ shut'[b] = shut[b],
         shut'[a] => reader'[a] \in Over, BodyOK(a)', EndOK(a)'
  PROVE  StreamInv'
<1>0. /\ Sequential /\ a = n /\ worker \notin {"attempt", "failed"}
      /\ \A b \in Attempt : BodyOK(b) /\ EndOK(b)
  BY OneUnderWay DEF StreamInv
<1>1. ASSUME NEW b \in Attempt, b # a PROVE BodyOK(b)' /\ EndOK(b)'
  <2>1. reader[b] \in {"none"} \cup Over
    BY <1>0, <1>1, OneUnderWay
  <2> QED BY <1>0, <1>1, <2>1, Rests
<1>2. Sequential'
  <2>1. n \in Int
    BY DEF StreamInv, StreamTypeOK, Attempt
  <2> QED BY <1>0, <2>1 DEF Sequential
<1> QED BY <1>1, <1>2 DEF StreamInv

(* The provider's goroutine reads, lets the hooks run and sends.           *)
LEMMA ReadingKeeps ==
  ASSUME StreamInv, NEW a \in Attempt,
         ReadChunk(a) \/ ReadEnds(a) \/ Hook(a) \/ GateSendChunk(a) \/ Sent(a)
  PROVE  StreamInv'
<1>0. StreamTypeOK /\ Sequential /\ BodyOK(a) /\ EndOK(a)
  BY DEF StreamInv
<1>1. CASE ReadChunk(a) \/ ReadEnds(a)
  <2>1. /\ UNCHANGED <<ctxErr, closed, span, n, worker, shut, watch, timer, body, held, stale,
                       finals, orphans>>
        /\ reader[a] = "read"
    BY <1>1 DEF ReadChunk, ReadEnds
  <2>2. CASE ctxErr /\ reader' = [reader EXCEPT ![a] = "unwind"] /\ UNCHANGED <<item, ended>>
    <3>1. StreamTypeOK'
      BY <1>0, <2>1, <2>2 DEF StreamTypeOK, PC, Leaving
    <3>2. BodyOK(a)' /\ EndOK(a)'
      BY <1>0, <2>1, <2>2 DEF StreamTypeOK, BodyOK, EndOK, Unreleased, Chunked,
         Leaving, Over
    <3>3. reader[a] \notin {"none"} \cup Over /\ ~shut[a]
      BY <1>0, <2>1 DEF Sequential, Over
    <3> QED BY <1>0, <2>1, <2>2, <3>1, <3>2, <3>3, StepOfOne DEF StreamTypeOK
  <2>3. CASE \E c \in {"data", "final", "error", "unread"} : Process(a, c)
    <3>1. PICK c \in {"data", "final", "error", "unread"} :
            /\ item' = [item EXCEPT ![a] = c] /\ reader' = [reader EXCEPT ![a] = "hook"]
            /\ ended' = (ended \/ c # "data")
      BY <2>3 DEF Process, GoTo
    <3>2. StreamTypeOK'
      BY <1>0, <2>1, <3>1 DEF StreamTypeOK, PC, Chunked, Chunk, Error
    <3>3. BodyOK(a)' /\ EndOK(a)'
      BY <1>0, <2>1, <3>1 DEF StreamTypeOK, BodyOK, EndOK, Unreleased, Chunked,
         Leaving, Over
    <3>4. reader[a] \notin {"none"} \cup Over /\ ~shut[a]
      BY <1>0, <2>1 DEF Sequential, Over
    <3> QED BY <1>0, <2>1, <3>1, <3>2, <3>3, <3>4, StepOfOne DEF StreamTypeOK
  <2> QED BY <1>1, <2>2, <2>3 DEF ReadChunk, ReadEnds, GoTo
<1>2. CASE Hook(a)
  <2>1. /\ UNCHANGED <<ctxErr, ended, closed, span, n, worker, item, shut, watch, timer, body,
                       held, stale>>
        /\ reader[a] = "hook" /\ reader' = [reader EXCEPT ![a] = "send"]
        /\ finals' = [finals EXCEPT ![a] = finals[a] + (IF ended THEN 1 ELSE 0)]
        /\ orphans' = [orphans EXCEPT ![a] = orphans[a] + (IF held[a] THEN 0 ELSE 1)]
    BY <1>2 DEF Hook, GoTo, ctxVars
  <2>2. StreamTypeOK'
    BY <1>0, <2>1 DEF StreamTypeOK, PC, Chunked
  <2>3. BodyOK(a)' /\ EndOK(a)'
    BY <1>0, <2>1 DEF StreamTypeOK, BodyOK, EndOK, Unreleased, Chunked, Leaving, Over
  <2>4. reader[a] \notin {"none"} \cup Over /\ ~shut[a]
    BY <1>0, <2>1 DEF Sequential, Over
  <2> QED BY <1>0, <2>1, <2>2, <2>3, <2>4, StepOfOne DEF StreamTypeOK
<1>3. CASE GateSendChunk(a)
  <2>1. /\ UNCHANGED <<ctxErr, ended, closed, span, n, worker, item, shut, watch, timer, body,
                       held, stale, finals, orphans>>
        /\ reader[a] = "send" /\ reader' = [reader EXCEPT ![a] = "sent"]
    BY <1>3 DEF GateSendChunk, GoTo, ctxVars
  <2>2. StreamTypeOK'
    BY <1>0, <2>1 DEF StreamTypeOK, PC, Chunked
  <2>3. BodyOK(a)' /\ EndOK(a)'
    BY <1>0, <2>1 DEF StreamTypeOK, BodyOK, EndOK, Unreleased, Chunked, Leaving, Over
  <2>4. reader[a] \notin {"none"} \cup Over /\ ~shut[a]
    BY <1>0, <2>1 DEF Sequential, Over
  <2> QED BY <1>0, <2>1, <2>2, <2>3, <2>4, StepOfOne DEF StreamTypeOK
<1>4. CASE Sent(a)
  <2>1. /\ UNCHANGED <<ctxErr, ended, closed, n, worker, item, shut, watch, timer, body, stale,
                       finals, orphans>>
        /\ reader[a] = "sent"
        /\ \/ item[a] = "data" /\ reader' = [reader EXCEPT ![a] = "read"]
           \/ item[a] = "cancelled" /\ reader' = [reader EXCEPT ![a] = "close"]
           \/ item[a] \notin {"data", "cancelled"} /\ reader' = [reader EXCEPT ![a] = "unwind"]
    BY <1>4 DEF Sent, GoTo
  <2>2. /\ span' \in BOOLEAN /\ held' \in [Attempt -> BOOLEAN]
        /\ \A b \in Attempt : b # a => held'[b] = held[b]
        /\ ~ended => held' = held
    BY <1>0, <1>4 DEF Sent, IsLast, CompleteSpan, StreamTypeOK
  <2>3. StreamTypeOK'
    BY <1>0, <2>1, <2>2 DEF StreamTypeOK, PC, Leaving
  <2>4. BodyOK(a)'
    BY <1>0, <2>1 DEF StreamTypeOK, BodyOK, Unreleased, Chunked
  <2>5. EndOK(a)'
    BY <1>0, <2>1, <2>2 DEF StreamTypeOK, EndOK, Leaving, Over
  <2>6. reader[a] \notin {"none"} \cup Over /\ ~shut[a]
    BY <1>0, <2>1 DEF Sequential, Over
  <2> QED BY <1>0, <2>1, <2>3, <2>4, <2>5, <2>6, StepOfOne DEF StreamTypeOK
<1> QED BY <1>1, <1>2, <1>3, <1>4

(* The canceller and the idle timer, of which at most one closes the body. *)
LEMMA ClaimingKeeps ==
  ASSUME StreamInv, NEW a \in Attempt, Canceller(a) \/ IdleTimeout(a)
  PROVE  StreamInv'
<1>0. StreamTypeOK /\ Sequential /\ BodyOK(a) /\ EndOK(a)
  BY DEF StreamInv
<1>1. /\ UNCHANGED <<ctxErr, ended, span, n, worker, reader, item, shut, held, stale, finals,
                     orphans>>
      /\ watch[a] \/ timer[a]
      /\ watch' = watch \/ watch' = [watch EXCEPT ![a] = FALSE]
      /\ timer' = timer \/ timer' = [timer EXCEPT ![a] = FALSE]
  BY DEF Canceller, IdleTimeout
<1>2. \/ UNCHANGED <<closed, body>>
      \/ closed /\ closed' = TRUE /\ body' = body
      \/ ~closed /\ closed' = TRUE /\ body' = [body EXCEPT ![a] = body[a] + 1]
  BY DEF Canceller, IdleTimeout, Claim
<1>3. Unreleased(a) /\ reader[a] # "release" /\ reader[a] # "none"
  BY <1>0, <1>1 DEF BodyOK, Unreleased, Chunked
<1>4. StreamTypeOK'
  <2>1. watch' \in [Attempt -> BOOLEAN] /\ timer' \in [Attempt -> BOOLEAN]
    BY <1>0, <1>1 DEF StreamTypeOK
  <2>2. closed' = closed \/ closed' = TRUE
    BY <1>2
  <2>3. body' = body \/ body' = [body EXCEPT ![a] = body[a] + 1]
    BY <1>2
  <2>4. body' \in [Attempt -> Nat]
    BY <1>0, <2>3 DEF StreamTypeOK
  <2>5. closed' \in BOOLEAN
    BY <1>0, <2>2, Zenon DEF StreamTypeOK
  <2> QED BY <1>0, <1>1, <2>1, <2>4, <2>5 DEF StreamTypeOK
<1>5. BodyOK(a)'
  BY <1>0, <1>1, <1>2, <1>3 DEF StreamTypeOK, BodyOK, Unreleased, Chunked
<1>6. EndOK(a)'
  BY <1>0, <1>1 DEF EndOK
<1>7. reader[a] \notin {"none"} \cup Over
  BY <1>3 DEF Unreleased, Chunked, Over
<1> QED BY <1>0, <1>1, <1>2, <1>4, <1>5, <1>6, <1>7, StepOfOne
           DEF StreamTypeOK, Sequential

(* The goroutine's way out: the deferred calls, the release, the last      *)
(* message and the close.                                                  *)
LEMMA LeavingKeeps ==
  ASSUME StreamInv, NEW a \in Attempt,
         Unwind(a) \/ Release(a) \/ Drained(a) \/ Farewell(a) \/ Close(a)
  PROVE  StreamInv'
<1>0. StreamTypeOK /\ Sequential /\ BodyOK(a) /\ EndOK(a)
  BY DEF StreamInv
<1>1. CASE Unwind(a)
  <2>1. /\ UNCHANGED <<ctxErr, ended, closed, span, n, worker, item, shut, watch, body, held,
                       stale, finals, orphans>>
        /\ reader[a] = "unwind" /\ reader' = [reader EXCEPT ![a] = "release"]
        /\ ~watch[a] /\ timer' = [timer EXCEPT ![a] = FALSE]
    BY <1>1 DEF Unwind, GoTo, ctxVars
  <2>2. StreamTypeOK'
    BY <1>0, <2>1 DEF StreamTypeOK, PC, Leaving
  <2>3. BodyOK(a)' /\ EndOK(a)'
    BY <1>0, <2>1 DEF StreamTypeOK, BodyOK, EndOK, Unreleased, Chunked, Leaving, Over
  <2>4. reader[a] \notin {"none"} \cup Over /\ ~shut[a]
    BY <1>0, <2>1 DEF Sequential, Over
  <2> QED BY <1>0, <2>1, <2>2, <2>3, <2>4, StepOfOne DEF StreamTypeOK
<1>2. CASE Release(a)
  <2>1. /\ UNCHANGED <<ctxErr, ended, span, n, worker, item, shut, watch, timer, body, held,
                       stale, finals, orphans>>
        /\ reader[a] = "release" /\ closed' = TRUE
        /\ \/ closed /\ reader' = [reader EXCEPT ![a] = "farewell"]
           \/ ~closed /\ reader' = [reader EXCEPT ![a] = "drain"]
    BY <1>2 DEF Release, GoTo
  <2>2. StreamTypeOK'
    BY <1>0, <2>1 DEF StreamTypeOK, PC, Leaving
  <2>3. BodyOK(a)' /\ EndOK(a)'
    BY <1>0, <2>1 DEF StreamTypeOK, BodyOK, EndOK, Unreleased, Chunked, Leaving, Over
  <2>4. reader[a] \notin {"none"} \cup Over /\ ~shut[a]
    BY <1>0, <2>1 DEF Sequential, Over
  <2> QED BY <1>0, <2>1, <2>2, <2>3, <2>4, StepOfOne DEF StreamTypeOK
<1>3. CASE Drained(a)
  <2>1. /\ UNCHANGED <<ctxErr, ended, closed, span, n, worker, item, shut, watch, timer, held,
                       stale, finals, orphans>>
        /\ reader[a] = "drain" /\ reader' = [reader EXCEPT ![a] = "farewell"]
        /\ body' = [body EXCEPT ![a] = body[a] + 1]
    BY <1>3 DEF Drained, GoTo, ctxVars
  <2>2. StreamTypeOK'
    BY <1>0, <2>1 DEF StreamTypeOK, PC, Leaving
  <2>3. BodyOK(a)' /\ EndOK(a)'
    BY <1>0, <2>1 DEF StreamTypeOK, BodyOK, EndOK, Unreleased, Chunked, Leaving, Over
  <2>4. reader[a] \notin {"none"} \cup Over /\ ~shut[a]
    BY <1>0, <2>1 DEF Sequential, Over
  <2> QED BY <1>0, <2>1, <2>2, <2>3, <2>4, StepOfOne DEF StreamTypeOK
<1>4. CASE Farewell(a)
  <2>1. /\ UNCHANGED <<ctxErr, closed, span, n, worker, shut, watch, timer, body, held, stale,
                       finals, orphans>>
        /\ reader[a] = "farewell"
        /\ \/ /\ ctxErr /\ ~ended /\ ended' = TRUE /\ reader' = [reader EXCEPT ![a] = "hook"]
              /\ item' = [item EXCEPT ![a] = "cancelled"]
           \/ /\ ~ctxErr \/ ended
              /\ UNCHANGED <<item, ended>> /\ reader' = [reader EXCEPT ![a] = "close"]
    BY <1>4 DEF Farewell, Process, GoTo
  <2>2. StreamTypeOK'
    BY <1>0, <2>1 DEF StreamTypeOK, PC, Chunked, Chunk, Error
  <2>3. BodyOK(a)' /\ EndOK(a)'
    BY <1>0, <2>1 DEF StreamTypeOK, BodyOK, EndOK, Unreleased, Chunked, Leaving, Over
  <2>4. reader[a] \notin {"none"} \cup Over /\ ~shut[a]
    BY <1>0, <2>1 DEF Sequential, Over
  <2> QED BY <1>0, <2>1, <2>2, <2>3, <2>4, StepOfOne DEF StreamTypeOK
<1>5. CASE Close(a)
  <2>1. /\ UNCHANGED <<ctxErr, ended, closed, span, n, worker, item, watch, timer, body, held,
                       stale, finals, orphans>>
        /\ reader[a] = "close" /\ reader' = [reader EXCEPT ![a] = "finalize"]
        /\ shut' = [shut EXCEPT ![a] = TRUE]
    BY <1>5 DEF Close, GoTo, ctxVars
  <2>2. StreamTypeOK'
    BY <1>0, <2>1 DEF StreamTypeOK, PC, Over
  <2>3. BodyOK(a)' /\ EndOK(a)'
    BY <1>0, <2>1 DEF StreamTypeOK, BodyOK, EndOK, Unreleased, Chunked, Leaving, Over
  <2>4. reader[a] \notin {"none"} \cup Over /\ reader'[a] \in Over
    BY <1>0, <2>1 DEF StreamTypeOK, Over
  <2> QED BY <1>0, <2>1, <2>2, <2>3, <2>4, StepOfOne DEF StreamTypeOK
<1> QED BY <1>1, <1>2, <1>3, <1>4, <1>5

(* A finalizer may run while the next attempt is already under way.        *)
LEMMA FinalizeKeeps == ASSUME StreamInv, NEW a \in Attempt, Finalize(a) PROVE StreamInv'
<1>0. StreamTypeOK /\ Sequential /\ \A b \in Attempt : BodyOK(b) /\ EndOK(b)
  BY DEF StreamInv
<1>1. /\ UNCHANGED <<ctxErr, ended, closed, n, worker, item, shut, watch, timer, body, stale,
                     finals, orphans>>
      /\ reader[a] = "finalize" /\ reader' = [reader EXCEPT ![a] = "gone"]
      /\ held' = [held EXCEPT ![a] = FALSE] /\ span' = FALSE
  BY DEF Finalize, GoTo
<1>2. StreamTypeOK'
  BY <1>0, <1>1 DEF StreamTypeOK, PC, Over
<1>3. /\ reader'[a] = "gone"
      /\ \A b \in Attempt : b # a => reader'[b] = reader[b] /\ held'[b] = held[b]
  BY <1>0, <1>1 DEF StreamTypeOK
<1>4. Sequential'
  BY <1>0, <1>1, <1>3 DEF Sequential, Over, StreamTypeOK, Attempt
<1>5. ASSUME NEW b \in Attempt PROVE BodyOK(b)' /\ EndOK(b)'
  <2>1. CASE b = a
    BY <1>0, <1>1, <1>3, <2>1 DEF BodyOK, EndOK, Unreleased, Chunked, Leaving, Over
  <2>2. CASE b # a
    BY <1>0, <1>1, <1>3, <2>2 DEF BodyOK, EndOK, Unreleased
  <2> QED BY <2>1, <2>2
<1> QED BY <1>2, <1>4, <1>5 DEF StreamInv

(* An attempt begins with its own body, and nobody else's claim on it.     *)
LEMMA StartKeeps == ASSUME StreamInv, StartAttempt PROVE StreamInv'
<1>0. /\ StreamTypeOK /\ Sequential /\ \A b \in Attempt : BodyOK(b) /\ EndOK(b)
  BY DEF StreamInv
<1>1. /\ UNCHANGED <<ctxErr, ended, closed, span, n, item, shut, body, finals, orphans>>
      /\ worker = "attempt" /\ stale' = [stale EXCEPT ![n] = ended]
      /\ \/ /\ worker' = "first" /\ reader' = [reader EXCEPT ![n] = "read"]
            /\ watch' = [watch EXCEPT ![n] = TRUE] /\ timer' = [timer EXCEPT ![n] = TRUE]
            /\ held' = [held EXCEPT ![n] = TRUE]
         \/ worker' = "failed" /\ UNCHANGED <<reader, watch, timer, held>>
  BY DEF StartAttempt, ctxVars
<1>2. StreamTypeOK' /\ n \in Attempt /\ n \in Int
  <2>1. n \in Attempt /\ n \in Int
    BY <1>0 DEF StreamTypeOK, Attempt
  <2> QED BY <1>0, <1>1, <2>1 DEF StreamTypeOK, PC
<1>3. Sequential'
  BY <1>0, <1>1, <1>2 DEF StreamTypeOK, Sequential, Over
<1>4. ASSUME NEW b \in Attempt PROVE BodyOK(b)' /\ EndOK(b)'
  <2>1. CASE b = n
    <3>1. reader[b] = "none" /\ ~closed
      BY <1>0, <1>1, <2>1 DEF Sequential
    <3>2. BodyOK(b)'
      BY <1>0, <1>1, <1>2, <2>1, <3>1 DEF StreamTypeOK, BodyOK, Unreleased, Chunked
    <3>3. EndOK(b)'
      BY <1>0, <1>1, <1>2, <2>1, <3>1 DEF StreamTypeOK, EndOK, Leaving, Over
    <3> QED BY <3>2, <3>3
  <2>2. CASE b # n
    BY <1>0, <1>1, <1>2, <2>2 DEF StreamTypeOK, BodyOK, EndOK, Unreleased
  <2> QED BY <2>1, <2>2
<1> QED BY <1>2, <1>3, <1>4 DEF StreamInv

(* The other steps of the worker: what it takes from the channel, and how  *)
(* it goes on after a failure.                                             *)
LEMMA WorkerKeeps ==
  ASSUME StreamInv,
         \/ FirstIsData \/ FirstIsNothing \/ FirstIsError \/ DrainStream \/ Retry \/ Fallback
         \/ Fail \/ Forward \/ Consume \/ ClientLeaves \/ UNCHANGED streamVars
  PROVE  StreamInv'
<1>0. /\ StreamTypeOK /\ Sequential /\ \A b \in Attempt : BodyOK(b) /\ EndOK(b)
  BY DEF StreamInv
<1>1. UNCHANGED <<reader, item, shut, watch, timer, body, stale, finals, orphans>>
  BY DEF FirstIsData, FirstIsNothing, FirstIsError, DrainStream, Retry, Fallback, Fail,
     Forward, Consume,
         ClientLeaves, streamVars
<1>2. CASE \/ FirstIsData \/ FirstIsNothing \/ FirstIsError \/ Forward \/ Consume \/ ClientLeaves
           \/ UNCHANGED streamVars \/ (DrainStream /\ ~shut[n])
  <2>1. /\ UNCHANGED <<ended, closed, n, held>> /\ span' \in BOOLEAN /\ ctxErr' \in BOOLEAN
        /\ (ctxErr => ctxErr') /\ (worker' = worker \/ worker' \in {"drain", "done"})
    BY <1>0, <1>2 DEF StreamTypeOK, FirstIsData, FirstIsNothing, FirstIsError, Forward,
       Consume,
       ClientLeaves, streamVars, DrainStream, ctxVars
  <2>2. StreamTypeOK'
    BY <1>0, <1>1, <2>1 DEF StreamTypeOK
  <2>3. Sequential'
    BY <1>0, <1>1, <2>1 DEF Sequential
  <2>4. \A b \in Attempt : BodyOK(b)' /\ EndOK(b)'
    BY <1>0, <1>1, <2>1 DEF BodyOK, EndOK, Unreleased
  <2> QED BY <2>2, <2>4, <2>3 DEF StreamInv
<1>3. CASE Retry \/ Fallback \/ Fail \/ (DrainStream /\ shut[n])
  <2>1. \/ /\ worker' = "attempt" /\ n' = n + 1 /\ n < MaxAttempts /\ worker = "failed"
           /\ closed' => closed
        \/ worker' = "failed" /\ n' = n /\ ~closed' /\ shut[n]
        \/ worker' = "done" /\ n' = n /\ worker = "failed"
    BY <1>3 DEF Retry, Fallback, Fail, DrainStream, ctxVars
  <2>2. /\ ctxErr' = ctxErr /\ ended' \in BOOLEAN /\ closed' \in BOOLEAN /\ span' = span
        /\ held' \in [Attempt -> BOOLEAN]
    BY <1>0, <1>3 DEF StreamTypeOK, Retry, Fallback, Fail, DrainStream, ctxVars
  <2>3. n' \in Attempt
    BY <1>0, <2>1, StreamAssumption DEF StreamTypeOK, Attempt
  <2>4. n \in Int /\ reader[n] \in {"none"} \cup Over
    BY <1>0, <2>1 DEF StreamTypeOK, Sequential, Attempt
  <2>5. \A b \in Attempt : reader[b] \in {"none"} \cup Over
    BY <2>4, OneUnderWay
  <2>6. StreamTypeOK'
    BY <1>0, <1>1, <2>1, <2>2, <2>3 DEF StreamTypeOK
  <2>7. \A b \in Attempt : b \in Int
    BY DEF Attempt
  <2>8. Sequential'
    BY <1>0, <1>1, <2>1, <2>4, <2>5, <2>7, <2>3 DEF Sequential
  <2>9. \A b \in Attempt : BodyOK(b)' /\ EndOK(b)'
    BY <1>0, <1>1, <2>5, Rests
  <2> QED BY <2>6, <2>8, <2>9 DEF StreamInv
<1> QED BY <1>2, <1>3

(* The inductive invariant of a streaming request holds, whatever attempts,*)
(* timers, cancellers, finalizers and clients are interleaved.             *)
THEOREM StreamsInvariant == StreamSpec => []StreamInv
<1>1. StreamInit => StreamInv
  BY StreamInvInit
<1>2. StreamInv /\ [StreamNext]_streamVars => StreamInv'
  <2> SUFFICES ASSUME StreamInv, [StreamNext]_streamVars PROVE StreamInv'
    OBVIOUS
  <2>1. CASE StartAttempt
    BY <2>1, StartKeeps
  <2>2. CASE \/ FirstIsData \/ FirstIsNothing \/ FirstIsError \/ DrainStream \/ Retry \/ Fallback
             \/ Fail \/ Forward \/ Consume \/ ClientLeaves \/ UNCHANGED streamVars
    BY <2>2, WorkerKeeps
  <2>3. ASSUME NEW a \in Attempt, ReadChunk(a) \/ Drained(a) \/ Ends(a) PROVE StreamInv'
    BY <2>3, ReadingKeeps, ClaimingKeeps, LeavingKeeps, FinalizeKeeps DEF Ends
  <2> QED BY <2>1, <2>2, <2>3 DEF StreamNext, Work
<1> QED BY <1>1, <1>2, PTL DEF StreamSpec

(* BodyClosedOnce: of the canceller, the idle timer and the release exactly*)
(* one closes each response's body, though all attempts share one flag.    *)
THEOREM BodiesClosedOnce == StreamSpec => []BodyClosedOnce
<1>1. StreamInv => BodyClosedOnce
  BY DEF StreamInv, BodyOK, Unreleased, Chunked, BodyClosedOnce
<1> QED BY <1>1, StreamsInvariant, PTL

(* EndToldOnce: the plugins are told of the end of every attempt that began*)
(* with a clean flag, and once.                                            *)
THEOREM EndsToldOnce == StreamSpec => []EndToldOnce
<1>1. StreamInv => EndToldOnce
  <2> SUFFICES ASSUME StreamInv, NEW a \in Attempt, ~stale[a]
               PROVE  /\ finals[a] <= 1
                      /\ reader[a] \in {"close", "finalize", "gone"} => finals[a] = 1
    BY DEF EndToldOnce
  <2>1. EndOK(a) /\ reader[a] \in PC
    BY DEF StreamInv, StreamTypeOK
  <2> QED BY <2>1 DEF EndOK, PC, Chunked, Leaving, Over
<1> QED BY <1>1, StreamsInvariant, PTL

(* HooksHoldPipeline: no post hook of such an attempt runs on a pipeline   *)
(* that was given back.                                                    *)
THEOREM HooksKeepPipeline == StreamSpec => []HooksHoldPipeline
<1>1. StreamInv => HooksHoldPipeline
  BY DEF StreamInv, EndOK, HooksHoldPipeline
<1> QED BY <1>1, StreamsInvariant, PTL
=============================================================================
