--------------------------- MODULE ProviderQueues ---------------------------
(***************************************************************************)
(* The life of one provider of pkg/bifrost_core/bifrost.go: the queue that *)
(* requests are sent to, the workers that serve it, and UpdateProvider,    *)
(* RemoveProvider and Shutdown, which replace or stop them under traffic.  *)
(* Every ProviderQueue ever made is a generation 1, 2, ...; 0 stands for   *)
(* none.  Plugins and what a worker does with a request are other modules. *)
(***************************************************************************)
EXTENDS Integers, Sequences, FiniteSets

CONSTANTS
  Caller,       \* requests, each from tryRequest on
  Batch,        \* the callers that come through BatchCreateRequest
  Admin,        \* calls of UpdateProvider, RemoveProvider and Shutdown
  Operation,    \* which of them may be made
  Worker,       \* Concurrency of them per generation
  BufferSize,   \* of a queue
  MaxGen,       \* bound on generations
  Created,      \* outcomes of createBaseProvider that may occur
  Nobody

ASSUME QueueAssumption ==
  /\ Batch \subseteq Caller /\ Caller \cap Admin = {} /\ Nobody \notin Caller \cup Admin
  /\ Operation \subseteq {"Update", "Remove", "Shutdown"} /\ Created \subseteq BOOLEAN
  /\ BufferSize \in Nat \ {0} /\ MaxGen \in Nat \ {0} /\ Worker # {}

Gen == 1..MaxGen

VARIABLES
  queue,      \* [Gen -> Seq(Caller)]: pq.queue, never closed
  closing,    \* [Gen -> BOOLEAN]: pq.closing and pq.done, set together
  last,       \* the newest generation
  current,    \* requestQueues and waitGroups, stored and deleted together
  listed,     \* the provider is in the providers slice
  wpc, job,   \* [Gen -> [Worker -> ...]]: where a worker is, its request
  cleanup,    \* [Gen -> {"none", "wait", "sweep"}]: cleanup goroutine of UpdateProvider
  mutex,      \* who holds the provider's mutex for writing
  lifecycle,  \* updates that hold providerLifecycleMu for reading
  stopping,   \* the Shutdown that holds it for writing
  down,       \* bifrost.ctx is cancelled
  drop,       \* dropExcessRequests
  pc, pq,     \* [Caller -> ...]: where a caller is, the queue it uses
  ctxDone,    \* [Caller -> BOOLEAN]
  answer,     \* [Caller -> ...]: what the message's Response or Err channel holds
  fate,       \* [Caller -> ...]: what the caller has returned
  apc, target \* [Admin -> ...]: where an admin is, the old queue it works on

queueVars == <<queue, closing, last, current, listed>>
workerVars == <<wpc, job, cleanup>>
lockVars == <<mutex, lifecycle, stopping, down>>
callerVars == <<pc, pq, ctxDone, answer, fate>>
adminVars == <<apc, target>>
vars == <<queueVars, workerVars, lockVars, callerVars, adminVars, drop>>

Running == {"idle", "busy", "drain"}

\* The wait group of a generation is zero.
Finished(g) == \A w \in Worker : wpc[g][w] \notin Running

Put(f, x, v) == [f EXCEPT ![x] = v]

\* Init has prepared the provider, or has skipped it.
Init ==
  /\ \E here \in BOOLEAN :
       /\ last = IF here THEN 1 ELSE 0
       /\ current = last /\ listed = here
       /\ wpc = [g \in Gen |-> [w \in Worker |-> IF g = last THEN "idle" ELSE "off"]]
  /\ queue = [g \in Gen |-> <<>>] /\ closing = [g \in Gen |-> FALSE]
  /\ job = [g \in Gen |-> [w \in Worker |-> Nobody]]
  /\ cleanup = [g \in Gen |-> "none"]
  /\ mutex = Nobody /\ lifecycle = {} /\ stopping = Nobody /\ down = FALSE
  /\ drop \in BOOLEAN
  /\ pc = [c \in Caller |-> IF c \in Batch THEN "byKey" ELSE "lookup"]
  /\ pq = [c \in Caller |-> 0] /\ ctxDone = [c \in Caller |-> FALSE]
  /\ answer = [c \in Caller |-> "none"] /\ fate = [c \in Caller |-> "none"]
  /\ apc = [a \in Admin |-> "idle"] /\ target = [a \in Admin |-> 0]

----------------------------------------------------------------------------
(* prepareProvider, under the provider's mutex, by callers and by updates. *)

\* The queue and its wait group are stored before the provider is created.
Publish(who) ==
  /\ mutex = Nobody /\ mutex' = who
  /\ last < MaxGen
  /\ last' = last + 1 /\ current' = last + 1
  /\ UNCHANGED <<queue, closing, listed>>

\* Workers start when createBaseProvider succeeds, otherwise the queue stays as it is.
Start(who, ok) ==
  /\ mutex = who /\ mutex' = Nobody /\ ok \in Created
  /\ listed' = (listed \/ ok)
  /\ wpc' = IF ok THEN [wpc EXCEPT ![last] = [w \in Worker |-> "idle"]] ELSE wpc
  /\ UNCHANGED <<queue, closing, last, current, job, cleanup>>

----------------------------------------------------------------------------
(* A caller: getProviderByKey, getProviderQueue and tryRequest.            *)

Goto(c, from, to) == pc[c] = from /\ pc' = Put(pc, c, to)

Return(c, result) ==
  /\ pc' = Put(pc, c, "done") /\ fate' = Put(fate, c, result)

Idle == UNCHANGED <<workerVars, adminVars, drop>>

\* getProviderByKey: found, without configuration, or prepared under the mutex.
FindByKey(c) ==
  /\ \/ listed /\ Goto(c, "byKey", "lookup") /\ UNCHANGED fate
     \/ ~listed /\ pc[c] = "byKey" /\ Return(c, "error")
  /\ Idle /\ UNCHANGED <<queueVars, lockVars, pq, ctxDone, answer>>

PrepareByKey(c) ==
  /\ ~listed /\ Goto(c, "byKey", "prepareByKey") /\ Publish(c)
  /\ Idle /\ UNCHANGED <<lifecycle, stopping, down, pq, ctxDone, answer, fate>>

PreparedByKey(c, ok) ==
  /\ pc[c] = "prepareByKey" /\ Start(c, ok)
  /\ IF ok THEN Goto(c, "prepareByKey", "lookup") /\ UNCHANGED fate ELSE Return(c, "error")
  /\ UNCHANGED <<lifecycle, stopping, down, pq, ctxDone, answer, adminVars, drop>>

\* getProviderQueue: under the read lock, or again under the write lock.
Lookup(c) ==
  /\ mutex = Nobody /\ current # 0 /\ Goto(c, "lookup", "check")
  /\ pq' = Put(pq, c, current)
  /\ Idle /\ UNCHANGED <<queueVars, lockVars, ctxDone, answer, fate>>

\* The account has no configuration, or an error.
NoConfig(c) ==
  /\ mutex = Nobody /\ current = 0 /\ pc[c] = "lookup" /\ Return(c, "error")
  /\ Idle /\ UNCHANGED <<queueVars, lockVars, pq, ctxDone, answer>>

Prepare(c) ==
  /\ current = 0 /\ Goto(c, "lookup", "prepare") /\ Publish(c)
  /\ Idle /\ UNCHANGED <<lifecycle, stopping, down, pq, ctxDone, answer, fate>>

Prepared(c, ok) ==
  /\ pc[c] = "prepare" /\ Start(c, ok)
  /\ IF ok THEN Goto(c, "prepare", "check") /\ pq' = Put(pq, c, current) /\ UNCHANGED fate
           ELSE Return(c, "error") /\ UNCHANGED pq
  /\ UNCHANGED <<lifecycle, stopping, down, ctxDone, answer, adminVars, drop>>

\* isClosing after the plugins ran: another open queue in the map is taken instead.
Check(c) ==
  LET reroute == current # 0 /\ current # pq[c] /\ ~closing[current] IN
  /\ pc[c] = "check"
  /\ \/ ~closing[pq[c]] /\ Goto(c, "check", "send") /\ UNCHANGED <<pq, fate>>
     \/ closing[pq[c]] /\ reroute /\ Goto(c, "check", "send")
          /\ pq' = Put(pq, c, current) /\ UNCHANGED fate
     \/ closing[pq[c]] /\ ~reroute /\ Return(c, "closing") /\ UNCHANGED pq
  /\ Idle /\ UNCHANGED <<queueVars, lockVars, ctxDone, answer>>

Room(g) == Len(queue[g]) < BufferSize

\* The ready cases of the select statements; any of them may be chosen.
Send(c) ==
  /\ pc[c] \in {"send", "block"} /\ Room(pq[c])
  /\ pc' = Put(pc, c, "wait")
  /\ queue' = [queue EXCEPT ![pq[c]] = Append(@, c)]
  /\ Idle /\ UNCHANGED <<closing, last, current, listed, lockVars, pq, ctxDone, answer, fate>>

SendFails(c) ==
  /\ pc[c] \in {"send", "block"}
  /\ \/ closing[pq[c]] /\ Return(c, "closing")
     \/ ctxDone[c] /\ Return(c, "cancelled")
  /\ Idle /\ UNCHANGED <<queueVars, lockVars, pq, ctxDone, answer>>

\* default: nothing was ready.
Full(c) ==
  /\ pc[c] = "send" /\ ~Room(pq[c]) /\ ~closing[pq[c]] /\ ~ctxDone[c]
  /\ IF drop THEN Return(c, "dropped") ELSE Goto(c, "send", "block") /\ UNCHANGED fate
  /\ Idle /\ UNCHANGED <<queueVars, lockVars, pq, ctxDone, answer>>

Receive(c) ==
  /\ pc[c] = "wait"
  /\ \/ answer[c] # "none" /\ Return(c, answer[c])
     \/ ctxDone[c] /\ Return(c, "cancelled")
  /\ Idle /\ UNCHANGED <<queueVars, lockVars, pq, ctxDone, answer>>

\* The request's context ends: client gone or deadline.
Cancel(c) ==
  /\ ~ctxDone[c] /\ pc[c] # "done" /\ ctxDone' = Put(ctxDone, c, TRUE)
  /\ Idle /\ UNCHANGED <<queueVars, lockVars, pc, pq, answer, fate>>

----------------------------------------------------------------------------
(* requestWorker.                                                          *)

Step(g, w, from, to) == wpc[g][w] = from /\ wpc' = [wpc EXCEPT ![g][w] = to]

Others == UNCHANGED <<lockVars, adminVars, drop>>

Take(g, w) ==
  /\ queue[g] # <<>> /\ Step(g, w, "idle", "busy")
  /\ job' = [job EXCEPT ![g][w] = Head(queue[g])]
  /\ queue' = [queue EXCEPT ![g] = Tail(@)]
  /\ Others /\ UNCHANGED <<closing, last, current, listed, cleanup, callerVars>>

\* The provider has answered, or failed; the caller may be gone, and then the
\* select sends into the buffered channel or gives up.
Answer(g, w) ==
  LET c == job[g][w] IN
  /\ Step(g, w, "busy", "idle")
  /\ job' = [job EXCEPT ![g][w] = Nobody]
  /\ \/ answer' = Put(answer, c, "served")
     \/ ctxDone[c] /\ UNCHANGED answer
  /\ Others /\ UNCHANGED <<queueVars, cleanup, pc, pq, ctxDone, fate>>

SeeDone(g, w) ==
  /\ closing[g] /\ Step(g, w, "idle", "drain")
  /\ Others /\ UNCHANGED <<queueVars, job, cleanup, callerVars>>

\* One message of a closed queue gets the error.
Refuse(g, why) ==
  LET c == Head(queue[g]) IN
  /\ queue[g] # <<>> /\ queue' = [queue EXCEPT ![g] = Tail(@)]
  /\ \/ answer' = Put(answer, c, why)
     \/ ctxDone[c] /\ UNCHANGED answer
  /\ UNCHANGED <<closing, last, current, listed, pc, pq, ctxDone, fate>>

Drain(g, w) ==
  /\ wpc[g][w] = "drain" /\ Refuse(g, "closing")
  /\ Others /\ UNCHANGED workerVars

Exit(g, w) ==
  /\ queue[g] = <<>> /\ Step(g, w, "drain", "exited")
  /\ Others /\ UNCHANGED <<queueVars, job, cleanup, callerVars>>

----------------------------------------------------------------------------
(* UpdateProvider.                                                         *)

To(a, from, to) == apc[a] = from /\ apc' = Put(apc, a, to)

\* Its read lock; an instance that shuts down, or no configuration, ends it.
UpdateBegin(a) ==
  /\ "Update" \in Operation /\ stopping = Nobody
  /\ \/ To(a, "idle", "done") /\ UNCHANGED lifecycle
     \/ ~down /\ To(a, "idle", "update") /\ lifecycle' = lifecycle \cup {a}
  /\ UNCHANGED <<queueVars, workerVars, mutex, stopping, down, callerVars, target, drop>>

UpdateUnlock(a) == mutex' = Nobody /\ lifecycle' = lifecycle \ {a}

\* The provider does not exist: prepareProvider.
UpdatePublish(a) ==
  /\ current = 0 /\ To(a, "update", "prepare") /\ Publish(a)
  /\ UNCHANGED <<workerVars, lifecycle, stopping, down, callerVars, target, drop>>

UpdateStart(a, ok) ==
  /\ To(a, "prepare", "done") /\ Start(a, ok) /\ lifecycle' = lifecycle \ {a}
  /\ UNCHANGED <<stopping, down, callerVars, target, drop>>

\* createBaseProvider fails before anything was touched.
UpdateFails(a) ==
  /\ mutex = Nobody /\ current # 0 /\ FALSE \in Created
  /\ To(a, "update", "done") /\ lifecycle' = lifecycle \ {a}
  /\ UNCHANGED <<queueVars, workerVars, mutex, stopping, down, callerVars, target, drop>>

\* The new provider, queue and workers take over.
Replace(a) ==
  /\ current # 0 /\ TRUE \in Created
  /\ To(a, "update", "transfer") /\ target' = Put(target, a, current)
  /\ mutex = Nobody /\ mutex' = a /\ last < MaxGen
  /\ last' = last + 1 /\ current' = last + 1 /\ listed' = TRUE
  /\ wpc' = [wpc EXCEPT ![last + 1] = [w \in Worker |-> "idle"]]
  /\ UNCHANGED <<queue, closing, job, cleanup, lifecycle, stopping, down, callerVars, drop>>

\* Mutant of Transfer: a message is copied into the new queue.
TransferCopies(a) ==
  LET g == target[a] IN
  /\ apc[a] = "transfer" /\ queue[g] # <<>> /\ Room(current)
  /\ queue' = [queue EXCEPT ![current] = Append(@, Head(queue[g]))]
  /\ UNCHANGED <<closing, last, current, listed, workerVars, lockVars, callerVars, adminVars, drop>>

\* A buffered message moves over as long as there is room.
Transfer(a) ==
  LET g == target[a] IN
  /\ apc[a] = "transfer" /\ queue[g] # <<>> /\ Room(current)
  /\ queue' = [queue EXCEPT ![g] = Tail(@), ![current] = Append(@, Head(queue[g]))]
  /\ UNCHANGED <<closing, last, current, listed, workerVars, lockVars, callerVars, adminVars, drop>>

\* The new queue is full: this message and all that are left are cancelled.
CancelBuffered(a) ==
  /\ \/ apc[a] = "transfer" /\ ~Room(current)
     \/ apc[a] = "cancel"
  /\ apc' = Put(apc, a, "cancel") /\ Refuse(target[a], "queueFull")
  /\ UNCHANGED <<workerVars, lockVars, target, drop>>

\* Mutant of Retire: the new queue is signalled.
RetireWrongQueue(a) ==
  LET g == target[a] IN
  /\ apc[a] \in {"transfer", "cancel"} /\ queue[g] = <<>>
  /\ cleanup' = Put(cleanup, g, "wait")
  /\ closing' = Put(closing, current, TRUE) /\ apc' = Put(apc, a, "done") /\ UpdateUnlock(a)
  /\ UNCHANGED <<queue, last, current, listed, wpc, job, stopping, down, callerVars, target, drop>>

\* Mutant of Retire: the old queue is not signalled.
RetireSilently(a) ==
  /\ apc[a] \in {"transfer", "cancel"} /\ queue[target[a]] = <<>>
  /\ cleanup' = Put(cleanup, target[a], "wait") /\ apc' = Put(apc, a, "done") /\ UpdateUnlock(a)
  /\ UNCHANGED <<queueVars, wpc, job, stopping, down, callerVars, target, drop>>

\* The old queue is empty: its cleanup is registered, it is signalled, the update returns.
Retire(a) ==
  LET g == target[a] IN
  /\ apc[a] \in {"transfer", "cancel"} /\ queue[g] = <<>>
  /\ cleanup' = Put(cleanup, g, "wait")
  /\ closing' = Put(closing, g, TRUE) /\ apc' = Put(apc, a, "done") /\ UpdateUnlock(a)
  /\ UNCHANGED <<queue, last, current, listed, wpc, job, stopping, down, callerVars, target, drop>>

\* The cleanup goroutine: waits for the old workers, sweeps once, ends.
CleanupWaited(g) ==
  /\ cleanup[g] = "wait" /\ Finished(g) /\ cleanup' = Put(cleanup, g, "sweep")
  /\ Others /\ UNCHANGED <<queueVars, wpc, job, callerVars>>

CleanupSweep(g) ==
  /\ cleanup[g] = "sweep" /\ Refuse(g, "closing")
  /\ Others /\ UNCHANGED workerVars

\* Mutant of CleanupEnd: no sweep after the workers.
CleanupEndUnswept(g) ==
  /\ cleanup[g] = "sweep" /\ cleanup' = Put(cleanup, g, "none")
  /\ Others /\ UNCHANGED <<queueVars, wpc, job, callerVars>>

CleanupEnd(g) ==
  /\ cleanup[g] = "sweep" /\ queue[g] = <<>> /\ cleanup' = Put(cleanup, g, "none")
  /\ Others /\ UNCHANGED <<queueVars, wpc, job, callerVars>>

----------------------------------------------------------------------------
(* RemoveProvider.                                                         *)

RemoveBegin(a) ==
  /\ "Remove" \in Operation /\ mutex = Nobody
  /\ \/ current = 0 /\ To(a, "idle", "done") /\ UNCHANGED <<closing, mutex, target>>
     \/ /\ current # 0 /\ To(a, "idle", "remove") /\ mutex' = a
        /\ closing' = Put(closing, current, TRUE) /\ target' = Put(target, a, current)
  /\ UNCHANGED <<queue, last, current, listed, workerVars, lifecycle, stopping, down, callerVars, drop>>

RemoveWaited(a) ==
  /\ To(a, "remove", "removeSweep") /\ Finished(target[a])
  /\ UNCHANGED <<queueVars, workerVars, lockVars, callerVars, target, drop>>

RemoveSweep(a) ==
  /\ apc[a] = "removeSweep" /\ Refuse(target[a], "closing")
  /\ UNCHANGED <<workerVars, lockVars, adminVars, drop>>

RemoveSwept(a) ==
  /\ To(a, "removeSweep", "removeRetired") /\ queue[target[a]] = <<>>
  /\ UNCHANGED <<queueVars, workerVars, lockVars, callerVars, target, drop>>

\* Mutant of RemoveEnd: workers of earlier generations are not waited for.
RemoveEndAtOnce(a) ==
  /\ To(a, "removeRetired", "done")
  /\ current' = 0 /\ listed' = FALSE /\ mutex' = Nobody
  /\ UNCHANGED <<queue, closing, last, workerVars, lifecycle, stopping, down, callerVars, target, drop>>

RemoveEnd(a) ==
  /\ \A g \in Gen : cleanup[g] = "none"
  /\ To(a, "removeRetired", "done")
  /\ current' = 0 /\ listed' = FALSE /\ mutex' = Nobody
  /\ UNCHANGED <<queue, closing, last, workerVars, lifecycle, stopping, down, callerVars, target, drop>>

----------------------------------------------------------------------------
(* Shutdown, which ranges over the maps without the provider's mutex.      *)

ShutdownBegin(a) ==
  /\ "Shutdown" \in Operation /\ stopping = Nobody /\ lifecycle = {}
  /\ To(a, "idle", "signal") /\ stopping' = a /\ down' = TRUE
  /\ UNCHANGED <<queueVars, workerVars, mutex, lifecycle, callerVars, target, drop>>

ShutdownSignal(a) ==
  /\ To(a, "signal", "workers")
  /\ closing' = IF current = 0 THEN closing ELSE Put(closing, current, TRUE)
  /\ UNCHANGED <<queue, last, current, listed, workerVars, lockVars, callerVars, target, drop>>

\* waitGroups.Range finds the wait group of this moment.
ShutdownRange(a) ==
  /\ To(a, "workers", "waitWorkers") /\ target' = Put(target, a, current)
  /\ UNCHANGED <<queueVars, workerVars, lockVars, callerVars, drop>>

ShutdownWaited(a) ==
  /\ To(a, "waitWorkers", "cleanups")
  /\ target[a] # 0 => Finished(target[a])
  /\ UNCHANGED <<queueVars, workerVars, lockVars, callerVars, target, drop>>

ShutdownCleaned(a) ==
  /\ \A g \in Gen : cleanup[g] = "none"
  /\ To(a, "cleanups", "sweep") /\ target' = Put(target, a, current)
  /\ UNCHANGED <<queueVars, workerVars, lockVars, callerVars, drop>>

ShutdownSweep(a) ==
  /\ apc[a] = "sweep" /\ target[a] # 0 /\ Refuse(target[a], "closing")
  /\ UNCHANGED <<workerVars, lockVars, adminVars, drop>>

ShutdownEnd(a) ==
  /\ target[a] # 0 => queue[target[a]] = <<>>
  /\ To(a, "sweep", "done") /\ stopping' = Nobody
  /\ UNCHANGED <<queueVars, workerVars, mutex, lifecycle, down, callerVars, target, drop>>

UpdateDropExcessRequests(value) ==
  /\ drop # value /\ drop' = value
  /\ UNCHANGED <<queueVars, workerVars, lockVars, callerVars, adminVars>>

----------------------------------------------------------------------------
CallerNext(c) ==
  \/ FindByKey(c) \/ PrepareByKey(c) \/ (\E ok \in Created : PreparedByKey(c, ok))
  \/ Lookup(c) \/ NoConfig(c) \/ Prepare(c) \/ (\E ok \in Created : Prepared(c, ok))
  \/ Check(c) \/ Send(c) \/ SendFails(c) \/ Full(c) \/ Receive(c)

WorkerNext(g, w) ==
  Take(g, w) \/ Answer(g, w) \/ SeeDone(g, w) \/ Drain(g, w) \/ Exit(g, w)

CleanupNext(g) == CleanupWaited(g) \/ CleanupSweep(g) \/ CleanupEnd(g)

\* The steps of a call that has begun.
AdminNext(a) ==
  \/ UpdatePublish(a) \/ (\E ok \in Created : UpdateStart(a, ok)) \/ UpdateFails(a)
  \/ Replace(a) \/ Transfer(a) \/ CancelBuffered(a) \/ Retire(a)
  \/ RemoveWaited(a) \/ RemoveSweep(a) \/ RemoveSwept(a) \/ RemoveEnd(a)
  \/ ShutdownSignal(a) \/ ShutdownRange(a) \/ ShutdownWaited(a)
  \/ ShutdownCleaned(a) \/ ShutdownSweep(a) \/ ShutdownEnd(a)

Next ==
  \/ \E c \in Caller : CallerNext(c) \/ Cancel(c)
  \/ \E g \in Gen, w \in Worker : WorkerNext(g, w)
  \/ \E g \in Gen : CleanupNext(g)
  \/ \E a \in Admin : UpdateBegin(a) \/ RemoveBegin(a) \/ ShutdownBegin(a) \/ AdminNext(a)
  \/ \E value \in BOOLEAN : UpdateDropExcessRequests(value)

Spec == Init /\ [][Next]_vars

\* Goroutines run; a provider answers in the end, as its client has a timeout.
Fairness ==
  /\ \A c \in Caller : WF_vars(CallerNext(c))
  /\ \A g \in Gen, w \in Worker : WF_vars(WorkerNext(g, w))
  /\ \A g \in Gen : WF_vars(CleanupNext(g))
  /\ \A a \in Admin : WF_vars(AdminNext(a))

FairSpec == Spec /\ Fairness

----------------------------------------------------------------------------
\* Where the message of a caller is: in a queue or in the hands of a worker.
Places(c) ==
  {p \in Gen \X (1..BufferSize) : p[2] <= Len(queue[p[1]]) /\ queue[p[1]][p[2]] = c}
    \cup {p \in Gen \X Worker : job[p[1]][p[2]] = c}

(* A message that was sent is in one place only, and no longer once it was *)
(* answered: while requestWorker, the transfer of UpdateProvider, cleanup, *)
(* RemoveProvider and Shutdown all take from the same queues, no request is*)
(* executed twice, or executed after its caller got an error.              *)
HandledOnce ==
  \A c \in Caller :
    /\ Cardinality(Places(c)) <= 1
    /\ Places(c) # {} => answer[c] = "none" /\ pc[c] \in {"wait", "done"}

(* "removing the provider must still wait for their in-flight work",       *)
(* "Shutdown must still wait for their in-flight requests": when           *)
(* RemoveProvider has returned no worker of any generation runs, whatever  *)
(* updates came before, and when Shutdown has, none of a generation that   *)
(* was replaced.                                                           *)
StoppedIsQuiet ==
  /\ current = 0 /\ mutex = Nobody => \A g \in Gen : Finished(g)
  /\ down /\ stopping = Nobody => \A g \in Gen \ {current} : Finished(g)

(* "This avoids the update-induced no-worker window": a provider that      *)
(* callers can find is open and all its workers run, whatever updates and  *)
(* removals came before, unless the instance is shutting down or creating  *)
(* the provider has failed and none was started.                           *)
AlwaysServed ==
  current # 0 /\ mutex = Nobody /\ ~down =>
    /\ ~closing[current]
    /\ \/ \A w \in Worker : wpc[current][w] \in Running
       \/ \A w \in Worker : wpc[current][w] = "off" /\ FALSE \in Created

\* Somebody will still look into the queue.
Attended(g) ==
  \/ ~Finished(g) \/ cleanup[g] # "none"
  \/ \E a \in Admin : /\ target[a] = g
                      /\ apc[a] \in {"transfer", "cancel", "remove", "removeSweep", "sweep"}

(* A buffered request is answered as long as anybody attends to its queue, *)
(* whoever gets to it first: nothing is lost between old and new queues.   *)
BufferedIsAnswered ==
  \A c \in Caller :
    (\E g \in Gen : Attended(g) /\ \E i \in 1..Len(queue[g]) : queue[g][i] = c)
      ~> (answer[c] # "none" \/ ctxDone[c])

(* UpdateProvider and RemoveProvider return, also when they run at once:   *)
(* their locks and waits never form a circle, and the transfer ends.       *)
UpdatesReturn == \A a \in Admin : apc[a] # "idle" ~> apc[a] = "done"
=============================================================================
