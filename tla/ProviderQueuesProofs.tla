------------------------ MODULE ProviderQueuesProofs ------------------------
(***************************************************************************)
(* The queues of a provider in pkg/bifrost_core/bifrost.go, for any number *)
(* of requests, of calls of UpdateProvider, RemoveProvider and Shutdown, of*)
(* workers and of generations of the queue: no request is executed twice,  *)
(* a removal leaves no worker behind, and an update leaves no provider     *)
(* without workers.                                                        *)
(***************************************************************************)
EXTENDS ProviderQueues, TLAPS, SequenceTheorems, FiniteSetTheorems

\* Where callers and admins are while they hold the provider's mutex, or an
\* admin holds providerLifecycleMu for reading or for writing.
CallerHolds == {"prepareByKey", "prepare"}
Updating == {"transfer", "cancel"}
Removing == {"remove", "removeSweep", "removeRetired"}
AdminHolds == {"prepare"} \cup Updating \cup Removing
UpdateHolds == {"update", "prepare"} \cup Updating
Quieting == {"signal", "workers", "waitWorkers", "cleanups"}
ShutdownHolds == Quieting \cup {"sweep"}

CallerPC == CallerHolds \cup {"byKey", "lookup", "check", "send", "block", "wait", "done"}
AdminPC == AdminHolds \cup ShutdownHolds \cup {"update", "idle", "done"}
WorkerPC == Running \cup {"off", "exited"}

GensOK == last \in 0..MaxGen /\ current \in {0, last}

QueuesOK ==
  /\ queue \in [Gen -> Seq(Caller)] /\ closing \in [Gen -> BOOLEAN] /\ listed \in BOOLEAN
  /\ cleanup \in [Gen -> {"none", "wait", "sweep"}]

WorkersOK ==
  /\ wpc \in [Gen -> [Worker -> WorkerPC]] /\ job \in [Gen -> [Worker -> Caller \cup {Nobody}]]

LocksOK ==
  /\ mutex \in Caller \cup Admin \cup {Nobody} /\ lifecycle \subseteq Admin
  /\ stopping \in Admin \cup {Nobody} /\ down \in BOOLEAN

CallersOK ==
  /\ pc \in [Caller -> CallerPC] /\ pq \in [Caller -> 0..MaxGen]
  /\ answer \in [Caller -> {"none", "served", "closing", "queueFull"}]

AdminsOK == apc \in [Admin -> AdminPC] /\ target \in [Admin -> 0..MaxGen]

QueuesTypeOK == GensOK /\ QueuesOK /\ WorkersOK /\ LocksOK /\ CallersOK /\ AdminsOK

\* Who holds which lock follows from where everybody is.
Locked ==
  /\ \A c \in Caller : mutex = c <=> pc[c] \in CallerHolds
  /\ \A a \in Admin : mutex = a <=> apc[a] \in AdminHolds
  /\ \A a \in Admin : a \in lifecycle <=> apc[a] \in UpdateHolds
  /\ \A a \in Admin : stopping = a <=> apc[a] \in ShutdownHolds
  /\ (down => lifecycle = {}) /\ (stopping # Nobody => down)

\* A message is in one place only, and then not answered.
Placed ==
  /\ \A g, h \in Gen : \A i \in 1..Len(queue[g]), j \in 1..Len(queue[h]) :
       queue[g][i] = queue[h][j] => g = h /\ i = j
  /\ \A g, h \in Gen, w, x \in Worker :
       job[g][w] = job[h][x] /\ job[g][w] # Nobody => g = h /\ w = x
  /\ \A g, h \in Gen, w \in Worker : \A i \in 1..Len(queue[g]) : queue[g][i] # job[h][w]

Pending ==
  /\ \A g \in Gen : \A i \in 1..Len(queue[g]) :
       answer[queue[g][i]] = "none" /\ pc[queue[g][i]] \in {"wait", "done"}
  /\ \A g \in Gen, w \in Worker :
       job[g][w] # Nobody => answer[job[g][w]] = "none" /\ pc[job[g][w]] \in {"wait", "done"}
  /\ \A g \in Gen, w \in Worker : wpc[g][w] = "busy" <=> job[g][w] # Nobody
  /\ \A c \in Caller : pc[c] \notin {"wait", "done"} => answer[c] = "none"

\* The provider is being prepared.
Preparing == (\E c \in Caller : mutex = c) \/ (\E a \in Admin : mutex = a /\ apc[a] = "prepare")

\* What each lock holder knows of the queue it works on, and each caller of the
\* queue it sends to.
Aimed ==
  /\ Preparing => current = last /\ last > 0 /\ \A w \in Worker : wpc[last][w] = "off"
  /\ \A a \in Admin : apc[a] \in Updating => 0 < target[a] /\ target[a] < current
  /\ \A a \in Admin : apc[a] \in Removing => target[a] = current /\ current # 0
  /\ \A a \in Admin : apc[a] \in {"removeSweep", "removeRetired"} => Finished(target[a])
  /\ \A c \in Caller : pc[c] \in {"check", "send", "block"} => pq[c] # 0

\* Who runs: the workers of the current generation, and those that an update is
\* about to hand over to its cleanup goroutine, or has.
Followed ==
  /\ \A g \in Gen : g > last => ~closing[g] /\ \A w \in Worker : wpc[g][w] = "off"
  /\ ~listed /\ current # 0 => Finished(current)
  /\ current = 0 => \A g \in Gen : Finished(g)
  /\ \A g \in Gen : ~Finished(g) =>
       \/ g = current \/ cleanup[g] = "wait"
       \/ \E a \in Admin : apc[a] \in Updating /\ target[a] = g
  /\ down /\ (\A a \in Admin : apc[a] \notin Quieting) => \A g \in Gen : cleanup[g] = "none"

\* What is open, and what is staffed.
Open ==
  /\ current # 0 /\ closing[current] /\ ~down => \E a \in Admin : apc[a] \in Removing
  /\ \A g \in Gen, w \in Worker : wpc[g][w] \in {"drain", "exited"} => closing[g]
  /\ \A g \in Gen : \/ \A w \in Worker : wpc[g][w] = "off"
                    \/ \A w \in Worker : wpc[g][w] # "off"
  /\ current # 0 /\ (\A w \in Worker : wpc[current][w] = "off") =>
       Preparing \/ FALSE \in Created

QueueInv == QueuesTypeOK /\ Locked /\ Placed /\ Pending /\ Aimed /\ Followed /\ Open

(* What queues buffer are requests.                                        *)
LEMMA Buffered ==
  ASSUME QueuesTypeOK, NEW g \in Gen
  PROVE  /\ queue[g] \in Seq(Caller) /\ Len(queue[g]) \in Nat
         /\ \A i \in 1..Len(queue[g]) : queue[g][i] \in Caller
<1>1. queue[g] \in Seq(Caller)
  BY DEF QueuesTypeOK, QueuesOK
<1> QED BY <1>1

(* Workers hold requests.                                                  *)
LEMMA Employed ==
  ASSUME QueuesTypeOK, NEW g \in Gen, NEW w \in Worker
  PROVE  wpc[g][w] \in WorkerPC /\ job[g][w] \in Caller \cup {Nobody}
<1>1. wpc[g] \in [Worker -> WorkerPC] /\ job[g] \in [Worker -> Caller \cup {Nobody}]
  BY DEF QueuesTypeOK, WorkersOK
<1> QED BY <1>1

(* In the beginning there is one generation or none, and nobody has sent   *)
(* anything.                                                               *)
LEMMA QueueInvInit == Init => QueueInv
<1> SUFFICES ASSUME Init PROVE QueueInv
  OBVIOUS
<1> USE QueueAssumption DEF Init
<1>1. last \in {0, 1} /\ current = last /\ last \in 0..MaxGen
  OBVIOUS
<1>2. wpc = [g \in Gen |-> [w \in Worker |-> IF g = last THEN "idle" ELSE "off"]]
  OBVIOUS
<1>3. QueuesTypeOK
  <2>1. wpc \in [Gen -> [Worker -> WorkerPC]]
    BY <1>2 DEF WorkerPC, Running
  <2>2. pc \in [Caller -> CallerPC] /\ apc \in [Admin -> AdminPC]
    BY DEF CallerPC, AdminPC
  <2>3. queue \in [Gen -> Seq(Caller)] /\ job \in [Gen -> [Worker -> Caller \cup {Nobody}]]
    OBVIOUS
  <2>4. /\ cleanup \in [Gen -> {"none", "wait", "sweep"}] /\ closing \in [Gen -> BOOLEAN]
        /\ answer \in [Caller -> {"none", "served", "closing", "queueFull"}]
    OBVIOUS
  <2>5. pq \in [Caller -> 0..MaxGen] /\ target \in [Admin -> 0..MaxGen]
    OBVIOUS
  <2>6. /\ mutex \in Caller \cup Admin \cup {Nobody} /\ lifecycle \subseteq Admin
        /\ stopping \in Admin \cup {Nobody} /\ listed \in BOOLEAN /\ down \in BOOLEAN
    OBVIOUS
  <2> HIDE DEF Init
  <2> QED BY <1>1, <2>1, <2>2, <2>3, <2>4, <2>5, <2>6 DEF QueuesTypeOK, GensOK,
             QueuesOK, WorkersOK, LocksOK,
     CallersOK, AdminsOK
<1>4. Locked /\ Placed
  BY DEF Locked, CallerHolds, AdminHolds, UpdateHolds, ShutdownHolds, Updating,
     Removing,
         Quieting, Placed
<1>5. Pending
  BY <1>2 DEF Pending
<1>6. Aimed
  BY DEF Aimed, Preparing, Updating, Removing
<1>7. Followed
  BY <1>1, <1>2 DEF Followed, Finished, Running, Gen
<1>8. Open
  <2>1. current # 0 => current \in Gen
    BY <1>1 DEF Gen
  <2> QED BY <1>1, <1>2, <2>1 DEF Open
<1> QED BY <1>3, <1>4, <1>5, <1>6, <1>7, <1>8 DEF QueueInv

(* The steps of a caller that change nothing but where it is and which     *)
(* queue it uses.                                                          *)
LEMMA CallerWalks ==
  ASSUME QueueInv, NEW c \in Caller,
         \/ FindByKey(c) \/ Lookup(c) \/ NoConfig(c) \/ Check(c) \/ SendFails(c) \/ Full(c)
         \/ Receive(c) \/ Cancel(c)
  PROVE  QueueInv'
<1>0. /\ GensOK /\ QueuesOK /\ WorkersOK /\ LocksOK /\ CallersOK /\ AdminsOK /\ QueuesTypeOK
      /\ Locked /\ Placed /\ Pending /\ Aimed /\ Followed /\ Open
  BY DEF QueueInv, QueuesTypeOK
<1>1. UNCHANGED <<queue, closing, last, current, listed, wpc, job, cleanup, mutex, lifecycle,
                  stopping, down, answer, apc, target>>
  BY DEF FindByKey, Lookup, NoConfig, Check, SendFails, Full, Receive, Cancel, Idle,
     queueVars,
         workerVars, lockVars, adminVars
<1>2. \/ pc' = pc
      \/ \E to \in {"lookup", "check", "send", "block", "done"} :
           /\ pc' = [pc EXCEPT ![c] = to] /\ pc[c] \notin CallerHolds
           /\ pc[c] \in {"wait", "done"} => to = "done"
  BY DEF FindByKey, Lookup, NoConfig, Check, SendFails, Full, Receive, Cancel, Goto,
     Return, Put,
         CallerHolds
<1>3. /\ pq' = pq \/ (current # 0 /\ pq' = [pq EXCEPT ![c] = current])
      /\ pc'[c] \in {"check", "send", "block"} =>
           pc[c] \in {"check", "send", "block"} \/ (current # 0 /\ pq' = [pq EXCEPT ![c] = current])
  BY <1>0, <1>2 DEF FindByKey, Lookup, NoConfig, Check, SendFails, Full, Receive,
     Cancel, Goto, Return,
         Put, CallersOK
<1>4. current \in 0..MaxGen
  <2>1. last \in 0..MaxGen /\ current \in {0, last}
    BY <1>0 DEF GensOK
  <2> QED BY <2>1, QueueAssumption
<1>5. pc' \in [Caller -> CallerPC] /\ pq' \in [Caller -> 0..MaxGen]
  BY <1>0, <1>2, <1>3, <1>4 DEF CallersOK, CallerPC
<1>6. QueuesTypeOK'
  BY <1>0, <1>1, <1>5 DEF QueuesTypeOK, GensOK, QueuesOK, WorkersOK, LocksOK,
     CallersOK, AdminsOK
<1>7. Locked'
  BY <1>0, <1>1, <1>2 DEF CallersOK, Locked, CallerHolds
<1>8. Placed'
  BY <1>0, <1>1 DEF Placed
<1>9. Pending'
  <2>1. \A d \in Caller : /\ pc[d] \in {"wait", "done"} => pc'[d] \in {"wait", "done"}
                          /\ pc'[d] \notin {"wait", "done"} => pc[d] \notin {"wait", "done"}
    BY <1>0, <1>2 DEF CallersOK
  <2> QED BY <1>0, <1>1, <2>1, Buffered, Employed DEF Pending
<1>10. Aimed'
  BY <1>0, <1>1, <1>2, <1>3, <1>4 DEF CallersOK, Aimed, Preparing, Finished
<1>11. Followed' /\ Open'
  BY <1>0, <1>1 DEF Followed, Finished, Open, Preparing
<1> QED BY <1>6, <1>7, <1>8, <1>9, <1>10, <1>11 DEF QueueInv

(* A caller's message is in its queue, and nowhere else.                   *)
LEMMA SendKeeps == ASSUME QueueInv, NEW c \in Caller, Send(c) PROVE QueueInv'
<1>0. /\ GensOK /\ QueuesOK /\ WorkersOK /\ LocksOK /\ CallersOK /\ AdminsOK /\ QueuesTypeOK
      /\ Locked /\ Placed /\ Pending /\ Aimed /\ Followed /\ Open
  BY DEF QueueInv, QueuesTypeOK
<1> DEFINE q == pq[c]
<1>1. /\ UNCHANGED <<closing, last, current, listed, wpc, job, cleanup, mutex, lifecycle,
                     stopping, down, pq, answer, apc, target>>
      /\ pc[c] \in {"send", "block"} /\ pc' = [pc EXCEPT ![c] = "wait"]
      /\ queue' = [queue EXCEPT ![q] = Append(queue[q], c)]
  BY DEF Send, Put, Idle, workerVars, lockVars, adminVars
<1>2. q \in Gen
  <2>1. q \in 0..MaxGen /\ q # 0
    BY <1>0, <1>1 DEF CallersOK, Aimed
  <2> QED BY <2>1, QueueAssumption DEF Gen
<1>3. /\ queue' \in [Gen -> Seq(Caller)] /\ Len(queue'[q]) = Len(queue[q]) + 1
      /\ \A i \in 1..Len(queue[q]) : queue'[q][i] = queue[q][i]
      /\ queue'[q][Len(queue[q]) + 1] = c
      /\ \A g \in Gen : g # q => queue'[g] = queue[g]
  <2>1. queue \in [Gen -> Seq(Caller)] /\ queue[q] \in Seq(Caller)
    BY <1>0, <1>2 DEF QueuesOK
  <2>2. queue'[q] = Append(queue[q], c) /\ \A g \in Gen : g # q => queue'[g] = queue[g]
    BY <1>1, <1>2, <2>1
  <2>3. queue' \in [Gen -> Seq(Caller)]
    BY <1>1, <1>2, <2>1
  <2> QED BY <2>1, <2>2, <2>3
<1>4. /\ \A g \in Gen : \A i \in 1..Len(queue[g]) : queue[g][i] # c
      /\ \A g \in Gen, w \in Worker : job[g][w] # c
  BY <1>0, <1>1, QueueAssumption DEF Pending
<1>5. QueuesTypeOK'
  BY <1>0, <1>1, <1>3 DEF QueuesTypeOK, GensOK, QueuesOK, WorkersOK, LocksOK,
     CallersOK, AdminsOK, CallerPC
<1>6. Locked'
  BY <1>0, <1>1 DEF CallersOK, Locked, CallerHolds
<1> HIDE DEF q
<1>7. Placed'
  <2>1. \A g \in Gen : \A i \in 1..Len(queue'[g]) :
          \/ i \in 1..Len(queue[g]) /\ queue'[g][i] = queue[g][i]
          \/ g = q /\ i = Len(queue[q]) + 1 /\ queue'[g][i] = c
    BY <1>0, <1>2, <1>3, Buffered
  <2> QED BY <1>0, <1>1, <1>4, <2>1, <1>2, Buffered DEF Placed
<1>8. Pending'
  <2>1. \A g \in Gen : \A i \in 1..Len(queue'[g]) :
          (i \in 1..Len(queue[g]) /\ queue'[g][i] = queue[g][i]) \/ queue'[g][i] = c
    BY <1>0, <1>2, <1>3, Buffered
  <2>2. answer[c] = "none" /\ pc'[c] = "wait" /\ \A d \in Caller : d # c => pc'[d] = pc[d]
    BY <1>0, <1>1 DEF CallersOK, Pending
  <2> QED BY <1>0, <1>1, <1>4, <2>1, <2>2, Buffered, Employed DEF Pending
<1>9. Aimed'
  BY <1>0, <1>1 DEF CallersOK, Aimed, Preparing, Finished
<1>10. Followed' /\ Open'
  BY <1>0, <1>1 DEF Followed, Finished, Open, Preparing
<1> QED BY <1>5, <1>6, <1>7, <1>8, <1>9, <1>10 DEF QueueInv

(* The mutex has one holder.                                               *)
LEMMA OneHolder ==
  ASSUME QueuesTypeOK, Locked
  PROVE  /\ mutex = Nobody => /\ \A c \in Caller : pc[c] \notin CallerHolds
                              /\ \A a \in Admin : apc[a] \notin AdminHolds
         /\ \A c \in Caller : mutex = c => \A a \in Admin : apc[a] \notin AdminHolds
         /\ \A a \in Admin : mutex = a => /\ \A c \in Caller : pc[c] \notin CallerHolds
                                          /\ \A b \in Admin : b # a => apc[b] \notin AdminHolds
BY QueueAssumption DEF Locked

(* prepareProvider makes a new generation current: one that nobody has     *)
(* closed, and that has no workers yet.                                    *)
LEMMA PublishKeeps ==
  ASSUME QueueInv, NEW who \in Caller \cup Admin, Publish(who), ~listed \/ current = 0,
         UNCHANGED <<wpc, job, cleanup, lifecycle, stopping, down, pq, answer, target>>,
         \/ /\ who \in Caller /\ pc[who] \in {"byKey", "lookup"} /\ apc' = apc
            /\ \E to \in CallerHolds : pc' = [pc EXCEPT ![who] = to]
         \/ /\ who \in Admin /\ apc[who] = "update" /\ pc' = pc
            /\ apc' = [apc EXCEPT ![who] = "prepare"]
  PROVE  QueueInv'
<1>0. /\ GensOK /\ QueuesOK /\ WorkersOK /\ LocksOK /\ CallersOK /\ AdminsOK /\ QueuesTypeOK
      /\ Locked /\ Placed /\ Pending /\ Aimed /\ Followed /\ Open
  BY DEF QueueInv, QueuesTypeOK
<1>1. /\ UNCHANGED <<queue, closing, listed>> /\ mutex = Nobody /\ mutex' = who
      /\ last < MaxGen /\ last' = last + 1 /\ current' = last + 1
  BY DEF Publish
<1>2. /\ last \in Nat /\ last + 1 \in 0..MaxGen /\ last + 1 \in Gen
      /\ current \in {0, last} /\ \A g \in Gen : g \in Nat /\ g # 0
  BY <1>0, <1>1, QueueAssumption DEF GensOK, Gen
<1>3. QueuesTypeOK'
  <2>1. pc' \in [Caller -> CallerPC] /\ apc' \in [Admin -> AdminPC]
    BY <1>0, QueueAssumption DEF CallersOK, AdminsOK, CallerPC, AdminPC, AdminHolds
  <2> QED BY <1>0, <1>1, <1>2, <2>1 DEF QueuesTypeOK, GensOK, QueuesOK, WorkersOK,
             LocksOK,
     CallersOK, AdminsOK
<1>4. Locked'
  <2>1. CASE who \in Caller
    <3>1. who \notin Admin /\ apc' = apc
      BY <2>1, QueueAssumption
    <3> QED BY <1>0, <1>1, <2>1, <3>1, QueueAssumption
               DEF CallersOK, Locked, CallerHolds
  <2>2. CASE who \in Admin
    <3>1. /\ who \notin Caller /\ pc' = pc /\ apc[who] = "update"
          /\ apc' = [apc EXCEPT ![who] = "prepare"]
      BY <2>2, QueueAssumption
    <3> QED BY <1>0, <1>1, <2>2, <3>1, QueueAssumption DEF AdminsOK, Locked, AdminHolds,
          UpdateHolds, ShutdownHolds, Quieting, Updating, Removing
  <2> QED BY <2>1, <2>2
<1>5. Placed'
  BY <1>0, <1>1 DEF Placed
<1>6. Pending'
  <2>1. \A d \in Caller : /\ pc[d] \in {"wait", "done"} => pc'[d] \in {"wait", "done"}
                          /\ pc'[d] \notin {"wait", "done"} => pc[d] \notin {"wait", "done"}
    BY <1>0, QueueAssumption DEF CallersOK, CallerHolds
  <2> QED BY <1>0, <1>1, <2>1, Buffered, Employed DEF Pending
<1>7. /\ \A a \in Admin : apc'[a] \notin Updating \cup Removing
      /\ \A a \in Admin : apc[a] \in Quieting <=> apc'[a] \in Quieting
  BY <1>0, <1>1, OneHolder, QueueAssumption DEF AdminsOK, AdminHolds, Updating,
     Removing,
     Quieting
<1>8. Aimed'
  <2>1. \A w \in Worker : wpc'[last'][w] = "off"
    BY <1>0, <1>1, <1>2 DEF Followed
  <2>2. \A c \in Caller : pc'[c] \in {"check", "send", "block"} => pq'[c] # 0
    BY <1>0 DEF Aimed, CallersOK, CallerHolds
  <2> QED BY <1>1, <1>2, <1>7, <2>1, <2>2 DEF Aimed, Updating, Removing
<1>9. Followed'
  <2>1. \A g \in Gen : g > last' => g > last
    BY <1>1, <1>2
  <2>2. Finished(current)' /\ (current # 0 => Finished(current))
    BY <1>0, <1>1, <1>2 DEF Followed, Finished, Running
  <2>3. ASSUME NEW g \in Gen, ~Finished(g)' PROVE cleanup'[g] = "wait"
    <3>1. ~Finished(g) /\ \A a \in Admin : apc[a] \notin Updating
      BY <1>0, <1>1, <2>3, OneHolder DEF Finished, AdminHolds
    <3> QED BY <1>0, <1>2, <2>2, <3>1 DEF Followed
  <2>4. current' # 0
    BY <1>1, <1>2
  <2> QED BY <1>0, <1>1, <1>7, <2>1, <2>2, <2>3, <2>4 DEF Followed
<1>10. Open'
  <2>1. ~closing'[current'] /\ Preparing'
    BY <1>0, <1>1, <1>2, QueueAssumption DEF Followed, Preparing, QueuesOK, AdminsOK
  <2> QED BY <1>0, <1>1, <2>1 DEF Open
<1> QED BY <1>3, <1>4, <1>5, <1>6, <1>8, <1>9, <1>10 DEF QueueInv

(* Then it starts the workers of that generation, or could not create the  *)
(* provider.                                                               *)
LEMMA StartKeeps ==
  ASSUME QueueInv, NEW who \in Caller \cup Admin, NEW ok \in Created, Start(who, ok),
         UNCHANGED <<stopping, down, answer, target>>,
         \/ /\ who \in Caller /\ pc[who] \in CallerHolds /\ UNCHANGED <<apc, lifecycle>>
            /\ \/ pc' = [pc EXCEPT ![who] = "check"] /\ pq' = [pq EXCEPT ![who] = current]
               \/ /\ pq' = pq
                  /\ \E to \in {"lookup", "done"} : pc' = [pc EXCEPT ![who] = to]
         \/ /\ who \in Admin /\ apc[who] = "prepare" /\ UNCHANGED <<pc, pq>>
            /\ apc' = [apc EXCEPT ![who] = "done"] /\ lifecycle' = lifecycle \ {who}
  PROVE  QueueInv'
<1>0. /\ GensOK /\ QueuesOK /\ WorkersOK /\ LocksOK /\ CallersOK /\ AdminsOK /\ QueuesTypeOK
      /\ Locked /\ Placed /\ Pending /\ Aimed /\ Followed /\ Open
  BY DEF QueueInv, QueuesTypeOK
<1>1. /\ UNCHANGED <<queue, closing, last, current, job, cleanup>>
      /\ mutex = who /\ mutex' = Nobody /\ listed' = (listed \/ ok) /\ ok \in BOOLEAN
      /\ wpc' = IF ok THEN [wpc EXCEPT ![last] = [w \in Worker |-> "idle"]] ELSE wpc
  BY QueueAssumption DEF Start
<1>2. Preparing /\ current = last /\ last > 0 /\ \A w \in Worker : wpc[last][w] = "off"
  BY <1>0, <1>1 DEF Aimed, Preparing
<1>3. last \in Gen /\ current \in Gen /\ current \in 0..MaxGen
  BY <1>0, <1>2, QueueAssumption DEF GensOK, Gen
<1>4. \A g \in Gen, w \in Worker :
        wpc'[g][w] = IF ok /\ g = last THEN "idle" ELSE wpc[g][w]
  BY <1>0, <1>1, <1>3 DEF WorkersOK
<1>5. \A a \in Admin : /\ apc'[a] \notin AdminHolds
                       /\ apc[a] \notin Updating \cup Removing
                       /\ apc[a] \in Quieting <=> apc'[a] \in Quieting
  BY <1>0, <1>1, OneHolder, QueueAssumption DEF AdminsOK, AdminHolds, Updating,
     Removing,
     Quieting
<1>6. QueuesTypeOK'
  <2>1. pc' \in [Caller -> CallerPC] /\ pq' \in [Caller -> 0..MaxGen]
    <3>1. CASE who \in Caller
      <4>1. pc \in [Caller -> CallerPC] /\ pq \in [Caller -> 0..MaxGen]
        BY <1>0 DEF CallersOK
      <4>2. {"lookup", "check", "done"} \subseteq CallerPC
        BY DEF CallerPC
      <4> QED BY <1>3, <3>1, <4>1, <4>2, QueueAssumption
    <3>2. CASE who \in Admin
      BY <1>0, <3>2, QueueAssumption DEF CallersOK
    <3> QED BY <3>1, <3>2
  <2>2. apc' \in [Admin -> AdminPC] /\ lifecycle' \subseteq Admin
    BY <1>0, QueueAssumption DEF AdminsOK, LocksOK, AdminPC
  <2>3. wpc' \in [Gen -> [Worker -> WorkerPC]]
    BY <1>0, <1>1, <1>3 DEF WorkersOK, WorkerPC, Running
  <2> QED BY <1>0, <1>1, <2>1, <2>3, <2>2 DEF QueuesTypeOK, GensOK, QueuesOK,
             WorkersOK, LocksOK,
     CallersOK, AdminsOK
<1>7. Locked'
  <2>1. CASE who \in Caller
    <3>1. who \notin Admin /\ UNCHANGED <<apc, lifecycle>> /\ pc[who] \in CallerHolds
      BY <2>1, QueueAssumption
    <3>2. \E to \in {"lookup", "check", "done"} : pc' = [pc EXCEPT ![who] = to]
      BY <2>1, QueueAssumption
    <3> QED BY <1>0, <1>1, <2>1, <3>1, <3>2, QueueAssumption
               DEF CallersOK, Locked, CallerHolds
  <2>2. CASE who \in Admin
    <3>1. /\ who \notin Caller /\ pc' = pc /\ apc[who] = "prepare"
          /\ apc' = [apc EXCEPT ![who] = "done"] /\ lifecycle' = lifecycle \ {who}
      BY <2>2, QueueAssumption
    <3> QED BY <1>0, <1>1, <2>2, <3>1, QueueAssumption DEF AdminsOK, Locked, AdminHolds,
          UpdateHolds, ShutdownHolds, Quieting, Updating, Removing
  <2> QED BY <2>1, <2>2
<1>8. Placed'
  BY <1>0, <1>1 DEF Placed
<1>9. Pending'
  <2>1. \A d \in Caller : /\ pc[d] \in {"wait", "done"} => pc'[d] \in {"wait", "done"}
                          /\ pc'[d] \notin {"wait", "done"} => pc[d] \notin {"wait", "done"}
    BY <1>0, QueueAssumption DEF CallersOK, CallerHolds
  <2>2. \A g \in Gen, w \in Worker : wpc'[g][w] = "busy" <=> wpc[g][w] = "busy"
    BY <1>2, <1>4
  <2> QED BY <1>0, <1>1, <2>1, <2>2, Buffered, Employed DEF Pending
<1>10. Aimed'
  <2>1. ~Preparing'
    BY <1>1, QueueAssumption DEF Preparing
  <2>2. \A c \in Caller : pc'[c] \in {"check", "send", "block"} => pq'[c] # 0
    <3>1. \A c \in Caller : c # who => pc'[c] = pc[c] /\ pq'[c] = pq[c]
      BY <1>0, QueueAssumption DEF CallersOK
    <3>2. who \in Caller /\ pc'[who] \in {"check", "send", "block"} => pq'[who] = current
      BY <1>0, QueueAssumption DEF CallersOK
    <3>3. who \in Admin => UNCHANGED <<pc, pq>>
      BY QueueAssumption
    <3> QED BY <1>0, <1>2, <3>1, <3>2, <3>3 DEF Aimed
  <2> QED BY <1>5, <2>1, <2>2 DEF Aimed, AdminHolds, Updating, Removing
<1>11. Followed'
  <2>1. \A g \in Gen : g > last => wpc'[g] = wpc[g]
    BY <1>0, <1>1, <1>3 DEF WorkersOK
  <2>2. ~listed' => Finished(current)'
    BY <1>1, <1>2, <1>3, <1>4 DEF Finished, Running
  <2>3. \A g \in Gen : g # current => (Finished(g) <=> Finished(g)')
    BY <1>2, <1>4 DEF Finished
  <2>4. current # 0
    BY <1>2
  <2> QED BY <1>0, <1>1, <1>5, <2>1, <2>2, <2>3, <2>4 DEF Followed
<1>12. Open'
  <2>1. current # 0 /\ closing[current] => down
    BY <1>0, <1>5 DEF Open
  <2>2. Worker # {} /\ (ok \/ FALSE \in Created)
    BY <1>1, QueueAssumption
  <2>3. \A g \in Gen, w \in Worker : wpc'[g][w] \in {"drain", "exited"} => closing'[g]
    BY <1>0, <1>1, <1>4 DEF Open
  <2>4. ASSUME NEW g \in Gen
        PROVE  \/ \A w \in Worker : wpc'[g][w] = "off"
               \/ \A w \in Worker : wpc'[g][w] # "off"
    BY <1>0, <1>4 DEF Open
  <2>5. (\A w \in Worker : wpc'[current][w] = "off") => FALSE \in Created
    BY <1>2, <1>3, <1>4, <2>2
  <2> QED BY <1>1, <2>1, <2>3, <2>4, <2>5 DEF Open
<1> QED BY <1>6, <1>7, <1>8, <1>9, <1>10, <1>11, <1>12 DEF QueueInv

(* Generations are numbered from 1.                                        *)
LEMMA Generations ==
  ASSUME GensOK
  PROVE  /\ last \in Nat /\ (current # 0 => current \in Gen) /\ (last # 0 => last \in Gen)
         /\ \A n \in 0..MaxGen : n # 0 => n \in Gen
         /\ \A g \in Gen : g \in 0..MaxGen /\ g # 0
<1>1. last \in 0..MaxGen /\ current \in {0, last}
  BY DEF GensOK
<1>2. \A n \in 0..MaxGen : n # 0 => n \in Gen
  BY QueueAssumption DEF Gen
<1>3. \A g \in Gen : g \in 0..MaxGen /\ g # 0
  BY QueueAssumption DEF Gen
<1> QED BY <1>1, <1>2, <1>3

(* The first message of a queue, once it is taken from it, is in no queue. *)
LEMMA Popped ==
  ASSUME QueueInv, NEW g \in Gen, queue[g] # <<>>,
         queue' = [queue EXCEPT ![g] = Tail(queue[g])]
  PROVE  /\ queue' \in [Gen -> Seq(Caller)] /\ Head(queue[g]) \in Caller
         /\ answer[Head(queue[g])] = "none" /\ pc[Head(queue[g])] \in {"wait", "done"}
         /\ \A h \in Gen, w \in Worker : job[h][w] # Head(queue[g])
         /\ \A h \in Gen : \A i \in 1..Len(queue'[h]) :
              /\ queue'[h][i] # Head(queue[g])
              /\ \E j \in 1..Len(queue[h]) : queue'[h][i] = queue[h][j]
         /\ \A h, k \in Gen : \A i \in 1..Len(queue'[h]), j \in 1..Len(queue'[k]) :
              queue'[h][i] = queue'[k][j] => h = k /\ i = j
<1>0. QueuesTypeOK /\ QueuesOK /\ Placed /\ Pending
  BY DEF QueueInv, QueuesTypeOK
<1>1. queue \in [Gen -> Seq(Caller)] /\ queue[g] \in Seq(Caller)
  BY <1>0 DEF QueuesOK
<1>2. /\ Len(queue[g]) \in Nat /\ 1 \in 1..Len(queue[g]) /\ Head(queue[g]) = queue[g][1]
      /\ Tail(queue[g]) \in Seq(Caller) /\ Len(Tail(queue[g])) = Len(queue[g]) - 1
      /\ \A i \in 1..Len(Tail(queue[g])) :
           i + 1 \in 1..Len(queue[g]) /\ Tail(queue[g])[i] = queue[g][i + 1]
  BY <1>1
<1>3. queue' \in [Gen -> Seq(Caller)] /\ queue'[g] = Tail(queue[g])
  BY <1>1, <1>2
<1>4. \A h \in Gen : h # g => queue'[h] = queue[h]
  BY <1>1
<1>5. \A h \in Gen : \A i \in 1..Len(queue'[h]) :
        LET j == IF h = g THEN i + 1 ELSE i IN
        /\ j \in 1..Len(queue[h]) /\ queue'[h][i] = queue[h][j]
        /\ h = g => j # 1
  <2>1. ASSUME NEW i \in 1..Len(queue'[g]) PROVE i + 1 # 1
    BY <1>2, <1>3
  <2> QED BY <1>2, <1>3, <1>4, <2>1
<1>6. /\ Head(queue[g]) \in Caller /\ answer[Head(queue[g])] = "none"
      /\ pc[Head(queue[g])] \in {"wait", "done"}
      /\ \A h \in Gen, w \in Worker : job[h][w] # Head(queue[g])
  BY <1>0, <1>2, Buffered DEF Pending, Placed
<1>7. \A h \in Gen : \A i \in 1..Len(queue'[h]) :
        /\ queue'[h][i] # Head(queue[g])
        /\ \E j \in 1..Len(queue[h]) : queue'[h][i] = queue[h][j]
  <2>1. ASSUME NEW h \in Gen, NEW i \in 1..Len(queue'[h])
        PROVE  /\ queue'[h][i] # Head(queue[g])
               /\ \E j \in 1..Len(queue[h]) : queue'[h][i] = queue[h][j]
    <3>1. PICK j \in 1..Len(queue[h]) : queue'[h][i] = queue[h][j] /\ (h = g => j # 1)
      BY <1>5
    <3>2. queue[h][j] # queue[g][1]
      BY <1>0, <1>2, <3>1 DEF Placed
    <3> QED BY <1>2, <3>1, <3>2
  <2> QED BY <2>1
<1>8. ASSUME NEW h \in Gen, NEW k \in Gen, NEW i \in 1..Len(queue'[h]),
             NEW j \in 1..Len(queue'[k]), queue'[h][i] = queue'[k][j]
      PROVE  h = k /\ i = j
  <2>1. h = k /\ (IF h = g THEN i + 1 ELSE i) = (IF k = g THEN j + 1 ELSE j)
    BY <1>0, <1>5, <1>8 DEF Placed
  <2>2. i \in Int /\ j \in Int
    OBVIOUS
  <2> QED BY <2>1, <2>2
<1> QED BY <1>3, <1>6, <1>7, <1>8

(* A message that is refused is in no queue any more when it is answered.  *)
LEMMA RefuseKeeps ==
  ASSUME QueueInv, NEW g \in Gen, NEW why \in {"closing", "queueFull"}, Refuse(g, why),
         UNCHANGED <<wpc, job, cleanup, mutex, lifecycle, stopping, down, target>>,
         apc' \in [Admin -> AdminPC],
         \A a \in Admin : apc'[a] = apc[a] \/ (apc[a] \in Updating /\ apc'[a] \in Updating)
  PROVE  QueueInv'
<1>0. /\ GensOK /\ QueuesOK /\ WorkersOK /\ LocksOK /\ CallersOK /\ AdminsOK /\ QueuesTypeOK
      /\ Locked /\ Placed /\ Pending /\ Aimed /\ Followed /\ Open
  BY DEF QueueInv, QueuesTypeOK
<1>1. /\ queue[g] # <<>> /\ queue' = [queue EXCEPT ![g] = Tail(queue[g])]
      /\ answer' = [answer EXCEPT ![Head(queue[g])] = why] \/ answer' = answer
      /\ UNCHANGED <<closing, last, current, listed, pc, pq>>
  BY DEF Refuse, Put
<1>2. /\ queue' \in [Gen -> Seq(Caller)] /\ Head(queue[g]) \in Caller
      /\ pc[Head(queue[g])] \in {"wait", "done"}
      /\ \A h \in Gen, w \in Worker : job[h][w] # Head(queue[g])
      /\ \A h \in Gen : \A i \in 1..Len(queue'[h]) :
           /\ queue'[h][i] # Head(queue[g])
           /\ \E j \in 1..Len(queue[h]) : queue'[h][i] = queue[h][j]
      /\ \A h, k \in Gen : \A i \in 1..Len(queue'[h]), j \in 1..Len(queue'[k]) :
           queue'[h][i] = queue'[k][j] => h = k /\ i = j
  BY <1>1, Popped
<1>3. \A d \in Caller : d # Head(queue[g]) => answer'[d] = answer[d]
  BY <1>0, <1>1 DEF CallersOK
<1>4. \A a \in Admin : apc'[a] = apc[a] \/ (apc[a] \in Updating /\ apc'[a] \in Updating)
  OBVIOUS
<1>5. QueuesTypeOK'
  <2>1. answer' \in [Caller -> {"none", "served", "closing", "queueFull"}]
    BY <1>0, <1>1, <1>2 DEF CallersOK
  <2> QED BY <1>0, <1>1, <1>2, <2>1 DEF QueuesTypeOK, GensOK, QueuesOK, WorkersOK,
            LocksOK, CallersOK, AdminsOK
<1>6. Locked'
  BY <1>0, <1>1, <1>4 DEF Locked, AdminHolds, UpdateHolds, ShutdownHolds, Quieting,
     Updating
<1>7. Placed'
  <2>1. ASSUME NEW h \in Gen, NEW k \in Gen, NEW w \in Worker, NEW i \in 1..Len(queue'[h])
        PROVE  queue'[h][i] # job'[k][w]
    BY <1>0, <1>2 DEF Placed
  <2>2. \A h, k \in Gen, w, x \in Worker :
          job'[h][w] = job'[k][x] /\ job'[h][w] # Nobody => h = k /\ w = x
    BY <1>0 DEF Placed
  <2> QED BY <1>2, <2>1, <2>2 DEF Placed
<1>8. Pending'
  <2>1. ASSUME NEW h \in Gen, NEW i \in 1..Len(queue'[h])
        PROVE  answer'[queue'[h][i]] = "none" /\ pc'[queue'[h][i]] \in {"wait", "done"}
    <3>1. PICK j \in 1..Len(queue[h]) : queue'[h][i] = queue[h][j]
      BY <1>2
    <3>2. /\ queue[h][j] \in Caller /\ answer[queue[h][j]] = "none"
          /\ pc[queue[h][j]] \in {"wait", "done"}
      BY <1>0, Buffered DEF Pending
    <3>3. queue[h][j] # Head(queue[g])
      BY <1>2, <3>1
    <3> QED BY <1>1, <1>3, <3>1, <3>2, <3>3
  <2>2. ASSUME NEW h \in Gen, NEW w \in Worker, job'[h][w] # Nobody
        PROVE  answer'[job'[h][w]] = "none" /\ pc'[job'[h][w]] \in {"wait", "done"}
    BY <1>0, <1>1, <1>2, <1>3, <2>2, Employed DEF Pending
  <2>3. /\ \A h \in Gen, w \in Worker : wpc'[h][w] = "busy" <=> job'[h][w] # Nobody
        /\ \A d \in Caller : pc'[d] \notin {"wait", "done"} => answer'[d] = "none"
    <3>1. \A d \in Caller : pc[d] \notin {"wait", "done"} => answer[d] = "none"
      BY <1>0 DEF Pending
    <3>2. \A h \in Gen, w \in Worker : wpc[h][w] = "busy" <=> job[h][w] # Nobody
      BY <1>0 DEF Pending
    <3> QED BY <1>1, <1>2, <1>3, <3>1, <3>2
  <2> QED BY <2>1, <2>2, <2>3 DEF Pending
<1>9. Aimed'
  BY <1>0, <1>1, <1>4 DEF Aimed, Preparing, Finished, Updating, Removing
<1>10. Followed'
  <2>1. \A h \in Gen \cup {current} : Finished(h)' <=> Finished(h)
    BY DEF Finished
  <2>2. \A a \in Admin : /\ apc[a] \in Updating => apc'[a] \in Updating
                         /\ apc[a] \in Quieting <=> apc'[a] \in Quieting
    BY <1>4 DEF Updating, Quieting
  <2> QED BY <1>0, <1>1, <2>1, <2>2 DEF Followed
<1>11. Open'
  BY <1>0, <1>1, <1>4 DEF Open, Preparing, Removing, Updating
<1> QED BY <1>5, <1>6, <1>7, <1>8, <1>9, <1>10, <1>11 DEF QueueInv

(* Nothing changes but where the workers of a generation are, and what they*)
(* hold: those that were finished stay so, and only a closed queue loses   *)
(* workers.                                                                *)
LEMMA WorkersMove ==
  ASSUME QueueInv, NEW g \in Gen, NEW w \in Worker, NEW to \in WorkerPC \ {"off"},
         wpc[g][w] \in Running, wpc' = [wpc EXCEPT ![g][w] = to],
         to \in {"drain", "exited"} => closing[g],
         UNCHANGED <<closing, last, current, listed, cleanup, mutex, lifecycle, stopping, down,
                     pc, pq, apc, target>>,
         queue' \in [Gen -> Seq(Caller)], job' \in [Gen -> [Worker -> Caller \cup {Nobody}]],
         answer' \in [Caller -> {"none", "served", "closing", "queueFull"}],
         Placed', Pending'
  PROVE  QueueInv'
<1>0. /\ GensOK /\ QueuesOK /\ WorkersOK /\ LocksOK /\ CallersOK /\ AdminsOK /\ QueuesTypeOK
      /\ Locked /\ Placed /\ Pending /\ Aimed /\ Followed /\ Open
  BY DEF QueueInv, QueuesTypeOK
<1>1. /\ wpc' \in [Gen -> [Worker -> WorkerPC]] /\ wpc'[g][w] = to
      /\ \A h \in Gen, x \in Worker : <<h, x>> # <<g, w>> => wpc'[h][x] = wpc[h][x]
  BY <1>0 DEF WorkersOK
<1>2. QueuesTypeOK'
  BY <1>0, <1>1 DEF QueuesTypeOK, GensOK, QueuesOK, WorkersOK, LocksOK, CallersOK,
     AdminsOK
<1>3. Locked'
  BY <1>0 DEF Locked
<1>4. wpc[g][w] \notin {"off", "exited"} /\ to # "off"
  BY DEF Running
<1>5. \A h \in Gen : Finished(h) => Finished(h)'
  BY <1>1 DEF Finished
<1>6. Aimed'
  <2>1. \A a \in Admin : target[a] # 0 => target[a] \in Gen
    BY <1>0, Generations DEF AdminsOK
  <2>2. Preparing' => Preparing
    BY DEF Preparing
  <2>3. ASSUME Preparing' PROVE \A x \in Worker : wpc'[last][x] = "off"
    <3>1. Preparing /\ last > 0
      BY <1>0, <2>3, <2>2 DEF Aimed
    <3>2. last \in Gen
      BY <1>0, <3>1, Generations
    <3> QED BY <1>0, <1>1, <1>4, <3>1, <3>2 DEF Aimed
  <2> QED BY <1>0, <1>5, <2>1, <2>3, <2>2 DEF Aimed, Removing
<1>7. current # 0 => current \in Gen
  BY <1>0, Generations
<1>8. Followed'
  <2>1. \A h \in Gen : h > last => \A x \in Worker : wpc'[h][x] = "off"
    <3>1. \A h \in Gen : h > last => \A x \in Worker : wpc[h][x] = "off"
      BY <1>0 DEF Followed
    <3> QED BY <1>1, <1>4, <3>1
  <2> QED BY <1>0, <1>5, <1>7, <2>1 DEF Followed
<1>9. Open'
  <2>1. \A h \in Gen, x \in Worker : wpc'[h][x] = "off" <=> wpc[h][x] = "off"
    BY <1>1, <1>4
  <2>2. \A h \in Gen, x \in Worker : wpc'[h][x] \in {"drain", "exited"} => closing'[h]
    BY <1>0, <1>1 DEF Open
  <2>3. Preparing' <=> Preparing
    BY DEF Preparing
  <2>4. \A h \in Gen : \/ \A x \in Worker : wpc'[h][x] = "off"
                       \/ \A x \in Worker : wpc'[h][x] # "off"
    BY <1>0, <2>1 DEF Open
  <2>5. current # 0 /\ (\A x \in Worker : wpc'[current][x] = "off") =>
          Preparing' \/ FALSE \in Created
    BY <1>0, <1>7, <2>1, <2>3 DEF Open
  <2> QED BY <1>0, <2>2, <2>4, <2>5 DEF Open
<1> QED BY <1>2, <1>3, <1>6, <1>8, <1>9 DEF QueueInv

(* Workers take messages, one each, and answer them.                       *)
LEMMA WorkerKeeps ==
  ASSUME QueueInv, NEW g \in Gen, NEW w \in Worker, WorkerNext(g, w)
  PROVE  QueueInv'
<1>0. /\ GensOK /\ QueuesOK /\ WorkersOK /\ LocksOK /\ CallersOK /\ AdminsOK /\ QueuesTypeOK
      /\ Locked /\ Placed /\ Pending /\ Aimed /\ Followed /\ Open
  BY DEF QueueInv, QueuesTypeOK
<1>1. CASE Take(g, w)
  <2> DEFINE c == Head(queue[g])
  <2>1. /\ queue[g] # <<>> /\ queue' = [queue EXCEPT ![g] = Tail(queue[g])]
        /\ wpc[g][w] = "idle" /\ wpc' = [wpc EXCEPT ![g][w] = "busy"]
        /\ job' = [job EXCEPT ![g][w] = c]
        /\ UNCHANGED <<closing, last, current, listed, cleanup, mutex, lifecycle, stopping,
                       down, pc, pq, answer, apc, target>>
    BY <1>1 DEF Take, Step, Others, lockVars, adminVars, callerVars
  <2>2. /\ queue' \in [Gen -> Seq(Caller)] /\ c \in Caller
        /\ answer[c] = "none" /\ pc[c] \in {"wait", "done"}
        /\ \A h \in Gen, x \in Worker : job[h][x] # c
        /\ \A h \in Gen : \A i \in 1..Len(queue'[h]) :
             /\ queue'[h][i] # c /\ \E j \in 1..Len(queue[h]) : queue'[h][i] = queue[h][j]
        /\ \A h, k \in Gen : \A i \in 1..Len(queue'[h]), j \in 1..Len(queue'[k]) :
             queue'[h][i] = queue'[k][j] => h = k /\ i = j
    BY <2>1, Popped
  <2>0. \A h \in Gen : \A i \in 1..Len(queue'[h]) :
          \E j \in 1..Len(queue[h]) : queue'[h][i] = queue[h][j]
    BY <2>2
  <2> HIDE DEF c
  <2>3. /\ job' \in [Gen -> [Worker -> Caller \cup {Nobody}]] /\ job'[g][w] = c
        /\ \A h \in Gen, x \in Worker : <<h, x>> # <<g, w>> => job'[h][x] = job[h][x]
    BY <1>0, <2>1, <2>2 DEF WorkersOK
  <2>4. Placed'
    <3>1. \A h, k \in Gen, x, y \in Worker :
            job'[h][x] = job'[k][y] /\ job'[h][x] # Nobody => h = k /\ x = y
      <4>1. \A h \in Gen, x \in Worker : job[h][x] # c
        BY <2>2
      <4> QED BY <1>0, <2>3, <4>1 DEF Placed
    <3>2. ASSUME NEW h \in Gen, NEW k \in Gen, NEW x \in Worker, NEW i \in 1..Len(queue'[h])
          PROVE  queue'[h][i] # job'[k][x]
      <4>1. PICK j \in 1..Len(queue[h]) : queue'[h][i] = queue[h][j]
        BY <2>0
      <4>2. queue[h][j] # job[k][x] /\ queue'[h][i] # c
        BY <1>0, <2>2 DEF Placed
      <4> QED BY <2>3, <4>1, <4>2
    <3> QED BY <2>2, <3>1, <3>2 DEF Placed
  <2>5. Pending'
    <3>1. ASSUME NEW h \in Gen, NEW i \in 1..Len(queue'[h])
          PROVE  answer'[queue'[h][i]] = "none" /\ pc'[queue'[h][i]] \in {"wait", "done"}
      BY <1>0, <2>1, <2>2 DEF Pending
    <3>2. \A h \in Gen, x \in Worker :
            /\ <<h, x>> # <<g, w>> => wpc'[h][x] = wpc[h][x]
            /\ wpc'[g][w] = "busy"
      BY <1>0, <2>1 DEF WorkersOK
    <3>3. c # Nobody
      BY <2>2, QueueAssumption
    <3> QED BY <1>0, <2>1, <2>2, <2>3, <3>1, <3>2, <3>3 DEF Pending
  <2>6. /\ wpc[g][w] \in Running /\ "busy" \in WorkerPC \ {"off"}
        /\ "busy" \notin {"drain", "exited"}
        /\ answer' \in [Caller -> {"none", "served", "closing", "queueFull"}]
    BY <1>0, <2>1 DEF CallersOK, WorkerPC, Running
  <2> QED BY <2>1, <2>2, <2>3, <2>4, <2>5, <2>6, WorkersMove
<1>2. CASE Answer(g, w)
  <2> DEFINE c == job[g][w]
  <2>1. /\ wpc[g][w] = "busy" /\ wpc' = [wpc EXCEPT ![g][w] = "idle"]
        /\ job' = [job EXCEPT ![g][w] = Nobody]
        /\ answer' = [answer EXCEPT ![c] = "served"] \/ answer' = answer
        /\ UNCHANGED <<queue, closing, last, current, listed, cleanup, mutex, lifecycle, stopping,
                       down, pc, pq, apc, target>>
    BY <1>2 DEF Answer, Step, Put, Others, lockVars, adminVars, queueVars
  <2>2. c \in Caller /\ pc[c] \in {"wait", "done"}
    BY <1>0, <2>1, Employed DEF Pending
  <2>3. /\ job' \in [Gen -> [Worker -> Caller \cup {Nobody}]] /\ job'[g][w] = Nobody
        /\ \A h \in Gen, x \in Worker : <<h, x>> # <<g, w>> => job'[h][x] = job[h][x]
    BY <1>0, <2>1 DEF WorkersOK
  <2>4. /\ \A h \in Gen, x \in Worker : <<h, x>> # <<g, w>> => job[h][x] # c
        /\ \A h \in Gen : \A i \in 1..Len(queue[h]) : queue[h][i] # c
    BY <1>0, <2>2, QueueAssumption DEF Placed
  <2> HIDE DEF c
  <2>5. \A d \in Caller : d # c => answer'[d] = answer[d]
    BY <1>0, <2>1 DEF CallersOK
  <2>6. answer' \in [Caller -> {"none", "served", "closing", "queueFull"}]
    BY <1>0, <2>1 DEF CallersOK
  <2>7. Placed'
    <3>1. \A h, k \in Gen, x, y \in Worker :
            job'[h][x] = job'[k][y] /\ job'[h][x] # Nobody => h = k /\ x = y
      BY <1>0, <2>3 DEF Placed
    <3>2. ASSUME NEW h \in Gen, NEW k \in Gen, NEW x \in Worker, NEW i \in 1..Len(queue[h])
          PROVE  queue[h][i] # job'[k][x]
      BY <1>0, <2>3, Buffered, QueueAssumption DEF Placed
    <3> QED BY <1>0, <2>1, <3>1, <3>2 DEF Placed
  <2>8. Pending'
    <3>1. ASSUME NEW h \in Gen, NEW i \in 1..Len(queue[h])
          PROVE  answer'[queue[h][i]] = "none" /\ pc[queue[h][i]] \in {"wait", "done"}
      BY <1>0, <2>4, <2>5, Buffered DEF Pending
    <3>2. ASSUME NEW h \in Gen, NEW x \in Worker, job'[h][x] # Nobody
          PROVE  answer'[job'[h][x]] = "none" /\ pc[job'[h][x]] \in {"wait", "done"}
      BY <1>0, <2>3, <2>4, <2>5, <3>2, Employed DEF Pending
    <3>3. \A h \in Gen, x \in Worker : wpc'[h][x] = "busy" <=> job'[h][x] # Nobody
      <4>1. wpc'[g][w] = "idle" /\ \A h \in Gen, x \in Worker :
              <<h, x>> # <<g, w>> => wpc'[h][x] = wpc[h][x]
        BY <1>0, <2>1 DEF WorkersOK
      <4> QED BY <1>0, <2>3, <4>1 DEF Pending
    <3>4. \A d \in Caller : pc[d] \notin {"wait", "done"} => answer'[d] = "none"
      BY <1>0, <2>2, <2>5 DEF Pending
    <3> QED BY <2>1, <3>1, <3>2, <3>3, <3>4 DEF Pending
  <2>9. /\ wpc[g][w] \in Running /\ "idle" \in WorkerPC \ {"off"} /\ queue' \in [Gen -> Seq(Caller)]
        /\ "idle" \notin {"drain", "exited"}
    BY <1>0, <2>1 DEF QueuesOK, WorkerPC, Running
  <2> QED BY <2>1, <2>3, <2>6, <2>7, <2>8, <2>9, WorkersMove
<1>3. CASE SeeDone(g, w) \/ Exit(g, w)
  <2>1. PICK to \in {"drain", "exited"} :
          /\ wpc[g][w] \in {"idle", "drain"} /\ wpc' = [wpc EXCEPT ![g][w] = to]
          /\ (to = "drain" => closing[g]) /\ (to = "exited" => wpc[g][w] = "drain")
    BY <1>3 DEF SeeDone, Exit, Step
  <2>2. UNCHANGED <<queue, closing, last, current, listed, job, cleanup, mutex, lifecycle,
                    stopping, down, pc, pq, answer, apc, target>>
    BY <1>3 DEF SeeDone, Exit, Others, queueVars, lockVars, adminVars, callerVars
  <2>3. closing[g]
    BY <1>0, <2>1 DEF Open
  <2>4. Placed'
    BY <1>0, <2>2 DEF Placed
  <2>5. Pending'
    <3>1. \A h \in Gen, x \in Worker : wpc'[h][x] = "busy" <=> wpc[h][x] = "busy"
      BY <1>0, <2>1 DEF WorkersOK
    <3> QED BY <1>0, <2>2, <3>1 DEF Pending
  <2>6. wpc[g][w] \in Running /\ to \in WorkerPC \ {"off"}
    BY <2>1 DEF WorkerPC, Running
  <2>7. /\ queue' \in [Gen -> Seq(Caller)] /\ job' \in [Gen -> [Worker -> Caller \cup {Nobody}]]
        /\ answer' \in [Caller -> {"none", "served", "closing", "queueFull"}]
    BY <1>0, <2>2 DEF QueuesOK, WorkersOK, CallersOK
  <2> QED BY <2>1, <2>2, <2>3, <2>4, <2>5, <2>6, <2>7, WorkersMove
<1>4. CASE Drain(g, w)
  BY <1>0, <1>4, RefuseKeeps DEF Drain, Others, lockVars, adminVars, workerVars,
     AdminsOK
<1> QED BY <1>1, <1>2, <1>3, <1>4 DEF WorkerNext

(* The cleanup goroutine of UpdateProvider leaves no worker unwatched.     *)
LEMMA CleanupKeeps == ASSUME QueueInv, NEW g \in Gen, CleanupNext(g) PROVE QueueInv'
<1>0. /\ GensOK /\ QueuesOK /\ WorkersOK /\ LocksOK /\ CallersOK /\ AdminsOK /\ QueuesTypeOK
      /\ Locked /\ Placed /\ Pending /\ Aimed /\ Followed /\ Open
  BY DEF QueueInv, QueuesTypeOK
<1>1. CASE CleanupWaited(g) \/ CleanupEnd(g)
  <2>1. UNCHANGED <<queue, closing, last, current, listed, wpc, job, mutex, lifecycle, stopping,
                    down, pc, pq, answer, apc, target>>
    BY <1>1 DEF CleanupWaited, CleanupEnd, Others, queueVars, lockVars, adminVars,
       callerVars
  <2>2. /\ cleanup' \in [Gen -> {"none", "wait", "sweep"}] /\ cleanup[g] # "none"
        /\ \A h \in Gen : \/ cleanup'[h] = cleanup[h]
                          \/ h = g /\ (Finished(g) \/ cleanup[g] # "wait")
    BY <1>0, <1>1 DEF CleanupWaited, CleanupEnd, Put, QueuesOK
  <2>3. QueuesTypeOK'
    BY <1>0, <2>1, <2>2 DEF QueuesTypeOK, GensOK, QueuesOK, WorkersOK, LocksOK,
       CallersOK, AdminsOK
  <2>4. Locked' /\ Placed' /\ Pending'
    BY <1>0, <2>1 DEF Locked, Placed, Pending
  <2>5. Aimed' /\ Open'
    BY <1>0, <2>1 DEF Aimed, Open, Preparing, Finished
  <2>6. Followed'
    <3>1. \A h \in Gen \cup {current} : Finished(h)' <=> Finished(h)
      BY <2>1 DEF Finished
    <3> QED BY <1>0, <2>1, <2>2, <3>1 DEF Followed
  <2> QED BY <2>3, <2>4, <2>5, <2>6 DEF QueueInv
<1>2. CASE CleanupSweep(g)
  BY <1>0, <1>2, RefuseKeeps DEF CleanupSweep, Others, lockVars, adminVars, workerVars,
     AdminsOK
<1> QED BY <1>1, <1>2 DEF CleanupNext

(* An admin step that moves no message, no worker and no caller.           *)
LEMMA AdminWalks ==
  ASSUME QueueInv, NEW a \in Admin, NEW to \in AdminPC, apc' = [apc EXCEPT ![a] = to],
         UNCHANGED <<queue, last, current, listed, wpc, job, cleanup, mutex, pc, pq, answer>>,
         LocksOK', Locked',
         apc[a] \in Removing <=> to \in Removing,
         apc[a] \notin Updating \cup {"prepare"}, to \notin Updating \cup {"prepare"},
         to \in {"removeSweep", "removeRetired"} => Finished(target[a]),
         down => down',
         down' /\ (apc[a] \in Quieting \/ ~down) /\ to \notin Quieting =>
           \A g \in Gen : cleanup[g] = "none",
         \/ closing' = closing
         \/ current # 0 /\ closing' = [closing EXCEPT ![current] = TRUE] /\ down,
         target' = target \/ (target' = [target EXCEPT ![a] = current] /\ to \notin Removing)
  PROVE  QueueInv'
<1>0. /\ GensOK /\ QueuesOK /\ WorkersOK /\ LocksOK /\ CallersOK /\ AdminsOK /\ QueuesTypeOK
      /\ Locked /\ Placed /\ Pending /\ Aimed /\ Followed /\ Open
  BY DEF QueueInv, QueuesTypeOK
<1>1. (current # 0 => current \in Gen) /\ current \in 0..MaxGen
  BY <1>0, Generations, QueueAssumption DEF GensOK
<1>2. QueuesTypeOK'
  <2>1. closing' \in [Gen -> BOOLEAN]
    BY <1>0, <1>1 DEF QueuesOK
  <2>2. target' \in [Admin -> 0..MaxGen] /\ apc' \in [Admin -> AdminPC]
    BY <1>0, <1>1 DEF AdminsOK
  <2> QED BY <1>0, <2>1, <2>2 DEF QueuesTypeOK, GensOK, QueuesOK, WorkersOK, CallersOK,
             AdminsOK
<1>3. Placed' /\ Pending'
  BY <1>0 DEF Placed, Pending
<1>4. \A b \in Admin : /\ b # a => apc'[b] = apc[b] /\ target'[b] = target[b]
                       /\ apc'[a] = to /\ (to \in Removing => target'[a] = target[a])
  BY <1>0 DEF AdminsOK
<1>5. \A b \in Admin : /\ apc'[b] \in Updating <=> apc[b] \in Updating
                       /\ apc'[b] \in Removing <=> apc[b] \in Removing
                       /\ apc'[b] = "prepare" <=> apc[b] = "prepare"
                       /\ apc[b] \in Updating \cup Removing => target'[b] = target[b]
  BY <1>4 DEF Updating, Removing
<1>6. \A n : Finished(n)' <=> Finished(n)
  BY DEF Finished
<1>7. Preparing' <=> Preparing
  BY <1>5 DEF Preparing
<1>8. Aimed'
  <2>1. ASSUME NEW b \in Admin, apc'[b] \in {"removeSweep", "removeRetired"}
        PROVE  Finished(target'[b])
    BY <1>0, <1>4, <2>1 DEF Aimed, Removing
  <2> QED BY <1>0, <1>5, <1>6, <1>7, <2>1 DEF Aimed
<1>9. Followed'
  <2>1. \A g \in Gen : g > last => closing'[g] = closing[g]
    BY <1>0, <1>1, Generations DEF QueuesOK, GensOK
  <2>2. ASSUME down', \A b \in Admin : apc'[b] \notin Quieting
        PROVE  \A g \in Gen : cleanup[g] = "none"
    BY <1>0, <1>4, <2>2 DEF Followed
  <2> QED BY <1>0, <1>5, <1>6, <2>1, <2>2 DEF Followed
<1>10. Open'
  <2>1. \A g \in Gen : closing[g] => closing'[g]
    BY <1>0 DEF QueuesOK
  <2>2. current # 0 /\ closing'[current] /\ ~down' => closing[current] /\ ~down
    BY <1>0, <1>1 DEF QueuesOK
  <2> QED BY <1>0, <1>5, <1>7, <2>1, <2>2 DEF Open
<1> QED BY <1>2, <1>3, <1>8, <1>9, <1>10 DEF QueueInv

(* Those are the steps in which UpdateProvider only takes or gives back its*)
(* lock, RemoveProvider ends a wait, and all of Shutdown but its sweep.    *)
LEMMA AdminWalksKeep ==
  ASSUME QueueInv, NEW a \in Admin,
         \/ UpdateBegin(a) \/ UpdateFails(a) \/ RemoveWaited(a) \/ RemoveSwept(a)
         \/ ShutdownBegin(a) \/ ShutdownSignal(a) \/ ShutdownRange(a) \/ ShutdownWaited(a)
         \/ ShutdownCleaned(a) \/ ShutdownEnd(a)
  PROVE  QueueInv'
<1>0. LocksOK /\ AdminsOK /\ Locked /\ Aimed /\ Followed
  BY DEF QueueInv, QueuesTypeOK
<1>1. UNCHANGED <<queue, last, current, listed, wpc, job, cleanup, mutex, pc, pq, answer>>
  BY DEF UpdateBegin, UpdateFails, RemoveWaited, RemoveSwept, ShutdownBegin,
     ShutdownSignal,
         ShutdownRange, ShutdownWaited, ShutdownCleaned, ShutdownEnd, queueVars, workerVars,
         lockVars, callerVars
<1>2. CASE UpdateBegin(a)
  <2>1. PICK to \in {"done", "update"} :
          /\ apc[a] = "idle" /\ apc' = [apc EXCEPT ![a] = to]
          /\ UNCHANGED <<closing, target, stopping, down>>
          /\ lifecycle' = IF to = "done" THEN lifecycle ELSE lifecycle \cup {a}
          /\ to = "update" => ~down /\ stopping = Nobody
    BY <1>2 DEF UpdateBegin, To, Put, queueVars, lockVars
  <2>2. LocksOK' /\ Locked'
    BY <1>0, <1>1, <2>1, QueueAssumption DEF LocksOK, AdminsOK, Locked, AdminHolds,
       UpdateHolds, ShutdownHolds, Quieting, Updating, Removing
  <2> QED BY <1>0, <1>1, <2>1, <2>2, AdminWalks DEF AdminPC, AdminHolds, UpdateHolds,
             ShutdownHolds, Quieting, Updating, Removing, Locked, Aimed, Followed
<1>3. CASE UpdateFails(a)
  <2>1. /\ apc[a] = "update" /\ apc' = [apc EXCEPT ![a] = "done"]
        /\ UNCHANGED <<closing, target, stopping, down>> /\ lifecycle' = lifecycle \ {a}
    BY <1>3 DEF UpdateFails, To, Put, queueVars, lockVars
  <2>2. LocksOK' /\ Locked'
    BY <1>0, <1>1, <2>1, QueueAssumption DEF LocksOK, AdminsOK, Locked, AdminHolds,
       UpdateHolds, ShutdownHolds,
       Quieting, Updating, Removing
  <2> QED BY <1>0, <1>1, <2>1, <2>2, AdminWalks DEF AdminPC, AdminHolds, UpdateHolds,
             ShutdownHolds,
       Quieting, Updating, Removing, Locked, Aimed, Followed
<1>4. CASE RemoveWaited(a)
  <2>1. /\ apc[a] = "remove" /\ apc' = [apc EXCEPT ![a] = "removeSweep"]
        /\ UNCHANGED <<closing, target, lifecycle, stopping, down>> /\ Finished(target[a])
    BY <1>4 DEF RemoveWaited, To, Put, queueVars, lockVars
  <2>2. LocksOK' /\ Locked'
    BY <1>0, <1>1, <2>1, QueueAssumption DEF LocksOK, AdminsOK, Locked, AdminHolds,
       UpdateHolds, ShutdownHolds,
       Quieting, Updating, Removing
  <2> QED BY <1>0, <1>1, <2>1, <2>2, AdminWalks DEF AdminPC, AdminHolds, UpdateHolds,
             ShutdownHolds,
       Quieting, Updating, Removing, Locked, Aimed, Followed
<1>5. CASE RemoveSwept(a)
  <2>1. /\ apc[a] = "removeSweep" /\ apc' = [apc EXCEPT ![a] = "removeRetired"]
        /\ UNCHANGED <<closing, target, lifecycle, stopping, down>>
    BY <1>5 DEF RemoveSwept, To, Put, queueVars, lockVars
  <2>2. LocksOK' /\ Locked'
    BY <1>0, <1>1, <2>1, QueueAssumption DEF LocksOK, AdminsOK, Locked, AdminHolds,
       UpdateHolds, ShutdownHolds,
       Quieting, Updating, Removing
  <2> QED BY <1>0, <1>1, <2>1, <2>2, AdminWalks DEF AdminPC, AdminHolds, UpdateHolds,
             ShutdownHolds,
       Quieting, Updating, Removing, Locked, Aimed, Followed
<1>6. CASE ShutdownBegin(a)
  <2>1. /\ apc[a] = "idle" /\ apc' = [apc EXCEPT ![a] = "signal"]
        /\ UNCHANGED <<closing, target, lifecycle>> /\ lifecycle = {}
        /\ stopping = Nobody /\ stopping' = a /\ down' = TRUE
    BY <1>6 DEF ShutdownBegin, To, Put, queueVars, lockVars
  <2>2. LocksOK' /\ Locked'
    BY <1>0, <1>1, <2>1, QueueAssumption DEF LocksOK, AdminsOK, Locked, AdminHolds,
       UpdateHolds, ShutdownHolds,
       Quieting, Updating, Removing
  <2> QED BY <1>0, <1>1, <2>1, <2>2, AdminWalks DEF AdminPC, AdminHolds, UpdateHolds,
             ShutdownHolds,
       Quieting, Updating, Removing, Locked, Aimed, Followed
<1>7. CASE ShutdownSignal(a)
  <2>1. /\ apc[a] = "signal" /\ apc' = [apc EXCEPT ![a] = "workers"]
        /\ UNCHANGED <<target, lifecycle, stopping, down>>
        /\ closing' = IF current = 0 THEN closing ELSE [closing EXCEPT ![current] = TRUE]
    BY <1>7 DEF ShutdownSignal, To, Put, queueVars, lockVars
  <2>2. LocksOK' /\ Locked'
    BY <1>0, <1>1, <2>1, QueueAssumption DEF LocksOK, AdminsOK, Locked, AdminHolds,
       UpdateHolds, ShutdownHolds,
       Quieting, Updating, Removing
  <2>3. \/ closing' = closing
        \/ current # 0 /\ closing' = [closing EXCEPT ![current] = TRUE] /\ down
    BY <1>0, <2>1, QueueAssumption DEF Locked, LocksOK, ShutdownHolds, Quieting
  <2>4. /\ "workers" \in AdminPC /\ "workers" \notin Updating \cup Removing \cup {"prepare"}
        /\ "signal" \notin Updating \cup Removing \cup {"prepare"} /\ "workers" \in Quieting
    BY DEF AdminPC, ShutdownHolds, Quieting, Updating, Removing
  <2> QED BY <1>1, <2>1, <2>2, <2>3, <2>4, AdminWalks DEF Removing
<1>8. CASE ShutdownRange(a)
  <2>1. /\ apc[a] = "workers" /\ apc' = [apc EXCEPT ![a] = "waitWorkers"]
        /\ UNCHANGED <<closing, lifecycle, stopping, down>>
        /\ target' = [target EXCEPT ![a] = current]
    BY <1>8 DEF ShutdownRange, To, Put, queueVars, lockVars
  <2>2. LocksOK' /\ Locked'
    BY <1>0, <1>1, <2>1, QueueAssumption DEF LocksOK, AdminsOK, Locked, AdminHolds,
       UpdateHolds, ShutdownHolds,
       Quieting, Updating, Removing
  <2> QED BY <1>0, <1>1, <2>1, <2>2, AdminWalks DEF AdminPC, AdminHolds, UpdateHolds,
             ShutdownHolds,
       Quieting, Updating, Removing, Locked, Aimed, Followed
<1>9. CASE ShutdownWaited(a)
  <2>1. /\ apc[a] = "waitWorkers" /\ apc' = [apc EXCEPT ![a] = "cleanups"]
        /\ UNCHANGED <<closing, target, lifecycle, stopping, down>>
    BY <1>9 DEF ShutdownWaited, To, Put, queueVars, lockVars
  <2>2. LocksOK' /\ Locked'
    BY <1>0, <1>1, <2>1, QueueAssumption DEF LocksOK, AdminsOK, Locked, AdminHolds,
       UpdateHolds, ShutdownHolds,
       Quieting, Updating, Removing
  <2> QED BY <1>0, <1>1, <2>1, <2>2, AdminWalks DEF AdminPC, AdminHolds, UpdateHolds,
             ShutdownHolds,
       Quieting, Updating, Removing, Locked, Aimed, Followed
<1>10. CASE ShutdownCleaned(a)
  <2>1. /\ apc[a] = "cleanups" /\ apc' = [apc EXCEPT ![a] = "sweep"]
        /\ UNCHANGED <<closing, lifecycle, stopping, down>>
        /\ target' = [target EXCEPT ![a] = current] /\ \A g \in Gen : cleanup[g] = "none"
    BY <1>10 DEF ShutdownCleaned, To, Put, queueVars, lockVars
  <2>2. LocksOK' /\ Locked'
    BY <1>0, <1>1, <2>1, QueueAssumption DEF LocksOK, AdminsOK, Locked, AdminHolds,
       UpdateHolds, ShutdownHolds,
       Quieting, Updating, Removing
  <2> QED BY <1>0, <1>1, <2>1, <2>2, AdminWalks DEF AdminPC, AdminHolds, UpdateHolds,
             ShutdownHolds,
       Quieting, Updating, Removing, Locked, Aimed, Followed
<1>11. CASE ShutdownEnd(a)
  <2>1. /\ apc[a] = "sweep" /\ apc' = [apc EXCEPT ![a] = "done"]
        /\ UNCHANGED <<closing, target, lifecycle, down>> /\ stopping' = Nobody
    BY <1>11 DEF ShutdownEnd, To, Put, queueVars, lockVars
  <2>2. LocksOK' /\ Locked'
    BY <1>0, <1>1, <2>1, QueueAssumption DEF LocksOK, AdminsOK, Locked, AdminHolds,
       UpdateHolds, ShutdownHolds,
       Quieting, Updating, Removing
  <2> QED BY <1>0, <1>1, <2>1, <2>2, AdminWalks DEF AdminPC, AdminHolds, UpdateHolds,
             ShutdownHolds,
       Quieting, Updating, Removing, Locked, Aimed, Followed
<1> QED BY <1>2, <1>3, <1>4, <1>5, <1>6, <1>7, <1>8, <1>9, <1>10, <1>11

(* Replace makes a new generation current, with its workers, and keeps the *)
(* old one in its hands.                                                   *)
LEMMA ReplaceKeeps == ASSUME QueueInv, NEW a \in Admin, Replace(a) PROVE QueueInv'
<1>0. /\ GensOK /\ QueuesOK /\ WorkersOK /\ LocksOK /\ CallersOK /\ AdminsOK /\ QueuesTypeOK
      /\ Locked /\ Placed /\ Pending /\ Aimed /\ Followed /\ Open
  BY DEF QueueInv, QueuesTypeOK
<1>1. /\ UNCHANGED <<queue, closing, job, cleanup, lifecycle, stopping, down, pc, pq, answer>>
      /\ current # 0 /\ apc[a] = "update" /\ apc' = [apc EXCEPT ![a] = "transfer"]
      /\ target' = [target EXCEPT ![a] = current] /\ mutex = Nobody /\ mutex' = a
      /\ last < MaxGen /\ last' = last + 1 /\ current' = last + 1 /\ listed' = TRUE
      /\ wpc' = [wpc EXCEPT ![last + 1] = [w \in Worker |-> "idle"]]
  BY DEF Replace, To, Put, callerVars
<1>2. /\ last \in Nat /\ last + 1 \in 0..MaxGen /\ last + 1 \in Gen /\ current = last
      /\ last \in Gen /\ current < last + 1 /\ last + 1 # 0 /\ current \in 0..MaxGen /\ current > 0
  BY <1>0, <1>1, QueueAssumption DEF GensOK, Gen
<1>3. /\ wpc' \in [Gen -> [Worker -> WorkerPC]]
      /\ \A g \in Gen, w \in Worker :
           wpc'[g][w] = IF g = last + 1 THEN "idle" ELSE wpc[g][w]
  BY <1>0, <1>1, <1>2 DEF WorkersOK, WorkerPC, Running
<1>4. /\ apc'[a] = "transfer" /\ target'[a] = current
      /\ \A b \in Admin : b # a => apc'[b] = apc[b] /\ target'[b] = target[b]
      /\ \A b \in Admin : b # a => apc'[b] \notin AdminHolds
  BY <1>0, <1>1, OneHolder DEF AdminsOK
<1>5. QueuesTypeOK'
  <2>1. apc' \in [Admin -> AdminPC] /\ target' \in [Admin -> 0..MaxGen]
    BY <1>0, <1>1, <1>2 DEF AdminsOK, AdminPC, AdminHolds, Updating
  <2> QED BY <1>0, <1>1, <1>2, <1>3, <2>1 DEF QueuesTypeOK, GensOK, QueuesOK,
             WorkersOK, LocksOK,
            CallersOK, AdminsOK
<1>6. Locked'
  BY <1>0, <1>1, <1>4, QueueAssumption DEF Locked, AdminHolds, UpdateHolds,
     ShutdownHolds, Quieting,
     Updating, Removing
<1>7. Placed'
  BY <1>0, <1>1 DEF Placed
<1>8. Pending'
  <2>1. \A w \in Worker : wpc[last + 1][w] = "off"
    BY <1>0, <1>2 DEF Followed
  <2>2. \A g \in Gen, w \in Worker : wpc'[g][w] = "busy" <=> wpc[g][w] = "busy"
    BY <1>3, <2>1
  <2> QED BY <1>0, <1>1, <2>2 DEF Pending
<1>9. Aimed'
  <2>1. ~Preparing'
    BY <1>1, <1>4, QueueAssumption DEF Preparing
  <2>2. \A b \in Admin : apc'[b] \in Updating \cup Removing => b = a
    BY <1>4 DEF AdminHolds
  <2>3. \A c \in Caller : pc'[c] \in {"check", "send", "block"} => pq'[c] # 0
    BY <1>0, <1>1 DEF Aimed
  <2> QED BY <1>1, <1>2, <1>4, <2>1, <2>2, <2>3 DEF Aimed, Updating, Removing
<1>10. Followed'
  <2>1. \A g \in Gen : g > last' => g > last /\ g # last + 1
    BY <1>1, <1>2, Generations, <1>0
  <2>2. ASSUME NEW g \in Gen, g > last'
        PROVE  ~closing'[g] /\ \A w \in Worker : wpc'[g][w] = "off"
    BY <1>0, <1>1, <1>3, <2>1, <2>2 DEF Followed
  <2>3. ASSUME NEW g \in Gen, ~Finished(g)'
        PROVE  \/ g = current' \/ cleanup'[g] = "wait"
               \/ \E b \in Admin : apc'[b] \in Updating /\ target'[b] = g
    <3>1. CASE g = current \/ g = last + 1
      BY <1>1, <1>4, <3>1 DEF Updating
    <3>2. CASE g # current /\ g # last + 1
      <4>1. ~Finished(g)
        BY <1>3, <2>3, <3>2 DEF Finished
      <4>2. \A b \in Admin : apc[b] \notin Updating
        BY <1>0, <1>1, OneHolder DEF AdminHolds
      <4> QED BY <1>0, <1>1, <3>2, <4>1, <4>2 DEF Followed
    <3> QED BY <3>1, <3>2
  <2>4. ~down
    BY <1>0, <1>1 DEF Locked, UpdateHolds
  <2>5. current' # 0
    BY <1>1, <1>2
  <2> QED BY <1>1, <2>2, <2>3, <2>4, <2>5 DEF Followed
<1>11. Open'
  <2>1. ~closing'[current']
    BY <1>0, <1>1, <1>2 DEF Followed
  <2>2. \A w \in Worker : wpc[last + 1][w] = "off"
    BY <1>0, <1>2 DEF Followed
  <2>3. \A g \in Gen, w \in Worker : wpc'[g][w] \in {"drain", "exited"} => closing'[g]
    BY <1>0, <1>1, <1>3 DEF Open
  <2>4. \A g \in Gen : \/ \A w \in Worker : wpc'[g][w] = "off"
                       \/ \A w \in Worker : wpc'[g][w] # "off"
    BY <1>0, <1>3 DEF Open
  <2>5. ~ \A w \in Worker : wpc'[current'][w] = "off"
    BY <1>1, <1>2, <1>3, QueueAssumption
  <2> QED BY <2>1, <2>3, <2>4, <2>5 DEF Open
<1> QED BY <1>5, <1>6, <1>7, <1>8, <1>9, <1>10, <1>11 DEF QueueInv

(* A message that is transferred leaves the old queue for the new one.     *)
LEMMA TransferKeeps == ASSUME QueueInv, NEW a \in Admin, Transfer(a) PROVE QueueInv'
<1>0. /\ GensOK /\ QueuesOK /\ WorkersOK /\ LocksOK /\ CallersOK /\ AdminsOK /\ QueuesTypeOK
      /\ Locked /\ Placed /\ Pending /\ Aimed /\ Followed /\ Open
  BY DEF QueueInv, QueuesTypeOK
<1> DEFINE g == target[a]  c == Head(queue[g])
<1>1. /\ UNCHANGED <<closing, last, current, listed, wpc, job, cleanup, mutex, lifecycle, stopping,
                     down, pc, pq, answer, apc, target>>
      /\ apc[a] = "transfer"
  BY DEF Transfer, workerVars, lockVars, callerVars, adminVars
<1>2. /\ queue[g] # <<>>
      /\ queue' = [queue EXCEPT ![g] = Tail(queue[g]), ![current] = Append(@, Head(queue[g]))]
  BY DEF Transfer
<1>3. g \in Gen /\ current \in Gen /\ g # current
  <2>1. 0 < g /\ g < current /\ g \in 0..MaxGen
    BY <1>0, <1>1 DEF Aimed, Updating, AdminsOK
  <2>2. current \in 0..MaxGen
    BY <1>0, QueueAssumption DEF GensOK
  <2> QED BY <1>0, <2>1, <2>2, Generations
<1>4. queue \in [Gen -> Seq(Caller)] /\ queue[g] \in Seq(Caller) /\ queue[current] \in Seq(Caller)
  BY <1>0, <1>3 DEF QueuesOK
<1>5. /\ Len(queue[g]) \in Nat /\ 1 \in 1..Len(queue[g]) /\ c = queue[g][1] /\ c \in Caller
      /\ Tail(queue[g]) \in Seq(Caller) /\ Len(Tail(queue[g])) = Len(queue[g]) - 1
      /\ \A i \in 1..Len(Tail(queue[g])) :
           i + 1 \in 1..Len(queue[g]) /\ Tail(queue[g])[i] = queue[g][i + 1] /\ i + 1 # 1
  BY <1>2, <1>4
<1> DEFINE n == Len(queue[current]) + 1
<1>6. /\ n - 1 \in Nat /\ Append(queue[current], c) \in Seq(Caller)
      /\ Len(Append(queue[current], c)) = n /\ Append(queue[current], c)[n] = c
      /\ \A i \in 1..(n - 1) : Append(queue[current], c)[i] = queue[current][i]
  BY <1>4, <1>5
<1>7. /\ queue'[g] = Tail(queue[g]) /\ queue'[current] = Append(queue[current], c)
      /\ \A h \in Gen \ {g, current} : queue'[h] = queue[h]
  BY <1>2, <1>3, <1>4
<1>8. queue' \in [Gen -> Seq(Caller)]
  BY <1>2, <1>3, <1>4, <1>5, <1>6
<1>9. \A h \in Gen : \A i \in 1..Len(queue'[h]) :
        \/ h = current /\ i = n /\ queue'[h][i] = c
        \/ LET j == IF h = g THEN i + 1 ELSE i IN
           j \in 1..Len(queue[h]) /\ queue'[h][i] = queue[h][j] /\ (h = g => j # 1)
  <2>1. \A i \in 1..Len(queue'[g]) :
          i + 1 \in 1..Len(queue[g]) /\ queue'[g][i] = queue[g][i + 1] /\ i + 1 # 1
    BY <1>5, <1>7
  <2>2. \A i \in 1..Len(queue'[current]) :
          \/ i = n /\ queue'[current][i] = c
          \/ i \in 1..Len(queue[current]) /\ queue'[current][i] = queue[current][i]
    BY <1>6, <1>7
  <2>3. \A h \in Gen : h # g /\ h # current => queue'[h] = queue[h]
    BY <1>7
  <2> HIDE DEF g, c, n
  <2> QED BY <1>3, <2>1, <2>2, <2>3
<1>10. /\ answer[c] = "none" /\ pc[c] \in {"wait", "done"}
       /\ \A h \in Gen, w \in Worker : job[h][w] # c
       /\ \A h \in Gen : \A j \in 1..Len(queue[h]) : queue[h][j] = c => h = g /\ j = 1
  BY <1>0, <1>3, <1>5 DEF Pending, Placed
<1> HIDE DEF g, c, n
<1>11. QueuesTypeOK'
  BY <1>0, <1>1, <1>8 DEF QueuesTypeOK, GensOK, QueuesOK, WorkersOK, LocksOK,
     CallersOK, AdminsOK
<1>12. Placed'
  <2>1. ASSUME NEW h \in Gen, NEW k \in Gen, NEW i \in 1..Len(queue'[h]),
               NEW j \in 1..Len(queue'[k]), queue'[h][i] = queue'[k][j]
        PROVE  h = k /\ i = j
    <3>0. i \in Int /\ j \in Int
      OBVIOUS
    <3>1. CASE queue'[h][i] = c
      <4>1. h = current /\ i = n
        BY <1>9, <1>10, <3>1
      <4>2. k = current /\ j = n
        <5>1. queue'[k][j] = c
          BY <2>1, <3>1
        <5> QED BY <1>9, <1>10, <5>1
      <4> QED BY <4>1, <4>2
    <3>2. CASE queue'[h][i] # c
      <4>1. PICK p \in 1..Len(queue[h]) :
              queue'[h][i] = queue[h][p] /\ p = IF h = g THEN i + 1 ELSE i
        BY <1>9, <3>2
      <4>2. queue'[k][j] # c
        BY <2>1, <3>2
      <4>3. PICK q \in 1..Len(queue[k]) :
              queue'[k][j] = queue[k][q] /\ q = IF k = g THEN j + 1 ELSE j
        BY <1>9, <4>2
      <4>4. queue[h][p] = queue[k][q]
        BY <2>1, <4>1, <4>3
      <4>5. queue[h][p] = queue[k][q] => h = k /\ p = q
        BY <1>0 DEF Placed
      <4> QED BY <3>0, <4>1, <4>3, <4>4, <4>5
    <3> QED BY <3>1, <3>2
  <2>2. ASSUME NEW h \in Gen, NEW k \in Gen, NEW w \in Worker, NEW i \in 1..Len(queue'[h])
        PROVE  queue'[h][i] # job'[k][w]
    <3>1. queue'[h][i] = c \/ \E j \in 1..Len(queue[h]) : queue'[h][i] = queue[h][j]
      BY <1>9
    <3>2. \A j \in 1..Len(queue[h]) : queue[h][j] # job[k][w]
      BY <1>0 DEF Placed
    <3> QED BY <1>1, <1>10, <3>1, <3>2
  <2>3. \A h, k \in Gen, w, x \in Worker :
          job'[h][w] = job'[k][x] /\ job'[h][w] # Nobody => h = k /\ w = x
    BY <1>0, <1>1 DEF Placed
  <2> QED BY <2>1, <2>2, <2>3 DEF Placed
<1>13. Pending'
  <2>1. ASSUME NEW h \in Gen, NEW i \in 1..Len(queue'[h])
        PROVE  answer'[queue'[h][i]] = "none" /\ pc'[queue'[h][i]] \in {"wait", "done"}
    <3>1. queue'[h][i] = c \/ \E j \in 1..Len(queue[h]) : queue'[h][i] = queue[h][j]
      BY <1>9
    <3>2. \A j \in 1..Len(queue[h]) :
            answer[queue[h][j]] = "none" /\ pc[queue[h][j]] \in {"wait", "done"}
      BY <1>0 DEF Pending
    <3> QED BY <1>1, <1>10, <3>1, <3>2
  <2> QED BY <1>0, <1>1, <2>1 DEF Pending
<1>14. Locked' /\ Aimed' /\ Open'
  BY <1>0, <1>1 DEF Locked, Aimed, Open, Preparing, Finished
<1>15. Followed'
  BY <1>0, <1>1 DEF Followed, Finished
<1> QED BY <1>11, <1>12, <1>13, <1>14, <1>15 DEF QueueInv

(* Retire hands the old workers over to the cleanup goroutine.             *)
LEMMA RetireKeeps == ASSUME QueueInv, NEW a \in Admin, Retire(a) PROVE QueueInv'
<1>0. /\ GensOK /\ QueuesOK /\ WorkersOK /\ LocksOK /\ CallersOK /\ AdminsOK /\ QueuesTypeOK
      /\ Locked /\ Placed /\ Pending /\ Aimed /\ Followed /\ Open
  BY DEF QueueInv, QueuesTypeOK
<1> DEFINE g == target[a]
<1>1. /\ UNCHANGED <<queue, last, current, listed, wpc, job, stopping, down, pc, pq, answer,
                     target>>
      /\ apc[a] \in Updating /\ apc' = [apc EXCEPT ![a] = "done"]
      /\ cleanup' = [cleanup EXCEPT ![g] = "wait"] /\ closing' = [closing EXCEPT ![g] = TRUE]
      /\ mutex' = Nobody /\ lifecycle' = lifecycle \ {a}
  BY DEF Retire, Put, UpdateUnlock, callerVars, Updating
<1>2. g \in Gen /\ g < current /\ current # 0 /\ current \in Gen /\ current = last
  <2>1. 0 < g /\ g < current /\ g \in 0..MaxGen
    BY <1>0, <1>1 DEF Aimed, AdminsOK
  <2>2. current \in 0..MaxGen /\ current \in {0, last}
    BY <1>0, QueueAssumption DEF GensOK
  <2> QED BY <1>0, <2>1, <2>2, Generations
<1> HIDE DEF g
<1>3. /\ apc'[a] = "done" /\ \A b \in Admin : b # a => apc'[b] = apc[b]
      /\ \A b \in Admin : apc'[b] \notin AdminHolds
      /\ mutex = a /\ a \in lifecycle /\ ~down /\ \A c \in Caller : pc[c] \notin CallerHolds
  <2>1. mutex = a /\ a \in lifecycle /\ ~down
    BY <1>0, <1>1 DEF Locked, AdminHolds, UpdateHolds
  <2>2. "done" \notin AdminHolds
    BY DEF AdminHolds, Updating, Removing
  <2> QED BY <1>0, <1>1, <2>1, <2>2, OneHolder DEF AdminsOK
<1>4. QueuesTypeOK'
  <2>1. /\ cleanup' \in [Gen -> {"none", "wait", "sweep"}] /\ closing' \in [Gen -> BOOLEAN]
    BY <1>0, <1>1, <1>2 DEF QueuesOK
  <2>2. apc' \in [Admin -> AdminPC]
    BY <1>0, <1>1 DEF AdminsOK, AdminPC
  <2> QED BY <1>0, <1>1, <2>1, <2>2 DEF QueuesTypeOK, GensOK, QueuesOK, WorkersOK,
             LocksOK,
            CallersOK, AdminsOK
<1>5. Locked'
  BY <1>0, <1>1, <1>3, QueueAssumption DEF Locked, UpdateHolds, ShutdownHolds,
     Quieting, Updating,
     AdminHolds
<1>6. Placed' /\ Pending'
  BY <1>0, <1>1 DEF Placed, Pending
<1>7. Aimed'
  <2>1. ~Preparing'
    BY <1>1, QueueAssumption DEF Preparing
  <2>2. \A b \in Admin : apc'[b] \notin Updating \cup Removing \cup {"removeSweep", "removeRetired"}
    BY <1>3 DEF AdminHolds, Removing
  <2> QED BY <1>0, <1>1, <2>1, <2>2 DEF Aimed
<1>8. /\ cleanup'[g] = "wait" /\ closing'[g] = TRUE
      /\ \A h \in Gen : h # g => cleanup'[h] = cleanup[h] /\ closing'[h] = closing[h]
  BY <1>0, <1>1, <1>2 DEF QueuesOK
<1>9. Followed'
  <2>1. \A n : Finished(n)' <=> Finished(n)
    BY <1>1 DEF Finished
  <2>2. \A h \in Gen : h > last => h # g
    BY <1>0, <1>2, Generations
  <2>3. ASSUME NEW h \in Gen, ~Finished(h), h # current PROVE cleanup'[h] = "wait"
    <3>1. CASE h = g
      BY <1>8, <3>1
    <3>2. CASE h # g
      <4>1. ASSUME NEW b \in Admin, apc[b] \in Updating PROVE target[b] = g
        <5>1. apc[b] \in AdminHolds
          BY <4>1 DEF AdminHolds
        <5>2. b = a
          BY <1>0, <1>3, <5>1 DEF Locked
        <5> QED BY <5>2 DEF g
      <4> QED BY <1>0, <1>8, <2>3, <3>2, <4>1 DEF Followed
    <3> QED BY <3>1, <3>2
  <2> QED BY <1>0, <1>1, <1>3, <1>8, <2>1, <2>2, <2>3 DEF Followed
<1>10. Open'
  <2>1. ~closing[current]
    <3>1. \A b \in Admin : apc[b] \notin Removing
      <4>1. \A b \in Admin : apc[b] \in Removing => mutex = b
        BY <1>0 DEF Locked, AdminHolds
      <4>2. apc[a] \notin Removing
        BY <1>1 DEF Removing, Updating
      <4> QED BY <1>3, <4>1, <4>2
    <3> QED BY <1>0, <1>2, <1>3, <3>1 DEF Open
  <2>2. ~closing'[current]
    <3>1. current # g
      BY <1>0, <1>2, Generations
    <3> QED BY <1>2, <1>8, <2>1, <3>1
  <2>3. \A h \in Gen, w \in Worker : wpc'[h][w] \in {"drain", "exited"} => closing'[h]
    BY <1>0, <1>1, <1>8 DEF Open
  <2>4. ~Preparing
    <3>1. \A c \in Caller : mutex # c
      BY <1>0, <1>3 DEF Locked
    <3> QED BY <1>1, <1>3, <3>1 DEF Preparing, Updating
  <2> QED BY <1>0, <1>1, <2>2, <2>3, <2>4 DEF Open
<1> QED BY <1>4, <1>5, <1>6, <1>7, <1>9, <1>10 DEF QueueInv

(* RemoveProvider closes the current queue, and no other.                  *)
LEMMA RemoveBeginKeeps == ASSUME QueueInv, NEW a \in Admin, RemoveBegin(a) PROVE QueueInv'
<1>0. /\ GensOK /\ QueuesOK /\ WorkersOK /\ LocksOK /\ CallersOK /\ AdminsOK /\ QueuesTypeOK
      /\ Locked /\ Placed /\ Pending /\ Aimed /\ Followed /\ Open
  BY DEF QueueInv, QueuesTypeOK
<1>1. /\ UNCHANGED <<queue, last, current, listed, wpc, job, cleanup, lifecycle, stopping, down,
                     pc, pq, answer>>
      /\ mutex = Nobody /\ apc[a] = "idle"
  BY DEF RemoveBegin, To, workerVars, callerVars
<1>2. CASE current = 0
  <2>1. apc' = [apc EXCEPT ![a] = "done"] /\ UNCHANGED <<closing, mutex, target>>
    BY <1>2 DEF RemoveBegin, To, Put
  <2>2. LocksOK' /\ Locked'
    BY <1>0, <1>1, <2>1 DEF LocksOK, AdminsOK, Locked, AdminHolds, UpdateHolds,
       ShutdownHolds,
       Quieting, Updating, Removing
  <2>3. /\ "done" \in AdminPC /\ "done" \notin Updating \cup Removing \cup {"prepare"}
        /\ "idle" \notin Updating \cup Removing \cup {"prepare"} \cup Quieting
    BY DEF AdminPC, Updating, Removing, Quieting
  <2> QED BY <1>0, <1>1, <2>1, <2>2, <2>3, AdminWalks
<1>3. CASE current # 0
  <2>1. /\ apc' = [apc EXCEPT ![a] = "remove"] /\ mutex' = a
        /\ closing' = [closing EXCEPT ![current] = TRUE]
        /\ target' = [target EXCEPT ![a] = current]
    BY <1>3 DEF RemoveBegin, To, Put
  <2>2. current \in Gen /\ current = last /\ current \in 0..MaxGen
    BY <1>0, <1>3, Generations DEF GensOK
  <2>3. /\ apc'[a] = "remove" /\ target'[a] = current
        /\ \A b \in Admin : b # a => apc'[b] = apc[b] /\ target'[b] = target[b]
        /\ \A b \in Admin : apc[b] \notin AdminHolds
    BY <1>0, <1>1, <2>1, OneHolder DEF AdminsOK
  <2>4. QueuesTypeOK'
    <3>1. apc' \in [Admin -> AdminPC] /\ target' \in [Admin -> 0..MaxGen]
      BY <1>0, <2>1, <2>2 DEF AdminsOK, AdminPC, AdminHolds, Removing
    <3>2. closing' \in [Gen -> BOOLEAN]
      BY <1>0, <2>1, <2>2 DEF QueuesOK
    <3> QED BY <1>0, <1>1, <2>1, <3>1, <3>2 DEF QueuesTypeOK, GensOK, QueuesOK,
               WorkersOK,
              LocksOK, CallersOK, AdminsOK
  <2>5. Locked'
    BY <1>0, <1>1, <2>1, <2>3, QueueAssumption DEF Locked, AdminHolds, UpdateHolds,
       ShutdownHolds,
       Quieting, Updating, Removing
  <2>6. Placed' /\ Pending'
    BY <1>0, <1>1 DEF Placed, Pending
  <2>7. ~Preparing' /\ ~Preparing
    BY <1>1, <2>1, <2>3, QueueAssumption DEF Preparing
  <2>8. Aimed'
    <3>1. \A b \in Admin : b # a => apc'[b] \notin Updating \cup Removing
      BY <2>3 DEF AdminHolds
    <3> QED BY <1>0, <1>1, <1>3, <2>3, <2>7, <3>1 DEF Aimed, Updating, Removing
  <2>9. \A n : Finished(n)' <=> Finished(n)
    BY <1>1 DEF Finished
  <2>10. \A h \in Gen : h # current => closing'[h] = closing[h]
    BY <1>0, <2>1 DEF QueuesOK
  <2>11. \A h \in Gen : closing[h] => closing'[h]
    BY <1>0, <2>1 DEF QueuesOK
  <2>12. Followed'
    <3>1. \A h \in Gen : h > last => h # current
      BY <1>0, <2>2, Generations
    <3>2. \A b \in Admin : /\ apc[b] \notin Updating
                           /\ apc[b] \in Quieting <=> apc'[b] \in Quieting
      BY <1>1, <2>3 DEF AdminHolds, Quieting
    <3> QED BY <1>0, <1>1, <2>9, <2>10, <3>1, <3>2 DEF Followed
  <2>13. Open'
    <3>1. \E b \in Admin : apc'[b] \in Removing
      BY <2>3 DEF Removing
    <3> QED BY <1>0, <1>1, <2>7, <2>11, <3>1 DEF Open
  <2> QED BY <2>4, <2>5, <2>6, <2>8, <2>12, <2>13 DEF QueueInv
<1> QED BY <1>2, <1>3

(* When RemoveProvider returns, nobody runs.                               *)
LEMMA RemoveEndKeeps == ASSUME QueueInv, NEW a \in Admin, RemoveEnd(a) PROVE QueueInv'
<1>0. /\ GensOK /\ QueuesOK /\ WorkersOK /\ LocksOK /\ CallersOK /\ AdminsOK /\ QueuesTypeOK
      /\ Locked /\ Placed /\ Pending /\ Aimed /\ Followed /\ Open
  BY DEF QueueInv, QueuesTypeOK
<1>1. /\ UNCHANGED <<queue, closing, last, wpc, job, cleanup, lifecycle, stopping, down, pc, pq,
                     answer, target>>
      /\ apc[a] = "removeRetired" /\ apc' = [apc EXCEPT ![a] = "done"] /\ mutex' = Nobody
      /\ current' = 0 /\ listed' = FALSE /\ \A g \in Gen : cleanup[g] = "none"
  BY DEF RemoveEnd, To, Put, workerVars, callerVars
<1>2. /\ apc'[a] = "done" /\ \A b \in Admin : b # a => apc'[b] = apc[b]
      /\ \A b \in Admin : apc'[b] \notin AdminHolds
      /\ mutex = a /\ \A c \in Caller : pc[c] \notin CallerHolds
  <2>1. mutex = a
    BY <1>0, <1>1 DEF Locked, AdminHolds, Removing
  <2>2. "done" \notin AdminHolds
    BY DEF AdminHolds, Updating, Removing
  <2> QED BY <1>0, <1>1, <2>1, <2>2, OneHolder DEF AdminsOK
<1>3. QueuesTypeOK'
  <2>1. apc' \in [Admin -> AdminPC]
    BY <1>0, <1>1 DEF AdminsOK, AdminPC
  <2> QED BY <1>0, <1>1, <2>1 DEF QueuesTypeOK, GensOK, QueuesOK, WorkersOK, LocksOK,
             CallersOK,
            AdminsOK
<1>4. Locked'
  BY <1>0, <1>1, <1>2, QueueAssumption DEF Locked, UpdateHolds, ShutdownHolds,
     Quieting, Updating
<1>5. Placed' /\ Pending'
  BY <1>0, <1>1 DEF Placed, Pending
<1>6. Aimed'
  <2>1. ~Preparing'
    BY <1>1, QueueAssumption DEF Preparing
  <2>2. \A b \in Admin : apc'[b] \notin Updating \cup Removing \cup {"removeSweep", "removeRetired"}
    BY <1>2 DEF AdminHolds, Removing
  <2> QED BY <1>0, <1>1, <2>1, <2>2 DEF Aimed
<1>7. \A n : Finished(n)' <=> Finished(n)
  BY <1>1 DEF Finished
<1>8. \A g \in Gen : Finished(g)
  <2>1. Finished(current)
    BY <1>0, <1>1 DEF Aimed, Removing
  <2>2. \A b \in Admin : apc[b] \notin Updating
    <3>1. \A b \in Admin : apc[b] \in Updating => mutex = b
      BY <1>0 DEF Locked, AdminHolds
    <3>2. apc[a] \notin Updating
      BY <1>1 DEF Updating
    <3> QED BY <1>2, <3>1, <3>2
  <2> QED BY <1>0, <1>1, <2>1, <2>2 DEF Followed
<1>9. Followed'
  <2>1. \A b \in Admin : apc[b] \in Quieting <=> apc'[b] \in Quieting
    BY <1>1, <1>2 DEF Quieting
  <2> QED BY <1>0, <1>1, <1>7, <1>8, <2>1 DEF Followed
<1>10. Open'
  BY <1>0, <1>1 DEF Open
<1> QED BY <1>3, <1>4, <1>5, <1>6, <1>9, <1>10 DEF QueueInv

(* Each kind of step keeps the invariant.                                  *)
LEMMA CallersKeep ==
  ASSUME QueueInv, NEW c \in Caller, CallerNext(c) \/ Cancel(c) PROVE QueueInv'
<1>1. CASE PrepareByKey(c) \/ Prepare(c)
  <2>1. /\ Publish(c) /\ (~listed \/ current = 0) /\ pc[c] \in {"byKey", "lookup"}
        /\ UNCHANGED <<wpc, job, cleanup, lifecycle, stopping, down, pq, answer, apc, target>>
        /\ \E to \in CallerHolds : pc' = [pc EXCEPT ![c] = to]
    BY <1>1 DEF PrepareByKey, Prepare, Goto, Put, Idle, workerVars, adminVars,
       CallerHolds
  <2> QED BY <2>1, PublishKeeps
<1>2. CASE \E ok \in Created : PreparedByKey(c, ok) \/ Prepared(c, ok)
  <2>1. PICK ok \in Created : PreparedByKey(c, ok) \/ Prepared(c, ok)
    BY <1>2
  <2>2. /\ Start(c, ok) /\ pc[c] \in CallerHolds
        /\ UNCHANGED <<stopping, down, answer, target, apc, lifecycle>>
        /\ \/ pc' = [pc EXCEPT ![c] = "check"] /\ pq' = [pq EXCEPT ![c] = current]
           \/ pq' = pq /\ \E to \in {"lookup", "done"} : pc' = [pc EXCEPT ![c] = to]
    BY <2>1 DEF PreparedByKey, Prepared, Goto, Return, Put, adminVars, CallerHolds
  <2> QED BY <2>2, StartKeeps
<1>3. CASE Send(c)
  BY <1>3, SendKeeps
<1>4. CASE \/ FindByKey(c) \/ Lookup(c) \/ NoConfig(c) \/ Check(c) \/ SendFails(c) \/ Full(c)
           \/ Receive(c) \/ Cancel(c)
  BY <1>4, CallerWalks
<1> QED BY <1>1, <1>2, <1>3, <1>4 DEF CallerNext

(* What UpdateProvider, RemoveProvider and Shutdown do.                    *)
LEMMA AdminsKeep ==
  ASSUME QueueInv, NEW a \in Admin,
         UpdateBegin(a) \/ RemoveBegin(a) \/ ShutdownBegin(a) \/ AdminNext(a)
  PROVE  QueueInv'
<1>0. GensOK /\ AdminsOK /\ Aimed
  BY DEF QueueInv, QueuesTypeOK
<1>1. CASE UpdatePublish(a)
  <2>1. /\ Publish(a) /\ current = 0 /\ apc[a] = "update" /\ pc' = pc
        /\ apc' = [apc EXCEPT ![a] = "prepare"]
        /\ UNCHANGED <<wpc, job, cleanup, lifecycle, stopping, down, pq, answer, target>>
    BY <1>1 DEF UpdatePublish, To, Put, workerVars, callerVars
  <2> QED BY <2>1, PublishKeeps
<1>2. CASE \E ok \in Created : UpdateStart(a, ok)
  <2>1. PICK ok \in Created : UpdateStart(a, ok)
    BY <1>2
  <2>2. /\ Start(a, ok) /\ apc[a] = "prepare" /\ apc' = [apc EXCEPT ![a] = "done"]
        /\ UNCHANGED <<stopping, down, answer, target, pc, pq>> /\ lifecycle' = lifecycle \ {a}
    BY <2>1 DEF UpdateStart, To, Put, callerVars
  <2> QED BY <2>2, StartKeeps
<1>3. CASE CancelBuffered(a)
  <2>1. /\ apc[a] \in Updating /\ apc' = [apc EXCEPT ![a] = "cancel"]
        /\ Refuse(target[a], "queueFull")
        /\ UNCHANGED <<wpc, job, cleanup, mutex, lifecycle, stopping, down, target>>
    BY <1>3 DEF CancelBuffered, Put, workerVars, lockVars, Updating
  <2>2. target[a] \in Gen
    BY <1>0, <2>1, Generations DEF Aimed, AdminsOK
  <2>3. /\ apc' \in [Admin -> AdminPC]
        /\ \A b \in Admin : apc'[b] = apc[b] \/ (apc[b] \in Updating /\ apc'[b] \in Updating)
    BY <1>0, <2>1 DEF AdminsOK, AdminPC, AdminHolds, Updating
  <2> QED BY <2>1, <2>2, <2>3, RefuseKeeps
<1>4. CASE RemoveSweep(a) \/ ShutdownSweep(a)
  <2>1. /\ apc[a] = "removeSweep" \/ target[a] # 0
        /\ Refuse(target[a], "closing")
        /\ UNCHANGED <<wpc, job, cleanup, mutex, lifecycle, stopping, down, target, apc>>
    BY <1>4 DEF RemoveSweep, ShutdownSweep, workerVars, lockVars, adminVars
  <2>2. target[a] \in Gen
    BY <1>0, <2>1, Generations DEF Aimed, AdminsOK, Removing
  <2> QED BY <1>0, <2>1, <2>2, RefuseKeeps DEF AdminsOK
<1>5. CASE \/ UpdateBegin(a) \/ UpdateFails(a) \/ RemoveWaited(a) \/ RemoveSwept(a)
           \/ ShutdownBegin(a) \/ ShutdownSignal(a) \/ ShutdownRange(a) \/ ShutdownWaited(a)
           \/ ShutdownCleaned(a) \/ ShutdownEnd(a)
  BY <1>5, AdminWalksKeep
<1>6. CASE Replace(a) \/ Transfer(a) \/ Retire(a)
  BY <1>6, ReplaceKeeps, TransferKeeps, RetireKeeps
<1>7. CASE RemoveBegin(a) \/ RemoveEnd(a)
  BY <1>7, RemoveBeginKeeps, RemoveEndKeeps
<1> QED BY <1>1, <1>2, <1>3, <1>4, <1>5, <1>6, <1>7 DEF AdminNext

(* The invariant mentions neither dropExcessRequests nor what the callers  *)
(* return.                                                                 *)
LEMMA NothingKeeps ==
  ASSUME QueueInv, UNCHANGED <<queueVars, workerVars, lockVars, callerVars, adminVars>>
  PROVE  QueueInv'
<1>0. /\ GensOK /\ QueuesOK /\ WorkersOK /\ LocksOK /\ CallersOK /\ AdminsOK
      /\ Locked /\ Placed /\ Pending /\ Aimed /\ Followed /\ Open
  BY DEF QueueInv, QueuesTypeOK
<1>1. UNCHANGED <<queue, closing, last, current, listed, wpc, job, cleanup, mutex, lifecycle,
                  stopping, down, pc, pq, answer, apc, target>>
  BY DEF queueVars, workerVars, lockVars, callerVars, adminVars
<1>2. QueuesTypeOK'
  BY <1>0, <1>1 DEF QueuesTypeOK, GensOK, QueuesOK, WorkersOK, LocksOK, CallersOK,
     AdminsOK
<1>3. Locked' /\ Placed' /\ Pending'
  BY <1>0, <1>1 DEF Locked, Placed, Pending
<1>4. Aimed' /\ Followed' /\ Open'
  BY <1>0, <1>1 DEF Aimed, Followed, Open, Preparing, Finished
<1> QED BY <1>2, <1>3, <1>4 DEF QueueInv

(* The inductive invariant of the queues holds, whatever callers, workers, *)
(* cleanup goroutines, updates, removals and shutdowns are interleaved.    *)
THEOREM QueuesInvariant == Spec => []QueueInv
<1>1. Init => QueueInv
  BY QueueInvInit
<1>2. QueueInv /\ [Next]_vars => QueueInv'
  <2> SUFFICES ASSUME QueueInv, [Next]_vars PROVE QueueInv'
    OBVIOUS
  <2>1. CASE \E c \in Caller : CallerNext(c) \/ Cancel(c)
    BY <2>1, CallersKeep
  <2>2. CASE \E g \in Gen, w \in Worker : WorkerNext(g, w)
    BY <2>2, WorkerKeeps
  <2>3. CASE \E g \in Gen : CleanupNext(g)
    BY <2>3, CleanupKeeps
  <2>4. CASE \E a \in Admin : \/ UpdateBegin(a) \/ RemoveBegin(a) \/ ShutdownBegin(a)
                              \/ AdminNext(a)
    BY <2>4, AdminsKeep
  <2>5. CASE (\E value \in BOOLEAN : UpdateDropExcessRequests(value)) \/ UNCHANGED vars
    <3>1. UNCHANGED <<queueVars, workerVars, lockVars, callerVars, adminVars>>
      BY <2>5 DEF UpdateDropExcessRequests, vars
    <3> QED BY <3>1, NothingKeeps
  <2> QED BY <2>1, <2>2, <2>3, <2>4, <2>5 DEF Next
<1> QED BY <1>1, <1>2, PTL DEF Spec

(* HandledOnce: a message is in one place only, and not answered while it  *)
(* is there, so requestWorker, the transfer of UpdateProvider and the      *)
(* sweeps never execute a request twice.                                   *)
THEOREM MessagesHandledOnce == Spec => []HandledOnce
<1>1. QueueInv => HandledOnce
  <2> SUFFICES ASSUME QueueInv, NEW c \in Caller
               PROVE  /\ Cardinality(Places(c)) <= 1
                      /\ Places(c) # {} => answer[c] = "none" /\ pc[c] \in {"wait", "done"}
    BY DEF HandledOnce
  <2>0. QueuesTypeOK /\ Placed /\ Pending /\ c # Nobody
    BY QueueAssumption DEF QueueInv
  <2>1. \A p \in Places(c) :
          \/ /\ p \in Gen \X (1..BufferSize) /\ p[1] \in Gen /\ p[2] \in 1..Len(queue[p[1]])
             /\ queue[p[1]][p[2]] = c
          \/ p \in Gen \X Worker /\ p[1] \in Gen /\ p[2] \in Worker /\ job[p[1]][p[2]] = c
    BY <2>0, Buffered, QueueAssumption DEF Places
  <2>2. \A p, q \in Places(c) : p = q
    <3> SUFFICES ASSUME NEW p \in Places(c), NEW q \in Places(c) PROVE p = q
      OBVIOUS
    <3>1. p[1] = q[1] /\ p[2] = q[2]
      BY <2>0, <2>1 DEF Placed
    <3> QED BY <2>1, <3>1
  <2>3. Places(c) # {} => answer[c] = "none" /\ pc[c] \in {"wait", "done"}
    BY <2>0, <2>1 DEF Pending
  <2>4. CASE Places(c) = {}
    BY <2>3, <2>4, FS_EmptySet
  <2>5. CASE Places(c) # {}
    <3>1. PICK p \in Places(c) : TRUE
      BY <2>5
    <3>2. Places(c) = {p}
      BY <2>2
    <3> QED BY <2>3, <3>2, FS_Singleton
  <2> QED BY <2>4, <2>5
<1> QED BY <1>1, QueuesInvariant, PTL

(* StoppedIsQuiet: once RemoveProvider has returned no worker of any       *)
(* generation runs, and once Shutdown has, none of a replaced generation.  *)
THEOREM StoppedQuietly == Spec => []StoppedIsQuiet
<1>1. QueueInv => StoppedIsQuiet
  <2> SUFFICES ASSUME QueueInv PROVE StoppedIsQuiet
    OBVIOUS
  <2>0. QueuesTypeOK /\ LocksOK /\ Locked /\ Followed
    BY DEF QueueInv, QueuesTypeOK
  <2>1. current = 0 => \A g \in Gen : Finished(g)
    BY <2>0 DEF Followed
  <2>2. ASSUME down, stopping = Nobody PROVE \A g \in Gen \ {current} : Finished(g)
    <3>1. \A a \in Admin : apc[a] \notin Quieting
      BY <2>0, <2>2, QueueAssumption DEF Locked, ShutdownHolds
    <3>2. \A a \in Admin : apc[a] \notin Updating
      BY <2>0, <2>2 DEF Locked, UpdateHolds
    <3>3. \A g \in Gen : cleanup[g] = "none"
      BY <2>0, <2>2, <3>1 DEF Followed
    <3> QED BY <2>0, <3>2, <3>3 DEF Followed
  <2> QED BY <2>1, <2>2 DEF StoppedIsQuiet
<1> QED BY <1>1, QueuesInvariant, PTL

(* AlwaysServed: outside prepareProvider, UpdateProvider and RemoveProvider*)
(* a provider that callers find is open, and all its workers run unless    *)
(* creating it failed.                                                     *)
THEOREM ProviderAlwaysServed == Spec => []AlwaysServed
<1>1. QueueInv => AlwaysServed
  <2> SUFFICES ASSUME QueueInv, current # 0, mutex = Nobody, ~down
               PROVE  /\ ~closing[current]
                      /\ \/ \A w \in Worker : wpc[current][w] \in Running
                         \/ \A w \in Worker : wpc[current][w] = "off" /\ FALSE \in Created
    BY DEF AlwaysServed
  <2>0. QueuesTypeOK /\ GensOK /\ Locked /\ Open
    BY DEF QueueInv, QueuesTypeOK
  <2>1. current \in Gen
    BY <2>0, Generations
  <2>2. ~Preparing /\ \A a \in Admin : apc[a] \notin Removing
    BY <2>0, OneHolder, QueueAssumption DEF Preparing, AdminHolds
  <2>3. ~closing[current]
    BY <2>0, <2>2 DEF Open
  <2>4. \A w \in Worker : wpc[current][w] \in Running \cup {"off"}
    BY <2>0, <2>1, <2>3, Employed DEF Open, WorkerPC
  <2> QED BY <2>0, <2>1, <2>2, <2>3, <2>4 DEF Open
<1> QED BY <1>1, QueuesInvariant, PTL
=============================================================================
