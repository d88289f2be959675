------------------------------ MODULE MCStreams -----------------------------
(* What must come to an end in bifrost_core.  In one part a stream of three*)
(* attempts, of two chunks each, with a channel that holds one; in the     *)
(* other the queues of a provider that is updated and removed under a      *)
(* caller.  Each part is explored with the other at rest.                  *)
EXTENDS Streams, ProviderQueues

VARIABLE part

MCInit ==
  /\ part \in {"streams", "queues"}
  /\ StreamInit
  /\ Init /\ (part = "queues" \/ (listed /\ drop))

MCNext ==
  \/ part = "streams" /\ StreamNext /\ UNCHANGED <<part, vars>>
  \/ part = "queues" /\ Next /\ UNCHANGED <<part, streamVars>>

MCSpec == MCInit /\ [][MCNext]_<<part, streamVars, vars>>

(* The fairness of FairStreamSpec and of FairSpec, for the part that is    *)
(* explored.                                                               *)
FairMCSpec ==
  /\ MCSpec
  /\ WF_streamVars(part = "streams" /\ Work) /\ WF_streamVars(part = "streams" /\ Forward)
  /\ WF_streamVars(part = "streams" /\ Offered /\ (Consume \/ ClientLeaves))
  /\ \A a \in Attempt : WF_streamVars(part = "streams" /\ Ends(a))
  /\ \A c \in Caller : WF_vars(part = "queues" /\ CallerNext(c))
  /\ \A g \in Gen, w \in Worker : WF_vars(part = "queues" /\ WorkerNext(g, w))
  /\ \A g \in Gen : WF_vars(part = "queues" /\ CleanupNext(g))
  /\ \A a \in Admin : WF_vars(part = "queues" /\ AdminNext(a))
=============================================================================
