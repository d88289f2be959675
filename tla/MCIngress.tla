------------------------------ MODULE MCIngress -----------------------------
(* NerveGate's ingress.  In one part the processes of a host, in the other *)
(* the handlers of one process and what loadKeyPool finds in the           *)
(* environment.  Each part is explored with the other at rest.             *)
EXTENDS Daemon, Gateway, TLC

CONSTANTS k1, k2

MCKeysEnvs == {<<>>, <<Blank, Blank>>, <<k1, Blank, k2>>}
MCGivenID == (k1 :> PoolID(1)) @@ (k2 :> PoolID(2))
MCRPM == [k \in Key |-> Limit(RPMEnv)]
MCTPM == [k \in Key |-> Limit(TPMEnv)]

VARIABLE part

MCInit ==
  /\ part \in {"daemon", "gateway"}
  /\ DaemonInit /\ (part = "daemon" \/ (alone /\ path = NoFile))
  /\ GatewayInit /\ (part = "gateway" \/ env = <<>>)

MCNext ==
  \/ part = "daemon" /\ DaemonNext /\ UNCHANGED <<part, gatewayVars>>
  \/ part = "gateway" /\ GatewayNext /\ UNCHANGED <<part, daemonVars>>

MCSpec == MCInit /\ [][MCNext]_<<part, daemonVars, gatewayVars>>

(* The fairness of FairDaemonSpec and of FairGatewaySpec, for the part     *)
(* that is explored.                                                       *)
Daemons(A) == part = "daemon" /\ UNCHANGED alone /\ A

FairMCSpec ==
  /\ MCSpec
  /\ \A p \in Proc :
       /\ WF_daemonVars(Daemons(MainStep(p)))
       /\ \A l \in Listener :
            /\ WF_daemonVars(Daemons(StartServe(p, l) \/ SendErr(p, l)))
            /\ WF_daemonVars(Daemons(~lis[p][l] /\ AcceptFails(p, l)))
  /\ \A s \in Slot : WF_gatewayVars(part = "gateway" /\ Handle(s))
=============================================================================
