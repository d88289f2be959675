---------------------------- MODULE RotatorAudit ----------------------------
(***************************************************************************)
(* The rotator with an auditor beside it: history variables that record    *)
(* every answer of GetKey and every charge and cool-down its callers       *)
(* ordered, under the key the caller meant.  Nothing the rotator does      *)
(* depends on them; its actions are those of module Rotator.               *)
(***************************************************************************)
EXTENDS Rotator

CONSTANTS
  Refused,    \* the answer of a GetKey that returned an error
  MaxCalls    \* bound: number of audited GetKey and MarkTokens calls

\* The IDs that callers choose do not collide: not with each other, and not
\* with the ones AddKey makes up for keys that come without one.
ASSUME AuditAssumption ==
  /\ MaxCalls \in Nat /\ Refused \notin Key
  /\ \A j, k \in Key : GivenID[j] = GivenID[k] => j = k \/ GivenID[k] = NoID
  /\ NoID \notin Provider \X Nat
  /\ NoID \in Range(GivenID) => Range(GivenID) \cap (Provider \X Nat) = {}

VARIABLES
  grants,    \* [Key -> Seq(Time)]: every time the key was handed out
  spent,     \* [Key -> Seq(Usage)]: every charge ordered for the key
  deadline,  \* [Key -> Time]: end of the cool-down last ordered for the key
  passed,    \* [Key -> Nat]: how often in a row GetKey handed out another key
             \* of the pool although this one was healthy
  answer,    \* [Provider -> Key \cup {Refused}]: what GetKey last returned
  calls      \* number of audited calls

audit == <<grants, spent, deadline, passed, answer, calls>>
auditVars == <<rotatorVars, audit>>

AuditInit ==
  /\ New
  /\ grants = [k \in Key |-> <<>>]
  /\ spent = [k \in Key |-> <<>>]
  /\ deadline = [k \in Key |-> 0]
  /\ passed = [k \in Key |-> 0]
  /\ answer = [p \in Provider |-> Refused]
  /\ calls = 0

Audited == calls < MaxCalls /\ calls' = calls + 1

AuditAddKey(p, k) == AddKey(p, k) /\ UNCHANGED audit

AuditGetKeyOK(p, k) ==
  /\ Audited
  /\ GetKeyOK(p, k)
  /\ grants' = [grants EXCEPT ![k] = Append(@, now)]
  /\ passed' = [q \in Key |->
       IF q \notin Range(keys[p]) THEN passed[q]
       ELSE IF q = k \/ ~healthy(now, q) THEN 0 ELSE passed[q] + 1]
  /\ answer' = [answer EXCEPT ![p] = k]
  /\ UNCHANGED <<spent, deadline>>

AuditGetKeyErr(p) ==
  /\ Audited
  /\ GetKeyErr(p)
  /\ answer' = [answer EXCEPT ![p] = Refused]
  /\ UNCHANGED <<grants, spent, deadline, passed>>

\* A caller charges, or cools, the key k of the pool of p, by its ID.
AuditMarkTokens(p, k, n) ==
  /\ Audited
  /\ k \in Range(keys[p]) /\ n > 0
  /\ MarkTokens(p, id[k], n)
  /\ spent' = [spent EXCEPT ![k] = Append(@, [at |-> now, tokens |-> n])]
  /\ UNCHANGED <<grants, deadline, passed, answer>>

AuditMarkCoolDown(p, k, d) ==
  /\ k \in Range(keys[p])
  /\ MarkCoolDown(p, id[k], d)
  /\ deadline' = [deadline EXCEPT ![k] = now + d]
  /\ UNCHANGED <<grants, spent, passed, answer, calls>>

AuditTick == Tick /\ UNCHANGED audit

AuditNext ==
  \/ \E p \in Provider, k \in Key :
       \/ AuditAddKey(p, k)
       \/ AuditGetKeyOK(p, k)
       \/ \E n \in Tokens : AuditMarkTokens(p, k, n)
       \/ \E d \in Cooldown : AuditMarkCoolDown(p, k, d)
  \/ \E p \in Provider : AuditGetKeyErr(p)
  \/ AuditTick

AuditSpec == AuditInit /\ [][AuditNext]_auditVars

----------------------------------------------------------------------------
(* RPM limit of rotator.go, on the history and not on the pruned window:   *)
(* RPM[k] grants after any grant of k, more than Window has gone by.  So   *)
(* no closed window of that length ever holds more than RPM[k] grants.     *)
Spaced(h, n) ==
  \A i, j \in 1..Len(h) : j = i + n => h[j] > h[i] + Window

RPMRespected ==
  \A k \in Key : RPM[k] > 0 => Spaced(grants[k], RPM[k])

(* Inductive strengthening of RPMRespected: the request window of a limited*)
(* key is the end of its history of grants, what pruneWindow dropped was   *)
(* older than the window, and the window never outgrows the limit.         *)
EndOf(w, h, cutoff) ==
  \E d \in 0..Len(h) :
    /\ Len(h) = Len(w) + d
    /\ \A i \in 1..Len(w), j \in 1..Len(h) : j = i + d => w[i] = h[j]
    /\ \A i \in 1..d : h[i] < cutoff

RPMInv ==
  /\ RotatorTypeOK
  /\ grants \in [Key -> Seq(Time)]
  /\ \A k \in Key : RPM[k] > 0 =>
       /\ EndOf(requestTimes[k], grants[k], now - Window)
       /\ Len(requestTimes[k]) <= RPM[k]
  /\ RPMRespected

(* Round robin of GetKey: a key that is healthy whenever a key of its pool *)
(* is handed out has its turn before the others are through a full round,  *)
(* whatever is added, cooled down or charged meanwhile.                    *)
RoundRobin ==
  \A p \in Provider : \A k \in Range(keys[p]) : passed[k] < Len(keys[p])

(* No key is lost for good: with no further charge or cool-down, GetKey    *)
(* finds every key healthy once the longest cool-down and one window have  *)
(* gone by, however its windows were filled and pruned before.             *)
LockoutBounded ==
  \A k \in Key : healthy(now + Max(Cooldown \cup {Window + 1}), k)

(* The rotator implements the abstract pool: pruning lists of entries and  *)
(* finding keys by ID decide exactly as the complete histories do.         *)
Pool == INSTANCE KeyPool WITH members <- [p \in Provider |-> Range(keys[p])]

ImplementsPool == Pool!PoolSpec
=============================================================================
