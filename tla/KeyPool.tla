------------------------------ MODULE KeyPool ------------------------------
(***************************************************************************)
(* What a key rotator promises its callers, stated on complete histories:  *)
(* a key is handed out only if its cool-down is over and the requests and  *)
(* tokens of the closed window [now - Window, now] are below its limits,   *)
(* and a call is refused only if no key of the pool can be handed out.     *)
(* There are no windows, no pruning, no cursor and no IDs here.            *)
(***************************************************************************)
EXTENDS Integers, Sequences, FiniteSets, Functions

CONSTANTS Provider, Key, Refused, RPM, TPM, Window, Cooldown, Tokens, MaxTime, MaxCalls

VARIABLES
  members,   \* [Provider -> SUBSET Key]: the pools
  grants,    \* [Key -> Seq(Nat)]: when the key was handed out, ever
  spent,     \* [Key -> Seq([at, tokens])]: what was charged to it, ever
  deadline,  \* [Key -> Nat]: end of the cool-down last ordered for it
  answer,    \* [Provider -> Key \cup {Refused}]: the last answer to a caller
  calls,     \* number of answers and charges so far
  now

poolVars == <<members, grants, spent, deadline, answer, calls, now>>

Recent(h, At(_)) == {i \in 1..Len(h) : At(h[i]) >= now - Window}

RecentGrants(k) == Cardinality(Recent(grants[k], LAMBDA t : t))

RecentTokens(k) ==
  SumFunctionOnSet([i \in 1..Len(spent[k]) |-> spent[k][i].tokens],
                   Recent(spent[k], LAMBDA u : u.at))

Available(k) ==
  /\ now >= deadline[k]
  /\ RPM[k] > 0 => RecentGrants(k) < RPM[k]
  /\ TPM[k] > 0 => RecentTokens(k) < TPM[k]

PoolInit ==
  /\ members = [p \in Provider |-> {}]
  /\ grants = [k \in Key |-> <<>>]
  /\ spent = [k \in Key |-> <<>>]
  /\ deadline = [k \in Key |-> 0]
  /\ answer = [p \in Provider |-> Refused]
  /\ calls = 0
  /\ now = 0

Call == calls < MaxCalls /\ calls' = calls + 1

Join(p, k) ==
  /\ \A q \in Provider : k \notin members[q]
  /\ members' = [members EXCEPT ![p] = @ \cup {k}]
  /\ UNCHANGED <<grants, spent, deadline, answer, calls, now>>

Grant(p, k) ==
  /\ Call
  /\ k \in members[p] /\ Available(k)
  /\ grants' = [grants EXCEPT ![k] = Append(@, now)]
  /\ answer' = [answer EXCEPT ![p] = k]
  /\ UNCHANGED <<members, spent, deadline, now>>

Refuse(p) ==
  /\ Call
  /\ \A k \in members[p] : ~Available(k)
  /\ answer' = [answer EXCEPT ![p] = Refused]
  /\ UNCHANGED <<members, grants, spent, deadline, now>>

Charge(p, k, n) ==
  /\ Call
  /\ k \in members[p] /\ n > 0
  /\ spent' = [spent EXCEPT ![k] = Append(@, [at |-> now, tokens |-> n])]
  /\ UNCHANGED <<members, grants, deadline, answer, now>>

Cool(p, k, d) ==
  /\ k \in members[p]
  /\ deadline' = [deadline EXCEPT ![k] = now + d]
  /\ UNCHANGED <<members, grants, spent, answer, calls, now>>

PoolTick ==
  /\ now < MaxTime
  /\ now' = now + 1
  /\ UNCHANGED <<members, grants, spent, deadline, answer, calls>>

PoolNext ==
  \/ \E p \in Provider, k \in Key :
       \/ Join(p, k)
       \/ Grant(p, k)
       \/ \E n \in Tokens : Charge(p, k, n)
       \/ \E d \in Cooldown : Cool(p, k, d)
  \/ \E p \in Provider : Refuse(p)
  \/ PoolTick

PoolSpec == PoolInit /\ [][PoolNext]_poolVars
=============================================================================
