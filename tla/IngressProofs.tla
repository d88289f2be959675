--------------------------- MODULE IngressProofs ----------------------------
(***************************************************************************)
(* pkg/ingress/ingress.go, for any number of concurrent requests, keys and *)
(* entries of the environment, and for any number of processes.  First the *)
(* request path: the key pool is not bypassed, cool-downs reach the right  *)
(* key and are respected, the handlers call the rotator as it allows for,  *)
(* and overlapping requests exceed the limit on tokens by a bounded        *)
(* amount.  Then the life of the processes: what is called a clean stop,   *)
(* and whose file the socket path leads to.                                *)
(***************************************************************************)
EXTENDS Gateway, Daemon, RotatorProofs

----------------------------------------------------------------------------
(* The request path.                                                       *)

PathTypeOK ==
  /\ keys \in [Provider -> Seq(Key)] /\ idx \in [Provider -> Nat] /\ id \in [Key -> IDs]
  /\ CoolUntil \in [Key -> Time] /\ ordered \in [Key -> Time] /\ now \in Time
  /\ pc \in [Slot -> {"idle", "body", "select", "refused", "upstream", "buffer", "relay"}]
  /\ usedKey \in [Slot -> Key \cup {NoKey}]

\* loadKeyPool is n entries into its list, and what is left of it is env.
Loaded(list, n) ==
  /\ Len(env) = Len(list) - n /\ \A i \in 1..Len(env) : env[i] = list[n + i]
  /\ Len(keys[provider]) = Count(list, n)

\* Keys have the IDs of their places in the pool.
Numbered ==
  /\ \E list \in KeysEnvs : \E n \in 0..Len(list) : Loaded(list, n)
  /\ env \in Seq(Key \cup {Blank})
  /\ \A i \in 1..Len(keys[provider]) : id[keys[provider][i]] = PoolID(i)
  /\ \A k \in Key : (\A q \in Provider : k \notin Range(keys[q])) => id[k] = GivenID[k]

\* Nothing is served before the pool is complete; a handler's key is one of it.
Served ==
  \A s \in Slot :
    /\ env # <<>> => pc[s] = "idle"
    /\ usedKey[s] # NoKey => Forwarding(s) /\ usedKey[s] \in Range(keys[provider])

\* The cool-down ordered last is the one in force, or is over.
InForce == \A k \in Key : ordered[k] <= CoolUntil[k] \/ ordered[k] <= now

PathInv == PathTypeOK /\ Numbered /\ Served /\ InForce /\ PoolNeverBypassed

(* The IDs of a pool tell its keys apart, so MarkCoolDown finds by its ID  *)
(* the one key that is meant.                                              *)
LEMMA PoolNamedIsMeant ==
  ASSUME PathInv, NEW k \in Range(keys[provider])
  PROVE  Named(provider, id[k]) = {k}
<1>1. PICK i \in 1..Len(keys[provider]) : k = keys[provider][i]
  BY GatewayAssumption DEF PathInv, PathTypeOK, Range
<1>2. \A j \in 1..Len(keys[provider]) : id[keys[provider][j]] = id[k] <=> j = i
  BY <1>1 DEF PathInv, Numbered, PoolID, AutoID
<1>3. Len(keys[provider]) \in Nat
  BY GatewayAssumption DEF PathInv, PathTypeOK
<1> QED BY <1>1, <1>2, <1>3 DEF Named

(* In the beginning nothing is loaded and nobody is served.                *)
LEMMA PathInvInit == GatewayInit => PathInv
<1> SUFFICES ASSUME GatewayInit PROVE PathInv
  OBVIOUS
<1> USE RotatorAssumption, GatewayAssumption DEF GatewayInit, New
<1>1. PathTypeOK
  <2>1. GivenID \in [Key -> IDs]
    BY DEF IDs
  <2> QED BY <2>1 DEF PathTypeOK, Time
<1>2. Numbered
  <2>1. env \in Seq(Key \cup {Blank}) /\ Len(env) \in Nat
    OBVIOUS
  <2>2. Count(env, 0) = 0
    <3>1. {j \in 1..0 : env[j] # Blank} = {}
      OBVIOUS
    <3> QED BY <3>1, FS_EmptySet DEF Count
  <2>3. Loaded(env, 0)
    BY <2>1, <2>2 DEF Loaded
  <2>4. 0 \in 0..Len(env)
    BY <2>1
  <2> QED BY <2>1, <2>3, <2>4 DEF Numbered
<1>3. Served /\ InForce /\ PoolNeverBypassed
  BY DEF Served, InForce, PoolNeverBypassed, Forwarding, Time
<1> QED BY <1>1, <1>2, <1>3 DEF PathInv

(* One more entry of the list: count goes up when it is not blank.         *)
LEMMA CountNext ==
  ASSUME NEW list \in Seq(Key \cup {Blank}), NEW n \in 0..(Len(list) - 1)
  PROVE  /\ Count(list, n) \in Nat
         /\ Count(list, n + 1) = IF list[n + 1] = Blank THEN Count(list, n)
                                 ELSE Count(list, n) + 1
<1> DEFINE C == {j \in 1..n : list[j] # Blank}
           D == {j \in 1..(n + 1) : list[j] # Blank}
<1>1. IsFiniteSet(C) /\ Cardinality(C) \in Nat
  <2>1. IsFiniteSet(1..n)
    BY FS_Interval
  <2>2. C \subseteq 1..n
    OBVIOUS
  <2>3. IsFiniteSet(C)
    BY <2>1, <2>2, FS_Subset
  <2> QED BY <2>3, FS_CardinalityType
<1>2. CASE list[n + 1] = Blank
  <2>1. D = C
    BY <1>2
  <2> QED BY <1>1, <1>2, <2>1 DEF Count
<1>3. CASE list[n + 1] # Blank
  <2>1. D = C \cup {n + 1} /\ n + 1 \notin C
    BY <1>3
  <2> HIDE DEF C, D
  <2>2. Cardinality(D) = Cardinality(C) + 1
    BY <1>1, <2>1, FS_AddElement
  <2> QED BY <1>1, <1>3, <2>2 DEF Count, C, D
<1> QED BY <1>2, <1>3

(* loadKeyPool numbers the keys as it counts them.                         *)
LEMMA LoadEntryKeeps == PathInv /\ LoadEntry => PathInv'
<1> SUFFICES ASSUME PathInv, LoadEntry PROVE PathInv'
  OBVIOUS
<1> USE GatewayAssumption
<1>0. PathTypeOK /\ Numbered /\ Served /\ InForce /\ PoolNeverBypassed
  BY DEF PathInv
<1>1. PICK list \in KeysEnvs : \E n \in 0..Len(list) : Loaded(list, n)
  BY <1>0 DEF Numbered
<1>2. PICK n \in 0..Len(list) : Loaded(list, n)
  BY <1>1
<1>3. /\ list \in Seq(Key \cup {Blank}) /\ Len(list) \in Nat /\ Len(env) \in Nat
      /\ env \in Seq(Key \cup {Blank}) /\ env # <<>>
  BY <1>0 DEF Numbered, LoadEntry
<1>4. /\ n \in 0..(Len(list) - 1) /\ n + 1 \in 0..Len(list) /\ Head(env) = list[n + 1]
      /\ n + 1 \in 1..Len(list)
  BY <1>2, <1>3 DEF Loaded
<1>5. /\ env' = Tail(env) /\ env' \in Seq(Key \cup {Blank}) /\ Len(env') = Len(list) - (n + 1)
      /\ \A i \in 1..Len(env') : env'[i] = list[(n + 1) + i]
  BY <1>2, <1>3, <1>4 DEF Loaded, LoadEntry
<1>6. /\ \A s \in Slot : pc'[s] = "idle" /\ usedKey'[s] = NoKey
      /\ pc' = pc /\ usedKey' = usedKey /\ ordered' = ordered
  BY <1>0, <1>3 DEF LoadEntry, handler, Served, Forwarding
<1>7. Served' /\ PoolNeverBypassed'
  BY <1>6 DEF Served, PoolNeverBypassed, Forwarding
<1>8. CASE Head(env) = Blank
  <2>1. UNCHANGED rotatorVars
    BY <1>8 DEF LoadEntry, AddKey
  <2>2. Loaded(list, n + 1)'
    BY <1>2, <1>3, <1>4, <1>5, <1>8, <2>1, CountNext DEF Loaded, rotatorVars
  <2>3. Numbered'
    BY <1>0, <1>4, <1>5, <2>1, <2>2 DEF Numbered, rotatorVars
  <2> QED
    BY <1>0, <1>6, <1>7, <2>1, <2>3 DEF PathInv, PathTypeOK, InForce, rotatorVars
<1>9. CASE Head(env) # Blank
  <2> DEFINE k == list[n + 1]  old == keys[provider]
  <2>1. AddKey(provider, k) /\ k \in Key
    BY <1>3, <1>4, <1>9 DEF LoadEntry
  <2>2. /\ old \in Seq(Key) /\ Len(old) = Count(list, n) /\ Len(old) \in Nat
        /\ Count(list, n + 1) = Len(old) + 1
    <3>1. old \in Seq(Key) /\ Len(old) = Count(list, n)
      BY <1>0, <1>2 DEF PathTypeOK, Loaded
    <3>2. Count(list, n) \in Nat /\ Count(list, n + 1) = Count(list, n) + 1
      BY <1>3, <1>4, <1>9, CountNext
    <3> QED BY <3>1, <3>2
  <2>3. id'[k] = PoolID(Len(old) + 1) /\ id' \in [Key -> IDs]
        /\ \A q \in Key : q # k => id'[q] = id[q]
    <3>1. id[k] = GivenID[k] /\ GivenID[k] = PoolID(Len(old) + 1)
      <4>1. \A q \in Provider : k \notin Range(keys[q])
        BY <2>1 DEF AddKey
      <4>2. id[k] = GivenID[k]
        BY <1>0, <2>1, <4>1 DEF Numbered
      <4>3. GivenID[k] = PoolID(Count(list, n + 1))
        BY <1>4, <1>9
      <4> QED BY <2>2, <4>2, <4>3
    <3>2. PoolID(Len(old) + 1) \in IDs
      BY <2>2 DEF PoolID, AutoID, IDs
    <3> QED BY <1>0, <2>1, <3>1, <3>2 DEF AddKey, PathTypeOK, PoolID
  <2>4. /\ keys' = [keys EXCEPT ![provider] = Append(old, k)]
        /\ UNCHANGED <<idx, CoolUntil, now>>
    BY <2>1 DEF AddKey, limits
  <2>5. /\ keys' \in [Provider -> Seq(Key)] /\ keys'[provider] = Append(old, k)
        /\ Len(keys'[provider]) = Len(old) + 1
        /\ \A i \in 1..Len(old) : keys'[provider][i] = old[i]
        /\ keys'[provider][Len(old) + 1] = k
    BY <1>0, <2>1, <2>2, <2>4 DEF PathTypeOK
  <2>6. Loaded(list, n + 1)'
    BY <1>5, <2>2, <2>5 DEF Loaded
  <2>7. \A i \in 1..Len(keys'[provider]) : id'[keys'[provider][i]] = PoolID(i)
    <3>1. \A i \in 1..Len(old) : old[i] # k /\ old[i] \in Key
      BY <2>1, <2>2 DEF AddKey, Range
    <3>2. ASSUME NEW i \in 1..Len(old) PROVE id'[keys'[provider][i]] = PoolID(i)
      <4>1. id[old[i]] = PoolID(i)
        BY <1>0 DEF Numbered
      <4>2. keys'[provider][i] = old[i] /\ id'[old[i]] = id[old[i]]
        BY <2>3, <2>5, <3>1
      <4> QED BY <4>1, <4>2
    <3> QED BY <2>2, <2>3, <2>5, <3>2
  <2>8. ASSUME NEW j \in Key, \A q \in Provider : j \notin Range(keys'[q])
        PROVE  id'[j] = GivenID[j]
    <3>1. j # k
      BY <2>2, <2>5, <2>8 DEF Range
    <3>2. ASSUME NEW q \in Provider PROVE j \notin Range(keys[q])
      <4>1. CASE q = provider
        <5>1. ASSUME NEW i \in 1..Len(old) PROVE old[i] # j
          <6>1. i \in DOMAIN keys'[provider] /\ keys'[provider][i] = old[i]
            BY <2>2, <2>5
          <6> QED BY <2>8, <6>1 DEF Range
        <5> QED BY <2>2, <4>1, <5>1 DEF Range
      <4>2. CASE q # provider
        BY <1>0, <2>4, <2>8, <4>2 DEF PathTypeOK
      <4> QED BY <4>1, <4>2
    <3> QED BY <1>0, <2>3, <3>1, <3>2 DEF Numbered
  <2>9. Numbered'
    BY <1>4, <1>5, <2>6, <2>7, <2>8 DEF Numbered
  <2>10. PathTypeOK' /\ InForce'
    BY <1>0, <1>6, <2>3, <2>4, <2>5 DEF PathTypeOK, InForce
  <2> QED BY <1>7, <2>9, <2>10 DEF PathInv
<1> QED BY <1>8, <1>9

(* While the pool, the cool-downs and the clock stay as they are, only what *)
(* becomes of the handlers matters.                                         *)
LEMMA HandlersKeep ==
  ASSUME PathInv, UNCHANGED <<keys, id, CoolUntil, now, env, ordered>>,
         idx' \in [Provider -> Nat],
         pc' \in [Slot -> {"idle", "body", "select", "refused", "upstream", "buffer", "relay"}],
         usedKey' \in [Slot -> Key \cup {NoKey}], Served', PoolNeverBypassed'
  PROVE  PathInv'
<1>1. PathTypeOK' /\ InForce'
  BY DEF PathInv, PathTypeOK, InForce
<1>2. Numbered'
  BY DEF PathInv, Numbered, Loaded
<1> QED BY <1>1, <1>2 DEF PathInv

(* A key that GetKey returns is one of the pool, and not cooling down.     *)
LEMMA GotKey ==
  ASSUME PathInv, NEW k \in Key, GetKeyOK(provider, k)
  PROVE  /\ k \in Range(keys[provider]) /\ now >= CoolUntil[k]
         /\ idx' \in [Provider -> Nat] /\ UNCHANGED <<keys, id, CoolUntil, now>>
<1> USE GatewayAssumption DEF PathInv, PathTypeOK
<1>1. PICK i \in 0..(Len(keys[provider]) - 1) :
        /\ Scan(provider, i) = k /\ healthy(now, k)
        /\ \E S : PruneScanned(S)
        /\ idx' = [idx EXCEPT ![provider] = NextIdx(provider, i)]
  BY DEF GetKeyOK
<1> DEFINE n == Len(keys[provider])
<1>2. n \in Nat \ {0} /\ idx[provider] \in Nat
  OBVIOUS
<1>3. (idx[provider] + i) % n \in 0..(n - 1)
  BY <1>2
<1>4. k \in Range(keys[provider])
  BY <1>1, <1>2, <1>3 DEF Scan, Range
<1>5. NextIdx(provider, i) \in Nat
  BY <1>2, <1>3 DEF NextIdx
<1> QED BY <1>1, <1>4, <1>5 DEF healthy, PruneScanned

(* The steps of a handler that leave the pool alone: the caller's own key  *)
(* goes out only where HasKeys has just said that there is no pool, and    *)
(* none is made any more.                                                  *)
LEMMA PlainStepKeeps ==
  ASSUME PathInv, NEW s \in Slot,
         \/ Receive(s) \/ ReadBody(s) \/ CheckPool(s) \/ UpstreamError(s)
         \/ RecordNothing(s) \/ Relay(s)
  PROVE  PathInv'
<1>0. PathTypeOK /\ Served /\ PoolNeverBypassed
  BY DEF PathInv
<1>1. UNCHANGED <<keys, idx, id, CoolUntil, now, env, ordered>>
  BY DEF Receive, ReadBody, CheckPool, UpstreamError, RecordNothing, Relay, rotatorVars
<1>2. /\ pc' \in [Slot -> {"idle", "body", "select", "refused", "upstream", "buffer", "relay"}]
      /\ usedKey' \in [Slot -> Key \cup {NoKey}] /\ idx' \in [Provider -> Nat]
  BY <1>0, <1>1 DEF PathTypeOK, Receive, ReadBody, CheckPool, UpstreamError,
     RecordNothing,
     Relay, Goto, Return
<1>3. Served'
  BY <1>0, <1>1 DEF PathTypeOK, Served, Forwarding, Receive, ReadBody, CheckPool,
     UpstreamError, RecordNothing, Relay, Goto, Return
<1>4. PoolNeverBypassed'
  BY <1>0, <1>1 DEF PathTypeOK, PoolNeverBypassed, HasKeys, Forwarding, Receive,
     ReadBody,
     CheckPool, UpstreamError, RecordNothing, Relay, Goto, Return
<1> QED BY <1>1, <1>2, <1>3, <1>4, HandlersKeep

(* The steps of a handler that call GetKey or MarkTokens.                  *)
LEMMA RotatorStepKeeps ==
  ASSUME PathInv, NEW s \in Slot,
         \/ \E k \in Key : SelectKey(s, k)
         \/ SelectErr(s)
         \/ \E n \in Tokens : RecordTokens(s, n)
  PROVE  PathInv'
<1>0. PathTypeOK /\ Served /\ PoolNeverBypassed
  BY DEF PathInv
<1>1. ASSUME NEW k \in Key, SelectKey(s, k) PROVE PathInv'
  <2>1. /\ k \in Range(keys[provider]) /\ idx' \in [Provider -> Nat]
        /\ UNCHANGED <<keys, id, CoolUntil, now>>
    BY <1>1, GotKey DEF SelectKey
  <2>2. /\ pc[s] = "select" /\ pc' = [pc EXCEPT ![s] = "upstream"]
        /\ usedKey' = [usedKey EXCEPT ![s] = k] /\ UNCHANGED <<env, ordered>>
    BY <1>1 DEF SelectKey, Goto
  <2>3. k # NoKey
    BY GatewayAssumption
  <2>4. Served' /\ PoolNeverBypassed'
    BY <1>0, <2>1, <2>2, <2>3 DEF PathTypeOK, Served, PoolNeverBypassed, HasKeys,
       Forwarding
  <2>5. /\ pc' \in [Slot -> {"idle", "body", "select", "refused", "upstream", "buffer", "relay"}]
        /\ usedKey' \in [Slot -> Key \cup {NoKey}]
    BY <1>0, <2>2 DEF PathTypeOK
  <2> QED BY <2>1, <2>2, <2>4, <2>5, HandlersKeep
<1>2. ASSUME SelectErr(s) \/ \E n \in Tokens : RecordTokens(s, n) PROVE PathInv'
  <2>1. UNCHANGED <<keys, idx, id, CoolUntil, now, env, ordered, usedKey>>
    BY <1>2 DEF SelectErr, RecordTokens, GetKeyErr, PruneScanned, MarkTokens, pool
  <2>2. /\ \/ pc[s] = "select" /\ pc' = [pc EXCEPT ![s] = "refused"]
           \/ pc[s] = "buffer" /\ pc' = [pc EXCEPT ![s] = "relay"]
    BY <1>2 DEF SelectErr, RecordTokens, Goto
  <2>3. Served' /\ PoolNeverBypassed'
    BY <1>0, <2>1, <2>2 DEF PathTypeOK, Served, PoolNeverBypassed, HasKeys, Forwarding
  <2>4. /\ pc' \in [Slot -> {"idle", "body", "select", "refused", "upstream", "buffer", "relay"}]
        /\ usedKey' \in [Slot -> Key \cup {NoKey}] /\ idx' \in [Provider -> Nat]
    BY <1>0, <2>1, <2>2 DEF PathTypeOK
  <2> QED BY <2>1, <2>3, <2>4, HandlersKeep
<1> QED BY <1>1, <1>2

(* What ModifyResponse does to the cool-downs: it orders one for the key k *)
(* of the request, of a length d, or none at all.                          *)
LEMMA AnswerCools ==
  ASSUME PathInv, NEW s \in Slot, NEW status \in Status, NEW json \in BOOLEAN,
         ModifyResponse(s, status, json),
         NEW k, k = usedKey[s], NEW d, d = CooledFor(status)
  PROVE  /\ d \in Nat /\ UNCHANGED <<keys, idx, id, now, env, usedKey>>
         /\ \/ /\ k # NoKey
               /\ CoolUntil' = [CoolUntil EXCEPT ![k] = now + d]
               /\ ordered' = [ordered EXCEPT ![k] = now + d]
               /\ pc[s] = "upstream" /\ pc' = [pc EXCEPT ![s] = "relay"]
            \/ /\ CoolUntil' = CoolUntil
               /\ ordered' = ordered \/ (k # NoKey /\ ordered' = [ordered EXCEPT ![k] = now])
               /\ pc[s] = "upstream"
               /\ \E to \in {"buffer", "relay"} : pc' = [pc EXCEPT ![s] = to]
<1>0. PathTypeOK /\ Served /\ now \in Nat
  BY DEF PathInv, PathTypeOK, Time
<1>1. C429 \in Nat /\ C5xx \in Nat
  BY GatewayAssumption, RotatorAssumption
<1>2. /\ d \in Nat /\ (status = 429 => d = C429) /\ (status = 500 => d = C5xx)
      /\ (status # 429 /\ status # 500 => d = 0)
  BY <1>1 DEF CooledFor, Status
<1>3. UNCHANGED <<keys, idx, id, now, env, usedKey>>
  BY DEF ModifyResponse, MarkCoolDown, rotatorVars, pool
<1>4. /\ k = NoKey \/ status \notin {429, 500} => ordered' = ordered
      /\ k # NoKey /\ status = 429 => ordered' = [ordered EXCEPT ![k] = now + C429]
      /\ k # NoKey /\ status = 500 => ordered' = [ordered EXCEPT ![k] = now + C5xx]
  <2>1. CASE status = 429
    BY <2>1 DEF ModifyResponse
  <2>2. CASE status = 500
    BY <2>2 DEF ModifyResponse
  <2>3. CASE status \notin {429, 500}
    BY <2>3 DEF ModifyResponse
  <2> QED BY <2>1, <2>2, <2>3
<1>5. /\ k = NoKey \/ status \notin {429, 500} => ordered' = ordered
      /\ k # NoKey /\ status \in {429, 500} => ordered' = [ordered EXCEPT ![k] = now + d]
  BY <1>2, <1>4
<1>6. CASE k # NoKey /\ d > 0
  <2>1. MarkCoolDown(provider, id[k], d) /\ k \in Range(keys[provider]) /\ k \in Key
    BY <1>0, <1>6 DEF ModifyResponse, Served, PathTypeOK
  <2>2. CoolUntil' = [q \in Key |-> IF q \in {k} THEN now + d ELSE CoolUntil[q]]
    BY <2>1, PoolNamedIsMeant DEF MarkCoolDown
  <2>3. CoolUntil' = [CoolUntil EXCEPT ![k] = now + d]
    BY <1>0, <2>1, <2>2 DEF PathTypeOK
  <2>4. status \in {429, 500} /\ status # 200
    BY <1>2, <1>6
  <2>5. ordered' = [ordered EXCEPT ![k] = now + d]
    BY <1>5, <1>6, <2>4
  <2>6. pc[s] = "upstream" /\ pc' = [pc EXCEPT ![s] = "relay"]
    BY <2>4 DEF ModifyResponse, Goto
  <2> QED BY <1>2, <1>3, <1>6, <2>3, <2>5, <2>6
<1>7. CASE ~(k # NoKey /\ d > 0)
  <2>1. CoolUntil' = CoolUntil
    BY <1>7 DEF ModifyResponse, rotatorVars
  <2>2. ordered' = ordered \/ (k # NoKey /\ ordered' = [ordered EXCEPT ![k] = now])
    <3>1. CASE k = NoKey
      BY <1>5, <3>1
    <3>2. CASE k # NoKey
      <4>1. d = 0
        BY <1>2, <1>7, <3>2
      <4>2. now + d = now
        BY <1>0, <4>1
      <4> QED BY <1>5, <3>2, <4>2
    <3> QED BY <3>1, <3>2
  <2>3. pc[s] = "upstream" /\ \E to \in {"buffer", "relay"} : pc' = [pc EXCEPT ![s] = to]
    BY DEF ModifyResponse, Goto
  <2> QED BY <1>2, <1>3, <2>1, <2>2, <2>3
<1> QED BY <1>6, <1>7

(* An answer leaves the cool-down it orders in force.                      *)
LEMMA ModifyResponseKeeps ==
  ASSUME PathInv, NEW s \in Slot, NEW status \in Status, NEW json \in BOOLEAN,
         ModifyResponse(s, status, json)
  PROVE  PathInv'
<1>0. PathTypeOK /\ Numbered /\ Served /\ InForce /\ PoolNeverBypassed
  BY DEF PathInv
<1>1. /\ UNCHANGED <<keys, idx, id, now, env, usedKey>> /\ pc[s] = "upstream"
      /\ \E to \in {"buffer", "relay"} : pc' = [pc EXCEPT ![s] = to]
  BY AnswerCools
<1>2. /\ CoolUntil' \in [Key -> Time] /\ ordered' \in [Key -> Time]
      /\ \A k \in Key : ordered'[k] <= CoolUntil'[k] \/ ordered'[k] <= now
  <2> DEFINE k == usedKey[s]  d == CooledFor(status)
  <2>1. d \in Nat /\ (k # NoKey => k \in Key)
    BY <1>0, AnswerCools DEF PathTypeOK
  <2>2. \/ CoolUntil' = [CoolUntil EXCEPT ![k] = now + d]
           /\ ordered' = [ordered EXCEPT ![k] = now + d] /\ k # NoKey
        \/ CoolUntil' = CoolUntil
           /\ (ordered' = ordered \/ (k # NoKey /\ ordered' = [ordered EXCEPT ![k] = now]))
    BY AnswerCools
  <2> HIDE DEF k, d
  <2>3. now \in Nat /\ CoolUntil \in [Key -> Nat] /\ ordered \in [Key -> Nat]
    BY <1>0 DEF PathTypeOK, Time
  <2>4. CASE /\ k # NoKey /\ CoolUntil' = [CoolUntil EXCEPT ![k] = now + d]
             /\ ordered' = [ordered EXCEPT ![k] = now + d]
    BY <1>0, <2>1, <2>3, <2>4 DEF InForce, Time
  <2>5. CASE CoolUntil' = CoolUntil /\ ordered' = ordered
    BY <1>0, <2>5 DEF PathTypeOK, InForce
  <2>6. CASE /\ k # NoKey /\ CoolUntil' = CoolUntil /\ ordered' = [ordered EXCEPT ![k] = now]
    BY <1>0, <2>1, <2>3, <2>6 DEF InForce, Time
  <2> QED BY <2>2, <2>4, <2>5, <2>6
<1>3. PathTypeOK' /\ InForce'
  BY <1>0, <1>1, <1>2 DEF PathTypeOK, InForce
<1>4. Numbered'
  BY <1>0, <1>1 DEF Numbered, Loaded
<1>5. Served' /\ PoolNeverBypassed'
  BY <1>0, <1>1 DEF PathTypeOK, Served, PoolNeverBypassed, HasKeys, Forwarding
<1> QED BY <1>3, <1>4, <1>5 DEF PathInv

(* Every step of loadKeyPool, the handlers and the clock keeps the         *)
(* invariant.                                                              *)
LEMMA PathInvStep == PathInv /\ [GatewayNext]_gatewayVars => PathInv'
<1> SUFFICES ASSUME PathInv, [GatewayNext]_gatewayVars PROVE PathInv'
  OBVIOUS
<1>1. ASSUME NEW s \in Slot, Receive(s) \/ Handle(s) PROVE PathInv'
  BY <1>1, PlainStepKeeps, RotatorStepKeeps, ModifyResponseKeeps DEF Handle
<1>2. CASE GatewayTick
  <2>1. UNCHANGED <<keys, idx, id, CoolUntil, env, pc, usedKey, ordered>> /\ now' = now + 1
    BY <1>2 DEF GatewayTick, Tick, pool, limits, handler
  <2>2. PathTypeOK' /\ InForce'
    BY <2>1 DEF PathInv, PathTypeOK, InForce, Time
  <2>3. Numbered' /\ Served' /\ PoolNeverBypassed'
    BY <2>1 DEF PathInv, Numbered, Loaded, Served, PoolNeverBypassed, HasKeys,
       Forwarding
  <2> QED BY <2>2, <2>3 DEF PathInv
<1>3. CASE UNCHANGED gatewayVars
  BY <1>3 DEF gatewayVars, rotatorVars, PathInv, PathTypeOK, Numbered, Loaded, Served,
     InForce,
              PoolNeverBypassed, HasKeys, Forwarding
<1> QED BY <1>1, <1>2, <1>3, LoadEntryKeeps DEF GatewayNext

(* The invariant of the request path holds always.                         *)
THEOREM PathInvariant == GatewaySpec => []PathInv
BY PathInvInit, PathInvStep, PTL DEF GatewaySpec

(* handleChatCompletions never sends a request upstream with the caller's  *)
(* own credentials when loadKeyPool has configured a pool, although GetKey *)
(* and HasKeys are two calls.                                              *)
THEOREM PoolKept == GatewaySpec => []PoolNeverBypassed
BY PathInvariant, PTL DEF PathInv

(* No request gets a key before the cool-down of the last 429 or 5xx on it *)
(* is over, in whatever order the answers came in.                         *)
THEOREM CoolDownKept == GatewaySpec => CoolDownRespected
<1>1. ASSUME PathInv, [GatewayNext]_gatewayVars, NEW s \in Slot, NEW k \in Key,
             usedKey[s] # k, usedKey'[s] = k
      PROVE  now >= ordered[k]
  <2>1. SelectKey(s, k)
    BY <1>1, GatewayAssumption DEF GatewayNext, gatewayVars, LoadEntry, Receive,
       Handle, ReadBody,
       SelectKey, SelectErr, CheckPool, UpstreamError, ModifyResponse, RecordTokens,
       RecordNothing, Relay, GatewayTick, Return, handler, PathInv, PathTypeOK
  <2>2. now >= CoolUntil[k]
    BY <1>1, <2>1, GotKey DEF SelectKey
  <2> QED BY <1>1, <2>2 DEF PathInv, InForce, PathTypeOK, Time
<1>2. PathInv /\ [GatewayNext]_gatewayVars =>
        [\A s \in Slot, k \in Key :
           usedKey[s] # k /\ usedKey'[s] = k => now >= ordered[k]]_gatewayVars
  BY <1>1
<1> QED BY <1>2, PathInvariant, PTL DEF GatewaySpec, CoolDownRespected

(* Only the key that a failed request was sent with is ever cooled down,   *)
(* although MarkCoolDown looks its key up by ID.                           *)
THEOREM RightKeyIsCooled == GatewaySpec => RightKeyCooled
<1>1. ASSUME PathInv, [GatewayNext]_gatewayVars, NEW k \in Key, CoolUntil'[k] # CoolUntil[k]
      PROVE  \E s \in Slot : pc[s] = "upstream" /\ pc'[s] = "relay" /\ usedKey[s] = k
  <2>1. PICK s \in Slot, status \in Status, json \in BOOLEAN : ModifyResponse(s, status, json)
    BY <1>1, GotKey DEF GatewayNext, gatewayVars, rotatorVars, LoadEntry, AddKey,
       limits,
       Receive, Handle, ReadBody, SelectKey, SelectErr, GetKeyErr, PruneScanned, CheckPool,
       UpstreamError, RecordTokens, MarkTokens, RecordNothing, Relay, GatewayTick, Tick
  <2>2. /\ pc[s] = "upstream" /\ pc' = [pc EXCEPT ![s] = "relay"] /\ usedKey[s] # NoKey
        /\ CoolUntil' = [CoolUntil EXCEPT ![usedKey[s]] = now + CooledFor(status)]
    BY <1>1, <2>1, AnswerCools
  <2>3. usedKey[s] = k /\ pc'[s] = "relay"
    BY <1>1, <2>2 DEF PathInv, PathTypeOK
  <2> QED BY <2>2, <2>3
<1>2. PathInv /\ [GatewayNext]_gatewayVars =>
        [\A k \in Key : CoolUntil'[k] # CoolUntil[k] =>
           \E s \in Slot : pc[s] = "upstream" /\ pc'[s] = "relay" /\ usedKey[s] = k]_gatewayVars
  BY <1>1
<1> QED BY <1>2, PathInvariant, PTL DEF GatewaySpec, RightKeyCooled

----------------------------------------------------------------------------
(* The request path and the rotator.  The handlers are callers of the      *)
(* rotator like any other, so what holds of it whoever calls it holds here.*)

\* A body is only read for its tokens when a key of the pool was used.
Buffered == \A s \in Slot : pc[s] = "buffer" => usedKey[s] # NoKey

(* Only ModifyResponse enters recordTokens, and with a key.                *)
LEMMA BufferedStep ==
  ASSUME PathInv, Buffered, [GatewayNext]_gatewayVars
  PROVE  Buffered'
<1>0. PathTypeOK
  BY DEF PathInv
<1>1. CASE LoadEntry \/ GatewayTick \/ UNCHANGED gatewayVars
  BY <1>1 DEF Buffered, LoadEntry, GatewayTick, gatewayVars, handler
<1>2. ASSUME NEW s \in Slot,
             \/ Receive(s) \/ ReadBody(s) \/ CheckPool(s) \/ UpstreamError(s)
             \/ RecordNothing(s) \/ Relay(s)
      PROVE  Buffered'
  BY <1>0, <1>2 DEF PathTypeOK, Buffered, Receive, ReadBody, CheckPool, UpstreamError,
     RecordNothing, Relay, Goto, Return
<1>3. ASSUME NEW s \in Slot,
             \/ \E k \in Key : SelectKey(s, k)
             \/ SelectErr(s)
             \/ \E n \in Tokens : RecordTokens(s, n)
      PROVE  Buffered'
  BY <1>0, <1>3 DEF PathTypeOK, Buffered, SelectKey, SelectErr, RecordTokens, Goto
<1>4. ASSUME NEW s \in Slot, NEW status \in Status, NEW json \in BOOLEAN,
             ModifyResponse(s, status, json)
      PROVE  Buffered'
  BY <1>4 DEF Buffered, ModifyResponse, Goto
<1> QED BY <1>1, <1>2, <1>3, <1>4 DEF GatewayNext, Handle

(* Every step of the gateway is a step of the rotator, or none for it.     *)
LEMMA GatewayStep ==
  ASSUME PathInv, Buffered, [GatewayNext]_gatewayVars
  PROVE  [RotatorNext]_rotatorVars
<1>0. PathTypeOK /\ provider \in Provider
  BY GatewayAssumption DEF PathInv
<1>1. CASE LoadEntry
  <2>1. env \in Seq(Key \cup {Blank}) /\ env # <<>>
    BY <1>1 DEF PathInv, Numbered, LoadEntry
  <2>2. Head(env) \in Key \cup {Blank}
    BY <2>1
  <2> QED BY <1>0, <1>1, <2>2 DEF LoadEntry, RotatorNext
<1>2. CASE GatewayTick \/ UNCHANGED gatewayVars
  BY <1>2 DEF GatewayTick, gatewayVars, RotatorNext
<1>3. ASSUME NEW s \in Slot,
             \/ Receive(s) \/ ReadBody(s) \/ CheckPool(s) \/ UpstreamError(s)
             \/ RecordNothing(s) \/ Relay(s)
      PROVE  UNCHANGED rotatorVars
  BY <1>3 DEF Receive, ReadBody, CheckPool, UpstreamError, RecordNothing, Relay
<1>4. ASSUME NEW s \in Slot, \/ \E k \in Key : SelectKey(s, k)
                             \/ SelectErr(s)
      PROVE  RotatorNext
  BY <1>0, <1>4 DEF SelectKey, SelectErr, RotatorNext
<1>5. ASSUME NEW s \in Slot, NEW n \in Tokens, RecordTokens(s, n)
      PROVE  RotatorNext
  <2>1. usedKey[s] \in Key
    BY <1>0, <1>5 DEF PathTypeOK, Buffered, RecordTokens, Goto
  <2> QED BY <1>0, <1>5, <2>1 DEF RecordTokens, RotatorNext
<1>6. ASSUME NEW s \in Slot, NEW status \in Status, NEW json \in BOOLEAN,
             ModifyResponse(s, status, json)
      PROVE  [RotatorNext]_rotatorVars
  <2>1. CASE usedKey[s] # NoKey /\ CooledFor(status) > 0
    <3>1. usedKey[s] \in Key
      BY <1>0, <2>1 DEF PathTypeOK
    <3>2. CooledFor(status) \in Cooldown
      BY <2>1, GatewayAssumption DEF CooledFor
    <3>3. MarkCoolDown(provider, id[usedKey[s]], CooledFor(status))
      BY <1>6, <2>1 DEF ModifyResponse
    <3> QED BY <1>0, <3>1, <3>2, <3>3 DEF RotatorNext
  <2>2. CASE ~(usedKey[s] # NoKey /\ CooledFor(status) > 0)
    BY <1>6, <2>2 DEF ModifyResponse
  <2> QED BY <2>1, <2>2
<1> QED BY <1>1, <1>2, <1>3, <1>4, <1>5, <1>6 DEF GatewayNext, Handle

(* Only handlers that hold a key ever read a body for its tokens.          *)
LEMMA AlwaysBuffered == GatewaySpec => []Buffered
<1>1. GatewayInit => Buffered
  BY DEF GatewayInit, Buffered
<1> QED BY <1>1, BufferedStep, PathInvariant, PTL DEF GatewaySpec

(* The gateway runs the rotator: loadKeyPool and the handlers, with the    *)
(* IDs, cool-downs and token counts they pass, are callers that module     *)
(* Rotator allows for, so its theorems hold of the composition.            *)
THEOREM GatewayUsesRotator == GatewaySpec => RotatorSpec
<1>1. GatewayInit => New
  BY DEF GatewayInit
<1> QED BY <1>1, GatewayStep, PathInvariant, AlwaysBuffered, PTL DEF GatewaySpec, RotatorSpec

(* However its answers come in, no key of the gateway is lost for good:    *)
(* once the longer cool-down and one window have gone by without a further *)
(* answer on it, GetKey finds it healthy.                                  *)
THEOREM GatewayKeysRecover == GatewaySpec => []LockoutBounded
BY GatewayUsesRotator, KeysRecover, PTL

----------------------------------------------------------------------------
(* Tokens are counted after the fact; how far that can go wrong.           *)

\* What MarkTokens records is positive, so that pruning never adds to a sum.
Positive ==
  \A k \in Key : \A i \in 1..Len(tokenUsage[k]) : tokenUsage[k][i].tokens >= 0

\* What TPMOvershootBounded says of one key.
Within(k) ==
  Used(Usages(now, k)) + Max(Tokens) * Cardinality(InFlight(k))
    < TPM[k] + Max(Tokens) * Cardinality(Slot)

(* The most tokens an answer reports is one of the counts, and not         *)
(* negative.                                                               *)
LEMMA MostTokens == Max(Tokens) \in Nat /\ \A n \in Tokens : n <= Max(Tokens)
<1>1. Tokens \in SUBSET Int /\ IsFiniteSet(Tokens)
  BY RotatorAssumption, GatewayAssumption
<1>2. PICK n \in Tokens : n >= 0
  BY GatewayAssumption
<1>3. Max(Tokens) \in Tokens /\ \A y \in Tokens : y <= Max(Tokens)
  BY <1>1, MaxOfFinite
<1> DEFINE m == Max(Tokens)
<1>4. m \in Tokens /\ (\A y \in Tokens : y <= m)
  BY <1>3
<1> HIDE DEF m
<1>5. m \in Int /\ n \in Int /\ n <= m
  BY <1>1, <1>4
<1>6. m \in Nat
  BY <1>2, <1>5
<1> QED BY <1>4, <1>6 DEF m

(* The fewer requests are in flight, the fewer tokens they can bring.      *)
LEMMA FewerBringLess ==
  ASSUME NEW m \in Nat, NEW S \in SUBSET Slot, NEW T \in SUBSET Slot, S \subseteq T
  PROVE  /\ IsFiniteSet(S) /\ Cardinality(S) \in Nat /\ Cardinality(T) \in Nat
         /\ m * Cardinality(S) \in Nat /\ m * Cardinality(T) \in Nat
         /\ m * Cardinality(S) <= m * Cardinality(T)
<1>1. IsFiniteSet(T)
  BY GatewayAssumption, FS_Subset
<1>2. IsFiniteSet(S) /\ Cardinality(S) <= Cardinality(T)
  BY <1>1, FS_Subset
<1>3. Cardinality(S) \in Nat /\ Cardinality(T) \in Nat
  BY <1>1, <1>2, FS_CardinalityType
<1> DEFINE a == Cardinality(S)
           b == Cardinality(T)
<1>4. a \in Nat /\ b \in Nat /\ a <= b
  BY <1>2, <1>3
<1> HIDE DEF a, b
<1>5. m * a \in Nat /\ m * b \in Nat
  BY <1>4
<1>6. m * a <= m * b
  <2>1. b - a \in Nat /\ m * (b - a) \in Nat
    BY <1>4
  <2>2. m * b = m * a + m * (b - a)
    BY <1>4
  <2> QED BY <1>5, <2>1, <2>2
<1> QED BY <1>2, <1>3

(* Pruning a list twice, or a list and one more entry, keeps no more than  *)
(* the first pruning did.                                                  *)
LEMMA PrunedOnceMore ==
  ASSUME NEW t \in Time, NEW u \in Seq(Usage), NEW v \in Seq(Usage), NEW n \in Nat,
         \A i \in 1..Len(u) : u[i].tokens >= 0,
         \/ v = pruneTokens(t, u) /\ n = 0
         \/ v = Append(pruneTokens(t, u), [at |-> t, tokens |-> n])
  PROVE  /\ \A i \in 1..Len(v) : v[i].tokens >= 0
         /\ Used(pruneTokens(t, v)) <= Used(pruneTokens(t, u)) + n
<1> DEFINE w == pruneTokens(t, u)
           e == [at |-> t, tokens |-> n]
<1>1. PICK d \in 0..Len(u) : LeftOf(w, u, d)
  BY PruneTokensLeft
<1>2. w \in Seq(Usage) /\ e \in Usage /\ e.tokens = n
  <2>1. w \in Seq(Usage)
    BY PruneTokensLeft
  <2>2. n \in Int
    OBVIOUS
  <2>3. e \in Usage /\ e.tokens = n
    BY DEF Usage
  <2> QED BY <2>1, <2>3
<1>3. (v = w /\ n = 0) \/ v = Append(w, e)
  OBVIOUS
<1> HIDE DEF w, e
<1>4. Len(w) \in Nat /\ Len(u) \in Nat
  OBVIOUS
<1>5. \A i \in 1..Len(w) : w[i].tokens >= 0
  <2>1. d \in Nat /\ Len(w) = Len(u) - d /\ \A i \in 1..Len(w) : w[i] = u[i + d]
    BY <1>1 DEF LeftOf
  <2>2. \A i \in 1..Len(w) : i + d \in 1..Len(u)
    BY <2>1
  <2> QED BY <2>1
<1>6. \A i \in 1..Len(v) : v[i].tokens >= 0
  <2>1. CASE v = Append(w, e)
    <3>1. /\ Len(v) = Len(w) + 1 /\ v[Len(w) + 1] = e
          /\ \A i \in 1..Len(w) : v[i] = w[i]
      BY <2>1
    <3>2. e.tokens >= 0
      BY <1>2
    <3>3. \A i \in 1..(Len(w) + 1) : i \in 1..Len(w) \/ i = Len(w) + 1
      OBVIOUS
    <3> QED BY <1>5, <3>1, <3>2
  <2> QED BY <1>3, <1>5, <2>1
<1>7. Used(v) = Used(w) + n
  <2>1. Used(w) \in Int
    BY <1>2, UsedTyped
  <2>2. CASE v = w /\ n = 0
    BY <2>1, <2>2
  <2>3. CASE v = Append(w, e)
    BY <1>2, <2>3, UsedAppended
  <2> QED BY <1>3, <2>2, <2>3
<1>8. Used(pruneTokens(t, v)) <= Used(v)
  <2>1. pruneTokens(t, v) \in Seq(Usage) /\ \E c \in 0..Len(v) : LeftOf(pruneTokens(t, v), v, c)
    BY PruneTokensLeft
  <2> QED BY <1>6, <2>1, UsedOfLeft
<1> QED BY <1>6, <1>7, <1>8 DEF w

\* A step as the window of k sees it: it loses entries, or MarkTokens adds the
\* n tokens that the handler of s has read.
Prunes(k) ==
  /\ now' = now
  /\ tokenUsage'[k] = pruneTokens(now, tokenUsage[k])

Charges(k, s, n) ==
  /\ pc[s] = "buffer" /\ usedKey[s] = k /\ n > 0
  /\ pc' = [pc EXCEPT ![s] = "relay"] /\ usedKey' = usedKey /\ now' = now
  /\ tokenUsage'[k] = Append(pruneTokens(now, tokenUsage[k]), [at |-> now, tokens |-> n])

(* Windows change in no other way.                                         *)
LEMMA WindowMoves ==
  ASSUME PathInv, RotatorTypeOK, Buffered, [GatewayNext]_gatewayVars, NEW k \in Key
  PROVE  \/ now' \in {now, now + 1} /\ tokenUsage'[k] = tokenUsage[k]
         \/ Prunes(k)
         \/ \E s \in Slot, n \in Tokens : Charges(k, s, n)
<1>0. PathTypeOK /\ Served
  BY DEF PathInv
<1>1. CASE LoadEntry \/ UNCHANGED gatewayVars
  BY <1>1 DEF LoadEntry, AddKey, gatewayVars, rotatorVars, limits
<1>2. CASE GatewayTick
  BY <1>2 DEF GatewayTick, Tick, limits
<1>3. ASSUME NEW s \in Slot,
             \/ Receive(s) \/ ReadBody(s) \/ CheckPool(s) \/ UpstreamError(s)
             \/ RecordNothing(s) \/ Relay(s)
             \/ \E status \in Status, json \in BOOLEAN : ModifyResponse(s, status, json)
      PROVE  now' = now /\ tokenUsage'[k] = tokenUsage[k]
  BY <1>3 DEF Receive, ReadBody, CheckPool, UpstreamError, RecordNothing, Relay,
     ModifyResponse, MarkCoolDown, rotatorVars
<1>4. ASSUME NEW s \in Slot, (\E j \in Key : SelectKey(s, j)) \/ SelectErr(s)
      PROVE  (now' = now /\ tokenUsage'[k] = tokenUsage[k]) \/ Prunes(k)
  <2>1. \E S : PruneScanned(S)
    BY <1>4 DEF SelectKey, SelectErr, GetKeyOK, GetKeyErr
  <2> QED BY <2>1 DEF PruneScanned, Usages, Prunes
<1>5. ASSUME NEW s \in Slot, NEW n \in Tokens, RecordTokens(s, n)
      PROVE  (now' = now /\ tokenUsage'[k] = tokenUsage[k]) \/ Charges(k, s, n)
  <2>1. /\ pc[s] = "buffer" /\ pc' = [pc EXCEPT ![s] = "relay"] /\ usedKey' = usedKey
        /\ MarkTokens(provider, id[usedKey[s]], n) /\ now' = now
    BY <1>5 DEF RecordTokens, Goto, MarkTokens
  <2>2. usedKey[s] \in Range(keys[provider])
    BY <1>0, <2>1 DEF Served, Buffered
  <2>3. Named(provider, id[usedKey[s]]) = {usedKey[s]}
    BY <2>2, PoolNamedIsMeant
  <2>4. n \in Int
    BY RotatorAssumption
  <2> QED BY <2>1, <2>3, <2>4 DEF MarkTokens, Charges
<1> QED BY <1>1, <1>2, <1>3, <1>4, <1>5 DEF GatewayNext, Handle

(* A request comes into flight only with the key that GetKey has just      *)
(* found healthy.                                                          *)
LEMMA FlightMoves ==
  ASSUME PathInv, [GatewayNext]_gatewayVars, NEW k \in Key,
         ~(InFlight(k)' \subseteq InFlight(k))
  PROVE  healthy(now, k)
<1>0. PathTypeOK /\ Served /\ k # NoKey
  BY GatewayAssumption DEF PathInv
<1>1. PICK r \in Slot : r \in InFlight(k)' /\ r \notin InFlight(k)
  BY DEF InFlight
<1>2. ~(LoadEntry \/ GatewayTick \/ UNCHANGED gatewayVars)
  BY DEF InFlight, LoadEntry, GatewayTick, gatewayVars, handler
<1>3. ASSUME NEW s \in Slot,
             \/ Receive(s) \/ ReadBody(s) \/ CheckPool(s) \/ UpstreamError(s)
             \/ RecordNothing(s) \/ Relay(s)
      PROVE  FALSE
  BY <1>0, <1>3 DEF PathTypeOK, Served, Forwarding, InFlight, Receive, ReadBody,
     CheckPool, UpstreamError, RecordNothing, Relay, Goto, Return
<1>4. ASSUME NEW s \in Slot,
             \/ SelectErr(s)
             \/ \E n \in Tokens : RecordTokens(s, n)
             \/ \E status \in Status, json \in BOOLEAN : ModifyResponse(s, status, json)
      PROVE  FALSE
  BY <1>0, <1>4 DEF PathTypeOK, InFlight, SelectErr, RecordTokens, ModifyResponse, Goto
<1>5. PICK s \in Slot, j \in Key : SelectKey(s, j)
  BY <1>2, <1>3, <1>4 DEF GatewayNext, Handle
<1>6. j = k
  BY <1>0, <1>5 DEF PathTypeOK, InFlight, SelectKey, Goto
<1> QED BY <1>5, <1>6 DEF SelectKey, GetKeyOK

(* The tokens in the window of k grow by what is charged, and by nothing   *)
(* else: time and pruning only take away from them.                        *)
LEMMA WindowSums ==
  ASSUME PathInv, RotatorTypeOK, RotatorTypeOK', Buffered, Positive,
         [GatewayNext]_gatewayVars, NEW k \in Key,
         NEW U, U = Used(pruneTokens(now, tokenUsage[k])),
         NEW V, V = Used(pruneTokens(now', tokenUsage'[k]))
  PROVE  /\ \A i \in 1..Len(tokenUsage'[k]) : tokenUsage'[k][i].tokens >= 0
         /\ U \in Int /\ V \in Int
         /\ \/ V <= U
            \/ \E s \in Slot, n \in Tokens : n \in Nat /\ Charges(k, s, n) /\ V <= U + n
<1> DEFINE u == tokenUsage[k]
           v == tokenUsage'[k]
<1>1. /\ u \in Seq(Usage) /\ v \in Seq(Usage) /\ now \in Time /\ now' \in Time
      /\ \A i \in 1..Len(u) : u[i].tokens >= 0
  BY DEF RotatorTypeOK, Positive
<1>2. U \in Int /\ V \in Int
  BY <1>1, PruneTokensLeft, UsedTyped
<1>3. CASE now' \in {now, now + 1} /\ v = u
  <2>1. now <= now'
    BY <1>1, <1>3 DEF Time
  <2> QED BY <1>1, <1>2, <1>3, <2>1, UsedLater
<1>4. CASE Prunes(k)
  <2>1. now' = now /\ v = pruneTokens(now, u)
    BY <1>4 DEF Prunes
  <2>2. V <= U + 0 /\ \A i \in 1..Len(v) : v[i].tokens >= 0
    BY <1>1, <2>1, PrunedOnceMore
  <2> QED BY <1>2, <2>2
<1>5. ASSUME NEW s \in Slot, NEW n \in Tokens, Charges(k, s, n)
      PROVE  n \in Nat /\ V <= U + n /\ \A i \in 1..Len(v) : v[i].tokens >= 0
  <2>1. n \in Nat
    BY <1>5, RotatorAssumption DEF Charges
  <2>2. now' = now /\ v = Append(pruneTokens(now, u), [at |-> now, tokens |-> n])
    BY <1>5 DEF Charges
  <2> QED BY <1>1, <2>1, <2>2, PrunedOnceMore
<1> QED BY <1>2, <1>3, <1>4, <1>5, WindowMoves

(* The inductive step for one limited key.  A key that goes out again was  *)
(* below its limit, and at most all slots are in flight with it; a charge  *)
(* takes the place of the request that brought it; nothing else adds to    *)
(* either side.                                                            *)
LEMMA OvershootStep ==
  ASSUME PathInv, RotatorTypeOK, RotatorTypeOK', Buffered, Positive,
         [GatewayNext]_gatewayVars, NEW k \in Key, TPM[k] > 0, Within(k)
  PROVE  Within(k)'
<1> DEFINE U == Used(pruneTokens(now, tokenUsage[k]))
           V == Used(pruneTokens(now', tokenUsage'[k]))
           m == Max(Tokens)
           F == InFlight(k)
           G == InFlight(k)'
           f == m * Cardinality(F)
           g == m * Cardinality(G)
           c == m * Cardinality(Slot)
<1>1. /\ U \in Int /\ V \in Int
      /\ \/ V <= U
         \/ \E s \in Slot, n \in Tokens : n \in Nat /\ Charges(k, s, n) /\ V <= U + n
  BY WindowSums
<1>2. m \in Nat /\ \A n \in Tokens : n <= m
  BY MostTokens
<1>3. F \in SUBSET Slot /\ G \in SUBSET Slot
  BY DEF InFlight
<1>4. f \in Nat /\ g \in Nat /\ c \in Nat /\ g <= c
  <2> HIDE DEF m, F, G
  <2> QED BY <1>2, <1>3, FewerBringLess
<1>5. TPM[k] \in Int /\ U + f < TPM[k] + c
  BY RotatorAssumption DEF Within, Usages
<1>6. Within(k)' <=> V + g < TPM[k] + c
  BY DEF Within, Usages
<1>7. ASSUME NEW s \in Slot, NEW n \in Tokens, n \in Nat, Charges(k, s, n), V <= U + n
      PROVE  V + g < TPM[k] + c
  <2>1. n <= m
    BY <1>2
  <2>2. s \in F /\ G = F \ {s}
    BY <1>7 DEF Charges, InFlight, PathInv, PathTypeOK
  <2>3. g = f - m
    <3> DEFINE a == Cardinality(F)
    <3>1. IsFiniteSet(F) /\ a \in Nat
      BY <1>3, FewerBringLess
    <3>2. Cardinality(G) = a - 1
      BY <2>2, <3>1, FS_RemoveElement
    <3> HIDE DEF a, m
    <3>3. m * (a - 1) = m * a - m
      BY <1>2, <3>1
    <3> QED BY <3>2, <3>3 DEF a
  <2> HIDE DEF U, V, m, f, g, c
  <2> QED BY <1>1, <1>2, <1>4, <1>5, <2>3
<1>8. CASE V <= U /\ G \subseteq F
  <2>1. g <= f
    <3> HIDE DEF m, F, G
    <3> QED BY <1>2, <1>3, <1>8, FewerBringLess
  <2> HIDE DEF U, V, m, f, g, c
  <2> QED BY <1>1, <1>4, <1>5, <1>6, <1>8, <2>1
<1>9. CASE V <= U /\ ~(G \subseteq F)
  <2>1. healthy(now, k)
    BY <1>9, FlightMoves
  <2>2. U < TPM[k]
    BY <2>1 DEF healthy, Usages
  <2> HIDE DEF U, V, m, f, g, c
  <2> QED BY <1>1, <1>4, <1>5, <1>6, <1>9, <2>2
<1> QED BY <1>1, <1>6, <1>7, <1>8, <1>9

(* TPM, in spite of requests that overlap: in the window of a limited key  *)
(* the recorded tokens, and the most that the requests in flight with it   *)
(* can still bring, exceed TPM by less than what all slots can bring.      *)
THEOREM OvershootBounded == GatewaySpec => []TPMOvershootBounded
<1> DEFINE Inv == Positive /\ \A k \in Key : TPM[k] > 0 => Within(k)
<1>1. GatewayInit => Inv
  <2> SUFFICES ASSUME GatewayInit PROVE Inv
    OBVIOUS
  <2>1. Positive
    BY DEF GatewayInit, New, Positive
  <2>2. ASSUME NEW k \in Key, TPM[k] > 0 PROVE Within(k)
    <3>1. Usages(now, k) \in Seq(Usage) /\ Len(Usages(now, k)) = 0
      <4>1. tokenUsage[k] = <<>> /\ now = 0 /\ now \in Time
        BY DEF GatewayInit, New, Time
      <4>2. tokenUsage[k] \in Seq(Usage) /\ Len(tokenUsage[k]) = 0
        BY <4>1
      <4>3. pruneTokens(now, tokenUsage[k]) \in Seq(Usage)
        BY <4>1, <4>2, PruneTokensLeft
      <4>4. \E d \in 0..Len(tokenUsage[k]) :
              LeftOf(pruneTokens(now, tokenUsage[k]), tokenUsage[k], d)
        BY <4>1, <4>2, PruneTokensLeft
      <4>5. Len(pruneTokens(now, tokenUsage[k])) = 0
        <5> DEFINE l == Len(pruneTokens(now, tokenUsage[k]))
        <5>1. PICK d \in 0..Len(tokenUsage[k]) : l = Len(tokenUsage[k]) - d
          BY <4>4 DEF LeftOf
        <5> HIDE DEF l
        <5>2. d = 0
          BY <4>2
        <5>3. l = 0
          BY <4>2, <5>1, <5>2
        <5> QED BY <5>3 DEF l
      <4> QED BY <2>2, <4>3, <4>5 DEF Usages
    <3>2. Used(Usages(now, k)) = 0
      BY <3>1, UsedTyped
    <3>3. InFlight(k) = {}
      BY DEF GatewayInit, InFlight
    <3> DEFINE f == Max(Tokens) * Cardinality(InFlight(k))
               c == Max(Tokens) * Cardinality(Slot)
    <3>4. f \in Nat /\ c \in Nat /\ f <= c
      BY <3>3, MostTokens, FewerBringLess
    <3>5. TPM[k] \in Int
      BY RotatorAssumption
    <3>6. 0 + f < TPM[k] + c
      <4> HIDE DEF f, c
      <4> QED BY <2>2, <3>4, <3>5
    <3> QED BY <3>2, <3>6 DEF Within
  <2> QED BY <2>1, <2>2
<1>2. PathInv /\ RotatorTypeOK /\ RotatorTypeOK' /\ Buffered /\ Inv
      /\ [GatewayNext]_gatewayVars => Inv'
  <2> SUFFICES ASSUME PathInv, RotatorTypeOK, RotatorTypeOK', Buffered, Inv,
                      [GatewayNext]_gatewayVars
               PROVE  Inv'
    OBVIOUS
  <2>1. Positive'
    BY WindowSums DEF Positive
  <2>2. ASSUME NEW k \in Key, TPM[k] > 0 PROVE Within(k)'
    BY <2>2, OvershootStep
  <2> QED BY <2>1, <2>2
<1>3. Inv => TPMOvershootBounded
  BY DEF Within, TPMOvershootBounded
<1> QED
  BY <1>1, <1>2, <1>3, PathInvariant, AlwaysBuffered, GatewayUsesRotator, RotatorTyped, PTL
  DEF GatewaySpec

----------------------------------------------------------------------------
(* The life of the processes.                                              *)

DaemonTypeOK ==
  /\ path \in Proc \cup {NoFile, Stale} /\ alone \in BOOLEAN
  /\ main \in [Proc -> {"down", "remove", "listenUnix", "chmod", "listenTCP", "select",
                        "shutdown", "deferred", "exit"}]
  /\ socket \in [Proc -> BOOLEAN]
  /\ lis \in [Proc -> [Listener -> BOOLEAN]]
  /\ serve \in [Proc -> [Listener -> {"none", "ready", "serving", "closed", "failed", "sent"}]]
  /\ conns \in [Proc -> Nat]
  /\ exit \in [Proc -> [code : {"none", "failed", "clean", "timeout", "killed"},
                        cut : BOOLEAN]]

\* Nobody serves before Start has its listeners, and there is no Unix listener
\* before listenUnix.
Launching(p) ==
  /\ main[p] \in {"down", "remove", "listenUnix", "chmod", "listenTCP"} =>
       \A l \in Listener : serve[p][l] = "none"
  /\ main[p] \in {"down", "remove", "listenUnix"} => ~lis[p]["unix"]
  /\ main[p] \in {"remove", "listenUnix", "chmod"} => socket[p]

\* A process that has stopped cleanly serves nobody, up to its end.
Stopping(p) ==
  /\ main[p] # "down" => ~exit[p].cut
  /\ exit[p].code = "clean" =>
       /\ ~exit[p].cut
       /\ main[p] \in {"down", "deferred", "exit"}
       /\ main[p] # "down" => conns[p] = 0 /\ Drained(p)

\* The file at the socket path belongs to a process that is yet to run its
\* deferred os.Remove.
Linked(p) ==
  path = p => socket[p] /\ main[p] \in {"chmod", "listenTCP", "select", "shutdown", "deferred"}

\* Where one process runs at a time, the path leads to the one that listens.
Single(p) ==
  alone =>
    /\ \A q \in Proc : main[p] # "down" /\ main[q] # "down" => p = q
    /\ main[p] \in {"chmod", "listenTCP", "select"} /\ lis[p]["unix"] => path = p

DaemonInv ==
  /\ DaemonTypeOK
  /\ \A p \in Proc : Launching(p) /\ Stopping(p) /\ Linked(p) /\ Single(p)

(* In the beginning no process runs.                                       *)
LEMMA DaemonInvInit == DaemonInit => DaemonInv
BY DaemonAssumption DEF DaemonInit, DaemonInv, DaemonTypeOK, Launching, Stopping,
   Linked, Single,
   Down, Idle, Listener

(* What Start is about to return does not change what the processes cut    *)
(* off.                                                                    *)
LEMMA ResultOnly ==
  ASSUME DaemonTypeOK, NEW p \in Proc,
         NEW code \in {"none", "failed", "clean", "timeout", "killed"}, Result(p, code)
  PROVE  /\ exit' \in [Proc -> [code : {"none", "failed", "clean", "timeout", "killed"},
                                cut : BOOLEAN]]
         /\ exit'[p].code = code /\ \A q \in Proc : exit'[q].cut = exit[q].cut
         /\ \A q \in Proc : q # p => exit'[q] = exit[q]
BY DEF DaemonTypeOK, Result

(* Start keeps the invariant up to its select.                             *)
LEMMA BootKeeps ==
  ASSUME DaemonInv, UNCHANGED alone, NEW p \in Proc,
         \/ \E w \in BOOLEAN : Launch(p, w)
         \/ RemoveStale(p)
         \/ ListenUnix(p)
         \/ Chmod(p)
         \/ ListenTCP(p)
  PROVE  DaemonInv'
<1> USE DaemonAssumption DEF DaemonInv, DaemonTypeOK, Listener
<1>1. CASE \E w \in BOOLEAN : Launch(p, w)
  <2>1. DaemonTypeOK'
    BY <1>1 DEF Launch, MainGoto, Unlinked
  <2>2. \A q \in Proc : Launching(q)'
    BY <1>1 DEF Launch, MainGoto, Unlinked, Launching
  <2>3. \A q \in Proc : Stopping(q)'
    BY <1>1 DEF Launch, MainGoto, Unlinked, Launching, Stopping, Drained
  <2>4. \A q \in Proc : Linked(q)'
    BY <1>1 DEF Launch, MainGoto, Unlinked, Launching, Linked
  <2>5. \A q \in Proc : Single(q)'
    BY <1>1 DEF Launch, MainGoto, Unlinked, Launching, Single
  <2> QED BY <2>1, <2>2, <2>3, <2>4, <2>5
<1>2. CASE RemoveStale(p)
  <2>1. DaemonTypeOK'
    BY <1>2, ResultOnly DEF RemoveStale, MainGoto, Unlinked
  <2>2. \A q \in Proc : Launching(q)'
    BY <1>2, ResultOnly DEF RemoveStale, MainGoto, Unlinked, Launching
  <2>3. ASSUME MainGoto(p, "remove", "listenUnix"), Unlinked, UNCHANGED exit
        PROVE  (\A q \in Proc : Stopping(q)') /\ (\A q \in Proc : Linked(q)')
    <3>1. \A q \in Proc : Stopping(q)'
      BY <1>2, <2>3 DEF RemoveStale, MainGoto, Launching, Stopping, Drained
    <3>2. \A q \in Proc : Linked(q)'
      BY <1>2, <2>3 DEF RemoveStale, MainGoto, Unlinked, Launching, Linked
    <3> QED BY <3>1, <3>2
  <2>4. ASSUME MainGoto(p, "remove", "exit"), Result(p, "failed"), UNCHANGED path
        PROVE  (\A q \in Proc : Stopping(q)') /\ (\A q \in Proc : Linked(q)')
    <3>1. \A q \in Proc : Stopping(q)'
      BY <1>2, <2>4, ResultOnly DEF RemoveStale, MainGoto, Launching, Stopping, Drained
    <3>2. \A q \in Proc : Linked(q)'
      BY <1>2, <2>4 DEF RemoveStale, MainGoto, Launching, Linked
    <3> QED BY <3>1, <3>2
  <2>5. (\A q \in Proc : Stopping(q)') /\ (\A q \in Proc : Linked(q)')
    BY <1>2, <2>3, <2>4 DEF RemoveStale
  <2>6. \A q \in Proc : Single(q)'
    BY <1>2, ResultOnly DEF RemoveStale, MainGoto, Unlinked, Launching, Single
  <2> QED BY <2>1, <2>2, <2>5, <2>6
<1>3. CASE ListenUnix(p)
  <2>1. CASE path = NoFile
    <3>0. /\ main[p] = "listenUnix" /\ main' = [main EXCEPT ![p] = "chmod"] /\ path' = p
          /\ lis' = [lis EXCEPT ![p]["unix"] = TRUE]
          /\ UNCHANGED <<serve, socket, conns, exit>>
      BY <1>3, <2>1 DEF ListenUnix, MainGoto
    <3>1. DaemonTypeOK'
      BY <2>1, <3>0
    <3>2. \A q \in Proc : Launching(q)'
      BY <2>1, <3>0 DEF Launching
    <3>3. \A q \in Proc : Stopping(q)'
      BY <2>1, <3>0 DEF Launching, Stopping, Drained
    <3>4. \A q \in Proc : Linked(q)'
      BY <2>1, <3>0 DEF Launching, Linked
    <3>5. \A q \in Proc : Single(q)'
      BY <2>1, <3>0 DEF Launching, Single
    <3> QED BY <3>1, <3>2, <3>3, <3>4, <3>5
  <2>2. CASE path # NoFile
    <3>0. /\ main[p] = "listenUnix" /\ main' = [main EXCEPT ![p] = "exit"]
          /\ UNCHANGED <<path, lis, serve, socket, conns>>
          /\ exit' \in [Proc -> [code : {"none", "failed", "clean", "timeout", "killed"},
                                 cut : BOOLEAN]]
          /\ exit'[p].code = "failed" /\ \A q \in Proc : exit'[q].cut = exit[q].cut
          /\ \A q \in Proc : q # p => exit'[q] = exit[q]
      BY <1>3, <2>2, ResultOnly DEF ListenUnix, MainGoto
    <3>1. DaemonTypeOK'
      BY <2>2, <3>0
    <3>2. \A q \in Proc : Launching(q)'
      BY <2>2, <3>0 DEF Launching
    <3>3. \A q \in Proc : Stopping(q)'
      BY <2>2, <3>0 DEF Launching, Stopping, Drained
    <3>4. \A q \in Proc : Linked(q)'
      BY <2>2, <3>0 DEF Launching, Linked
    <3>5. \A q \in Proc : Single(q)'
      BY <2>2, <3>0 DEF Launching, Single
    <3> QED BY <3>1, <3>2, <3>3, <3>4, <3>5
  <2> QED BY <2>1, <2>2
<1>4. CASE Chmod(p)
  <2>1. CASE path # NoFile
    <3>0. /\ main[p] = "chmod" /\ main' = [main EXCEPT ![p] = "listenTCP"]
          /\ UNCHANGED <<path, lis, serve, socket, conns, exit>>
      BY <1>4, <2>1 DEF Chmod, MainGoto, Unlinked
    <3>1. DaemonTypeOK'
      BY <2>1, <3>0
    <3>2. \A q \in Proc : Launching(q)'
      BY <2>1, <3>0 DEF Launching
    <3>3. \A q \in Proc : Stopping(q)'
      BY <2>1, <3>0 DEF Launching, Stopping, Drained
    <3>4. \A q \in Proc : Linked(q)'
      BY <2>1, <3>0 DEF Launching, Linked
    <3>5. \A q \in Proc : Single(q)'
      BY <2>1, <3>0 DEF Launching, Single
    <3> QED BY <3>1, <3>2, <3>3, <3>4, <3>5
  <2>2. CASE path = NoFile
    <3>0. /\ main[p] = "chmod" /\ main' = [main EXCEPT ![p] = "exit"] /\ path' = NoFile
          /\ lis' = [lis EXCEPT ![p]["unix"] = FALSE] /\ UNCHANGED <<serve, socket, conns>>
          /\ exit' \in [Proc -> [code : {"none", "failed", "clean", "timeout", "killed"},
                                 cut : BOOLEAN]]
          /\ exit'[p].code = "failed" /\ \A q \in Proc : exit'[q].cut = exit[q].cut
          /\ \A q \in Proc : q # p => exit'[q] = exit[q]
      BY <1>4, <2>2, ResultOnly DEF Chmod, MainGoto, Unlinked
    <3>1. DaemonTypeOK'
      BY <2>2, <3>0
    <3>2. \A q \in Proc : Launching(q)'
      BY <2>2, <3>0 DEF Launching
    <3>3. \A q \in Proc : Stopping(q)'
      BY <2>2, <3>0 DEF Launching, Stopping, Drained
    <3>4. \A q \in Proc : Linked(q)'
      BY <2>2, <3>0 DEF Launching, Linked
    <3>5. \A q \in Proc : Single(q)'
      BY <2>2, <3>0 DEF Launching, Single
    <3> QED BY <3>1, <3>2, <3>3, <3>4, <3>5
  <2> QED BY <2>1, <2>2
<1>5. CASE ListenTCP(p)
  <2>1. CASE port = NoProc
    <3>0. /\ main[p] = "listenTCP" /\ main' = [main EXCEPT ![p] = "select"]
          /\ lis' = [lis EXCEPT ![p]["tcp"] = TRUE]
          /\ serve' = [serve EXCEPT ![p] =
                         [l \in Listener |-> IF lis'[p][l] THEN "ready" ELSE "none"]]
          /\ UNCHANGED <<path, socket, conns, exit>>
      BY <1>5, <2>1 DEF ListenTCP, MainGoto
    <3>1. DaemonTypeOK'
      BY <2>1, <3>0
    <3>2. \A q \in Proc : Launching(q)'
      BY <2>1, <3>0 DEF Launching
    <3>3. \A q \in Proc : Stopping(q)'
      BY <2>1, <3>0 DEF Launching, Stopping, Drained
    <3>4. \A q \in Proc : Linked(q)'
      BY <2>1, <3>0 DEF Launching, Linked
    <3>5. \A q \in Proc : Single(q)'
      BY <2>1, <3>0 DEF Launching, Single
    <3> QED BY <3>1, <3>2, <3>3, <3>4, <3>5
  <2>2. CASE port # NoProc
    <3>0. /\ main[p] = "listenTCP" /\ main' = [main EXCEPT ![p] = "deferred"]
          /\ path' = IF lis[p]["unix"] THEN NoFile ELSE path
          /\ lis' = [lis EXCEPT ![p]["unix"] = FALSE] /\ UNCHANGED <<serve, socket, conns>>
          /\ exit' \in [Proc -> [code : {"none", "failed", "clean", "timeout", "killed"},
                                 cut : BOOLEAN]]
          /\ exit'[p].code = "failed" /\ \A q \in Proc : exit'[q].cut = exit[q].cut
          /\ \A q \in Proc : q # p => exit'[q] = exit[q]
      BY <1>5, <2>2, ResultOnly DEF ListenTCP, MainGoto
    <3>1. DaemonTypeOK'
      BY <2>2, <3>0
    <3>2. \A q \in Proc : Launching(q)'
      BY <2>2, <3>0 DEF Launching
    <3>3. \A q \in Proc : Stopping(q)'
      BY <2>2, <3>0 DEF Launching, Stopping, Drained
    <3>4. \A q \in Proc : Linked(q)'
      BY <2>2, <3>0 DEF Launching, Linked
    <3>5. \A q \in Proc : Single(q)'
      BY <2>2, <3>0 DEF Launching, Single
    <3> QED BY <3>1, <3>2, <3>3, <3>4, <3>5
  <2> QED BY <2>1, <2>2
<1> QED BY <1>1, <1>2, <1>3, <1>4, <1>5

(* The goroutines of the listeners and of the connections keep it.         *)
LEMMA ServeKeeps ==
  ASSUME DaemonInv, UNCHANGED alone, NEW p \in Proc,
         \/ \E l \in Listener : StartServe(p, l)
         \/ \E l \in Listener : AcceptFails(p, l)
         \/ \E l \in Listener : SendErr(p, l)
         \/ Request(p)
         \/ Respond(p)
         \/ Signal(p)
  PROVE  DaemonInv'
<1> USE DaemonAssumption DEF DaemonInv, DaemonTypeOK, Listener
<1>1. CASE \E l \in Listener : StartServe(p, l)
  <2>1. PICK l \in Listener : StartServe(p, l)
    BY <1>1
  <2>2. CASE ~ShuttingDown(p)
    <3>0. /\ serve[p][l] = "ready" /\ serve' = [serve EXCEPT ![p][l] = "serving"]
          /\ exit[p].code = "clean" => main[p] \notin {"deferred", "exit"}
          /\ UNCHANGED <<path, main, socket, lis, conns, exit>>
      BY <2>1, <2>2 DEF StartServe, Closes, ShuttingDown
    <3>1. DaemonTypeOK'
      BY <2>2, <3>0
    <3>2. \A q \in Proc : Launching(q)'
      BY <2>2, <3>0 DEF Launching
    <3>3. \A q \in Proc : Stopping(q)'
      BY <2>2, <3>0 DEF Launching, Stopping, Drained
    <3>4. \A q \in Proc : Linked(q)'
      BY <2>2, <3>0 DEF Launching, Linked
    <3>5. \A q \in Proc : Single(q)'
      BY <2>2, <3>0 DEF Launching, Single
    <3> QED BY <3>1, <3>2, <3>3, <3>4, <3>5
  <2>3. CASE ShuttingDown(p)
    <3>0. /\ serve[p][l] = "ready" /\ serve' = [serve EXCEPT ![p][l] = "closed"]
          /\ lis' = [lis EXCEPT ![p][l] = FALSE]
          /\ path' = IF l = "unix" /\ lis[p][l] THEN NoFile ELSE path
          /\ UNCHANGED <<main, socket, conns, exit>>
      BY <2>1, <2>3 DEF StartServe, Closes, ShuttingDown
    <3>1. DaemonTypeOK'
      BY <2>3, <3>0
    <3>2. \A q \in Proc : Launching(q)'
      BY <2>3, <3>0 DEF Launching
    <3>3. \A q \in Proc : Stopping(q)'
      BY <2>3, <3>0 DEF Launching, Stopping, Drained
    <3>4. \A q \in Proc : Linked(q)'
      BY <2>3, <3>0 DEF Launching, Linked
    <3>5. \A q \in Proc : Single(q)'
      BY <2>3, <3>0 DEF Launching, Single
    <3> QED BY <3>1, <3>2, <3>3, <3>4, <3>5
  <2> QED BY <2>2, <2>3
<1>2. CASE \E l \in Listener : AcceptFails(p, l)
  <2>1. DaemonTypeOK'
    BY <1>2 DEF AcceptFails, MainGoto, Unlinked, Closes
  <2>2. \A q \in Proc : Launching(q)'
    BY <1>2 DEF AcceptFails, MainGoto, Unlinked, Closes, Launching
  <2>3. \A q \in Proc : Stopping(q)'
    BY <1>2 DEF AcceptFails, MainGoto, Unlinked, Closes, Launching, Stopping, Drained
  <2>4. \A q \in Proc : Linked(q)'
    BY <1>2 DEF AcceptFails, MainGoto, Unlinked, Closes, Launching, Linked
  <2>5. \A q \in Proc : Single(q)'
    BY <1>2 DEF AcceptFails, MainGoto, Unlinked, Closes, Launching, Single
  <2> QED BY <2>1, <2>2, <2>3, <2>4, <2>5
<1>3. CASE \E l \in Listener : SendErr(p, l)
  <2>1. DaemonTypeOK'
    BY <1>3 DEF SendErr, MainGoto, Unlinked
  <2>2. \A q \in Proc : Launching(q)'
    BY <1>3 DEF SendErr, MainGoto, Unlinked, Launching
  <2>3. \A q \in Proc : Stopping(q)'
    BY <1>3 DEF SendErr, MainGoto, Unlinked, Launching, Stopping, Drained
  <2>4. \A q \in Proc : Linked(q)'
    BY <1>3 DEF SendErr, MainGoto, Unlinked, Launching, Linked
  <2>5. \A q \in Proc : Single(q)'
    BY <1>3 DEF SendErr, MainGoto, Unlinked, Launching, Single
  <2> QED BY <2>1, <2>2, <2>3, <2>4, <2>5
<1>4. CASE Request(p)
  <2>1. DaemonTypeOK'
    BY <1>4 DEF Request, MainGoto, Unlinked
  <2>2. \A q \in Proc : Launching(q)'
    BY <1>4 DEF Request, MainGoto, Unlinked, Launching
  <2>3. \A q \in Proc : Stopping(q)'
    BY <1>4 DEF Request, MainGoto, Unlinked, Launching, Stopping, Drained
  <2>4. \A q \in Proc : Linked(q)'
    BY <1>4 DEF Request, MainGoto, Unlinked, Launching, Linked
  <2>5. \A q \in Proc : Single(q)'
    BY <1>4 DEF Request, MainGoto, Unlinked, Launching, Single
  <2> QED BY <2>1, <2>2, <2>3, <2>4, <2>5
<1>5. CASE Respond(p)
  <2>1. DaemonTypeOK'
    BY <1>5 DEF Respond, MainGoto, Unlinked
  <2>2. \A q \in Proc : Launching(q)'
    BY <1>5 DEF Respond, MainGoto, Unlinked, Launching
  <2>3. \A q \in Proc : Stopping(q)'
    BY <1>5 DEF Respond, MainGoto, Unlinked, Launching, Stopping, Drained
  <2>4. \A q \in Proc : Linked(q)'
    BY <1>5 DEF Respond, MainGoto, Unlinked, Launching, Linked
  <2>5. \A q \in Proc : Single(q)'
    BY <1>5 DEF Respond, MainGoto, Unlinked, Launching, Single
  <2> QED BY <2>1, <2>2, <2>3, <2>4, <2>5
<1>6. CASE Signal(p)
  <2>1. DaemonTypeOK'
    BY <1>6 DEF Signal, MainGoto, Unlinked
  <2>2. \A q \in Proc : Launching(q)'
    BY <1>6 DEF Signal, MainGoto, Unlinked, Launching
  <2>3. \A q \in Proc : Stopping(q)'
    BY <1>6 DEF Signal, MainGoto, Unlinked, Launching, Stopping, Drained
  <2>4. \A q \in Proc : Linked(q)'
    BY <1>6 DEF Signal, MainGoto, Unlinked, Launching, Linked
  <2>5. \A q \in Proc : Single(q)'
    BY <1>6 DEF Signal, MainGoto, Unlinked, Launching, Single
  <2> QED BY <2>1, <2>2, <2>3, <2>4, <2>5
<1> QED BY <1>1, <1>2, <1>3, <1>4, <1>5, <1>6

(* So does Start from its select to the end of the process.                *)
LEMMA StopKeeps ==
  ASSUME DaemonInv, UNCHANGED alone, NEW p \in Proc,
         \/ ServeFailed(p)
         \/ SelectDone(p)
         \/ ShutdownDone(p)
         \/ ShutdownTimeout(p)
         \/ Deferred(p)
         \/ Exit(p)
         \/ Kill(p)
  PROVE  DaemonInv'
<1> USE DaemonAssumption DEF DaemonInv, DaemonTypeOK, Listener
<1>1. CASE ServeFailed(p)
  <2>1. DaemonTypeOK'
    BY <1>1, ResultOnly DEF ServeFailed, MainGoto, Unlinked
  <2>2. \A q \in Proc : Launching(q)'
    BY <1>1, ResultOnly DEF ServeFailed, MainGoto, Unlinked, Launching
  <2>3. \A q \in Proc : Stopping(q)'
    BY <1>1, ResultOnly DEF ServeFailed, MainGoto, Unlinked, Launching, Stopping,
       Drained
  <2>4. \A q \in Proc : Linked(q)'
    BY <1>1, ResultOnly DEF ServeFailed, MainGoto, Unlinked, Launching, Linked
  <2>5. \A q \in Proc : Single(q)'
    BY <1>1, ResultOnly DEF ServeFailed, MainGoto, Unlinked, Launching, Single
  <2> QED BY <2>1, <2>2, <2>3, <2>4, <2>5
<1>2. CASE SelectDone(p)
  <2>1. DaemonTypeOK'
    BY <1>2 DEF SelectDone, MainGoto, Unlinked
  <2>2. \A q \in Proc : Launching(q)'
    BY <1>2 DEF SelectDone, MainGoto, Unlinked, Launching
  <2>3. \A q \in Proc : Stopping(q)'
    BY <1>2 DEF SelectDone, MainGoto, Unlinked, Launching, Stopping, Drained
  <2>4. \A q \in Proc : Linked(q)'
    BY <1>2 DEF SelectDone, MainGoto, Unlinked, Launching, Linked
  <2>5. \A q \in Proc : Single(q)'
    BY <1>2 DEF SelectDone, MainGoto, Unlinked, Launching, Single
  <2> QED BY <2>1, <2>2, <2>3, <2>4, <2>5
<1>3. CASE ShutdownDone(p)
  <2>1. DaemonTypeOK'
    BY <1>3, ResultOnly DEF ShutdownDone, MainGoto, Unlinked
  <2>2. \A q \in Proc : Launching(q)'
    BY <1>3, ResultOnly DEF ShutdownDone, MainGoto, Unlinked, Launching
  <2>3. \A q \in Proc : Stopping(q)'
    BY <1>3, ResultOnly DEF ShutdownDone, MainGoto, Unlinked, Launching, Stopping,
       Drained
  <2>4. \A q \in Proc : Linked(q)'
    BY <1>3, ResultOnly DEF ShutdownDone, MainGoto, Unlinked, Launching, Linked
  <2>5. \A q \in Proc : Single(q)'
    BY <1>3, ResultOnly DEF ShutdownDone, MainGoto, Unlinked, Launching, Single
  <2> QED BY <2>1, <2>2, <2>3, <2>4, <2>5
<1>4. CASE ShutdownTimeout(p)
  <2>1. DaemonTypeOK'
    BY <1>4, ResultOnly DEF ShutdownTimeout, MainGoto, Unlinked
  <2>2. \A q \in Proc : Launching(q)'
    BY <1>4, ResultOnly DEF ShutdownTimeout, MainGoto, Unlinked, Launching
  <2>3. \A q \in Proc : Stopping(q)'
    BY <1>4, ResultOnly DEF ShutdownTimeout, MainGoto, Unlinked, Launching, Stopping,
       Drained
  <2>4. \A q \in Proc : Linked(q)'
    BY <1>4, ResultOnly DEF ShutdownTimeout, MainGoto, Unlinked, Launching, Linked
  <2>5. \A q \in Proc : Single(q)'
    BY <1>4, ResultOnly DEF ShutdownTimeout, MainGoto, Unlinked, Launching, Single
  <2> QED BY <2>1, <2>2, <2>3, <2>4, <2>5
<1>5. CASE Deferred(p)
  <2>1. DaemonTypeOK'
    BY <1>5 DEF Deferred, MainGoto, Unlinked
  <2>2. \A q \in Proc : Launching(q)'
    BY <1>5 DEF Deferred, MainGoto, Unlinked, Launching
  <2>3. \A q \in Proc : Stopping(q)'
    BY <1>5 DEF Deferred, MainGoto, Unlinked, Launching, Stopping, Drained
  <2>4. \A q \in Proc : Linked(q)'
    BY <1>5 DEF Deferred, MainGoto, Unlinked, Launching, Linked
  <2>5. \A q \in Proc : Single(q)'
    BY <1>5 DEF Deferred, MainGoto, Unlinked, Launching, Single
  <2> QED BY <2>1, <2>2, <2>3, <2>4, <2>5
<1>6. CASE Exit(p)
  <2>1. DaemonTypeOK'
    BY <1>6 DEF Exit, MainGoto, Unlinked, Gone, Down, Idle
  <2>2. \A q \in Proc : Launching(q)'
    BY <1>6 DEF Exit, MainGoto, Unlinked, Gone, Down, Idle, Launching
  <2>3. \A q \in Proc : Stopping(q)'
    BY <1>6 DEF Exit, MainGoto, Unlinked, Gone, Down, Idle, Launching, Stopping, Drained
  <2>4. \A q \in Proc : Linked(q)'
    BY <1>6 DEF Exit, MainGoto, Unlinked, Gone, Down, Idle, Launching, Linked
  <2>5. \A q \in Proc : Single(q)'
    BY <1>6 DEF Exit, MainGoto, Unlinked, Gone, Down, Idle, Launching, Single
  <2> QED BY <2>1, <2>2, <2>3, <2>4, <2>5
<1>7. CASE Kill(p)
  <2>1. DaemonTypeOK'
    BY <1>7 DEF Kill, MainGoto, Unlinked, Gone, Down, Idle
  <2>2. \A q \in Proc : Launching(q)'
    BY <1>7 DEF Kill, MainGoto, Unlinked, Gone, Down, Idle, Launching
  <2>3. \A q \in Proc : Stopping(q)'
    BY <1>7 DEF Kill, MainGoto, Unlinked, Gone, Down, Idle, Launching, Stopping, Drained
  <2>4. \A q \in Proc : Linked(q)'
    BY <1>7 DEF Kill, MainGoto, Unlinked, Gone, Down, Idle, Launching, Linked
  <2>5. \A q \in Proc : Single(q)'
    BY <1>7 DEF Kill, MainGoto, Unlinked, Gone, Down, Idle, Launching, Single
  <2> QED BY <2>1, <2>2, <2>3, <2>4, <2>5
<1> QED BY <1>1, <1>2, <1>3, <1>4, <1>5, <1>6, <1>7

(* The invariant of the processes holds always.                            *)
THEOREM DaemonInvariant == DaemonSpec => []DaemonInv
<1>1. DaemonInv /\ [DaemonNext]_daemonVars => DaemonInv'
  <2>1. CASE UNCHANGED daemonVars
    BY <2>1 DEF daemonVars, DaemonInv, DaemonTypeOK, Launching, Stopping, Drained,
       Linked, Single
  <2>2. CASE DaemonNext
    BY <2>2, BootKeeps, ServeKeeps, StopKeeps DEF DaemonNext, MainStep, ServeStep
  <2> QED BY <2>1, <2>2
<1> QED BY <1>1, DaemonInvInit, PTL DEF DaemonSpec

(* "NerveGate daemon stopped cleanly" is only said by a process that has   *)
(* answered every request it had accepted, for any number of processes and *)
(* of open requests.                                                       *)
THEOREM CleanStops == DaemonSpec => []CleanStopCutsNothing
<1>1. DaemonInv => CleanStopCutsNothing
  BY DEF DaemonInv, Stopping, CleanStopCutsNothing
<1> QED BY <1>1, DaemonInvariant, PTL

(* The socket path leads to the process that listens on it, where only one *)
(* runs at a time, and a process that ends by itself leaves no file.       *)
THEOREM SocketFollows == DaemonSpec => []SocketFollowsDaemon
<1>1. DaemonInv => SocketFollowsDaemon
  BY DEF DaemonInv, Single, Linked, SocketFollowsDaemon
<1> QED BY <1>1, DaemonInvariant, PTL
=============================================================================
