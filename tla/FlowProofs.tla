----------------------------- MODULE FlowProofs -----------------------------
(***************************************************************************)
(* Proofs about Retries, Fallbacks and Plugins, for every set of keys,     *)
(* every budget of retries and every list of fallbacks and plugins: the    *)
(* loop of executeRequestWithRetries spares the keys that were refused,    *)
(* tells its rotations and shares out the rate limits, a fallback starts   *)
(* without what the providers before it left behind and in its turn, and   *)
(* the hooks of a request nest and log for themselves.                     *)
(***************************************************************************)
EXTENDS Fallbacks, Plugins, TLAPS, FiniteSetTheorems, SequenceTheorems

Attempt == [key : Key, why : Answer \cup {"none"}, rotated : BOOLEAN, waited : BOOLEAN]

RetryTypeOK ==
  /\ rpc \in {"idle", "select", "call", "done"} /\ mode \in {"none", "fixed", "rotating"}
  /\ pool \subseteq Key /\ filtering \in BOOLEAN
  /\ retries \in Nat /\ attempts \in Nat /\ extra \in Nat
  /\ key \in Key \cup {NoKey} /\ selected \in Key \cup {NoKey}
  /\ used \subseteq Key /\ dead \subseteq Key
  /\ last \in Answer \cup {"none", "stripped"} /\ stripped \in BOOLEAN /\ encrypted \in BOOLEAN
  /\ pending \in Nat /\ trail \in Seq(Attempt)
  /\ outcome \in Answer \cup {"none", "exhausted", "filtered"}

\* What the last record tells of an attempt that ended so.
Reason(l) == IF l = "stripped" THEN "rejected" ELSE l

(* Where the loop stands in its trail.                                     *)
Position ==
  /\ mode = "none" => trail = <<>>
  /\ rpc \in {"select", "call"} /\ mode # "none" =>
       Len(trail) = attempts + (IF rpc = "call" THEN 1 ELSE 0)
  /\ rpc = "call" /\ mode # "none" =>
       trail[Len(trail)].why = "none" /\ trail[Len(trail)].key = key
         /\ key \in pool \ dead /\ pending = 0
  /\ rpc = "select" /\ mode # "none" /\ attempts = 0 => pending = 0
  /\ rpc = "select" /\ mode # "none" /\ attempts > 0 =>
       /\ trail[Len(trail)].why = Reason(last) /\ trail[Len(trail)].key = key /\ key \in pool
       /\ last # "denied" => key \notin dead
       /\ pending = IF last \in PerKey THEN Len(trail) ELSE 0

(* The records name keys of the pool, and the dead ones are those that     *)
(* were denied.                                                            *)
Recorded ==
  \A i \in DOMAIN trail :
    trail[i].key \in pool /\ (trail[i].why = "denied" => trail[i].key \in dead)

(* A round of rate limits: every live key was limited equally often, those *)
(* used in this round once more.                                           *)
Round ==
  mode = "rotating" /\ ~filtering =>
    /\ \E r \in Nat : \A k \in Live : Limits(k) = r + (IF k \in used THEN 1 ELSE 0)
    /\ rpc = "call" \/ (rpc = "select" /\ attempts > 0 /\ last \notin PerKey) => key \notin used

LoopInv ==
  /\ RetryTypeOK /\ Position /\ Recorded
  /\ KeysSpared /\ TrailTellsRotations /\ Round

Provider == Configured \cup {Primary}

FlowTypeOK ==
  /\ stage \in {"start", "try", "worker", "decide", "skip", "done"} /\ type \in Type
  /\ index \in 0..Len(Fallback) /\ at \in Provider
  /\ pin \in KeysOf[Primary] \cup {NoKey} /\ session \in BOOLEAN /\ whole \in BOOLEAN
  /\ direct \in DirectKeys \cup {NoKey} /\ skip \in BOOLEAN
  /\ ctxDone \in BOOLEAN /\ gone \in BOOLEAN
  /\ end \in {"none", "ok", "error", "final", "cancelled"}
  /\ tries \in Seq([at : Provider, end : {"none", "ok", "error", "final", "cancelled"},
                    served : BOOLEAN])
  /\ result \in Nat

(* The worker of the try runs only while the caller waits, unless it left; *)
(* between tries nothing of the loop is left but the selected key.         *)
Stages ==
  /\ rpc = "idle" => mode = "none" /\ outcome = "none" /\ trail = <<>> /\ pool = {}
  /\ stage \in {"start", "try", "skip"} => rpc = "idle"
  /\ stage = "worker" => rpc # "idle"
  /\ ~gone /\ stage \in {"decide", "done"} => rpc \in {"idle", "done"}
  /\ gone => stage = "done" \/ (stage = "decide" /\ Halts(end))

Narrowed ==
  /\ index = 0 => at = Primary
  /\ index > 0 => pin = NoKey
  /\ pool \subseteq KeysFor(at)
  /\ stage = "worker" /\ index > 0 => pool = KeysFor(at)

\* A key of a provider whose worker had an answer, or none.
Served(k) == k = NoKey \/ \E i \in DOMAIN tries : tries[i].served /\ k \in KeysFor(tries[i].at)

KeyTold ==
  /\ Served(selected) \/ (mode # "none" /\ selected \in KeysFor(at))
  /\ rpc = "done" /\ outcome # "ok" => Served(selected)
  /\ stage = "done" /\ ~gone => Served(selected)

(* The tries so far, and how many of them there are for the fallback that  *)
(* is being tried or passed over.                                          *)
Ordered ==
  /\ \A i \in DOMAIN tries :
       /\ i = 1 => tries[i].at = Primary
       /\ i > 1 => \E j \in DOMAIN Fallback :
            /\ Fallback[j] \in Configured /\ Known(j) = i - 1
            /\ tries[i].at = IF type = "chat" THEN Fallback[j] ELSE Primary
       /\ i < Len(tries) \/ stage # "done" => tries[i].end = "error"
  /\ stage = "start" => index = 0
  /\ stage \in {"start", "try", "worker", "decide"} =>
       /\ index = 0 => tries = <<>> /\ at = Primary
       /\ index > 0 => /\ Fallback[index] \in Configured /\ Len(tries) = Known(index)
                       /\ at = IF type = "chat" THEN Fallback[index] ELSE Primary
  /\ stage = "skip" => index > 0 /\ Len(tries) = Known(index) + 1
  /\ stage = "decide" => end # "none"
  /\ stage = "done" /\ tries # <<>> =>
       IF tries[Len(tries)].end = "error"
       THEN result = 1 /\ Len(tries) = Known(Len(Fallback)) + 1
       ELSE result = Len(tries)

FlowInv == LoopInv /\ FlowTypeOK /\ Stages /\ Narrowed /\ KeyTold

----------------------------------------------------------------------------
(* The trail.                                                              *)

\* Extend keeps every record but for the confirmed rotation, and adds one.
LEMMA ExtendEffect ==
  ASSUME RetryTypeOK, NEW k \in Key
  PROVE  /\ Extend(k) \in Seq(Attempt)
         /\ Len(Extend(k)) = Len(trail) + 1
         /\ DOMAIN Extend(k) = 1..(Len(trail) + 1)
         /\ \A i \in DOMAIN trail :
              /\ Extend(k)[i].key = trail[i].key /\ Extend(k)[i].why = trail[i].why
              /\ Extend(k)[i].waited = trail[i].waited
              /\ Extend(k)[i].rotated = (trail[i].rotated \/ (i = pending /\ trail[i].key # k))
         /\ Extend(k)[Len(trail) + 1] =
              [key |-> k, why |-> "none", rotated |-> FALSE, waited |-> Waits(k)]
<1> DEFINE told == [i \in DOMAIN trail |->
                 IF i = pending /\ trail[i].key # k THEN [trail[i] EXCEPT !.rotated = TRUE]
                                                    ELSE trail[i]]
           new == [key |-> k, why |-> "none", rotated |-> FALSE, waited |-> Waits(k)]
<1>1. trail \in Seq(Attempt) /\ DOMAIN trail = 1..Len(trail) /\ Len(trail) \in Nat
  BY DEF RetryTypeOK
<1>2. \A i \in DOMAIN trail : trail[i] \in Attempt
  BY <1>1
<1>3. \A i \in DOMAIN trail : trail[i].key \in Key /\ trail[i].rotated \in BOOLEAN
  BY <1>2 DEF Attempt
<1>4. \A i \in DOMAIN trail : [trail[i] EXCEPT !.rotated = TRUE] \in Attempt
  BY <1>2 DEF Attempt
<1>5. told \in [1..Len(trail) -> Attempt]
  BY <1>1, <1>2, <1>4
<1>6. told \in Seq(Attempt) /\ Len(told) = Len(trail)
  <2>1. told \in Seq(Attempt)
    BY <1>1, <1>5
  <2>2. DOMAIN told = 1..Len(trail)
    BY <1>1
  <2> QED BY <1>1, <2>1, <2>2
<1>7. Waits(k) \in BOOLEAN
  BY DEF Waits
<1>8. new \in Attempt
  BY <1>7 DEF Attempt
<1>9. Extend(k) = Append(told, new)
  BY DEF Extend
<1>10. \A i \in DOMAIN trail :
         /\ told[i].key = trail[i].key /\ told[i].why = trail[i].why
         /\ told[i].waited = trail[i].waited
         /\ told[i].rotated = (trail[i].rotated \/ (i = pending /\ trail[i].key # k))
  <2> SUFFICES ASSUME NEW i \in DOMAIN trail
               PROVE  /\ told[i].key = trail[i].key /\ told[i].why = trail[i].why
                      /\ told[i].waited = trail[i].waited
                      /\ told[i].rotated = (trail[i].rotated \/ (i = pending /\ trail[i].key # k))
    OBVIOUS
  <2>1. trail[i] \in Attempt
    BY <1>2
  <2>2. CASE i = pending /\ trail[i].key # k
    <3>1. told[i] = [trail[i] EXCEPT !.rotated = TRUE]
      BY <2>2
    <3> QED BY <2>1, <2>2, <3>1 DEF Attempt
  <2>3. CASE ~(i = pending /\ trail[i].key # k)
    <3>1. told[i] = trail[i]
      BY <2>3
    <3>2. trail[i].rotated \in BOOLEAN
      BY <1>3
    <3> QED BY <2>3, <3>1, <3>2
  <2> QED BY <2>2, <2>3
<1> HIDE DEF told, new
<1>11. /\ Append(told, new) \in Seq(Attempt) /\ Len(Append(told, new)) = Len(trail) + 1
       /\ \A i \in 1..Len(trail) : Append(told, new)[i] = told[i]
       /\ Append(told, new)[Len(trail) + 1] = new
  BY <1>1, <1>6, <1>8
<1>12. DOMAIN Append(told, new) = 1..(Len(trail) + 1)
  BY <1>11
<1>13. \A i \in DOMAIN trail : Extend(k)[i] = told[i]
  BY <1>1, <1>9, <1>11
<1>14. Extend(k)[Len(trail) + 1] = [key |-> k, why |-> "none", rotated |-> FALSE, waited |-> Waits(k)]
  BY <1>9, <1>11 DEF new
<1>15. \A i \in DOMAIN trail :
              /\ Extend(k)[i].key = trail[i].key /\ Extend(k)[i].why = trail[i].why
              /\ Extend(k)[i].waited = trail[i].waited
              /\ Extend(k)[i].rotated = (trail[i].rotated \/ (i = pending /\ trail[i].key # k))
  BY <1>10, <1>13
<1> QED BY <1>9, <1>11, <1>12, <1>14, <1>15

\* Explained gives the last record its reason and leaves the rest alone.
LEMMA ExplainEffect ==
  ASSUME RetryTypeOK, NEW a \in Answer
  PROVE  /\ Explained(a) \in Seq(Attempt)
         /\ Len(Explained(a)) = Len(trail) /\ DOMAIN Explained(a) = DOMAIN trail
         /\ \A i \in DOMAIN trail :
              /\ Explained(a)[i].key = trail[i].key
              /\ Explained(a)[i].why = (IF i = Len(trail) THEN a ELSE trail[i].why)
              /\ Explained(a)[i].waited = trail[i].waited
              /\ Explained(a)[i].rotated = trail[i].rotated
<1>1. trail \in Seq(Attempt) /\ DOMAIN trail = 1..Len(trail) /\ Len(trail) \in Nat
  BY DEF RetryTypeOK
<1>2. \A i \in DOMAIN trail : trail[i] \in Attempt
  BY <1>1
<1>3. CASE trail = <<>>
  <2>1. Explained(a) = trail /\ DOMAIN trail = {}
    BY <1>3 DEF Explained
  <2> QED BY <1>1, <2>1
<1>4. CASE trail # <<>>
  <2>1. Explained(a) = [trail EXCEPT ![Len(trail)].why = a]
    BY <1>4 DEF Explained
  <2>2. Len(trail) \in DOMAIN trail
    BY <1>1, <1>4
  <2>3. [trail[Len(trail)] EXCEPT !.why = a] \in Attempt
    BY <1>2, <2>2 DEF Attempt
  <2>4. DOMAIN Explained(a) = DOMAIN trail
    BY <2>1
  <2>5. Explained(a)[Len(trail)] = [trail[Len(trail)] EXCEPT !.why = a]
    BY <2>1, <2>2
  <2>6. \A i \in DOMAIN trail : i # Len(trail) => Explained(a)[i] = trail[i]
    BY <2>1
  <2>7. \A i \in DOMAIN trail : Explained(a)[i] \in Attempt
    BY <1>2, <2>3, <2>5, <2>6
  <2>8. Explained(a) \in [1..Len(trail) -> Attempt]
    <3>1. Explained(a) = [i \in 1..Len(trail) |-> Explained(a)[i]]
      BY <1>1, <2>1, <2>4
    <3> QED BY <1>1, <2>7, <3>1
  <2>9. Explained(a) \in Seq(Attempt) /\ Len(Explained(a)) = Len(trail)
    <3>1. Explained(a) \in Seq(Attempt)
      BY <1>1, <2>8
    <3> QED BY <1>1, <2>4, <3>1
  <2>10. /\ Explained(a)[Len(trail)].key = trail[Len(trail)].key
         /\ Explained(a)[Len(trail)].why = a
         /\ Explained(a)[Len(trail)].waited = trail[Len(trail)].waited
         /\ Explained(a)[Len(trail)].rotated = trail[Len(trail)].rotated
    BY <1>2, <2>2, <2>5 DEF Attempt
  <2> QED BY <2>4, <2>6, <2>9, <2>10
<1> QED BY <1>3, <1>4

\* The rate limits of a key are counted over finitely many records.
LEMMA LimitsType ==
  ASSUME RetryTypeOK, NEW k
  PROVE  /\ IsFiniteSet({i \in DOMAIN trail : trail[i].key = k /\ trail[i].why = "limited"})
         /\ Limits(k) \in Nat
<1>1. DOMAIN trail = 1..Len(trail) /\ Len(trail) \in Nat
  BY DEF RetryTypeOK
<1>2. IsFiniteSet(DOMAIN trail)
  BY <1>1, FS_Interval
<1>3. IsFiniteSet({i \in DOMAIN trail : trail[i].key = k /\ trail[i].why = "limited"})
  BY <1>2, FS_Subset
<1> QED BY <1>3, FS_CardinalityType DEF Limits

(* An attempt with a key that is not dead, another one only where the loop *)
(* asks for a key again, keeps what the trail tells.                       *)
LEMMA ExtendStep ==
  ASSUME LoopInv, rpc = "select", mode # "none", NEW k \in pool \ dead,
         Reselect \/ k = key,
         trail' = Extend(k), pool' = pool, dead' = dead
  PROVE  /\ trail' \in Seq(Attempt) /\ Len(trail') = Len(trail) + 1
         /\ trail'[Len(trail) + 1].key = k /\ trail'[Len(trail) + 1].why = "none"
         /\ Recorded' /\ KeysSpared' /\ TrailTellsRotations'
         /\ \A l : Limits(l)' = Limits(l)
<1> DEFINE n == Len(trail)
<1>1. RetryTypeOK /\ Position /\ Recorded /\ KeysSpared /\ TrailTellsRotations
  BY DEF LoopInv
<1>2. DOMAIN trail = 1..n /\ n \in Nat /\ pool \subseteq Key /\ attempts \in Nat
  BY <1>1 DEF RetryTypeOK
<1>3. k \in Key
  BY <1>2
<1>4. /\ trail' \in Seq(Attempt)
      /\ Len(trail') = n + 1
      /\ DOMAIN trail' = 1..(n + 1)
      /\ \A i \in 1..n :
           /\ trail'[i].key = trail[i].key /\ trail'[i].why = trail[i].why
           /\ trail'[i].waited = trail[i].waited
           /\ trail'[i].rotated = (trail[i].rotated \/ (i = pending /\ trail[i].key # k))
      /\ trail'[n + 1] = [key |-> k, why |-> "none", rotated |-> FALSE, waited |-> Waits(k)]
  BY <1>1, <1>2, <1>3, ExtendEffect
<1>5. /\ trail'[n + 1].key = k /\ trail'[n + 1].why = "none"
      /\ trail'[n + 1].rotated = FALSE /\ trail'[n + 1].waited = Waits(k)
  BY <1>4
<1>6. /\ n = attempts
      /\ attempts > 0 => /\ trail[n].why = Reason(last) /\ trail[n].key = key
                         /\ pending = IF last \in PerKey THEN n ELSE 0
      /\ attempts = 0 => pending = 0
  BY <1>1, <1>2 DEF Position
<1> HIDE DEF n
<1>7. \A i \in DOMAIN trail' : i \in 1..n \/ i = n + 1
  BY <1>2, <1>4
<1>8. Recorded'
  <2>1. \A i \in 1..n : trail[i].key \in pool /\ (trail[i].why = "denied" => trail[i].key \in dead)
    BY <1>1, <1>2 DEF Recorded
  <2>2. \A i \in 1..n : trail'[i].key \in pool /\ (trail'[i].why = "denied" => trail'[i].key \in dead)
    BY <1>4, <2>1
  <2> QED BY <1>5, <1>7, <2>2 DEF Recorded
<1>9. KeysSpared'
  <2>1. /\ \A i, j \in 1..n : i < j /\ trail[i].why = "denied" => trail[i].key # trail[j].key
        /\ \A i \in 1..n : i > 1 /\ trail[i].key = trail[i - 1].key =>
             trail[i].waited \/ trail[i - 1].why = "rejected"
        /\ \A i \in 1..n : trail[i].why = "denied" => trail[i].key # k
    BY <1>1, <1>2 DEF KeysSpared, Recorded
  <2>2. ASSUME NEW i \in 1..(n + 1), NEW j \in 1..(n + 1), i < j, trail'[i].why = "denied"
        PROVE  trail'[i].key # trail'[j].key
    <3>1. i \in 1..n
      BY <1>2, <2>2
    <3>2. CASE j \in 1..n
      BY <1>4, <2>1, <2>2, <3>1, <3>2
    <3>3. CASE j = n + 1
      BY <1>4, <1>5, <2>1, <2>2, <3>1, <3>3
    <3> QED BY <1>2, <3>2, <3>3
  <2>3. ASSUME NEW i \in 1..(n + 1), i > 1, trail'[i].key = trail'[i - 1].key
        PROVE  trail'[i].waited \/ trail'[i - 1].why = "rejected"
    <3>1. i - 1 \in 1..n
      BY <1>2, <2>3
    <3>2. CASE i \in 1..n
      BY <1>4, <2>1, <2>3, <3>1, <3>2
    <3>3. CASE i = n + 1
      <4>1. n > 0 /\ n \in 1..n /\ i - 1 = n
        BY <1>2, <2>3, <3>3
      <4>2. trail[n].key = k /\ trail[n].key = key /\ trail'[n].why = Reason(last)
        BY <1>4, <1>5, <1>6, <2>3, <3>3, <4>1
      <4>3. last # "stripped" => Waits(k)
        BY <1>6, <4>1, <4>2 DEF Waits
      <4> QED BY <1>5, <3>3, <4>1, <4>2, <4>3 DEF Reason
    <3> QED BY <1>2, <3>2, <3>3
  <2> QED BY <1>4, <2>2, <2>3 DEF KeysSpared
<1>10. TrailTellsRotations'
  <2>1. \A i \in 1..n : trail[i].rotated <=> (i < n /\ trail[i].key # trail[i + 1].key)
    BY <1>1, <1>2 DEF TrailTellsRotations, n
  <2>2. n > 0 => (trail[n].key # k => pending = n)
    BY <1>2, <1>6 DEF Reselect
  <2>3. pending = 0 \/ pending = n
    BY <1>6, <1>2
  <2>4. ASSUME NEW i \in 1..(n + 1)
        PROVE  trail'[i].rotated <=> (i < n + 1 /\ trail'[i].key # trail'[i + 1].key)
    <3>1. CASE i < n
      <4>1. i \in 1..n /\ i + 1 \in 1..n /\ i # pending
        BY <1>2, <2>3, <3>1
      <4>2. trail'[i].rotated = trail[i].rotated
        <5>1. trail[i] \in Attempt
          BY <1>1, <1>2, <4>1 DEF RetryTypeOK
        <5>2. trail[i].rotated \in BOOLEAN
          BY <5>1 DEF Attempt
        <5> QED BY <1>4, <4>1, <5>2
      <4> QED BY <1>2, <1>4, <2>1, <3>1, <4>1, <4>2
    <3>2. CASE i = n
      <4>1. i \in 1..n /\ i + 1 = n + 1 /\ i < n + 1 /\ n > 0
        BY <1>2, <3>2
      <4>2. ~trail[i].rotated
        BY <1>2, <2>1, <3>2, <4>1
      <4>3. trail'[i].rotated <=> (i = pending /\ trail[i].key # k)
        BY <1>4, <4>1, <4>2
      <4> QED BY <1>4, <1>5, <2>2, <3>2, <4>1, <4>3
    <3>3. CASE i = n + 1
      BY <1>2, <1>5, <3>3
    <3> QED BY <1>2, <3>1, <3>2, <3>3
  <2> QED BY <1>4, <2>4 DEF TrailTellsRotations
<1>11. ASSUME NEW l PROVE Limits(l)' = Limits(l)
  <2>1. {i \in DOMAIN trail' : trail'[i].key = l /\ trail'[i].why = "limited"}
         = {i \in DOMAIN trail : trail[i].key = l /\ trail[i].why = "limited"}
    <3>1. \A i \in DOMAIN trail' : trail'[i].why = "limited" => i \in 1..n
      BY <1>5, <1>7
    <3>2. \A i \in 1..n : i \in DOMAIN trail'
      BY <1>2, <1>4
    <3> QED BY <1>2, <1>4, <3>1, <3>2
  <2> QED BY <2>1 DEF Limits
<1> QED BY <1>4, <1>5, <1>8, <1>9, <1>10, <1>11 DEF n

(* The reason of the attempt that just ended, with a denied key among the  *)
(* dead ones, keeps what the trail tells.                                  *)
LEMMA ExplainStep ==
  ASSUME LoopInv, rpc = "call", NEW a \in Answer,
         trail' = Explained(a), pool' = pool, key' = key, dead \subseteq dead',
         a = "denied" /\ mode # "none" => key \in dead'
  PROVE  /\ trail' \in Seq(Attempt) /\ Len(trail') = Len(trail)
         /\ mode # "none" => trail'[Len(trail)].why = a /\ trail'[Len(trail)].key = key
         /\ mode = "none" => trail' = <<>>
         /\ Recorded' /\ KeysSpared' /\ TrailTellsRotations'
         /\ \A l : l # key \/ a # "limited" => Limits(l)' = Limits(l)
         /\ mode # "none" /\ a = "limited" => Limits(key)' = Limits(key) + 1
<1> DEFINE n == Len(trail)
<1>1. RetryTypeOK /\ Position /\ Recorded /\ KeysSpared /\ TrailTellsRotations
  BY DEF LoopInv
<1>2. DOMAIN trail = 1..n /\ n \in Nat /\ attempts \in Nat /\ key \in Key \cup {NoKey}
  BY <1>1 DEF RetryTypeOK
<1>3. /\ trail' \in Seq(Attempt)
      /\ Len(trail') = n /\ DOMAIN trail' = 1..n
      /\ \A i \in 1..n :
           /\ trail'[i].key = trail[i].key
           /\ trail'[i].why = (IF i = n THEN a ELSE trail[i].why)
           /\ trail'[i].waited = trail[i].waited
           /\ trail'[i].rotated = trail[i].rotated
  BY <1>1, <1>2, ExplainEffect
<1>4. mode # "none" => n > 0 /\ trail[n].why = "none" /\ trail[n].key = key
  BY <1>1, <1>2 DEF Position
<1>5. mode = "none" => trail = <<>> /\ n = 0
  BY <1>1 DEF Position
<1> HIDE DEF n
<1>6. n > 0 => mode # "none" /\ n \in 1..n
  BY <1>2, <1>5
<1>7. Recorded'
  <2>1. \A i \in 1..n : trail[i].key \in pool /\ (trail[i].why = "denied" => trail[i].key \in dead)
    BY <1>1, <1>2 DEF Recorded
  <2>2. \A i \in 1..n : trail'[i].key \in pool
    BY <1>3, <2>1
  <2>3. \A i \in 1..n : trail'[i].why = "denied" => trail'[i].key \in dead'
    BY <1>2, <1>3, <1>4, <1>6, <2>1
  <2> QED BY <1>3, <2>2, <2>3 DEF Recorded
<1>8. KeysSpared'
  <2>1. /\ \A i, j \in 1..n : i < j /\ trail[i].why = "denied" => trail[i].key # trail[j].key
        /\ \A i \in 1..n : i > 1 /\ trail[i].key = trail[i - 1].key =>
             trail[i].waited \/ trail[i - 1].why = "rejected"
    BY <1>1, <1>2 DEF KeysSpared
  <2>2. \A i, j \in 1..n : i < j /\ trail'[i].why = "denied" => trail'[i].key # trail'[j].key
    BY <1>2, <1>3, <2>1
  <2>3. ASSUME NEW i \in 1..n, i > 1, trail'[i].key = trail'[i - 1].key
        PROVE  trail'[i].waited \/ trail'[i - 1].why = "rejected"
    <3>1. i - 1 \in 1..n /\ i - 1 # n
      BY <1>2, <2>3
    <3>2. trail[i].waited \/ trail[i - 1].why = "rejected"
      BY <1>3, <2>1, <2>3, <3>1
    <3> QED BY <1>3, <3>1, <3>2
  <2> QED BY <1>3, <2>2, <2>3 DEF KeysSpared
<1>9. TrailTellsRotations'
  <2>1. \A i \in 1..n : trail[i].rotated <=> (i < n /\ trail[i].key # trail[i + 1].key)
    BY <1>1, <1>2 DEF TrailTellsRotations, n
  <2>2. \A i \in 1..n : i < n => i + 1 \in 1..n
    BY <1>2
  <2>3. \A i \in 1..n : trail'[i].rotated <=> (i < n /\ trail'[i].key # trail'[i + 1].key)
    BY <1>3, <2>1, <2>2
  <2> QED BY <1>3, <2>3 DEF TrailTellsRotations
<1>10. ASSUME NEW l, l # key \/ a # "limited" PROVE Limits(l)' = Limits(l)
  <2>1. \A i \in 1..n : (trail'[i].key = l /\ trail'[i].why = "limited")
                          <=> (trail[i].key = l /\ trail[i].why = "limited")
    BY <1>3, <1>4, <1>6, <1>10
  <2>2. {i \in DOMAIN trail' : trail'[i].key = l /\ trail'[i].why = "limited"}
         = {i \in DOMAIN trail : trail[i].key = l /\ trail[i].why = "limited"}
    BY <1>2, <1>3, <2>1
  <2> QED BY <2>2 DEF Limits
<1>11. ASSUME mode # "none", a = "limited" PROVE Limits(key)' = Limits(key) + 1
  <2> DEFINE S == {i \in DOMAIN trail : trail[i].key = key /\ trail[i].why = "limited"}
  <2>1. n \in 1..n /\ trail[n].why = "none" /\ trail[n].key = key
    BY <1>2, <1>4, <1>11
  <2>2. \A i \in 1..n : (trail'[i].key = key /\ trail'[i].why = "limited")
                          <=> ((trail[i].key = key /\ trail[i].why = "limited") \/ i = n)
    BY <1>3, <1>11, <2>1
  <2>3. {i \in DOMAIN trail' : trail'[i].key = key /\ trail'[i].why = "limited"} = S \cup {n}
    BY <1>2, <1>3, <2>1, <2>2
  <2>4. n \notin S /\ IsFiniteSet(S)
    BY <1>1, <2>1, LimitsType
  <2>5. Limits(key)' = Cardinality(S \cup {n})
    BY <2>3 DEF Limits
  <2> HIDE DEF S
  <2>6. Cardinality(S \cup {n}) = Cardinality(S) + 1
    BY <2>4, FS_AddElement
  <2>7. Limits(key) = Cardinality(S)
    BY DEF Limits, S
  <2> QED BY <2>5, <2>6, <2>7
<1>12. mode = "none" => trail' = <<>>
  BY <1>5 DEF Explained
<1>13. mode # "none" => trail'[n].why = a /\ trail'[n].key = key
  BY <1>2, <1>3, <1>4, <1>6
<1> QED BY <1>3, <1>7, <1>8, <1>9, <1>10, <1>11, <1>12, <1>13 DEF n

----------------------------------------------------------------------------
(* The loop's actions.                                                     *)

(* A key that the rotating provider gives out is a live one of the pool;   *)
(* without a filter it is a fresh one, or all live keys have been used and *)
(* a new round begins.                                                     *)
LEMMA PickEffect ==
  ASSUME RetryTypeOK, NEW c \in Picks
  PROVE  /\ c.key \in pool \ dead /\ (c.used = used \/ c.used = {})
         /\ ~filtering => \/ c.key \notin used /\ c.used = used
                          \/ Live \subseteq used /\ c.used = {}
<1>1. CASE c \in {[key |-> k, used |-> used] : k \in UNION {f \in Filtered(Fresh) : f # {}}}
  <2>1. PICK k \in UNION {f \in Filtered(Fresh) : f # {}} : c = [key |-> k, used |-> used]
    BY <1>1
  <2>2. c.key = k /\ c.used = used
    BY <2>1
  <2>3. k \in Fresh
    BY <2>1 DEF Filtered
  <2> QED BY <2>2, <2>3 DEF Fresh
<1>2. CASE /\ {} \in Filtered(Fresh)
           /\ c \in {[key |-> k, used |-> {}] : k \in UNION Filtered(Live)}
  <2>1. PICK k \in UNION Filtered(Live) : c = [key |-> k, used |-> {}]
    BY <1>2
  <2>2. c.key = k /\ c.used = {}
    BY <2>1
  <2>3. k \in Live
    BY <2>1 DEF Filtered
  <2>4. ~filtering => Fresh = {}
    BY <1>2 DEF Filtered
  <2> QED BY <2>2, <2>3, <2>4 DEF Live, Fresh
<1>3. \/ c \in {[key |-> k, used |-> used] : k \in UNION {f \in Filtered(Fresh) : f # {}}}
      \/ /\ {} \in Filtered(Fresh)
         /\ c \in {[key |-> k, used |-> {}] : k \in UNION Filtered(Live)}
  BY DEF Picks
<1> QED BY <1>1, <1>2, <1>3

\* A key is selected, or selected again.
LEMMA SelectStep ==
  ASSUME LoopInv, Select
  PROVE  LoopInv'
<1>1. RetryTypeOK /\ Position /\ Recorded /\ Round
  BY DEF LoopInv
<1>2. PICK c \in IF mode = "fixed" THEN {[key |-> k, used |-> used] : k \in pool \ dead} ELSE Picks :
        key' = c.key /\ selected' = c.key /\ used' = c.used /\ trail' = Extend(c.key)
  BY DEF Select
<1>3. /\ rpc = "select" /\ Reselect /\ pending' = 0 /\ rpc' = "call" /\ mode # "none"
      /\ UNCHANGED <<mode, pool, filtering, retries, attempts, extra, dead, last, stripped,
                     encrypted, outcome>>
  BY DEF Select, Reselect
<1>4. /\ key' \in pool \ dead /\ (used' = used \/ used' = {})
      /\ mode = "rotating" /\ ~filtering => \/ key' \notin used /\ used' = used
                                            \/ Live \subseteq used /\ used' = {}
  <2>1. CASE mode = "fixed"
    <3>1. PICK k \in pool \ dead : c = [key |-> k, used |-> used]
      BY <1>2, <2>1
    <3> QED BY <1>2, <2>1, <3>1
  <2>2. CASE mode # "fixed"
    <3>1. c \in Picks
      BY <1>2, <2>2
    <3> QED BY <1>1, <1>2, <3>1, PickEffect
  <2> QED BY <2>1, <2>2
<1>5. /\ trail' \in Seq(Attempt) /\ Len(trail') = Len(trail) + 1
      /\ trail'[Len(trail) + 1].key = key' /\ trail'[Len(trail) + 1].why = "none"
      /\ Recorded' /\ KeysSpared' /\ TrailTellsRotations'
      /\ \A l : Limits(l)' = Limits(l)
  <2>1. trail' = Extend(key')
    BY <1>2
  <2> QED BY <1>3, <1>4, <2>1, ExtendStep
<1>6. RetryTypeOK'
  <2>1. key' \in Key /\ selected' = key' /\ used' \subseteq Key
    BY <1>1, <1>2, <1>4 DEF RetryTypeOK
  <2> QED BY <1>1, <1>3, <1>5, <2>1 DEF RetryTypeOK
<1>7. Position'
  <2>1. Len(trail) = attempts /\ Len(trail) \in Nat
    BY <1>1, <1>3 DEF Position, RetryTypeOK
  <2>2. Len(trail') = attempts' + 1
    BY <1>3, <1>5, <2>1
  <2> QED BY <1>3, <1>4, <1>5, <2>2 DEF Position
<1>8. Round'
  <2> SUFFICES ASSUME mode = "rotating", ~filtering
               PROVE  /\ \E r \in Nat : \A k \in Live : Limits(k)' = r + (IF k \in used' THEN 1 ELSE 0)
                      /\ key' \notin used'
    BY <1>3 DEF Round, Live
  <2>1. PICK r \in Nat : \A k \in Live : Limits(k) = r + (IF k \in used THEN 1 ELSE 0)
    BY <1>1 DEF Round
  <2>2. CASE key' \notin used /\ used' = used
    BY <1>5, <2>1, <2>2
  <2>3. CASE Live \subseteq used /\ used' = {}
    <3>1. \A k \in Live : Limits(k)' = (r + 1) + (IF k \in used' THEN 1 ELSE 0)
      BY <1>5, <2>1, <2>3
    <3> QED BY <2>3, <3>1
  <2> QED BY <1>4, <2>2, <2>3
<1> QED BY <1>5, <1>6, <1>7, <1>8 DEF LoopInv

\* No key can be selected.
LEMMA SelectFailsStep ==
  ASSUME LoopInv, SelectFails
  PROVE  LoopInv'
<1>1. /\ rpc' = "done" /\ selected' = NoKey /\ outcome' \in Refusals
      /\ UNCHANGED <<mode, pool, filtering, retries, attempts, extra, key, used, dead, last, stripped,
                     encrypted, pending, trail>>
  BY DEF SelectFails
<1>2. outcome' \in Answer \cup {"none", "exhausted", "filtered"}
  BY <1>1 DEF Refusals, Answer, Final
<1>3. RetryTypeOK'
  BY <1>1, <1>2 DEF LoopInv, RetryTypeOK
<1>4. Position' /\ Recorded' /\ KeysSpared' /\ TrailTellsRotations'
  BY <1>1 DEF LoopInv, Position, Recorded, KeysSpared, TrailTellsRotations
<1>5. Round'
  BY <1>1 DEF LoopInv, Round, Live, Limits
<1> QED BY <1>3, <1>4, <1>5 DEF LoopInv

\* The attempt repeats the key, or there is none.
LEMMA KeepStep ==
  ASSUME LoopInv, Keep
  PROVE  LoopInv'
<1>1. RetryTypeOK /\ Position /\ Recorded /\ Round
  BY DEF LoopInv
<1>2. /\ rpc = "select" /\ ~Reselect /\ rpc' = "call"
      /\ UNCHANGED <<mode, pool, filtering, retries, attempts, extra, key, selected, used, dead, last,
                     stripped, encrypted, pending, outcome>>
  BY DEF Keep
<1>3. CASE mode = "none"
  <2>1. trail' = trail
    BY <1>3 DEF Keep
  <2>2. RetryTypeOK'
    BY <1>1, <1>2, <2>1 DEF RetryTypeOK
  <2>3. Position' /\ Recorded' /\ KeysSpared' /\ TrailTellsRotations'
    BY <1>2, <1>3, <2>1 DEF LoopInv, Position, Recorded, KeysSpared, TrailTellsRotations
  <2>4. Round'
    BY <1>2, <1>3 DEF Round
  <2> QED BY <2>2, <2>3, <2>4 DEF LoopInv
<1>4. CASE mode # "none"
  <2>1. attempts > 0 /\ last \notin PerKey /\ Len(trail) = attempts /\ Len(trail) \in Nat
    BY <1>1, <1>2, <1>4 DEF Reselect, Position, RetryTypeOK
  <2>2. last # "denied"
    BY <2>1 DEF PerKey
  <2>3. key \in pool \ dead /\ pending = 0
    BY <1>1, <1>2, <1>4, <2>1, <2>2 DEF Position
  <2>4. trail' = Extend(key)
    BY <1>4 DEF Keep
  <2>5. /\ trail' \in Seq(Attempt) /\ Len(trail') = Len(trail) + 1
        /\ trail'[Len(trail) + 1].key = key /\ trail'[Len(trail) + 1].why = "none"
        /\ Recorded' /\ KeysSpared' /\ TrailTellsRotations'
        /\ \A l : Limits(l)' = Limits(l)
    BY <1>2, <1>4, <2>3, <2>4, ExtendStep
  <2>6. RetryTypeOK'
    BY <1>1, <1>2, <2>5 DEF RetryTypeOK
  <2>7. Position'
    BY <1>2, <1>4, <2>1, <2>3, <2>5 DEF Position
  <2>8. Round'
    <3> SUFFICES ASSUME mode = "rotating", ~filtering
                 PROVE  /\ \E r \in Nat : \A k \in Live : Limits(k)' = r + (IF k \in used THEN 1 ELSE 0)
                        /\ key \notin used
      BY <1>2 DEF Round, Live
    <3> QED BY <1>1, <1>2, <2>1, <2>5 DEF Round
  <2> QED BY <2>5, <2>6, <2>7, <2>8 DEF LoopInv
<1> QED BY <1>3, <1>4

\* The attempt decides the call.
LEMMA CallEndsStep ==
  ASSUME LoopInv, NEW a \in Answer, CallEnds(a)
  PROVE  LoopInv'
<1>1. RetryTypeOK /\ Position /\ Recorded /\ KeysSpared /\ TrailTellsRotations /\ Round
  BY DEF LoopInv
<1>2. /\ rpc = "call" /\ rpc' = "done" /\ outcome' = a /\ (selected' = NoKey \/ selected' = selected)
      /\ UNCHANGED <<mode, pool, filtering, retries, attempts, extra, key, used, dead, last, stripped,
                     encrypted, pending>>
  BY DEF CallEnds, Finish
<1>3. a # "denied" /\ a # "limited"
  BY DEF CallEnds, Final
<1>4. /\ trail' \in Seq(Attempt) /\ (mode = "none" => trail' = <<>>)
      /\ Recorded' /\ KeysSpared' /\ TrailTellsRotations' /\ \A l : Limits(l)' = Limits(l)
  <2>1. CASE trail' = trail
    <3>1. trail' \in Seq(Attempt) /\ (mode = "none" => trail' = <<>>)
      BY <1>1, <2>1 DEF RetryTypeOK, Position
    <3>2. Recorded' /\ KeysSpared' /\ TrailTellsRotations'
      BY <1>1, <1>2, <2>1 DEF Recorded, KeysSpared, TrailTellsRotations
    <3>3. \A l : Limits(l)' = Limits(l)
      BY <2>1 DEF Limits
    <3> QED BY <3>1, <3>2, <3>3
  <2>2. CASE trail' = Explained(a)
    BY <1>2, <1>3, <2>2, ExplainStep
  <2> QED BY <2>1, <2>2 DEF CallEnds
<1>5. RetryTypeOK'
  BY <1>1, <1>2, <1>4 DEF RetryTypeOK
<1>6. Position'
  BY <1>2, <1>4 DEF Position
<1>7. Round'
  BY <1>1, <1>2, <1>4 DEF Round, Live
<1> QED BY <1>4, <1>5, <1>6, <1>7 DEF LoopInv

\* The attempt failed and another one is due, or the budget is spent.
LEMMA CallAgainStep ==
  ASSUME LoopInv, NEW a \in Answer, CallAgain(a)
  PROVE  LoopInv'
<1> DEFINE strip == a = "rejected"
           more == extra + (IF strip THEN 1 ELSE 0)
<1>1. RetryTypeOK /\ Position /\ Round
  BY DEF LoopInv
<1>2. /\ rpc = "call" /\ a \in PerKey \cup {"server", "rejected"}
      /\ stripped' = (stripped \/ strip) /\ encrypted' = (encrypted /\ ~strip) /\ extra' = more
      /\ dead' = IF a = "denied" /\ mode # "none" THEN dead \cup {key} ELSE dead
      /\ used' = IF a = "limited" /\ mode # "none" THEN used \cup {key} ELSE used
      /\ last' = IF strip THEN "stripped" ELSE a
      /\ trail' = Explained(a)
      /\ pending' = IF IsCandidate(a, more) THEN Len(trail) ELSE pending
      /\ attempts' = attempts + 1
      /\ UNCHANGED <<mode, pool, filtering, retries, key>>
  BY DEF CallAgain
<1>3. \/ rpc' = "done" /\ outcome' = a /\ (selected' = NoKey \/ selected' = selected)
      \/ ~Spent(more) /\ rpc' = "select" /\ outcome' = outcome /\ selected' = selected
  BY DEF CallAgain, Finish
<1>4. extra' \in Nat /\ attempts' \in Nat /\ attempts \in Nat /\ retries \in Nat /\ Len(trail) \in Nat
  BY <1>1, <1>2 DEF RetryTypeOK
<1>5. mode # "none" => /\ key \in pool \ dead /\ key \in Key /\ pending = 0
                       /\ Len(trail) = attempts + 1
  BY <1>1, <1>2 DEF RetryTypeOK, Position
<1>6. /\ trail' \in Seq(Attempt) /\ Len(trail') = Len(trail)
      /\ mode # "none" => trail'[Len(trail)].why = a /\ trail'[Len(trail)].key = key
      /\ mode = "none" => trail' = <<>>
      /\ Recorded' /\ KeysSpared' /\ TrailTellsRotations'
      /\ \A l : l # key \/ a # "limited" => Limits(l)' = Limits(l)
      /\ mode # "none" /\ a = "limited" => Limits(key)' = Limits(key) + 1
  BY <1>2, ExplainStep
<1>7. RetryTypeOK'
  <2>1. stripped' \in BOOLEAN /\ encrypted' \in BOOLEAN
    BY <1>1, <1>2 DEF RetryTypeOK
  <2>2. dead' \subseteq Key /\ used' \subseteq Key
    BY <1>1, <1>2, <1>5 DEF RetryTypeOK
  <2>3. last' \in Answer \cup {"none", "stripped"} /\ pending' \in Nat
    BY <1>1, <1>2, <1>4 DEF RetryTypeOK
  <2>4. rpc' \in {"idle", "select", "call", "done"}
    BY <1>3
  <2>5. selected' \in Key \cup {NoKey} /\ outcome' \in Answer \cup {"none", "exhausted", "filtered"}
    BY <1>1, <1>3 DEF RetryTypeOK
  <2>6. UNCHANGED <<mode, pool, filtering, retries, key>>
    BY <1>2
  <2> QED BY <1>1, <1>4, <1>6, <2>1, <2>2, <2>3, <2>4, <2>5, <2>6 DEF RetryTypeOK
<1>8. Position'
  <2>1. ASSUME rpc' = "select", mode # "none"
        PROVE  /\ trail'[Len(trail')].why = Reason(last') /\ trail'[Len(trail')].key = key'
               /\ key' \in pool' /\ (last' # "denied" => key' \notin dead')
               /\ pending' = IF last' \in PerKey THEN Len(trail') ELSE 0
    <3>1. ~Spent(more)
      BY <1>3, <2>1
    <3>2. IsCandidate(a, more) <=> a \in PerKey
      BY <1>1, <1>4, <2>1, <3>1 DEF Spent, IsCandidate, RetryTypeOK
    <3>3. last' \in PerKey <=> a \in PerKey
      BY <1>2 DEF PerKey
    <3>4. Reason(last') = a
      BY <1>2 DEF Reason, PerKey
    <3>5. last' # "denied" => key' \notin dead'
      BY <1>2, <1>5, <2>1
    <3> QED BY <1>2, <1>5, <1>6, <2>1, <3>2, <3>3, <3>4, <3>5
  <2>2. rpc' # "call" /\ mode' = mode /\ attempts' > 0
    BY <1>2, <1>3, <1>4
  <2>3. mode # "none" => Len(trail') = attempts' + 0
    BY <1>2, <1>4, <1>5, <1>6
  <2> QED BY <1>6, <2>1, <2>2, <2>3 DEF Position
<1>9. Round'
  <2> SUFFICES ASSUME mode = "rotating", ~filtering
               PROVE  /\ \E r \in Nat : \A k \in pool \ dead' :
                           Limits(k)' = r + (IF k \in used' THEN 1 ELSE 0)
                      /\ last' \notin PerKey => key \notin used'
    BY <1>2, <1>3 DEF Round, Live
  <2>1. PICK r \in Nat : \A k \in pool \ dead : Limits(k) = r + (IF k \in used THEN 1 ELSE 0)
    BY <1>1 DEF Round, Live
  <2>2. key \notin used
    BY <1>1, <1>2 DEF Round
  <2>3. ASSUME NEW k \in pool \ dead' PROVE Limits(k)' = r + (IF k \in used' THEN 1 ELSE 0)
    <3>1. k \in pool \ dead
      BY <1>2
    <3>2. CASE k = key /\ a = "limited"
      <4>1. Limits(k) = r /\ k \in used' /\ Limits(k)' = Limits(k) + 1
        BY <1>2, <1>6, <2>1, <2>2, <3>1, <3>2
      <4> QED BY <4>1
    <3>3. CASE ~(k = key /\ a = "limited")
      <4>1. Limits(k)' = Limits(k) /\ (k \in used' <=> k \in used)
        BY <1>2, <1>6, <3>3
      <4> QED BY <2>1, <3>1, <4>1
    <3> QED BY <3>2, <3>3
  <2>4. last' \notin PerKey => key \notin used'
    BY <1>2, <2>2 DEF PerKey
  <2> QED BY <2>3, <2>4
<1> QED BY <1>6, <1>7, <1>8, <1>9 DEF LoopInv

\* Every step of the loop keeps its invariant.
LEMMA LoopStep ==
  ASSUME LoopInv, RetryNext
  PROVE  LoopInv'
<1>1. CASE Select
  BY <1>1, SelectStep
<1>2. CASE SelectFails
  BY <1>2, SelectFailsStep
<1>3. CASE Keep
  BY <1>3, KeepStep
<1>4. CASE \E a \in Answer : CallEnds(a) \/ CallAgain(a)
  BY <1>4, CallEndsStep, CallAgainStep
<1> QED BY <1>1, <1>2, <1>3, <1>4 DEF RetryNext

\* The loop starts with an empty trail.
LEMMA LoopInit ==
  RetryInit => LoopInv
<1> SUFFICES ASSUME RetryInit PROVE LoopInv
  OBVIOUS
<1>1. trail = <<>> /\ DOMAIN trail = {} /\ Len(trail) = 0 /\ rpc = "idle" /\ mode = "none"
  BY DEF RetryInit
<1>2. RetryTypeOK
  <2>1. filtering \in BOOLEAN /\ stripped \in BOOLEAN /\ encrypted \in BOOLEAN
    BY DEF RetryInit
  <2>2. trail \in Seq(Attempt)
    BY <1>1
  <2>3. /\ pool = {} /\ retries = 0 /\ attempts = 0 /\ extra = 0 /\ key = NoKey /\ selected = NoKey
        /\ used = {} /\ dead = {} /\ last = "none" /\ pending = 0 /\ outcome = "none"
    BY DEF RetryInit
  <2> QED BY <1>1, <2>1, <2>2, <2>3 DEF RetryTypeOK
<1>3. Position /\ Recorded /\ KeysSpared /\ TrailTellsRotations /\ Round
  BY <1>1 DEF Position, Recorded, KeysSpared, TrailTellsRotations, Round
<1> QED BY <1>2, <1>3 DEF LoopInv

\* A call of executeRequestWithRetries begins, or is left, with an empty trail.
LEMMA EmptyTrail ==
  ASSUME RetryTypeOK', trail' = <<>>, rpc' \in {"idle", "select"}, attempts' = 0, pending' = 0,
         used' = {}
  PROVE  LoopInv'
<1>1. DOMAIN trail' = {} /\ Len(trail') = 0
  OBVIOUS
<1>2. Position' /\ Recorded' /\ KeysSpared' /\ TrailTellsRotations'
  BY <1>1 DEF Position, Recorded, KeysSpared, TrailTellsRotations
<1>3. \A k : Limits(k)' = 0
  <2>1. \A k : {i \in DOMAIN trail' : trail'[i].key = k /\ trail'[i].why = "limited"} = {}
    BY <1>1
  <2> QED BY <2>1, FS_EmptySet DEF Limits
<1>4. Round'
  BY <1>3 DEF Round
<1> QED BY <1>2, <1>4 DEF LoopInv

----------------------------------------------------------------------------
(* The tries.                                                              *)

\* A request starts with nothing tried.
LEMMA FlowStarts ==
  FlowInit => FlowInv
<1> SUFFICES ASSUME FlowInit PROVE FlowInv
  OBVIOUS
<1>1. LoopInv
  BY LoopInit DEF FlowInit
<1>2. FlowTypeOK
  <2>1. Len(Fallback) \in Nat /\ encrypted \in BOOLEAN
    BY FallbackAssumption DEF FlowInit, RetryInit
  <2>2. session \in BOOLEAN /\ skip \in BOOLEAN /\ whole \in BOOLEAN /\ ctxDone \in BOOLEAN /\ gone \in BOOLEAN
    BY <2>1 DEF FlowInit
  <2>3. /\ stage = "start" /\ type \in Type /\ index = 0 /\ at = Primary
        /\ pin \in KeysOf[Primary] \cup {NoKey} /\ end = "none" /\ tries = <<>> /\ result = 0
        /\ direct \in DirectKeys \cup {NoKey}
    BY DEF FlowInit
  <2> QED BY <2>1, <2>2, <2>3 DEF FlowTypeOK, Provider
<1>3. Stages /\ Narrowed /\ KeyTold
  BY DEF FlowInit, RetryInit, Stages, Narrowed, KeyTold, Served
<1> QED BY <1>1, <1>2, <1>3 DEF FlowInv

\* A step that leaves the loop alone leaves its invariant alone.
LEMMA LoopRests ==
  ASSUME LoopInv, UNCHANGED retryVars
  PROVE  LoopInv'
<1>1. RetryTypeOK' /\ Position' /\ Recorded' /\ KeysSpared' /\ TrailTellsRotations'
  BY DEF LoopInv, retryVars, RetryTypeOK, Position, Recorded, KeysSpared,
     TrailTellsRotations
<1>2. Round'
  BY DEF LoopInv, retryVars, Round, Live, Limits
<1> QED BY <1>1, <1>2 DEF LoopInv

(* The steps of the caller that touch neither the loop nor the tries.      *)
LEMMA CallerStep ==
  ASSUME FlowInv, UNCHANGED <<retryVars, index, at, pin, tries, session, direct, skip, type>>,
         stage' \in {"start", "try", "worker", "decide", "skip", "done"}, ctxDone' \in BOOLEAN,
         gone' \in BOOLEAN, whole' \in BOOLEAN, result' \in Nat,
         end' \in {"none", "ok", "error", "final", "cancelled"},
         Stages', stage' # "worker" \/ stage = "worker", stage' = "done" /\ ~gone' => Served(selected)
  PROVE  FlowInv'
<1>1. LoopInv'
  BY LoopRests DEF FlowInv
<1>2. FlowTypeOK'
  BY DEF FlowInv, FlowTypeOK
<1>3. Narrowed'
  BY DEF FlowInv, Narrowed, KeysFor, retryVars
<1>4. KeyTold'
  BY DEF FlowInv, KeyTold, Served, KeysFor, retryVars
<1> QED BY <1>1, <1>2, <1>3, <1>4 DEF FlowInv

\* The request begins, or names no provider.
LEMMA StartStep ==
  ASSUME FlowInv, Start
  PROVE  FlowInv'
<1>1. FlowTypeOK /\ Stages /\ KeyTold
  BY DEF FlowInv
<1>2. /\ stage = "start" /\ stage' \in {"try", "done"}
      /\ UNCHANGED <<retryVars, type, session, direct, skip, ctxDone, index, at, pin, whole, gone, end, tries, result>>
  BY DEF Start, callVars
<1>3. UNCHANGED <<rpc, mode, outcome, trail, pool>> /\ rpc = "idle" /\ mode = "none"
  BY <1>1, <1>2 DEF retryVars, Stages
<1>4. ~gone
  BY <1>1, <1>2 DEF Stages
<1>5. Stages'
  BY <1>1, <1>2, <1>3, <1>4 DEF Stages
<1>6. Served(selected)
  BY <1>1, <1>3 DEF KeyTold
<1>7. /\ ctxDone' \in BOOLEAN /\ gone' \in BOOLEAN /\ whole' \in BOOLEAN /\ result' \in Nat
      /\ end' \in {"none", "ok", "error", "final", "cancelled"}
  BY <1>1, <1>2 DEF FlowTypeOK
<1> QED BY <1>2, <1>5, <1>6, <1>7, CallerStep

\* A plugin or the queue ends the try.
LEMMA RefusedStep ==
  ASSUME FlowInv, Refused
  PROVE  FlowInv'
<1>1. FlowTypeOK /\ Stages
  BY DEF FlowInv
<1>2. /\ stage = "try" /\ stage' = "decide" /\ end' \in Plugin \cup CtxDoneError
      /\ UNCHANGED <<retryVars, type, session, direct, skip, ctxDone, index, at, pin, whole, gone, tries, result>>
  BY DEF Refused, callVars
<1>3. UNCHANGED <<rpc, mode, outcome, trail, pool>> /\ rpc = "idle"
  BY <1>1, <1>2 DEF retryVars, Stages
<1>4. ~gone
  BY <1>1, <1>2 DEF Stages
<1>5. Stages'
  BY <1>1, <1>2, <1>3, <1>4 DEF Stages
<1>6. /\ ctxDone' \in BOOLEAN /\ gone' \in BOOLEAN /\ whole' \in BOOLEAN /\ result' \in Nat
      /\ end' \in {"none", "ok", "error", "final", "cancelled"}
  BY <1>1, <1>2 DEF FlowTypeOK, Plugin, CtxDoneError
<1> QED BY <1>2, <1>5, <1>6, CallerStep

\* The caller gets the worker's answer.
LEMMA ReceiveStep ==
  ASSUME FlowInv, Receive
  PROVE  FlowInv'
<1>1. FlowTypeOK /\ Stages
  BY DEF FlowInv
<1>2. /\ stage = "worker" /\ rpc = "done" /\ stage' = "decide"
      /\ end' \in Plugin \cup {IF outcome \in {"ok", "cancelled"} THEN outcome ELSE "error"}
      /\ UNCHANGED <<retryVars, type, session, direct, skip, ctxDone, index, at, pin, whole, gone, tries, result>>
  BY DEF Receive, callVars
<1>3. UNCHANGED <<rpc, mode, outcome, trail, pool>> /\ ~gone
  BY <1>1, <1>2 DEF retryVars, Stages
<1>4. Stages'
  BY <1>1, <1>2, <1>3 DEF Stages
<1>5. end' \in {"none", "ok", "error", "final", "cancelled"}
  BY <1>2 DEF Plugin
<1>6. ctxDone' \in BOOLEAN /\ gone' \in BOOLEAN /\ whole' \in BOOLEAN /\ result' \in Nat
  BY <1>1, <1>2 DEF FlowTypeOK
<1> QED BY <1>2, <1>4, <1>5, <1>6, CallerStep

\* The caller stops waiting for the worker.
LEMMA GiveUpStep ==
  ASSUME FlowInv, GiveUp
  PROVE  FlowInv'
<1>1. FlowTypeOK /\ Stages
  BY DEF FlowInv
<1>2. /\ stage = "worker" /\ stage' = "decide" /\ gone' = TRUE /\ end' \in CtxDoneError
      /\ UNCHANGED <<retryVars, type, session, direct, skip, ctxDone, index, at, pin, whole, tries, result>>
  BY DEF GiveUp, callVars
<1>3. UNCHANGED <<rpc, mode, outcome, trail, pool>>
  BY <1>2 DEF retryVars
<1>4. Stages'
  BY <1>1, <1>2, <1>3 DEF Stages, CtxDoneError, Halts
<1>5. /\ ctxDone' \in BOOLEAN /\ gone' \in BOOLEAN /\ whole' \in BOOLEAN /\ result' \in Nat
      /\ end' \in {"none", "ok", "error", "final", "cancelled"}
  BY <1>1, <1>2 DEF FlowTypeOK, CtxDoneError
<1> QED BY <1>2, <1>4, <1>5, CallerStep

\* The context is done.
LEMMA CtxDoneStep ==
  ASSUME FlowInv, CtxDone
  PROVE  FlowInv'
<1>1. FlowTypeOK /\ Stages /\ KeyTold
  BY DEF FlowInv
<1>2. /\ stage # "done" /\ ctxDone' = TRUE
      /\ UNCHANGED <<retryVars, type, session, direct, skip, stage, index, at, pin, whole, gone, end, tries, result>>
  BY DEF CtxDone, flowVars
<1>3. UNCHANGED <<rpc, mode, outcome, trail, pool>>
  BY <1>2 DEF retryVars
<1>4. Stages'
  BY <1>1, <1>2, <1>3 DEF Stages
<1>5. /\ ctxDone' \in BOOLEAN /\ gone' \in BOOLEAN /\ whole' \in BOOLEAN /\ result' \in Nat
      /\ end' \in {"none", "ok", "error", "final", "cancelled"}
      /\ stage' \in {"start", "try", "worker", "decide", "skip", "done"}
  BY <1>1, <1>2 DEF FlowTypeOK
<1> QED BY <1>2, <1>4, <1>5, CallerStep

\* The last fallbacks were passed over.
LEMMA ExhaustedStep ==
  ASSUME FlowInv, Exhausted
  PROVE  FlowInv'
<1>1. FlowTypeOK /\ Stages /\ KeyTold
  BY DEF FlowInv
<1>2. /\ stage = "skip" /\ stage' = "done" /\ result' = 1
      /\ UNCHANGED <<retryVars, type, session, direct, skip, ctxDone, index, at, pin, whole, gone, end, tries>>
  BY DEF Exhausted, callVars
<1>3. UNCHANGED <<rpc, mode, outcome, trail, pool>> /\ rpc = "idle" /\ mode = "none" /\ ~gone
  BY <1>1, <1>2 DEF retryVars, Stages
<1>4. Stages'
  BY <1>1, <1>2, <1>3 DEF Stages
<1>5. Served(selected)
  BY <1>1, <1>3 DEF KeyTold
<1>6. /\ ctxDone' \in BOOLEAN /\ gone' \in BOOLEAN /\ whole' \in BOOLEAN /\ result' \in Nat
      /\ end' \in {"none", "ok", "error", "final", "cancelled"}
  BY <1>1, <1>2 DEF FlowTypeOK
<1> QED BY <1>2, <1>4, <1>5, <1>6, CallerStep

\* The loop takes a step.
LEMMA WorkStep ==
  ASSUME FlowInv, Work
  PROVE  FlowInv'
<1>1. LoopInv /\ FlowTypeOK /\ Stages /\ Narrowed /\ KeyTold
  BY DEF FlowInv
<1>2. /\ RetryNext /\ whole' = (IF index = 0 THEN encrypted' ELSE whole)
      /\ UNCHANGED <<type, session, direct, skip, ctxDone, stage, index, at, pin, gone, end, tries, result>>
  BY DEF Work, callVars
<1>3. LoopInv'
  BY <1>1, <1>2, LoopStep
<1>4. /\ rpc \in {"select", "call"} /\ rpc' \in {"select", "call", "done"}
      /\ mode' = mode /\ pool' = pool
  BY <1>2 DEF RetryNext, Select, SelectFails, Keep, CallEnds, CallAgain, Finish
<1>5. FlowTypeOK'
  <2>1. encrypted' \in BOOLEAN
    BY <1>3 DEF LoopInv, RetryTypeOK
  <2>2. whole' \in BOOLEAN
    BY <1>1, <1>2, <2>1 DEF FlowTypeOK
  <2> QED BY <1>1, <1>2, <2>2 DEF FlowTypeOK
<1>6. Stages'
  BY <1>1, <1>2, <1>4 DEF Stages, Halts
<1>7. Narrowed'
  BY <1>1, <1>2, <1>4 DEF Narrowed, KeysFor
<1>8. KeyTold'
  <2>1. ~(stage = "done" /\ ~gone)
    BY <1>1, <1>4 DEF Stages
  <2>2. \/ selected' = NoKey
        \/ selected' = selected /\ (rpc' # "done" \/ outcome' = "ok" \/ mode = "none")
        \/ rpc' # "done" /\ mode # "none" /\ selected' \in pool
    <3>1. CASE Select
      <4>1. PICK c \in IF mode = "fixed" THEN {[key |-> k, used |-> used] : k \in pool \ dead}
                                         ELSE Picks :
              key' = c.key /\ selected' = c.key
        BY <3>1 DEF Select
      <4>2. c.key \in pool
        <5>1. CASE mode = "fixed"
          <6>1. PICK k \in pool \ dead : c = [key |-> k, used |-> used]
            BY <4>1, <5>1
          <6> QED BY <6>1
        <5>2. CASE mode # "fixed"
          BY <1>1, <4>1, <5>2, PickEffect DEF LoopInv
        <5> QED BY <5>1, <5>2
      <4>3. rpc' = "call" /\ mode # "none"
        BY <3>1 DEF Select, Reselect
      <4> QED BY <4>1, <4>2, <4>3
    <3>2. CASE SelectFails
      BY <3>2 DEF SelectFails
    <3>3. CASE Keep
      BY <3>3 DEF Keep
    <3>4. ASSUME NEW a \in Answer, CallEnds(a)
          PROVE  \/ selected' = NoKey
                 \/ selected' = selected /\ (rpc' # "done" \/ outcome' = "ok" \/ mode = "none")
      BY <3>4 DEF CallEnds, Finish
    <3>5. ASSUME NEW a \in Answer, CallAgain(a)
          PROVE  \/ selected' = NoKey
                 \/ selected' = selected /\ (rpc' # "done" \/ outcome' = "ok" \/ mode = "none")
      BY <3>5 DEF CallAgain, Finish
    <3> QED BY <1>2, <3>1, <3>2, <3>3, <3>4, <3>5 DEF RetryNext
  <2>3. \A k : Served(k)' <=> Served(k)
    BY <1>2 DEF Served, KeysFor
  <2>4. pool \subseteq KeysFor(at)
    BY <1>1 DEF Narrowed
  <2>5. Served(selected)' <=> Served(selected')
    BY <1>2 DEF Served, KeysFor
  <2>6. CASE selected' = NoKey
    BY <1>2, <2>1, <2>5, <2>6 DEF KeyTold, Served
  <2>7. CASE selected' = selected /\ (rpc' # "done" \/ outcome' = "ok" \/ mode = "none")
    BY <1>1, <1>2, <1>4, <2>1, <2>5, <2>7 DEF KeyTold, KeysFor
  <2>8. CASE rpc' # "done" /\ mode # "none" /\ selected' \in pool
    BY <1>2, <1>4, <2>1, <2>4, <2>8 DEF KeyTold, KeysFor
  <2> QED BY <2>2, <2>6, <2>7, <2>8
<1> QED BY <1>3, <1>5, <1>6, <1>7, <1>8 DEF FlowInv

(* What selectKeyFromProviderForModelWithPool returns: keys of the         *)
(* provider, for a fallback all of them.                                   *)
LEMMA PoolsEffect ==
  ASSUME FlowInv, NEW p \in Pools
  PROVE  /\ p.mode \in {"none", "fixed", "rotating"} /\ p.keys \subseteq KeysFor(at)
         /\ index > 0 => p.keys = KeysFor(at)
<1> DEFINE keys == KeysFor(at)
<1>0. keys \subseteq Key
  BY FallbackAssumption DEF FlowInv, FlowTypeOK, Provider, KeysFor
<1>1. index \in Nat /\ (index > 0 => pin = NoKey) /\ at \in Provider /\ Len(Fallback) \in Nat
  BY FallbackAssumption DEF FlowInv, FlowTypeOK, Narrowed
<1>2. IsFiniteSet(keys)
  BY <1>0, RetryAssumption, FS_Subset
<1>3. CASE keys = {}
  BY <1>3 DEF Pools, Pool
<1>4. CASE keys # {} /\ Pinned
  <2>1. p = [mode |-> "fixed", keys |-> {pin} \cap keys]
    BY <1>4 DEF Pools, Pool
  <2> QED BY <1>1, <1>4, <2>1 DEF Pinned
<1>5. CASE keys # {} /\ ~Pinned /\ (Cardinality(keys) = 1 \/ (session /\ index = 0))
  <2>1. p \in {[mode |-> "fixed", keys |-> {k}] : k \in keys}
    BY <1>5 DEF Pools, Pool
  <2>2. PICK k \in keys : p = [mode |-> "fixed", keys |-> {k}]
    BY <2>1
  <2>3. index > 0 => Cardinality(keys) = 1
    BY <1>1, <1>5
  <2>4. index > 0 => \E x : keys = {x}
    BY <1>2, <2>3, FS_Singleton
  <2>5. index > 0 => {k} = keys
    BY <2>2, <2>4
  <2> QED BY <2>2, <2>5
<1>6. CASE keys # {} /\ ~Pinned /\ ~(Cardinality(keys) = 1 \/ (session /\ index = 0))
  <2>1. p = [mode |-> "rotating", keys |-> keys]
    BY <1>6 DEF Pools, Pool
  <2> QED BY <2>1
<1> QED BY <1>3, <1>4, <1>5, <1>6

\* A worker takes the request, or the pinned key is not there.
LEMMA DispatchStep ==
  ASSUME FlowInv, Dispatch
  PROVE  FlowInv'
<1>1. LoopInv /\ FlowTypeOK /\ Stages /\ Narrowed /\ KeyTold
  BY DEF FlowInv
<1>2. PICK p \in Pools :
        IF p.mode = "fixed" /\ p.keys = {}
        THEN stage' = "decide" /\ end' \in Plugin /\ UNCHANGED retryVars
        ELSE stage' = "worker" /\ Begin(p.mode, p.keys, RetriesOf[at]) /\ UNCHANGED end
  BY DEF Dispatch
<1>3. /\ stage = "try"
      /\ UNCHANGED <<type, session, direct, skip, ctxDone, index, at, pin, whole, gone, tries, result>>
  BY DEF Dispatch, callVars
<1>4. rpc = "idle" /\ trail = <<>> /\ mode = "none" /\ ~gone
  BY <1>1, <1>3 DEF Stages
<1>5. CASE p.mode = "fixed" /\ p.keys = {}
  <2>1. stage' = "decide" /\ end' \in Plugin /\ UNCHANGED retryVars
    BY <1>2, <1>5
  <2>2. UNCHANGED <<rpc, mode, outcome, trail, pool>>
    BY <2>1 DEF retryVars
  <2>3. Stages'
    BY <1>1, <1>3, <1>4, <2>1, <2>2 DEF Stages
  <2>4. /\ ctxDone' \in BOOLEAN /\ gone' \in BOOLEAN /\ whole' \in BOOLEAN /\ result' \in Nat
        /\ end' \in {"none", "ok", "error", "final", "cancelled"}
    BY <1>1, <1>3, <2>1 DEF FlowTypeOK, Plugin
  <2> QED BY <1>3, <2>1, <2>3, <2>4, CallerStep
<1>6. CASE ~(p.mode = "fixed" /\ p.keys = {})
  <2>1. stage' = "worker" /\ Begin(p.mode, p.keys, RetriesOf[at]) /\ UNCHANGED end
    BY <1>2, <1>6
  <2>2. /\ rpc' = "select" /\ mode' = p.mode /\ pool' = p.keys /\ retries' = RetriesOf[at]
        /\ attempts' = 0 /\ extra' = 0 /\ key' = NoKey /\ used' = {} /\ dead' = {} /\ last' = "none"
        /\ stripped' = FALSE /\ pending' = 0 /\ outcome' = "none" /\ trail' = <<>>
        /\ UNCHANGED <<selected, encrypted, filtering>>
    BY <1>4, <2>1 DEF Begin
  <2>3. /\ p.mode \in {"none", "fixed", "rotating"} /\ p.keys \subseteq KeysFor(at)
        /\ index > 0 => p.keys = KeysFor(at)
    BY PoolsEffect
  <2>4. KeysFor(at) \subseteq Key /\ RetriesOf[at] \in Nat
    BY <1>1, FallbackAssumption, RetryAssumption DEF FlowTypeOK, Provider, KeysFor
  <2>5. RetryTypeOK'
    <3>1. stripped' \in BOOLEAN /\ encrypted' \in BOOLEAN /\ filtering' \in BOOLEAN
      BY <1>1, <2>2 DEF LoopInv, RetryTypeOK
    <3>2. selected' \in Key \cup {NoKey} /\ trail' \in Seq(Attempt)
      BY <1>1, <2>2 DEF LoopInv, RetryTypeOK
    <3> QED BY <2>2, <2>3, <2>4, <3>1, <3>2 DEF RetryTypeOK
  <2>6. LoopInv'
    BY <2>2, <2>5, EmptyTrail
  <2>7. FlowTypeOK'
    BY <1>1, <1>3, <2>1 DEF FlowTypeOK
  <2>8. Stages'
    BY <1>3, <1>4, <2>1, <2>2 DEF Stages
  <2>9. Narrowed'
    BY <1>1, <1>3, <2>2, <2>3 DEF Narrowed, KeysFor
  <2>10. KeyTold'
    BY <1>1, <1>3, <1>4, <2>1, <2>2 DEF KeyTold, Served, KeysFor
  <2> QED BY <2>6, <2>7, <2>8, <2>9, <2>10 DEF FlowInv
<1> QED BY <1>5, <1>6

(* The try is put down with the others: a key that the loop left in the    *)
(* context is then that of a provider that had an answer, if the caller    *)
(* has waited for it.                                                      *)
LEMMA TriedEffect ==
  ASSUME FlowInv, stage = "decide", tries' = Tried
  PROVE  /\ tries' \in Seq([at : Provider, end : {"none", "ok", "error", "final", "cancelled"},
                            served : BOOLEAN])
         /\ \A k : Served(k) => k = NoKey \/ \E i \in DOMAIN tries' :
                                  tries'[i].served /\ k \in KeysFor(tries'[i].at)
         /\ ~gone => selected = NoKey \/ \E i \in DOMAIN tries' :
                                  tries'[i].served /\ selected \in KeysFor(tries'[i].at)
<1> DEFINE try == [at |-> at, end |-> end, served |-> outcome = "ok"]
           T == [at : Provider, end : {"none", "ok", "error", "final", "cancelled"}, served : BOOLEAN]
<1>1. LoopInv /\ FlowTypeOK /\ Stages /\ KeyTold
  BY DEF FlowInv
<1>2. tries' = Append(tries, try)
  BY DEF Tried
<1>3. try \in T
  BY <1>1 DEF FlowTypeOK
<1>4. tries \in Seq(T)
  BY <1>1 DEF FlowTypeOK
<1>5. try.at = at /\ try.served = (outcome = "ok")
  OBVIOUS
<1> HIDE DEF try, T
<1>6. /\ tries' \in Seq(T) /\ Len(tries') = Len(tries) + 1 /\ Len(tries) \in Nat
      /\ \A i \in 1..Len(tries) : tries'[i] = tries[i]
      /\ tries'[Len(tries) + 1] = try
  BY <1>2, <1>3, <1>4
<1>7. /\ DOMAIN tries = 1..Len(tries) /\ DOMAIN tries' = 1..(Len(tries) + 1)
      /\ DOMAIN tries \subseteq DOMAIN tries' /\ Len(tries) + 1 \in DOMAIN tries'
  BY <1>4, <1>6
<1>8. ASSUME NEW k, Served(k)
      PROVE  k = NoKey \/ \E i \in DOMAIN tries' : tries'[i].served /\ k \in KeysFor(tries'[i].at)
  BY <1>6, <1>7, <1>8 DEF Served
<1>9. ASSUME ~gone
      PROVE  selected = NoKey \/ \E i \in DOMAIN tries' :
               tries'[i].served /\ selected \in KeysFor(tries'[i].at)
  <2>1. CASE Served(selected)
    BY <1>8, <2>1
  <2>2. CASE ~Served(selected)
    <3>1. mode # "none" /\ selected \in KeysFor(at)
      BY <1>1, <2>2 DEF KeyTold
    <3>2. rpc = "done"
      BY <1>1, <1>9, <3>1 DEF Stages
    <3>3. outcome = "ok"
      BY <1>1, <2>2, <3>2 DEF KeyTold
    <3> QED BY <1>5, <1>6, <1>7, <3>1, <3>3
  <2> QED BY <2>1, <2>2
<1> QED BY <1>6, <1>8, <1>9 DEF T

\* The request ends with this try.
LEMMA StopStep ==
  ASSUME FlowInv, Stop
  PROVE  FlowInv'
<1>1. LoopInv /\ FlowTypeOK /\ Stages /\ Narrowed /\ KeyTold
  BY DEF FlowInv
<1>2. /\ stage = "decide" /\ tries' = Tried /\ stage' = "done" /\ result' = Returned
      /\ UNCHANGED <<retryVars, type, session, direct, skip, ctxDone, index, at, pin, whole, gone, end>>
  BY DEF Stop, callVars
<1>3. UNCHANGED <<rpc, mode, outcome, trail, pool, selected>>
  BY <1>2 DEF retryVars
<1>4. /\ tries' \in Seq([at : Provider, end : {"none", "ok", "error", "final", "cancelled"},
                         served : BOOLEAN])
      /\ \A k : Served(k) => k = NoKey \/ \E i \in DOMAIN tries' :
                               tries'[i].served /\ k \in KeysFor(tries'[i].at)
      /\ ~gone => selected = NoKey \/ \E i \in DOMAIN tries' :
                               tries'[i].served /\ selected \in KeysFor(tries'[i].at)
  BY <1>2, TriedEffect
<1>5. LoopInv'
  BY <1>1, <1>2, LoopRests
<1>6. FlowTypeOK'
  <2>1. result' \in Nat
    BY <1>1, <1>2 DEF FlowTypeOK, Returned
  <2> QED BY <1>1, <1>2, <1>4, <2>1 DEF FlowTypeOK
<1>7. Stages'
  BY <1>1, <1>2, <1>3 DEF Stages
<1>8. Narrowed'
  BY <1>1, <1>2, <1>3 DEF Narrowed, KeysFor
<1>9. KeyTold'
  <2>1. Served(selected) => Served(selected)'
    BY <1>2, <1>3, <1>4 DEF Served, KeysFor
  <2>2. ~gone => Served(selected)'
    BY <1>2, <1>3, <1>4 DEF Served, KeysFor
  <2> QED BY <1>1, <1>2, <1>3, <2>1, <2>2 DEF KeyTold, KeysFor
<1> QED BY <1>5, <1>6, <1>7, <1>8, <1>9 DEF FlowInv

\* The next fallback is prepared or passed over.
LEMMA GoOnStep ==
  ASSUME FlowInv, GoOn
  PROVE  FlowInv'
<1>1. LoopInv /\ FlowTypeOK /\ Stages /\ Narrowed /\ KeyTold
  BY DEF FlowInv
<1>2. /\ \/ stage = "decide" /\ ~Halts(end) /\ tries' = Tried
         \/ stage = "skip" /\ tries' = tries
      /\ index < Len(Fallback) /\ index' = index + 1
      /\ pin' = NoKey /\ trail' = <<>> /\ encrypted' = whole
      /\ UNCHANGED <<type, session, direct, skip, ctxDone, filtering, selected, whole, gone, end, result>>
  BY DEF GoOn, Cleared, callVars
<1>3. /\ rpc' = "idle" /\ mode' = "none" /\ pool' = {} /\ retries' = 0 /\ attempts' = 0 /\ extra' = 0
      /\ key' = NoKey /\ used' = {} /\ dead' = {} /\ last' = "none" /\ stripped' = FALSE
      /\ pending' = 0 /\ outcome' = "none"
  BY DEF GoOn, Leave
<1>4. /\ stage' \in {"try", "skip"}
      /\ \/ Fallback[index + 1] \in Configured /\ at' = Rewritten(Fallback[index + 1])
         \/ at' = at
  BY DEF GoOn
<1>5. ~gone
  BY <1>1, <1>2 DEF Stages
<1>6. index \in Nat /\ Len(Fallback) \in Nat /\ index' \in 0..Len(Fallback) /\ index' > 0
  BY <1>1, <1>2, FallbackAssumption DEF FlowTypeOK
<1>7. /\ tries' \in Seq([at : Provider, end : {"none", "ok", "error", "final", "cancelled"},
                         served : BOOLEAN])
      /\ selected = NoKey \/ \E i \in DOMAIN tries' :
                               tries'[i].served /\ selected \in KeysFor(tries'[i].at)
  <2>1. CASE stage = "decide" /\ tries' = Tried
    BY <1>5, <2>1, TriedEffect
  <2>2. CASE stage = "skip" /\ tries' = tries
    <3>1. mode = "none"
      BY <1>1, <2>2 DEF Stages
    <3> QED BY <1>1, <2>2, <3>1 DEF KeyTold, Served, FlowTypeOK
  <2> QED BY <1>2, <2>1, <2>2
<1>8. LoopInv'
  <2>1. stripped' \in BOOLEAN /\ encrypted' \in BOOLEAN /\ filtering' \in BOOLEAN
    BY <1>1, <1>2, <1>3 DEF LoopInv, RetryTypeOK, FlowTypeOK
  <2>2. selected' \in Key \cup {NoKey} /\ trail' \in Seq(Attempt)
    BY <1>1, <1>2 DEF LoopInv, RetryTypeOK
  <2>3. RetryTypeOK'
    BY <1>3, <2>1, <2>2 DEF RetryTypeOK
  <2> QED BY <1>2, <1>3, <2>3, EmptyTrail
<1>9. FlowTypeOK'
  <2>1. at' \in Provider
    BY <1>1, <1>4 DEF FlowTypeOK, Rewritten, Provider
  <2> QED BY <1>1, <1>2, <1>4, <1>6, <1>7, <2>1 DEF FlowTypeOK
<1>10. Stages'
  BY <1>2, <1>3, <1>4, <1>5 DEF Stages
<1>11. Narrowed'
  BY <1>2, <1>3, <1>4, <1>6 DEF Narrowed
<1>12. KeyTold'
  BY <1>2, <1>3, <1>4, <1>7 DEF KeyTold, Served, KeysFor
<1> QED BY <1>8, <1>9, <1>10, <1>11, <1>12 DEF FlowInv

\* Every step of a request keeps the invariant.
LEMMA FlowStep ==
  ASSUME FlowInv, [FlowNext]_<<retryVars, callVars, flowVars>>
  PROVE  FlowInv'
<1>1. CASE UNCHANGED <<retryVars, callVars, flowVars>>
  <2>1. /\ UNCHANGED <<retryVars, index, at, pin, tries, session, direct, skip, type, stage, ctxDone, gone, whole,
                       result, end>>
        /\ UNCHANGED <<rpc, mode, outcome, trail, pool>>
    BY <1>1 DEF callVars, flowVars, retryVars
  <2>2. Stages'
    BY <2>1 DEF FlowInv, Stages
  <2>3. stage = "done" /\ ~gone => Served(selected)
    BY DEF FlowInv, KeyTold
  <2>4. /\ ctxDone' \in BOOLEAN /\ gone' \in BOOLEAN /\ whole' \in BOOLEAN /\ result' \in Nat
        /\ end' \in {"none", "ok", "error", "final", "cancelled"}
        /\ stage' \in {"start", "try", "worker", "decide", "skip", "done"}
    BY <2>1 DEF FlowInv, FlowTypeOK
  <2> QED BY <2>1, <2>2, <2>3, <2>4, CallerStep
<1>2. CASE FlowNext
  BY <1>2, StartStep, RefusedStep, DispatchStep, WorkStep, ReceiveStep, GiveUpStep,
     CtxDoneStep,
     StopStep, GoOnStep, ExhaustedStep DEF FlowNext
<1> QED BY <1>1, <1>2

(* The invariant of a request: the loop's position in its trail, the round *)
(* of rate limits, the stages of the caller and the worker, and where the  *)
(* selected key comes from.                                                *)
THEOREM FlowInvariant == FlowSpec => []FlowInv
<1>1. FlowInv /\ [FlowNext]_<<retryVars, callVars, flowVars>> => FlowInv'
  BY FlowStep
<1> QED BY <1>1, FlowStarts, PTL DEF FlowSpec

(* A key that was answered 401, 402 or 403 is never used again in the      *)
(* call, and an attempt that repeats the key of the one before has backed  *)
(* off unless the payload was changed (executeRequestWithRetries).         *)
THEOREM DeadKeysSpared == FlowSpec => []KeysSpared
<1>1. FlowInv => KeysSpared
  BY DEF FlowInv, LoopInv
<1> QED BY <1>1, FlowInvariant, PTL

(* TriggeredRotation is told of exactly the attempts that were followed by *)
(* one with another key, whatever the budget and the extra attempt.        *)
THEOREM RotationsTold == FlowSpec => []TrailTellsRotations
<1>1. FlowInv => TrailTellsRotations
  BY DEF FlowInv, LoopInv
<1> QED BY <1>1, FlowInvariant, PTL

(* Without a key pool filter no live key is rate limited twice before      *)
(* every other live key was once, for any number of keys and retries.      *)
THEOREM RateLimitsShared == FlowSpec => []LimitsShared
<1>1. ASSUME FlowInv PROVE LimitsShared
  <2> SUFFICES ASSUME mode = "rotating", ~filtering, NEW k \in Live, NEW l \in Live
               PROVE  Limits(k) <= Limits(l) + 1
    BY DEF LimitsShared
  <2>1. PICK r \in Nat : \A x \in Live : Limits(x) = r + (IF x \in used THEN 1 ELSE 0)
    BY <1>1 DEF FlowInv, LoopInv, Round
  <2>2. Limits(k) \in {r, r + 1} /\ Limits(l) \in {r, r + 1}
    BY <2>1
  <2> QED BY <2>2
<1> QED BY <1>1, FlowInvariant, PTL

(* A fallback has all the keys of its provider, whatever was pinned or     *)
(* sticky for the primary, and the trail is that of the provider of this   *)
(* try (clearCtxForFallback), for every list of fallbacks; only a direct   *)
(* key and a skipped selection go on from try to try.                      *)
THEOREM FallbacksStartClean == FlowSpec => []FallbackStartsClean
<1>1. ASSUME FlowInv PROVE FallbackStartsClean
  <2>1. LoopInv /\ FlowTypeOK /\ Narrowed
    BY <1>1 DEF FlowInv
  <2>2. index \in Nat /\ (index = 0 => at = Primary) /\ pool \subseteq KeysFor(at)
    BY <2>1, FallbackAssumption DEF FlowTypeOK, Narrowed
  <2>3. stage = "worker" /\ at # Primary => pool = KeysFor(at)
    BY <2>1, <2>2 DEF Narrowed
  <2>4. \A i \in DOMAIN trail : trail[i].key \in KeysFor(at)
    BY <2>1, <2>2 DEF LoopInv, Recorded
  <2>5. /\ direct = NoKey => KeysFor(at) \subseteq KeysOf[at]
        /\ direct = NoKey /\ ~(skip /\ at \in Skippable) => KeysFor(at) = KeysOf[at]
        /\ direct # NoKey => KeysFor(at) \subseteq {direct}
    BY DEF KeysFor
  <2> QED BY <2>2, <2>3, <2>4, <2>5 DEF FallbackStartsClean
<1> QED BY <1>1, FlowInvariant, PTL

(* When a request has ended, the selected key in its context is the direct *)
(* key or one of a provider, and a worker had an answer with it: a failed  *)
(* try leaves none behind (executeRequestWithRetries and handleRequest).   *)
THEOREM SelectedKeysServed == FlowSpec => []SelectedKeyServed
<1>1. FlowInv => SelectedKeyServed
  BY DEF FlowInv, KeyTold, Served, KeysFor, SelectedKeyServed
<1> QED BY <1>1, FlowInvariant, PTL

----------------------------------------------------------------------------
(* The order of the tries.                                                 *)

\* The fallbacks with a configuration, counted one by one.
LEMMA KnownEffect ==
  ASSUME NEW n \in Nat
  PROVE  /\ Known(n) \in Nat /\ Known(0) = 0
         /\ Known(n + 1) = Known(n) + (IF Fallback[n + 1] \in Configured THEN 1 ELSE 0)
<1> DEFINE S(m) == {j \in 1..m : Fallback[j] \in Configured}
<1>1. IsFiniteSet(S(n))
  <2>1. IsFiniteSet(1..n)
    BY FS_Interval
  <2> QED BY <2>1, FS_Subset
<1>2. n + 1 \notin S(n)
  OBVIOUS
<1>3. S(0) = {}
  OBVIOUS
<1>4. Fallback[n + 1] \in Configured => S(n + 1) = S(n) \cup {n + 1}
  OBVIOUS
<1>5. Fallback[n + 1] \notin Configured => S(n + 1) = S(n)
  OBVIOUS
<1>6. Known(n) = Cardinality(S(n)) /\ Known(n + 1) = Cardinality(S(n + 1)) /\ Known(0) = Cardinality(S(0))
  BY DEF Known
<1> HIDE DEF S
<1>7. Cardinality(S(n)) \in Nat /\ Cardinality(S(n) \cup {n + 1}) = Cardinality(S(n)) + 1
  BY <1>1, <1>2, FS_AddElement, FS_CardinalityType
<1>8. Cardinality(S(0)) = 0
  BY <1>3, FS_EmptySet
<1>9. CASE Fallback[n + 1] \in Configured
  BY <1>4, <1>6, <1>7, <1>8, <1>9
<1>10. CASE Fallback[n + 1] \notin Configured
  BY <1>5, <1>6, <1>7, <1>8, <1>10
<1> QED BY <1>9, <1>10

\* The try that ends is the next one in the request's order.
LEMMA TriedOrdered ==
  ASSUME FlowInv, Ordered, stage = "decide", tries' = Tried, UNCHANGED type
  PROVE  /\ Len(tries') = Len(tries) + 1 /\ Len(tries') = Known(index) + 1
         /\ Len(tries) \in Nat /\ DOMAIN tries' = 1..Len(tries')
         /\ tries'[Len(tries')].end = end
         /\ \A i \in DOMAIN tries' :
              /\ i = 1 => tries'[i].at = Primary
              /\ i > 1 => \E j \in DOMAIN Fallback :
                   /\ Fallback[j] \in Configured /\ Known(j) = i - 1
                   /\ tries'[i].at = IF type = "chat" THEN Fallback[j] ELSE Primary
              /\ i < Len(tries') => tries'[i].end = "error"
<1> DEFINE try == [at |-> at, end |-> end, served |-> outcome = "ok"]
           n == Len(tries)
<1>1. FlowTypeOK /\ Narrowed
  BY DEF FlowInv
<1>2. tries' = Append(tries, try)
  BY DEF Tried
<1>3. try.at = at /\ try.end = end
  OBVIOUS
<1> HIDE DEF try
<1>4. /\ Len(tries') = n + 1 /\ n \in Nat /\ DOMAIN tries = 1..n /\ DOMAIN tries' = 1..(n + 1)
      /\ \A i \in 1..n : tries'[i] = tries[i]
      /\ tries'[n + 1] = try
  BY <1>1, <1>2 DEF FlowTypeOK
<1>5. index \in 0..Len(Fallback) /\ Len(Fallback) \in Nat /\ DOMAIN Fallback = 1..Len(Fallback)
  BY <1>1, FallbackAssumption DEF FlowTypeOK
<1>6. Known(0) = 0 /\ Known(index) \in Nat
  BY <1>5, KnownEffect
<1>7. /\ \A i \in 1..n :
           /\ i = 1 => tries[i].at = Primary
           /\ i > 1 => \E j \in DOMAIN Fallback :
                /\ Fallback[j] \in Configured /\ Known(j) = i - 1
                /\ tries[i].at = IF type = "chat" THEN Fallback[j] ELSE Primary
           /\ tries[i].end = "error"
      /\ index = 0 => tries = <<>> /\ at = Primary
      /\ index > 0 => /\ Fallback[index] \in Configured /\ n = Known(index)
                      /\ at = IF type = "chat" THEN Fallback[index] ELSE Primary
  BY <1>4 DEF Ordered
<1> HIDE DEF n
<1>8. n = Known(index)
  <2>1. CASE index = 0
    BY <1>6, <1>7, <2>1 DEF n
  <2>2. CASE index > 0
    BY <1>7, <2>2
  <2> QED BY <1>5, <2>1, <2>2
<1>9. ASSUME NEW i \in 1..(n + 1)
      PROVE  /\ i = 1 => tries'[i].at = Primary
             /\ i > 1 => \E j \in DOMAIN Fallback :
                  /\ Fallback[j] \in Configured /\ Known(j) = i - 1
                  /\ tries'[i].at = IF type = "chat" THEN Fallback[j] ELSE Primary
             /\ i < n + 1 => tries'[i].end = "error"
  <2>1. CASE i \in 1..n
    BY <1>4, <1>7, <2>1
  <2>2. CASE i = n + 1 /\ index = 0
    BY <1>3, <1>4, <1>6, <1>7, <1>8, <2>2
  <2>3. CASE i = n + 1 /\ index > 0
    <3>1. index \in DOMAIN Fallback
      BY <1>5, <2>3
    <3>2. tries'[i].at = at /\ ~(i < n + 1)
      BY <1>3, <1>4, <2>3
    <3>3. n \in Nat \ {0}
      <4>1. PICK m \in Nat : index = m + 1
        BY <1>5, <2>3
      <4>2. Known(index) = Known(m) + 1 /\ Known(m) \in Nat
        BY <1>7, <2>3, <4>1, KnownEffect
      <4> QED BY <1>8, <4>2
    <3>4. Known(index) = i - 1 /\ i > 1
      BY <1>4, <1>8, <2>3, <3>3
    <3> QED BY <1>7, <2>3, <3>1, <3>2, <3>4
  <2> QED BY <1>4, <1>5, <2>1, <2>2, <2>3
<1>10. Len(tries') = Known(index) + 1 /\ tries'[Len(tries')].end = end
  BY <1>3, <1>4, <1>8
<1> QED BY <1>4, <1>9, <1>10 DEF n

\* The steps that add no try.
LEMMA OrderRests ==
  ASSUME Ordered, UNCHANGED <<type, index, at, tries, stage, result>>, stage = "decide" => end' = end
  PROVE  Ordered'
<1> QED BY DEF Ordered

\* The order is kept by every step of the caller.
LEMMA OrderStep ==
  ASSUME FlowInv, Ordered, [FlowNext]_<<retryVars, callVars, flowVars>>
  PROVE  Ordered'
<1>1. FlowTypeOK /\ Stages
  BY DEF FlowInv
<1>2. index \in Nat /\ index <= Len(Fallback) /\ Len(Fallback) \in Nat /\ Len(tries) \in Nat
  BY <1>1, FallbackAssumption DEF FlowTypeOK
<1>3. CASE UNCHANGED <<retryVars, callVars, flowVars>>
  BY <1>3, OrderRests DEF callVars, flowVars
<1>4. CASE Work
  BY <1>4, OrderRests DEF Work, callVars
<1>5. CASE CtxDone
  BY <1>5, OrderRests DEF CtxDone, flowVars
<1>6. CASE Start
  <2>1. /\ stage = "start" /\ stage' \in {"try", "done"}
        /\ UNCHANGED <<type, index, at, tries, end>>
    BY <1>6 DEF Start, callVars
  <2>2. index = 0 /\ tries = <<>> /\ at = Primary
    BY <2>1 DEF Ordered
  <2> QED BY <2>1, <2>2 DEF Ordered
<1>7. CASE Refused \/ Receive \/ GiveUp \/ Dispatch
  <2>1. /\ stage \in {"try", "worker"} /\ stage' \in {"worker", "decide"}
        /\ UNCHANGED <<type, index, at, tries>>
    BY <1>7 DEF Refused, Receive, GiveUp, Dispatch, callVars
  <2>2. stage' = "decide" => end' # "none"
    <3>1. CASE Refused
      BY <3>1 DEF Refused, Plugin, CtxDoneError
    <3>2. CASE Receive
      BY <3>2 DEF Receive, Plugin
    <3>3. CASE GiveUp
      BY <3>3 DEF GiveUp, CtxDoneError
    <3>4. CASE Dispatch
      BY <3>4 DEF Dispatch, Plugin
    <3> QED BY <1>7, <3>1, <3>2, <3>3, <3>4
  <2> QED BY <2>1, <2>2 DEF Ordered
<1>8. CASE Stop
  <2>1. /\ stage = "decide" /\ (Halts(end) \/ index = Len(Fallback))
        /\ tries' = Tried /\ stage' = "done" /\ result' = Returned
        /\ UNCHANGED <<type, index, at, end>>
    BY <1>8 DEF Stop, callVars
  <2>2. /\ Len(tries') = Len(tries) + 1 /\ Len(tries') = Known(index) + 1
        /\ DOMAIN tries' = 1..Len(tries') /\ tries'[Len(tries')].end = end
        /\ \A i \in DOMAIN tries' :
             /\ i = 1 => tries'[i].at = Primary
             /\ i > 1 => \E j \in DOMAIN Fallback :
                  /\ Fallback[j] \in Configured /\ Known(j) = i - 1
                  /\ tries'[i].at = IF type = "chat" THEN Fallback[j] ELSE Primary
             /\ i < Len(tries') => tries'[i].end = "error"
    BY <2>1, TriedOrdered
  <2>3. end \in {"ok", "error", "final", "cancelled"}
    BY <1>1, <2>1 DEF FlowTypeOK, Ordered
  <2>4. IF end = "error" THEN result' = 1 /\ Len(tries') = Known(Len(Fallback)) + 1
                         ELSE result' = Len(tries')
    BY <2>1, <2>2, <2>3 DEF Halts, Returned
  <2> QED BY <2>1, <2>2, <2>4 DEF Ordered
<1>9. CASE Exhausted
  <2>1. /\ stage = "skip" /\ index = Len(Fallback) /\ stage' = "done" /\ result' = 1
        /\ UNCHANGED <<type, index, at, end, tries>>
    BY <1>9 DEF Exhausted, callVars
  <2>2. Len(tries) = Known(index) + 1 /\ Len(tries) > 0
    BY <1>2, <2>1, KnownEffect DEF Ordered
  <2>3. Len(tries) \in DOMAIN tries
    BY <1>1, <2>2 DEF FlowTypeOK
  <2>4. tries[Len(tries)].end = "error"
    BY <2>1, <2>3 DEF Ordered
  <2> QED BY <2>1, <2>2, <2>4 DEF Ordered
<1>10. CASE GoOn
  <2>1. /\ \/ stage = "decide" /\ ~Halts(end) /\ tries' = Tried
           \/ stage = "skip" /\ tries' = tries
        /\ index' = index + 1 /\ index < Len(Fallback) /\ UNCHANGED <<type, end>>
        /\ \/ /\ Fallback[index + 1] \in Configured /\ stage' = "try"
              /\ at' = Rewritten(Fallback[index + 1])
           \/ Fallback[index + 1] \notin Configured /\ stage' = "skip"
    BY <1>10 DEF GoOn, callVars
  <2>2. /\ Len(tries') = Known(index) + 1
        /\ \A i \in DOMAIN tries' :
             /\ i = 1 => tries'[i].at = Primary
             /\ i > 1 => \E j \in DOMAIN Fallback :
                  /\ Fallback[j] \in Configured /\ Known(j) = i - 1
                  /\ tries'[i].at = IF type = "chat" THEN Fallback[j] ELSE Primary
             /\ tries'[i].end = "error"
    <3>1. CASE stage = "decide" /\ ~Halts(end) /\ tries' = Tried
      <4>1. end = "error"
        BY <1>1, <3>1 DEF FlowTypeOK, Ordered, Halts
      <4>2. /\ Len(tries') = Known(index) + 1 /\ Len(tries') = Len(tries) + 1
            /\ DOMAIN tries' = 1..Len(tries') /\ tries'[Len(tries')].end = end
            /\ \A i \in DOMAIN tries' :
                 /\ i = 1 => tries'[i].at = Primary
                 /\ i > 1 => \E j \in DOMAIN Fallback :
                      /\ Fallback[j] \in Configured /\ Known(j) = i - 1
                      /\ tries'[i].at = IF type = "chat" THEN Fallback[j] ELSE Primary
                 /\ i < Len(tries') => tries'[i].end = "error"
        BY <2>1, <3>1, TriedOrdered
      <4>3. \A i \in DOMAIN tries' : i < Len(tries') \/ i = Len(tries')
        BY <1>2, <4>2
      <4> QED BY <4>1, <4>2, <4>3
    <3>2. CASE stage = "skip" /\ tries' = tries
      BY <3>2 DEF Ordered
    <3> QED BY <2>1, <3>1, <3>2
  <2>3. /\ Known(index + 1) = Known(index) + (IF Fallback[index + 1] \in Configured THEN 1 ELSE 0)
        /\ Known(index) \in Nat
    BY <1>2, KnownEffect
  <2>4. index' > 0 /\ Known(index') = Known(index + 1) /\ Fallback[index'] = Fallback[index + 1]
    BY <1>2, <2>1
  <2>5. type' \in {"chat", "imageEdit"} /\ type' = type
    BY <1>1, <2>1, FallbackAssumption DEF FlowTypeOK
  <2>6. stage' = "try" => at' = IF type' = "chat" THEN Fallback[index'] ELSE Primary
    BY <2>1, <2>4, <2>5 DEF Rewritten
  <2>7. stage' = "try" => Fallback[index'] \in Configured /\ Len(tries') = Known(index')
    BY <2>1, <2>2, <2>3, <2>4
  <2>8. stage' = "skip" => Len(tries') = Known(index') + 1
    BY <2>1, <2>2, <2>3, <2>4
  <2>9. stage' \in {"try", "skip"} /\ index' # 0
    BY <2>1, <2>4
  <2> QED BY <2>2, <2>4, <2>5, <2>6, <2>7, <2>8, <2>9 DEF Ordered
<1> QED BY <1>3, <1>4, <1>5, <1>6, <1>7, <1>8, <1>9, <1>10 DEF FlowNext

(* A request is tried at its primary and then at its fallbacks with a      *)
(* configuration, in its order and none left out or tried twice, until one *)
(* try decides; it fails with the primary's error only when all of them    *)
(* failed (handleRequest and handleStreamRequest), for every list of       *)
(* fallbacks and every kind of request that prepareFallbackRequest copies. *)
THEOREM FallbacksInOrder == FlowSpec => [](type = "chat" => TriedInOrder)
<1>1. FlowInit => Ordered
  BY DEF FlowInit, Ordered
<1>2. FlowInv /\ Ordered /\ [FlowNext]_<<retryVars, callVars, flowVars>> => Ordered'
  BY OrderStep
<1>3. Ordered => (type = "chat" => TriedInOrder)
  BY DEF Ordered, TriedInOrder
<1> QED BY <1>1, <1>2, <1>3, FlowInvariant, PTL DEF FlowSpec

----------------------------------------------------------------------------
(* The plugins.                                                            *)

Place == {"new", "try", "refused", "send", "dropped", "wait", "left", "lost", "stream", "failed",
          "answered", "drain", "done"}

TriesTypeOK ==
  /\ llmPlugins \in Seq(Instance) /\ swaps \in 0..MaxSwaps
  /\ where \in [Call -> Place] /\ round \in [Call -> Nat] /\ chunks \in [Call -> Nat]
  /\ line \in [Call -> Seq(Instance)] /\ ran \in [Call -> Seq(Instance)]
  /\ cut \in [Call -> BOOLEAN] /\ count \in [Call -> Nat]
  /\ DOMAIN post = Call
  /\ steady \in [Call -> BOOLEAN] /\ foreign \in [Call -> BOOLEAN] /\ traced \in [Call -> BOOLEAN]

LogsTypeOK ==
  /\ root \in [Call -> Store \cup {Nil}] /\ logPool \subseteq Store
  /\ log \in [Store -> SUBSET Call] /\ attached \in [Call -> SUBSET Call]

(* A store is in the pool, or of one context, which alone logs in it.      *)
Owned ==
  /\ \A c, d \in Call : root[c] # Nil /\ root[c] = root[d] => c = d
  /\ \A c \in Call : root[c] \notin logPool
  /\ \A s \in Store : log[s] \subseteq {c \in Call : root[c] = s}
  /\ \A c \in Call : attached[c] \subseteq {c}

(* A refused request, and a traced one whose try has ended, has no store.  *)
Finished(c) == where[c] = "refused" \/ (where[c] = "done" /\ traced[c])

Drained == \A c \in Call : Finished(c) => root[c] = Nil

(* What a pipeline has of the plugins whose pre hooks ran, and how many    *)
(* the request counts of them.                                             *)
Nested(c) ==
  /\ where[c] \notin {"new", "try", "refused"} => round[c] > 0
  /\ where[c] \in {"send", "wait", "left", "lost"} => ~cut[c]
  /\ cut[c] => ~foreign[c] /\ Len(ran[c]) <= Len(line[c]) /\ ran[c] = SubSeq(line[c], 1, Len(ran[c]))
  /\ ~cut[c] /\ ~foreign[c] => line[c] = ran[c]
  /\ ~cut[c] /\ steady[c] /\ round[c] > 0 => ran[c] = llmPlugins /\ line[c] = ran[c]
  /\ where[c] \in {"wait", "left", "answered", "stream", "failed"} /\ ~cut[c] /\ steady[c] =>
       count[c] = Len(ran[c])
  /\ post[c] # Nil =>
       /\ cut[c] \/ steady[c] => post[c] = Reverse(ran[c])
       /\ ~foreign[c] => post[c] = Reverse(SubSeq(ran[c], 1, Len(post[c])))

PluginInv == TriesTypeOK /\ LogsTypeOK /\ Owned /\ Drained /\ \A c \in Call : Nested(c)

\* A list of plugins can be made of any configured names.
LEMMA ListMade ==
  ASSUME NEW S, IsFiniteSet(S)
  PROVE  SetToSeq(S) \in Seq(S)
<1> DEFINE n == Cardinality(S)
<1>1. n \in Nat /\ ExistsBijection(1..n, S)
  BY FS_CardinalityType
<1>2. \E f \in [1..n -> S] : IsInjective(f)
  BY <1>1 DEF ExistsBijection, Bijection, Injection
<1>3. SetToSeq(S) \in [1..n -> S]
  BY <1>2 DEF SetToSeq
<1> QED BY <1>1, <1>3

\* n hooks of c run: they log in a store of its own.
LEMMA HooksEffect ==
  ASSUME LogsTypeOK, Owned, NEW c \in Call, NEW n, Hooks(c, n), attached' = attached
  PROVE  /\ root' \in [Call -> Store \cup {Nil}] /\ logPool' \subseteq Store
         /\ log' \in [Store -> SUBSET Call]
         /\ Owned' /\ \A d \in Call \ {c} : root'[d] = root[d]
<1>1. CASE n = 0
  <2>1. root' = root /\ logPool' = logPool /\ log' = log
    BY <1>1 DEF Hooks, logVars
  <2> QED BY <2>1 DEF LogsTypeOK, Owned
<1>2. CASE n # 0
  <2>1. PICK s \in Store :
          /\ IF root[c] # Nil THEN s = root[c] ELSE s \in logPool
          /\ root' = [root EXCEPT ![c] = s] /\ logPool' = logPool \ {s}
          /\ log' = [log EXCEPT ![s] = @ \cup {c}]
    BY <1>2 DEF Hooks
  <2>2. /\ root \in [Call -> Store \cup {Nil}] /\ logPool \subseteq Store
        /\ log \in [Store -> SUBSET Call] /\ s # Nil
    BY PluginAssumption DEF LogsTypeOK
  <2>3. root'[c] = s /\ \A d \in Call \ {c} : root'[d] = root[d]
    BY <2>1, <2>2
  <2>4. log'[s] = log[s] \cup {c} /\ \A t \in Store \ {s} : log'[t] = log[t]
    BY <2>1, <2>2
  <2>5. \A d \in Call \ {c} : root[d] # s
    BY <2>1, <2>2 DEF Owned
  <2>6. root' \in [Call -> Store \cup {Nil}] /\ logPool' \subseteq Store /\ log' \in [Store -> SUBSET Call]
    BY <2>1, <2>2
  <2>7. \A d, e \in Call : root'[d] # Nil /\ root'[d] = root'[e] => d = e
    BY <2>3, <2>5 DEF Owned
  <2>8. \A d \in Call : root'[d] \notin logPool'
    BY <2>1, <2>3 DEF Owned
  <2>9. ASSUME NEW t \in Store PROVE log'[t] \subseteq {d \in Call : root'[d] = t}
    <3>1. log[t] \subseteq {d \in Call : root[d] = t}
      BY DEF Owned
    <3>2. CASE t = s
      BY <2>2, <2>3, <2>4, <3>1, <3>2
    <3>3. CASE t # s
      <4>1. log'[t] = log[t] /\ c \notin log[t]
        BY <2>1, <2>4, <3>1, <3>3, PluginAssumption
      <4> QED BY <2>3, <3>1, <4>1
    <3> QED BY <3>2, <3>3
  <2> QED BY <2>3, <2>6, <2>7, <2>8, <2>9 DEF Owned
<1> QED BY <1>1, <1>2

\* The entries go to the trace of their own request, and the store to the pool.
LEMMA DrainEffect ==
  ASSUME LogsTypeOK, Owned, NEW c \in Call, DrainPluginLogs(c)
  PROVE  /\ root' \in [Call -> Store \cup {Nil}] /\ logPool' \subseteq Store
         /\ log' \in [Store -> SUBSET Call] /\ attached' \in [Call -> SUBSET Call]
         /\ Owned' /\ root'[c] = Nil /\ \A d \in Call \ {c} : root'[d] = root[d]
<1>1. /\ root \in [Call -> Store \cup {Nil}] /\ logPool \subseteq Store /\ Nil \notin Store
      /\ log \in [Store -> SUBSET Call] /\ attached \in [Call -> SUBSET Call]
  BY PluginAssumption DEF LogsTypeOK
<1>2. CASE root[c] = Nil
  <2>1. root' = root /\ logPool' = logPool /\ log' = log /\ attached' = attached
    BY <1>2 DEF DrainPluginLogs, logVars
  <2> QED BY <1>1, <1>2, <2>1 DEF Owned
<1>3. CASE root[c] # Nil
  <2> DEFINE s == root[c]
  <2>1. /\ attached' \in {attached, [attached EXCEPT ![c] = @ \cup log[s]]}
        /\ log' = [log EXCEPT ![s] = {}]
        /\ logPool' = logPool \cup {s} /\ root' = [root EXCEPT ![c] = Nil]
    BY <1>3 DEF DrainPluginLogs, Attach
  <2>2. s \in Store
    BY <1>1, <1>3
  <2>3. log[s] \subseteq {c}
    BY <1>3, <2>2 DEF Owned
  <2>4. \A d \in Call \ {c} : root[d] # s
    BY <1>3 DEF Owned
  <2>5. root'[c] = Nil /\ \A d \in Call \ {c} : root'[d] = root[d]
    BY <1>1, <2>1
  <2> HIDE DEF s
  <2>6. log'[s] = {} /\ \A t \in Store \ {s} : log'[t] = log[t]
    BY <1>1, <2>1, <2>2
  <2>7. attached'[c] \subseteq attached[c] \cup log[s] /\ \A d \in Call \ {c} : attached'[d] = attached[d]
    BY <1>1, <2>1
  <2>8. /\ root' \in [Call -> Store \cup {Nil}] /\ logPool' \subseteq Store
        /\ log' \in [Store -> SUBSET Call]
    BY <1>1, <2>1, <2>2
  <2>9. attached' \in [Call -> SUBSET Call]
    BY <1>1, <2>1, <2>2
  <2>10. \A d, e \in Call : root'[d] # Nil /\ root'[d] = root'[e] => d = e
    BY <2>5 DEF Owned
  <2>11. \A d \in Call : root'[d] \notin logPool'
    BY <1>1, <2>1, <2>2, <2>4, <2>5 DEF Owned
  <2>12. ASSUME NEW t \in Store PROVE log'[t] \subseteq {d \in Call : root'[d] = t}
    <3>1. CASE t = s
      BY <2>6, <3>1
    <3>2. CASE t # s
      <4>1. log'[t] = log[t] /\ log[t] \subseteq {d \in Call : root[d] = t}
        BY <2>6, <3>2 DEF Owned
      <4>2. c \notin log[t]
        BY <3>2, <4>1 DEF s
      <4> QED BY <2>5, <4>1, <4>2
    <3> QED BY <3>1, <3>2
  <2>13. \A d \in Call : attached'[d] \subseteq {d}
    BY <2>3, <2>7 DEF Owned
  <2> QED BY <2>5, <2>8, <2>9, <2>10, <2>11, <2>12, <2>13 DEF Owned
<1> QED BY <1>2, <1>3

\* The first n members of a list, and a list turned round.
LEMMA PrefixEffect ==
  ASSUME NEW s \in Seq(Instance), NEW n \in 0..Len(s)
  PROVE  /\ SubSeq(s, 1, n) \in Seq(Instance) /\ Len(SubSeq(s, 1, n)) = n
         /\ SubSeq(SubSeq(s, 1, n), 1, n) = SubSeq(s, 1, n)
         /\ SubSeq(s, 1, Len(s)) = s
         /\ Len(Reverse(s)) = Len(s)
<1>1. ASSUME NEW t \in Seq(Instance) PROVE SubSeq(t, 1, Len(t)) = t
  <2>1. /\ SubSeq(t, 1, Len(t)) \in Seq(Instance) /\ Len(SubSeq(t, 1, Len(t))) = Len(t)
        /\ \A i \in 1..Len(t) : SubSeq(t, 1, Len(t))[i] = t[i]
    OBVIOUS
  <2> QED BY <2>1, SeqEqual
<1>2. SubSeq(s, 1, n) \in Seq(Instance) /\ Len(SubSeq(s, 1, n)) = n
  OBVIOUS
<1>3. SubSeq(SubSeq(s, 1, n), 1, n) = SubSeq(s, 1, n)
  BY <1>1, <1>2
<1>4. Len(Reverse(s)) = Len(s)
  BY DEF Reverse
<1> QED BY <1>1, <1>2, <1>3, <1>4

\* A step of c leaves what the others hold alone.
OthersRest(c) ==
  \A d \in Call \ {c} :
    /\ root'[d] = root[d] /\ round'[d] = round[d] /\ line'[d] = line[d] /\ ran'[d] = ran[d]
    /\ cut'[d] = cut[d] /\ count'[d] = count[d] /\ post'[d] = post[d]
    /\ steady'[d] = steady[d] /\ foreign'[d] = foreign[d]

(* A step of one call leaves the others alone.                             *)
LEMMA CallStep ==
  ASSUME PluginInv, UNCHANGED traced, NEW c \in Call, NEW l, GoTo(c, l), UNCHANGED llmPlugins,
         TriesTypeOK', LogsTypeOK', Owned',
         l = "refused" \/ (l = "done" /\ traced[c]) => root'[c] = Nil, Nested(c)',
         OthersRest(c)
  PROVE  PluginInv'
<1>1. where'[c] = l /\ \A d \in Call \ {c} : where'[d] = where[d]
  BY DEF PluginInv, TriesTypeOK, GoTo
<1>2. Drained'
  BY <1>1 DEF PluginInv, Drained, Finished, OthersRest
<1>3. ASSUME NEW d \in Call PROVE Nested(d)'
  <2>1. CASE d = c
    BY <2>1
  <2>2. CASE d # c
    BY <1>1, <2>2 DEF PluginInv, Nested, OthersRest
  <2> QED BY <2>1, <2>2
<1> QED BY <1>2, <1>3 DEF PluginInv

\* What a step that logs nothing leaves of the types.
LEMMA LogsRest ==
  ASSUME PluginInv, UNCHANGED <<logVars, attached>>
  PROVE  LogsTypeOK' /\ Owned' /\ root' = root
<1>1. UNCHANGED <<root, logPool, log, attached>>
  BY DEF logVars
<1> QED BY <1>1 DEF PluginInv, LogsTypeOK, Owned

\* The steps that only move a call on.
LEMMA MoveStep ==
  ASSUME PluginInv, UNCHANGED traced, NEW c \in Call, NEW l \in Place, GoTo(c, l),
         UNCHANGED <<llmPlugins, swaps, tryVars, post, steady, logVars, attached>>,
         l \notin {"done", "refused"},
         l = "try" \/ where[c] \notin {"new", "try", "refused"},
         l \in {"left", "lost"} => where[c] \in {"send", "wait", "left", "lost"},
         l \notin {"send", "wait", "stream", "failed"},
         l \in {"left", "answered"} => where[c] = "wait"
  PROVE  PluginInv'
<1>1. UNCHANGED <<llmPlugins, swaps, round, chunks, line, ran, cut, count, foreign, post, steady>>
  BY DEF tryVars
<1>2. LogsTypeOK' /\ Owned' /\ root' = root
  BY LogsRest
<1>3. TriesTypeOK'
  BY <1>1 DEF PluginInv, TriesTypeOK, GoTo
<1>4. where'[c] = l /\ Nested(c)
  BY DEF PluginInv, TriesTypeOK, GoTo
<1>5. Nested(c)'
  BY <1>1, <1>4 DEF Nested
<1>6. OthersRest(c)
  BY <1>1, <1>2 DEF OthersRest
<1> QED BY <1>1, <1>2, <1>3, <1>5, <1>6, CallStep

\* A call is dropped, answered, left, lost, cut off or tried again.
LEMMA MovesStep ==
  ASSUME PluginInv, UNCHANGED traced, NEW c \in Call,
         Dropped(c) \/ Answered(c) \/ CutStreamEnds(c) \/ Depart(c) \/ TryFallback(c)
  PROVE  PluginInv'
<1>1. UNCHANGED <<llmPlugins, swaps, tryVars, post, steady, logVars, attached>>
  BY DEF Dropped, Answered, CutStreamEnds, Depart, TryFallback
<1>2. \/ where[c] = "send" /\ GoTo(c, "dropped")
      \/ where[c] = "wait" /\ GoTo(c, "answered")
      \/ where[c] = "stream" /\ GoTo(c, "drain")
      \/ where[c] = "wait" /\ (GoTo(c, "left") \/ GoTo(c, "lost"))
      \/ GoTo(c, "try")
  BY DEF Dropped, Answered, CutStreamEnds, Depart, TryFallback, From
<1>3. CASE where[c] = "send" /\ GoTo(c, "dropped")
  BY <1>1, <1>3, MoveStep DEF Place
<1>4. CASE where[c] = "wait" /\ GoTo(c, "answered")
  BY <1>1, <1>4, MoveStep DEF Place
<1>5. CASE where[c] = "stream" /\ GoTo(c, "drain")
  BY <1>1, <1>5, MoveStep DEF Place
<1>6. CASE where[c] = "wait" /\ GoTo(c, "left")
  BY <1>1, <1>6, MoveStep DEF Place
<1>7. CASE where[c] = "wait" /\ GoTo(c, "lost")
  BY <1>1, <1>7, MoveStep DEF Place
<1>8. CASE GoTo(c, "try")
  BY <1>1, <1>8, MoveStep DEF Place
<1> QED BY <1>2, <1>3, <1>4, <1>5, <1>6, <1>7, <1>8

\* The hooks before the request's first try.
LEMMA PreRequestHooksStep ==
  ASSUME PluginInv, UNCHANGED traced, NEW c \in Call, PreRequestHooks(c)
  PROVE  PluginInv'
<1>1. TriesTypeOK /\ LogsTypeOK /\ Owned /\ Nested(c)
  BY DEF PluginInv
<1>2. /\ where[c] = "new" /\ GoTo(c, "try") /\ Hooks(c, Len(llmPlugins)) /\ attached' = attached
      /\ UNCHANGED <<llmPlugins, swaps, round, chunks, line, ran, cut, count, foreign, post, steady>>
  BY DEF PreRequestHooks, From, tryVars
<1>3. LogsTypeOK' /\ Owned' /\ \A d \in Call \ {c} : root'[d] = root[d]
  BY <1>1, <1>2, HooksEffect DEF LogsTypeOK
<1>4. TriesTypeOK'
  BY <1>1, <1>2 DEF TriesTypeOK, GoTo, Place
<1>5. where'[c] = "try"
  BY <1>1, <1>2 DEF TriesTypeOK, GoTo, Place
<1>6. Nested(c)'
  BY <1>1, <1>2, <1>5 DEF Nested
<1>7. OthersRest(c)
  BY <1>2, <1>3 DEF OthersRest
<1> QED BY <1>2, <1>3, <1>4, <1>6, <1>7, CallStep

\* A request without a provider.
LEMMA UnresolvedStep ==
  ASSUME PluginInv, UNCHANGED traced, NEW c \in Call, Unresolved(c)
  PROVE  PluginInv'
<1>1. TriesTypeOK /\ LogsTypeOK /\ Owned /\ Nested(c)
  BY DEF PluginInv
<1>2. /\ where[c] = "try" /\ GoTo(c, "refused") /\ DrainPluginLogs(c)
      /\ UNCHANGED <<llmPlugins, swaps, round, chunks, line, ran, cut, count, foreign, post, steady>>
  BY DEF Unresolved, From, tryVars
<1>3. LogsTypeOK' /\ Owned' /\ root'[c] = Nil /\ \A d \in Call \ {c} : root'[d] = root[d]
  BY <1>1, <1>2, DrainEffect DEF LogsTypeOK
<1>4. TriesTypeOK'
  BY <1>1, <1>2 DEF TriesTypeOK, GoTo, Place
<1>5. where'[c] = "refused"
  BY <1>1, <1>2 DEF TriesTypeOK, GoTo, Place
<1>6. Nested(c)'
  BY <1>1, <1>2, <1>5 DEF Nested
<1>7. OthersRest(c)
  BY <1>2, <1>3 DEF OthersRest
<1> QED BY <1>2, <1>3, <1>4, <1>6, <1>7, CallStep

\* A try begins with the list as it is, and runs the pre hooks of all plugins or of some.
LEMMA PreHooksStep ==
  ASSUME PluginInv, UNCHANGED traced, NEW c \in Call, NEW n \in 0..Len(llmPlugins), NEW short \in BOOLEAN,
         PreHooks(c, n, short)
  PROVE  PluginInv'
<1>1. TriesTypeOK /\ LogsTypeOK /\ Owned /\ Nested(c)
  BY DEF PluginInv
<1>2. PICK l \in {"answered", "send", "stream"} : GoTo(c, l) /\ (l = "send" <=> ~short)
  BY DEF PreHooks
<1>3. /\ IF short THEN n > 0 ELSE n = Len(llmPlugins)
      /\ round' = [round EXCEPT ![c] = @ + 1]
      /\ line' = [line EXCEPT ![c] = llmPlugins]
      /\ ran' = [ran EXCEPT ![c] = SubSeq(llmPlugins, 1, n)] /\ cut' = [cut EXCEPT ![c] = short]
      /\ steady' = [steady EXCEPT ![c] = TRUE] /\ foreign' = [foreign EXCEPT ![c] = FALSE]
      /\ post' = [post EXCEPT ![c] = Nil] /\ chunks' = [chunks EXCEPT ![c] = 0] /\ Hooks(c, n)
      /\ UNCHANGED <<llmPlugins, swaps, count>> /\ attached' = attached
  BY DEF PreHooks
<1>4. LogsTypeOK' /\ Owned' /\ \A d \in Call \ {c} : root'[d] = root[d]
  BY <1>1, <1>3, HooksEffect DEF LogsTypeOK
<1>5. llmPlugins \in Seq(Instance)
  BY <1>1 DEF TriesTypeOK
<1>6. /\ SubSeq(llmPlugins, 1, n) \in Seq(Instance) /\ Len(SubSeq(llmPlugins, 1, n)) = n
      /\ ~short => SubSeq(llmPlugins, 1, n) = llmPlugins
  BY <1>3, <1>5, PrefixEffect
<1>7. where' \in [Call -> Place] /\ where'[c] = l
  BY <1>1, <1>2 DEF TriesTypeOK, GoTo, Place
<1>8. /\ round' \in [Call -> Nat] /\ chunks' \in [Call -> Nat]
      /\ line' \in [Call -> Seq(Instance)] /\ ran' \in [Call -> Seq(Instance)]
      /\ DOMAIN post' = Call
  BY <1>1, <1>3, <1>5, <1>6 DEF TriesTypeOK
<1>9. cut' \in [Call -> BOOLEAN] /\ steady' \in [Call -> BOOLEAN] /\ foreign' \in [Call -> BOOLEAN]
  BY <1>1, <1>3 DEF TriesTypeOK
<1>10. TriesTypeOK'
  BY <1>1, <1>3, <1>7, <1>8, <1>9 DEF TriesTypeOK
<1>11. /\ round'[c] = round[c] + 1 /\ line'[c] = llmPlugins /\ ran'[c] = SubSeq(llmPlugins, 1, n)
       /\ (cut'[c] <=> short) /\ ~foreign'[c] /\ post'[c] = Nil /\ round[c] \in Nat
  BY <1>1, <1>3 DEF TriesTypeOK
<1>12. n <= Len(llmPlugins)
  BY <1>5
<1>13. Nested(c)'
  <2>1. round'[c] > 0
    BY <1>11
  <2>2. CASE short
    <3>1. where'[c] \in {"answered", "stream"} /\ cut'[c]
      BY <1>2, <1>7, <1>11, <2>2
    <3>2. Len(ran'[c]) = n /\ ran'[c] = SubSeq(line'[c], 1, n) /\ Len(line'[c]) = Len(llmPlugins)
      BY <1>6, <1>11
    <3> QED BY <1>11, <1>12, <2>1, <3>1, <3>2 DEF Nested
  <2>3. CASE ~short
    <3>1. where'[c] = "send" /\ ~cut'[c]
      BY <1>2, <1>7, <1>11, <2>3
    <3>2. ran'[c] = llmPlugins /\ line'[c] = llmPlugins /\ llmPlugins' = llmPlugins
      BY <1>3, <1>6, <1>11, <2>3
    <3> QED BY <1>11, <2>1, <3>1, <3>2 DEF Nested
  <2> QED BY <2>2, <2>3
<1>14. OthersRest(c)
  BY <1>1, <1>3, <1>4 DEF TriesTypeOK, OthersRest
<1> QED BY <1>2, <1>3, <1>4, <1>10, <1>13, <1>14, CallStep

\* The queue takes the request, and the plugins are counted.
LEMMA EnqueueStep ==
  ASSUME PluginInv, UNCHANGED traced, NEW c \in Call, Enqueue(c)
  PROVE  PluginInv'
<1>1. TriesTypeOK /\ Nested(c)
  BY DEF PluginInv
<1>2. /\ where[c] = "send" /\ GoTo(c, "wait") /\ count' = [count EXCEPT ![c] = Len(llmPlugins)]
      /\ UNCHANGED <<llmPlugins, swaps, round, chunks, line, ran, cut, foreign, post, steady>>
      /\ UNCHANGED <<logVars, attached>>
  BY DEF Enqueue, From
<1>3. LogsTypeOK' /\ Owned' /\ root' = root
  BY <1>2, LogsRest
<1>4. Len(llmPlugins) \in Nat
  BY <1>1 DEF TriesTypeOK
<1>5. TriesTypeOK' /\ where'[c] = "wait" /\ count'[c] = Len(llmPlugins)
  BY <1>1, <1>2, <1>4 DEF TriesTypeOK, GoTo, Place
<1>6. Nested(c)'
  BY <1>1, <1>2, <1>5 DEF Nested
<1>7. OthersRest(c)
  BY <1>1, <1>2, <1>3 DEF TriesTypeOK, OthersRest
<1> QED BY <1>2, <1>3, <1>5, <1>6, <1>7, CallStep

(* Where the post hooks run, they run over the plugins whose pre hooks     *)
(* ran, in reverse order, unless the list has changed; on the caller's own *)
(* pipeline over a prefix of them in any case.                             *)
LEMMA PostHooksEffect ==
  ASSUME PluginInv, NEW c \in Call, where[c] \in {"answered", "stream"}, PostHooks(c)
  PROVE  /\ DOMAIN post' = Call /\ \A d \in Call \ {c} : post'[d] = post[d]
         /\ cut[c] \/ steady[c] => post'[c] = Reverse(ran[c])
         /\ ~foreign[c] => post'[c] = Reverse(SubSeq(ran[c], 1, Len(post'[c])))
<1> DEFINE n == IF RunFrom(c) < Len(line[c]) THEN RunFrom(c) ELSE Len(line[c])
<1>1. TriesTypeOK /\ Nested(c)
  BY DEF PluginInv
<1>2. /\ line[c] \in Seq(Instance) /\ ran[c] \in Seq(Instance) /\ count[c] \in Nat
      /\ Len(line[c]) \in Nat /\ Len(ran[c]) \in Nat /\ Len(llmPlugins) \in Nat
  BY <1>1 DEF TriesTypeOK
<1>3. post' = [post EXCEPT ![c] = Reverse(SubSeq(line[c], 1, n))]
  BY DEF PostHooks
<1>4. post'[c] = Reverse(SubSeq(line[c], 1, n)) /\ DOMAIN post' = Call
      /\ \A d \in Call \ {c} : post'[d] = post[d]
  BY <1>1, <1>3 DEF TriesTypeOK
<1>5. round[c] > 0
  BY <1>1 DEF Nested
<1>6. RunFrom(c) \in Nat
  BY <1>2 DEF RunFrom
<1>7. n \in 0..Len(line[c])
  BY <1>2, <1>6
<1>8. Len(post'[c]) = n
  <2> DEFINE p == SubSeq(line[c], 1, n)
  <2>1. p \in Seq(Instance) /\ Len(p) = n
    BY <1>2, <1>7, PrefixEffect
  <2>2. post'[c] = Reverse(p)
    BY <1>4
  <2> HIDE DEF p
  <2>3. 0 \in 0..Len(p)
    BY <2>1
  <2>4. Len(Reverse(p)) = Len(p)
    BY <2>1, <2>3, PrefixEffect
  <2> QED BY <2>1, <2>2, <2>4
<1>9. CASE cut[c]
  <2>1. /\ ~foreign[c] /\ Len(ran[c]) <= Len(line[c]) /\ ran[c] = SubSeq(line[c], 1, Len(ran[c]))
    BY <1>1, <1>9 DEF Nested
  <2>2. n = Len(ran[c])
    BY <1>2, <1>9, <2>1 DEF RunFrom
  <2>3. post'[c] = Reverse(ran[c])
    BY <1>4, <2>1, <2>2
  <2>4. SubSeq(ran[c], 1, n) = ran[c]
    BY <1>2, <2>2, PrefixEffect
  <2> QED BY <1>4, <1>8, <2>3, <2>4
<1>10. CASE ~cut[c]
  <2>1. steady[c] => ran[c] = llmPlugins /\ line[c] = ran[c] /\ count[c] = Len(ran[c])
    BY <1>1, <1>5, <1>10 DEF Nested
  <2>2. ASSUME steady[c] PROVE post'[c] = Reverse(ran[c])
    <3>1. n = Len(ran[c])
      BY <1>2, <1>10, <2>1, <2>2 DEF RunFrom
    <3>2. SubSeq(ran[c], 1, Len(ran[c])) = ran[c]
      BY <1>2, PrefixEffect
    <3> QED BY <1>4, <2>1, <2>2, <3>1, <3>2
  <2>3. ASSUME ~foreign[c] PROVE post'[c] = Reverse(SubSeq(ran[c], 1, Len(post'[c])))
    <3>1. line[c] = ran[c]
      BY <1>1, <1>10, <2>3 DEF Nested
    <3> QED BY <1>4, <1>8, <3>1
  <2> QED BY <1>4, <1>10, <2>2, <2>3
<1> QED BY <1>9, <1>10

(* The post hooks for an answer or a chunk, after which the call goes on.  *)
LEMMA PostHooksStep ==
  ASSUME PluginInv, UNCHANGED traced, NEW c \in Call, where[c] \in {"answered", "stream"}, PostHooks(c),
         NEW l \in {"drain", "failed", "stream"}, GoTo(c, l), l # "drain" => where[c] = "stream",
         chunks' \in [Call -> Nat]
  PROVE  PluginInv'
<1> DEFINE n == IF RunFrom(c) < Len(line[c]) THEN RunFrom(c) ELSE Len(line[c])
<1>1. TriesTypeOK /\ LogsTypeOK /\ Owned /\ Nested(c)
  BY DEF PluginInv
<1>2. /\ Hooks(c, n) /\ attached' = attached
      /\ UNCHANGED <<llmPlugins, swaps, round, line, ran, cut, count, foreign, steady>>
  BY DEF PostHooks
<1> HIDE DEF n
<1>3. LogsTypeOK' /\ Owned' /\ \A d \in Call \ {c} : root'[d] = root[d]
  BY <1>1, <1>2, HooksEffect DEF LogsTypeOK
<1>4. /\ DOMAIN post' = Call /\ \A d \in Call \ {c} : post'[d] = post[d]
      /\ cut[c] \/ steady[c] => post'[c] = Reverse(ran[c])
      /\ ~foreign[c] => post'[c] = Reverse(SubSeq(ran[c], 1, Len(post'[c])))
  BY PostHooksEffect
<1>5. TriesTypeOK' /\ where'[c] = l
  BY <1>1, <1>2, <1>4 DEF TriesTypeOK, GoTo, Place
<1>6. Nested(c)'
  BY <1>1, <1>2, <1>4, <1>5 DEF Nested
<1>7. OthersRest(c)
  BY <1>2, <1>3, <1>4 DEF OthersRest
<1> QED BY <1>2, <1>3, <1>5, <1>6, <1>7, CallStep

\* An answer, or a chunk of a stream.
LEMMA AnswersStep ==
  ASSUME PluginInv, UNCHANGED traced, NEW c \in Call, Complete(c) \/ Chunk(c)
  PROVE  PluginInv'
<1>1. chunks \in [Call -> Nat] /\ where \in [Call -> Place]
  BY DEF PluginInv, TriesTypeOK
<1>2. CASE Complete(c)
  <2>1. where[c] = "answered" /\ GoTo(c, "drain") /\ PostHooks(c) /\ chunks' = chunks
    BY <1>2 DEF Complete, From
  <2> QED BY <1>1, <2>1, PostHooksStep
<1>3. CASE Chunk(c)
  <2>1. where[c] = "stream" /\ PostHooks(c)
    BY <1>3 DEF Chunk, From
  <2>2. chunks' \in [Call -> Nat]
    BY <1>1, <1>3 DEF Chunk
  <2>3. \E l \in {"drain", "failed", "stream"} : GoTo(c, l)
    <3>1. CASE UNCHANGED where
      <4>1. where' = [where EXCEPT ![c] = "stream"]
        BY <1>1, <2>1, <3>1
      <4> QED BY <4>1 DEF GoTo
    <3> QED BY <1>3, <3>1 DEF Chunk
  <2> QED BY <2>1, <2>2, <2>3, PostHooksStep
<1> QED BY <1>2, <1>3

\* A try ends, or the error of a failed stream goes to the caller's pipeline.
LEMMA AttachLogsStep ==
  ASSUME PluginInv, UNCHANGED traced, NEW c \in Call, AttachLogs(c)
  PROVE  PluginInv'
<1>1. TriesTypeOK /\ LogsTypeOK /\ Owned /\ Nested(c)
  BY DEF PluginInv
<1>2. DrainAndAttach(c) /\ UNCHANGED <<llmPlugins, swaps, round, chunks, ran, cut, count, steady>>
  BY DEF AttachLogs
<1>3. /\ LogsTypeOK' /\ Owned' /\ (traced[c] => root'[c] = Nil)
      /\ \A d \in Call \ {c} : root'[d] = root[d]
  <2>1. CASE traced[c]
    <3>1. DrainPluginLogs(c)
      BY <1>2, <2>1 DEF DrainAndAttach
    <3> QED BY <1>1, <3>1, DrainEffect DEF LogsTypeOK
  <2>2. CASE ~traced[c]
    <3>1. UNCHANGED <<logVars, attached>>
      BY <1>2, <2>2 DEF DrainAndAttach
    <3> QED BY <2>2, <3>1, LogsRest
  <2> QED BY <2>1, <2>2
<1>4. CASE where[c] = "drain" /\ GoTo(c, "done") /\ UNCHANGED <<line, foreign, post>>
  <2>1. TriesTypeOK' /\ where'[c] = "done"
    BY <1>1, <1>2, <1>4 DEF TriesTypeOK, GoTo, Place
  <2>2. Nested(c)'
    BY <1>1, <1>2, <1>4, <2>1 DEF Nested
  <2>3. OthersRest(c)
    BY <1>2, <1>3, <1>4 DEF OthersRest
  <2> QED BY <1>2, <1>3, <1>4, <2>1, <2>2, <2>3, CallStep
<1>5. CASE /\ where[c] = "failed" /\ GoTo(c, "answered")
           /\ line' = [line EXCEPT ![c] = ran[c]] /\ foreign' = [foreign EXCEPT ![c] = FALSE]
           /\ post' = [post EXCEPT ![c] = Nil]
  <2>1. where' \in [Call -> Place] /\ where'[c] = "answered"
    BY <1>1, <1>5 DEF TriesTypeOK, GoTo, Place
  <2>2. /\ line' \in [Call -> Seq(Instance)] /\ DOMAIN post' = Call
        /\ line'[c] = ran[c] /\ post'[c] = Nil /\ ran[c] \in Seq(Instance)
    BY <1>1, <1>5 DEF TriesTypeOK
  <2>3. foreign' \in [Call -> BOOLEAN] /\ ~foreign'[c]
    BY <1>1, <1>5 DEF TriesTypeOK
  <2>4. TriesTypeOK'
    BY <1>1, <1>2, <2>1, <2>2, <2>3 DEF TriesTypeOK
  <2>5. ran[c] = SubSeq(ran[c], 1, Len(ran[c])) /\ Len(ran[c]) \in Nat
    <3>1. 0 \in 0..Len(ran[c]) /\ Len(ran[c]) \in Nat
      BY <2>2
    <3> QED BY <2>2, <3>1, PrefixEffect
  <2>6. Nested(c)'
    BY <1>1, <1>2, <1>5, <2>1, <2>2, <2>3, <2>5 DEF Nested
  <2>7. OthersRest(c)
    BY <1>1, <1>2, <1>3, <1>5 DEF TriesTypeOK, OthersRest
  <2> QED BY <1>2, <1>3, <1>5, <2>4, <2>6, <2>7, CallStep
<1> QED BY <1>4, <1>5 DEF AttachLogs, From

\* A worker takes a pipeline with the list as it is then.
LEMMA WorkerPipelineStep ==
  ASSUME PluginInv, UNCHANGED traced, NEW c \in Call, WorkerPipeline(c)
  PROVE  PluginInv'
<1>1. TriesTypeOK /\ Nested(c)
  BY DEF PluginInv
<1>2. /\ where[c] \in {"wait", "left"}
      /\ line' = [line EXCEPT ![c] = llmPlugins] /\ foreign' = [foreign EXCEPT ![c] = TRUE]
      /\ UNCHANGED <<llmPlugins, swaps, round, chunks, ran, cut, count, post, steady>>
      /\ UNCHANGED <<logVars, attached>>
  BY DEF WorkerPipeline, From
<1>3. PICK l \in {"stream", "answered"} : GoTo(c, l)
  BY DEF WorkerPipeline
<1>4. LogsTypeOK' /\ Owned' /\ root' = root
  BY <1>2, LogsRest
<1>5. where' \in [Call -> Place] /\ where'[c] = l
  BY <1>1, <1>3 DEF TriesTypeOK, GoTo, Place
<1>6. line' \in [Call -> Seq(Instance)] /\ line'[c] = llmPlugins
  BY <1>1, <1>2 DEF TriesTypeOK
<1>7. foreign' \in [Call -> BOOLEAN] /\ foreign'[c]
  BY <1>1, <1>2 DEF TriesTypeOK
<1>8. TriesTypeOK'
  BY <1>1, <1>2, <1>5, <1>6, <1>7 DEF TriesTypeOK
<1>9. ~cut[c] /\ round[c] > 0 /\ (steady[c] => ran[c] = llmPlugins /\ count[c] = Len(ran[c]))
  BY <1>1, <1>2 DEF Nested
<1>10. Nested(c)'
  BY <1>1, <1>2, <1>5, <1>6, <1>7, <1>9 DEF Nested
<1>11. OthersRest(c)
  BY <1>1, <1>2, <1>4 DEF TriesTypeOK, OthersRest
<1> QED BY <1>2, <1>3, <1>4, <1>8, <1>10, <1>11, CallStep

\* The list changes under all calls.
LEMMA SwapStep ==
  ASSUME PluginInv, UNCHANGED traced, NEW new \in Seq(Instance), Swap(new)
  PROVE  PluginInv'
<1>1. TriesTypeOK /\ Drained /\ \A c \in Call : Nested(c)
  BY DEF PluginInv
<1>2. /\ swaps < MaxSwaps /\ swaps' = swaps + 1 /\ llmPlugins' = new
      /\ steady' = [c \in Call |-> FALSE]
      /\ UNCHANGED <<where, round, chunks, line, ran, cut, count, foreign, post>>
      /\ UNCHANGED <<logVars, attached>>
  BY DEF Swap, tryVars
<1>3. LogsTypeOK' /\ Owned' /\ root' = root
  BY <1>2, LogsRest
<1>4. swaps' \in 0..MaxSwaps
  BY <1>1, <1>2, PluginAssumption DEF TriesTypeOK
<1>5. steady' \in [Call -> BOOLEAN] /\ \A c \in Call : ~steady'[c]
  BY <1>2
<1>6. TriesTypeOK'
  BY <1>1, <1>2, <1>4, <1>5 DEF TriesTypeOK
<1>7. Drained'
  BY <1>1, <1>2, <1>3 DEF Drained, Finished
<1>8. ASSUME NEW c \in Call PROVE Nested(c)'
  <2>1. Nested(c) /\ ~steady'[c]
    BY <1>1, <1>5
  <2> QED BY <1>2, <2>1 DEF Nested
<1> QED BY <1>3, <1>6, <1>7, <1>8 DEF PluginInv

\* Plugins are reloaded, removed or put in another order.
LEMMA ListStep ==
  ASSUME PluginInv, UNCHANGED traced, (\E n \in Names : ReloadPlugin(n) \/ RemovePlugin(n)) \/ ReorderPlugins
  PROVE  PluginInv'
<1>1. llmPlugins \in Seq(Instance) /\ swaps \in 0..MaxSwaps
  BY DEF PluginInv, TriesTypeOK
<1>2. DOMAIN llmPlugins = 1..Len(llmPlugins) /\ Len(llmPlugins) \in Nat
      /\ llmPlugins \in [1..Len(llmPlugins) -> Instance]
  BY <1>1
<1>3. ASSUME NEW n \in Names, ReloadPlugin(n) PROVE PluginInv'
  <2> DEFINE new == <<n, swaps + 1>>
             replaced == [i \in DOMAIN llmPlugins |-> IF llmPlugins[i][1] = n THEN new ELSE llmPlugins[i]]
  <2>1. \/ Swap(replaced)
        \/ Swap(Append(llmPlugins, new))
    BY <1>3 DEF ReloadPlugin
  <2>2. swaps < MaxSwaps
    BY <2>1 DEF Swap
  <2>3. new \in Instance
    BY <1>1, <2>2, PluginAssumption DEF Instance
  <2>4. replaced \in Seq(Instance)
    <3>1. \A i \in 1..Len(llmPlugins) :
            (IF llmPlugins[i][1] = n THEN new ELSE llmPlugins[i]) \in Instance
      BY <1>2, <2>3
    <3> HIDE DEF new
    <3>2. replaced \in [1..Len(llmPlugins) -> Instance]
      BY <1>2, <3>1
    <3> QED BY <1>2, <3>2
  <2>5. Append(llmPlugins, new) \in Seq(Instance)
    BY <1>1, <2>3
  <2> QED BY <2>1, <2>4, <2>5, SwapStep
<1>4. ASSUME NEW n \in Names, RemovePlugin(n) PROVE PluginInv'
  <2>1. PICK i \in DOMAIN llmPlugins : Swap(RemoveAt(llmPlugins, i))
    BY <1>4 DEF RemovePlugin
  <2>2. SubSeq(llmPlugins, 1, i - 1) \in Seq(Instance)
    BY <1>1, <1>2, <2>1
  <2>3. SubSeq(llmPlugins, i + 1, Len(llmPlugins)) \in Seq(Instance)
    BY <1>1, <1>2, <2>1
  <2>4. RemoveAt(llmPlugins, i) \in Seq(Instance)
    BY <2>2, <2>3 DEF RemoveAt
  <2> QED BY <2>1, <2>4, SwapStep
<1>5. ASSUME ReorderPlugins PROVE PluginInv'
  <2>1. PICK new \in [DOMAIN llmPlugins -> ToSet(llmPlugins)] : Swap(new)
    BY <1>5 DEF ReorderPlugins
  <2>2. ToSet(llmPlugins) \subseteq Instance
    BY <1>2 DEF ToSet
  <2>3. new \in Seq(Instance)
    <3>1. new \in [1..Len(llmPlugins) -> Instance]
      BY <1>2, <2>2
    <3> QED BY <1>2, <3>1
  <2> QED BY <2>1, <2>3, SwapStep
<1> QED BY <1>3, <1>4, <1>5

\* No request has begun.
LEMMA PluginsStart ==
  PluginInit => PluginInv
<1> SUFFICES ASSUME PluginInit PROVE PluginInv
  OBVIOUS
<1>1. llmPlugins \in Seq(Instance)
  <2>1. PICK configured \in SUBSET Names : llmPlugins = SetToSeq({<<n, 0>> : n \in configured})
    BY DEF PluginInit
  <2> DEFINE S == {<<n, 0>> : n \in configured}
  <2>2. IsFiniteSet(configured)
    BY <2>1, PluginAssumption, FS_Subset
  <2>3. IsFiniteSet(S)
    <3>1. \A x \in S : \E n \in configured : x = <<n, 0>>
      OBVIOUS
    <3> DEFINE f == [n \in configured |-> <<n, 0>>]
    <3>2. f \in Surjection(configured, S)
      BY DEF Surjection
    <3> QED BY <2>2, <3>2, FS_Surjection
  <2>4. S \subseteq Instance
    BY PluginAssumption DEF Instance
  <2>5. llmPlugins \in Seq(S)
    BY <2>1, <2>3, ListMade
  <2> HIDE DEF S
  <2> QED BY <2>4, <2>5
<1>2. /\ where = [c \in Call |-> "new"] /\ round = [c \in Call |-> 0]
      /\ chunks = [c \in Call |-> 0] /\ line = [c \in Call |-> <<>>]
      /\ ran = [c \in Call |-> <<>>] /\ cut = [c \in Call |-> FALSE]
      /\ count = [c \in Call |-> 0] /\ post = [c \in Call |-> Nil]
      /\ steady = [c \in Call |-> TRUE] /\ foreign = [c \in Call |-> FALSE]
      /\ root = [c \in Call |-> Nil] /\ logPool = Store
      /\ log = [s \in Store |-> {}] /\ attached = [c \in Call |-> {}] /\ swaps = 0
  BY DEF PluginInit
<1>3. TriesTypeOK
  <2>1. /\ cut \in [Call -> BOOLEAN] /\ steady \in [Call -> BOOLEAN]
        /\ foreign \in [Call -> BOOLEAN] /\ traced \in [Call -> BOOLEAN]
    BY <1>2 DEF PluginInit
  <2>2. /\ where \in [Call -> Place] /\ round \in [Call -> Nat] /\ chunks \in [Call -> Nat]
        /\ line \in [Call -> Seq(Instance)] /\ ran \in [Call -> Seq(Instance)]
        /\ count \in [Call -> Nat] /\ DOMAIN post = Call
    BY <1>2 DEF Place
  <2>3. swaps \in 0..MaxSwaps
    BY <1>2, PluginAssumption
  <2> QED BY <1>1, <2>1, <2>2, <2>3 DEF TriesTypeOK
<1>4. LogsTypeOK /\ Owned /\ Drained
  BY <1>2, PluginAssumption DEF LogsTypeOK, Owned, Drained, Finished
<1>5. \A c \in Call : Nested(c)
  BY <1>2 DEF Nested
<1> QED BY <1>3, <1>4, <1>5 DEF PluginInv

\* Every step keeps the invariant.
LEMMA PluginStep ==
  ASSUME PluginInv, [PluginNext]_pluginVars
  PROVE  PluginInv'
<1>1. CASE UNCHANGED pluginVars
  <2>1. /\ UNCHANGED <<llmPlugins, swaps, where, round, chunks, line, ran, cut, count, foreign, post,
                       steady, traced>>
        /\ UNCHANGED <<logVars, attached>>
    BY <1>1 DEF pluginVars, tryVars
  <2>2. LogsTypeOK' /\ Owned' /\ root' = root
    BY <2>1, LogsRest
  <2>3. TriesTypeOK'
    BY <2>1 DEF PluginInv, TriesTypeOK
  <2>4. Drained'
    BY <2>1, <2>2 DEF PluginInv, Drained, Finished
  <2>5. \A c \in Call : Nested(c)'
    BY <2>1 DEF PluginInv, Nested
  <2> QED BY <2>2, <2>3, <2>4, <2>5 DEF PluginInv
<1>2. CASE PluginNext
  <2>1. UNCHANGED traced
    BY <1>2 DEF PluginNext
  <2>2. CASE (\E n \in Names : ReloadPlugin(n) \/ RemovePlugin(n)) \/ ReorderPlugins
    BY <2>1, <2>2, ListStep
  <2>3. ASSUME NEW c \in Call, CallNext(c) PROVE PluginInv'
    BY <2>1, <2>3, PreRequestHooksStep, UnresolvedStep, EnqueueStep, MovesStep, AnswersStep,
       AttachLogsStep, WorkerPipelineStep, PreHooksStep DEF CallNext
  <2> QED BY <1>2, <2>2, <2>3 DEF PluginNext
<1> QED BY <1>1, <1>2

(* The invariant of the plugins: who owns which log store, and what a      *)
(* pipeline has of the plugins whose pre hooks ran.                        *)
THEOREM PluginInvariant == PluginSpec => []PluginInv
<1>1. PluginInv /\ [PluginNext]_pluginVars => PluginInv'
  BY PluginStep
<1> QED BY <1>1, PluginsStart, PTL DEF PluginSpec

(* Post hooks run in reverse over the plugins whose pre hooks ran, unless  *)
(* the list changed meanwhile, and never on the caller's pipeline for a    *)
(* plugin that has not seen the request (RunPostLLMHooks), for any plugins *)
(* and any number of reloads, tries and chunks.                            *)
THEOREM PostHooksNest == PluginSpec => []HooksNest
<1>1. PluginInv => HooksNest
  BY DEF PluginInv, Nested, HooksNest
<1> QED BY <1>1, PluginInvariant, PTL

(* What is attached to a request's trace was logged by its own hooks, a    *)
(* pooled store is empty, what has not been drained is in the request's    *)
(* own store, and a traced request whose try has ended has none            *)
(* (WithPluginScope, DrainPluginLogs, drainAndAttachPluginLogs).           *)
THEOREM LogsStayOwn == PluginSpec => []LogsOwn
<1>1. ASSUME PluginInv PROVE LogsOwn
  <2>1. LogsTypeOK /\ Owned /\ Drained
    BY <1>1 DEF PluginInv
  <2>2. \A c \in Call, s \in Store : c \in log[s] => s = root[c]
    BY <2>1 DEF Owned
  <2>3. ASSUME NEW c \in Call, Finished(c), NEW s \in Store PROVE c \notin log[s]
    BY <2>1, <2>2, <2>3, PluginAssumption DEF Drained
  <2>4. ASSUME NEW s \in logPool PROVE log[s] = {}
    <3>1. s \in Store /\ log[s] \subseteq {c \in Call : root[c] = s}
      BY <2>1 DEF LogsTypeOK, Owned
    <3> QED BY <2>1, <3>1 DEF Owned
  <2> QED BY <2>1, <2>2, <2>3, <2>4 DEF Owned, Finished, LogsOwn
<1> QED BY <1>1, PluginInvariant, PTL
=============================================================================
