------------------------------ MODULE Rotator ------------------------------
(***************************************************************************)
(* KeyRotator of pkg/rotator/rotator.go: per provider a pool of API keys,  *)
(* handed out round robin, each key with a sliding window of requests      *)
(* (RPM), a sliding window of tokens (TPM) and a cool-down deadline.       *)
(*                                                                         *)
(* Every method takes the rotator's mutex before it reads the clock and    *)
(* releases it on return, so every method is one step and the clock never  *)
(* runs backwards between two of them.  An APIKey is a heap object that    *)
(* callers and the pool share: it is a member of the constant set Key, the *)
(* fields the code never changes are constant functions on Key, and the    *)
(* fields it changes are variables that are functions on Key.              *)
(***************************************************************************)
EXTENDS Integers, Sequences, FiniteSets, FiniteSetsExt, Functions

CONSTANTS
  Provider,   \* provider names
  Key,        \* the *APIKey objects callers may register
  NoID,       \* the empty ID string
  GivenID,    \* [Key -> ...]: the ID field of the object the caller built
  RPM, TPM,   \* [Key -> Int]: per-key limits, not positive = unlimited
  Window,     \* rateLimitWindow, in clock ticks
  Cooldown,   \* durations callers pass to MarkCoolDown, in clock ticks
  Tokens,     \* token counts callers pass to MarkTokens
  MaxTime     \* bound: the clock stops there

ASSUME RotatorAssumption ==
  /\ RPM \in [Key -> Int] /\ TPM \in [Key -> Int]
  /\ GivenID \in [Key -> Range(GivenID)]
  /\ Window \in Nat /\ MaxTime \in Nat
  /\ Cooldown \subseteq Nat /\ IsFiniteSet(Cooldown) /\ Tokens \subseteq Int

VARIABLES
  keys,          \* KeyRotator.keys: [Provider -> Seq(Key)]
  idx,           \* KeyRotator.idx: [Provider -> Nat], 0 where the map has no entry
  id,            \* APIKey.ID
  CoolUntil,     \* APIKey.CoolUntil
  requestTimes,  \* APIKey.requestTimes: sequence of times
  tokenUsage,    \* APIKey.tokenUsage: sequence of [at, tokens]
  now            \* time.Now()

pool == <<keys, idx, id>>
limits == <<CoolUntil, requestTimes, tokenUsage>>
rotatorVars == <<keys, idx, id, CoolUntil, requestTimes, tokenUsage, now>>

Time == Nat

\* The type tokenUsage of the code.
Usage == [at : Time, tokens : Int]

\* Mutant of AutoID: all keys of a provider get the same ID.
AutoIDShared(p, n) == <<p, 0>>

\* fmt.Sprintf("%s-%d", provider, n): injective in n for one provider.
AutoID(p, n) == <<p, n>>

IDs == {NoID} \cup Range(GivenID) \cup (Provider \X Nat)

New ==
  /\ keys = [p \in Provider |-> <<>>]
  /\ idx = [p \in Provider |-> 0]
  /\ id = GivenID
  /\ CoolUntil = [k \in Key |-> 0]
  /\ requestTimes = [k \in Key |-> <<>>]
  /\ tokenUsage = [k \in Key |-> <<>>]
  /\ now = 0

----------------------------------------------------------------------------
(* Reading the windows at time t, the "now" the code passes around.        *)

\* Mutant of FirstLive: an entry exactly Window old is already dropped.
FirstLiveHalfOpen(t, times) ==
  Min({i \in 1..(Len(times) + 1) : i <= Len(times) => times[i] > t - Window})

\* The first entry, in list order, that is not before t - Window: where the
\* loops of pruneWindow stop.  An entry exactly Window old is kept.
FirstLive(t, times) ==
  Min({i \in 1..(Len(times) + 1) : i <= Len(times) => times[i] >= t - Window})

\* pruneWindow on a list of request times and on a list of token usages.
pruneTimes(t, times) == SubSeq(times, FirstLive(t, times), Len(times))

pruneTokens(t, usage) ==
  SubSeq(usage, FirstLive(t, [i \in 1..Len(usage) |-> usage[i].at]), Len(usage))

\* The windows of k as GetKey leaves them when its scan comes past k.
Times(t, k) ==
  IF RPM[k] > 0 THEN pruneTimes(t, requestTimes[k]) ELSE requestTimes[k]

Usages(t, k) ==
  IF TPM[k] > 0 THEN pruneTokens(t, tokenUsage[k]) ELSE tokenUsage[k]

Used(usage) == SumFunction([i \in 1..Len(usage) |-> usage[i].tokens])

\* Mutant of healthy: a key whose tokens have just reached TPM still passes.
HealthyAtTPM(t, k) ==
  /\ t >= CoolUntil[k]
  /\ RPM[k] > 0 => Len(Times(t, k)) < RPM[k]
  /\ TPM[k] > 0 => Used(Usages(t, k)) <= TPM[k]

\* healthy, on the windows GetKey has just pruned.
healthy(t, k) ==
  /\ t >= CoolUntil[k]
  /\ RPM[k] > 0 => Len(Times(t, k)) < RPM[k]
  /\ TPM[k] > 0 => Used(Usages(t, k)) < TPM[k]

HasKeys(p) == Len(keys[p]) > 0

\* The key GetKey looks at i rounds into its scan of the pool of p.
Scan(p, i) == keys[p][1 + ((idx[p] + i) % Len(keys[p]))]

\* Mutant of NextIdx: the cursor stays on the key that was handed out.
NextIdxStays(p, i) == (idx[p] + i) % Len(keys[p])

\* Where GetKey leaves the cursor when round i of the scan found its key.
NextIdx(p, i) == (((idx[p] + i) % Len(keys[p])) + 1) % Len(keys[p])

\* The key of p that MarkTokens and MarkCoolDown find by ID: the first match.
Named(p, keyID) ==
  {keys[p][i] : i \in {j \in 1..Len(keys[p]) :
                         /\ id[keys[p][j]] = keyID
                         /\ \A h \in 1..(j - 1) : id[keys[p][h]] # keyID}}

----------------------------------------------------------------------------
(* The methods.                                                            *)

\* Callers pass a new object on every call.
AddKey(p, k) ==
  /\ \A q \in Provider : k \notin Range(keys[q])
  /\ id' = [id EXCEPT ![k] = IF @ = NoID THEN AutoID(p, Len(keys[p]) + 1) ELSE @]
  /\ keys' = [keys EXCEPT ![p] = Append(@, k)]
  /\ UNCHANGED <<idx, limits, now>>

\* The scan prunes the windows of every key it comes past, in S.
PruneScanned(S) ==
  /\ tokenUsage' = [k \in Key |-> IF k \in S THEN Usages(now, k) ELSE tokenUsage[k]]
  /\ UNCHANGED <<keys, id, CoolUntil, now>>

\* GetKey returns k: the first healthy key of the scan.
GetKeyOK(p, k) ==
  \E i \in 0..(Len(keys[p]) - 1) :
    LET S == {Scan(p, j) : j \in 0..i} IN
    /\ Scan(p, i) = k
    /\ healthy(now, k)
    /\ \A j \in 0..(i - 1) : ~healthy(now, Scan(p, j))
    /\ PruneScanned(S)
    /\ requestTimes' = [q \in Key |->
         IF q = k /\ RPM[q] > 0 THEN Append(Times(now, q), now)
         ELSE IF q \in S THEN Times(now, q) ELSE requestTimes[q]]
    /\ idx' = [idx EXCEPT ![p] = NextIdx(p, i)]

\* GetKey returns an error: the pool is empty or none of its keys is healthy.
GetKeyErr(p) ==
  LET S == Range(keys[p]) IN
  /\ \A k \in S : ~healthy(now, k)
  /\ PruneScanned(S)
  /\ requestTimes' = [k \in Key |-> IF k \in S THEN Times(now, k) ELSE requestTimes[k]]
  /\ UNCHANGED idx

MarkTokens(p, keyID, tokens) ==
  /\ tokenUsage' =
       IF tokens <= 0 THEN tokenUsage
       ELSE [k \in Key |-> IF k \in Named(p, keyID)
                           THEN Append(pruneTokens(now, tokenUsage[k]),
                                       [at |-> now, tokens |-> tokens])
                           ELSE tokenUsage[k]]
  /\ UNCHANGED <<pool, CoolUntil, requestTimes, now>>

\* Mutant of MarkCoolDown: cool-downs add up instead of starting now.
MarkCoolDownStacks(p, keyID, duration) ==
  /\ CoolUntil' = [k \in Key |-> IF k \in Named(p, keyID)
                                 THEN Max({now, CoolUntil[k]}) + duration
                                 ELSE CoolUntil[k]]
  /\ UNCHANGED <<pool, requestTimes, tokenUsage, now>>

MarkCoolDown(p, keyID, duration) ==
  /\ CoolUntil' = [k \in Key |-> IF k \in Named(p, keyID)
                                 THEN now + duration ELSE CoolUntil[k]]
  /\ UNCHANGED <<pool, requestTimes, tokenUsage, now>>

Tick ==
  /\ now < MaxTime
  /\ now' = now + 1
  /\ UNCHANGED <<pool, limits>>

----------------------------------------------------------------------------
(* Any callers, in any order.                                              *)

RotatorNext ==
  \/ \E p \in Provider, k \in Key : AddKey(p, k) \/ GetKeyOK(p, k)
  \/ \E p \in Provider : GetKeyErr(p)
  \/ \E p \in Provider, k \in Key, n \in Tokens : MarkTokens(p, id[k], n)
  \/ \E p \in Provider, k \in Key, d \in Cooldown : MarkCoolDown(p, id[k], d)
  \/ Tick

RotatorSpec == New /\ [][RotatorNext]_rotatorVars

----------------------------------------------------------------------------
(* Type invariant: every method keeps the pools, cursors and windows well  *)
(* formed; the cursor stays inside its pool, so that pool[curr] is defined.*)
RotatorTypeOK ==
  /\ keys \in [Provider -> Seq(Key)]
  /\ idx \in [Provider -> Nat]
  /\ \A p \in Provider : idx[p] < Len(keys[p]) \/ idx[p] = 0
  /\ id \in [Key -> IDs]
  /\ CoolUntil \in [Key -> Time]
  /\ requestTimes \in [Key -> Seq(Time)]
  /\ tokenUsage \in [Key -> Seq(Usage)]
  /\ now \in Time
=============================================================================
