------------------------------ MODULE Retries -------------------------------
(***************************************************************************)
(* executeRequestWithRetries of pkg/bifrost_core/bifrost.go, with the key  *)
(* providers that requestWorker hands it: attempts at one provider, each   *)
(* with the key of the last one or another, until one succeeds, the error  *)
(* is final or the budget is spent.                                        *)
(***************************************************************************)
EXTENDS Integers, Sequences, FiniteSets

CONSTANTS
  Key,         \* the keys of a provider that support the model
  MaxRetries,  \* what config.NetworkConfig.MaxRetries may be
  NoKey

ASSUME RetryAssumption ==
  MaxRetries \subseteq Nat /\ NoKey \notin Key /\ IsFiniteSet(Key)

(* What an attempt may end with: a Bifrost error, a cancelled request, a   *)
(* network error or 5xx, a 429 or a rate limit by its text, a 401, 402 or  *)
(* 403, a 400 for encrypted reasoning, any other 4xx.                      *)
Final == {"ok", "bifrost", "cancelled"}
PerKey == {"limited", "denied"}
Answer == Final \cup PerKey \cup {"server", "rejected", "invalid"}

VARIABLES
  rpc,        \* "idle", "select", "call" or "done"
  mode,       \* keyProvider: "none" for nil, "fixed" for one key, "rotating"
  pool,       \* the keys it captured
  filtering,  \* a keyPoolFilter is configured
  retries,    \* MaxRetries of the provider
  attempts, extra,      \* the loop's counter, attempts beyond the budget
  key, selected,        \* currentKey, BifrostContextKeySelectedKeyID
  used, dead,           \* usedKeyIDs, deadKeyIDs
  last, stripped,       \* how the previous attempt ended, strippedEncryptedContent
  encrypted,            \* the request still replays encrypted reasoning
  pending,              \* pendingRotationAttemptIdx, 0 for none
  trail,                \* one record per attempt: key, why it failed, rotated, waited
  outcome               \* what the function returned

retryVars == <<rpc, mode, pool, filtering, retries, attempts, extra, key, selected, used, dead, last, stripped,
               encrypted, pending, trail, outcome>>

RetryInit ==
  /\ rpc = "idle" /\ mode = "none" /\ pool = {} /\ filtering \in BOOLEAN /\ retries = 0
  /\ attempts = 0 /\ extra = 0
  /\ key = NoKey /\ selected = NoKey /\ used = {} /\ dead = {}
  /\ last = "none" /\ stripped = FALSE /\ encrypted \in BOOLEAN
  /\ pending = 0 /\ trail = <<>> /\ outcome = "none"

\* A call with the given key provider; without one the trail is not restarted.
Begin(m, keys, n) ==
  /\ rpc' = "select" /\ mode' = m /\ pool' = keys /\ retries' = n /\ attempts' = 0 /\ extra' = 0
  /\ key' = NoKey /\ used' = {} /\ dead' = {} /\ last' = "none" /\ stripped' = FALSE
  /\ pending' = 0 /\ outcome' = "none"
  /\ trail' = (IF m = "none" THEN trail ELSE <<>>)
  /\ UNCHANGED <<selected, encrypted, filtering>>

\* After the call: what its locals held is gone.
Leave ==
  /\ rpc' = "idle" /\ mode' = "none" /\ pool' = {} /\ retries' = 0 /\ attempts' = 0 /\ extra' = 0
  /\ key' = NoKey /\ used' = {} /\ dead' = {} /\ last' = "none" /\ stripped' = FALSE
  /\ pending' = 0 /\ outcome' = "none"

----------------------------------------------------------------------------
(* Key selection.                                                          *)

\* What the filter leaves of some keys; when it fails, all of them.
Filtered(keys) == IF filtering THEN SUBSET keys ELSE {keys}

Fresh == pool \ (used \cup dead)

\* Mutant of Live: dead keys come back with a new round.
LiveAgain == pool

Live == pool \ dead

\* Mutant of Picks: the keys of the round that ends stay excluded.
PicksNoReset ==
  {[key |-> k, used |-> used] : k \in UNION {f \in Filtered(Fresh) : f # {}}}
    \cup (IF {} \in Filtered(Fresh)
          THEN {[key |-> k, used |-> used] : k \in UNION Filtered(Live)} ELSE {})

(* The rotating key provider: a fresh key if the filter leaves one, else a *)
(* new round over the live ones.                                           *)
Picks ==
  {[key |-> k, used |-> used] : k \in UNION {f \in Filtered(Fresh) : f # {}}}
    \cup (IF {} \in Filtered(Fresh)
          THEN {[key |-> k, used |-> {}] : k \in UNION Filtered(Live)} ELSE {})

\* errAllKeysDead, errAllKeysFiltered, or an error of the selector.
Refusals ==
  (IF mode = "rotating" /\ {} \in Filtered(Fresh) /\ {} \in Filtered(Live)
   THEN {IF Live = {} THEN "exhausted" ELSE "filtered"} ELSE {})
  \cup (IF mode = "fixed" /\ pool \subseteq dead THEN {"exhausted"} ELSE {})
  \cup (IF mode = "rotating" /\ Picks # {} THEN {"bifrost"} ELSE {})

Reselect == mode # "none" /\ (attempts = 0 \/ last \in PerKey)

\* Backoff, unless a dead key was replaced or the payload has changed.
Waits(k) ==
  attempts > 0 /\ ~((last = "denied" /\ k # key) \/ last = "stripped")

\* The rotation candidate is confirmed if the new key differs; a record is added.
Extend(k) ==
  LET told == [i \in DOMAIN trail |->
                 IF i = pending /\ trail[i].key # k THEN [trail[i] EXCEPT !.rotated = TRUE]
                                                    ELSE trail[i]]
  IN Append(told, [key |-> k, why |-> "none", rotated |-> FALSE, waited |-> Waits(k)])

Select ==
  /\ rpc = "select" /\ Reselect
  /\ \E c \in IF mode = "fixed" THEN {[key |-> k, used |-> used] : k \in pool \ dead} ELSE Picks :
       /\ key' = c.key /\ selected' = c.key /\ used' = c.used /\ trail' = Extend(c.key)
  /\ pending' = 0 /\ rpc' = "call"
  /\ UNCHANGED <<mode, pool, filtering, retries, attempts, extra, dead, last, stripped, encrypted, outcome>>

\* Mutant of SelectFails: the selected key of the attempt before stays.
SelectFailsKeepsKey ==
  /\ rpc = "select" /\ Reselect
  /\ \E e \in Refusals : outcome' = e
  /\ rpc' = "done"
  /\ UNCHANGED <<selected, mode, pool, filtering, retries, attempts, extra, key, used, dead, last, stripped, encrypted,
                 pending, trail>>

SelectFails ==
  /\ rpc = "select" /\ Reselect
  /\ \E e \in Refusals : outcome' = e
  /\ rpc' = "done" /\ selected' = NoKey
  /\ UNCHANGED <<mode, pool, filtering, retries, attempts, extra, key, used, dead, last, stripped, encrypted,
                 pending, trail>>

\* The same key again, or none.
Keep ==
  /\ rpc = "select" /\ ~Reselect /\ rpc' = "call"
  /\ trail' = IF mode = "none" THEN trail ELSE Extend(key)
  /\ UNCHANGED <<mode, pool, filtering, retries, attempts, extra, key, selected, used, dead, last, stripped,
                 encrypted, pending, outcome>>

----------------------------------------------------------------------------
(* The attempt and what follows from its outcome.                          *)

\* The trail with the reason of the last attempt.
Explained(a) ==
  IF trail = <<>> THEN trail ELSE [trail EXCEPT ![Len(trail)].why = a]

Finish(a) ==
  /\ rpc' = "done" /\ outcome' = a
  /\ selected' = IF a # "ok" /\ mode # "none" THEN NoKey ELSE selected

CallEnds(a) ==
  /\ rpc = "call" /\ a \in Answer
  /\ \/ a \in Final
     \/ a = "invalid"
     \/ a = "rejected" /\ (stripped \/ ~encrypted)
  /\ Finish(a) /\ trail' = IF a \in Final THEN trail ELSE Explained(a)
  /\ UNCHANGED <<mode, pool, filtering, retries, attempts, extra, key, used, dead, last, stripped, encrypted, pending>>

\* Mutant of IsCandidate: the attempts beyond the budget are forgotten.
IsCandidateInBudget(a, more) == a \in PerKey /\ mode # "none" /\ attempts < retries

\* This attempt may turn out to have triggered a rotation.
IsCandidate(a, more) == a \in PerKey /\ mode # "none" /\ attempts < retries + more

\* The loop's bound, after the counter's increment.
Spent(more) == attempts + 1 > retries + more

(* Another attempt is due: the key goes to its set, and the loop goes on or*)
(* ends.  A rejected replay is stripped once and gets an attempt of its own.*)
CallAgain(a) ==
  LET strip == a = "rejected"
      more == extra + (IF strip THEN 1 ELSE 0)
  IN
  /\ rpc = "call" /\ a \in PerKey \cup {"server", "rejected"}
  /\ strip => ~stripped /\ encrypted
  /\ stripped' = (stripped \/ strip) /\ encrypted' = (encrypted /\ ~strip) /\ extra' = more
  /\ dead' = IF a = "denied" /\ mode # "none" THEN dead \cup {key} ELSE dead
  /\ used' = IF a = "limited" /\ mode # "none" THEN used \cup {key} ELSE used
  /\ last' = IF strip THEN "stripped" ELSE a
  /\ trail' = Explained(a)
  /\ pending' = IF IsCandidate(a, more) THEN Len(trail) ELSE pending
  /\ attempts' = attempts + 1
  /\ IF Spent(more) THEN Finish(a) ELSE rpc' = "select" /\ UNCHANGED <<outcome, selected>>
  /\ UNCHANGED <<mode, pool, filtering, retries, key>>

RetryNext ==
  \/ Select \/ SelectFails \/ Keep
  \/ \E a \in Answer : CallEnds(a) \/ CallAgain(a)

----------------------------------------------------------------------------
(* "These are NEVER reset within a single request": a key that was answered*)
(* 401, 402 or 403 is not used again, whatever rounds, filters and pinned  *)
(* keys come between.  "Backoff is preserved in every other case": an      *)
(* attempt that repeats the key of the one before has waited, unless the   *)
(* payload was changed.                                                    *)
KeysSpared ==
  /\ \A i, j \in DOMAIN trail : i < j /\ trail[i].why = "denied" => trail[i].key # trail[j].key
  /\ \A i \in DOMAIN trail : i > 1 /\ trail[i].key = trail[i - 1].key =>
       trail[i].waited \/ trail[i - 1].why = "rejected"

\* How often a key was rate limited.
Limits(k) == Cardinality({i \in DOMAIN trail : trail[i].key = k /\ trail[i].why = "limited"})

(* Rotation shares the rate limits out: without a filter no live key is    *)
(* limited twice before every other live key was once.                     *)
LimitsShared ==
  mode = "rotating" /\ ~filtering => \A k, l \in Live : Limits(k) <= Limits(l) + 1

(* TriggeredRotation is told of exactly the attempts that were followed by *)
(* one with another key, the extra attempt included.                       *)
TrailTellsRotations ==
  \A i \in DOMAIN trail :
    trail[i].rotated <=> (i < Len(trail) /\ trail[i].key # trail[i + 1].key)
=============================================================================
