------------------------------ MODULE Gateway ------------------------------
(***************************************************************************)
(* The request path of NerveGate: loadKeyPool of commands/serve.go fills   *)
(* the rotator before the server starts, then goroutines of the HTTP server*)
(* run handleChatCompletions of pkg/ingress/ingress.go concurrently, all on*)
(* one rotator.  A slot is a goroutine that serves one request after the   *)
(* other.  Between two rotator calls of one request any number of other    *)
(* requests, and of clock ticks, may come.                                 *)
(***************************************************************************)
EXTENDS Rotator

CONSTANTS
  Slot,        \* concurrent requests
  provider,    \* cfg.Provider
  Blank,       \* an empty entry between two commas
  KeysEnvs,    \* possible NERVEGATE_KEYS_<PROVIDER>, split at its commas
  RPMEnv,      \* NERVEGATE_RPM_<PROVIDER>
  TPMEnv,      \* NERVEGATE_TPM_<PROVIDER>
  NotANumber,  \* value of a variable that is unset or that Atoi rejects
  Cooldown429, Cooldown5xx,      \* of the Config given to NewServer
  cooldownOn429, cooldownOn5xx,  \* their defaults
  NoKey        \* usedKey == nil

\* The limits and the default rule of loadKeyPool and NewServer.
Limit(v) == IF v = NotANumber THEN 0 ELSE v

OrDefault(v, default) == IF v <= 0 THEN default ELSE v

C429 == OrDefault(Cooldown429, cooldownOn429)
C5xx == OrDefault(Cooldown5xx, cooldownOn5xx)

\* loadKeyPool's count after i entries of a list: those that are not blank.
Count(list, i) == Cardinality({j \in 1..i : list[j] # Blank})

\* The ID loadKeyPool gives to its n-th key.
PoolID(n) == AutoID(provider, n)

ASSUME GatewayAssumption ==
  /\ provider \in Provider /\ NoKey \notin Key /\ Blank \notin Key
  /\ KeysEnvs \subseteq Seq(Key \cup {Blank})
  /\ \A list \in KeysEnvs : \A i \in 1..Len(list) :
       list[i] # Blank => GivenID[list[i]] = PoolID(Count(list, i))
  /\ RPM = [k \in Key |-> Limit(RPMEnv)]
  /\ TPM = [k \in Key |-> Limit(TPMEnv)]
  /\ Cooldown = {C429, C5xx}
  /\ IsFiniteSet(Slot) /\ IsFiniteSet(Tokens) /\ \E n \in Tokens : n >= 0

VARIABLES
  env,      \* entries loadKeyPool has still to look at
  pc,       \* [Slot -> where the handler is]
  usedKey,  \* [Slot -> Key \cup {NoKey}]: usedKey of the handler
  ordered   \* history, [Key -> Time]: when the cool-down configured for the last
            \* failure that came back on the key ends

handler == <<pc, usedKey>>
gatewayVars == <<rotatorVars, env, pc, usedKey, ordered>>

\* The states of a handler that holds a key, or none, for a call upstream.
Forwarding(s) == pc[s] \in {"upstream", "buffer", "relay"}

GatewayInit ==
  /\ New
  /\ env \in KeysEnvs
  /\ pc = [s \in Slot |-> "idle"]
  /\ usedKey = [s \in Slot |-> NoKey]
  /\ ordered = [k \in Key |-> 0]

----------------------------------------------------------------------------
(* commands/serve.go, before srv.Start: nothing is served yet.             *)

\* One round of the loop of loadKeyPool; a blank entry is skipped.
LoadEntry ==
  /\ env # <<>>
  /\ env' = Tail(env)
  /\ \/ Head(env) = Blank /\ UNCHANGED rotatorVars
     \/ Head(env) # Blank /\ AddKey(provider, Head(env))
  /\ UNCHANGED <<handler, ordered>>

----------------------------------------------------------------------------
(* pkg/ingress/ingress.go.                                                 *)

Goto(s, from, to) == pc[s] = from /\ pc' = [pc EXCEPT ![s] = to]

\* The handler returns; its slot is free for another request.
Return(s, from) ==
  /\ Goto(s, from, "idle")
  /\ usedKey' = [usedKey EXCEPT ![s] = NoKey]

Receive(s) ==
  /\ env = <<>>
  /\ Goto(s, "idle", "body")
  /\ UNCHANGED <<rotatorVars, env, usedKey, ordered>>

\* 413 for a body over MaxBodyBytes, 400 for one that cannot be read, is empty
\* or is not JSON once trimmed; else it has been trimmed and classified.
ReadBody(s) ==
  /\ \/ Return(s, "body")
     \/ Goto(s, "body", "select") /\ UNCHANGED usedKey
  /\ UNCHANGED <<rotatorVars, env, ordered>>

SelectKey(s, k) ==
  /\ Goto(s, "select", "upstream")
  /\ GetKeyOK(provider, k)
  /\ usedKey' = [usedKey EXCEPT ![s] = k]
  /\ UNCHANGED <<env, ordered>>

SelectErr(s) ==
  /\ Goto(s, "select", "refused")
  /\ GetKeyErr(provider)
  /\ UNCHANGED <<env, usedKey, ordered>>

\* Mutant of CheckPool: any error of GetKey falls back to the caller's key.
CheckPoolFallsBack(s) ==
  /\ Goto(s, "refused", "upstream") /\ UNCHANGED usedKey
  /\ UNCHANGED <<rotatorVars, env, ordered>>

\* Mutant of CheckPool: the switch has no default case.
CheckPoolNoDefault(s) ==
  /\ HasKeys(provider) /\ Return(s, "refused")
  /\ UNCHANGED <<rotatorVars, env, ordered>>

\* The other cases of the switch, 503 or the caller's own key: HasKeys is a
\* second call of the rotator.
CheckPool(s) ==
  /\ \/ HasKeys(provider) /\ Return(s, "refused")
     \/ /\ ~HasKeys(provider)
        /\ Goto(s, "refused", "upstream") /\ UNCHANGED usedKey
  /\ UNCHANGED <<rotatorVars, env, ordered>>

\* The transport failed: ErrorHandler answers 502, and marks nothing.
UpstreamError(s) ==
  /\ Return(s, "upstream")
  /\ UNCHANGED <<rotatorVars, env, ordered>>

\* Mutant of CooledFor: a 500 itself is not taken for a server error.
CooledForOver500(status) ==
  CASE status = 429 -> C429 [] status > 500 -> C5xx [] OTHER -> 0

\* The cool-down ModifyResponse orders for a status, 0 for none.
CooledFor(status) ==
  CASE status = 429 -> C429 [] status >= 500 -> C5xx [] OTHER -> 0

\* ModifyResponse on an answer, with a body that says it is JSON or not.  A
\* failure cools the key down.  recordTokens reads a body that counts to its
\* end before the client gets any of it.
ModifyResponse(s, status, json) ==
  LET k == usedKey[s]
      d == CooledFor(status)
      counts == k # NoKey /\ status = 200 /\ json /\ TPM[k] > 0
  IN
  /\ Goto(s, "upstream", IF counts THEN "buffer" ELSE "relay")
  /\ IF k # NoKey /\ d > 0 THEN MarkCoolDown(provider, id[k], d)
                           ELSE UNCHANGED rotatorVars
  /\ ordered' = IF k = NoKey \/ status \notin {429, 500} THEN ordered
                ELSE [ordered EXCEPT ![k] = now + IF status = 429 THEN C429 ELSE C5xx]
  /\ UNCHANGED <<env, usedKey>>

\* recordTokens has read the body, and it reports n tokens.
RecordTokens(s, n) ==
  /\ Goto(s, "buffer", "relay")
  /\ MarkTokens(provider, id[usedKey[s]], n)
  /\ UNCHANGED <<env, usedKey, ordered>>

\* recordTokens gave up on a body that reports no tokens, or on one that broke
\* off: what was read of that one is gone, and the relay breaks off as well.
RecordNothing(s) ==
  /\ \/ Goto(s, "buffer", "relay") /\ UNCHANGED usedKey
     \/ Return(s, "buffer")
  /\ UNCHANGED <<rotatorVars, env, ordered>>

\* The reverse proxy copies the body to the client, or either side breaks off.
Relay(s) ==
  /\ Return(s, "relay")
  /\ UNCHANGED <<rotatorVars, env, ordered>>

GatewayTick == Tick /\ UNCHANGED <<env, handler, ordered>>

----------------------------------------------------------------------------
\* A success, an error of the caller, the rate limit, and the first of the
\* server errors.
Status == {200, 404, 429, 500}

\* The steps of the goroutine of s, once it has a request.
Handle(s) ==
  \/ ReadBody(s)
  \/ \E k \in Key : SelectKey(s, k)
  \/ SelectErr(s)
  \/ CheckPool(s)
  \/ UpstreamError(s)
  \/ \E status \in Status, json \in BOOLEAN : ModifyResponse(s, status, json)
  \/ \E n \in Tokens : RecordTokens(s, n)
  \/ RecordNothing(s)
  \/ Relay(s)

GatewayNext ==
  \/ LoadEntry
  \/ \E s \in Slot : Receive(s) \/ Handle(s)
  \/ GatewayTick

GatewaySpec == GatewayInit /\ [][GatewayNext]_gatewayVars

\* Goroutines are scheduled, and a call upstream ends: by an answer or by an
\* error of the transport.  Nobody has to send a request.
FairGatewaySpec ==
  GatewaySpec /\ \A s \in Slot : WF_gatewayVars(Handle(s))

----------------------------------------------------------------------------
(* "When a pool IS configured but every key is rate limited or cooling     *)
(* down, fail fast instead of silently leaking the request upstream":      *)
(* GetKey and HasKeys are two calls, yet a request goes out with the       *)
(* caller's own credentials only where no pool was ever configured.        *)
PoolNeverBypassed ==
  \A s \in Slot : Forwarding(s) /\ usedKey[s] = NoKey => ~HasKeys(provider)

(* ModifyResponse and GetKey together: once a 429 or a 5xx came back on a  *)
(* key, no request gets that key before the cool-down of the last such     *)
(* answer is over, in whatever order the answers of the requests in flight *)
(* came in.                                                                *)
CoolDownRespected ==
  [][\A s \in Slot, k \in Key :
       usedKey[s] # k /\ usedKey'[s] = k => now >= ordered[k]
    ]_gatewayVars

(* MarkCoolDown finds its key by ID: only the key a failed request had     *)
(* been sent with is ever taken out of rotation.                           *)
RightKeyCooled ==
  [][\A k \in Key : CoolUntil'[k] # CoolUntil[k] =>
       \E s \in Slot : pc[s] = "upstream" /\ pc'[s] = "relay" /\ usedKey[s] = k
    ]_gatewayVars

(* Tokens are only known when an answer is in, so a key can be handed out  *)
(* again before they count.  The tokens recorded in the window of a limited*)
(* key, with those of the requests still in flight, exceed TPM by less     *)
(* than what the concurrent requests can bring in.                         *)
InFlight(k) == {s \in Slot : usedKey[s] = k /\ pc[s] \in {"upstream", "buffer"}}

TPMOvershootBounded ==
  \A k \in Key : TPM[k] > 0 =>
    Used(Usages(now, k)) + Max(Tokens) * Cardinality(InFlight(k))
      < TPM[k] + Max(Tokens) * Cardinality(Slot)

(* Every request that was received is answered: a slot that has taken one  *)
(* is free again some time, on each path through handleChatCompletions.    *)
EveryRequestAnswered ==
  \A s \in Slot : []<>(pc[s] = "idle")

----------------------------------------------------------------------------
(* What the repository says and the code does not do.                      *)

(* "key cool-down on HTTP 429; defaults to 30s" of Config: as long as the  *)
(* cool-down of a 429 is in force, no later answer ends it earlier.        *)
Full429CoolDown ==
  [][\A k \in Key : CoolUntil'[k] < CoolUntil[k] => now >= CoolUntil[k]]_gatewayVars
=============================================================================
