----------------------------- MODULE MCPProofs ------------------------------
(***************************************************************************)
(* The MCP agent and the clients of the MCP manager (pkg/bifrost_core/mcp),*)
(* for any number of turns, calls in a turn, callers, monitors and         *)
(* connections: no call of the model is forgotten or answered twice, no    *)
(* connection leaks, a client that should be is watched, and a disabled    *)
(* one stays so.                                                           *)
(***************************************************************************)
EXTENDS MCPClients, Agent, TLAPS, FiniteSetTheorems, SequenceTheorems

----------------------------------------------------------------------------
(* The agent.                                                              *)

Reply == {"result"} \X (Nat \X Nat)
Said == Reply \cup ({"response"} \X Nat)

\* The calls of the first n turns.
MadeBy(n) == UNION {CallsOf(t) : t \in 1..n}

AgentTypeOK ==
  /\ agent \in {"loop", "execute", "decide", "done", "error"}
  /\ turns \in Seq(Response) /\ turns # <<>> /\ depth \in Nat
  /\ manual \subseteq Current /\ inFlight \subseteq Current
  /\ results \in Seq(Reply) /\ authRequired \in BOOLEAN
  /\ conversation \in Seq(Said) /\ IsFiniteSet(Made)

\* The results of turn t, and nothing else, come right after entry p.
ResultsAt(p, t) ==
  {conversation[q] : q \in p + 1 .. p + Cardinality(CallsOf(t))}
    = {<<"result", c>> : c \in CallsOf(t)}

\* The first l entries of the conversation are n turns, each followed by its results.
AnsweredTo(l, n) ==
  /\ l = n + Cardinality(MadeBy(n))
  /\ \A p \in 1..l : conversation[p][1] = "response" =>
       \E t \in 1..n : /\ conversation[p] = <<"response", t>>
                       /\ p + Cardinality(CallsOf(t)) <= l /\ ResultsAt(p, t)

Looping ==
  agent = "loop" =>
    /\ manual = {} /\ inFlight = {} /\ results = <<>> /\ authRequired = FALSE
    /\ executed = MadeBy(Len(turns) - 1)
    /\ AnsweredTo(Len(conversation), Len(turns) - 1)

\* A result is of a call that was started and is no longer under way, and there is one of each.
Executing ==
  agent = "execute" =>
    /\ inFlight \cap manual = {} /\ executed = MadeBy(Len(turns) - 1)
    /\ Len(results) + Cardinality(inFlight) = Cardinality(Current \ manual)
    /\ {results[i] : i \in DOMAIN results}
         = {<<"result", c>> : c \in Current \ (manual \cup inFlight)}
    /\ Len(conversation) # 0 /\ conversation[Len(conversation)] = <<"response", Len(turns)>>
    /\ AnsweredTo(Len(conversation) - 1, Len(turns) - 1)

Deciding ==
  agent = "decide" =>
    /\ inFlight = {} /\ results = <<>> /\ authRequired = FALSE /\ executed = Made \ manual
    /\ manual = {} => AnsweredTo(Len(conversation), Len(turns))

Ended == agent = "done" => executed \cap handed = {} /\ executed \cup handed = Made

AgentInv == AgentTypeOK /\ Looping /\ Executing /\ Deciding /\ Ended

----------------------------------------------------------------------------
\* The calls of a turn are a finite set.
LEMMA CallsFinite ==
  ASSUME turns \in Seq(Response), NEW t \in 1..Len(turns)
  PROVE  IsFiniteSet(CallsOf(t))
<1>1. PICK n \in 0..MaxToolCalls : turns[t] \in [1..n -> {"named", "nameless"}]
  BY AgentAssumption DEF Response
<1>2. CallsOf(t) \in SUBSET ({t} \X (1..n))
  BY <1>1 DEF CallsOf
<1>3. IsFiniteSet({t}) /\ IsFiniteSet(1..n)
  <2>1. n \in Int
    BY <1>1, AgentAssumption
  <2>2. IsFiniteSet(1..n)
    BY <2>1, FS_Interval
  <2> QED BY <2>2, FS_Singleton
<1>4. IsFiniteSet({t} \X (1..n))
  BY <1>3, FS_Product
<1> QED BY <1>2, <1>4, FS_Subset

\* The calls made are those of the earlier turns and those of the last one, which are others.
LEMMA MadeSplits ==
  ASSUME turns \in Seq(Response), turns # <<>>
  PROVE  /\ Made = MadeBy(Len(turns)) /\ Made = MadeBy(Len(turns) - 1) \cup Current
         /\ MadeBy(Len(turns) - 1) \cap Current = {}
         /\ Len(turns) \in Nat /\ Len(turns) # 0
         /\ IsFiniteSet(Made) => /\ Cardinality(Made) =
                                      Cardinality(MadeBy(Len(turns) - 1)) + Cardinality(Current)
                                 /\ Cardinality(MadeBy(Len(turns) - 1)) \in Nat
<1>1. Len(turns) \in Nat /\ Len(turns) # 0 /\ DOMAIN turns = 1..Len(turns)
  OBVIOUS
<1>2. Made = MadeBy(Len(turns))
  BY <1>1 DEF Made, MadeBy
<1>3. 1..Len(turns) = (1..(Len(turns) - 1)) \cup {Len(turns)}
  BY <1>1
<1>4. Made = MadeBy(Len(turns) - 1) \cup Current
  <2>1. MadeBy(Len(turns)) = MadeBy(Len(turns) - 1) \cup CallsOf(Len(turns))
    BY <1>3 DEF MadeBy
  <2> QED BY <2>1, <1>2 DEF Current
<1>5. MadeBy(Len(turns) - 1) \cap Current = {}
  BY <1>1 DEF MadeBy, Current, CallsOf
<1>6. IsFiniteSet(Made) => /\ Cardinality(Made) =
                                 Cardinality(MadeBy(Len(turns) - 1)) + Cardinality(Current)
                           /\ Cardinality(MadeBy(Len(turns) - 1)) \in Nat
  <2> SUFFICES ASSUME IsFiniteSet(Made)
               PROVE  /\ Cardinality(Made) =
                           Cardinality(MadeBy(Len(turns) - 1)) + Cardinality(Current)
                      /\ Cardinality(MadeBy(Len(turns) - 1)) \in Nat
    OBVIOUS
  <2>1. IsFiniteSet(MadeBy(Len(turns) - 1)) /\ IsFiniteSet(Current)
    <3>1. MadeBy(Len(turns) - 1) \in SUBSET Made /\ Current \in SUBSET Made
      BY <1>4
    <3> QED BY <3>1, FS_Subset
  <2>2. Cardinality(Made) = Cardinality(MadeBy(Len(turns) - 1)) + Cardinality(Current)
                            - Cardinality(MadeBy(Len(turns) - 1) \cap Current)
    BY <2>1, <1>4, FS_Union
  <2>3. Cardinality(MadeBy(Len(turns) - 1)) \in Nat /\ Cardinality(Current) \in Nat
    BY <2>1, FS_CardinalityType
  <2>4. Cardinality(MadeBy(Len(turns) - 1) \cap Current) = 0
    BY <1>5, FS_EmptySet
  <2> QED BY <2>2, <2>3, <2>4
<1> QED BY <1>1, <1>2, <1>4, <1>5, <1>6

\* What was answered stays answered, when turns and entries are only added.
LEMMA AnswersStay ==
  ASSUME NEW l \in Nat, NEW n \in 0..Len(turns), turns \in Seq(Response), AnsweredTo(l, n),
         \A t \in 1..n : CallsOf(t)' = CallsOf(t),
         \A p \in 1..l : conversation'[p] = conversation[p]
  PROVE  AnsweredTo(l, n)'
<1>1. MadeBy(n)' = MadeBy(n)
  BY DEF MadeBy
<1>2. l = n + Cardinality(MadeBy(n)')
  BY <1>1 DEF AnsweredTo
<1>3. ASSUME NEW p \in 1..l, conversation'[p][1] = "response"
      PROVE  \E t \in 1..n : /\ conversation'[p] = <<"response", t>>
                             /\ p + Cardinality(CallsOf(t)') <= l /\ ResultsAt(p, t)'
  <2>1. PICK t \in 1..n : /\ conversation[p] = <<"response", t>>
                          /\ p + Cardinality(CallsOf(t)) <= l /\ ResultsAt(p, t)
    BY <1>3 DEF AnsweredTo
  <2>2. CallsOf(t)' = CallsOf(t)
    OBVIOUS
  <2>3. Cardinality(CallsOf(t)) \in Nat
    BY CallsFinite, FS_CardinalityType
  <2> DEFINE m == p + Cardinality(CallsOf(t))
  <2>4. \A q \in p + 1 .. m : q \in 1..l
    BY <2>1, <2>3
  <2>5. {conversation'[q] : q \in p + 1 .. m} = {conversation[q] : q \in p + 1 .. m}
    BY <2>4
  <2>6. ResultsAt(p, t)'
    BY <2>1, <2>2, <2>5 DEF ResultsAt
  <2> QED BY <2>1, <2>2, <2>6
<1> QED BY <1>2, <1>3 DEF AnsweredTo
\* In the step of one action the turns may stay as they are.
LEMMA SameTurns ==
  ASSUME UNCHANGED turns
  PROVE  /\ Current' = Current /\ Made' = Made /\ Len(turns)' = Len(turns)
         /\ \A n \in Nat : MadeBy(n)' = MadeBy(n)
         /\ \A t \in 1..Len(turns) : CallsOf(t)' = CallsOf(t)
  BY DEF Current, Made, CallsOf, MadeBy

\* The first response has joined no conversation.
LEMMA AgentStarts == AgentInit => AgentInv
<1> SUFFICES ASSUME AgentInit PROVE AgentInv
  OBVIOUS
<1>0. /\ agent = "loop" /\ depth = 0 /\ manual = {} /\ inFlight = {} /\ results = <<>>
      /\ authRequired = FALSE /\ conversation = <<>> /\ executed = {} /\ handed = {}
  BY DEF AgentInit
<1>1. turns \in Seq(Response) /\ Len(turns) = 1
  <2>1. PICK r \in Response : turns = <<r>>
    BY DEF AgentInit
  <2> QED BY <2>1
<1>2. IsFiniteSet(Made)
  <2>1. Made = CallsOf(1)
    BY <1>1 DEF Made
  <2> QED BY <2>1, <1>1, CallsFinite
<1>3. AgentTypeOK
  <2>1. turns # <<>> /\ results \in Seq(Reply) /\ conversation \in Seq(Said)
    BY <1>0, <1>1
  <2> QED BY <2>1, <1>0, <1>1, <1>2 DEF AgentTypeOK
<1>4. MadeBy(0) = {} /\ Cardinality(MadeBy(0)) = 0
  BY FS_EmptySet DEF MadeBy
<1>5. AnsweredTo(0, 0)
  BY <1>4 DEF AnsweredTo
<1>6. Looping
  BY <1>0, <1>1, <1>4, <1>5 DEF Looping
<1> QED BY <1>0, <1>3, <1>6 DEF AgentInv, Executing, Deciding, Ended

\* Too deep or no calls: those before were executed, the current ones are handed over.
LEMMA LoopEndsKeeps == AgentInv /\ LoopEnds => AgentInv'
<1> SUFFICES ASSUME AgentInv, LoopEnds PROVE AgentInv'
  OBVIOUS
<1>0. AgentTypeOK /\ Looping /\ agent = "loop" /\ agent' = "done" /\ handed' = Current
  BY DEF AgentInv, LoopEnds
<1>1. UNCHANGED <<turns, depth, manual, inFlight, results, authRequired, conversation, executed>>
  BY DEF LoopEnds, turnVars
<1>2. Current' = Current /\ Made' = Made
  BY <1>1, SameTurns
<1>3. AgentTypeOK'
  BY <1>0, <1>1, <1>2 DEF AgentTypeOK
<1>4. executed = MadeBy(Len(turns) - 1)
  BY <1>0 DEF Looping
<1>5. executed \cap Current = {} /\ executed \cup Current = Made
  BY <1>0, <1>4, MadeSplits DEF AgentTypeOK
<1>6. Ended'
  BY <1>0, <1>1, <1>2, <1>5 DEF Ended
<1> QED BY <1>0, <1>3, <1>6 DEF AgentInv, Looping, Executing, Deciding

\* The response joins the conversation if something of it is executed.
LEMMA SeparateKeeps == AgentInv /\ Separate => AgentInv'
<1> SUFFICES ASSUME AgentInv, Separate PROVE AgentInv'
  OBVIOUS
<1>0. /\ AgentTypeOK /\ Looping /\ agent = "loop" /\ Current # {} /\ depth' = depth + 1
      /\ UNCHANGED <<turns, results, authRequired, executed, handed>>
  BY DEF AgentInv, Separate
<1>1. PICK auto \in SUBSET {c \in Current : turns[c[1]][c[2]] = "named"} :
        /\ manual' = NotExecuted(auto) /\ inFlight' = auto
        /\ agent' = IF auto = {} THEN "decide" ELSE "execute"
        /\ conversation' = IF auto = {} THEN conversation
                           ELSE Append(conversation, <<"response", Len(turns)>>)
  BY DEF Separate
<1>2. /\ Current' = Current /\ Made' = Made /\ Len(turns)' = Len(turns)
      /\ \A n \in Nat : MadeBy(n)' = MadeBy(n)
      /\ \A t \in 1..Len(turns) : CallsOf(t)' = CallsOf(t)
  BY <1>0, SameTurns
<1>3. auto \subseteq Current /\ manual' = Current \ auto
  BY <1>1 DEF NotExecuted
<1>4. /\ turns \in Seq(Response) /\ turns # <<>> /\ Len(turns) \in Nat /\ Len(turns) # 0
      /\ conversation \in Seq(Said) /\ IsFiniteSet(Made) /\ depth \in Nat
      /\ results \in Seq(Reply) /\ authRequired \in BOOLEAN
  BY <1>0 DEF AgentTypeOK
<1>5. <<"response", Len(turns)>> \in Said
  BY <1>4 DEF Said
<1>6. conversation' \in Seq(Said)
  BY <1>1, <1>4, <1>5
<1>7. AgentTypeOK'
  <2>1. agent' \in {"loop", "execute", "decide", "done", "error"}
    BY <1>1
  <2>2. depth' \in Nat
    BY <1>0, <1>4
  <2> QED BY <2>1, <2>2, <1>0, <1>1, <1>2, <1>3, <1>4, <1>6 DEF AgentTypeOK
<1>8. /\ results = <<>> /\ authRequired = FALSE /\ executed = MadeBy(Len(turns) - 1)
      /\ AnsweredTo(Len(conversation), Len(turns) - 1)
  BY <1>0 DEF Looping
<1>9. CASE auto = {}
  <2>1. agent' = "decide" /\ inFlight' = {} /\ manual' = Current
    BY <1>1, <1>3, <1>9
  <2>2. executed = Made \ Current
    BY <1>4, <1>8, MadeSplits
  <2>3. Deciding'
    BY <2>1, <2>2, <1>0, <1>2, <1>8 DEF Deciding
  <2> QED BY <2>1, <2>3, <1>7 DEF AgentInv, Looping, Executing, Ended
<1>10. CASE auto # {}
  <2>1. /\ agent' = "execute" /\ inFlight' = auto
        /\ conversation' = Append(conversation, <<"response", Len(turns)>>)
    BY <1>1, <1>10
  <2>2. /\ Len(conversation') = Len(conversation) + 1
        /\ conversation'[Len(conversation')] = <<"response", Len(turns)>>
        /\ \A p \in 1..Len(conversation) : conversation'[p] = conversation[p]
    BY <2>1, <1>4, <1>5
  <2>3. (AnsweredTo(Len(conversation) - 1, Len(turns) - 1))'
    <3>1. PICK k, m : k = Len(conversation) /\ m = Len(turns) - 1
      OBVIOUS
    <3>2. k \in Nat /\ m \in 0..Len(turns) /\ AnsweredTo(k, m)
      BY <3>1, <1>4, <1>8
    <3>3. AnsweredTo(k, m)'
      BY <3>1, <3>2, <2>2, <1>2, <1>4, AnswersStay
    <3>4. Len(conversation') - 1 = k /\ Len(turns') - 1 = m
      BY <3>1, <2>2, <1>0, <1>4
    <3> QED BY <3>3, <3>4
  <2>4. Cardinality(Current \ manual') = Cardinality(inFlight') /\ Len(results) = 0
    <3>1. Current \ manual' = auto
      BY <1>3
    <3> QED BY <3>1, <2>1, <1>8
  <2>5. Cardinality(inFlight') \in Nat
    <3>1. auto \in SUBSET Made
      BY <1>3, <1>4, MadeSplits
    <3> QED BY <3>1, <2>1, <1>4, FS_Subset, FS_CardinalityType
  <2>6. /\ inFlight' \cap manual' = {} /\ Current \ (manual' \cup inFlight') = {}
    BY <2>1, <1>3
  <2>7. {results[i] : i \in DOMAIN results} = {}
    BY <1>8
  <2>8. Executing'
    <3>1. inFlight' \cap manual' = {} /\ executed' = MadeBy(Len(turns) - 1)'
      BY <2>6, <1>0, <1>2, <1>4, <1>8
    <3>2. Len(results') + Cardinality(inFlight') = Cardinality((Current \ manual)')
      BY <2>4, <2>5, <1>0, <1>2
    <3>3. {results'[i] : i \in DOMAIN results'}
            = {<<"result", c>> : c \in (Current \ (manual \cup inFlight))'}
      BY <2>6, <2>7, <1>0, <1>2
    <3>4. Len(conversation') # 0 /\ conversation'[Len(conversation')] = <<"response", Len(turns')>>
      BY <2>2, <1>0, <1>4
    <3> QED BY <3>1, <3>2, <3>3, <3>4, <2>3 DEF Executing
  <2> QED BY <2>1, <2>8, <1>7 DEF AgentInv, Looping, Deciding, Ended
<1> QED BY <1>9, <1>10

\* A call that ends leaves its result.
LEMMA ExecuteKeeps == ASSUME AgentInv, NEW c \in inFlight, Execute(c) PROVE AgentInv'
<1>0. /\ AgentTypeOK /\ Executing /\ agent = "execute" /\ inFlight' = inFlight \ {c}
      /\ results' = Append(results, <<"result", c>>) /\ authRequired' \in {authRequired, TRUE}
      /\ UNCHANGED <<agent, turns, depth, manual, conversation, executed, handed>>
  BY DEF AgentInv, Execute
<1>1. /\ Current' = Current /\ Made' = Made /\ Len(turns)' = Len(turns)
      /\ \A n \in Nat : MadeBy(n)' = MadeBy(n)
      /\ \A t \in 1..Len(turns) : CallsOf(t)' = CallsOf(t)
  BY <1>0, SameTurns
<1>2. /\ turns \in Seq(Response) /\ turns # <<>> /\ Len(turns) \in Nat /\ Len(turns) # 0
      /\ conversation \in Seq(Said) /\ IsFiniteSet(Made) /\ results \in Seq(Reply)
      /\ inFlight \subseteq Current /\ authRequired \in BOOLEAN /\ c \in Current
  BY <1>0 DEF AgentTypeOK
<1>3. <<"result", c>> \in Reply
  <2>1. DOMAIN turns[Len(turns)] \subseteq Nat
    <3>1. turns[Len(turns)] \in Response
      BY <1>2
    <3>2. PICK n \in 0..MaxToolCalls : turns[Len(turns)] \in [1..n -> {"named", "nameless"}]
      BY <3>1 DEF Response
    <3> QED BY <3>2
  <2>2. c \in Nat \X Nat
    BY <2>1, <1>2 DEF Current, CallsOf
  <2> QED BY <2>2 DEF Reply
<1>4. /\ results' \in Seq(Reply) /\ Len(results') = Len(results) + 1
      /\ \A i \in 1..Len(results) : results'[i] = results[i]
      /\ results'[Len(results) + 1] = <<"result", c>>
  BY <1>0, <1>2, <1>3
<1>5. AgentTypeOK'
  BY <1>0, <1>1, <1>2, <1>4 DEF AgentTypeOK
<1>6. /\ inFlight \cap manual = {} /\ executed = MadeBy(Len(turns) - 1)
      /\ Len(results) + Cardinality(inFlight) = Cardinality(Current \ manual)
      /\ {results[i] : i \in DOMAIN results} =
           {<<"result", x>> : x \in Current \ (manual \cup inFlight)}
      /\ Len(conversation) # 0 /\ conversation[Len(conversation)] = <<"response", Len(turns)>>
      /\ AnsweredTo(Len(conversation) - 1, Len(turns) - 1)
  BY <1>0 DEF Executing
<1>7. Len(results') + Cardinality(inFlight') = Cardinality(Current \ manual)
  <2>1. inFlight \in SUBSET Made
    BY <1>2, MadeSplits
  <2>2. IsFiniteSet(inFlight)
    BY <2>1, <1>2, FS_Subset
  <2>3. Cardinality(inFlight \ {c}) = Cardinality(inFlight) - 1 /\ Cardinality(inFlight) \in Nat
    BY <2>2, FS_RemoveElement, FS_CardinalityType
  <2> QED BY <2>3, <1>0, <1>2, <1>4, <1>6
<1>8. {results'[i] : i \in DOMAIN results'} =
        {<<"result", x>> : x \in Current \ (manual \cup inFlight')}
  <2>1. DOMAIN results' = DOMAIN results \cup {Len(results) + 1} /\ DOMAIN results = 1..Len(results)
    BY <1>2, <1>4
  <2>2. {results'[i] : i \in DOMAIN results'} =
          {results[i] : i \in DOMAIN results} \cup {<<"result", c>>}
    BY <2>1, <1>4
  <2>3. Current \ (manual \cup inFlight') = (Current \ (manual \cup inFlight)) \cup {c}
    BY <1>0, <1>2, <1>6
  <2> QED BY <2>2, <2>3, <1>6
<1>9. (AnsweredTo(Len(conversation) - 1, Len(turns) - 1))'
  <2>1. PICK k, m : k = Len(conversation) - 1 /\ m = Len(turns) - 1
    OBVIOUS
  <2>2. k \in Nat /\ m \in 0..Len(turns) /\ AnsweredTo(k, m)
    BY <2>1, <1>2, <1>6
  <2>3. AnsweredTo(k, m)'
    BY <2>1, <2>2, <1>0, <1>1, <1>2, AnswersStay
  <2>4. Len(conversation') - 1 = k /\ Len(turns') - 1 = m
    BY <2>1, <1>0
  <2> QED BY <2>3, <2>4
<1>10. Executing'
  <2>1. inFlight' \cap manual' = {} /\ executed' = MadeBy(Len(turns) - 1)'
    BY <1>0, <1>1, <1>2, <1>6
  <2>2. Len(results') + Cardinality(inFlight') = Cardinality((Current \ manual)')
    BY <1>0, <1>1, <1>7
  <2>3. {results'[i] : i \in DOMAIN results'}
          = {<<"result", x>> : x \in (Current \ (manual \cup inFlight))'}
    BY <1>0, <1>1, <1>8
  <2>4. Len(conversation') # 0 /\ conversation'[Len(conversation')] = <<"response", Len(turns')>>
    BY <1>0, <1>6
  <2> QED BY <2>1, <2>2, <2>3, <2>4, <1>9 DEF Executing
<1> QED BY <1>0, <1>5, <1>10 DEF AgentInv, Looping, Deciding, Ended

\* All calls are back: their results follow the response, whatever their order.
LEMMA CollectKeeps == AgentInv /\ Collect => AgentInv'
<1> SUFFICES ASSUME AgentInv, Collect PROVE AgentInv'
  OBVIOUS
<1>0. /\ AgentTypeOK /\ Executing /\ agent = "execute" /\ inFlight = {} /\ results' = <<>>
      /\ UNCHANGED <<turns, depth, manual, inFlight, authRequired, handed>>
  BY DEF AgentInv, Collect
<1>1. /\ Current' = Current /\ Made' = Made /\ Len(turns)' = Len(turns)
      /\ \A n \in Nat : MadeBy(n)' = MadeBy(n)
      /\ \A t \in 1..Len(turns) : CallsOf(t)' = CallsOf(t)
  BY <1>0, SameTurns
<1>2. /\ turns \in Seq(Response) /\ turns # <<>> /\ Len(turns) \in Nat /\ Len(turns) # 0
      /\ conversation \in Seq(Said) /\ IsFiniteSet(Made) /\ results \in Seq(Reply)
      /\ manual \subseteq Current /\ depth \in Nat
      /\ authRequired \in BOOLEAN
  BY <1>0 DEF AgentTypeOK
<1>3. CASE authRequired = TRUE
  <2>1. agent' = "error" /\ conversation' = conversation
    BY <1>3 DEF Collect
  <2>2. AgentTypeOK'
    BY <2>1, <1>0, <1>1, <1>2 DEF AgentTypeOK
  <2> QED BY <2>1, <2>2 DEF AgentInv, Looping, Executing, Deciding, Ended
<1>4. CASE authRequired = FALSE
  <2>1. /\ agent' = "decide" /\ conversation' = conversation \o results
        /\ executed' = executed \cup {results[i][2] : i \in DOMAIN results}
    BY <1>4 DEF Collect
  <2>2. /\ executed = MadeBy(Len(turns) - 1)
        /\ Len(results) = Cardinality(Current \ manual)
        /\ {results[i] : i \in DOMAIN results} = {<<"result", x>> : x \in Current \ manual}
        /\ Len(conversation) # 0 /\ conversation[Len(conversation)] = <<"response", Len(turns)>>
        /\ AnsweredTo(Len(conversation) - 1, Len(turns) - 1)
    <3>1. Cardinality(inFlight) = 0 /\ Current \ (manual \cup inFlight) = Current \ manual
      BY <1>0, FS_EmptySet
    <3>2. Len(results) \in Nat
      BY <1>2
    <3>3. /\ executed = MadeBy(Len(turns) - 1)
          /\ Len(results) + Cardinality(inFlight) = Cardinality(Current \ manual)
          /\ {results[i] : i \in DOMAIN results}
               = {<<"result", x>> : x \in Current \ (manual \cup inFlight)}
          /\ Len(conversation) # 0 /\ conversation[Len(conversation)] = <<"response", Len(turns)>>
          /\ AnsweredTo(Len(conversation) - 1, Len(turns) - 1)
      BY <1>0 DEF Executing
    <3>4. Len(results) = Cardinality(Current \ manual)
      BY <3>1, <3>2, <3>3
    <3>5. {results[i] : i \in DOMAIN results} = {<<"result", x>> : x \in Current \ manual}
      BY <3>1, <3>3
    <3> QED BY <3>3, <3>4, <3>5
  <2>3. results \in Seq(Said)
    BY <1>2 DEF Said
  <2>4. /\ conversation' \in Seq(Said) /\ Len(conversation') = Len(conversation) + Len(results)
        /\ \A p \in 1..Len(conversation) : conversation'[p] = conversation[p]
        /\ \A i \in 1..Len(results) : conversation'[Len(conversation) + i] = results[i]
    <3>1. Len(conversation) \in Nat /\ Len(results) \in Nat
      BY <1>2
    <3> QED BY <3>1, <2>1, <2>3, <1>2, ConcatProperties
  <2>5. AgentTypeOK'
    BY <2>1, <2>4, <1>0, <1>1, <1>2 DEF AgentTypeOK
  <2>6. executed' = Made \ manual
    <3>1. {results[i][2] : i \in DOMAIN results} = Current \ manual
      <4>1. \A i \in DOMAIN results : results[i][2] \in Current \ manual
        <5>1. \A i \in DOMAIN results : results[i] \in {<<"result", x>> : x \in Current \ manual}
          BY <2>2
        <5> QED BY <5>1
      <4>2. \A x \in Current \ manual : \E i \in DOMAIN results : results[i] = <<"result", x>>
        <5>1. \A x \in Current \ manual : <<"result", x>> \in {results[i] : i \in DOMAIN results}
          BY <2>2
        <5> QED BY <5>1
      <4> QED BY <4>1, <4>2
    <3> QED BY <3>1, <2>1, <2>2, <1>2, MadeSplits
  <2>7. ASSUME manual = {} PROVE (AnsweredTo(Len(conversation), Len(turns)))'
    <3>1. PICK k, m : k = Len(conversation) - 1 /\ m = Len(turns) - 1
      OBVIOUS
    <3>2. k \in Nat /\ m \in Nat /\ m \in 0..Len(turns) /\ AnsweredTo(k, m)
      BY <3>1, <2>2, <1>2
    <3>3. AnsweredTo(k, m)'
      <4>1. \A p \in 1..k : conversation'[p] = conversation[p]
        <5>1. Len(conversation) \in Nat
          BY <1>2
        <5> QED BY <5>1, <3>1, <2>4
      <4>2. \A t \in 1..m : CallsOf(t)' = CallsOf(t)
        BY <3>1, <1>1, <1>2
      <4> QED BY <4>1, <4>2, <3>2, <1>2, AnswersStay
    <3>4. /\ Len(results) = Cardinality(Current) /\ Len(results) \in Nat
          /\ {results[i] : i \in DOMAIN results} = {<<"result", x>> : x \in Current}
      <4>1. Current \ manual = Current
        BY <2>7
      <4>2. Len(results) \in Nat
        BY <1>2
      <4>3. Len(results) = Cardinality(Current)
        BY <4>1, <2>2
      <4>4. {results[i] : i \in DOMAIN results} = {<<"result", x>> : x \in Current}
        BY <4>1, <2>2
      <4> QED BY <4>2, <4>3, <4>4
    <3>5. Len(conversation') = (m + 1) + Cardinality(MadeBy(m + 1)')
      <4>1. k = m + Cardinality(MadeBy(m))
        BY <3>2 DEF AnsweredTo
      <4>2. Made = MadeBy(m + 1) /\ MadeBy(m + 1)' = MadeBy(m + 1)
        BY <3>1, <1>1, <1>2, MadeSplits
      <4>3. Cardinality(Made) = Cardinality(MadeBy(m)) + Cardinality(Current)
            /\ Cardinality(MadeBy(m)) \in Nat
        BY <3>1, <1>2, MadeSplits
      <4>4. Len(conversation) \in Nat /\ Len(conversation) = k + 1
        BY <3>1, <1>2
      <4>5. Len(conversation') = Len(conversation) + Cardinality(Current)
        BY <3>4, <2>4
      <4>6. Cardinality(MadeBy(m + 1)') = Cardinality(MadeBy(m)) + Cardinality(Current)
        BY <4>2, <4>3
      <4> QED BY <4>1, <4>3, <4>4, <4>5, <4>6, <3>2, <3>4
    <3>6. ASSUME NEW p \in 1..Len(conversation'), conversation'[p][1] = "response"
          PROVE  \E t \in 1..(m + 1) :
                   /\ conversation'[p] = <<"response", t>>
                   /\ p + Cardinality(CallsOf(t)') <= Len(conversation') /\ ResultsAt(p, t)'
      <4>1. CASE p \in 1..k
        <5>1. PICK t \in 1..m : /\ conversation'[p] = <<"response", t>>
                                /\ p + Cardinality(CallsOf(t)') <= k /\ ResultsAt(p, t)'
          BY <4>1, <3>3, <3>6 DEF AnsweredTo
        <5>2. t \in 1..(m + 1) /\ k <= Len(conversation')
          BY <3>1, <3>2, <3>4, <2>4, <1>2
        <5>3. p + Cardinality(CallsOf(t)') <= Len(conversation')
          <6>1. CallsOf(t)' = CallsOf(t) /\ IsFiniteSet(CallsOf(t))
            BY <3>1, <1>1, <1>2, CallsFinite
          <6>2. Cardinality(CallsOf(t)') \in Nat
            BY <6>1, FS_CardinalityType
          <6>3. Len(conversation') \in Nat
            BY <2>4
          <6> QED BY <6>2, <6>3, <5>1, <5>2, <3>2
        <5> QED BY <5>1, <5>2, <5>3
      <4>2. CASE p = k + 1
        <5>1. conversation'[p] = <<"response", m + 1>> /\ p = Len(conversation)
          <6>1. Len(conversation) \in Nat /\ p = Len(conversation) /\ Len(turns) = m + 1
            BY <4>2, <3>1, <1>2
          <6>2. p \in 1..Len(conversation)
            BY <6>1, <2>2
          <6> QED BY <6>1, <6>2, <2>2, <2>4
        <5>2. CallsOf(m + 1)' = Current
          BY <3>1, <1>1, <1>2 DEF Current
        <5>3. p + Cardinality(Current) = Len(conversation')
          BY <5>1, <3>4, <2>4
        <5>4. {conversation'[q] : q \in p + 1 .. p + Len(results)} =
                {results[i] : i \in DOMAIN results}
          <6>1. DOMAIN results = 1..Len(results)
            BY <1>2
          <6>2. \A q \in p + 1 .. p + Len(results) :
                  q - p \in 1..Len(results) /\ conversation'[q] = results[q - p]
            <7>1. p \in Nat
              OBVIOUS
            <7>2. ASSUME NEW q \in p + 1 .. p + Len(results)
                  PROVE  q - p \in 1..Len(results) /\ conversation'[q] = results[q - p]
              <8>1. q - p \in 1..Len(results) /\ q = p + (q - p)
                BY <7>1, <3>4
              <8> QED BY <8>1, <5>1, <2>4
            <7> QED BY <7>2
          <6>3. \A i \in 1..Len(results) :
                  p + i \in p + 1 .. p + Len(results) /\ conversation'[p + i] = results[i]
            BY <5>1, <3>4, <2>4
          <6> QED BY <6>1, <6>2, <6>3
        <5>5. ResultsAt(p, m + 1)'
          BY <5>2, <5>4, <3>4 DEF ResultsAt
        <5>6. Len(conversation') \in Nat /\ m + 1 \in 1..(m + 1)
          BY <3>2, <2>4
        <5> QED BY <5>1, <5>2, <5>3, <5>5, <5>6
      <4>3. CASE p \notin 1..k /\ p # k + 1
        <5>1. p - Len(conversation) \in 1..Len(results)
              /\ p = Len(conversation) + (p - Len(conversation))
          BY <4>3, <3>1, <3>4, <2>4, <1>2
        <5>2. conversation'[p] = results[p - Len(conversation)]
          BY <5>1, <2>4
        <5>3. conversation'[p] \in Reply
          BY <5>1, <5>2, <1>2
        <5> QED BY <5>3, <3>6 DEF Reply
      <4> QED BY <4>1, <4>2, <4>3
    <3>7. Len(turns') = m + 1
      BY <3>1, <1>0, <1>2
    <3> QED BY <3>5, <3>6, <3>7 DEF AnsweredTo
  <2>8. Deciding'
    BY <2>6, <2>7, <1>0, <1>1, <1>4 DEF Deciding
  <2> QED BY <2>1, <2>5, <2>8 DEF AgentInv, Looping, Executing, Ended
<1> QED BY <1>2, <1>3, <1>4

\* What was not executed is the caller's to handle.
LEMMA HandOverKeeps == AgentInv /\ HandOver => AgentInv'
<1> SUFFICES ASSUME AgentInv, HandOver PROVE AgentInv'
  OBVIOUS
<1>0. /\ AgentTypeOK /\ Deciding /\ agent = "decide" /\ agent' = "done"
      /\ handed' = IF depth = 1 /\ executed = {} THEN Current ELSE manual
      /\ UNCHANGED <<turns, depth, manual, inFlight, results, authRequired, conversation, executed>>
  BY DEF AgentInv, HandOver, turnVars
<1>1. Current' = Current /\ Made' = Made
  BY <1>0, SameTurns
<1>2. AgentTypeOK'
  BY <1>0, <1>1 DEF AgentTypeOK
<1>3. executed = Made \ manual /\ manual \subseteq Current /\ Current \subseteq Made
  BY <1>0, MadeSplits DEF Deciding, AgentTypeOK
<1>4. handed' = manual
  BY <1>0, <1>3
<1>5. Ended'
  BY <1>0, <1>1, <1>3, <1>4 DEF Ended
<1> QED BY <1>0, <1>2, <1>5 DEF AgentInv, Looping, Executing, Deciding

\* The model answers with more calls, when those before are answered.
LEMMA AskModelKeeps == AgentInv /\ AskModel => AgentInv'
<1> SUFFICES ASSUME AgentInv, AskModel PROVE AgentInv'
  OBVIOUS
<1>0. /\ AgentTypeOK /\ Deciding /\ agent = "decide" /\ manual = {}
      /\ UNCHANGED <<depth, manual, inFlight, results, authRequired, conversation, executed,
                     handed>>
  BY DEF AgentInv, AskModel, turnVars
<1>1. /\ turns \in Seq(Response) /\ turns # <<>> /\ Len(turns) \in Nat /\ Len(turns) # 0
      /\ conversation \in Seq(Said) /\ IsFiniteSet(Made)
  BY <1>0 DEF AgentTypeOK
<1>2. CASE agent' = "error" /\ UNCHANGED turns
  <2>1. Current' = Current /\ Made' = Made
    BY <1>2, SameTurns
  <2>2. AgentTypeOK'
    BY <2>1, <1>0, <1>2 DEF AgentTypeOK
  <2> QED BY <2>2, <1>2 DEF AgentInv, Looping, Executing, Deciding, Ended
<1>3. CASE agent' = "loop" /\ \E r \in Response : turns' = Append(turns, r)
  <2>1. PICK r \in Response : turns' = Append(turns, r)
    BY <1>3
  <2>2. /\ turns' \in Seq(Response) /\ turns' # <<>> /\ Len(turns') = Len(turns) + 1
        /\ \A t \in 1..Len(turns) : turns'[t] = turns[t]
    BY <2>1, <1>1
  <2>3. \A t \in 1..Len(turns) : CallsOf(t)' = CallsOf(t)
    BY <2>2 DEF CallsOf
  <2>4. PICK n \in Nat : n = Len(turns)
    BY <1>1
  <2>5. MadeBy(n)' = MadeBy(n) /\ MadeBy(n) = Made /\ Len(turns') - 1 = n
    <3>1. MadeBy(n)' = MadeBy(n)
      BY <2>3, <2>4 DEF MadeBy
    <3> QED BY <3>1, <2>2, <2>4, <1>1, MadeSplits
  <2>6. AgentTypeOK'
    <3>1. DOMAIN turns' = 1..n \cup {n + 1}
      BY <2>2, <2>4
    <3>2. Made' = MadeBy(n) \cup CallsOf(n + 1)'
      <4>1. \A t \in 1..n : CallsOf(t)' = CallsOf(t)
        BY <2>3, <2>4
      <4> QED BY <3>1, <4>1 DEF Made, MadeBy
    <3>3. IsFiniteSet(CallsOf(n + 1)')
      <4>1. turns'[n + 1] = r
        BY <2>1, <2>4, <1>1
      <4>2. PICK k \in 0..MaxToolCalls : r \in [1..k -> {"named", "nameless"}]
        BY DEF Response
      <4>3. CallsOf(n + 1)' \in SUBSET ({n + 1} \X (1..k))
        BY <4>1, <4>2 DEF CallsOf
      <4>4. k \in Int
        BY <4>2, AgentAssumption
      <4>5. IsFiniteSet(1..k) /\ IsFiniteSet({n + 1})
        <5>1. IsFiniteSet(1..k)
          BY <4>4, FS_Interval
        <5> QED BY <5>1, FS_Singleton
      <4>6. IsFiniteSet({n + 1} \X (1..k))
        BY <4>5, FS_Product
      <4> QED BY <4>3, <4>6, FS_Subset
    <3>4. IsFiniteSet(Made')
      BY <3>2, <3>3, <2>5, <1>1, FS_Union
    <3>5. manual' \subseteq Current' /\ inFlight' \subseteq Current'
      BY <1>0 DEF Deciding
    <3> QED BY <3>4, <3>5, <2>2, <1>0, <1>3 DEF AgentTypeOK
  <2>7. inFlight = {} /\ results = <<>> /\ authRequired = FALSE /\ executed = Made
        /\ AnsweredTo(Len(conversation), Len(turns))
    BY <1>0 DEF Deciding
  <2>8. executed = MadeBy(n)' /\ manual' = {} /\ inFlight' = {}
    BY <2>5, <2>7, <1>0
  <2>9. AnsweredTo(Len(conversation), n)'
    <3>1. PICK k \in Nat : k = Len(conversation)
      BY <1>1
    <3>2. n \in 0..Len(turns) /\ AnsweredTo(k, n)
      BY <3>1, <2>4, <2>7
    <3>3. AnsweredTo(k, n)'
      BY <3>2, <2>3, <2>4, <1>0, <1>1, AnswersStay
    <3>4. k = Len(conversation')
      BY <3>1, <1>0
    <3> QED BY <3>3, <3>4
  <2>10. Looping'
    BY <2>5, <2>7, <2>8, <2>9, <1>0 DEF Looping
  <2> QED BY <2>6, <2>10, <1>3 DEF AgentInv, Executing, Deciding, Ended
<1> QED BY <1>2, <1>3 DEF AskModel

\* The invariant of the agent: in every state of every run, what its comments say.
THEOREM AgentInvariant == AgentSpec => []AgentInv
<1>1. AgentInv /\ [AgentNext]_agentVars => AgentInv'
  <2> SUFFICES ASSUME AgentInv, [AgentNext]_agentVars PROVE AgentInv'
    OBVIOUS
  <2>1. CASE UNCHANGED agentVars
    <3>1. /\ UNCHANGED <<agent, turns, depth, manual, inFlight, results, authRequired>>
          /\ UNCHANGED <<conversation, executed, handed>>
      BY <2>1 DEF agentVars, turnVars
    <3>2. Current' = Current /\ Made' = Made
      BY <3>1 DEF Current, Made, CallsOf
    <3>3. ASSUME NEW l, NEW n PROVE AnsweredTo(l, n)' = AnsweredTo(l, n) /\ MadeBy(n)' = MadeBy(n)
      BY <3>1 DEF AnsweredTo, ResultsAt, MadeBy, CallsOf
    <3>4. AgentTypeOK' /\ Ended'
      BY <3>1, <3>2 DEF AgentInv, AgentTypeOK, Ended
    <3>5. Looping'
      BY <3>1, <3>3 DEF AgentInv, Looping
    <3>6. Executing'
      BY <3>1, <3>2, <3>3 DEF AgentInv, Executing
    <3>7. Deciding'
      BY <3>1, <3>2, <3>3 DEF AgentInv, Deciding
    <3> QED BY <3>4, <3>5, <3>6, <3>7 DEF AgentInv
  <2>2. ASSUME NEW c \in inFlight, Execute(c) PROVE AgentInv'
    BY <2>2, ExecuteKeeps
  <2> QED BY <2>1, <2>2, LoopEndsKeeps, SeparateKeeps, CollectKeeps, HandOverKeeps, AskModelKeeps
          DEF AgentNext
<1> QED BY <1>1, AgentStarts, PTL DEF AgentSpec

\* executeAgent: whatever the tools, the model and the depth do, every call the model makes is
\* answered once after its response, or is the caller's to handle.
THEOREM EveryCallAccounted == AgentSpec => []CallsAccounted
<1>1. AgentInv => CallsAccounted
  <2> SUFFICES ASSUME AgentInv PROVE CallsAccounted
    OBVIOUS
  <2>0. AgentTypeOK /\ Deciding /\ Ended
    BY DEF AgentInv
  <2>1. /\ turns \in Seq(Response) /\ turns # <<>> /\ conversation \in Seq(Said)
        /\ DOMAIN conversation = 1..Len(conversation)
    BY <2>0 DEF AgentTypeOK
  <2>2. ASSUME agent = "decide", manual = {}
        PROVE  /\ \A p \in DOMAIN conversation : conversation[p][1] = "response" =>
                    LET t == conversation[p][2]  n == Cardinality(CallsOf(t)) IN
                    {conversation[q] : q \in p + 1 .. p + n} = {<<"result", c>> : c \in CallsOf(t)}
               /\ Len(conversation) = Len(turns) + Cardinality(Made)
    <3>1. AnsweredTo(Len(conversation), Len(turns))
      BY <2>0, <2>2 DEF Deciding
    <3>2. Len(conversation) = Len(turns) + Cardinality(Made)
      BY <3>1, <2>1, MadeSplits DEF AnsweredTo
    <3>3. ASSUME NEW p \in DOMAIN conversation, conversation[p][1] = "response"
          PROVE  \E t \in 1..Len(turns) : conversation[p] = <<"response", t>> /\ ResultsAt(p, t)
      BY <3>1, <3>3, <2>1 DEF AnsweredTo
    <3>4. ASSUME NEW p \in DOMAIN conversation, conversation[p][1] = "response"
          PROVE  ResultsAt(p, conversation[p][2])
      <4>1. PICK t \in 1..Len(turns) : conversation[p] = <<"response", t>> /\ ResultsAt(p, t)
        BY <3>3, <3>4
      <4>2. conversation[p][2] = t
        BY <4>1
      <4> QED BY <4>1, <4>2
    <3> QED BY <3>2, <3>4 DEF ResultsAt
  <2> QED BY <2>0, <2>2 DEF CallsAccounted, Ended
<1> QED BY <1>1, AgentInvariant, PTL

----------------------------------------------------------------------------
(* The clients.                                                            *)

\* Where a thread stands in an operation on the client, and the operations that take the guard.
Trying == {"first", "dial", "second", "failed", "retain", "monitor", "start"}
Label == Trying \cup {"boot", "idle", "enabling", "removing", "disabling", "attempt", "again"}
Taking == {"reconnect", "update", "enable"}
State == {"none", "new", "disabled", "disconnected", "connected"}

ClientsTypeOK ==
  /\ entry \in [state : State, conn : Conn \cup {0}, cfg : Config \cup {0}]
  /\ entry = NoClient \/ (entry.state # "none" /\ entry.cfg \in Config)
  /\ disabled \in [Config -> BOOLEAN] /\ busy \in BOOLEAN /\ open \subseteq Conn
  /\ pc \in [Thread -> Label] /\ op \in [Thread -> {"none", "add", "boot"} \cup Taking]
  /\ cfg \in [Thread -> Config \cup {0}] /\ old \in [Thread -> Config \cup {0}]
  /\ conn \in [Thread -> Conn \cup {0}] /\ mu \in Thread \cup {0}
  /\ overlap \in BOOLEAN /\ stray \in BOOLEAN

\* What a thread has goes with where it stands.
Paired ==
  \A t \in Thread :
    /\ op[t] # "none" <=> pc[t] \in Trying
    /\ op[t] # "none" \/ pc[t] = "enabling" => cfg[t] \in Config
    /\ op[t] = "update" => old[t] \in Config
    /\ conn[t] # 0 => pc[t] = "second"
    /\ pc[t] = "retain" => op[t] = "boot"

\* A removal or disabling has the lock, under which it has seen the client.
Locked == \A t \in Thread : pc[t] \in {"removing", "disabling"} => mu = t /\ Exists

\* The guard is busy for one thread.
Takes(t) == op[t] \in Taking \/ pc[t] = "disabling"
OneTakes == \A t \in Thread : Takes(t) => busy /\ \A u \in Thread : Takes(u) => u = t

\* One operation, unless AddClient met another.
Alone ==
  ~overlap => \A t, u \in Thread : op[t] # "none" /\ op[u] # "none" => t = u

\* An attempt that begins has the configuration of the client, or one that is disabled if it is.
Aimed ==
  ~overlap => \A t \in Thread : pc[t] = "first" /\ Exists =>
    /\ op[t] \in {"add", "boot", "reconnect"} => cfg[t] = entry.cfg
    /\ op[t] = "update" /\ disabled[entry.cfg] => disabled[cfg[t]]

\* A disabled client has no connection; a connection that is open is the client's or, while it
\* has none, a new one.
Connected ==
  /\ entry.state = "disabled" => entry.conn = 0
  /\ ~overlap =>
       /\ open \subseteq {entry.conn} \cup Range(conn)
       /\ entry.conn # 0 => entry.conn \in open
       /\ \A t \in Thread : /\ conn[t] # 0 => conn[t] \in open /\ conn[t] # entry.conn
                            /\ pc[t] \in {"dial", "second", "failed"} => entry.conn = 0

\* The client is watched, or somebody will have it watched.
Minded ==
  ~stray /\ ~overlap /\ ~Keeps =>
    \/ monitor \in running
    \/ \E t \in Thread :
         pc[t] = "start" \/ (op[t] \in {"add", "boot", "enable"} /\ pc[t] \in Trying)

ClientsInv ==
  /\ ClientsTypeOK /\ Paired /\ Locked /\ OneTakes /\ Alone /\ Aimed /\ Connected /\ Minded

\* The least of numbers is one of them.
LEMMA MinIsIn == ASSUME NEW S \in SUBSET Nat, S # {} PROVE Min(S) \in S
<1> DEFINE R == {ss \in Nat \X Nat : ss[1] < ss[2]}
<1>1. IsWellFoundedOn(R, Nat)
  <2>1. R = OpToRel(<, Nat)
    BY DEF OpToRel
  <2> QED BY <2>1, NatLessThanWellFounded
<1>2. PICK x \in S : \A y \in S : <<y, x>> \notin R
  <2> HIDE DEF R
  <2> QED BY <1>1, WFMin
<1>3. \A y \in S : x <= y
  <2>1. ASSUME NEW y \in S PROVE x <= y
    <3>1. <<y, x>> \in Nat \X Nat /\ x \in Nat /\ y \in Nat
      OBVIOUS
    <3>2. ~(y < x)
      BY <3>1, <1>2
    <3> QED BY <3>2
  <2> QED BY <2>1
<1> QED BY <1>3 DEF Min

\* Zero stands for nobody.
LEMMA NobodyIsZero == 0 \notin Thread
BY MCPAssumption DEF Thread

\* A client is registered, and unless it is disabled an attempt begins.
LEMMA AddKeeps ==
  ASSUME ClientsInv, NEW t \in Thread, pc[t] \in {"idle", "boot"}, mu = 0, NEW o \in {"add", "boot"},
         Add(t, o)
  PROVE  ClientsInv'
<1>1. /\ ClientsTypeOK /\ Paired /\ Locked /\ OneTakes
      /\ Alone /\ Aimed /\ Connected /\ Minded
  BY DEF ClientsInv
<1>2. /\ pc[t] \in {"idle", "boot"} /\ mu = 0 /\ o \in {"add", "boot"}
      /\ ~Exists /\ FreeConfigs # {}
      /\ overlap' = (overlap \/ \E u \in Thread : op[u] # "none")
      /\ UNCHANGED <<busy, open, mu, monitor, running, old, conn, stray>>
  BY DEF Add, Attempt, Meet, health
<1>3. PICK c \in Config : /\ c = Min(FreeConfigs) /\ c # entry.cfg
                           /\ \A u \in Thread : cfg[u] # c /\ old[u] # c
  <2>1. FreeConfigs \in SUBSET Nat
    BY MCPAssumption DEF FreeConfigs
  <2>2. Min(FreeConfigs) \in FreeConfigs
    BY <1>2, <2>1, MinIsIn
  <2> QED BY <1>1, <2>2 DEF FreeConfigs, Range, ClientsTypeOK
<1>4. \/ /\ disabled' = [disabled EXCEPT ![c] = TRUE]
         /\ entry' = [state |-> "disabled", conn |-> 0, cfg |-> c]
         /\ pc' = [pc EXCEPT ![t] = "idle"] /\ UNCHANGED <<op, cfg>>
      \/ /\ disabled' = [disabled EXCEPT ![c] = FALSE]
         /\ entry' = [state |-> "new", conn |-> 0, cfg |-> c]
         /\ pc' = [pc EXCEPT ![t] = "first"]
         /\ op' = [op EXCEPT ![t] = o] /\ cfg' = [cfg EXCEPT ![t] = c]
  BY <1>3 DEF Add, Attempt, MoveTo
<1>5. CASE /\ disabled' = [disabled EXCEPT ![c] = TRUE]
           /\ entry' = [state |-> "disabled", conn |-> 0, cfg |-> c]
           /\ pc' = [pc EXCEPT ![t] = "idle"] /\ UNCHANGED <<op, cfg>>
  <2>1. ClientsTypeOK'
    BY <1>1, <1>2, <1>5 DEF ClientsTypeOK, Label, State
  <2>2. Paired' /\ Locked'
    BY <1>1, <1>2, <1>5 DEF Paired, Trying, Locked
  <2>3. OneTakes'
    BY <1>1, <1>2, <1>5 DEF OneTakes, Takes
  <2>4. Alone'
    BY <1>2, <1>5 DEF Alone
  <2>5. Aimed'
    BY <1>2, <1>5 DEF Aimed
  <2>6. Connected'
    BY <1>1, <1>2, <1>5 DEF ClientsTypeOK, Connected, Exists, NoClient
  <2>7. Minded'
    BY <1>5 DEF Minded, Keeps
  <2> QED BY <2>1, <2>2, <2>3, <2>4, <2>5, <2>6, <2>7 DEF ClientsInv
<1>6. CASE /\ disabled' = [disabled EXCEPT ![c] = FALSE]
           /\ entry' = [state |-> "new", conn |-> 0, cfg |-> c]
           /\ pc' = [pc EXCEPT ![t] = "first"]
           /\ op' = [op EXCEPT ![t] = o] /\ cfg' = [cfg EXCEPT ![t] = c]
  <2>1. ClientsTypeOK'
    BY <1>1, <1>2, <1>6 DEF ClientsTypeOK, Label, Trying, State
  <2>2. Paired' /\ Locked'
    BY <1>1, <1>2, <1>6 DEF ClientsTypeOK, Paired, Trying, Locked
  <2>3. OneTakes'
    BY <1>1, <1>2, <1>6 DEF OneTakes, Takes, Taking
  <2>4. Alone'
    BY <1>1, <1>2, <1>6 DEF ClientsTypeOK, Alone
  <2>5. Aimed'
    BY <1>1, <1>2, <1>3, <1>6 DEF ClientsTypeOK, Aimed, Exists
  <2>6. Connected'
    BY <1>1, <1>2, <1>6 DEF ClientsTypeOK, Connected, Exists, NoClient
  <2>7. Minded'
    BY <1>1, <1>6 DEF ClientsTypeOK, Minded, Trying
  <2> QED BY <2>1, <2>2, <2>3, <2>4, <2>5, <2>6, <2>7 DEF ClientsInv
<1> QED BY <1>4, <1>5, <1>6

\* Boot finds that there is a client, and will put it back.
LEMMA RetainingKeeps ==
  ASSUME ClientsInv, NEW t \in Thread, pc[t] = "boot", mu = 0, Exists, Boot(t)
  PROVE  ClientsInv'
<1>1. /\ ClientsTypeOK /\ Paired /\ Locked /\ OneTakes
      /\ Alone /\ Aimed /\ Connected /\ Minded
  BY DEF ClientsInv
<1>2. /\ pc[t] = "boot" /\ mu = 0 /\ Exists /\ FreeConfigs # {} /\ pc' = [pc EXCEPT ![t] = "retain"]
      /\ op' = [op EXCEPT ![t] = "boot"] /\ cfg' = [cfg EXCEPT ![t] = Min(FreeConfigs)]
      /\ disabled' = [disabled EXCEPT ![Min(FreeConfigs)] = FALSE]
      /\ overlap' = (overlap \/ \E u \in Thread : op[u] # "none")
      /\ UNCHANGED <<entry, busy, open, mu, monitor, running, old, conn, stray>>
  BY DEF Boot, Add, MoveTo, Meet, health
<1>3. PICK c \in Config : /\ c = Min(FreeConfigs) /\ c # entry.cfg
                           /\ \A u \in Thread : cfg[u] # c /\ old[u] # c
  <2>1. FreeConfigs \in SUBSET Nat
    BY MCPAssumption DEF FreeConfigs
  <2>2. Min(FreeConfigs) \in FreeConfigs
    BY <1>2, <2>1, MinIsIn
  <2> QED BY <1>1, <2>2 DEF FreeConfigs, Range, ClientsTypeOK
<1>4. ClientsTypeOK'
  BY <1>1, <1>2, <1>3 DEF ClientsTypeOK, Label, Trying
<1>5. Paired' /\ Locked'
  BY <1>1, <1>2, <1>3 DEF ClientsTypeOK, Paired, Exists, Trying, Locked
<1>6. OneTakes'
  BY <1>1, <1>2 DEF OneTakes, Takes, Taking
<1>7. Alone'
  BY <1>1, <1>2 DEF ClientsTypeOK, Alone
<1>8. Aimed'
  BY <1>1, <1>2 DEF ClientsTypeOK, Aimed
<1>9. Connected'
  BY <1>1, <1>2 DEF ClientsTypeOK, Connected
<1>10. Minded'
  BY <1>1, <1>2 DEF Minded, Keeps, Paired, Trying
<1> QED BY <1>4, <1>5, <1>6, <1>7, <1>8, <1>9, <1>10 DEF ClientsInv

\* The guard is taken for an attempt with the client's configuration, or refused.
LEMMA ReconnectKeeps ==
  ASSUME ClientsInv, NEW t \in Thread, ReconnectClient(t)
  PROVE  ClientsInv'
<1>1. /\ ClientsTypeOK /\ Paired /\ Locked /\ OneTakes
      /\ Alone /\ Aimed /\ Connected /\ Minded
  BY DEF ClientsInv
<1>2. /\ pc[t] \in {"idle", "again"} /\ mu = 0
      /\ UNCHANGED <<entry, disabled, open, mu, monitor, running, old, conn, stray>>
  BY DEF ReconnectClient, health
<1>5. CASE ~busy /\ Exists
  <2>1. /\ busy' = TRUE /\ op' = [op EXCEPT ![t] = "reconnect"] /\ pc' = [pc EXCEPT ![t] = "first"]
        /\ cfg' = [cfg EXCEPT ![t] = entry.cfg]
        /\ overlap' = (overlap \/ \E u \in Thread : op[u] # "none")
    BY <1>5 DEF ReconnectClient, Attempt, MoveTo, Meet
  <2>2. ClientsTypeOK'
    BY <1>1, <1>2, <2>1 DEF ClientsTypeOK, Label, Trying, Taking
  <2>3. Paired' /\ Locked'
    BY <1>1, <1>2, <1>5, <2>1 DEF ClientsTypeOK, Paired, Exists, Trying, Locked
  <2>4. OneTakes'
    BY <1>1, <1>5, <2>1 DEF OneTakes, Takes
  <2>5. Alone'
    BY <1>1, <2>1 DEF ClientsTypeOK, Alone
  <2>6. Aimed'
    BY <1>1, <1>2, <2>1 DEF ClientsTypeOK, Aimed, Exists
  <2>7. Connected'
    BY <1>1, <1>2, <2>1 DEF ClientsTypeOK, Connected
  <2>8. Minded'
    BY <1>1, <1>2, <2>1 DEF Minded, Keeps, Paired, Trying
  <2> QED BY <2>2, <2>3, <2>4, <2>5, <2>6, <2>7, <2>8 DEF ClientsInv
<1>6. CASE ~(~busy /\ Exists)
  <2>1. /\ pc' = [pc EXCEPT ![t] = "idle"]
        /\ UNCHANGED <<busy, op, cfg, overlap>>
    BY <1>6 DEF ReconnectClient, MoveTo
  <2>2. ClientsTypeOK'
    BY <1>1, <1>2, <2>1 DEF ClientsTypeOK, Label
  <2>3. Paired' /\ Locked'
    BY <1>1, <1>2, <2>1 DEF Paired, Exists, Trying, Locked
  <2>4. OneTakes'
    BY <1>1, <2>1 DEF OneTakes, Takes
  <2>5. Alone'
    BY <1>1, <2>1 DEF Alone
  <2>6. Aimed'
    BY <1>1, <1>2, <2>1 DEF Aimed, Exists
  <2>7. Connected'
    BY <1>1, <1>2, <2>1 DEF Connected
  <2>8. Minded'
    BY <1>1, <1>2, <2>1 DEF Minded, Keeps, Trying
  <2> QED BY <2>2, <2>3, <2>4, <2>5, <2>6, <2>7, <2>8 DEF ClientsInv
<1> QED BY <1>5, <1>6

\* An attempt begins with a new configuration, as disabled as the old one.
LEMMA UpdateConnectionKeeps ==
  ASSUME ClientsInv, NEW t \in Thread, UpdateClientConnection(t)
  PROVE  ClientsInv'
<1>1. /\ ClientsTypeOK /\ Paired /\ Locked /\ OneTakes
      /\ Alone /\ Aimed /\ Connected /\ Minded
  BY DEF ClientsInv
<1>2. /\ pc[t] = "idle" /\ mu = 0 /\ ~busy /\ Exists /\ FreeConfigs # {} /\ busy' = TRUE
      /\ op' = [op EXCEPT ![t] = "update"] /\ cfg' = [cfg EXCEPT ![t] = Min(FreeConfigs)]
      /\ old' = [old EXCEPT ![t] = entry.cfg] /\ pc' = [pc EXCEPT ![t] = "first"]
      /\ disabled' = [disabled EXCEPT ![Min(FreeConfigs)] = disabled[entry.cfg]]
      /\ overlap' = (overlap \/ \E u \in Thread : op[u] # "none")
      /\ UNCHANGED <<entry, open, mu, monitor, running, conn, stray>>
  BY DEF UpdateClientConnection, Attempt, MoveTo, Meet, health
<1>3. PICK c \in Config : /\ c = Min(FreeConfigs) /\ c # entry.cfg
                           /\ \A u \in Thread : cfg[u] # c /\ old[u] # c
  <2>1. FreeConfigs \in SUBSET Nat
    BY MCPAssumption DEF FreeConfigs
  <2>2. Min(FreeConfigs) \in FreeConfigs
    BY <1>2, <2>1, MinIsIn
  <2> QED BY <1>1, <2>2 DEF FreeConfigs, Range, ClientsTypeOK
<1>4. ClientsTypeOK'
  BY <1>1, <1>2, <1>3 DEF ClientsTypeOK, Exists, Label, Trying, Taking
<1>5. Paired' /\ Locked'
  BY <1>1, <1>2, <1>3 DEF ClientsTypeOK, Paired, Exists, Trying, Locked
<1>6. OneTakes'
  BY <1>1, <1>2 DEF OneTakes, Takes
<1>7. Alone'
  BY <1>1, <1>2 DEF ClientsTypeOK, Alone
<1>8. Aimed'
  BY <1>1, <1>2, <1>3 DEF ClientsTypeOK, Aimed
<1>9. Connected'
  BY <1>1, <1>2 DEF ClientsTypeOK, Connected
<1>10. Minded'
  BY <1>1, <1>2 DEF Minded, Keeps, Paired, Trying
<1> QED BY <1>4, <1>5, <1>6, <1>7, <1>8, <1>9, <1>10 DEF ClientsInv

\* The client gets a new configuration, which may be disabled.
LEMMA UpdateKeeps ==
  ASSUME ClientsInv, NEW t \in Thread, UpdateClient(t)
  PROVE  ClientsInv'
<1>1. /\ ClientsTypeOK /\ Paired /\ Locked /\ OneTakes
      /\ Alone /\ Aimed /\ Connected /\ Minded
  BY DEF ClientsInv
<1>2. /\ pc[t] = "idle" /\ mu = 0 /\ ~busy /\ Exists /\ FreeConfigs # {}
      /\ \E d \in BOOLEAN : disabled' = [disabled EXCEPT ![Min(FreeConfigs)] = d]
      /\ entry' = [entry EXCEPT !.cfg = Min(FreeConfigs)]
      /\ overlap' = (overlap \/ \E u \in Thread : op[u] # "none")
      /\ UNCHANGED <<busy, open, mu, monitor, running, op, pc, cfg, old, conn, stray>>
  BY DEF UpdateClient, Meet, health, threads
<1>3. PICK c \in Config : /\ c = Min(FreeConfigs) /\ c # entry.cfg
                           /\ \A u \in Thread : cfg[u] # c /\ old[u] # c
  <2>1. FreeConfigs \in SUBSET Nat
    BY MCPAssumption DEF FreeConfigs
  <2>2. Min(FreeConfigs) \in FreeConfigs
    BY <1>2, <2>1, MinIsIn
  <2> QED BY <1>1, <2>2 DEF FreeConfigs, Range, ClientsTypeOK
<1>4. ClientsTypeOK'
  BY <1>1, <1>2, <1>3 DEF ClientsTypeOK, Exists
<1>5. Paired' /\ Locked' /\ OneTakes' /\ Alone'
  BY <1>1, <1>2 DEF ClientsTypeOK, Paired, Exists, NoClient, Locked, OneTakes, Takes,
     Alone
<1>6. Aimed'
  BY <1>2 DEF Aimed
<1>7. Connected'
  BY <1>1, <1>2 DEF ClientsTypeOK, Connected
<1>8. Minded'
  BY <1>1, <1>2 DEF ClientsTypeOK, Minded, Keeps
<1> QED BY <1>4, <1>5, <1>6, <1>7, <1>8 DEF ClientsInv

\* The configuration is enabled before the guard is asked for.
LEMMA EnableKeeps ==
  ASSUME ClientsInv, NEW t \in Thread, EnableClient(t)
  PROVE  ClientsInv'
<1>1. /\ ClientsTypeOK /\ Paired /\ Locked /\ OneTakes
      /\ Alone /\ Aimed /\ Connected /\ Minded
  BY DEF ClientsInv
<1>2. /\ pc[t] = "idle" /\ mu = 0 /\ entry.state = "disabled"
      /\ disabled' = [disabled EXCEPT ![entry.cfg] = FALSE]
      /\ cfg' = [cfg EXCEPT ![t] = entry.cfg] /\ pc' = [pc EXCEPT ![t] = "enabling"]
      /\ UNCHANGED <<entry, busy, open, mu, monitor, running, op, old, conn, overlap, stray>>
  BY DEF EnableClient, MoveTo, health, history
<1>4. ClientsTypeOK'
  BY <1>1, <1>2 DEF ClientsTypeOK, Label
<1>5. Paired' /\ Locked' /\ OneTakes' /\ Alone'
  BY <1>1, <1>2 DEF ClientsTypeOK, Paired, Exists, NoClient, Trying, Locked, OneTakes,
     Takes, Alone
<1>6. Aimed'
  BY <1>1, <1>2 DEF Aimed, Exists
<1>7. Connected'
  BY <1>1, <1>2 DEF Connected
<1>8. Minded'
  BY <1>2 DEF Minded, Keeps
<1> QED BY <1>4, <1>5, <1>6, <1>7, <1>8 DEF ClientsInv

\* The guard is refused, or an attempt of its own begins.
LEMMA EnablingKeeps ==
  ASSUME ClientsInv, NEW t \in Thread, Enabling(t)
  PROVE  ClientsInv'
<1>1. /\ ClientsTypeOK /\ Paired /\ Locked /\ OneTakes
      /\ Alone /\ Aimed /\ Connected /\ Minded
  BY DEF ClientsInv
<1>2. /\ pc[t] = "enabling"
      /\ UNCHANGED <<entry, disabled, open, mu, monitor, running, old, conn, stray>>
  BY DEF Enabling, health
<1>5. CASE ~busy
  <2>1. /\ busy' = TRUE /\ op' = [op EXCEPT ![t] = "enable"] /\ pc' = [pc EXCEPT ![t] = "first"]
        /\ cfg' = [cfg EXCEPT ![t] = cfg[t]]
        /\ overlap' = (overlap \/ \E u \in Thread : op[u] # "none")
    BY <1>5 DEF Enabling, Attempt, MoveTo, Meet
  <2>2. ClientsTypeOK'
    BY <1>1, <1>2, <2>1 DEF ClientsTypeOK, Label, Trying, Taking
  <2>3. Paired' /\ Locked'
    BY <1>1, <1>2, <2>1 DEF ClientsTypeOK, Paired, Exists, Trying, Locked
  <2>4. OneTakes'
    BY <1>1, <1>5, <2>1 DEF OneTakes, Takes
  <2>5. Alone'
    BY <1>1, <2>1 DEF ClientsTypeOK, Alone
  <2>6. Aimed'
    BY <1>1, <1>2, <2>1 DEF ClientsTypeOK, Aimed, Exists
  <2>7. Connected'
    BY <1>1, <1>2, <2>1 DEF ClientsTypeOK, Connected
  <2>8. Minded'
    BY <1>1, <2>1 DEF ClientsTypeOK, Minded, Trying
  <2> QED BY <2>2, <2>3, <2>4, <2>5, <2>6, <2>7, <2>8 DEF ClientsInv
<1>6. CASE busy
  <2>1. /\ pc' = [pc EXCEPT ![t] = "idle"] /\ cfg' = [cfg EXCEPT ![t] = 0]
        /\ UNCHANGED <<busy, op, overlap>>
    BY <1>6 DEF Enabling, MoveTo
  <2>2. ClientsTypeOK'
    BY <1>1, <1>2, <2>1 DEF ClientsTypeOK, Label
  <2>3. Paired' /\ Locked'
    BY <1>1, <1>2, <2>1 DEF ClientsTypeOK, Paired, Exists, Trying, Locked
  <2>4. OneTakes'
    BY <1>1, <2>1 DEF OneTakes, Takes
  <2>5. Alone'
    BY <1>1, <2>1 DEF Alone
  <2>6. Aimed'
    BY <1>1, <1>2, <2>1 DEF Aimed, Exists
  <2>7. Connected'
    BY <1>1, <1>2, <2>1 DEF Connected
  <2>8. Minded'
    BY <1>1, <1>2, <2>1 DEF Minded, Keeps, Trying
  <2> QED BY <2>2, <2>3, <2>4, <2>5, <2>6, <2>7, <2>8 DEF ClientsInv
<1> QED BY <1>5, <1>6

\* A removal waits for the lock of the monitors.
LEMMA RemoveKeeps ==
  ASSUME ClientsInv, NEW t \in Thread, RemoveClient(t)
  PROVE  ClientsInv'
<1>1. /\ ClientsTypeOK /\ Paired /\ Locked /\ OneTakes
      /\ Alone /\ Aimed /\ Connected /\ Minded
  BY DEF ClientsInv
<1>2. /\ pc[t] = "idle" /\ mu = 0 /\ Exists /\ mu' = t /\ pc' = [pc EXCEPT ![t] = "removing"]
      /\ UNCHANGED <<entry, disabled, busy, open, monitor, running>>
      /\ UNCHANGED <<op, cfg, old, conn, overlap, stray>>
  BY DEF RemoveClient, MoveTo, health, history
<1>4. ClientsTypeOK'
  BY <1>1, <1>2 DEF ClientsTypeOK, Label
<1>5. Paired' /\ Locked' /\ OneTakes' /\ Alone'
  BY <1>1, <1>2, NobodyIsZero DEF Paired, Exists, Trying, Locked, OneTakes, Takes, Alone
<1>6. Aimed'
  BY <1>1, <1>2 DEF Aimed
<1>7. Connected'
  BY <1>1, <1>2 DEF Connected
<1>8. Minded'
  BY <1>1, <1>2 DEF Minded, Keeps, Trying
<1> QED BY <1>4, <1>5, <1>6, <1>7, <1>8 DEF ClientsInv

\* A disabling has the guard and waits for the lock of the monitors.
LEMMA DisableKeeps ==
  ASSUME ClientsInv, NEW t \in Thread, DisableClient(t)
  PROVE  ClientsInv'
<1>1. /\ ClientsTypeOK /\ Paired /\ Locked /\ OneTakes
      /\ Alone /\ Aimed /\ Connected /\ Minded
  BY DEF ClientsInv
<1>2. /\ pc[t] = "idle" /\ mu = 0 /\ Exists /\ ~busy /\ busy' = TRUE
      /\ mu' = t /\ pc' = [pc EXCEPT ![t] = "disabling"]
      /\ UNCHANGED <<entry, disabled, open, monitor, running, op>>
      /\ UNCHANGED <<cfg, old, conn, overlap, stray>>
  BY DEF DisableClient, MoveTo, health, history
<1>4. ClientsTypeOK'
  BY <1>1, <1>2 DEF ClientsTypeOK, Label
<1>5. Paired' /\ Locked' /\ OneTakes' /\ Alone'
  BY <1>1, <1>2, NobodyIsZero DEF Paired, Exists, Trying, Locked, OneTakes, Takes, Alone
<1>6. Aimed'
  BY <1>1, <1>2 DEF Aimed
<1>7. Connected'
  BY <1>1, <1>2 DEF Connected
<1>8. Minded'
  BY <1>1, <1>2 DEF Minded, Keeps, Trying
<1> QED BY <1>4, <1>5, <1>6, <1>7, <1>8 DEF ClientsInv

\* The client is gone, and its connection is closed.
LEMMA RemovingKeeps ==
  ASSUME ClientsInv, NEW t \in Thread, Removing(t)
  PROVE  ClientsInv'
<1>1. /\ ClientsTypeOK /\ Paired /\ Locked /\ OneTakes
      /\ Alone /\ Aimed /\ Connected /\ Minded
  BY DEF ClientsInv
<1>2. /\ mu' = 0 /\ pc[t] = "removing" /\ pc' = [pc EXCEPT ![t] = "idle"]
      /\ entry' = NoClient /\ open' = open \ {entry.conn}
      /\ UNCHANGED <<disabled, busy, op, cfg, old, conn, overlap, stray>>
  BY DEF Removing, MoveTo, history
<1>4. ClientsTypeOK'
  BY <1>1, <1>2 DEF ClientsTypeOK, NoClient, Label, State
<1>5. Paired' /\ Locked' /\ OneTakes' /\ Alone'
  BY <1>1, <1>2 DEF ClientsTypeOK, Paired, Trying, Locked, OneTakes, Takes, Alone
<1>6. Aimed'
  BY <1>2 DEF Aimed, Exists
<1>7. Connected'
  BY <1>1, <1>2 DEF Connected, NoClient
<1>8. Minded'
  BY <1>2 DEF Minded, Keeps, NoClient
<1> QED BY <1>4, <1>5, <1>6, <1>7, <1>8 DEF ClientsInv

\* The client is disabled, and its connection is closed.
LEMMA DisablingKeeps ==
  ASSUME ClientsInv, NEW t \in Thread, Disabling(t)
  PROVE  ClientsInv'
<1>1. /\ ClientsTypeOK /\ Paired /\ Locked /\ OneTakes
      /\ Alone /\ Aimed /\ Connected /\ Minded
  BY DEF ClientsInv
<1>2. /\ mu' = 0 /\ pc[t] = "disabling" /\ pc' = [pc EXCEPT ![t] = "idle"]
      /\ entry' = [entry EXCEPT !.state = "disabled", !.conn = 0] /\ open' = open \ {entry.conn}
      /\ disabled' = [disabled EXCEPT ![entry.cfg] = TRUE] /\ busy' = FALSE
      /\ UNCHANGED <<op, cfg, old, conn, overlap, stray>>
  BY DEF Disabling, MoveTo, history
<1>4. ClientsTypeOK'
  BY <1>1, <1>2 DEF ClientsTypeOK, Locked, Exists, Label, State
<1>5. Paired' /\ Locked' /\ OneTakes' /\ Alone'
  BY <1>1, <1>2 DEF ClientsTypeOK, Paired, Trying, Locked, OneTakes, Takes, Taking,
     Alone
<1>6. Aimed'
  BY <1>1, <1>2 DEF Aimed, Locked, OneTakes, Takes, Taking
<1>7. Connected'
  BY <1>1, <1>2 DEF Connected
<1>8. Minded'
  BY <1>2 DEF Minded, Keeps
<1> QED BY <1>4, <1>5, <1>6, <1>7, <1>8 DEF ClientsInv

\* An attempt replaces the entry and closes its connection.
LEMMA FirstKeeps ==
  ASSUME ClientsInv, NEW t \in Thread, First(t)
  PROVE  ClientsInv'
<1>1. /\ ClientsTypeOK /\ Paired /\ Locked /\ OneTakes
      /\ Alone /\ Aimed /\ Connected /\ Minded
  BY DEF ClientsInv
<1>2. /\ pc[t] = "first" /\ mu = 0
      /\ UNCHANGED <<disabled, busy, mu, monitor, running, op, cfg, old, conn, overlap>>
  BY DEF First, health
<1>5. CASE entry.state = "disabled" /\ disabled[cfg[t]]
  <2>1. /\ pc' = [pc EXCEPT ![t] = "failed"]
        /\ UNCHANGED <<entry, open, stray>>
    BY <1>5 DEF First, MoveTo
  <2>2. ClientsTypeOK'
    BY <1>1, <1>2, <2>1 DEF ClientsTypeOK, Label, Trying
  <2>3. Paired' /\ Locked' /\ OneTakes' /\ Alone'
    BY <1>1, <1>2, <2>1 DEF Paired, Exists, Trying, Locked, OneTakes, Takes, Alone
  <2>4. Aimed'
    BY <1>1, <1>2, <2>1 DEF Aimed, Exists
  <2>5. Connected'
    BY <1>1, <1>2, <1>5, <2>1 DEF Connected
  <2>6. Minded'
    BY <1>5, <2>1 DEF Minded, Keeps
  <2> QED BY <2>2, <2>3, <2>4, <2>5, <2>6 DEF ClientsInv
<1>6. CASE ~(entry.state = "disabled" /\ disabled[cfg[t]])
  <2>1. /\ entry' = [state |-> "disconnected", conn |-> 0, cfg |-> cfg[t]]
        /\ open' = open \ {entry.conn} /\ pc' = [pc EXCEPT ![t] = "dial"]
        /\ stray' = (stray \/ ~Exists \/ (entry.state = "disabled" /\ op[t] # "enable"))
    BY <1>6 DEF First, Superseded, MoveTo
  <2>2. ClientsTypeOK'
    BY <1>1, <1>2, <2>1 DEF ClientsTypeOK, Paired, Label, Trying, State
  <2>3. Paired' /\ Locked' /\ OneTakes' /\ Alone'
    BY <1>1, <1>2, <2>1 DEF Paired, Exists, NoClient, Trying, Locked, OneTakes, Takes,
       Alone
  <2>4. Aimed'
    BY <1>1, <1>2, <2>1 DEF Aimed, Alone, Paired
  <2>5. Connected'
    BY <1>1, <1>2, <2>1 DEF Connected
  <2>6. Minded'
    BY <1>1, <1>2, <2>1 DEF ClientsTypeOK, Minded, Keeps, Exists, Trying
  <2> QED BY <2>2, <2>3, <2>4, <2>5, <2>6 DEF ClientsInv
<1> QED BY <1>5, <1>6

\* An attempt may open a connection, which nobody has.
LEMMA DialKeeps ==
  ASSUME ClientsInv, NEW t \in Thread, Dial(t)
  PROVE  ClientsInv'
<1>1. /\ ClientsTypeOK /\ Paired /\ Locked /\ OneTakes
      /\ Alone /\ Aimed /\ Connected /\ Minded
  BY DEF ClientsInv
<1>2. /\ pc[t] = "dial"
      /\ UNCHANGED <<entry, disabled, busy, mu, monitor, running, op, cfg, old, overlap, stray>>
  BY DEF Dial, health, history
<1>3. FreeConns # {} => /\ Min(FreeConns) \in Conn /\ Min(FreeConns) # 0
                         /\ Min(FreeConns) # entry.conn /\ Min(FreeConns) \notin open
  <2>1. FreeConns \in SUBSET Nat
    BY MCPAssumption DEF FreeConns
  <2>2. FreeConns # {} => Min(FreeConns) \in FreeConns
    BY <2>1, MinIsIn
  <2> QED BY <2>2, MCPAssumption DEF FreeConns
<1>4. \/ /\ pc' \in {[pc EXCEPT ![t] = "failed"], [pc EXCEPT ![t] = "second"]}
         /\ UNCHANGED <<open, conn>>
      \/ /\ FreeConns # {} /\ pc' = [pc EXCEPT ![t] = "second"]
         /\ open' = open \cup {Min(FreeConns)}
         /\ conn' = [conn EXCEPT ![t] = Min(FreeConns)]
  BY DEF Dial, MoveTo
<1>5. CASE /\ pc' \in {[pc EXCEPT ![t] = "failed"], [pc EXCEPT ![t] = "second"]}
           /\ UNCHANGED <<open, conn>>
  <2>1. ClientsTypeOK'
    BY <1>1, <1>2, <1>5 DEF ClientsTypeOK, Label, Trying
  <2>2. Paired' /\ Locked' /\ OneTakes' /\ Alone'
    BY <1>1, <1>2, <1>5 DEF ClientsTypeOK, Paired, Exists, Trying, Locked, OneTakes,
       Takes, Alone
  <2>3. Aimed'
    BY <1>1, <1>2, <1>5 DEF ClientsTypeOK, Aimed, Alone, Paired, Trying
  <2>4. Connected'
    BY <1>1, <1>2, <1>5 DEF Connected
  <2>5. Minded'
    BY <1>1, <1>2, <1>5 DEF ClientsTypeOK, Minded, Keeps, Trying
  <2> QED BY <2>1, <2>2, <2>3, <2>4, <2>5 DEF ClientsInv
<1>6. CASE /\ FreeConns # {} /\ pc' = [pc EXCEPT ![t] = "second"]
           /\ open' = open \cup {Min(FreeConns)}
           /\ conn' = [conn EXCEPT ![t] = Min(FreeConns)]
  <2>1. ClientsTypeOK'
    BY <1>1, <1>2, <1>3, <1>6 DEF ClientsTypeOK, Label, Trying
  <2>2. Paired' /\ Locked' /\ OneTakes' /\ Alone'
    BY <1>1, <1>2, <1>6 DEF ClientsTypeOK, Paired, Exists, Trying, Locked, OneTakes,
       Takes, Alone
  <2>3. Aimed'
    BY <1>1, <1>2, <1>6 DEF Aimed, Alone, Paired, Trying
  <2>4. Connected'
    BY <1>1, <1>2, <1>6 DEF ClientsTypeOK, Connected, Range, Paired
  <2>5. Minded'
    BY <1>1, <1>2, <1>6 DEF Minded, Keeps, Trying
  <2> QED BY <2>1, <2>2, <2>3, <2>4, <2>5 DEF ClientsInv
<1> QED BY <1>4, <1>5, <1>6

\* The connection becomes the client's, if there is still one to have it.
LEMMA SecondKeeps ==
  ASSUME ClientsInv, NEW t \in Thread, Second(t)
  PROVE  ClientsInv'
<1>1. /\ ClientsTypeOK /\ Paired /\ Locked /\ OneTakes
      /\ Alone /\ Aimed /\ Connected /\ Minded
  BY DEF ClientsInv
<1>2. /\ pc[t] = "second" /\ mu = 0 /\ conn' = [conn EXCEPT ![t] = 0]
      /\ UNCHANGED <<disabled, busy, mu, monitor, running, op, cfg, old, overlap, stray>>
  BY DEF Second, health, history
<1>5. CASE Keeps
  <2>1. /\ open' = open \ {conn[t]} /\ entry' = entry
        /\ pc' = [pc EXCEPT ![t] = "failed"]
    BY <1>5 DEF Second, MoveTo
  <2>2. ClientsTypeOK'
    BY <1>1, <1>2, <2>1 DEF ClientsTypeOK, Label, Trying
  <2>3. Paired' /\ Locked' /\ OneTakes' /\ Alone'
    BY <1>1, <1>2, <2>1 DEF ClientsTypeOK, Paired, Exists, Trying, Locked, OneTakes,
       Takes, Alone
  <2>4. Aimed'
    BY <1>1, <1>2, <2>1 DEF Aimed, Alone, Paired, Trying
  <2>5. Connected'
    BY <1>1, <1>2, <2>1 DEF ClientsTypeOK, Connected, Range, Alone, Paired, Trying
  <2>6. Minded'
    BY <1>5, <2>1 DEF Minded, Keeps
  <2> QED BY <2>2, <2>3, <2>4, <2>5, <2>6 DEF ClientsInv
<1>6. CASE ~Keeps
  <2>1. /\ pc' = [pc EXCEPT ![t] = "monitor"] /\ open' = open
        /\ entry' = [entry EXCEPT !.conn = conn[t], !.state = "connected"]
    BY <1>6 DEF Second, MoveTo
  <2>2. ClientsTypeOK'
    <3>1. entry.state # "none" /\ entry.cfg \in Config /\ conn[t] \in Conn \cup {0}
      BY <1>1, <1>6 DEF ClientsTypeOK, Keeps, NoClient
    <3>2. /\ entry' \in [state : State, conn : Conn \cup {0}, cfg : Config \cup {0}]
          /\ entry'.state # "none" /\ entry'.cfg \in Config
      BY <1>1, <2>1, <3>1 DEF ClientsTypeOK, State
    <3> QED BY <1>1, <1>2, <2>1, <3>2 DEF ClientsTypeOK, Label, Trying
  <2>3. Paired' /\ Locked' /\ OneTakes' /\ Alone'
    BY <1>1, <1>2, <2>1, NobodyIsZero DEF ClientsTypeOK, Paired, Trying, Locked,
       OneTakes, Takes, Alone
  <2>4. Aimed'
    BY <1>1, <1>2, <2>1 DEF Aimed, Alone, Paired, Trying
  <2>5. Connected'
    BY <1>1, <1>2, <2>1 DEF ClientsTypeOK, Connected, Range, Alone, Paired, Trying
  <2>6. Minded'
    BY <1>1, <1>2, <1>6, <2>1 DEF Minded, Trying
  <2> QED BY <2>2, <2>3, <2>4, <2>5, <2>6 DEF ClientsInv
<1> QED BY <1>5, <1>6

\* The entry is deleted; at boot it is put back later.
LEMMA AddFailedKeeps ==
  ASSUME ClientsInv, NEW t \in Thread, pc[t] = "failed", mu = 0, op[t] \in {"add", "boot"}, AddFailed(t),
         UNCHANGED <<disabled, open, mu, hmm, health, conn, history>>
  PROVE  ClientsInv'
<1>1. /\ ClientsTypeOK /\ Paired /\ Locked /\ OneTakes
      /\ Alone /\ Aimed /\ Connected /\ Minded
  BY DEF ClientsInv
<1>2. /\ pc[t] = "failed" /\ mu = 0 /\ entry' = NoClient
      /\ UNCHANGED <<disabled, open, mu, monitor, running, conn, overlap, stray>>
  BY DEF AddFailed, health, history
<1>5. CASE op[t] = "add"
  <2>1. /\ busy' = (busy /\ op[t] \in {"add", "boot"}) /\ pc' = [pc EXCEPT ![t] = "idle"]
        /\ op' = [op EXCEPT ![t] = "none"] /\ cfg' = [cfg EXCEPT ![t] = 0]
        /\ old' = [old EXCEPT ![t] = 0]
    BY <1>5 DEF AddFailed, Return, MoveTo
  <2>2. ClientsTypeOK'
    BY <1>1, <1>2, <2>1 DEF ClientsTypeOK, NoClient, Label, State
  <2>3. Paired' /\ Locked' /\ OneTakes' /\ Alone'
    BY <1>1, <1>2, <2>1, NobodyIsZero DEF ClientsTypeOK, Paired, Trying, Locked,
       OneTakes, Takes, Taking, Alone
  <2>4. Aimed'
    BY <1>2 DEF Aimed, Exists
  <2>5. Connected'
    BY <1>1, <1>2 DEF Connected, NoClient
  <2>6. Minded'
    BY <1>2 DEF Minded, Keeps, NoClient
  <2> QED BY <2>2, <2>3, <2>4, <2>5, <2>6 DEF ClientsInv
<1>6. CASE op[t] = "boot"
  <2>1. /\ pc' = [pc EXCEPT ![t] = "retain"]
        /\ UNCHANGED <<busy, op, cfg, old>>
    BY <1>6 DEF AddFailed, MoveTo
  <2>2. ClientsTypeOK'
    BY <1>1, <1>2, <2>1 DEF ClientsTypeOK, NoClient, Label, Trying, State
  <2>3. Paired' /\ Locked' /\ OneTakes' /\ Alone'
    BY <1>1, <1>2, <1>6, <2>1, NobodyIsZero DEF Paired, Trying, Locked, OneTakes, Takes,
       Alone
  <2>4. Aimed'
    BY <1>2 DEF Aimed, Exists
  <2>5. Connected'
    BY <1>1, <1>2 DEF Connected, NoClient
  <2>6. Minded'
    BY <2>1 DEF Minded, Trying
  <2> QED BY <2>2, <2>3, <2>4, <2>5, <2>6 DEF ClientsInv
<1> QED BY <1>5, <1>6

\* The guard is given back.
LEMMA ReconnectFailedKeeps ==
  ASSUME ClientsInv, NEW t \in Thread, pc[t] = "failed", mu = 0, ReconnectFailed(t),
         UNCHANGED <<disabled, open, mu, hmm, health, conn, history>>
  PROVE  ClientsInv'
<1>1. /\ ClientsTypeOK /\ Paired /\ Locked /\ OneTakes
      /\ Alone /\ Aimed /\ Connected /\ Minded
  BY DEF ClientsInv
<1>2. /\ pc[t] = "failed" /\ mu = 0 /\ op[t] = "reconnect" /\ entry' = entry
      /\ busy' = FALSE /\ pc' = [pc EXCEPT ![t] = "idle"]
      /\ op' = [op EXCEPT ![t] = "none"] /\ cfg' = [cfg EXCEPT ![t] = 0]
      /\ old' = [old EXCEPT ![t] = 0]
      /\ UNCHANGED <<disabled, open, mu, monitor, running, conn, overlap, stray>>
  BY DEF ReconnectFailed, Return, MoveTo, health, history
<1>4. ClientsTypeOK'
  BY <1>1, <1>2 DEF ClientsTypeOK, Label
<1>5. Paired' /\ Locked' /\ OneTakes' /\ Alone'
  BY <1>1, <1>2 DEF ClientsTypeOK, Paired, Exists, Trying, Locked, OneTakes, Takes,
     Taking, Alone
<1>6. Aimed'
  BY <1>1, <1>2 DEF Aimed, Alone
<1>7. Connected'
  BY <1>1, <1>2 DEF Connected
<1>8. Minded'
  BY <1>1, <1>2 DEF Minded, Keeps
<1> QED BY <1>4, <1>5, <1>6, <1>7, <1>8 DEF ClientsInv

\* The client has the configuration back that it had before.
LEMMA UpdateFailedKeeps ==
  ASSUME ClientsInv, NEW t \in Thread, pc[t] = "failed", mu = 0, UpdateFailed(t),
         UNCHANGED <<disabled, open, mu, hmm, health, conn, history>>
  PROVE  ClientsInv'
<1>1. /\ ClientsTypeOK /\ Paired /\ Locked /\ OneTakes
      /\ Alone /\ Aimed /\ Connected /\ Minded
  BY DEF ClientsInv
<1>2. /\ pc[t] = "failed" /\ mu = 0 /\ op[t] = "update"
      /\ busy' = FALSE /\ pc' = [pc EXCEPT ![t] = "idle"]
      /\ op' = [op EXCEPT ![t] = "none"] /\ cfg' = [cfg EXCEPT ![t] = 0]
      /\ old' = [old EXCEPT ![t] = 0]
      /\ UNCHANGED <<disabled, open, mu, monitor, running, conn, overlap, stray>>
  BY DEF UpdateFailed, Return, MoveTo, health, history
<1>5. CASE ~Exists
  <2>1. /\ entry' = entry
    BY <1>5 DEF UpdateFailed
  <2>2. ClientsTypeOK'
    BY <1>1, <1>2, <2>1 DEF ClientsTypeOK, Label
  <2>3. Paired' /\ Locked' /\ OneTakes' /\ Alone'
    BY <1>1, <1>2, NobodyIsZero DEF ClientsTypeOK, Paired, Trying, Locked, OneTakes,
       Takes, Taking, Alone
  <2>4. Aimed'
    BY <1>5, <2>1 DEF Aimed, Exists
  <2>5. Connected'
    BY <1>1, <1>2, <2>1 DEF Connected
  <2>6. Minded'
    BY <1>5, <2>1 DEF Minded, Keeps, NoClient, Exists
  <2> QED BY <2>2, <2>3, <2>4, <2>5, <2>6 DEF ClientsInv
<1>6. CASE Exists
  <2>1. /\ entry' = [entry EXCEPT !.cfg = old[t]]
    BY <1>6 DEF UpdateFailed
  <2>2. ClientsTypeOK'
    BY <1>1, <1>2, <1>6, <2>1 DEF ClientsTypeOK, Exists, Paired, Label
  <2>3. Paired' /\ Locked' /\ OneTakes' /\ Alone'
    BY <1>1, <1>2, NobodyIsZero DEF ClientsTypeOK, Paired, Trying, Locked, OneTakes,
       Takes, Taking, Alone
  <2>4. Aimed'
    BY <1>1, <1>2 DEF Aimed, Alone
  <2>5. Connected'
    BY <1>1, <1>2, <2>1 DEF Connected
  <2>6. Minded'
    BY <1>1, <1>2, <2>1 DEF Minded, Keeps
  <2> QED BY <2>2, <2>3, <2>4, <2>5, <2>6 DEF ClientsInv
<1> QED BY <1>5, <1>6

\* Unless the client is disabled again, it will be watched.
LEMMA EnableFailedKeeps ==
  ASSUME ClientsInv, NEW t \in Thread, pc[t] = "failed", mu = 0, EnableFailed(t),
         UNCHANGED <<disabled, open, mu, hmm, health, conn, history>>
  PROVE  ClientsInv'
<1>1. /\ ClientsTypeOK /\ Paired /\ Locked /\ OneTakes
      /\ Alone /\ Aimed /\ Connected /\ Minded
  BY DEF ClientsInv
<1>2. /\ pc[t] = "failed" /\ mu = 0 /\ op[t] = "enable"
      /\ UNCHANGED <<disabled, open, mu, monitor, running, conn, overlap, stray>>
  BY DEF EnableFailed, health, history
<1>5. CASE entry.state = "disabled"
  <2>1. /\ busy' = FALSE /\ pc' = [pc EXCEPT ![t] = "idle"]
        /\ op' = [op EXCEPT ![t] = "none"] /\ cfg' = [cfg EXCEPT ![t] = 0]
        /\ old' = [old EXCEPT ![t] = 0]
        /\ entry' = entry
    BY <1>5 DEF EnableFailed, Return, MoveTo
  <2>2. ClientsTypeOK'
    BY <1>1, <1>2, <2>1 DEF ClientsTypeOK, Label
  <2>3. Paired' /\ Locked' /\ OneTakes' /\ Alone'
    BY <1>1, <1>2, <2>1 DEF ClientsTypeOK, Paired, Exists, Trying, Locked, OneTakes,
       Takes, Taking, Alone
  <2>4. Aimed'
    BY <1>1, <1>2, <2>1 DEF Aimed, Alone
  <2>5. Connected'
    BY <1>1, <1>2, <2>1 DEF Connected
  <2>6. Minded'
    BY <1>5, <2>1 DEF Minded, Keeps
  <2> QED BY <2>2, <2>3, <2>4, <2>5, <2>6 DEF ClientsInv
<1>6. CASE entry.state # "disabled" /\ ~Exists
  <2>1. /\ pc' = [pc EXCEPT ![t] = "monitor"] /\ entry' = entry
        /\ UNCHANGED <<busy, op, cfg, old>>
    BY <1>6 DEF EnableFailed, MoveTo
  <2>2. ClientsTypeOK'
    BY <1>1, <1>2, <2>1 DEF ClientsTypeOK, Label, Trying
  <2>3. Paired' /\ Locked' /\ OneTakes' /\ Alone'
    BY <1>1, <1>2, <2>1 DEF Paired, Exists, Trying, Locked, OneTakes, Takes, Alone
  <2>4. Aimed'
    BY <1>6, <2>1 DEF Aimed, Exists
  <2>5. Connected'
    BY <1>1, <1>2, <2>1 DEF Connected
  <2>6. Minded'
    BY <1>6, <2>1 DEF Minded, Keeps, NoClient, Exists
  <2> QED BY <2>2, <2>3, <2>4, <2>5, <2>6 DEF ClientsInv
<1>7. CASE entry.state # "disabled" /\ Exists
  <2>1. /\ pc' = [pc EXCEPT ![t] = "monitor"]
        /\ entry' = [entry EXCEPT !.state = "disconnected"]
        /\ UNCHANGED <<busy, op, cfg, old>>
    BY <1>7 DEF EnableFailed, MoveTo
  <2>2. ClientsTypeOK'
    BY <1>1, <1>2, <1>7, <2>1 DEF ClientsTypeOK, Exists, Label, Trying, State
  <2>3. Paired' /\ Locked' /\ OneTakes' /\ Alone'
    BY <1>1, <1>2, <2>1 DEF Paired, Exists, NoClient, Trying, Locked, OneTakes, Takes,
       Alone
  <2>4. Aimed'
    BY <1>1, <1>2, <2>1 DEF Aimed, Alone
  <2>5. Connected'
    BY <1>1, <1>2, <2>1 DEF Connected
  <2>6. Minded'
    BY <1>2, <2>1 DEF Minded, Trying
  <2> QED BY <2>2, <2>3, <2>4, <2>5, <2>6 DEF ClientsInv
<1> QED BY <1>5, <1>6, <1>7

\* A client that could not be connected at boot is put back.
LEMMA RetainKeeps ==
  ASSUME ClientsInv, NEW t \in Thread, Retain(t)
  PROVE  ClientsInv'
<1>1. /\ ClientsTypeOK /\ Paired /\ Locked /\ OneTakes
      /\ Alone /\ Aimed /\ Connected /\ Minded
  BY DEF ClientsInv
<1>2. /\ pc[t] = "retain" /\ mu = 0 /\ pc' = [pc EXCEPT ![t] = "monitor"]
      /\ overlap' = (overlap \/ Exists)
      /\ UNCHANGED <<disabled, busy, open, mu, monitor, running, op, cfg, old, conn, stray>>
  BY DEF Retain, MoveTo, health
<1>5. CASE Exists
  <2>1. /\ entry' = [entry EXCEPT !.state = "disconnected"]
    BY <1>5 DEF Retain
  <2>2. ClientsTypeOK'
    BY <1>1, <1>2, <1>5, <2>1 DEF ClientsTypeOK, Exists, Label, Trying, State
  <2>3. Paired' /\ Locked' /\ OneTakes' /\ Alone'
    BY <1>1, <1>2, NobodyIsZero DEF ClientsTypeOK, Paired, Trying, Locked, OneTakes,
       Takes, Alone
  <2>4. Aimed'
    BY <1>2, <1>5 DEF Aimed
  <2>5. Connected'
    BY <1>1, <1>2, <2>1 DEF ClientsTypeOK, Connected
  <2>6. Minded'
    BY <1>2, <1>5 DEF Minded
  <2> QED BY <2>2, <2>3, <2>4, <2>5, <2>6 DEF ClientsInv
<1>6. CASE ~Exists
  <2>1. /\ entry' = [state |-> "disconnected", conn |-> 0, cfg |-> cfg[t]]
    BY <1>6 DEF Retain
  <2>2. ClientsTypeOK'
    BY <1>1, <1>2, <2>1 DEF ClientsTypeOK, Paired, Label, Trying, State
  <2>3. Paired' /\ Locked' /\ OneTakes' /\ Alone'
    BY <1>1, <1>2, NobodyIsZero DEF ClientsTypeOK, Paired, Trying, Locked, OneTakes,
       Takes, Alone
  <2>4. Aimed'
    BY <1>1, <1>2 DEF ClientsTypeOK, Aimed, Alone, Paired
  <2>5. Connected'
    BY <1>1, <1>2, <1>6, <2>1 DEF ClientsTypeOK, Connected, Exists, NoClient
  <2>6. Minded'
    BY <1>1, <1>2 DEF Minded, Paired, Trying
  <2> QED BY <2>2, <2>3, <2>4, <2>5, <2>6 DEF ClientsInv
<1> QED BY <1>5, <1>6

\* A monitor takes the place of another, and will run.
LEMMA StartMonitoringKeeps ==
  ASSUME ClientsInv, NEW t \in Thread, StartMonitoring(t)
  PROVE  ClientsInv'
<1>1. /\ ClientsTypeOK /\ Paired /\ Locked /\ OneTakes
      /\ Alone /\ Aimed /\ Connected /\ Minded
  BY DEF ClientsInv
<1>2. /\ pc[t] = "monitor" /\ pc' = [pc EXCEPT ![t] = "start"]
      /\ UNCHANGED <<entry, disabled, busy, open, mu, op, cfg, old, conn, overlap, stray>>
  BY DEF StartMonitoring, MoveTo, history
<1>4. ClientsTypeOK'
  BY <1>1, <1>2 DEF ClientsTypeOK, Label, Trying
<1>5. Paired' /\ Locked' /\ OneTakes' /\ Alone'
  BY <1>1, <1>2 DEF Paired, Exists, Trying, Locked, OneTakes, Takes, Alone
<1>6. Aimed'
  BY <1>1, <1>2 DEF Aimed, Alone, Paired, Trying
<1>7. Connected'
  BY <1>1, <1>2 DEF Connected
<1>8. Minded'
  BY <1>1, <1>2 DEF ClientsTypeOK, Minded
<1> QED BY <1>4, <1>5, <1>6, <1>7, <1>8 DEF ClientsInv

\* If there is a client, its monitor runs.
LEMMA StartKeeps ==
  ASSUME ClientsInv, NEW t \in Thread, StartMonitor(t)
  PROVE  ClientsInv'
<1>1. /\ ClientsTypeOK /\ Paired /\ Locked /\ OneTakes
      /\ Alone /\ Aimed /\ Connected /\ Minded
  BY DEF ClientsInv
<1>2. /\ pc[t] = "start"
      /\ running' = IF Exists THEN running \cup {monitor} ELSE running
      /\ busy' = (busy /\ op[t] \in {"add", "boot"}) /\ pc' = [pc EXCEPT ![t] = "idle"]
      /\ op' = [op EXCEPT ![t] = "none"] /\ cfg' = [cfg EXCEPT ![t] = 0]
      /\ old' = [old EXCEPT ![t] = 0]
      /\ UNCHANGED <<entry, disabled, open, mu, monitor, conn, overlap, stray>>
  BY DEF StartMonitor, Return, MoveTo, history
<1>4. ClientsTypeOK'
  BY <1>1, <1>2 DEF ClientsTypeOK, Label
<1>5. Paired' /\ Locked' /\ OneTakes' /\ Alone'
  BY <1>1, <1>2 DEF ClientsTypeOK, Paired, Exists, Trying, Locked, OneTakes, Takes,
     Taking, Alone
<1>6. Aimed'
  BY <1>1, <1>2 DEF Aimed, Alone, Paired, Trying
<1>7. Connected'
  BY <1>1, <1>2 DEF Connected
<1>8. Minded'
  BY <1>2 DEF Minded, Keeps, NoClient, Exists
<1> QED BY <1>4, <1>5, <1>6, <1>7, <1>8 DEF ClientsInv

\* A monitor stops when it finds its client gone or disabled.
LEMMA CheckKeeps ==
  ASSUME ClientsInv, NEW t \in Monitor, Check(t)
  PROVE  ClientsInv'
<1>1. /\ ClientsTypeOK /\ Paired /\ Locked /\ OneTakes
      /\ Alone /\ Aimed /\ Connected /\ Minded
  BY DEF ClientsInv
<1>2. /\ Keeps \/ running' = running
      /\ UNCHANGED <<entry, disabled, busy, open, mu, monitor, op>>
      /\ UNCHANGED <<pc, cfg, old, conn, overlap, stray>>
  BY DEF Check, shared, threads, history
<1>3. t \in Thread
  BY DEF Thread
<1>4. ClientsTypeOK'
  BY <1>1, <1>2 DEF ClientsTypeOK
<1>5. Paired' /\ Locked' /\ OneTakes' /\ Alone'
  BY <1>1, <1>2 DEF Paired, Exists, Locked, OneTakes, Takes, Alone
<1>6. Aimed'
  BY <1>1, <1>2 DEF Aimed, Exists
<1>7. Connected'
  BY <1>1, <1>2 DEF Connected
<1>8. Minded'
  BY <1>1, <1>2 DEF Minded, Keeps
<1> QED BY <1>4, <1>5, <1>6, <1>7, <1>8 DEF ClientsInv

\* A report changes the state of a client that is there and not disabled.
LEMMA ReportKeeps ==
  ASSUME ClientsInv, NEW t \in Monitor, Report(t)
  PROVE  ClientsInv'
<1>1. /\ ClientsTypeOK /\ Paired /\ Locked /\ OneTakes
      /\ Alone /\ Aimed /\ Connected /\ Minded
  BY DEF ClientsInv
<1>2. /\ mu = 0 /\ pc' \in {pc, [pc EXCEPT ![t] = "attempt"]}
      /\ pc' = pc \/ pc[t] = "idle"
      /\ UNCHANGED <<disabled, busy, open, mu, monitor, running>>
      /\ UNCHANGED <<op, cfg, old, conn, overlap, stray>>
  BY DEF Report, MoveTo, history
<1>3. t \in Thread
  BY DEF Thread
<1>5. CASE Keeps
  <2>1. /\ entry' = entry
    BY <1>5 DEF Report
  <2>2. ClientsTypeOK'
    BY <1>1, <1>2, <2>1 DEF ClientsTypeOK, Label
  <2>3. Paired' /\ Locked' /\ OneTakes' /\ Alone'
    BY <1>1, <1>2, NobodyIsZero DEF ClientsTypeOK, Paired, Trying, Locked, OneTakes,
       Takes, Alone
  <2>4. Aimed'
    BY <1>1, <1>2, <2>1 DEF ClientsTypeOK, Aimed, Exists
  <2>5. Connected'
    BY <1>1, <1>2, <2>1 DEF ClientsTypeOK, Connected
  <2>6. Minded'
    BY <1>5, <2>1 DEF Minded, Keeps
  <2> QED BY <2>2, <2>3, <2>4, <2>5, <2>6 DEF ClientsInv
<1>6. CASE ~Keeps
  <2>1. /\ \E s \in {"connected", "disconnected"} : entry' = [entry EXCEPT !.state = s]
    BY <1>6 DEF Report
  <2>2. ClientsTypeOK'
    BY <1>1, <1>2, <1>6, <2>1 DEF ClientsTypeOK, Keeps, NoClient, Label, State
  <2>3. Paired' /\ Locked' /\ OneTakes' /\ Alone'
    BY <1>1, <1>2, NobodyIsZero DEF ClientsTypeOK, Paired, Trying, Locked, OneTakes,
       Takes, Alone
  <2>4. Aimed'
    BY <1>1, <1>2, <1>6, <2>1 DEF ClientsTypeOK, Aimed, Keeps, Exists, NoClient
  <2>5. Connected'
    BY <1>1, <1>2, <2>1 DEF ClientsTypeOK, Connected
  <2>6. Minded'
    BY <1>1, <1>2, <1>6 DEF ClientsTypeOK, Minded, Trying
  <2> QED BY <2>2, <2>3, <2>4, <2>5, <2>6 DEF ClientsInv
<1> QED BY <1>5, <1>6

\* A reconnection does not begin when the client is disabled.
LEMMA AttemptReconnectKeeps ==
  ASSUME ClientsInv, NEW t \in Monitor, AttemptReconnect(t)
  PROVE  ClientsInv'
<1>1. /\ ClientsTypeOK /\ Paired /\ Locked /\ OneTakes
      /\ Alone /\ Aimed /\ Connected /\ Minded
  BY DEF ClientsInv
<1>2. /\ pc[t] = "attempt"
      /\ pc' \in {[pc EXCEPT ![t] = "idle"], [pc EXCEPT ![t] = "again"]}
      /\ UNCHANGED <<entry, disabled, busy, open, mu, monitor, running>>
      /\ UNCHANGED <<op, cfg, old, conn, overlap, stray>>
  BY DEF AttemptReconnect, MoveTo, shared, health, history
<1>3. t \in Thread
  BY DEF Thread
<1>4. ClientsTypeOK'
  BY <1>1, <1>2 DEF ClientsTypeOK, Label
<1>5. Paired' /\ Locked' /\ OneTakes' /\ Alone'
  BY <1>1, <1>2 DEF ClientsTypeOK, Paired, Exists, Trying, Locked, OneTakes, Takes,
     Alone
<1>6. Aimed'
  BY <1>1, <1>2 DEF ClientsTypeOK, Aimed, Exists
<1>7. Connected'
  BY <1>1, <1>2 DEF ClientsTypeOK, Connected
<1>8. Minded'
  BY <1>1, <1>2 DEF ClientsTypeOK, Minded, Keeps, Trying
<1> QED BY <1>4, <1>5, <1>6, <1>7, <1>8 DEF ClientsInv

\* A client that is there and not disabled is disconnected.
LEMMA ConnectionLostKeeps ==
  ASSUME ClientsInv, ConnectionLost
  PROVE  ClientsInv'
<1>1. /\ ClientsTypeOK /\ Paired /\ Locked /\ OneTakes
      /\ Alone /\ Aimed /\ Connected /\ Minded
  BY DEF ClientsInv
<1>2. /\ mu = 0 /\ ~Keeps /\ entry' = [entry EXCEPT !.state = "disconnected"]
      /\ UNCHANGED <<disabled, busy, open, mu, monitor, running, op>>
      /\ UNCHANGED <<pc, cfg, old, conn, overlap, stray>>
  BY DEF ConnectionLost, health, threads, history
<1>4. ClientsTypeOK'
  BY <1>1, <1>2 DEF ClientsTypeOK, Keeps, NoClient, State
<1>5. Paired' /\ Locked' /\ OneTakes' /\ Alone'
  BY <1>1, <1>2 DEF Paired, Exists, NoClient, Locked, OneTakes, Takes, Alone
<1>6. Aimed'
  BY <1>1, <1>2 DEF Aimed, Keeps, Exists, NoClient
<1>7. Connected'
  BY <1>1, <1>2 DEF Connected
<1>8. Minded'
  BY <1>1, <1>2 DEF Minded
<1> QED BY <1>4, <1>5, <1>6, <1>7, <1>8 DEF ClientsInv

\* Nothing that the invariant speaks of changes.
LEMMA RestKeeps ==
  ASSUME ClientsInv, UNCHANGED <<shared, monitor, running, threads, history>> \/ UNCHANGED mcpVars
  PROVE  ClientsInv'
<1>1. /\ ClientsTypeOK /\ Paired /\ Locked /\ OneTakes
      /\ Alone /\ Aimed /\ Connected /\ Minded
  BY DEF ClientsInv
<1>2. /\ UNCHANGED <<entry, disabled, busy, open, mu, monitor, running>>
      /\ UNCHANGED <<op, pc, cfg, old, conn, overlap, stray>>
  BY DEF shared, threads, history, mcpVars
<1>4. ClientsTypeOK' /\ Paired' /\ Locked' /\ OneTakes' /\ Alone' /\ Aimed' /\ Connected' /\ Minded'
  BY <1>1, <1>2 DEF ClientsTypeOK, Locked, Keeps, Exists, Paired, OneTakes, Takes,
     Alone, Aimed, Connected, Minded
<1> QED BY <1>4 DEF ClientsInv

\* At the start there is no client, and one caller boots.
LEMMA ClientsStart == MCPInit => ClientsInv
<1> SUFFICES ASSUME MCPInit PROVE ClientsInv
  OBVIOUS
<1>1. /\ entry = NoClient /\ disabled = [c \in Config |-> FALSE] /\ busy = FALSE /\ open = {}
      /\ mu = 0 /\ op = [t \in Thread |-> "none"] /\ cfg = [t \in Thread |-> 0]
      /\ old = [t \in Thread |-> 0] /\ conn = [t \in Thread |-> 0]
      /\ overlap = FALSE /\ stray = FALSE
  BY DEF MCPInit
<1>2. PICK b \in Caller : pc = [t \in Thread |-> IF t = b THEN "boot" ELSE "idle"]
  BY DEF MCPInit
<1>3. ClientsTypeOK
  BY <1>1, <1>2 DEF ClientsTypeOK, NoClient, Label, State
<1>4. Paired /\ Locked /\ OneTakes /\ Alone
  BY <1>1, <1>2 DEF Paired, Trying, Locked, OneTakes, Takes, Taking, Alone
<1>5. Aimed /\ Connected /\ Minded
  BY <1>1 DEF Aimed, Connected, Minded, Keeps, NoClient
<1> QED BY <1>3, <1>4, <1>5 DEF ClientsInv

\* Boot adds the client, or finds one.
LEMMA BootKeeps == ASSUME ClientsInv, NEW t \in Thread, Boot(t) PROVE ClientsInv'
<1>1. CASE Exists
  BY <1>1, RetainingKeeps DEF Boot
<1>2. CASE ~Exists
  BY <1>2, AddKeeps DEF Boot
<1> QED BY <1>1, <1>2

\* An attempt that failed ends as its operation does.
LEMMA FailedKeeps == ASSUME ClientsInv, NEW t \in Thread, Failed(t) PROVE ClientsInv'
<1>1. /\ pc[t] = "failed" /\ mu = 0
      /\ UNCHANGED <<disabled, open, mu, hmm, health, conn, history>>
  BY DEF Failed
<1>2. \/ op[t] \in {"add", "boot"} /\ AddFailed(t)
      \/ ReconnectFailed(t) \/ UpdateFailed(t) \/ EnableFailed(t)
  BY DEF Failed
<1>3. CASE op[t] \in {"add", "boot"} /\ AddFailed(t)
  BY <1>1, <1>3, AddFailedKeeps
<1>4. CASE ReconnectFailed(t)
  BY <1>1, <1>4, ReconnectFailedKeeps
<1>5. CASE UpdateFailed(t)
  BY <1>1, <1>5, UpdateFailedKeeps
<1>6. CASE EnableFailed(t)
  BY <1>1, <1>6, EnableFailedKeeps
<1> QED BY <1>2, <1>3, <1>4, <1>5, <1>6

\* What callers and operations under way do.
LEMMA ThreadKeeps ==
  ASSUME ClientsInv, NEW t \in Thread, CallManager(t) \/ Proceed(t)
  PROVE  ClientsInv'
<1>1. CASE CallManager(t)
  <2>1. CASE AddClient(t)
    BY <2>1, AddKeeps DEF AddClient
  <2> QED BY <1>1, <2>1, UpdateConnectionKeeps, UpdateKeeps, EnableKeeps, RemoveKeeps,
             DisableKeeps, ReconnectKeeps DEF CallManager
<1>2. CASE Proceed(t)
  <2>1. CASE t \in Monitor /\ AttemptReconnect(t)
    BY <2>1, AttemptReconnectKeeps
  <2> QED BY <1>2, <2>1, BootKeeps, EnablingKeeps, RemovingKeeps, DisablingKeeps,
             FirstKeeps, DialKeeps, SecondKeeps, FailedKeeps, RetainKeeps,
             StartMonitoringKeeps, StartKeeps, ReconnectKeeps DEF Proceed
<1> QED BY <1>1, <1>2

\* What monitors do.
LEMMA MonitorKeeps ==
  ASSUME ClientsInv, NEW m \in Monitor, Tick(m) \/ CheckEnds(m)
  PROVE  ClientsInv'
<1>1. CASE Tick(m)
  BY <1>1, RestKeeps DEF Tick
<1>2. CASE Probe(m)
  BY <1>2, RestKeeps DEF Probe
<1> QED BY <1>1, <1>2, CheckKeeps, ReportKeeps DEF CheckEnds

\* Every step keeps the invariant.
LEMMA ClientsStep == ClientsInv /\ [MCPNext]_mcpVars => ClientsInv'
<1> SUFFICES ASSUME ClientsInv, [MCPNext]_mcpVars PROVE ClientsInv'
  OBVIOUS
<1>1. CASE UNCHANGED mcpVars
  BY <1>1, RestKeeps
<1>2. CASE MCPNext
  BY <1>2, ThreadKeeps, MonitorKeeps, ConnectionLostKeeps DEF MCPNext
<1> QED BY <1>1, <1>2

\* The invariant of the clients: in every state of every run, what its comments say.
THEOREM ClientsInvariant == MCPSpec => []ClientsInv
BY ClientsStart, ClientsStep, PTL DEF MCPSpec

\* connectToMCPClient and its callers: no connection is left open that neither the client nor an
\* attempt under way has, and the client's is open.
THEOREM NoConnectionLeaks == MCPSpec => []ConnectionsOwned
<1>1. ClientsInv => ConnectionsOwned
  BY DEF ClientsInv, Connected, ConnectionsOwned
<1> QED BY <1>1, ClientsInvariant, PTL

\* StartMonitoring and its callers: a client that is not disabled is watched when nothing is
\* under way.
THEOREM ClientWatched == MCPSpec => []Watched
<1>1. ClientsInv => Watched
  <2> SUFFICES ASSUME ClientsInv, ~stray, ~overlap, ~Keeps, \A t \in Thread : pc[t] = "idle"
               PROVE  monitor \in running
    BY DEF Watched
  <2> QED BY DEF ClientsInv, Minded, Trying
<1> QED BY <1>1, ClientsInvariant, PTL

\* No step of a thread brings a disabled client back or, but for a removal, deletes it.
LEMMA ThreadSpares ==
  ASSUME ClientsInv, NEW t \in Thread, CallManager(t) \/ Proceed(t), ~overlap',
         entry.state = "disabled", disabled[entry.cfg],
         \A u \in Thread : pc[u] # "enabling" /\ op[u] \notin {"add", "boot", "enable"}
  PROVE  entry'.state = "disabled" \/ (pc[t] = "removing" /\ pc'[t] = "idle")
<1>1. ClientsTypeOK /\ Paired /\ Aimed /\ Exists /\ Keeps
  BY DEF ClientsInv, Exists, NoClient, Keeps
<1>2. CASE entry' = entry
  BY <1>2
<1>3. CASE AddClient(t) \/ Boot(t)
  <2>1. entry' = entry
    BY <1>1, <1>3 DEF AddClient, Boot, Add
  <2> QED BY <2>1
<1>4. CASE UpdateClient(t)
  <2>1. entry' = [entry EXCEPT !.cfg = Min(FreeConfigs)]
    BY <1>4 DEF UpdateClient
  <2> QED BY <2>1
<1>5. CASE Removing(t)
  BY <1>1, <1>5 DEF Removing, MoveTo, ClientsTypeOK
<1>6. CASE Disabling(t)
  <2>1. entry' = [entry EXCEPT !.state = "disabled", !.conn = 0]
    BY <1>6 DEF Disabling
  <2> QED BY <2>1
<1>7. CASE First(t)
  <2>1. ~overlap /\ pc[t] = "first" /\ op[t] # "none" /\ op[t] # "enable"
    BY <1>1, <1>7 DEF First, Paired, Trying
  <2>2. op[t] \in {"add", "boot", "reconnect", "update"}
    BY <2>1, <1>1 DEF ClientsTypeOK, Taking
  <2>3. disabled[cfg[t]]
    BY <2>1, <2>2, <1>1 DEF Aimed
  <2> QED BY <2>3, <1>7 DEF First
<1>8. CASE Second(t)
  BY <1>1, <1>8 DEF Second
<1>9. CASE Failed(t)
  <2>1. \/ entry' = entry
        \/ entry' = [entry EXCEPT !.cfg = old[t]]
    BY <1>9 DEF Failed, ReconnectFailed, UpdateFailed, EnableFailed
  <2> QED BY <2>1, <1>1 DEF ClientsTypeOK
<1>10. ~Retain(t)
  BY <1>1 DEF Retain, Paired
<1>11. CASE CallManager(t)
  <2>1. UpdateClientConnection(t) => entry' = entry
    BY DEF UpdateClientConnection
  <2>2. EnableClient(t) => entry' = entry
    BY DEF EnableClient
  <2>3. RemoveClient(t) => entry' = entry
    BY DEF RemoveClient
  <2>4. DisableClient(t) => entry' = entry
    BY DEF DisableClient
  <2>5. ReconnectClient(t) => entry' = entry
    BY DEF ReconnectClient
  <2> QED BY <2>1, <2>2, <2>3, <2>4, <2>5, <1>3, <1>4, <1>11 DEF CallManager
<1>12. CASE Proceed(t)
  <2>1. Enabling(t) => entry' = entry
    BY DEF Enabling
  <2>2. Dial(t) => entry' = entry
    BY DEF Dial
  <2>3. StartMonitoring(t) => entry' = entry
    BY DEF StartMonitoring
  <2>4. StartMonitor(t) => entry' = entry
    BY DEF StartMonitor
  <2>5. AttemptReconnect(t) => entry' = entry
    BY DEF AttemptReconnect, shared
  <2>6. ReconnectClient(t) => entry' = entry
    BY DEF ReconnectClient
  <2> QED BY <2>1, <2>2, <2>3, <2>4, <2>5, <2>6, <1>3, <1>5, <1>6, <1>7, <1>8, <1>9,
             <1>10, <1>12 DEF Proceed
<1> QED BY <1>11, <1>12

\* DisabledStays: no report, callback, reconnection or update that comes late changes or deletes a
\* client that DisableClient disabled, unless AddClient is under way or met another operation.
THEOREM DisabledIsKept == MCPSpec => DisabledStays
<1> DEFINE Spares ==
      ~overlap' /\ (\A t \in Thread : op[t] \notin {"add", "boot"}) => DisabledKept
<1>1. ClientsInv /\ [MCPNext]_mcpVars => Spares
  <2> SUFFICES ASSUME ClientsInv, [MCPNext]_mcpVars, ~overlap', entry.state = "disabled",
                      disabled[entry.cfg],
                      \A t \in Thread : pc[t] # "enabling" /\ op[t] \notin {"add", "boot", "enable"}
               PROVE  \/ entry'.state = "disabled"
                      \/ \E t \in Thread : pc[t] = "removing" /\ pc'[t] = "idle"
    BY DEF DisabledKept
  <2>1. CASE entry' = entry
    BY <2>1
  <2>2. ASSUME NEW m \in Monitor, Tick(m) \/ CheckEnds(m) PROVE entry' = entry
    <3>1. Keeps
      BY DEF Keeps
    <3> QED BY <3>1, <2>2 DEF Tick, CheckEnds, Check, Probe, Report, shared
  <2>3. ~ConnectionLost
    BY DEF ConnectionLost, Keeps
  <2>4. CASE UNCHANGED mcpVars
    BY <2>4 DEF mcpVars
  <2> QED BY <2>2, <2>3, <2>4, ThreadSpares DEF MCPNext
<1>2. MCPSpec => [][Spares]_mcpVars
  BY <1>1, ClientsInvariant, PTL DEF MCPSpec
<1> QED BY <1>2 DEF DisabledStays
=============================================================================
