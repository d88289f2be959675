---------------------------- MODULE LibraryProofs ----------------------------
(***************************************************************************)
(* The libraries of a request's way in, pkg/trimmer and pkg/classifier.    *)
(* The pool of buffers, for any number of callers, buffers, input lengths  *)
(* and any cap: a returned slice keeps what its own call has written, and  *)
(* the pool keeps no buffer beyond the cap.  The loop of TrimBytes, for    *)
(* payloads of any length over any bytes: it keeps exactly what it should, *)
(* and a valid body stays valid.  Classify, for any keyword lists.         *)
(***************************************************************************)
EXTENDS BufferPool, TrimBytes, Classifier, TLAPS, SequenceTheorems, FiniteSetTheorems,
        WellFoundedInduction

----------------------------------------------------------------------------
(* The pool of buffers.                                                    *)

(* What Grow makes of a capacity is a number that holds the input.         *)
LEMMA MaxOfTwo ==
  ASSUME NEW a \in Nat, NEW b \in Nat
  PROVE  Max({a, b}) \in Nat /\ Max({a, b}) >= a
<1>1. PICK m \in {a, b} : \A y \in {a, b} : m >= y
  OBVIOUS
<1> QED
  BY <1>1, Zenon DEF Max

(* One byte more of the call's own is again all its own.                   *)
LEMMA OwnAppend ==
  ASSUME NEW c, NEW n \in Nat
  PROVE  Append(Own(c, n), c) = Own(c, n + 1)
BY DEF Own

(* Before the first call nothing is pooled, held or returned.              *)
LEMMA BufferInvInit == BufferInit => BufferInv
<1> SUFFICES ASSUME BufferInit PROVE BufferInv
  OBVIOUS
<1> USE BufferAssumption DEF BufferInit
<1>1. BufferTypeOK
  BY DEF BufferTypeOK, InCall
<1>2. Exclusive /\ ResultStaysOwn /\ PoolBounded
  BY DEF Exclusive, InCall, ResultStaysOwn, PoolBounded
<1>3. \A c \in Caller :
        /\ result[c] = c
        /\ pc[c] = "reset" => wrote[c] = 0
        /\ pc[c] = "loop" => memory[buf[c]] = Own(c, wrote[c]) /\ wrote[c] <= origLen[c]
                             /\ origLen[c] <= cap[buf[c]]
  OBVIOUS
<1> QED
  BY <1>1, <1>2, <1>3 DEF BufferInv

(* Every step of a call, and the garbage collector, keeps the invariant:   *)
(* only the one user of a buffer touches its bytes and its capacity.       *)
LEMMA BufferInvStep == BufferInv /\ [BufferNext]_bufferVars => BufferInv'
<1> SUFFICES ASSUME BufferInv, [BufferNext]_bufferVars PROVE BufferInv'
  OBVIOUS
<1> DEFINE Progress(c) ==
      /\ result[c] = c
      /\ pc[c] = "reset" => wrote[c] = 0
      /\ pc[c] = "loop" => memory[buf[c]] = Own(c, wrote[c]) /\ wrote[c] <= origLen[c]
                           /\ origLen[c] <= cap[buf[c]]
<1>0. /\ BufferTypeOK /\ Exclusive /\ ResultStaysOwn /\ PoolBounded
      /\ \A c \in Caller : Progress(c)
  BY DEF BufferInv
<1>a. BufferTypeOK' /\ Exclusive' /\ ResultStaysOwn' /\ PoolBounded'
        /\ (\A c \in Caller : Progress(c)') => BufferInv'
  BY DEF BufferInv
<1>1. ASSUME NEW c \in Caller, NEW b \in Buffer, NEW n \in Length, Get(c, b, n)
      PROVE  BufferInv'
  <2> USE BufferAssumption
  <2>0. \A d \in Caller : pc[d] \in InCall => buf[d] # b
    BY <1>0, <1>1 DEF Get, Exclusive, Free
  <2>1. BufferTypeOK'
    <3>1. bufferPool' \subseteq Buffer /\ cap' \in [Buffer -> Nat]
      <4>1. cap' = cap \/ cap' = [cap EXCEPT ![b] = 0]
        BY <1>1 DEF Get
      <4>2. cap \in [Buffer -> Nat]
        BY <1>0 DEF BufferTypeOK
      <4>3. cap' \in [Buffer -> Nat]
        BY <4>1, <4>2
      <4> QED BY <1>0, <1>1, <4>3 DEF Get, BufferTypeOK
    <3>4. memory' \in [Buffer \cup Caller -> Seq(Caller)]
      <4>1. <<>> \in Seq(Caller) OBVIOUS
      <4>2. memory' = memory \/ memory' = [memory EXCEPT ![b] = <<>>]
        BY <1>1 DEF Get
      <4>3. memory \in [Buffer \cup Caller -> Seq(Caller)]
        BY <1>0 DEF BufferTypeOK
      <4> QED BY <4>1, <4>2, <4>3
    <3>2. /\ pc' \in [Caller -> InCall \cup {"idle", "done"}]
          /\ buf' \in [Caller -> Buffer] /\ result' \in [Caller -> Buffer \cup Caller]
          /\ origLen' \in [Caller -> Nat] /\ wrote' \in [Caller -> Nat]
      BY <1>0, <1>1 DEF Get, Goto, BufferTypeOK, InCall
    <3>3. \A d \in Caller : pc'[d] \in {"loop", "deferred"} => wrote'[d] <= cap'[buf'[d]]
      BY <1>0, <1>1, <2>0 DEF Get, Goto, BufferTypeOK, InCall
    <3> QED BY <3>1, <3>2, <3>3, <3>4 DEF BufferTypeOK
  <2>2. Exclusive'
    BY <1>0, <1>1, <2>0 DEF Get, Goto, BufferTypeOK, Exclusive, InCall
  <2>3. ResultStaysOwn'
    BY <1>0, <1>1 DEF Get, Goto, BufferTypeOK, ResultStaysOwn
  <2>4. PoolBounded'
    BY <1>0, <1>1 DEF Get, BufferTypeOK, PoolBounded
  <2>5. ASSUME NEW d \in Caller PROVE Progress(d)'
    <3>1. result'[d] = d /\ (pc'[d] = "reset" => wrote'[d] = 0)
      BY <1>0, <1>1 DEF Get, Goto, BufferTypeOK
    <3>2. ASSUME pc'[d] = "loop"
          PROVE  /\ pc[d] = "loop" /\ wrote'[d] = wrote[d] /\ origLen'[d] = origLen[d]
                 /\ buf'[d] = buf[d] /\ buf[d] \in Buffer \ {b}
      BY <1>0, <1>1, <2>0, <3>2 DEF Get, Goto, BufferTypeOK, InCall
    <3>3. ASSUME NEW e \in Buffer \ {b}
          PROVE  memory'[e] = memory[e] /\ cap'[e] = cap[e]
      BY <1>0, <1>1 DEF Get, BufferTypeOK
    <3> QED BY <1>0, <3>1, <3>2, <3>3
  <2> QED BY <1>a, <2>1, <2>2, <2>3, <2>4, <2>5
<1>2. ASSUME NEW c \in Caller, Reset(c) PROVE BufferInv'
  <2> USE BufferAssumption
  <2>0. /\ cap' \in [Buffer -> Nat] /\ buf[c] \in Buffer
        /\ origLen[c] <= cap'[buf[c]]
        /\ \A b \in Buffer \ {buf[c]} : cap'[b] = cap[b]
    <3> DEFINE m == Max({origLen[c], 2 * cap[buf[c]]})
    <3>1. m \in Nat /\ m >= origLen[c]
      <4>1. origLen[c] \in Nat /\ 2 * cap[buf[c]] \in Nat
        BY <1>0 DEF BufferTypeOK
      <4> QED BY <4>1, MaxOfTwo, Zenon
    <3>2. cap' = [cap EXCEPT ![buf[c]] = IF origLen[c] <= cap[buf[c]] THEN cap[buf[c]] ELSE m]
      BY <1>0, <1>2 DEF Reset, BufferTypeOK
    <3> HIDE DEF m
    <3> QED BY <1>0, <3>1, <3>2 DEF BufferTypeOK
  <2>1. BufferTypeOK'
    <3>1. memory' \in [Buffer \cup Caller -> Seq(Caller)]
      <4>1. <<>> \in Seq(Caller) OBVIOUS
      <4> QED BY <1>0, <1>2, <4>1 DEF Reset, BufferTypeOK
    <3>2. pc' \in [Caller -> InCall \cup {"idle", "done"}]
      BY <1>0, <1>2 DEF Reset, Goto, BufferTypeOK, InCall
    <3>3. ASSUME NEW d \in Caller, pc'[d] \in {"loop", "deferred"}
          PROVE  wrote[d] <= cap'[buf[d]]
      <4>1. CASE d = c
        <5>1. wrote[c] = 0 /\ cap'[buf[c]] \in Nat
          BY <1>0, <1>2, <2>0 DEF Reset, Goto
        <5> QED BY <4>1, <5>1
      <4>2. CASE d # c
        <5>1. pc[d] \in {"loop", "deferred"} /\ buf[d] \in Buffer \ {buf[c]}
          BY <1>0, <1>2, <3>3, <4>2 DEF Reset, Goto, BufferTypeOK, Exclusive, InCall
        <5> QED BY <1>0, <2>0, <5>1 DEF BufferTypeOK
      <4> QED BY <4>1, <4>2
    <3> QED BY <1>0, <1>2, <2>0, <3>1, <3>2, <3>3 DEF Reset, BufferTypeOK
  <2>2. Exclusive'
    BY <1>0, <1>2 DEF Reset, Goto, BufferTypeOK, Exclusive, InCall
  <2>3. ResultStaysOwn'
    BY <1>0, <1>2 DEF Reset, Goto, BufferTypeOK, ResultStaysOwn
  <2>4. PoolBounded'
    BY <1>0, <1>2, <2>0 DEF Reset, Goto, BufferTypeOK, PoolBounded, Exclusive, InCall
  <2>5. ASSUME NEW d \in Caller PROVE Progress(d)'
    BY <1>0, <1>2, <2>0 DEF Reset, Goto, BufferTypeOK, InCall, Exclusive, Own
  <2> QED BY <1>a, <2>1, <2>2, <2>3, <2>4, <2>5
<1>3. ASSUME NEW c \in Caller, WriteByte(c) PROVE BufferInv'
  <2> USE BufferAssumption
  <2>0. /\ pc[c] = "loop" /\ buf[c] \in Buffer /\ wrote[c] \in Nat
        /\ wrote'[c] = wrote[c] + 1
        /\ wrote[c] + 1 <= origLen[c] /\ origLen[c] <= cap[buf[c]]
        /\ \A d \in Caller \ {c} : wrote'[d] = wrote[d]
    BY <1>0, <1>3 DEF WriteByte, BufferTypeOK
  <2>1. BufferTypeOK'
    <3>1. memory' \in [Buffer \cup Caller -> Seq(Caller)]
      <4>1. Append(memory[buf[c]], c) \in Seq(Caller)
        BY <1>0, <2>0 DEF BufferTypeOK
      <4> QED BY <1>0, <1>3, <4>1 DEF WriteByte, BufferTypeOK
    <3>2. wrote' \in [Caller -> Nat]
      BY <1>0, <1>3 DEF WriteByte, BufferTypeOK
    <3>3. \A d \in Caller : pc[d] \in {"loop", "deferred"} => wrote'[d] <= cap[buf[d]]
      <4>1. origLen[c] \in Nat /\ cap[buf[c]] \in Nat
        BY <1>0, <2>0 DEF BufferTypeOK
      <4>2. wrote'[c] <= cap[buf[c]]
        BY <2>0, <4>1
      <4> QED BY <1>0, <2>0, <4>2 DEF BufferTypeOK
    <3> QED BY <1>0, <1>3, <3>1, <3>2, <3>3 DEF WriteByte, BufferTypeOK
  <2>2. Exclusive'
    BY <1>0, <1>3 DEF WriteByte, Exclusive
  <2>3. ResultStaysOwn'
    BY <1>0, <1>3 DEF WriteByte, BufferTypeOK, ResultStaysOwn
  <2>4. PoolBounded'
    BY <1>0, <1>3 DEF WriteByte, PoolBounded
  <2>5. ASSUME NEW d \in Caller PROVE Progress(d)'
    <3>1. CASE d = c
      <4>1. memory'[buf[c]] = Append(Own(c, wrote[c]), c)
        BY <1>0, <1>3, <2>0 DEF WriteByte, BufferTypeOK
      <4>2. memory'[buf[c]] = Own(c, wrote'[c])
        BY <2>0, <4>1, OwnAppend
      <4> QED BY <1>0, <1>3, <2>0, <3>1, <4>2 DEF WriteByte
    <3>2. CASE d # c
      <4>1. pc[d] = "loop" => memory'[buf[d]] = memory[buf[d]]
        BY <1>0, <1>3, <2>0, <3>2 DEF WriteByte, BufferTypeOK, Exclusive, InCall
      <4> QED BY <1>0, <1>3, <2>0, <3>2, <4>1 DEF WriteByte
    <3> QED BY <3>1, <3>2
  <2> QED BY <1>a, <2>1, <2>2, <2>3, <2>4, <2>5
<1>4. ASSUME NEW c \in Caller, Copy(c) PROVE BufferInv'
  <2> USE BufferAssumption
  <2>1. BufferTypeOK'
    BY <1>0, <1>4 DEF Copy, Goto, BufferTypeOK, InCall
  <2>2. Exclusive'
    BY <1>0, <1>4 DEF Copy, Goto, BufferTypeOK, Exclusive, InCall
  <2>3. ResultStaysOwn'
    BY <1>0, <1>4 DEF Copy, Goto, BufferTypeOK, ResultStaysOwn
  <2>4. PoolBounded'
    BY <1>0, <1>4 DEF Copy, PoolBounded
  <2>5. ASSUME NEW d \in Caller PROVE Progress(d)'
    BY <1>0, <1>4 DEF Copy, Goto, BufferTypeOK
  <2> QED BY <1>a, <2>1, <2>2, <2>3, <2>4, <2>5
<1>5. ASSUME NEW c \in Caller, Put(c) PROVE BufferInv'
  <2> USE BufferAssumption
  <2>1. BufferTypeOK'
    BY <1>0, <1>5 DEF Put, Goto, BufferTypeOK, InCall
  <2>2. Exclusive'
    BY <1>0, <1>5 DEF Put, Goto, BufferTypeOK, Exclusive, InCall
  <2>3. ResultStaysOwn'
    BY <1>0, <1>5 DEF Put, Goto, BufferTypeOK, ResultStaysOwn
  <2>4. PoolBounded'
    BY <1>0, <1>5 DEF Put, PoolBounded
  <2>5. ASSUME NEW d \in Caller PROVE Progress(d)'
    BY <1>0, <1>5 DEF Put, Goto, BufferTypeOK
  <2> QED BY <1>a, <2>1, <2>2, <2>3, <2>4, <2>5
<1>6. ASSUME NEW b \in Buffer, Collect(b) PROVE BufferInv'
  BY <1>0, <1>6 DEF Collect, BufferInv, BufferTypeOK, Exclusive, ResultStaysOwn, PoolBounded
<1>7. CASE UNCHANGED bufferVars
  BY <1>7 DEF bufferVars, BufferInv, BufferTypeOK, Exclusive, ResultStaysOwn, PoolBounded
<1> QED
  BY <1>1, <1>2, <1>3, <1>4, <1>5, <1>6, <1>7 DEF BufferNext

(* "the returned slice is a fresh copy so callers may retain it safely":   *)
(* with any number of concurrent callers, a retained result of TrimBytes is*)
(* never overwritten through the pool.                                     *)
THEOREM ResultsKept == BufferSpec => []ResultStaysOwn
<1>1. BufferInv => ResultStaysOwn
  BY DEF BufferInv
<1> QED
  BY BufferInvInit, BufferInvStep, <1>1, PTL DEF BufferSpec

(* The deferred Put of TrimBytes lets no buffer beyond maxPoolBufferSize   *)
(* into the pool, and none grows while it is there.                        *)
THEOREM PoolKeepsCap == BufferSpec => []PoolBounded
<1>1. BufferInv => PoolBounded
  BY DEF BufferInv
<1> QED
  BY BufferInvInit, BufferInvStep, <1>1, PTL DEF BufferSpec

(* The state of the pool and its callers is well typed, and no call writes *)
(* beyond the capacity that its Grow has reserved.                         *)
THEOREM BuffersTyped == BufferSpec => []BufferTypeOK
<1>1. BufferInv => BufferTypeOK
  BY DEF BufferInv
<1> QED
  BY BufferInvInit, BufferInvStep, <1>1, PTL DEF BufferSpec
----------------------------------------------------------------------------
(* The loop of TrimBytes.                                                  *)

(* A round writes byte b unless its flags hold it back.                    *)
Written(b) ==
  /\ b = NL => newlineCount <= 1
  /\ b \in Blank => ~lastWasSpace

(* The three branches of the loop in one form: byte b is looked at, the    *)
(* flags follow it, and it is written as a space if it is a blank.         *)
Looked(b) ==
  /\ Round(b)
  /\ newlineCount' = IF b = NL THEN newlineCount + 1 ELSE 0
  /\ lastWasSpace' \in BOOLEAN /\ (lastWasSpace' <=> b \in Blank)
  /\ IF Written(b) THEN Write(Out(b)) ELSE Skip

(* Every round of the loop of TrimBytes has that form, for the next byte.  *)
LEMMA OneForm ==
  ASSUME TrimTypeOK, Newline \/ Space \/ Other
  PROVE  \E b \in Byte : Looked(b)
<1> USE TrimAssumption DEF Blank, Looked, Written, Out
<1>1. CASE Newline
  <2>1. newlineCount' <= 2 <=> newlineCount <= 1
    BY <1>1 DEF Newline, TrimTypeOK
  <2>2. Looked(NL)
    BY <1>1, <2>1 DEF Newline
  <2> QED BY <2>2
<1>2. CASE Space
  <2>1. PICK b \in Blank : Round(b)
    BY <1>2 DEF Space
  <2>2. Looked(b)
    BY <1>2, <2>1 DEF Space
  <2> QED BY <2>2
<1>3. CASE Other
  <2>1. PICK b \in Byte \ (Blank \cup {NL}) : Round(b) /\ Write(b)
    BY <1>3 DEF Other
  <2>2. Looked(b)
    BY <1>3, <2>1 DEF Other
  <2> QED BY <2>2
<1> QED
  BY <1>1, <1>2, <1>3

(* What the flags say of the bytes before position j decides whether the   *)
(* byte there is kept: the flags lose nothing that Keep looks at.          *)
LEMMA KeepByFlags ==
  ASSUME NEW s, NEW j \in Nat \ {0}, Flags(s, j - 1), newlineCount \in Nat
  PROVE  Keep(s, j) <=> Written(s[j])
<1>1. s[j] = NL =>
        ((j > 2 /\ s[j - 1] = NL /\ s[j - 2] = NL) <=> ~(newlineCount <= 1))
  BY DEF Flags
<1>2. s[j] \in Blank => ((j > 1 /\ s[j - 1] \in Blank) <=> lastWasSpace)
  BY DEF Flags
<1> QED
  BY <1>1, <1>2 DEF Keep, Written

(* Where a run of backslashes that ends before position j begins.          *)
RunBegins(s, j, k) ==
  /\ \A h \in k..(j - 1) : s[h] = BS
  /\ k > 1 => s[k - 1] # BS

(* Before every position there is such a run, maybe an empty one, ...      *)
LEMMA RunExists ==
  ASSUME NEW s, NEW j \in Nat \ {0}
  PROVE  \E k \in 1..j : RunBegins(s, j, k)
<1> DEFINE R == OpToRel(<, Nat)
<1> DEFINE T == {k \in 1..j : \A h \in k..(j - 1) : s[h] = BS}
<1>1. IsWellFoundedOn(R, Nat)
  BY NatLessThanWellFounded, Zenon DEF OpToRel
<1>2. j \in T /\ T \subseteq Nat
  OBVIOUS
<1>3. PICK k \in T : \A y \in T : ~(<<y, k>> \in R)
  <2> HIDE DEF R, T
  <2> QED BY <1>1, <1>2, WFMin
<1>4. \A y \in T : ~(y < k)
  BY <1>2, <1>3 DEF OpToRel
<1>5. k \in 1..j /\ \A h \in k..(j - 1) : s[h] = BS
  BY <1>3
<1>6. ASSUME k > 1, s[k - 1] = BS PROVE FALSE
  <2>1. k - 1 \in 1..j
    BY <1>5, <1>6
  <2>2. \A h \in (k - 1)..(j - 1) : h = k - 1 \/ h \in k..(j - 1)
    BY <1>5
  <2>3. k - 1 \in T
    BY <1>5, <1>6, <2>1, <2>2
  <2> QED BY <1>4, <1>5, <2>3
<1> QED
  BY <1>5, <1>6 DEF RunBegins

(* ... and only one.                                                       *)
LEMMA RunUnique ==
  ASSUME NEW s, NEW j \in Nat \ {0}, NEW k \in 1..j, NEW m \in 1..j,
         RunBegins(s, j, k), RunBegins(s, j, m)
  PROVE  k = m
<1>1. ASSUME k < m PROVE FALSE
  BY <1>1 DEF RunBegins
<1>2. ASSUME m < k PROVE FALSE
  BY <1>2 DEF RunBegins
<1> QED
  BY <1>1, <1>2

(* What the parser does byte by byte: the byte after a backslash is        *)
(* escaped unless that backslash is escaped itself.                        *)
LEMMA EscapedNext ==
  ASSUME NEW s, NEW j \in Nat \ {0}
  PROVE  Escaped(s, j + 1) <=> s[j] = BS /\ ~Escaped(s, j)
<1>1. PICK k \in 1..j : RunBegins(s, j, k)
  BY RunExists
<1>2. Escaped(s, j) <=> (j - k) % 2 = 1
  BY <1>1, RunUnique DEF Escaped, RunBegins
<1>3. CASE s[j] = BS
  <2>1. RunBegins(s, j + 1, k)
    BY <1>1, <1>3 DEF RunBegins
  <2>2. k \in 1..(j + 1) /\ j + 1 \in Nat \ {0}
    OBVIOUS
  <2>3. Escaped(s, j + 1) <=> ((j + 1) - k) % 2 = 1
    BY <2>1, <2>2, RunUnique DEF Escaped, RunBegins
  <2>4. ((j + 1) - k) % 2 = 1 <=> ~((j - k) % 2 = 1)
    OBVIOUS
  <2> QED BY <1>2, <1>3, <2>3, <2>4
<1>4. CASE s[j] # BS
  <2>1. ASSUME NEW m \in 1..(j + 1), \A h \in m..((j + 1) - 1) : s[h] = BS PROVE m = j + 1
    BY <1>4, <2>1
  <2>2. ((j + 1) - (j + 1)) % 2 = 0
    OBVIOUS
  <2> QED BY <1>4, <2>1, <2>2 DEF Escaped
<1> QED
  BY <1>3, <1>4

(* A byte more at the end changes nothing for the positions before it.     *)
LEMMA EndLeavesRest ==
  ASSUME NEW s \in Seq(Byte), NEW b \in Byte
  PROVE  /\ \A n \in 1..Len(s) : Append(s, b)[n] = s[n]
         /\ \A n \in 1..Len(s) : Keep(Append(s, b), n) <=> Keep(s, n)
         /\ \A n \in 1..(Len(s) + 1) : Escaped(Append(s, b), n) <=> Escaped(s, n)
         /\ \A n \in 1..(Len(s) + 1) : Quotes(Append(s, b), n) = Quotes(s, n)
<1> DEFINE t == Append(s, b)
<1>1. \A n \in 1..Len(s) : t[n] = s[n]
  OBVIOUS
<1> HIDE DEF t
<1>2. ASSUME NEW n \in 1..Len(s) PROVE Keep(t, n) <=> Keep(s, n)
  <2>1. t[n] = s[n] /\ (n > 1 => t[n - 1] = s[n - 1]) /\ (n > 2 => t[n - 2] = s[n - 2])
    <3>1. n \in Nat /\ Len(s) \in Nat
      OBVIOUS
    <3> QED BY <1>1
  <2> QED BY <2>1 DEF Keep
<1>3. ASSUME NEW n \in 1..(Len(s) + 1) PROVE Escaped(t, n) <=> Escaped(s, n)
  <2>1. \A h \in 1..(n - 1) : t[h] = s[h]
    BY <1>1
  <2> HIDE <1>1
  <2>2. \A k \in 1..n : \A h \in k..(n - 1) : t[h] = s[h]
    BY <2>1
  <2>3. \A k \in 1..n : k > 1 => t[k - 1] = s[k - 1]
    BY <2>1
  <2> QED BY <2>2, <2>3 DEF Escaped
<1>4. ASSUME NEW n \in 1..(Len(s) + 1) PROVE Quotes(t, n) = Quotes(s, n)
  <2>1. \A h \in 1..(n - 1) : h \in 1..Len(s) /\ h \in 1..(Len(s) + 1)
    OBVIOUS
  <2>2. \A h \in 1..(n - 1) : t[h] = s[h] /\ (Escaped(t, h) <=> Escaped(s, h))
    BY <1>1, <1>3, <2>1
  <2> QED BY <2>2 DEF Quotes
<1> QED
  BY <1>1, <1>2, <1>3, <1>4 DEF t

(* The quotes before a position are finitely many, and one more stands     *)
(* before the next position exactly if an unescaped quote is here.         *)
LEMMA QuotesCounted ==
  ASSUME NEW s, NEW j \in Nat \ {0}
  PROVE  /\ Cardinality(Quotes(s, j)) \in Nat
         /\ Cardinality(Quotes(s, j + 1))
              = Cardinality(Quotes(s, j)) + (IF s[j] = QUOTE /\ ~Escaped(s, j) THEN 1 ELSE 0)
<1>1. IsFiniteSet(1..(j - 1))
  BY FS_Interval
<1>2. Quotes(s, j) \subseteq 1..(j - 1)
  BY DEF Quotes
<1>3. IsFiniteSet(Quotes(s, j)) /\ Cardinality(Quotes(s, j)) \in Nat
  BY <1>1, <1>2, FS_Subset, FS_CardinalityType
<1>4. j \notin Quotes(s, j)
  BY DEF Quotes
<1>5. CASE s[j] = QUOTE /\ ~Escaped(s, j)
  <2>1. Quotes(s, j + 1) = Quotes(s, j) \cup {j}
    BY <1>5 DEF Quotes
  <2> QED BY <1>3, <1>4, <1>5, <2>1, FS_AddElement
<1>6. CASE ~(s[j] = QUOTE /\ ~Escaped(s, j))
  <2>1. Quotes(s, j + 1) = Quotes(s, j)
    BY <1>6 DEF Quotes
  <2> QED BY <1>3, <1>6, <2>1
<1> QED
  BY <1>5, <1>6

(* Before the first round nothing is read and nothing is written.          *)
LEMMA TrimInvInit == TrimInit => TrimInv
<1> SUFFICES ASSUME TrimInit PROVE TrimInv
  OBVIOUS
<1>1. TrimTypeOK
  <2>1. input \in Seq(Byte) /\ i = 0 /\ i \in 0..Len(input)
    BY TrimAssumption DEF TrimInit
  <2>2. out = <<>> /\ out \in Seq(Byte) /\ kept = <<>> /\ kept \in Seq(1..i)
    BY DEF TrimInit
  <2>3. Len(out) = Len(kept) /\ Len(kept) <= i
    BY <2>1, <2>2
  <2> QED BY <2>1, <2>2, <2>3 DEF TrimInit, TrimTypeOK
<1>2. Len(out) = 0 /\ Len(kept) = 0 /\ i = 0
  BY DEF TrimInit
<1>3. Flags(input, i) /\ Flags(out, Len(out))
  BY DEF TrimInit, Flags
<1>4. Range(kept) = {j \in 1..i : Keep(input, j)}
  BY DEF TrimInit, Range
<1>5. Quotes(out, Len(out) + 1) = {} /\ Quotes(input, i + 1) = {}
  BY <1>2 DEF Quotes
<1>6. 1..Len(kept) = {}
  BY <1>2
<1>7. ~Escaped(out, Len(out) + 1) /\ ~Escaped(input, i + 1)
  <2>1. ~Escaped(out, 1) /\ ~Escaped(input, 1)
    BY DEF Escaped
  <2> QED BY <1>2, <2>1
<1> QED
  BY <1>1, <1>3, <1>4, <1>5, <1>6, <1>7 DEF TrimInv, TrimInit

(* A round that writes its byte: the flags were right to let it through,   *)
(* of the input and of the output alike.                                   *)
LEMMA WrittenKeepsInv ==
  ASSUME TrimInv, NEW b \in Byte, Looked(b), Written(b)
  PROVE  TrimInv'
<1>0. /\ TrimTypeOK
      /\ Flags(input, i) /\ Flags(out, Len(out))
      /\ \A m, n \in 1..Len(kept) : m < n => kept[m] < kept[n]
      /\ Range(kept) = {j \in 1..i : Keep(input, j)}
      /\ \A n \in 1..Len(kept) :
           /\ out[n] = Out(input[kept[n]]) /\ Keep(out, n)
           /\ Escaped(out, n) <=> Escaped(input, kept[n])
           /\ Cardinality(Quotes(out, n)) = Cardinality(Quotes(input, kept[n]))
      /\ Escaped(out, Len(out) + 1) <=> Escaped(input, i + 1)
      /\ Cardinality(Quotes(out, Len(out) + 1)) = Cardinality(Quotes(input, i + 1))
  BY DEF TrimInv
<1>1. /\ at = "loop" /\ at' = "loop" /\ input' = input /\ i' = i + 1
      /\ i + 1 \in 1..Len(input) /\ input[i + 1] = b
      /\ out' = Append(out, Out(b)) /\ kept' = Append(kept, i + 1)
      /\ newlineCount' = IF b = NL THEN newlineCount + 1 ELSE 0
      /\ lastWasSpace' \in BOOLEAN /\ (lastWasSpace' <=> b \in Blank)
  BY <1>0 DEF Looked, Round, Write, TrimTypeOK
<1>2. /\ i \in Nat /\ Len(kept) \in Nat /\ Len(out) = Len(kept) /\ Len(kept) <= i
      /\ input \in Seq(Byte) /\ out \in Seq(Byte) /\ kept \in Seq(1..i)
      /\ Len(input) \in Nat /\ newlineCount \in Nat /\ lastWasSpace \in BOOLEAN
  BY <1>0 DEF TrimTypeOK
<1>3. /\ Out(b) \in Byte /\ Out(b) # TAB
      /\ (Out(b) = NL <=> b = NL) /\ (Out(b) \in Blank <=> b \in Blank)
      /\ (Out(b) = QUOTE <=> b = QUOTE) /\ (Out(b) = BS <=> b = BS)
  BY TrimAssumption DEF Out, Blank
<1>4. Keep(input, i + 1)
  BY <1>0, <1>1, <1>2, KeepByFlags
<1>5. /\ Len(out') = Len(out) + 1 /\ out'[Len(out) + 1] = Out(b)
      /\ \A n \in 1..Len(out) : out'[n] = out[n]
  BY <1>1
<1>6. /\ Len(kept') = Len(kept) + 1 /\ kept'[Len(kept) + 1] = i + 1
      /\ \A n \in 1..Len(kept) : kept'[n] = kept[n] /\ kept[n] \in 1..i
  BY <1>1, <1>2
<1>7. TrimTypeOK'
  <2>1. kept' \in Seq(1..(i + 1))
    BY <1>1, <1>2
  <2>2. out' \in Seq(Byte)
    BY <1>1, <1>2, <1>3
  <2>3. newlineCount' \in Nat /\ lastWasSpace' \in BOOLEAN
    BY <1>1, <1>2
  <2> QED BY <1>1, <1>2, <2>2 DEF TrimTypeOK
<1>8. Flags(input, i)'
  <2>1. NL \notin Blank
    BY TrimAssumption
  <2> QED BY <1>0, <1>1, <1>2 DEF Flags
<1>9. Flags(out, Len(out))'
  <2>1. NL \notin Blank
    BY TrimAssumption
  <2>2. Len(out) > 0 => out'[Len(out)] = out[Len(out)]
    BY <1>5
  <2> QED BY <1>0, <1>1, <1>2, <1>3, <2>2 DEF Flags
<1>10. \A m, n \in 1..Len(kept') : m < n => kept'[m] < kept'[n]
  <2> TAKE m, n \in 1..Len(kept')
  <2> HAVE m < n
  <2>1. m \in 1..Len(kept)
    BY <1>6
  <2>2. CASE n \in 1..Len(kept)
    BY <1>0, <1>6, <2>2
  <2>3. CASE n = Len(kept) + 1
    BY <1>2, <1>6, <2>3
  <2>4. n \in 1..Len(kept) \/ n = Len(kept) + 1
    <3>1. n \in 1..(Len(kept) + 1)
      BY <1>6
    <3>2. Len(kept) \in Nat
      OBVIOUS
    <3> QED BY <3>1
  <2> QED BY <2>2, <2>3, <2>4
<1>11. Range(kept') = {j \in 1..i' : Keep(input', j)}
  <2>1. DOMAIN kept = 1..Len(kept) /\ DOMAIN kept' = 1..Len(kept')
    OBVIOUS
  <2>2. Range(kept') = Range(kept) \cup {i + 1}
    <3>1. 1..Len(kept') = (1..Len(kept)) \cup {Len(kept) + 1}
      BY <1>6
    <3> QED BY <1>6 DEF Range
  <2>3. 1..i' = (1..i) \cup {i + 1}
    BY <1>1, <1>2
  <2> QED BY <1>0, <1>1, <1>4, <2>2, <2>3
<1>12. \A n \in 1..Len(kept') :
         /\ out'[n] = Out(input'[kept'[n]]) /\ Keep(out', n)
         /\ Escaped(out', n) <=> Escaped(input', kept'[n])
         /\ Cardinality(Quotes(out', n)) = Cardinality(Quotes(input', kept'[n]))
  <2> TAKE n \in 1..Len(kept')
  <2>1. CASE n \in 1..Len(kept)
    <3>1. kept'[n] = kept[n] /\ out'[n] = out[n]
      BY <1>2, <1>5, <1>6, <2>1
    <3>2. n \in 1..Len(out) /\ n \in 1..(Len(out) + 1)
      BY <1>2, <2>1
    <3>3. /\ Keep(out', n) <=> Keep(out, n)
          /\ Escaped(out', n) <=> Escaped(out, n)
          /\ Quotes(out', n) = Quotes(out, n)
      BY <1>1, <1>2, <1>3, <3>2, EndLeavesRest
    <3> QED BY <1>0, <1>1, <2>1, <3>1, <3>3
  <2>2. CASE n = Len(kept) + 1
    <3>1. Keep(out', n)
      <4>1. Flags(out', Len(out))
        <5>1. /\ Len(out) > 0 => out'[Len(out)] = out[Len(out)]
              /\ Len(out) > 1 => out'[Len(out) - 1] = out[Len(out) - 1]
          <6>1. Len(out) \in Nat
            OBVIOUS
          <6> QED BY <1>5
        <5> QED BY <1>0, <5>1 DEF Flags
      <4>2. Keep(out', Len(out) + 1) <=> Written(out'[Len(out) + 1])
        BY <1>2, <4>1, KeepByFlags
      <4>3. Written(Out(b))
        BY <1>3 DEF Written
      <4> QED BY <1>2, <1>5, <2>2, <4>2, <4>3
    <3>2. /\ Quotes(out', n) = Quotes(out, Len(out) + 1)
          /\ Escaped(out', n) <=> Escaped(out, Len(out) + 1)
      BY <1>1, <1>2, <1>3, <2>2, EndLeavesRest
    <3> QED BY <1>0, <1>1, <1>2, <2>2, <3>1, <3>2
  <2> QED BY <1>6, <2>1, <2>2
<1>13. /\ Quotes(out', Len(out) + 1) = Quotes(out, Len(out) + 1)
       /\ Escaped(out', Len(out) + 1) <=> Escaped(out, Len(out) + 1)
       /\ Len(out) + 1 \in Nat \ {0} /\ i + 1 \in Nat \ {0}
  BY <1>1, <1>2, <1>3, EndLeavesRest
<1>14. Cardinality(Quotes(out', Len(out') + 1)) = Cardinality(Quotes(input', i' + 1))
  <2>1. Cardinality(Quotes(out', Len(out') + 1))
          = Cardinality(Quotes(out', Len(out) + 1))
            + (IF Out(b) = QUOTE /\ ~Escaped(out', Len(out) + 1) THEN 1 ELSE 0)
    BY <1>5, <1>13, QuotesCounted
  <2>2. Cardinality(Quotes(input, (i + 1) + 1))
          = Cardinality(Quotes(input, i + 1))
            + (IF b = QUOTE /\ ~Escaped(input, i + 1) THEN 1 ELSE 0)
    BY <1>1, <1>13, QuotesCounted
  <2> QED BY <1>0, <1>1, <1>3, <1>13, <2>1, <2>2
<1>15. Escaped(out', Len(out') + 1) <=> Escaped(input', i' + 1)
  <2>1. Escaped(out', Len(out') + 1) <=> Out(b) = BS /\ ~Escaped(out', Len(out) + 1)
    BY <1>5, <1>13, EscapedNext
  <2>2. Escaped(input, (i + 1) + 1) <=> b = BS /\ ~Escaped(input, i + 1)
    BY <1>1, <1>13, EscapedNext
  <2> QED BY <1>0, <1>1, <1>3, <1>13, <2>1, <2>2
<1> QED
  BY <1>1, <1>7, <1>8, <1>9, <1>10, <1>11, <1>12, <1>14, <1>15 DEF TrimInv

(* A round that drops its byte: the flags were right to hold it back, and  *)
(* they say of the output what they said before.                           *)
LEMMA DroppedKeepsInv ==
  ASSUME TrimInv, NEW b \in Byte, Looked(b), ~Written(b)
  PROVE  TrimInv'
<1>0. /\ TrimTypeOK
      /\ Flags(input, i) /\ Flags(out, Len(out))
      /\ \A m, n \in 1..Len(kept) : m < n => kept[m] < kept[n]
      /\ Range(kept) = {j \in 1..i : Keep(input, j)}
      /\ \A n \in 1..Len(kept) :
           /\ out[n] = Out(input[kept[n]]) /\ Keep(out, n)
           /\ Escaped(out, n) <=> Escaped(input, kept[n])
           /\ Cardinality(Quotes(out, n)) = Cardinality(Quotes(input, kept[n]))
      /\ Escaped(out, Len(out) + 1) <=> Escaped(input, i + 1)
      /\ Cardinality(Quotes(out, Len(out) + 1)) = Cardinality(Quotes(input, i + 1))
  BY DEF TrimInv
<1>1. /\ at = "loop" /\ at' = "loop" /\ input' = input /\ i' = i + 1
      /\ i + 1 \in 1..Len(input) /\ input[i + 1] = b
      /\ out' = out /\ kept' = kept
      /\ newlineCount' = IF b = NL THEN newlineCount + 1 ELSE 0
      /\ lastWasSpace' \in BOOLEAN /\ (lastWasSpace' <=> b \in Blank)
  BY <1>0 DEF Looked, Round, Skip, TrimTypeOK
<1>2. /\ i \in Nat /\ Len(kept) \in Nat /\ Len(out) = Len(kept) /\ Len(kept) <= i
      /\ input \in Seq(Byte) /\ out \in Seq(Byte) /\ kept \in Seq(1..i)
      /\ Len(input) \in Nat /\ newlineCount \in Nat /\ lastWasSpace \in BOOLEAN
  BY <1>0 DEF TrimTypeOK
<1>3. \/ b = NL /\ b \notin Blank /\ newlineCount > 1
      \/ b \in Blank /\ b # NL /\ lastWasSpace
  BY <1>2, TrimAssumption DEF Written
<1>4. ~Keep(input, i + 1) /\ b # QUOTE /\ b # BS
  <2>1. ~Keep(input, i + 1)
    BY <1>0, <1>1, <1>2, KeepByFlags
  <2> QED BY <1>3, <2>1, TrimAssumption
<1>5. TrimTypeOK'
  <2>1. kept' \in Seq(1..(i + 1))
    BY <1>1, <1>2
  <2>2. newlineCount' \in Nat /\ lastWasSpace' \in BOOLEAN
    BY <1>1, <1>2
  <2> QED BY <1>1, <1>2 DEF TrimTypeOK
<1>6. Flags(input, i)' /\ Flags(out, Len(out))'
  <2>1. NL \notin Blank
    BY TrimAssumption
  <2>2. Flags(input, i)'
    BY <1>0, <1>1, <1>2 DEF Flags
  <2>3. Flags(out, Len(out))'
    BY <1>0, <1>1, <1>2, <1>3, <2>1 DEF Flags
  <2> QED BY <2>2, <2>3
<1>7. Range(kept') = {j \in 1..i' : Keep(input', j)}
  <2>1. 1..i' = (1..i) \cup {i + 1}
    BY <1>1, <1>2
  <2> QED BY <1>0, <1>1, <1>4, <2>1
<1>8. Cardinality(Quotes(out', Len(out') + 1)) = Cardinality(Quotes(input', i' + 1))
  <2>1. Cardinality(Quotes(input, (i + 1) + 1))
          = Cardinality(Quotes(input, i + 1)) + (IF b = QUOTE /\ ~Escaped(input, i + 1) THEN 1 ELSE 0)
    <3>1. i + 1 \in Nat \ {0}
      BY <1>2
    <3> QED BY <1>1, <3>1, QuotesCounted
  <2>2. Cardinality(Quotes(input, i + 1)) \in Nat
    BY <1>2, QuotesCounted
  <2> QED BY <1>0, <1>1, <1>4, <2>1, <2>2
<1>9. Escaped(out', Len(out') + 1) <=> Escaped(input', i' + 1)
  <2>1. ~Escaped(input, (i + 1) + 1)
    <3>1. i + 1 \in Nat \ {0}
      BY <1>2
    <3> QED BY <1>1, <1>4, <3>1, EscapedNext
  <2>2. Len(out) \in Nat \ {0} /\ out[Len(out)] # BS
    BY <1>0, <1>2, <1>3, TrimAssumption DEF Flags
  <2>3. ~Escaped(out, Len(out) + 1)
    BY <2>2, EscapedNext
  <2> QED BY <1>1, <2>1, <2>3
<1> QED
  BY <1>1, <1>5, <1>6, <1>7, <1>8, <1>9 DEF TrimInv

(* Every step of a call of TrimBytes keeps the invariant.                  *)
LEMMA TrimInvStep == TrimInv /\ [TrimNext]_trimVars => TrimInv'
<1> SUFFICES ASSUME TrimInv, [TrimNext]_trimVars PROVE TrimInv'
  OBVIOUS
<1>1. CASE Call
  <2>1. input = <<>> => Len(input) = 0
    OBVIOUS
  <2>2. at = "call" /\ i = 0 /\ trimmed = <<>> /\ saved = 0 /\ Len(out) = 0 /\ out = <<>>
    BY <1>1 DEF Call, TrimInv, TrimTypeOK
  <2>3. TrimTypeOK'
    BY <1>1 DEF Call, TrimInv, TrimTypeOK
  <2> QED BY <1>1, <2>2, <2>3 DEF Call, TrimInv, Flags
<1>2. CASE Newline \/ Space \/ Other
  <2>1. PICK b \in Byte : Looked(b)
    BY <1>2, OneForm DEF TrimInv
  <2> QED BY <2>1, WrittenKeepsInv, DroppedKeepsInv
<1>3. CASE Return
  <2>1. saved' = Len(input) - Len(out)
    BY <1>3 DEF Return, TrimInv, TrimTypeOK
  <2>2. TrimTypeOK'
    BY <1>3 DEF Return, TrimInv, TrimTypeOK
  <2> QED BY <1>3, <2>1, <2>2 DEF Return, TrimInv, Flags
<1>4. CASE UNCHANGED trimVars
  BY <1>4 DEF trimVars, TrimInv, TrimTypeOK, Flags
<1> QED
  BY <1>1, <1>2, <1>3, <1>4 DEF TrimNext

(* For every payload of any length, TrimBytes returns exactly the bytes to *)
(* keep, in order, with blanks as spaces; trimming again changes nothing.  *)
THEOREM TrimmedExactly == TrimSpec => []TrimExact
<1>1. TrimInv => TrimExact
  <2> SUFFICES ASSUME TrimInv, at = "done" PROVE TrimExact
    BY DEF TrimExact
  <2>1. trimmed = out /\ i = Len(input) /\ saved = Len(input) - Len(trimmed)
    BY DEF TrimInv
  <2>2. out \in Seq(Byte) /\ Len(out) = Len(kept)
    BY DEF TrimInv, TrimTypeOK
  <2>3. DOMAIN out = 1..Len(kept)
    BY <2>2
  <2>4. \A n \in 1..Len(kept) : out[n] = Out(input[kept[n]]) /\ Keep(out, n)
    BY DEF TrimInv
  <2>5. trimmed = [n \in 1..Len(kept) |-> Out(input[kept[n]])]
    BY <2>1, <2>2, <2>4
  <2>6. \A n \in DOMAIN trimmed : Keep(trimmed, n) /\ Out(trimmed[n]) = trimmed[n]
    BY <2>1, <2>3, <2>4 DEF Out
  <2> QED BY <2>5, <2>6 DEF TrimExact, TrimInv, KeptOf
<1> QED
  BY TrimInvInit, TrimInvStep, <1>1, PTL DEF TrimSpec

(* A valid request body of any length is still valid when                  *)
(* handleChatCompletions parses what TrimBytes made of it.                 *)
THEOREM TrimmedStaysValid == TrimSpec => []ValidStaysValid
<1>1. TrimInv => ValidStaysValid
  <2> SUFFICES ASSUME TrimInv, at = "done", ValidJSON(input) PROVE ValidJSON(trimmed)
    BY DEF ValidStaysValid
  <2>1. trimmed = out /\ i = Len(input)
    BY DEF TrimInv
  <2>2. ~InString(out, Len(out) + 1)
    BY DEF TrimInv, ValidJSON, InString
  <2>3. ASSUME NEW n \in 1..Len(out)
        PROVE  /\ out[n] \in {NL, TAB} => ~InString(out, n)
               /\ out[n] = BS => InString(out, n)
               /\ Escaped(out, n) => out[n] \in Escapable
    <3>1. n \in 1..Len(kept) /\ kept[n] \in 1..Len(input)
      BY DEF TrimInv, TrimTypeOK
    <3>2. /\ out[n] = Out(input[kept[n]])
          /\ Escaped(out, n) <=> Escaped(input, kept[n])
          /\ InString(out, n) <=> InString(input, kept[n])
      BY <3>1 DEF TrimInv, InString
    <3>3. /\ out[n] \in {NL, TAB} => input[kept[n]] = NL
          /\ out[n] = BS => input[kept[n]] = BS
          /\ input[kept[n]] \in Escapable => out[n] = input[kept[n]]
      BY <3>2, TrimAssumption DEF Out, Blank
    <3> QED BY <3>1, <3>2, <3>3 DEF ValidJSON
  <2> QED BY <2>1, <2>2, <2>3 DEF ValidJSON
<1> QED
  BY TrimInvInit, TrimInvStep, <1>1, PTL DEF TrimSpec

----------------------------------------------------------------------------
(* The classifier.                                                         *)

(* The last classification is always that of the last prompt.              *)
LEMMA ClassifierStep ==
  ASSUME res = Classify(length, crit, code), [ClassifierNext]_classifierVars
  PROVE  (res = Classify(length, crit, code))'
BY DEF ClassifierNext, Edit, classifierVars

(* For any keyword lists and any lengths, Classify calls a request         *)
(* REASONING exactly if a critical keyword was found: length and code      *)
(* words together stay below the threshold.                                *)
THEOREM TierAgrees == ClassifierSpec => []ReasoningIffCritical
<1> DEFINE Inv == res = Classify(length, crit, code)
<1>1. ClassifierInit => Inv
  BY DEF ClassifierInit
<1>2. Inv /\ [ClassifierNext]_classifierVars => Inv'
  BY ClassifierStep
<1>3. Inv => ReasoningIffCritical
  <2> SUFFICES ASSUME Inv PROVE ReasoningIffCritical
    OBVIOUS
  <2> DEFINE score == LengthScore(length) + CriticalScore(crit) + CodeScore(code)
  <2>1. LengthScore(length) \in {5, 20, 35} /\ CodeScore(code) \in {0, 20}
    BY DEF LengthScore, CodeScore
  <2>2. crit = {} => ~(score >= 60)
    BY <2>1 DEF CriticalScore
  <2>3. res.Tier = TierOf(score, crit # {}) /\ res.Criticality = (crit # {})
    BY DEF Classify
  <2> HIDE DEF score
  <2>4. TierOf(score, crit # {}) = "REASONING" <=> crit # {}
    BY <2>2 DEF TierOf
  <2> QED BY <2>3, <2>4 DEF ReasoningIffCritical
<1> HIDE DEF Inv
<1> QED
  BY <1>1, <1>2, <1>3, PTL DEF ClassifierSpec
=============================================================================
