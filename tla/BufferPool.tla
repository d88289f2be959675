----------------------------- MODULE BufferPool -----------------------------
(***************************************************************************)
(* Concurrent calls of TrimBytes of pkg/trimmer/trimmer.go and the global  *)
(* sync.Pool of buffers they share.  What the loop writes is module        *)
(* TrimBytes; here a call writes its own name, so that a byte of another   *)
(* call in its result shows.  A slice is the memory it points to: a pooled *)
(* buffer, or the array that make has allocated for a caller.              *)
(***************************************************************************)
EXTENDS Integers, Sequences, FiniteSets, FiniteSetsExt

CONSTANTS
  Caller,             \* concurrent callers, each calls again and again
  Buffer,             \* memory for bytes.Buffer objects
  Length,             \* lengths of inputs
  maxPoolBufferSize

ASSUME BufferAssumption ==
  /\ Caller \cap Buffer = {} /\ Length \subseteq Nat
  /\ maxPoolBufferSize \in Nat

VARIABLES
  bufferPool, \* buffers in bufferPool
  cap,      \* [Buffer -> Nat]: Cap() of a buffer
  memory,   \* [Buffer \cup Caller -> Seq(Caller)]: what was written there
  pc,       \* [Caller -> where its call is]
  buf,      \* [Caller -> Buffer]: its buffer, while it is in a call
  origLen,  \* [Caller -> Nat]
  wrote,    \* [Caller -> Nat]: bytes the call has written
  result    \* [Caller -> Buffer \cup Caller]: where its returned slice points to

bufferVars == <<bufferPool, cap, memory, pc, buf, origLen, wrote, result>>

InCall == {"reset", "loop", "deferred"}

\* Buffers that no call and no returned slice refers to.
Free == {b \in Buffer : /\ b \notin bufferPool
                        /\ \A c \in Caller : (pc[c] \in InCall => buf[c] # b) /\ result[c] # b}

BufferInit ==
  /\ bufferPool = {} /\ cap = [b \in Buffer |-> 0]
  /\ memory = [m \in Buffer \cup Caller |-> <<>>]
  /\ pc = [c \in Caller |-> "idle"]
  /\ buf \in [Caller -> Buffer] /\ origLen = [c \in Caller |-> 0]
  /\ wrote = [c \in Caller |-> 0]
  /\ result = [c \in Caller |-> c]

Goto(c, from, to) == pc[c] \in from /\ pc' = [pc EXCEPT ![c] = to]

\* bufferPool.Get: a buffer of the pool, or New when the pool has none to give.
\* The caller gives up the slice of its call before.
Get(c, b, n) ==
  /\ n > 0
  /\ Goto(c, {"idle", "done"}, "reset")
  /\ \/ b \in bufferPool /\ UNCHANGED <<cap, memory>>
     \/ /\ b \in Free
        /\ cap' = [cap EXCEPT ![b] = 0]
        /\ memory' = [memory EXCEPT ![b] = <<>>]
  /\ bufferPool' = bufferPool \ {b}
  /\ buf' = [buf EXCEPT ![c] = b]
  /\ origLen' = [origLen EXCEPT ![c] = n]
  /\ wrote' = [wrote EXCEPT ![c] = 0]
  /\ result' = [result EXCEPT ![c] = c]

\* buf.Reset and buf.Grow, which doubles a capacity that is too small.
Reset(c) ==
  /\ Goto(c, {"reset"}, "loop")
  /\ memory' = [memory EXCEPT ![buf[c]] = <<>>]
  /\ cap' = [cap EXCEPT ![buf[c]] = IF origLen[c] <= @ THEN @ ELSE Max({origLen[c], 2 * @})]
  /\ UNCHANGED <<bufferPool, buf, origLen, wrote, result>>

WriteByte(c) ==
  /\ pc[c] = "loop" /\ wrote[c] < origLen[c]
  /\ memory' = [memory EXCEPT ![buf[c]] = Append(@, c)]
  /\ wrote' = [wrote EXCEPT ![c] = @ + 1]
  /\ UNCHANGED <<bufferPool, cap, pc, buf, origLen, result>>

\* Mutant of Copy: the result is buf.Bytes() itself.
CopyAliases(c) ==
  /\ Goto(c, {"loop"}, "deferred")
  /\ result' = [result EXCEPT ![c] = buf[c]]
  /\ UNCHANGED <<bufferPool, cap, memory, buf, origLen, wrote>>

\* result is allocated and filled.
Copy(c) ==
  /\ Goto(c, {"loop"}, "deferred")
  /\ memory' = [memory EXCEPT ![c] = memory[buf[c]]]
  /\ result' = [result EXCEPT ![c] = c]
  /\ UNCHANGED <<bufferPool, cap, buf, origLen, wrote>>

\* The deferred function.
Put(c) ==
  /\ Goto(c, {"deferred"}, "done")
  /\ bufferPool' = IF cap[buf[c]] <= maxPoolBufferSize THEN bufferPool \cup {buf[c]} ELSE bufferPool
  /\ UNCHANGED <<cap, memory, buf, origLen, wrote, result>>

\* The garbage collector empties a sync.Pool as it likes.
Collect(b) ==
  /\ b \in bufferPool
  /\ bufferPool' = bufferPool \ {b}
  /\ UNCHANGED <<cap, memory, pc, buf, origLen, wrote, result>>

BufferNext ==
  \/ \E c \in Caller :
       \/ \E b \in Buffer, n \in Length : Get(c, b, n)
       \/ Reset(c) \/ WriteByte(c) \/ Copy(c) \/ Put(c)
  \/ \E b \in Buffer : Collect(b)

BufferSpec == BufferInit /\ [][BufferNext]_bufferVars

----------------------------------------------------------------------------
(* Type invariant of the callers, the pool and the memory.  A call writes  *)
(* within the capacity that Grow has given it: the loop never reallocates. *)
BufferTypeOK ==
  /\ bufferPool \subseteq Buffer /\ cap \in [Buffer -> Nat]
  /\ memory \in [Buffer \cup Caller -> Seq(Caller)]
  /\ pc \in [Caller -> InCall \cup {"idle", "done"}]
  /\ buf \in [Caller -> Buffer] /\ result \in [Caller -> Buffer \cup Caller]
  /\ origLen \in [Caller -> Nat] /\ wrote \in [Caller -> Nat]
  /\ \A c \in Caller : pc[c] \in {"loop", "deferred"} => wrote[c] <= cap[buf[c]]

Own(c, n) == [j \in 1..n |-> c]

(* "the returned slice is a fresh copy so callers may retain it safely": as*)
(* long as a caller holds its result, the result is what that very call has*)
(* written, whatever other calls do to the pooled buffers meanwhile.       *)
ResultStaysOwn ==
  \A c \in Caller : pc[c] \in {"deferred", "done"} => memory[result[c]] = Own(c, wrote[c])

(* "a single oversized request cannot permanently pin memory": what the    *)
(* pool retains is within the cap, whatever sizes came before.             *)
PoolBounded ==
  \A b \in bufferPool : cap[b] <= maxPoolBufferSize

(* Why that is so, and inductive: a buffer has one user.  No two calls hold*)
(* the same one, none that a call holds is in the pool, and a result is in *)
(* the memory of its caller.                                               *)
Exclusive ==
  \A c \in Caller : pc[c] \in InCall =>
    /\ buf[c] \notin bufferPool
    /\ \A d \in Caller \ {c} : pc[d] \in InCall => buf[d] # buf[c]

BufferInv ==
  /\ BufferTypeOK
  /\ Exclusive
  /\ \A c \in Caller :
       /\ result[c] = c
       /\ pc[c] = "reset" => wrote[c] = 0
       /\ pc[c] = "loop" => memory[buf[c]] = Own(c, wrote[c]) /\ wrote[c] <= origLen[c]
                            /\ origLen[c] <= cap[buf[c]]
  /\ ResultStaysOwn /\ PoolBounded
=============================================================================
