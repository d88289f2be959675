------------------------------ MODULE TrimBytes ------------------------------
(***************************************************************************)
(* One call of TrimBytes of pkg/trimmer/trimmer.go, byte by byte, on a     *)
(* buffer that nobody else touches (module BufferPool is about who does).  *)
(***************************************************************************)
EXTENDS Integers, Sequences, FiniteSets, Functions

CONSTANTS
  Byte,          \* the bytes of a payload
  NL, SP, TAB,   \* newline, space and tab among them
  QUOTE, BS,     \* the double quote, which delimits JSON strings, and the backslash
  Escapable,     \* the bytes that may follow a backslash in a JSON string
  Inputs         \* the payloads to trim

Blank == {SP, TAB}

ASSUME TrimAssumption ==
  /\ {NL, SP, TAB, QUOTE, BS} \subseteq Byte
  /\ NL \notin Blank /\ SP # TAB /\ QUOTE \notin Blank \cup {NL}
  /\ BS \notin Blank \cup {NL, QUOTE}
  /\ {QUOTE, BS} \subseteq Escapable /\ Escapable \cap (Blank \cup {NL}) = {}
  /\ Inputs \subseteq Seq(Byte)

VARIABLES
  at,            \* "call", "loop" or "done"
  input, i,      \* i bytes of the input have been looked at
  out,           \* what has been written to the pooled buffer
  lastWasSpace, newlineCount,
  trimmed, saved, \* the results, once at = "done"
  kept           \* history: the positions of the input whose bytes were written

trimVars == <<at, input, i, out, lastWasSpace, newlineCount, trimmed, saved, kept>>

TrimInit ==
  /\ at = "call"
  /\ input \in Inputs /\ i = 0
  /\ out = <<>> /\ lastWasSpace = FALSE /\ newlineCount = 0
  /\ trimmed = <<>> /\ saved = 0
  /\ kept = <<>>

\* An empty input is returned as it is.
Call ==
  /\ at = "call"
  /\ at' = IF input = <<>> THEN "done" ELSE "loop"
  /\ UNCHANGED <<input, i, out, lastWasSpace, newlineCount, trimmed, saved, kept>>

\* One round of the loop on byte b, which is not the end of the input.
Round(b) ==
  /\ at = "loop" /\ i < Len(input)
  /\ input[i + 1] = b
  /\ i' = i + 1
  /\ UNCHANGED <<at, input, trimmed, saved>>

Write(b) ==
  /\ out' = Append(out, b)
  /\ kept' = Append(kept, i + 1)

Skip == UNCHANGED <<out, kept>>

Newline ==
  /\ Round(NL)
  /\ newlineCount' = newlineCount + 1
  /\ IF newlineCount' <= 2 THEN Write(NL) ELSE Skip
  /\ lastWasSpace' = FALSE

Space ==
  /\ \E b \in Blank : Round(b)
  /\ newlineCount' = 0
  /\ IF lastWasSpace THEN Skip ELSE Write(SP)
  /\ lastWasSpace' = TRUE

\* Mutant of Other: the end of a run of blanks goes unnoticed.
OtherKeepsSpace ==
  /\ \E b \in Byte \ (Blank \cup {NL}) : Round(b) /\ Write(b)
  /\ newlineCount' = 0
  /\ UNCHANGED lastWasSpace

\* Mutant of Other: any byte is collapsed when it repeats the one before it.
OtherCollapses ==
  /\ \E b \in Byte \ (Blank \cup {NL}) :
       Round(b) /\ IF i > 0 /\ input[i] = b THEN Skip ELSE Write(b)
  /\ newlineCount' = 0
  /\ lastWasSpace' = FALSE

Other ==
  /\ \E b \in Byte \ (Blank \cup {NL}) : Round(b) /\ Write(b)
  /\ newlineCount' = 0
  /\ lastWasSpace' = FALSE

Return ==
  /\ at = "loop" /\ i = Len(input)
  /\ at' = "done"
  /\ trimmed' = out
  /\ saved' = IF Len(input) - Len(out) < 0 THEN 0 ELSE Len(input) - Len(out)
  /\ UNCHANGED <<input, i, out, lastWasSpace, newlineCount, kept>>

TrimNext == Call \/ Newline \/ Space \/ Other \/ Return

TrimSpec == TrimInit /\ [][TrimNext]_trimVars

----------------------------------------------------------------------------
(* What the loop promises, without its two flags.                          *)

\* Position j of s is kept: a newline unless two newlines stand right before
\* it, a blank unless another blank does, and any other byte.
Keep(s, j) ==
  /\ s[j] = NL => ~(j > 2 /\ s[j - 1] = NL /\ s[j - 2] = NL)
  /\ s[j] \in Blank => ~(j > 1 /\ s[j - 1] \in Blank)

KeptOf(s) == {j \in 1..Len(s) : Keep(s, j)}

Out(b) == IF b = TAB THEN SP ELSE b

(* The loop of TrimBytes, for all its flags, returns the kept bytes of the *)
(* input in their order, blanks as spaces, and nothing else; and although  *)
(* dropped bytes have brought others together, nothing is left to trim.    *)
TrimExact ==
  at = "done" =>
    /\ \A m, n \in 1..Len(kept) : m < n => kept[m] < kept[n]
    /\ Range(kept) = KeptOf(input)
    /\ trimmed = [n \in 1..Len(kept) |-> Out(input[kept[n]])]
    /\ saved = Len(input) - Len(trimmed)
    /\ \A n \in DOMAIN trimmed : Keep(trimmed, n) /\ Out(trimmed[n]) = trimmed[n]

----------------------------------------------------------------------------
(* handleChatCompletions trims the body before it parses it.  Of the JSON  *)
(* grammar the strings matter here, since TrimBytes does not look where    *)
(* they begin and end, and between tokens it leaves white space wherever   *)
(* there was some.  A string ends at the first quote that no backslash     *)
(* escapes; json.Unmarshal rejects a body that ends inside one, a tab or   *)
(* newline inside one, and a backslash outside one or before a byte that   *)
(* cannot be escaped.                                                      *)

\* Position j of s stands behind an odd number of backslashes.
Escaped(s, j) ==
  \E k \in 1..j :
    /\ \A h \in k..(j - 1) : s[h] = BS
    /\ k > 1 => s[k - 1] # BS
    /\ (j - k) % 2 = 1

Quotes(s, j) == {h \in 1..(j - 1) : s[h] = QUOTE /\ ~Escaped(s, h)}

InString(s, j) == Cardinality(Quotes(s, j)) % 2 = 1

ValidJSON(s) ==
  /\ ~InString(s, Len(s) + 1)
  /\ \A j \in 1..Len(s) :
       /\ s[j] \in {NL, TAB} => ~InString(s, j)
       /\ s[j] = BS => InString(s, j)
       /\ Escaped(s, j) => s[j] \in Escapable

(* Trimming never makes a valid body invalid: no 400 for a valid request.  *)
ValidStaysValid ==
  at = "done" /\ ValidJSON(input) => ValidJSON(trimmed)

----------------------------------------------------------------------------
(* Inductive strengthening of both: after every round the two flags say    *)
(* the same of the bytes read and of the bytes written, a byte written is  *)
(* escaped if the byte it comes from is, and as many quotes stand before   *)
(* the one as before the other.                                            *)
Flags(s, n) ==
  /\ lastWasSpace <=> n > 0 /\ s[n] \in Blank
  /\ newlineCount > 0 <=> n > 0 /\ s[n] = NL
  /\ newlineCount > 1 <=> n > 1 /\ s[n] = NL /\ s[n - 1] = NL

TrimTypeOK ==
  /\ at \in {"call", "loop", "done"}
  /\ input \in Seq(Byte) /\ i \in 0..Len(input)
  /\ out \in Seq(Byte) /\ kept \in Seq(1..i)
  /\ Len(out) = Len(kept) /\ Len(kept) <= i
  /\ lastWasSpace \in BOOLEAN /\ newlineCount \in Nat

TrimInv ==
  /\ TrimTypeOK
  /\ at = "call" => i = 0 /\ trimmed = <<>> /\ saved = 0
  /\ at = "done" => i = Len(input) /\ trimmed = out /\ saved = Len(input) - Len(out)
  /\ Flags(input, i) /\ Flags(out, Len(out))
  /\ \A m, n \in 1..Len(kept) : m < n => kept[m] < kept[n]
  /\ Range(kept) = {j \in 1..i : Keep(input, j)}
  /\ \A n \in 1..Len(kept) :
       /\ out[n] = Out(input[kept[n]]) /\ Keep(out, n)
       /\ Escaped(out, n) <=> Escaped(input, kept[n])
       /\ Cardinality(Quotes(out, n)) = Cardinality(Quotes(input, kept[n]))
  /\ Escaped(out, Len(out) + 1) <=> Escaped(input, i + 1)
  /\ Cardinality(Quotes(out, Len(out) + 1)) = Cardinality(Quotes(input, i + 1))
=============================================================================
