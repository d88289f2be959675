----------------------------- MODULE Classifier -----------------------------
(***************************************************************************)
(* Classify of pkg/classifier/classifier.go as a function of what it looks *)
(* at: the length of its two arguments and which keywords the prompt has.  *)
(* A step edits the prompt, as a client does from one request to the next. *)
(***************************************************************************)
EXTENDS Integers, FiniteSets

CONSTANTS
  criticalKeywords, codeKeywords,  \* the keyword lists of the code
  Lengths                          \* lengths of prompt and context together

ASSUME ClassifierAssumption == IsFiniteSet(codeKeywords) /\ Lengths \subseteq Nat

LengthScore(length) ==
  IF length > 8000 THEN 35 ELSE IF length > 2000 THEN 20 ELSE 5

\* The loop breaks at its first match.
CriticalScore(words) == IF words = {} THEN 0 ELSE 30

CodeScore(words) == IF Cardinality(words) >= 2 THEN 20 ELSE 0

\* Mutant of TierOf: 55 points already make a reasoning request.
TierOfLow(score, critical) ==
  CASE score >= 55 \/ critical -> "REASONING"
    [] score >= 25 /\ ~(score >= 55 \/ critical) -> "STANDARD"
    [] OTHER -> "FAST"

TierOf(score, critical) ==
  CASE score >= 60 \/ critical -> "REASONING"
    [] score >= 25 /\ ~(score >= 60 \/ critical) -> "STANDARD"
    [] OTHER -> "FAST"

Classify(length, crit, code) ==
  LET score == LengthScore(length) + CriticalScore(crit) + CodeScore(code) IN
  [Score |-> score, Tier |-> TierOf(score, crit # {}), Criticality |-> crit # {}]

----------------------------------------------------------------------------
VARIABLES length, crit, code, res   \* the last prompt and its classification

classifierVars == <<length, crit, code, res>>

ClassifierInit ==
  /\ length \in Lengths /\ crit = {} /\ code = {}
  /\ res = Classify(length, crit, code)

Edit(n, cr, co) ==
  /\ length' = n /\ crit' = cr /\ code' = co
  /\ res' = Classify(n, cr, co)

ClassifierNext ==
  \E n \in Lengths, cr \in SUBSET criticalKeywords, co \in SUBSET codeKeywords :
    Edit(n, cr, co)

ClassifierSpec == ClassifierInit /\ [][ClassifierNext]_classifierVars

----------------------------------------------------------------------------
(* The score alone never makes a request REASONING: without a critical     *)
(* keyword its points end below the threshold of 60, so the tier and the   *)
(* criticality flag always agree.                                          *)
ReasoningIffCritical == (res.Tier = "REASONING") <=> res.Criticality
=============================================================================
