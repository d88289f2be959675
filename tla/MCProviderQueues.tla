-------------------------- MODULE MCProviderQueues --------------------------
(* Two callers, two calls of an operator, one or two workers.              *)
EXTENDS ProviderQueues, TLC

CONSTANTS c1, c2, a1, a2, w1, w2

Alike == Permutations(Caller \ Batch) \cup Permutations(Admin) \cup Permutations(Worker)
=============================================================================
