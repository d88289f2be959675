---------------------------- MODULE MCLibraries -----------------------------
(* The libraries of NerveGate, each on its own: the rotator with two keys    *)
(* that have limits, one with an ID of its own; the trimmer's loop on every  *)
(* payload of up to MaxLen bytes; its buffers under concurrent calls; the    *)
(* classifier on both sides of every threshold.  They share no state, so     *)
(* each is explored with the others at rest.                                 *)
EXTENDS RotatorAudit, TrimBytes, BufferPool, Classifier, SequencesExt

CONSTANTS k1, k2, own, MaxLen

MCGivenID == [k \in {k1, k2} |-> IF k = k1 THEN own ELSE NoID]
MCRPM == [k \in {k1, k2} |-> IF k = k1 THEN 2 ELSE 1]
MCTPM == [k \in {k1, k2} |-> IF k = k1 THEN 0 ELSE 2]
MCInputs == BoundedSeq(Byte, MaxLen)

Interchangeable == Permutations(Caller) \cup Permutations(Buffer)

VARIABLE part

Rest(p) ==
  /\ UNCHANGED part
  /\ p = "rotator" \/ UNCHANGED auditVars
  /\ p = "trimmer" \/ UNCHANGED trimVars
  /\ p = "buffers" \/ UNCHANGED bufferVars
  /\ p = "classifier" \/ UNCHANGED classifierVars

LibrariesInit ==
  /\ part \in {"rotator", "trimmer", "buffers", "classifier"}
  /\ AuditInit
  /\ TrimInit /\ (part = "trimmer" \/ input = <<>>)
  /\ BufferInit /\ (part = "buffers" \/ buf = [c \in Caller |-> CHOOSE b \in Buffer : TRUE])
  /\ ClassifierInit /\ (part = "classifier" \/ length = 0)

LibrariesNext ==
  \/ part = "rotator" /\ AuditNext /\ Rest(part)
  \/ part = "trimmer" /\ TrimNext /\ Rest(part)
  \/ part = "buffers" /\ BufferNext /\ Rest(part)
  \/ part = "classifier" /\ ClassifierNext /\ Rest(part)

LibrariesSpec ==
  LibrariesInit /\ [][LibrariesNext]_<<part, auditVars, trimVars, bufferVars, classifierVars>>
=============================================================================
