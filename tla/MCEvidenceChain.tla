-------------------------- MODULE MCEvidenceChain --------------------------
(* EvidenceChain on small instances; two commands suffice for an overlap,   *)
(* a third runs after it.                                                   *)
EXTENDS EvidenceChain, TLC

CommandSymmetry == Permutations(Commands)
=============================================================================
