-------------------------- MODULE MCKnowledgeLedger --------------------------
(* KnowledgeLedger for TLC. *)
EXTENDS KnowledgeLedger, TLC

Symmetry == Permutations(Claims) \cup Permutations(Contents) \cup Permutations(Contracts)
=============================================================================
