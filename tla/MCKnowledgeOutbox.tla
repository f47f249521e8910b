-------------------------- MODULE MCKnowledgeOutbox --------------------------
(* KnowledgeOutbox for TLC. *)
EXTENDS KnowledgeOutbox, TLC

Symmetry == Permutations(Claims) \cup Permutations(Drainers)
=============================================================================
