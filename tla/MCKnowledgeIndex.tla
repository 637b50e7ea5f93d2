-------------------------- MODULE MCKnowledgeIndex --------------------------
(* Model values and symmetry for checking KnowledgeIndex with TLC. *)
EXTENDS KnowledgeIndex, TLC

\* Handlers are interchangeable, and so are contents: only their equality with
\* a stored checksum is looked at.
Symmetry == Permutations(Handlers) \cup Permutations(Contents)
=============================================================================
