--------------------------- MODULE MCResearchAgent ---------------------------
(* Model values and symmetry for the research agent. *)
EXTENDS ResearchAgent
Symmetry == Permutations(Ids)
=============================================================================
