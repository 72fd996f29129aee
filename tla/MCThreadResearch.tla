-------------------------- MODULE MCThreadResearch --------------------------
(* Model values and symmetry for ThreadResearch and the repository under it. *)
EXTENDS ThreadResearch, TLC

Symmetry == Permutations(Threads) \cup Permutations(Runs) \cup Permutations(Keys)
            \cup Permutations(Messages) \cup Permutations(Checkpoints)
            \cup Permutations(Callers) \cup Permutations(Processes)
=============================================================================
