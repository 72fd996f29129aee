------------------------ MODULE MCDetachedRunManager ------------------------
(* Model values and symmetry for the run manager. *)
EXTENDS DetachedRunManager

Symmetry == Permutations(Runs) \cup Permutations(Submitters) \cup Permutations(Cancellers)
            \cup Permutations(Attachers)
=============================================================================
