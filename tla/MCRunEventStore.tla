-------------------------- MODULE MCRunEventStore --------------------------
(* Model values and symmetry for the event transport. *)
EXTENDS RunEventStore

Symmetry == Permutations(Runs \ Replayed) \cup Permutations(Replayed)
=============================================================================
