----------------------- MODULE MCPostgresTransactions -----------------------
(* Model values and symmetry for the PostgreSQL transactions. *)
EXTENDS PostgresTransactions, TLC

Symmetry == Permutations(Threads) \cup Permutations(Runs) \cup Permutations(Keys)
            \cup Permutations(Messages) \cup Permutations(Checkpoints)
            \cup Permutations(Sessions)
=============================================================================
