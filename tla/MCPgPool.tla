------------------------------ MODULE MCPgPool ------------------------------
(* PgPool on small instances: commands and transactions are symmetric.     *)
EXTENDS PgPool, TLC

Symmetry == Permutations(Calls) \cup Permutations(Txs)
=============================================================================
