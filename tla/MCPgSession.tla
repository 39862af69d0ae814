----------------------------- MODULE MCPgSession -----------------------------
(* The PostgreSQL session around the pool: the key derivations connections *)
(* share, the startup of one connection, or the fibers of transactions and *)
(* their wait tables.  A behaviour is about one of the three.              *)
EXTENDS PgStartup, PgKdf, PgTx

VARIABLES part       \* "kdf", "startup" or "tx"

MCQueries == <<"Rows", "None">>

SessionInit ==
    /\ KdfInit /\ StartInit /\ TxInit
    /\ part \in {"kdf", "startup", "tx"}

KdfStep == part = "kdf" /\ KdfNext /\ UNCHANGED <<part, startVars, txVars>>
StartupStep == part = "startup" /\ StartNext /\ UNCHANGED <<part, kdfVars, txVars>>
TxStep == part = "tx" /\ TxNext /\ UNCHANGED <<part, kdfVars, startVars>>

SessionNext == KdfStep \/ StartupStep \/ TxStep

SessionSpec == SessionInit /\ [][SessionNext]_<<part, kdfVars, startVars, txVars>>

-----------------------------------------------------------------------------
(* Properties *)

(* If woken fibers are polled, every derivation ends; and if the server    *)
(* answers and turns end, a transaction's fiber is never left waiting.     *)
WaitsEnd ==
    /\ KdfFairness => DerivationEnds
    /\ TxFairness => TxEnds
=============================================================================
