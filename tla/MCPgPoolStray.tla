---------------------------- MODULE MCPgPoolStray ----------------------------
(* Commands that open or end transactions by their text, or one connection *)
(* to a server that sends anything.  A behaviour is about one of the two;  *)
(* the second has variables of its own.                                    *)
EXTENDS MCPgPool

CONSTANTS a1, a2, b1

VARIABLES
    anyPhase, anyGen, anyAccess, anySeq, anyReceiving, anySync, anyPending,
    anyBatch, anyIndex, anyLive, anyBlockers, anySession, anyProgress,
    anySbatch, anySettling, anyLane, anyQueue, anyWire, anySkip, anyTxn,
    anyStage, anyTarget, anyReply,
    part       \* "stray" or "any"

anyVars ==
    <<anyPhase, anyGen, anyAccess, anySeq, anyReceiving, anySync, anyPending,
      anyBatch, anyIndex, anyLive, anyBlockers, anySession, anyProgress,
      anySbatch, anySettling, anyLane, anyQueue, anyWire, anySkip, anyTxn,
      anyStage, anyTarget, anyReply>>

Unasked == INSTANCE PgPool WITH
    Rogue <- TRUE, Stray <- FALSE, MaxGen <- 1, Buckets <- 3, Inflight <- 3, Queued <- 2,
    Calls <- {a1, a2}, Txs <- {b1},
    phase <- anyPhase, gen <- anyGen, access <- anyAccess, seq <- anySeq,
    receiving <- anyReceiving, sync <- anySync, pending <- anyPending,
    batch <- anyBatch, index <- anyIndex, live <- anyLive,
    blockers <- anyBlockers, session <- anySession, progress <- anyProgress,
    sbatch <- anySbatch, settling <- anySettling, lane <- anyLane,
    queue <- anyQueue, wire <- anyWire, skip <- anySkip, txn <- anyTxn,
    stage <- anyStage, target <- anyTarget, reply <- anyReply

StrayInit == Init /\ Unasked!Init /\ part \in {"stray", "any"}

StrayStep == part = "stray" /\ Next /\ UNCHANGED <<part, anyVars>>
AnyStep == part = "any" /\ Unasked!Next /\ UNCHANGED <<part, vars>>

StraySpec == StrayInit /\ [][StrayStep \/ AnyStep]_<<part, vars, anyVars>>

StraySymmetry == Symmetry \cup Permutations({a1, a2})

-----------------------------------------------------------------------------
(* Properties *)

(* What the unchecked arithmetic of the pool rests on (pool/slot, pool/    *)
(* index) also holds against a server that sends anything: listing, ranks, *)
(* counters and the bound on Syncs.                                        *)
UnaskedExact == part = "any" => Unasked!PoolExact
=============================================================================
