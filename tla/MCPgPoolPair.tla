---------------------------- MODULE MCPgPoolPair ----------------------------
(* A server that keeps to the protocol: one connection with pipelines and  *)
(* transactions, or two connections that share the ready index, with one   *)
(* command at a time.  A behaviour is about one of the two; the second has *)
(* variables of its own.                                                   *)
EXTENDS MCPgPool

CONSTANTS c3

VARIABLES
    twoPhase, twoGen, twoAccess, twoSeq, twoReceiving, twoSync, twoPending,
    twoBatch, twoIndex, twoLive, twoBlockers, twoSession, twoProgress,
    twoSbatch, twoSettling, twoLane, twoQueue, twoWire, twoSkip, twoTxn,
    twoStage, twoTarget, twoReply,
    part       \* "one" or "two"

twoVars ==
    <<twoPhase, twoGen, twoAccess, twoSeq, twoReceiving, twoSync, twoPending,
      twoBatch, twoIndex, twoLive, twoBlockers, twoSession, twoProgress,
      twoSbatch, twoSettling, twoLane, twoQueue, twoWire, twoSkip, twoTxn,
      twoStage, twoTarget, twoReply>>

Two == INSTANCE PgPool WITH
    Conns <- 2, Wrap <- 2, Inflight <- 1, Queued <- 1, Calls <- {c3}, Txs <- {},
    phase <- twoPhase, gen <- twoGen, access <- twoAccess, seq <- twoSeq,
    receiving <- twoReceiving, sync <- twoSync, pending <- twoPending,
    batch <- twoBatch, index <- twoIndex, live <- twoLive,
    blockers <- twoBlockers, session <- twoSession, progress <- twoProgress,
    sbatch <- twoSbatch, settling <- twoSettling, lane <- twoLane,
    queue <- twoQueue, wire <- twoWire, skip <- twoSkip, txn <- twoTxn,
    stage <- twoStage, target <- twoTarget, reply <- twoReply

PairInit == Init /\ Two!Init /\ part \in {"one", "two"}

OneStep == part = "one" /\ Next /\ UNCHANGED <<part, twoVars>>
TwoStep == part = "two" /\ Two!Next /\ UNCHANGED <<part, vars>>

PairSpec == PairInit /\ [][OneStep \/ TwoStep]_<<part, vars, twoVars>>

-----------------------------------------------------------------------------
(* Properties *)

(* Two connections in one index: it lists those that may be picked, at     *)
(* their load, and the cached minimum is the least of their ranks.         *)
PairExact == part = "two" => Two!IndexExact /\ Two!CountersExact /\ Two!MinimumExact
=============================================================================
