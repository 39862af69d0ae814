------------------------------ MODULE MCPgGroup ------------------------------
(* Two groups that contend for collectors and for the response arena, one  *)
(* group with a plain request on a connection that is opened twice, or one *)
(* group that the server sends more diagnostics than its buffer has        *)
(* records: a behaviour is about one of the three.                         *)
EXTENDS Naturals

CONSTANTS g1, g2, o1

VARIABLES
    grFiber, grBuffer, grStore, grReply, grResult, grLane, grSession, grSlot,
    grServer, grTruth,
    part       \* "pair", "lone" or "full"

groupVars ==
    <<grFiber, grBuffer, grStore, grReply, grResult, grLane, grSession, grSlot,
      grServer, grTruth>>

Pair == INSTANCE PgGroup WITH
            GroupIds <- {g1, g2}, Others <- {}, GroupSize <- 2,
            GroupSlots <- 2, GroupRecords <- 1, GroupBytes <- 1,
            ArenaValues <- 1, ArenaBytes <- 1,
            ErrorSizes <- {1}, MaxErrors <- 1, GroupLives <- 1

Lone == INSTANCE PgGroup WITH
            GroupIds <- {g1}, Others <- {o1}, GroupSize <- 2,
            GroupSlots <- 1, GroupRecords <- 2, GroupBytes <- 3,
            ArenaValues <- 2, ArenaBytes <- 3,
            ErrorSizes <- {1, 2}, MaxErrors <- 2, GroupLives <- 2

Full == INSTANCE PgGroup WITH
            GroupIds <- {g1}, Others <- {}, GroupSize <- 2,
            GroupSlots <- 1, GroupRecords <- 2, GroupBytes <- 4,
            ArenaValues <- 2, ArenaBytes <- 4,
            ErrorSizes <- {1, 2}, MaxErrors <- 3, GroupLives <- 1

GroupsInit ==
    \/ part = "pair" /\ Pair!GroupInit
    \/ part = "lone" /\ Lone!GroupInit
    \/ part = "full" /\ Full!GroupInit

PairStep == part = "pair" /\ Pair!GroupNext /\ UNCHANGED part
LoneStep == part = "lone" /\ Lone!GroupNext /\ UNCHANGED part
FullStep == part = "full" /\ Full!GroupNext /\ UNCHANGED part

GroupsNext == PairStep \/ LoneStep \/ FullStep

GroupsSpec == GroupsInit /\ [][GroupsNext]_<<part, groupVars>>

-----------------------------------------------------------------------------
(* Properties *)

(* A group reports of its commands and of its diagnostics what the server  *)
(* did, and if the server answers, turns go on and woken fibers are        *)
(* polled, a group that was admitted ends without a deadline.              *)
GroupSound ==
    /\ [](part = "pair" => Pair!OutcomesExact /\ Pair!LedgerExact)
    /\ [](part = "lone" => Lone!OutcomesExact /\ Lone!LedgerExact)
    /\ [](part = "full" => Full!OutcomesExact /\ Full!LedgerExact)
    /\ part = "lone" /\ Lone!GroupFairness => Lone!GroupEnds
=============================================================================
