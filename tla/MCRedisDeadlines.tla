-------------------------- MODULE MCRedisDeadlines --------------------------
(* Waiting in the Redis client with a peer that may stay silent, or with a *)
(* pool of bulk frames that is used up: a behaviour is about one of them.  *)
EXTENDS MCRedisClient

CONSTANTS r1, r2, r3, z1

VARIABLES
    place, free, registered, notified, elapsed, requests, held, up, down, downs,
    part       \* "fibers" or "frames"

frameVars ==
    <<place, free, registered, notified, elapsed, requests, held, up, down, downs>>

MCWeight == [f \in {r1, r2, r3, z1} |-> IF f = r1 THEN 2 ELSE 1]

Bulk == INSTANCE RedisFrames WITH
            Reservers <- {r1, r2, r3}, Sized <- {z1}, Frames <- 2, Weight <- MCWeight,
            Word <- 3, MaxDowns <- 1, waits <- registered, woken <- notified,
            expired <- elapsed, fatal <- down

DeadlinesInit == ClientInit /\ Bulk!FramesInit /\ part \in {"fibers", "frames"}

FibersStep == part = "fibers" /\ ClientNext /\ UNCHANGED <<part, frameVars>>
FramesStep == part = "frames" /\ Bulk!FramesNext /\ UNCHANGED <<part, cvars>>

DeadlinesNext == FibersStep \/ FramesStep

DeadlinesSpec == DeadlinesInit /\ [][DeadlinesNext]_<<part, cvars, frameVars>>

-----------------------------------------------------------------------------
(* Properties *)

(* With a silent peer, deadlines alone end every fiber, and the            *)
(* connections they gave up are vacant again.                              *)
ClientEnds == DeadlineFairness => FibersEnd /\ ClosingEnds

(* Under the fairness of the driver and of the applications, every         *)
(* reservation that waits for a frame gets one or a reason.                *)
ReservationEnds == Bulk!FramesFairness => Bulk!ReservationEnds

(* Nothing in the client waits for ever: not its fibers for a peer that is *)
(* silent, and not a reservation for frames others hold.                   *)
WaitingEnds == ClientEnds /\ ReservationEnds
=============================================================================
