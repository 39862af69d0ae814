----------------------------- MODULE RedisFrames -----------------------------
(***************************************************************************)
(* The request frames of the Redis client (port/requests.rs, client/mod.rs,*)
(* client/ops/scripts.rs): fibers that wait for a bulk frame, commands     *)
(* that hold one, and the weighted request queue of core (core/queue.rs,   *)
(* core/handoff.rs) that the frames travel through to the transport.  A    *)
(* frame that comes back wakes the fibers that wait for one.               *)
(***************************************************************************)
EXTENDS Naturals, FiniteSets, Sequences

CONSTANTS
    Reservers,   \* fibers of try_reserve_bulk
    Sized,       \* fibers that encode a large command at once
    Frames,      \* frames in the bulk pool
    Weight,      \* the charge of each fiber's request
    Word,        \* how many values a usize has
    MaxDowns     \* how often the connection is lost

VARIABLES
    place,       \* where each fiber's work is
    free,        \* frames in the pool
    waits,       \* fibers registered with the dispatch notifier
    woken,       \* fibers notified and not polled since
    expired,     \* fibers whose deadline elapsed
    requests,    \* the request lane: fibers in order
    held,        \* the weight charged to the lane
    up,          \* a connection serves
    fatal,       \* a failure is recorded for it
    downs

linkVars == <<up, fatal, downs>>
laneVars == <<requests, held>>
frameVars == <<place, free, waits, woken, expired, laneVars, linkVars>>

Fibers == Reservers \cup Sized
Holds(f) == place[f] \in {"reserved", "framed", "queued", "out"}
Moves(f, to) == place' = [place EXCEPT ![f] = to]

(* Mutant: the frame is dropped quietly.                                   *)
WakeSendQuiet == woken
(* Activity::wake_send: every registered fiber is polled again.            *)
WakeSend == woken \cup waits

(* Port::discard: a frame goes back to the pool and the waiters are told.  *)
Discard(f, to) ==
    /\ Moves(f, to)
    /\ free' = free + 1
    /\ woken' = WakeSend
    /\ waits' = {}

-----------------------------------------------------------------------------
(* Waiting for a frame *)

(* Mutant: a fiber that waited does not try the pool again.                *)
RetriesNever(f) == FALSE
Retries(f) == place[f] = "waiting" /\ f \notin expired

(* The poll of try_reserve_bulk.  The pool is tried first by a new fiber;  *)
(* one that waited looks at its deadline before, and at a recorded failure *)
(* of a pool without connections after.  It may find no timer, or no place *)
(* in the notifier.                                                        *)
Reserve(f) ==
    /\ place[f] = "new" \/ (place[f] = "waiting" /\ f \in woken)
    /\ woken' = woken \ {f}
    /\ IF free > 0 /\ (place[f] = "new" \/ Retries(f))
       THEN Moves(f, "reserved") /\ free' = free - 1 /\ waits' = waits \ {f}
       ELSE /\ UNCHANGED free
            /\ IF f \in expired \/ (~up /\ fatal)
               THEN Moves(f, "ended") /\ waits' = waits \ {f}
               ELSE \/ Moves(f, "waiting") /\ waits' = waits \cup {f}
                    \/ Moves(f, "ended") /\ waits' = waits \ {f}
    /\ UNCHANGED <<expired, laneVars, linkVars>>

(* Deadline of a waiting reservation: its timer wakes the fiber.           *)
Expire(f) ==
    /\ place[f] = "waiting" /\ f \notin expired
    /\ expired' = expired \cup {f}
    /\ woken' = woken \cup {f}
    /\ UNCHANGED <<place, free, waits, laneVars, linkVars>>

(* Reserved::eval_prepared: the command is written into the reserved frame,*)
(* which goes back if it does not encode.                                  *)
EvalPrepared(f) ==
    /\ place[f] = "reserved"
    /\ \/ Moves(f, "framed") /\ UNCHANGED <<free, waits, woken>>
       \/ Discard(f, "ended")
    /\ UNCHANGED <<expired, laneVars, linkVars>>

(* Requests::sized and Port::encode_sized: a command too large for a       *)
(* direct frame takes a bulk frame at once or fails.                       *)
EncodeSized(f) ==
    /\ place[f] = "sized"
    /\ IF free = 0
       THEN Moves(f, "ended") /\ UNCHANGED <<free, waits, woken>>
       ELSE \/ Moves(f, "framed") /\ free' = free - 1 /\ UNCHANGED <<waits, woken>>
            \/ Moves(f, "ended") /\ woken' = WakeSend /\ waits' = {} /\ UNCHANGED free
    /\ UNCHANGED <<expired, laneVars, linkVars>>

-----------------------------------------------------------------------------
(* The request lane *)

(* Mutant: the charge is added without a check.                            *)
AdmitsWrapped(f) == TRUE
(* Weight::try_add: the lane's weight must not overflow.                   *)
Admits(f) == held + Weight[f] < Word

(* Lane::try_reserve, the reply, Front::publish: the charge is taken and   *)
(* the request queued, or a refused reply gives the charge back.           *)
Enqueue(f) ==
    /\ place[f] = "framed" /\ up
    /\ IF Admits(f)
       THEN \/ /\ held' = (held + Weight[f]) % Word
               /\ requests' = Append(requests, f)
               /\ Moves(f, "queued")
               /\ UNCHANGED <<free, waits, woken>>
            \/ Discard(f, "ended") /\ UNCHANGED laneVars
       ELSE Discard(f, "ended") /\ UNCHANGED laneVars
    /\ UNCHANGED <<expired, linkVars>>

(* Mutant: a claimed head that stays in the lane is refunded.              *)
RestoredRefund(f) == (held + Word - Weight[f]) % Word
(* Front::restore: the entry goes back with its charge.                    *)
Restored(f) == held
(* Front::release: the charge of one entry is returned.                    *)
Refunded(f) == (held + Word - Weight[f]) % Word

(* Lane::drain: the transport takes the head, is saturated and leaves it,  *)
(* or refuses it, which ends the connection.                               *)
Drain ==
    /\ up /\ requests # <<>>
    /\ LET f == Head(requests)
       IN  \/ /\ Moves(f, "out")
              /\ requests' = Tail(requests) /\ held' = Refunded(f)
              /\ UNCHANGED <<waits, woken, linkVars>>
           \/ /\ downs < MaxDowns
              /\ up' = FALSE /\ fatal' = TRUE /\ downs' = downs + 1
              /\ held' = Restored(f)
              /\ woken' = WakeSend /\ waits' = {}
              /\ UNCHANGED <<place, requests>>
    /\ UNCHANGED <<free, expired>>

(* Output::sent and Output::cancel: the transport is done with a frame.    *)
Sent(f) == place[f] = "out" /\ Discard(f, "ended") /\ UNCHANGED <<expired, laneVars, linkVars>>

(* Lane::clear through Schedule::clear_send, on a connection that ended.   *)
ClearSend ==
    /\ ~up /\ requests # <<>>
    /\ Discard(Head(requests), "ended")
    /\ requests' = Tail(requests) /\ held' = Refunded(Head(requests))
    /\ UNCHANGED <<expired, linkVars>>

(* Dropping a reservation or a command that was not admitted (Return for   *)
(* Redis, PinnedDrop for Core) returns its frame.                          *)
Cancel(f) ==
    /\ place[f] \in {"reserved", "framed"}
    /\ Discard(f, "ended")
    /\ UNCHANGED <<expired, laneVars, linkVars>>

(* A waiting fiber is dropped: its waiter leaves the notifier.             *)
Leave(f) ==
    /\ place[f] = "waiting"
    /\ Moves(f, "ended")
    /\ waits' = waits \ {f} /\ woken' = woken \ {f}
    /\ UNCHANGED <<free, expired, laneVars, linkVars>>

(* mark_ready and fail, as far as the frames see them.                     *)
LinkUp ==
    /\ ~up /\ requests = <<>>
    /\ up' = TRUE /\ fatal' = FALSE
    /\ woken' = WakeSend /\ waits' = {}
    /\ UNCHANGED <<place, free, expired, laneVars, downs>>

LinkDown ==
    /\ up /\ downs < MaxDowns
    /\ up' = FALSE /\ fatal' = TRUE /\ downs' = downs + 1
    /\ woken' = WakeSend /\ waits' = {}
    /\ UNCHANGED <<place, free, expired, laneVars>>

(* What the pool and the lanes are built with: weights are unsigned, and a *)
(* usize has values.                                                       *)
FramesConfigured ==
    /\ IsFiniteSet(Fibers) /\ Frames \in Nat /\ Word \in Nat \ {0}
    /\ Weight \in [Fibers -> Nat]

FramesInit ==
    /\ FramesConfigured
    /\ place = [f \in Fibers |-> IF f \in Reservers THEN "new" ELSE "sized"]
    /\ free = Frames
    /\ waits = {} /\ woken = {} /\ expired = {}
    /\ requests = <<>> /\ held = 0
    /\ up = FALSE /\ fatal = FALSE /\ downs = 0

FramesNext ==
    \/ \E f \in Fibers :
          \/ Reserve(f) \/ Expire(f) \/ EvalPrepared(f) \/ EncodeSized(f)
          \/ Enqueue(f) \/ Sent(f) \/ Cancel(f) \/ Leave(f)
    \/ Drain \/ ClearSend \/ LinkUp \/ LinkDown

(* A woken fiber is polled, an application uses what it reserved, the      *)
(* driver drains, sends, clears and reconnects.                            *)
FramesFairness ==
    /\ \A f \in Fibers :
          WF_frameVars(Reserve(f)) /\ WF_frameVars(EvalPrepared(f))
          /\ WF_frameVars(Enqueue(f)) /\ WF_frameVars(Sent(f))
    /\ WF_frameVars(Drain) /\ WF_frameVars(ClearSend) /\ WF_frameVars(LinkUp)

FramesSpec == FramesInit /\ [][FramesNext]_frameVars /\ FramesFairness

-----------------------------------------------------------------------------
(* Properties *)

(* The weights of the requests of a lane add up to its charge, in numbers  *)
(* that a usize has.                                                       *)
Adds(total, lane, charge) ==
    /\ total[0] = 0 /\ total[Len(lane)] = charge
    /\ \A i \in 1 .. Len(lane) : total[i] = total[i - 1] + Weight[lane[i]]
ChargeExact == \E total \in [0 .. Len(requests) -> 0 .. Word - 1] : Adds(total, requests, held)

(* No frame is lost or handed out twice, through encoding errors, refused  *)
(* replies, cleared lanes and dropped fibers, and the weight charged to a  *)
(* lane is that of its entries: a claimed head that stays keeps its charge *)
(* and nothing over- or underflows (core/queue.rs, Front).                 *)
FramesExact ==
    /\ free + Cardinality({f \in Fibers : Holds(f)}) = Frames
    /\ ChargeExact

(* Every reservation that waits gets a frame or a reason, without the help *)
(* of its deadline: each place that returns a frame wakes the waiters, and *)
(* a fiber that is woken too late for one registers again.                 *)
ReservationEnds ==
    \A f \in Reservers : place[f] = "waiting" ~> place[f] # "waiting"
=============================================================================
