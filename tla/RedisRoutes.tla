----------------------------- MODULE RedisRoutes -----------------------------
(***************************************************************************)
(* The Redis connection scheduler: redis/src/port/schedule and its routes. *)
(*                                                                         *)
(* A fixed array of connection slots.  A slot is Vacant, or carries one    *)
(* connection generation through Initializing, Shared (open to pooled      *)
(* commands), Exclusive (leased) and Closing or Reconnecting, back to      *)
(* Vacant.  Every slot owns one request lane and one reply lane, and may   *)
(* be linked in two FIFOs threaded through the slots: the idle FIFO (0),   *)
(* from which leases are taken, and the deferred FIFO (1) of released      *)
(* connections that still have to drain.  Every operation of the           *)
(* scheduler is one action; the program is single threaded, so an          *)
(* operation is atomic and operations interleave arbitrarily.              *)
(*                                                                         *)
(* A FIFO link of slot s is a rank (0 when unlinked, else its place in     *)
(* the FIFO, 1 first) and the generation pushed with it, as the indexed    *)
(* FIFO of the library keeps one link and one value per slot.              *)
(***************************************************************************)
EXTENDS Integers, Sequences, FiniteSets

CONSTANTS
    Conns,      \* number of connection slots, config.connections()
    MaxGen,     \* bound: connection generations a slot goes through
    Inflight,   \* entries the request queue, and the reply arena, can hold
    Commands,   \* command identities; one is reused once out of both lanes
    Leases,     \* holders of exclusive connections
    Rogue       \* may the peer answer a request it has not been sent?

ASSUME RoutesAssumption ==
    /\ Conns \in Nat \ {0}
    /\ MaxGen \in Nat
    /\ Inflight \in Nat \ {0}
    /\ IsFiniteSet(Commands)
    /\ Rogue \in BOOLEAN

Slot == 0 .. Conns - 1
Pool == [pool |-> TRUE]                \* owner of a command sent to the pool
NoToken == [slot |-> -1, gen |-> 0]
Token == [slot : Slot, gen : 0 .. MaxGen]

Phases == {"Vacant", "Initializing", "Shared", "Exclusive", "Closing",
           "Reconnecting"}
NoCause == "None"
Causes == {"Remote", "Truncated", "RequestTimeout", "Other"}

VARIABLES
    phase,      \* [Slot -> Phases]: Conn::phase
    gen,        \* [Slot -> 0..MaxGen]: generation of the slot's connection id
    cause,      \* [Slot -> Causes]: Closing::failure
    idle,       \* [Slot -> 0..Conns]: rank in FIFO 0
    idleGen,    \* [Slot -> 0..MaxGen]: generation linked there
    defer,      \* [Slot -> 0..Conns]: rank in FIFO 1
    deferGen,   \* [Slot -> 0..MaxGen]
    active,     \* Routes::active
    next,       \* Routes::next, the round-robin cursor
    queue,      \* [Slot -> Seq(Commands)]: request lanes
    replies,    \* [Slot -> Seq(Commands)]: reply lanes, unanswered commands
    owner,      \* [Commands -> Leases \cup {Pool}]: who published a command
    holds,      \* [Leases -> Token or NoToken]: the position in a Lease
    fatal       \* slots with a failure recorded in Activity::failures

fifos == <<idle, idleGen, defer, deferGen>>
lanes == <<queue, replies, owner>>
vars == <<phase, gen, cause, fifos, active, next, lanes, holds, fatal>>

-----------------------------------------------------------------------------
(* Helpers *)

Elements(q) == {q[i] : i \in 1 .. Len(q)}
InQueue(c) == \E s \in Slot : c \in Elements(queue[s])
InReplies(c) == \E s \in Slot : c \in Elements(replies[s])

Id(s) == [slot |-> s, gen |-> gen[s]]

Live == {"Shared", "Exclusive"}
IsActive == active # 0

(* Both lanes are empty: the condition under which publish links a route.  *)
(* Mutants: one lane is not looked at.                                     *)
QuietRequests(s) == queue[s] = <<>>
QuietReplies(s) == replies[s] = <<>>
Quiet(s) == replies[s] = <<>> /\ queue[s] = <<>>

(* Ranks of the linked slots of a FIFO whose order is given by key.        *)
Dense(key) ==
    [s \in Slot |->
        IF key[s] = 0 THEN 0
        ELSE Cardinality({t \in Slot : key[t] > 0 /\ key[t] <= key[s]})]

PushBack(rank, s) == Dense([rank EXCEPT ![s] = Conns + 1])
Remove(rank, s) == Dense([rank EXCEPT ![s] = 0])

(* slot.rs: schedule pushes the link unless it already carries this id.    *)
Linked(rank, linkGen, s) == rank[s] > 0 /\ linkGen[s] = gen[s]

ScheduleIdle(s) ==
    /\ idle' = IF Linked(idle, idleGen, s) THEN idle ELSE PushBack(idle, s)
    /\ idleGen' = [idleGen EXCEPT ![s] = gen[s]]

ScheduleDeferred(s) ==
    /\ defer' = IF Linked(defer, deferGen, s) THEN defer ELSE PushBack(defer, s)
    /\ deferGen' = [deferGen EXCEPT ![s] = gen[s]]

(* slot.rs: unlink clears the link only if it carries this id.             *)
(* Mutant: the link stays.                                                 *)
UnlinkNothing(s) == UNCHANGED <<idle, idleGen>>

UnlinkIdle(s) ==
    /\ idle' = IF Linked(idle, idleGen, s) THEN Remove(idle, s) ELSE idle
    /\ idleGen' = IF Linked(idle, idleGen, s)
                  THEN [idleGen EXCEPT ![s] = 0] ELSE idleGen

UnlinkDeferred(s) ==
    /\ defer' = IF Linked(defer, deferGen, s) THEN Remove(defer, s) ELSE defer
    /\ deferGen' = IF Linked(defer, deferGen, s)
                   THEN [deferGen EXCEPT ![s] = 0] ELSE deferGen

(* withdraw: a failing connection leaves both FIFOs.                       *)
(* Mutant: the deferred FIFO is forgotten.                                 *)
WithdrawIdle(s) == UnlinkIdle(s) /\ UNCHANGED <<defer, deferGen>>
Withdraw(s) == UnlinkIdle(s) /\ UnlinkDeferred(s)

-----------------------------------------------------------------------------
(* Connection lifecycle *)

Init ==
    /\ phase = [s \in Slot |-> "Vacant"]
    /\ gen = [s \in Slot |-> 0]
    /\ cause = [s \in Slot |-> NoCause]
    /\ idle = [s \in Slot |-> 0] /\ idleGen = [s \in Slot |-> 0]
    /\ defer = [s \in Slot |-> 0] /\ deferGen = [s \in Slot |-> 0]
    /\ active = 0
    /\ next = 0
    /\ queue = [s \in Slot |-> <<>>]
    /\ replies = [s \in Slot |-> <<>>]
    /\ owner = [c \in Commands |-> Pool]
    /\ holds = [l \in Leases |-> NoToken]
    /\ fatal = {}

(* Schedule::activate: the driver opened a connection on a vacant slot.    *)
Activate(s) ==
    /\ phase[s] = "Vacant"
    /\ gen[s] < MaxGen
    /\ phase' = [phase EXCEPT ![s] = "Initializing"]
    /\ gen' = [gen EXCEPT ![s] = @ + 1]
    /\ UNCHANGED <<cause, fifos, active, next, lanes, holds, fatal>>

(* Activity::clear_fatal.  Mutant: the failure of the last generation      *)
(* stays.                                                                  *)
KeepFatal(s) == UNCHANGED fatal
ClearFatal(s) == fatal' = fatal \ {s}

(* Schedule::mark_ready: the handshake of the connection is complete.      *)
MarkReady(s) ==
    /\ phase[s] = "Initializing"
    /\ phase' = [phase EXCEPT ![s] = "Shared"]
    /\ active' = active + 1
    /\ IF Quiet(s) THEN ScheduleIdle(s) ELSE UNCHANGED <<idle, idleGen>>
    /\ ClearFatal(s)
    /\ UNCHANGED <<gen, cause, defer, deferGen, next, lanes, holds>>

(* Leaving a served phase is what Routes::active counts down.              *)
(* Mutant: an initializing connection is counted too.                      *)
ServedBound(s) == phase[s] \in Live \cup {"Initializing"}
Served(s) == phase[s] \in Live

(* Schedule::fail over Routes::fail.  A remote close is refined by what    *)
(* the end of input revealed; any other second failure is ignored.         *)
Close(s, why) ==
    /\ \/ phase[s] \in Live \cup {"Initializing"}
       \/ phase[s] = "Closing" /\ cause[s] = "Remote" /\ why = "Truncated"
    /\ phase' = [phase EXCEPT ![s] = "Closing"]
    /\ cause' = [cause EXCEPT ![s] = why]
    /\ active' = IF Served(s) THEN active - 1 ELSE active
    /\ Withdraw(s)
    /\ UNCHANGED <<gen, next, lanes, holds>>

(* Port::fail: the session saw an error, which is kept for the clients.    *)
Fail(s, why) ==
    /\ why \in {"Truncated", "Other"}
    /\ Close(s, why)
    /\ fatal' = fatal \cup {s}

(* Schedule::quarantine: the driver closes the connection.                 *)
Quarantine(s, why) ==
    /\ why \in {"Remote", "Other"}
    /\ Close(s, why)
    /\ UNCHANGED fatal

(* Schedule::reconnect: a command timed out while its reply was still due, *)
(* so the rest of the pipeline on this connection is lost.                 *)
Reconnect(s) ==
    /\ phase[s] \in Live
    /\ phase' = [phase EXCEPT ![s] = "Reconnecting"]
    /\ cause' = [cause EXCEPT ![s] = "RequestTimeout"]
    /\ active' = active - 1
    /\ Withdraw(s)
    /\ UNCHANGED <<gen, next, lanes, holds, fatal>>

(* Routes::retire: the driver proves the closing connection drained.       *)
Retire(s) ==
    /\ phase[s] \in {"Closing", "Reconnecting"}
    /\ Quiet(s)
    /\ phase' = [phase EXCEPT ![s] = "Vacant"]
    /\ cause' = [cause EXCEPT ![s] = NoCause]
    /\ UNCHANGED <<gen, fifos, active, next, lanes, holds, fatal>>

-----------------------------------------------------------------------------
(* Commands *)

(* handoff::Lane::try_publish: both sides are reserved before either is    *)
(* changed, so a refused command leaves no trace in the lanes.             *)
Registrable == Cardinality({c \in Commands : InReplies(c)}) < Inflight
Queueable == Cardinality({c \in Commands : InQueue(c)}) < Inflight

Fresh(c) == ~InQueue(c) /\ ~InReplies(c)

(* Mutant: the request overtakes the ones already queued.                  *)
PublishFront(c, s, who) ==
    /\ queue' = [queue EXCEPT ![s] = <<c>> \o @]
    /\ replies' = [replies EXCEPT ![s] = Append(@, c)]
    /\ owner' = [owner EXCEPT ![c] = who]

Publish(c, s, who) ==
    /\ queue' = [queue EXCEPT ![s] = Append(@, c)]
    /\ replies' = [replies EXCEPT ![s] = Append(@, c)]
    /\ owner' = [owner EXCEPT ![c] = who]

(* Routes::next.                                                           *)
After(s) == IF s + 1 = Conns THEN 0 ELSE s + 1

Distance(s) == IF s >= next THEN s - next ELSE s - next + Conns
Skippable(t) == phase[t] # "Shared" \/ ~Quiet(t)

(* Schedule::try_pool goes once around the slots from the cursor and takes *)
(* the first shared one that has room.  A lane with commands in it may be  *)
(* at its share of the arenas, which are fair between lanes; an empty lane *)
(* is not refused while the arenas have room.                              *)
TryPool(c) ==
    /\ Fresh(c) /\ Registrable /\ Queueable
    /\ \E s \in Slot :
        /\ phase[s] = "Shared"
        /\ \A t \in Slot : Distance(t) < Distance(s) => Skippable(t)
        /\ Publish(c, s, Pool)
        /\ UnlinkIdle(s)
        /\ next' = After(s)
    /\ UNCHANGED <<phase, gen, cause, defer, deferGen, active, holds, fatal>>

(* Schedule::try_dispatch_lease: only the exact leased generation serves.  *)
Leased(l) == \E s \in Slot : phase[s] = "Exclusive" /\ holds[l] = Id(s)

DispatchLease(c, l) ==
    /\ Fresh(c)
    /\ Leased(l) /\ Registrable /\ Queueable
    /\ Publish(c, holds[l].slot, l)
    /\ UNCHANGED <<phase, gen, cause, fifos, active, next, holds, fatal>>

(* Schedule::drain: request heads move to the link until it saturates.  A  *)
(* reconnecting route asks for its close instead and keeps its requests.   *)
Drain(s, k) ==
    /\ phase[s] \notin {"Vacant", "Reconnecting"}
    /\ k \in 1 .. Len(queue[s])
    /\ queue' = [queue EXCEPT ![s] = SubSeq(@, k + 1, Len(@))]
    /\ UNCHANGED <<phase, gen, cause, fifos, active, next, replies, owner,
                   holds, fatal>>

(* Mutant: the depth is read before the reply is completed.                *)
AnsweredEarly(s) == Quiet(s)
Answered(s) == Tail(replies[s]) = <<>> /\ queue[s] = <<>>

(* Schedule::try_reply: a response completes the oldest unanswered command *)
(* and, when it was the last one of a shared route, publishes the route.   *)
TryReply(s) ==
    /\ phase[s] # "Vacant"
    /\ replies[s] # <<>>
    /\ Rogue \/ Head(replies[s]) \notin Elements(queue[s])
    /\ replies' = [replies EXCEPT ![s] = Tail(@)]
    /\ IF phase[s] = "Shared" /\ Answered(s)
       THEN ScheduleIdle(s)
       ELSE UNCHANGED <<idle, idleGen>>
    /\ UNCHANGED <<phase, gen, cause, defer, deferGen, active, next, queue,
                   owner, holds, fatal>>

(* Mutant: a route given up for a timeout is never cleared.                *)
ClearsClosing(s) == phase[s] = "Closing"
Clears(s) == phase[s] \in {"Closing", "Reconnecting"}

(* Schedule::clear_send and clear_recv, run by the driver on a closing     *)
(* route until both lanes are empty, each within its work budget.          *)
ClearSend(s, k) ==
    /\ Clears(s)
    /\ k \in 1 .. Len(queue[s])
    /\ queue' = [queue EXCEPT ![s] = SubSeq(@, k + 1, Len(@))]
    /\ UNCHANGED <<phase, gen, cause, fifos, active, next, replies, owner,
                   holds, fatal>>

ClearRecv(s, k) ==
    /\ Clears(s)
    /\ k \in 1 .. Len(replies[s])
    /\ replies' = [replies EXCEPT ![s] = SubSeq(@, k + 1, Len(@))]
    /\ UNCHANGED <<phase, gen, cause, fifos, active, next, queue, owner,
                   holds, fatal>>

-----------------------------------------------------------------------------
(* Leases *)

(* refresh goes once around the deferred FIFO: a route that is no longer   *)
(* shared is dropped, a quiet one moves to the idle FIFO, the others stay. *)
Ripe(s) == phase[s] = "Shared" /\ deferGen[s] = gen[s]
RefreshedDefer ==
    Dense([s \in Slot |->
        IF Ripe(s) /\ ~Quiet(s) THEN defer[s] ELSE 0])
Moved(s) == defer[s] > 0 /\ Ripe(s) /\ Quiet(s)
RefreshedIdle ==
    Dense([s \in Slot |->
        IF Moved(s) /\ ~Linked(idle, idleGen, s) THEN Conns + defer[s]
        ELSE idle[s]])
RefreshedIdleGen ==
    [s \in Slot |-> IF Moved(s) THEN gen[s] ELSE idleGen[s]]
RefreshedDeferGen ==
    [s \in Slot |-> IF RefreshedDefer[s] > 0 THEN deferGen[s] ELSE 0]

(* A route popped from the idle FIFO is leased only if it is shared and of *)
(* the popped generation (Conn::acquire); a stale pop is skipped.          *)
Acquirable(s) ==
    /\ RefreshedIdle[s] > 0
    /\ phase[s] = "Shared" /\ RefreshedIdleGen[s] = gen[s]

(* Schedule::try_lease, the search: refresh, then pop up to the first      *)
(* acquirable route.                                                       *)
Popped(s) == {t \in Slot : RefreshedIdle[t] > 0
                           /\ RefreshedIdle[t] <= RefreshedIdle[s]}

TryLease(l) ==
    /\ holds[l] = NoToken
    /\ \E s \in Slot :
        /\ Acquirable(s)
        /\ \A t \in Popped(s) \ {s} : ~Acquirable(t)
        /\ idle' = Dense([t \in Slot |->
                            IF t \in Popped(s) THEN 0 ELSE RefreshedIdle[t]])
        /\ idleGen' = [t \in Slot |->
                            IF t \in Popped(s) THEN 0 ELSE RefreshedIdleGen[t]]
        /\ phase' = [phase EXCEPT ![s] = "Exclusive"]
        /\ holds' = [holds EXCEPT ![l] = Id(s)]
    /\ defer' = RefreshedDefer
    /\ deferGen' = RefreshedDeferGen
    /\ UNCHANGED <<gen, cause, active, next, lanes, fatal>>

(* The same search finding nothing: refresh still happened, and up to      *)
(* Routes::len stale entries were popped.                                  *)
TryLeaseEmpty(l) ==
    /\ holds[l] = NoToken
    /\ \A s \in Slot : ~Acquirable(s)
    /\ idle' = [s \in Slot |-> 0]
    /\ idleGen' = [s \in Slot |-> 0]
    /\ defer' = RefreshedDefer
    /\ deferGen' = RefreshedDeferGen
    /\ UNCHANGED <<phase, gen, cause, active, next, lanes, holds, fatal>>

(* Conn::release.  Mutants: any exclusive generation of the slot is        *)
(* released; any phase of the generation is.                               *)
ReleasesAny(l) == phase[holds[l].slot] = "Exclusive"
ReleasesGen(l) == holds[l].gen = gen[holds[l].slot]
Releases(l) ==
    /\ phase[holds[l].slot] = "Exclusive"
    /\ holds[l].gen = gen[holds[l].slot]

(* Drop of a Lease: Schedule::release.  A lease that outlived its          *)
(* generation releases nothing.                                            *)
Release(l) ==
    /\ holds[l] # NoToken
    /\ holds' = [holds EXCEPT ![l] = NoToken]
    /\ LET s == holds[l].slot
       IN IF Releases(l)
          THEN /\ phase' = [phase EXCEPT ![s] = "Shared"]
               /\ ScheduleDeferred(s)
          ELSE UNCHANGED <<phase, defer, deferGen>>
    /\ UNCHANGED <<gen, cause, idle, idleGen, active, next, lanes, fatal>>

-----------------------------------------------------------------------------
Next ==
    \/ \E s \in Slot :
        \/ Activate(s) \/ MarkReady(s) \/ Reconnect(s) \/ Retire(s)
        \/ TryReply(s)
        \/ \E why \in Causes : Fail(s, why) \/ Quarantine(s, why)
        \/ \E k \in 1 .. Len(queue[s]) : Drain(s, k) \/ ClearSend(s, k)
        \/ \E k \in 1 .. Len(replies[s]) : ClearRecv(s, k)
    \/ \E c \in Commands : TryPool(c) \/ \E l \in Leases : DispatchLease(c, l)
    \/ \E l \in Leases : TryLease(l) \/ TryLeaseEmpty(l) \/ Release(l)

Spec == Init /\ [][Next]_vars

-----------------------------------------------------------------------------
(* Properties *)

(* Every variable of the scheduler keeps its type.                         *)
TypeOK ==
    /\ phase \in [Slot -> Phases]
    /\ gen \in [Slot -> 0 .. MaxGen]
    /\ cause \in [Slot -> Causes \cup {NoCause}]
    /\ idle \in [Slot -> 0 .. Conns] /\ idleGen \in [Slot -> 0 .. MaxGen]
    /\ defer \in [Slot -> 0 .. Conns] /\ deferGen \in [Slot -> 0 .. MaxGen]
    /\ active \in Int
    /\ next \in Slot
    /\ queue \in [Slot -> Seq(Commands)]
    /\ replies \in [Slot -> Seq(Commands)]
    /\ owner \in [Commands -> Leases \cup {Pool}]
    /\ holds \in [Leases -> Token \cup {NoToken}]
    /\ fatal \subseteq Slot

(* Routes::active, kept by wrapping additions and subtractions on five     *)
(* different transitions, is exactly the number of shared and exclusive    *)
(* connections, so it never wraps and is_active means what it says.        *)
ActiveCount == active = Cardinality({s \in Slot : phase[s] \in Live})

(* A route in the idle FIFO is shared, of the linked generation, and has   *)
(* neither an unanswered nor an unsent command: acquire needs no check of  *)
(* the lanes because publication, pooled admission and withdrawal keep     *)
(* this true.                                                              *)
IdleSound ==
    \A s \in Slot : idle[s] > 0 =>
        phase[s] = "Shared" /\ idleGen[s] = gen[s] /\ Quiet(s)

(* A route in the deferred FIFO is shared and of the linked generation: no *)
(* lease, failure or retirement leaves a stale entry behind.               *)
DeferSound ==
    \A s \in Slot : defer[s] > 0 =>
        phase[s] = "Shared" /\ deferGen[s] = gen[s]

(* The FIFOs only ever hold what a lease may be served from.               *)
FifoSound == IdleSound /\ DeferSound

(* A quiet shared route can be leased: it is linked in one of the FIFOs    *)
(* the search of try_lease visits.  Without it a healthy connection would  *)
(* be lost to leases forever.                                              *)
NoIdleLeak ==
    ~Rogue => \A s \in Slot :
        phase[s] = "Shared" /\ Quiet(s) => idle[s] > 0 \/ defer[s] > 0

(* No connection is lost from the books, which stay in their ranges: the   *)
(* counter of serving ones is exact after any number of failures of one    *)
(* connection, and a quiet one can always be leased.                       *)
Accounted == TypeOK /\ ActiveCount /\ NoIdleLeak

(* An exclusive connection generation has exactly one lease, so two        *)
(* holders never share a connection.                                       *)
LeaseUnique ==
    /\ \A s \in Slot : phase[s] = "Exclusive" => \E l \in Leases : holds[l] = Id(s)
    /\ \A l, m \in Leases : holds[l] = holds[m] /\ holds[l] # NoToken => l = m

(* Everything in the lanes of a leased connection was published through    *)
(* that lease: commands of the pool, or of an earlier lease, never overlap *)
(* the connection-local observations of its holder.                        *)
LeaseIsolation ==
    \A s \in Slot, l \in Leases :
        phase[s] = "Exclusive" /\ holds[l] = Id(s) =>
            \A c \in Elements(replies[s]) \cup Elements(queue[s]) : owner[c] = l

(* A lease is exclusive: one holder per connection generation, and nothing *)
(* of anybody else on that connection, however stale leases are dropped    *)
(* and connections reconnected in between.                                 *)
LeaseSafe == LeaseUnique /\ LeaseIsolation

(* Requests leave in the order replies are expected: the unsent requests   *)
(* of a lane are a suffix of its unanswered commands, so a peer that       *)
(* answers in order is matched to the right command.                       *)
SuffixOrder ==
    ~Rogue => \A s \in Slot : phase[s] \in Live =>
        /\ Len(queue[s]) <= Len(replies[s])
        /\ \A i \in 1 .. Len(queue[s]) :
              queue[s][i] = replies[s][Len(replies[s]) - Len(queue[s]) + i]

(* A recorded failure belongs to a connection that does not serve: the     *)
(* next generation of its slot clears it, so the error clients are shown   *)
(* while nothing is active is never the one of a healthy connection.       *)
FatalFresh == \A s \in fatal : phase[s] \notin Live

(* A connection generation that was withdrawn never serves again: from     *)
(* Closing or Reconnecting the only way on is retirement.                  *)
NoResurrection ==
    [][\A s \in Slot :
        phase[s] \in {"Closing", "Reconnecting"} /\ phase'[s] # phase[s]
            => phase'[s] = "Vacant" /\ Quiet(s)]_vars
=============================================================================
