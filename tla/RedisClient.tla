----------------------------- MODULE RedisClient -----------------------------
(***************************************************************************)
(* The fibers of the Redis client over the scheduler of RedisRoutes:       *)
(* command fibers (client/dispatch/command.rs), lease fibers               *)
(* (client/conn/acquire.rs) and wait_active (client/mod.rs), with the two  *)
(* notifiers of port::Activity that wake them, request deadlines, and      *)
(* cancellation by drop.                                                   *)
(*                                                                         *)
(* A fiber runs only when it has been woken: by its own spawn, by a        *)
(* notifier it is registered with, by its reply, or by its deadline.  A    *)
(* wake the code forgets is a fiber that sleeps for good, so every action  *)
(* of the scheduler is joined here with exactly the wakes its code issues. *)
(* A notification wakes every registered fiber, which registers again if   *)
(* it is still blocked.                                                    *)
(***************************************************************************)
EXTENDS RedisRoutes

CONSTANTS
    Target,     \* [Commands -> Leases \cup {Pool}]: where a command is sent
    Watchers,   \* fibers in wait_active
    WaitCap,    \* config.waiters(): fibers a notifier can register
    MaxFaults,  \* bound: connection failures and exhausted attempts
    MaxDrops,   \* bound: command fibers dropped before they finish
    Expiry      \* may request deadlines elapse?

ASSUME ClientAssumption ==
    /\ Target \in [Commands -> Leases \cup {Pool}]
    /\ WaitCap \in Nat /\ MaxFaults \in Nat /\ MaxDrops \in Nat
    /\ Expiry \in BOOLEAN

(* A fiber is of one kind, and no lease is the pool.                       *)
ASSUME FibersAssumption ==
    /\ Commands \cap Leases = {} /\ (Commands \cup Leases) \cap Watchers = {}
    /\ Pool \notin Leases

VARIABLES
    fiber,      \* [Commands -> stage of the command fiber]
    acquire,    \* [Leases -> stage of the lease fiber]
    watch,      \* watchers still waiting
    woken,      \* fibers that will be polled
    sendWait,   \* fibers registered with Activity::dispatch
    leaseWait,  \* fibers registered with Activity::leases
    answered,   \* commands whose reply entry is terminal (value or failure)
    arena,      \* commands whose reply entry is occupied
    egress,     \* slots with frames handed to the link and not yet sent
    expired,    \* fibers whose deadline has elapsed
    late,       \* commands that timed out while their reply was still due
    terminal,   \* Activity::terminal is set
    faults, drops

routes == <<phase, gen, cause, fifos, active, next, lanes, holds, fatal>>
stages == <<fiber, acquire, watch>>
waits == <<woken, sendWait, leaseWait>>
entries == <<answered, arena, egress>>
limits == <<faults, drops>>
cvars == <<routes, stages, waits, entries, expired, late, terminal, limits>>

Fibers == Commands \cup Leases \cup Watchers

-----------------------------------------------------------------------------
(* Notifiers *)

(* What a step does to the waits: notify either notifier, wake the fibers  *)
(* in also, and forget the registrations and wakes of those in gone.       *)
Notify(send, lease, also, gone) ==
    /\ woken' = (woken \ gone) \cup also
                \cup (IF send THEN sendWait \ gone ELSE {})
                \cup (IF lease THEN leaseWait \ gone ELSE {})
    /\ sendWait' = IF send THEN {} ELSE sendWait \ gone
    /\ leaseWait' = IF lease THEN {} ELSE leaseWait \ gone

WakeNone == Notify(FALSE, FALSE, {}, {})
WakeSend == Notify(TRUE, FALSE, {}, {})
WakeAll == Notify(TRUE, TRUE, {}, {})

(* fatal_cause: a recorded failure, or the terminal stop.                  *)
FatalCause == fatal # {} \/ terminal

-----------------------------------------------------------------------------
ClientInit ==
    /\ Init
    /\ fiber = [c \in Commands |-> IF Target[c] = Pool THEN "Admission" ELSE "Unborn"]
    /\ acquire = [l \in Leases |-> "Acquire"]
    /\ watch = Watchers
    /\ woken = {c \in Commands : Target[c] = Pool} \cup Leases \cup Watchers
    /\ sendWait = {} /\ leaseWait = {}
    /\ answered = {} /\ arena = {}
    /\ egress = {}
    /\ expired = {} /\ late = {}
    /\ terminal = FALSE
    /\ faults = 0 /\ drops = 0

-----------------------------------------------------------------------------
(* Command fibers *)

Finish(c) == fiber' = [fiber EXCEPT ![c] = "Done"]

(* Core::poll_raw in Admission, deadline elapsed: unregister and discard.  *)
AdmissionExpired(c) ==
    /\ c \in expired
    /\ Finish(c)
    /\ Notify(TRUE, FALSE, {}, {c})
    /\ UNCHANGED <<routes, arena>>

(* The reply arena has an entry to reserve.  Mutant: off by one.           *)
ReplyRoomPast == Cardinality(arena) <= Inflight
ReplyRoom == Cardinality(arena) < Inflight

(* The command is published; the fiber waits for its reply.                *)
Admitted(c) ==
    /\ c \notin expired
    /\ ReplyRoom
    /\ IF Target[c] = Pool THEN TryPool(c) ELSE DispatchLease(c, Target[c])
    /\ fiber' = [fiber EXCEPT ![c] = "Response"]
    /\ arena' = arena \cup {c}
    /\ Notify(FALSE, FALSE, {}, {c})

PoolRoom ==
    /\ ReplyRoom /\ Registrable /\ Queueable
    /\ \E s \in Slot : phase[s] = "Shared"

(* Reject::Failed: the pool has no connection and a cause, the lease is no *)
(* longer exclusive, or its reply entry is refused.                        *)
Refused(c) ==
    IF Target[c] = Pool
    THEN ~PoolRoom /\ ~IsActive /\ FatalCause
    ELSE ~Leased(Target[c]) \/ (Queueable /\ ~ReplyRoom)

AdmissionFailed(c) ==
    /\ c \notin expired
    /\ Refused(c)
    /\ Finish(c)
    /\ Notify(TRUE, FALSE, {}, {c})
    /\ UNCHANGED <<routes, arena>>

(* Reject::Blocked: register, or fail when the notifier is full.           *)
Registers(c) ==
    /\ woken' = woken \ {c}
    /\ sendWait' = sendWait \cup {c}
    /\ UNCHANGED leaseWait

AdmissionBlocked(c) ==
    /\ c \notin expired
    /\ ~Refused(c)
    /\ IF Target[c] = Pool THEN ~PoolRoom ELSE Leased(Target[c]) /\ ~Queueable
    /\ IF Cardinality(sendWait \cup {c}) <= WaitCap
       THEN Registers(c) /\ UNCHANGED fiber
       ELSE Finish(c) /\ Notify(TRUE, FALSE, {}, {c})
    /\ UNCHANGED <<routes, arena>>

PollAdmission(c) ==
    /\ c \in woken /\ fiber[c] = "Admission"
    /\ \/ AdmissionExpired(c)
       \/ Admitted(c)
       \/ AdmissionFailed(c)
       \/ AdmissionBlocked(c)
    /\ UNCHANGED <<acquire, watch, answered, egress, expired, late, terminal,
                   limits>>

(* Response, deadline elapsed: detach, and if the reply was still due give *)
(* up the connection, whose later replies could not be told apart.         *)
(* Mutant: the connection stays.                                           *)
KeepsConnection(c) == UNCHANGED routes /\ Notify(FALSE, FALSE, {}, {c})
GivesUpConnection(c) ==
    \E s \in Slot :
        /\ c \in Elements(replies[s])
        /\ IF phase[s] \in Live
           THEN Reconnect(s) /\ Notify(TRUE, TRUE, {}, {c})
           ELSE UNCHANGED routes /\ Notify(FALSE, FALSE, {}, {c})

ResponseExpired(c) ==
    /\ c \in expired
    /\ Finish(c)
    /\ IF InReplies(c)
       THEN late' = late \cup {c} /\ GivesUpConnection(c)
       ELSE /\ UNCHANGED <<routes, late>>
            /\ Notify(FALSE, FALSE, {}, {c})

ResponsePolled(c) ==
    /\ c \notin expired
    /\ IF c \in answered THEN Finish(c) ELSE UNCHANGED fiber
    /\ Notify(FALSE, FALSE, {}, {c})
    /\ UNCHANGED <<routes, late>>

PollResponse(c) ==
    /\ c \in woken /\ fiber[c] = "Response"
    /\ ResponseExpired(c) \/ ResponsePolled(c)
    /\ UNCHANGED <<acquire, watch, entries, expired, terminal, limits>>

(* Drop of the fiber: an unsent frame is discarded, a reply still due is   *)
(* detached and will be dropped when it arrives.                           *)
Drop(c) ==
    /\ fiber[c] \in {"Admission", "Response"}
    /\ drops < MaxDrops
    /\ drops' = drops + 1
    /\ Finish(c)
    /\ Notify(fiber[c] = "Admission", FALSE, {}, {c})
    /\ UNCHANGED <<routes, acquire, watch, entries, expired, late, terminal, faults>>

-----------------------------------------------------------------------------
(* Lease fibers and wait_active *)

Give(l, stage) == acquire' = [acquire EXCEPT ![l] = stage]

PollAcquire(l) ==
    /\ l \in woken /\ acquire[l] = "Acquire"
    /\ \/ /\ l \in expired
          /\ Give(l, "Done")
          /\ Notify(FALSE, FALSE, {}, {l})
          /\ UNCHANGED <<routes, fiber>>
       \/ /\ l \notin expired
          /\ TryLease(l)
          /\ Give(l, "Held")
          /\ fiber' = [c \in Commands |->
                        IF Target[c] = l THEN "Admission" ELSE fiber[c]]
          /\ Notify(FALSE, FALSE, {c \in Commands : Target[c] = l}, {l})
       \/ /\ l \notin expired
          /\ TryLeaseEmpty(l)
          /\ IF (~IsActive /\ FatalCause)
                \/ Cardinality(leaseWait \cup {l}) > WaitCap
             THEN Give(l, "Done") /\ Notify(FALSE, FALSE, {}, {l})
             ELSE /\ woken' = woken \ {l}
                  /\ leaseWait' = leaseWait \cup {l}
                  /\ UNCHANGED <<acquire, sendWait>>
          /\ UNCHANGED fiber
    /\ UNCHANGED <<watch, entries, expired, late, terminal, limits>>

(* The Connection is dropped once no command borrows it; Schedule::release *)
(* wakes everyone if the connection becomes shared.                        *)
(* Mutant: only the senders are woken.                                     *)
ReleaseWakeSend(l) == Notify(Releases(l), FALSE, {}, {})
ReleaseWakes(l) == Notify(Releases(l), Releases(l), {}, {})

DropLease(l) ==
    /\ acquire[l] = "Held"
    /\ \A c \in Commands : Target[c] = l => fiber[c] = "Done"
    /\ Release(l)
    /\ Give(l, "Done")
    /\ ReleaseWakes(l)
    /\ UNCHANGED <<fiber, watch, entries, expired, late, terminal, limits>>

PollWatch(w) ==
    /\ w \in woken /\ w \in watch
    /\ IF IsActive \/ FatalCause \/ Cardinality(sendWait \cup {w}) > WaitCap
       THEN watch' = watch \ {w} /\ Notify(FALSE, FALSE, {}, {w})
       ELSE /\ woken' = woken \ {w}
            /\ sendWait' = sendWait \cup {w}
            /\ UNCHANGED <<watch, leaseWait>>
    /\ UNCHANGED <<routes, fiber, acquire, entries, expired, late, terminal,
                   limits>>

(* A request deadline elapses and its alarm wakes the fiber.               *)
Pending(f) ==
    \/ f \in Commands /\ fiber[f] \in {"Admission", "Response"}
    \/ f \in Leases /\ acquire[f] = "Acquire"

(* Mutant: the alarm wakes nobody.                                         *)
AlarmSilent(f) == WakeNone
Alarm(f) == Notify(FALSE, FALSE, {f}, {})

Expire(f) ==
    /\ Expiry
    /\ f \notin expired /\ Pending(f)
    /\ expired' = expired \cup {f}
    /\ Alarm(f)
    /\ UNCHANGED <<routes, stages, entries, late, terminal, limits>>

-----------------------------------------------------------------------------
(* The scheduler's steps with their wakes *)

Open(s) ==
    /\ Activate(s)
    /\ UNCHANGED <<stages, waits, entries, expired, late, terminal, limits>>

ReadyWakes == WakeAll

Ready(s) ==
    /\ MarkReady(s)
    /\ ReadyWakes
    /\ UNCHANGED <<stages, entries, expired, late, terminal, limits>>

(* Port::fail wakes everyone.                                              *)
SessionFails(s) ==
    /\ faults < MaxFaults /\ faults' = faults + 1
    /\ Fail(s, "Other")
    /\ WakeAll
    /\ UNCHANGED <<stages, entries, expired, late, terminal, drops>>

(* Schedule::quarantine wakes nobody: retirement will.                     *)
DriverCloses(s) ==
    /\ faults < MaxFaults /\ faults' = faults + 1
    /\ Quarantine(s, "Remote")
    /\ UNCHANGED <<stages, waits, entries, expired, late, terminal, drops>>

(* Activity::record_stop: attempts to connect are exhausted.               *)
Stop ==
    /\ faults < MaxFaults /\ faults' = faults + 1
    /\ terminal' = TRUE
    /\ WakeAll
    /\ UNCHANGED <<routes, stages, entries, expired, late, drops>>

(* disconnect: retire, then Root::retired.  Mutant: the waiters of a       *)
(* quarantined connection are never told.                                  *)
RetiredQuietly == WakeNone
Retired == WakeAll

Disconnect(s) ==
    /\ Retire(s)
    /\ s \notin egress
    /\ Retired
    /\ UNCHANGED <<stages, entries, expired, late, terminal, limits>>

Send(s) ==
    /\ \E k \in 1 .. Len(queue[s]) : Drain(s, k)
    /\ egress' = egress \cup {s}
    /\ UNCHANGED <<stages, waits, answered, arena, expired, late, terminal, limits>>

(* Output::sent or Output::cancel announces the room in the request queue. *)
Sent(s) ==
    /\ s \in egress
    /\ egress' = egress \ {s}
    /\ WakeSend
    /\ UNCHANGED <<routes, stages, answered, arena, expired, late, terminal, limits>>

(* try_reply: the fiber of the command and the senders, and the lease      *)
(* waiters if the route was published.                                     *)
ReplyWakes(s) ==
    Notify(TRUE, phase[s] = "Shared" /\ Answered(s), {Head(replies[s])}, {})

Reply(s) ==
    /\ TryReply(s)
    /\ answered' = answered \cup {Head(replies[s])}
    /\ ReplyWakes(s)
    /\ UNCHANGED <<stages, arena, egress, expired, late, terminal, limits>>

FailReplies(s) ==
    \E k \in 1 .. Len(replies[s]) :
        /\ ClearRecv(s, k)
        /\ LET gone == Elements(SubSeq(replies[s], 1, k))
           IN answered' = answered \cup gone /\ Notify(FALSE, FALSE, gone, {})
        /\ UNCHANGED <<stages, arena, egress, expired, late, terminal, limits>>

DropRequests(s) ==
    /\ \E k \in 1 .. Len(queue[s]) : ClearSend(s, k)
    /\ WakeSend
    /\ UNCHANGED <<stages, entries, expired, late, terminal, limits>>

(* Scheduling::park: maintain releases an entry that is out of its lane    *)
(* and collected or detached, and announces the room.                      *)
(* Mutant: it does not announce it.                                        *)
MaintainQuietly == WakeNone
MaintainWakes == WakeAll

Maintain(c) ==
    /\ c \in arena /\ ~InReplies(c) /\ fiber[c] = "Done"
    /\ arena' = arena \ {c}
    /\ MaintainWakes
    /\ UNCHANGED <<routes, stages, answered, egress, expired, late, terminal, limits>>

-----------------------------------------------------------------------------
CommandPoll(c) == PollAdmission(c) \/ PollResponse(c)
SlotStep(s) ==
    \/ Open(s) \/ Ready(s) \/ Disconnect(s) \/ Send(s) \/ Sent(s)
    \/ FailReplies(s) \/ DropRequests(s)

ClientNext ==
    \/ \E c \in Commands : CommandPoll(c) \/ Drop(c) \/ Maintain(c)
    \/ \E l \in Leases : PollAcquire(l) \/ DropLease(l)
    \/ \E w \in Watchers : PollWatch(w)
    \/ \E f \in Commands \cup Leases : Expire(f)
    \/ \E s \in Slot : SlotStep(s) \/ Reply(s) \/ SessionFails(s) \/ DriverCloses(s)
    \/ Stop

(* The executor polls every woken fiber; the driver opens connections,     *)
(* finishes their handshake and closing, sends and reports what was sent;  *)
(* park maintains the arena; the application drops a lease it is done with.*)
Fairness ==
    /\ \A c \in Commands : WF_cvars(CommandPoll(c)) /\ WF_cvars(Maintain(c))
    /\ \A l \in Leases : WF_cvars(PollAcquire(l)) /\ WF_cvars(DropLease(l))
    /\ \A w \in Watchers : WF_cvars(PollWatch(w))
    /\ \A s \in Slot :
        /\ WF_cvars(Open(s)) /\ WF_cvars(Ready(s)) /\ WF_cvars(Disconnect(s))
        /\ WF_cvars(Send(s)) /\ WF_cvars(Sent(s))
        /\ WF_cvars(FailReplies(s)) /\ WF_cvars(DropRequests(s))

ClientSpec == ClientInit /\ [][ClientNext]_cvars

(* A peer that answers what it is sent, and deadlines that never elapse.   *)
ResponsiveSpec ==
    ClientSpec /\ Fairness /\ \A s \in Slot : WF_cvars(Reply(s))

(* A peer that may stay silent, and deadlines that elapse.                 *)
DeadlineFairness == Fairness /\ \A f \in Commands \cup Leases : WF_cvars(Expire(f))

-----------------------------------------------------------------------------
(* Properties *)

(* Every variable of the fibers keeps its type.                            *)
ClientTypeOK ==
    /\ fiber \in [Commands -> {"Unborn", "Admission", "Response", "Done"}]
    /\ acquire \in [Leases -> {"Acquire", "Held", "Done"}]
    /\ watch \subseteq Watchers
    /\ woken \subseteq Fibers
    /\ sendWait \subseteq Commands \cup Watchers
    /\ leaseWait \subseteq Leases
    /\ Cardinality(sendWait) <= WaitCap /\ Cardinality(leaseWait) <= WaitCap
    /\ answered \subseteq Commands /\ arena \subseteq Commands
    /\ Cardinality(arena) <= Inflight
    /\ egress \subseteq Slot

(* A registered command cannot run: the pool has no room for it, or frames *)
(* are on their way whose completion (Output::sent, Output::cancel) will   *)
(* notify it.                                                              *)
SendBlocked ==
    \A c \in sendWait \cap Commands :
        Target[c] = Pool => ~PoolRoom \/ egress # {}

(* A registered lease fiber cannot run: try_lease would find nothing.      *)
LeaseBlocked == leaseWait # {} => \A s \in Slot : ~Acquirable(s)

(* When nothing is active and a cause is known, a registered fiber is      *)
(* about to be told, by the retirement of the connection that is closing.  *)
CauseAhead ==
    sendWait \cup leaseWait # {} /\ ~IsActive /\ FatalCause =>
        \E s \in Slot : phase[s] \in {"Closing", "Reconnecting"}

(* A fiber that has not ended and will not be polled is registered with    *)
(* the notifier of what it waits for, or its reply is still due.           *)
SleepersKnown ==
    /\ \A c \in Commands \ woken :
          /\ fiber[c] = "Admission" => c \in sendWait
          /\ fiber[c] = "Response" => InReplies(c)
    /\ \A l \in Leases \ woken : acquire[l] = "Acquire" => l \in leaseWait
    /\ watch \ woken \subseteq sendWait

(* No lost wake-up: a fiber sleeps only where somebody will find it, one   *)
(* that sits in one of the two notifiers is one that could not run, and    *)
(* the step that changes this is still to come.                            *)
NoLostWakeup == SleepersKnown /\ SendBlocked /\ LeaseBlocked /\ CauseAhead

(* A connection with a reply that somebody gave up waiting for serves      *)
(* nobody: the late reply can never be taken for another command's.        *)
LateRetired ==
    \A s \in Slot : Elements(replies[s]) \cap late # {} => phase[s] \notin Live

(* Reply entries are within the arena, and none that was abandoned is left *)
(* on a connection that serves.                                            *)
RepliesSound == ClientTypeOK /\ LateRetired

(* Every fiber ends, in every interleaving of faults, cancellations,       *)
(* leases and closing connections: a command that is issued completes, a   *)
(* lease request is granted or refused, and wait_active returns with an    *)
(* active connection or an error.                                          *)
FibersEnd ==
    /\ \A c \in Commands : fiber[c] = "Admission" ~> fiber[c] = "Done"
    /\ \A l \in Leases : acquire[l] = "Acquire" ~> acquire[l] # "Acquire"
    /\ <>(watch = {})

(* A connection that is given up is eventually vacant again.               *)
ClosingEnds ==
    \A s \in Slot : phase[s] \in {"Closing", "Reconnecting"} ~> phase[s] = "Vacant"
=============================================================================
