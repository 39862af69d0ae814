------------------------------ MODULE PgGroup ------------------------------
(***************************************************************************)
(* A group of commands that ends in one Sync: api/task/group.rs, the       *)
(* collector of its diagnostics (port/replies/groups.rs, reply/group.rs),  *)
(* and the group's part of a session's turns (protocol/logic/ready.rs,     *)
(* protocol/logic/drain.rs) and of port/replies/mod.rs.                    *)
(*                                                                         *)
(* One connection carries groups and plain requests of one command, each   *)
(* closed by its own Sync.  Everything is sent when it is admitted, so     *)
(* what the server did with a command is recorded when its answer is       *)
(* delivered: grTruth is what the results are compared with.  The ready    *)
(* index, transactions and batch numbers that wrap are PgPool's.           *)
(***************************************************************************)
EXTENDS Naturals, Sequences, FiniteSets

CONSTANTS
    GroupIds,      \* groups, each run once
    Others,        \* plain requests on the same connection
    GroupSize,     \* N: commands of a group
    GroupSlots,    \* Groups::active
    GroupRecords,  \* Groups::records
    GroupBytes,    \* Groups::bytes
    ArenaValues,   \* what the response arena leaves for diagnostics: values
    ArenaBytes,    \* ... and bytes
    ErrorSizes,    \* bytes a diagnostic takes
    MaxErrors,     \* bound: diagnostics the server sends
    GroupLives     \* bound: lives of the connection

(* What Config::with_groups accepts: slots of equal shares, and an arena   *)
(* that can hold the diagnostics of one group.                             *)
GroupLayout == GroupSlots \in Nat \ {0} /\ GroupRecords \in Nat \ {0} /\ GroupBytes \in Nat \ {0}
GroupsConfigured ==
    /\ GroupLayout /\ ArenaValues \in Nat /\ ArenaBytes \in Nat
    /\ GroupRecords <= ArenaValues /\ GroupBytes <= ArenaBytes

VARIABLES
    grFiber,    \* the fiber of a group: where it is, and on which life of the connection
    grBuffer,   \* Active: the buffer the group's owner collects in, 0 when it is taken
    grStore,    \* buffers: records, the unresolved one, bytes used
    grReply,    \* replies by request and order: state, and whether a row is kept
    grResult,   \* what a group's fiber returned
    grLane,     \* orders of the connection, oldest first
    grSession,  \* State: phase, progress, batch; settling while a ReadyForQuery is pending
    grSlot,     \* the slot: state, next batch, life
    grServer,   \* frames still to answer; whether the batch has failed; whether it has ended
    grTruth     \* what the server did: commands, those with rows, errors, Syncs answered

grVars == <<grFiber, grBuffer, grStore, grReply, grResult, grLane, grSession, grSlot,
            grServer, grTruth>>
fiberVars == <<grFiber, grBuffer, grResult>>

Orders == 1 .. GroupSize + 1        \* the last is the Sync
Commands == 1 .. GroupSize
SyncOrder == GroupSize + 1
Requests == GroupIds \cup Others

(* results::group::Position.                                               *)
Command(i) == <<"Command", i>>
At(place) == <<place, 0>>

NoBuffer == 0
EmptyBuffer == [records |-> <<>>, unknown |-> 0, used |-> 0]
NoReply == [st |-> "None", row |-> FALSE]
NoResult == [kept |-> FALSE, ok |-> FALSE, outcomes |-> <<>>, ledger |-> NoBuffer,
             sync |-> "Unobserved", failed |-> FALSE, stopped |-> FALSE]
Untold == [i \in Commands |-> "None"]
NewSession == [phase |-> "Ready", progress |-> "Running", batch |-> 0, settling |-> FALSE]
NewServer == [todo |-> <<>>, erred |-> FALSE, ended |-> FALSE]

GroupInit ==
    /\ GroupsConfigured
    /\ grFiber = [g \in GroupIds |-> [at |-> "New", life |-> 0]]
    /\ grBuffer = [g \in GroupIds |-> NoBuffer]
    /\ grStore = [b \in 1 .. GroupSlots |-> EmptyBuffer]
    /\ grReply = [r \in Requests |-> [i \in Orders |-> NoReply]]
    /\ grResult = [g \in GroupIds |-> NoResult]
    /\ grLane = <<>>
    /\ grSession = NewSession
    /\ grSlot = [state |-> "Open", batch |-> 0, life |-> 1]
    /\ grServer = NewServer
    /\ grTruth = [done |-> [r \in Requests |-> Untold],
                  rows |-> [r \in Requests |-> {}],
                  errors |-> [r \in Requests |-> <<>>],
                  synced |-> {}, sent |-> 0]

-----------------------------------------------------------------------------
(* The collector.  Its owner is cloned into every tag of the group and     *)
(* lives while one of them is in the lane or the fiber holds it.           *)

Tagged(g) == \E i \in DOMAIN grLane : grLane[i].by = g
Owned(g) == grFiber[g].at \in {"Connecting", "Admitted"} \/ Tagged(g)
Reserved(g) == grBuffer[g] # NoBuffer /\ (grFiber[g].at = "Admitted" \/ Tagged(g))
Owners == {g \in GroupIds : Owned(g)}

(* Each reserves all it may ever record.                                   *)
Reserves(n) == n * GroupRecords <= ArenaValues /\ n * GroupBytes <= ArenaBytes

\* Mutant: a buffer is free once its owner is gone, whoever keeps the ledger.
FreeOfOwners == {b \in 1 .. GroupSlots : \A g \in Owners : grBuffer[g] # b}

Free ==
    {b \in 1 .. GroupSlots : /\ \A g \in Owners : grBuffer[g] # b
                             /\ \A g \in GroupIds : grResult[g].kept => grResult[g].ledger # b}

\* Mutant: only the records are bounded.
FitsRecords(buffer, size) == Len(buffer.records) < GroupRecords

(* Active::record into the owner's buffer; nothing is recorded once the    *)
(* buffer is taken.                                                        *)
Fits(buffer, size) ==
    Len(buffer.records) < GroupRecords /\ buffer.used + size <= GroupBytes
Recorded(buffer, at, size) ==
    [records |-> Append(buffer.records, [at |-> at, start |-> buffer.used, end |-> buffer.used + size]),
     unknown |-> IF at = At("Unknown") THEN Len(buffer.records) + 1 ELSE buffer.unknown,
     used |-> buffer.used + size]
Record(g, at, size) ==
    IF grBuffer[g] = NoBuffer THEN UNCHANGED grStore
    ELSE grStore' = [grStore EXCEPT ![grBuffer[g]] = Recorded(@, at, size)]
CanRecord(g, size) == grBuffer[g] # NoBuffer => Fits(grStore[grBuffer[g]], size)

(* Records::resolve.                                                       *)
Resolves(g) == grBuffer[g] # NoBuffer /\ grStore[grBuffer[g]].unknown # 0

\* Mutant: the last record is the one without a position.
ResolveLast(g, at) ==
    IF Resolves(g)
    THEN grStore' = [grStore EXCEPT ![grBuffer[g]] =
                        [@ EXCEPT !.records[Len(@.records)].at = at, !.unknown = 0]]
    ELSE UNCHANGED grStore

Resolve(g, at) ==
    IF Resolves(g)
    THEN grStore' = [grStore EXCEPT ![grBuffer[g]] =
                        [@ EXCEPT !.records[@.unknown].at = at, !.unknown = 0]]
    ELSE UNCHANGED grStore

-----------------------------------------------------------------------------
(* The lane: an order whose reply is gone is detached.                     *)

Detached(r, i) == grReply[r][i].st = "Gone"
Answered(r, i, st) ==
    [grReply EXCEPT ![r][i].st = IF @ = "Gone" THEN "Gone" ELSE st]
Pop(st) ==
    /\ grReply' = Answered(Head(grLane).by, Head(grLane).index, st)
    /\ grLane' = Tail(grLane)

(* Lane::front against the session's batch.                                *)
Front ==
    CASE grLane = <<>> -> "None"
      [] grLane # <<>> /\ Head(grLane).batch > grSession.batch -> "None"
      [] grLane # <<>> /\ Head(grLane).batch < grSession.batch -> "Stale"
      [] OTHER -> Head(grLane).kind
InGroup == Front \in {"Group", "Last", "Sync"}

(* Shared::wake_close; Turn::finish_failure.                               *)
Closing == [grSlot EXCEPT !.state = IF @ = "Open" THEN "Closing" ELSE @]
Fail ==
    /\ grSession' = [grSession EXCEPT !.phase = "Failed", !.progress = "Running", !.settling = FALSE]
    /\ grSlot' = Closing
Progress(p) ==
    /\ grSession' = [grSession EXCEPT !.progress = p]
    /\ UNCHANGED grSlot

-----------------------------------------------------------------------------
(* The session's turns *)

Listens ==
    /\ grSlot.state \in {"Open", "Closing"}
    /\ grSession.phase = "Ready" /\ ~grSession.settling

(* Turn::push: a group keeps the first row of a command, and a detached    *)
(* order none.                                                             *)
OnRow ==
    IF Front \in {"None", "Stale"} \/ (Front = "Sync" /\ ~Detached(Head(grLane).by, SyncOrder))
    THEN Fail /\ UNCHANGED <<grReply, grLane>>
    ELSE /\ grReply' = [grReply EXCEPT ![Head(grLane).by][Head(grLane).index].row =
                            @ \/ grReply[Head(grLane).by][Head(grLane).index].st = "Open"]
         /\ UNCHANGED <<grLane, grSession, grSlot>>

\* Mutant: a request is complete before its Sync is answered.
OnCompleteAtOnce ==
    IF Front \in {"Group", "Last", "Ready"}
    THEN Pop("Done") /\ (IF Front = "Group" THEN UNCHANGED <<grSession, grSlot>> ELSE Progress("Complete"))
    ELSE Fail /\ UNCHANGED <<grReply, grLane>>

(* CommandComplete: the order of a command inside the group is complete at *)
(* once; the last one closes the group's progress too, and a request with  *)
(* its own Sync waits for it.                                              *)
OnComplete ==
    CASE Front = "Group" -> Pop("Done") /\ UNCHANGED <<grSession, grSlot>>
      [] Front = "Last" -> Pop("Done") /\ Progress("Complete")
      [] Front = "Ready" -> Progress("Complete") /\ UNCHANGED <<grReply, grLane>>
      [] OTHER -> Fail /\ UNCHANGED <<grReply, grLane>>

(* Tag::record_error: where a diagnostic of this scope belongs.            *)
Skips == grSession.progress \in {"Skipping", "Unknown"}
Position(scope) ==
    CASE scope = "Connection" -> At("Connection")
      [] scope # "Connection" /\ Skips -> At("Recovery")
      [] scope = "Unknown" /\ ~Skips -> At("Unknown")
      [] OTHER -> IF Front = "Sync" THEN At("Sync") ELSE Command(Head(grLane).index)

(* Turn::reply_error for a group.                                          *)
GroupError(scope, size) ==
    LET g == Head(grLane).by IN
    \/ /\ ~CanRecord(g, size)
       /\ Fail /\ UNCHANGED <<grReply, grLane, grStore>>
    \/ /\ CanRecord(g, size) /\ scope = "Connection"
       /\ Record(g, Position(scope), size)
       /\ Fail /\ UNCHANGED <<grReply, grLane>>
    \/ /\ CanRecord(g, size) /\ scope # "Connection" /\ Skips
       /\ Record(g, Position(scope), size)
       /\ UNCHANGED <<grReply, grLane, grSession, grSlot>>
    \/ /\ CanRecord(g, size) /\ scope = "Unknown" /\ ~Skips
       /\ Record(g, Position(scope), size)
       /\ Progress("Unknown") /\ UNCHANGED <<grReply, grLane>>
    \/ /\ CanRecord(g, size) /\ scope = "Command" /\ ~Skips
       /\ Record(g, Position(scope), size)
       /\ IF Front = "Sync" THEN UNCHANGED <<grReply, grLane>> ELSE Pop("Server")
       /\ Progress("Skipping")

(* Turn::reply_error for one request, or for none.                         *)
OnError(scope, size) ==
    \/ InGroup /\ GroupError(scope, size)
    \/ /\ Front = "Ready" /\ Pop("Server") /\ UNCHANGED grStore
       /\ IF scope = "Connection" THEN Fail ELSE Progress("Skipping")
    \/ /\ Front \in {"None", "Stale"}
       /\ Fail /\ UNCHANGED <<grReply, grLane, grStore>>

-----------------------------------------------------------------------------
(* The end of a batch: Turn::try_settle, which may yield after any order. *)

Settling == grSession.phase = "Ready" /\ grSession.settling /\ grSlot.state \in {"Open", "Closing"}

(* A command the server skipped; after an error of unknown severity, the   *)
(* first of them is the one that failed.                                   *)
SettleCommand ==
    /\ Settling
    /\ \/ /\ grSession.progress = "Skipping" /\ Front \in {"Group", "Last", "Ready"}
          /\ Pop("Skipped") /\ UNCHANGED grStore
       \/ /\ grSession.progress = "Unknown" /\ Front \in {"Group", "Last"}
          /\ Resolve(Head(grLane).by, Command(Head(grLane).index))
          /\ Pop(IF Resolves(Head(grLane).by) THEN "Server" ELSE "Skipped")
    /\ UNCHANGED <<grSession, grSlot, grServer, grTruth, fiberVars>>

Settled ==
    /\ grSession' = [grSession EXCEPT !.progress = "Running", !.batch = @ + 1, !.settling = FALSE]
    /\ UNCHANGED <<grSlot, grServer, grTruth, fiberVars>>

\* Mutant: nothing settles the Sync after an error of unknown severity.
SettleDoneKnown ==
    /\ Settling /\ Settled
    /\ \/ /\ grSession.progress \in {"Complete", "Skipping"} /\ Front \in {"Ready", "Sync"}
          /\ Pop("Done") /\ UNCHANGED grStore
       \/ /\ grSession.progress # "Complete" /\ Front = "None"
          /\ UNCHANGED <<grLane, grReply, grStore>>

(* The reply that was kept for the ReadyForQuery, or none is left.         *)
SettleDone ==
    /\ Settling /\ Settled
    /\ \/ /\ grSession.progress = "Complete" /\ Front \in {"Ready", "Sync"}
          /\ Pop("Done") /\ UNCHANGED grStore
       \/ /\ grSession.progress \in {"Skipping", "Unknown"} /\ Front = "Sync"
          /\ Pop("Done")
          /\ IF grSession.progress = "Unknown" THEN Resolve(Head(grLane).by, At("Sync"))
             ELSE UNCHANGED grStore
       \/ /\ grSession.progress # "Complete" /\ Front = "None"
          /\ UNCHANGED <<grLane, grReply, grStore>>

-----------------------------------------------------------------------------
(* The server answers what it was sent, in order.  An error in a command   *)
(* makes it skip to the Sync, where what the batch did may still fail to   *)
(* commit; severities it reports in its own language are of unknown scope. *)

Scope(fatal, localized) ==
    IF localized THEN "Unknown" ELSE IF fatal THEN "Connection" ELSE "Command"
Todo == Head(grServer.todo)
Answers == Listens /\ ~grServer.ended /\ grServer.todo # <<>>
Did(verdict) == [grTruth EXCEPT !.done[Todo.by][Todo.index] = verdict]

DataRow ==
    /\ Answers /\ Todo.is = "Command" /\ Todo.by \in GroupIds
    /\ OnRow
    /\ grTruth' = [grTruth EXCEPT !.rows[Todo.by] = @ \cup {Todo.index}]
    /\ UNCHANGED <<grStore, grServer, fiberVars>>

CommandComplete ==
    /\ Answers /\ Todo.is = "Command"
    /\ OnComplete
    /\ grTruth' = Did("Completed")
    /\ grServer' = [grServer EXCEPT !.todo = Tail(@)]
    /\ UNCHANGED <<grStore, fiberVars>>

ReadyForQuery ==
    /\ Answers /\ Todo.is = "Sync"
    /\ grSession' = [grSession EXCEPT !.settling = TRUE]
    /\ grServer' = [grServer EXCEPT !.todo = Tail(@), !.erred = FALSE]
    /\ grTruth' = [grTruth EXCEPT !.synced = @ \cup {Todo.by}]
    /\ UNCHANGED <<grReply, grLane, grStore, grSlot, fiberVars>>

(* Skips what the request has left up to its Sync.                         *)
ToSync == SelectSeq(grServer.todo, LAMBDA f : f.by # Todo.by \/ f.is = "Sync")
Sent(truth, by, at, size, localized) ==
    [truth EXCEPT !.errors[by] = Append(@, [at |-> at, size |-> size, localized |-> localized]),
                  !.sent = @ + 1]
Skipped(truth) ==
    [truth EXCEPT !.done[Todo.by] =
        [i \in Commands |-> IF i > Todo.index THEN "Skipped" ELSE @[i]]]

ErrorResponse(localized, size) ==
    /\ Answers /\ ~grServer.erred /\ grTruth.sent < MaxErrors
    /\ OnError(Scope(FALSE, localized), size)
    /\ grServer' = [grServer EXCEPT !.todo = ToSync, !.erred = TRUE]
    /\ grTruth' = IF Todo.is = "Sync" THEN Sent(grTruth, Todo.by, At("Sync"), size, localized)
                  ELSE Sent(Skipped(Did("Failed")), Todo.by, Command(Todo.index), size, localized)
    /\ UNCHANGED fiberVars

(* An error while the transaction of a failed batch is rolled back.        *)
RecoveryError(localized, size) ==
    /\ Answers /\ grServer.erred /\ grTruth.sent < MaxErrors
    /\ OnError(Scope(FALSE, localized), size)
    /\ grTruth' = Sent(grTruth, Todo.by, At("Recovery"), size, localized)
    /\ UNCHANGED <<grServer, fiberVars>>

(* The server ends the connection, while it answers or while it is idle.   *)
FatalError(localized, size) ==
    /\ Listens /\ ~grServer.ended /\ grTruth.sent < MaxErrors
    /\ OnError(Scope(TRUE, localized), size)
    /\ grServer' = [grServer EXCEPT !.ended = TRUE]
    /\ grTruth' = IF Front \in {"None", "Stale"} THEN [grTruth EXCEPT !.sent = @ + 1]
                  ELSE Sent(grTruth, Head(grLane).by, At("Connection"), size, localized)
    /\ UNCHANGED fiberVars

-----------------------------------------------------------------------------
(* The end of the connection: every order it still has fails, a few at a   *)
(* time, and the slot connects again.                                      *)

Disconnect ==
    /\ grSlot.state \in {"Open", "Closing"}
    /\ grSlot' = [grSlot EXCEPT !.state = "Retiring"]
    /\ grSession' = NewSession
    /\ grServer' = NewServer
    /\ UNCHANGED <<grReply, grLane, grStore, grTruth, fiberVars>>

ClearRecv ==
    /\ grSlot.state = "Retiring" /\ grLane # <<>>
    /\ Pop("Failed")
    /\ UNCHANGED <<grStore, grSession, grSlot, grServer, grTruth, fiberVars>>

Reconnect ==
    /\ grSlot.state = "Retiring" /\ grLane = <<>> /\ grSlot.life < GroupLives
    /\ grSlot' = [state |-> "Open", batch |-> 0, life |-> grSlot.life + 1]
    /\ UNCHANGED <<grReply, grLane, grStore, grSession, grServer, grTruth, fiberVars>>

-----------------------------------------------------------------------------
(* The fibers *)

To(g, at) == [grFiber EXCEPT ![g].at = at]

(* Pending::group and groups::Access::prepare: an owner, then a cleared    *)
(* buffer.                                                                 *)
GroupNew(g) ==
    /\ grFiber[g].at = "New"
    /\ \/ /\ Cardinality(Owners) < GroupSlots /\ Free # {}
          /\ LET b == CHOOSE b \in Free : TRUE
             IN /\ grBuffer' = [grBuffer EXCEPT ![g] = b]
                /\ grStore' = [grStore EXCEPT ![b] = EmptyBuffer]
          /\ grFiber' = To(g, "Connecting")
       \/ /\ Cardinality(Owners) = GroupSlots \/ Free = {}
          /\ grFiber' = To(g, "Failed")
          /\ UNCHANGED <<grBuffer, grStore>>
    /\ UNCHANGED <<grReply, grResult, grLane, grSession, grSlot, grServer, grTruth>>

Order(r, kind, i) == [by |-> r, kind |-> kind, index |-> i, batch |-> grSlot.batch]
Asked(r, is, i) == [by |-> r, is |-> is, index |-> i]
Publish(r, orders, frames) ==
    /\ grLane' = grLane \o orders
    /\ grReply' = [grReply EXCEPT ![r] = [i \in Orders |->
           IF \E k \in DOMAIN orders : orders[k].index = i THEN [st |-> "Open", row |-> FALSE] ELSE @[i]]]
    /\ grServer' = [grServer EXCEPT !.todo = @ \o frames]
    /\ grSlot' = [grSlot EXCEPT !.batch = @ + 1]
Selectable == grSlot.state = "Open" /\ grSession.phase = "Ready"

(* The group's orders are published together, over diagnostics reserved in *)
(* the response arena.                                                     *)
GroupAdmit(g) ==
    /\ grFiber[g].at = "Connecting" /\ Selectable
    /\ Reserves(Cardinality({h \in GroupIds : Reserved(h)}) + 1)
    /\ Publish(g, [i \in Orders |->
                     Order(g, IF i = SyncOrder THEN "Sync" ELSE IF i = GroupSize THEN "Last" ELSE "Group", i)],
                  [i \in Orders |-> Asked(g, IF i = SyncOrder THEN "Sync" ELSE "Command", i)])
    /\ grFiber' = [grFiber EXCEPT ![g] = [at |-> "Admitted", life |-> grSlot.life]]
    /\ UNCHANGED <<grBuffer, grStore, grResult, grSession, grTruth>>

OtherAdmit(r) ==
    /\ Selectable /\ grReply[r][1].st = "None"
    /\ Publish(r, <<Order(r, "Ready", 1)>>, <<Asked(r, "Command", 1), Asked(r, "Sync", SyncOrder)>>)
    /\ UNCHANGED <<grBuffer, grFiber, grStore, grResult, grSession, grTruth>>

(* First::extract and collect: a reply that has not come is detached.      *)
Outcome(reply) ==
    CASE reply.st = "Done" -> [is |-> "Completed", row |-> reply.row]
      [] reply.st \in {"Server", "Skipped"} -> [is |-> reply.st, row |-> FALSE]
      [] reply.st = "Failed" -> [is |-> "Interrupted", row |-> FALSE]
      [] OTHER -> [is |-> "Unobserved", row |-> FALSE]

(* GroupFailure::required: the rows of a group that all came, or what came *)
(* of each command.  Rows are taken out until one is missing, and put back.*)
Leading(outcomes) ==
    CHOOSE k \in 0 .. GroupSize :
        /\ \A i \in 1 .. k : outcomes[i].row
        /\ k < GroupSize => ~outcomes[k + 1].row
Taken(outcomes, k) == [i \in Commands |-> IF i <= k THEN [outcomes[i] EXCEPT !.row = FALSE] ELSE outcomes[i]]

\* Mutant: the rows taken out are lost.
RestoredNone(outcomes, k) == outcomes

Restored(outcomes, k) == [i \in Commands |-> IF i <= k THEN [outcomes[i] EXCEPT !.row = TRUE] ELSE outcomes[i]]
Required(f) ==
    LET clean == f.sync = "Complete" /\ ~f.failed /\ ~f.stopped /\ f.ledger = NoBuffer
        k == Leading(f.outcomes)
        left == IF clean THEN Restored(Taken(f.outcomes, k), k) ELSE f.outcomes
    IN IF clean /\ k = GroupSize THEN [f EXCEPT !.ok = TRUE]
       ELSE [f EXCEPT !.outcomes = [i \in Commands |->
                IF left[i].is = "Completed" /\ ~left[i].row THEN [is |-> "Missing", row |-> FALSE] ELSE left[i]]]

(* Owner::snapshot: the buffer goes with the result unless it is empty.    *)
Snapshot(g) ==
    IF grFiber[g].at # "Admitted" \/ grBuffer[g] = NoBuffer THEN NoBuffer
    ELSE IF grStore[grBuffer[g]].records = <<>> THEN NoBuffer ELSE grBuffer[g]
Gone(g) == [grReply EXCEPT ![g] = [i \in Orders |-> [st |-> "Gone", row |-> FALSE]]]

(* complete: outcomes are collected and diagnostics taken before the Sync  *)
(* is detached and the connection aborted.                                 *)
Complete(g, stopped) ==
    /\ grResult' = [grResult EXCEPT ![g] = Required(
           [kept |-> TRUE, ok |-> FALSE,
            outcomes |-> [i \in Commands |-> Outcome(grReply[g][i])],
            ledger |-> Snapshot(g),
            sync |-> IF grReply[g][SyncOrder].st = "Done" THEN "Complete" ELSE "Unobserved",
            failed |-> grReply[g][SyncOrder].st = "Failed",
            stopped |-> stopped])]
    /\ grBuffer' = [grBuffer EXCEPT ![g] = NoBuffer]
    /\ grFiber' = To(g, "Done")
    /\ grReply' = Gone(g)
    /\ UNCHANGED <<grStore, grLane, grSession, grServer, grTruth>>

(* The Sync's reply has come.                                              *)
GroupReply(g) ==
    /\ grFiber[g].at = "Admitted" /\ grReply[g][SyncOrder].st \in {"Done", "Failed"}
    /\ Complete(g, FALSE)
    /\ UNCHANGED grSlot

(* The group could not be prepared, or not be admitted.                    *)
GroupRefused(g) ==
    /\ grFiber[g].at \in {"Failed", "Connecting"}
    /\ Complete(g, TRUE)
    /\ UNCHANGED grSlot

(* The deadline, which is looked at first; it aborts the group's           *)
(* connection if that still lives.                                         *)
GroupExpires(g) ==
    /\ grFiber[g].at \in {"Failed", "Connecting", "Admitted"}
    /\ Complete(g, TRUE)
    /\ grSlot' = IF grFiber[g].at = "Admitted" /\ grFiber[g].life = grSlot.life
                 THEN Closing ELSE grSlot

(* The future is dropped: its replies are detached, the connection stays.  *)
GroupDrop(g) ==
    /\ grFiber[g].at \in {"Failed", "Connecting", "Admitted"}
    /\ grFiber' = To(g, "Done")
    /\ grReply' = Gone(g)
    /\ UNCHANGED <<grBuffer, grStore, grResult, grLane, grSession, grSlot, grServer, grTruth>>

(* The application is done with a result, and with its diagnostics.        *)
ResultDrop(g) ==
    /\ grResult[g].kept
    /\ grResult' = [grResult EXCEPT ![g] = NoResult]
    /\ grTruth' = [grTruth EXCEPT !.done[g] = Untold, !.rows[g] = {}, !.errors[g] = <<>>,
                                  !.synced = @ \ {g}]
    /\ UNCHANGED <<grFiber, grBuffer, grStore, grReply, grLane, grSession, grSlot, grServer>>

GroupNext ==
    \/ \E g \in GroupIds : GroupNew(g) \/ GroupAdmit(g) \/ GroupReply(g) \/ GroupRefused(g)
                           \/ GroupExpires(g) \/ GroupDrop(g) \/ ResultDrop(g)
    \/ \E r \in Others : OtherAdmit(r)
    \/ DataRow \/ CommandComplete \/ ReadyForQuery
    \/ \E localized \in BOOLEAN, size \in ErrorSizes :
          ErrorResponse(localized, size) \/ RecoveryError(localized, size) \/ FatalError(localized, size)
    \/ SettleCommand \/ SettleDone
    \/ Disconnect \/ ClearRecv \/ Reconnect

-----------------------------------------------------------------------------
(* Fairness: the server answers what it was sent and closes a connection   *)
(* it has ended, the session's turns go on, a closing connection ends, and *)
(* a woken fiber is polled.  No deadline is assumed.                       *)
Ends ==
    /\ grSlot.state = "Closing" \/ grServer.ended
    /\ Disconnect
GroupFairness ==
    /\ WF_grVars(CommandComplete) /\ WF_grVars(ReadyForQuery)
    /\ WF_grVars(SettleCommand) /\ WF_grVars(SettleDone)
    /\ WF_grVars(Ends) /\ WF_grVars(ClearRecv)
    /\ \A g \in GroupIds : WF_grVars(GroupReply(g))

-----------------------------------------------------------------------------
(* Properties *)

(* What a group reports of a command is what the server did with it: a row *)
(* is kept exactly for a command that completed with rows, also when a     *)
(* later command lost its own and the rows already taken out are put back, *)
(* and a failed or a skipped command is told apart even when the severity  *)
(* of the error was only settled by the ReadyForQuery.  A Sync reported    *)
(* complete was answered and leaves no command unobserved, and a group     *)
(* succeeds only if every command returned a row and nothing failed.       *)
Verdict(g, i, outcome) ==
    CASE outcome.is = "Completed" -> grTruth.done[g][i] = "Completed" /\ outcome.row /\ i \in grTruth.rows[g]
      [] outcome.is = "Missing" -> grTruth.done[g][i] = "Completed" /\ i \notin grTruth.rows[g]
      [] outcome.is = "Server" -> grTruth.done[g][i] = "Failed"
      [] outcome.is = "Skipped" -> grTruth.done[g][i] = "Skipped"
      [] OTHER -> grResult[g].sync # "Complete"
OutcomesExact ==
    /\ \A g \in GroupIds : grResult[g].kept =>
          /\ \A i \in Commands : Verdict(g, i, grResult[g].outcomes[i])
          /\ grResult[g].sync = "Complete" => g \in grTruth.synced
          /\ grResult[g].ok => /\ \A i \in Commands : grResult[g].outcomes[i].is = "Completed"
                               /\ grTruth.errors[g] = <<>>
    /\ \A r \in Others :
          /\ grReply[r][1].st = "Done" => grTruth.done[r][1] = "Completed" /\ r \in grTruth.synced
          /\ grReply[r][1].st = "Server" => grTruth.errors[r] # <<>>

(* A group's diagnostics are the errors the server sent while it ran, each *)
(* once, in order, at the bytes that were written for it and at the        *)
(* command it was about: in the buffer the group collects in, which they   *)
(* never outgrow, and in the ledger of a result for as long as it is kept. *)
(* Only an error that does not fit is left out, and after the Sync no      *)
(* position is unknown.                                                    *)
Placed(record, error) ==
    \/ record.at = error.at
    \/ error.localized /\ record.at = At("Unknown")
    \/ error.localized /\ error.at = At("Connection") /\ record.at = At("Recovery")
Written(records, errors) ==
    /\ Len(records) <= Len(errors)
    /\ \A k \in DOMAIN records :
          /\ Placed(records[k], errors[k])
          /\ records[k].start = IF k = 1 THEN 0 ELSE records[k - 1].end
          /\ records[k].end = records[k].start + errors[k].size
LedgerExact ==
    \A g \in GroupIds :
        LET errors == grTruth.errors[g]
            result == grResult[g]
            kept == IF result.ledger = NoBuffer THEN EmptyBuffer ELSE grStore[result.ledger]
            open == grStore[grBuffer[g]]
        IN /\ Owned(g) /\ grBuffer[g] # NoBuffer =>
                /\ Written(open.records, errors)
                /\ Len(open.records) <= GroupRecords /\ open.used <= GroupBytes
                /\ Len(errors) > Len(open.records) =>
                      /\ Len(errors) = Len(open.records) + 1
                      /\ ~Fits(open, errors[Len(errors)].size)
           /\ result.kept =>
                /\ Written(kept.records, errors)
                /\ result.sync = "Complete" =>
                      /\ Len(kept.records) = Len(errors)
                      /\ \A k \in DOMAIN errors : kept.records[k].at = errors[k].at

(* A group that was admitted ends, without a deadline: with the answer to  *)
(* its Sync or with its connection, whichever errors come between and      *)
(* whatever they do to the commands before the Sync.                       *)
GroupEnds == \A g \in GroupIds : grFiber[g].at = "Admitted" ~> grFiber[g].at = "Done"
=============================================================================
