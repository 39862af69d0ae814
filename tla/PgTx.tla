-------------------------------- MODULE PgTx --------------------------------
(***************************************************************************)
(* The fibers that run PostgreSQL transactions: api/task/tx/begin.rs,      *)
(* api/tx (guard, savepoints, finish), api/task (admission, leases) and    *)
(* the wait tables of protocol/runtime that wake them.                     *)
(*                                                                         *)
(* A fiber begins one transaction, asks within it, and commits or rolls    *)
(* back.  It moves only when it is polled, and is polled only when a reply,*)
(* a wait table or its deadline made it runnable.  The pool's own          *)
(* bookkeeping (ready index, sync boundaries, protocol errors) is PgPool's;*)
(* here a slot is what the fibers see of it.  The generation of a          *)
(* transaction is the fiber that began it, which begins only once.         *)
(***************************************************************************)
EXTENDS Naturals, Sequences, FiniteSets

CONSTANTS
    TxFibers,   \* fibers, one transaction each
    TxConns,    \* connection slots
    NoFiber,    \* no fiber
    Room,       \* bound: orders a lane admits
    TxEvents    \* bound: requests inside transactions and of others, pauses and
                \* connections that fail by themselves, all together

ASSUME TxAssumption ==
    /\ NoFiber \notin TxFibers
    /\ TxConns # {}
    /\ Room \in Nat /\ TxEvents \in Nat

VARIABLES
    txSlot,     \* slot::Phase: state, life (connection token) and the transaction in it
    txRecv,     \* slots that are receiving and so are not listed
    txOrders,   \* replies outstanding on a connection, oldest first
    txServer,   \* what the server has open: transaction block, what was committed, events so far
    txFiber,    \* the fibers
    txWaits,    \* where a fiber's Waiter is registered: None, Ready, Egress or Table
    txNotified, \* fibers whose notifier was notified and not flushed
    txTable,    \* waiters::Table: target registered and target queued per slot
    txQueue,    \* order of the table's queued slots
    txRun       \* runnable fibers

txVars == <<txSlot, txRecv, txOrders, txServer, txFiber, txWaits, txNotified,
            txTable, txQueue, txRun>>

Ends == {"Commit", "Rollback"}
Asks == {"Call", "Save", "Release", "Revert"}
Active == {"Waiting", "Begin", "Connecting", "Response", "Holding", "Settling"}

TxInit ==
    /\ txSlot = [c \in TxConns |-> [state |-> "Shared", life |-> 1, tx |-> NoFiber]]
    /\ txRecv = {}
    /\ txOrders = [c \in TxConns |-> <<>>]
    /\ txServer = [block |-> [c \in TxConns |-> "Idle"], committed |-> {}, events |-> 0]
    /\ txFiber = [f \in TxFibers |->
           [at |-> "Waiting", kind |-> "Begin", conn |-> CHOOSE c \in TxConns : TRUE, life |-> 0,
            reply |-> "None", save |-> "None"]]
    /\ txWaits = [f \in TxFibers |-> "None"]
    /\ txNotified = {}
    /\ txTable = [c \in TxConns |-> [target |-> NoFiber, queued |-> NoFiber]]
    /\ txQueue = <<>>
    /\ txRun = TxFibers

-----------------------------------------------------------------------------
(* The slot as a transaction sees it, and the wait tables.                 *)

\* Access::current against the transaction of fiber f.
Seen(slots, f) ==
    LET s == slots[txFiber[f].conn] IN
    CASE s.state = "Vacant" \/ s.life # txFiber[f].life -> "Stale"
      [] s.state = "Closing" -> "Closing"
      [] s.tx = f -> s.state
      [] OTHER -> "Other"

IsCurrent(f) == Seen(txSlot, f) \in {"Reserved", "Held"}
IsCurrentFinal(f) == Seen(txSlot, f) = "Finalizing"

SetState(c, state, tx) == [txSlot EXCEPT ![c] = [@ EXCEPT !.state = state, !.tx = tx]]

\* Notifier::notify of the ready waiters, and of an egress lane.
Notify(waits) == txNotified \cup {f \in TxFibers : waits[f] = "Ready"}
ReleaseLane(waits, c) == {f \in TxFibers : waits[f] = "Egress" /\ txFiber[f].conn = c}

\* Table::wake: a slot is queued once, with the last target it was woken for.
QueueTarget(table, c, f) == [table EXCEPT ![c].queued = f]
Enqueue(queue, table, c) == IF table[c].queued = NoFiber THEN Append(queue, c) ELSE queue

\* Shared::wake_tx for the transaction f in slot c.
WakeTx(waits, c, f) ==
    /\ txTable' = QueueTarget(txTable, c, f)
    /\ txQueue' = Enqueue(txQueue, txTable, c)
    /\ txNotified' = Notify(waits)

\* Waiter::unregister; a notification already under way for f goes with it.
Unregistered(f) == [txWaits EXCEPT ![f] = "None"]
Forget(f) == txNotified \ {f}

\* Shared::wake_close and apply_close; a lease that is not current closes nothing.
CloseConn(c, waits) ==
    /\ txSlot' = SetState(c, "Closing", NoFiber)
    /\ txRecv' = txRecv \ {c}
    /\ IF txSlot[c].state \in {"Reserved", "Held", "Finalizing"}
       THEN WakeTx(waits, c, txSlot[c].tx)
       ELSE /\ txNotified' = Notify(waits)
            /\ UNCHANGED <<txTable, txQueue>>

\* Mutant: a lease over a finalization is never current.
AbortsHeld(f) == IsCurrent(f)

\* Client::abort of a Recover lease held by f.
Aborts(f) == IsCurrent(f) \/ IsCurrentFinal(f)
Abort(f) ==
    /\ txWaits' = Unregistered(f)
    /\ IF Aborts(f)
       THEN CloseConn(txFiber[f].conn, Unregistered(f))
       ELSE /\ txNotified' = Forget(f)
            /\ UNCHANGED <<txSlot, txRecv, txTable, txQueue>>

\* The fiber's future is done with nothing to give back.
Leave(f) ==
    /\ txWaits' = Unregistered(f)
    /\ txNotified' = Forget(f)
    /\ UNCHANGED <<txSlot, txRecv, txTable, txQueue>>

\* Response::detach: an order whose future is gone is answered to nobody.
Detached(f) ==
    [c \in TxConns |->
        [i \in 1..Len(txOrders[c]) |->
            IF txOrders[c][i].tx = f THEN [txOrders[c][i] EXCEPT !.attached = FALSE]
                                     ELSE txOrders[c][i]]]

To(f, at, kind) == [txFiber EXCEPT ![f] = [@ EXCEPT !.at = at, !.kind = kind, !.reply = "None"]]
Ended(f, reply) ==
    [txFiber EXCEPT ![f] = [@ EXCEPT !.at = "Done", !.reply = reply, !.life = 0]]
Sleep(f) == txRun' = txRun \ {f}
HasEvents == txServer.events < TxEvents
Event == [txServer EXCEPT !.events = @ + 1]
Runs(f, at) == f \in txRun /\ txFiber[f].at = at
Order(f, kind) == [tx |-> f, kind |-> kind, attached |-> TRUE, sent |-> FALSE, failed |-> FALSE]
HasRoom(c) == Len(txOrders[c]) < Room

-----------------------------------------------------------------------------
(* Begin::poll_admit and the answer to BEGIN.                              *)

Pickable == {c \in TxConns \ txRecv : txSlot[c].state = "Shared"}
Blocking == \E c \in TxConns : txSlot[c].state \in {"Reserved", "Held"}

BeginAdmit(f) ==
    /\ Runs(f, "Waiting")
    /\ \E c \in Pickable :
         /\ HasRoom(c)
         /\ txSlot' = SetState(c, "Reserved", f)
         /\ txOrders' = [txOrders EXCEPT ![c] = Append(@, Order(f, "Begin"))]
         /\ txFiber' = [txFiber EXCEPT ![f] =
                [@ EXCEPT !.at = "Begin", !.conn = c, !.life = txSlot[c].life]]
    /\ txWaits' = Unregistered(f)
    /\ txNotified' = Forget(f)
    /\ Sleep(f)
    /\ UNCHANGED <<txRecv, txServer, txTable, txQueue>>

\* The lane is full: the reservation is released, which wakes the others, and the
\* fiber waits for that lane's egress.
BeginFull(f) ==
    /\ Runs(f, "Waiting")
    /\ \E c \in Pickable :
         /\ ~HasRoom(c)
         /\ WakeTx(Unregistered(f), c, f)
         /\ txFiber' = [txFiber EXCEPT ![f].conn = c]
    /\ txWaits' = [txWaits EXCEPT ![f] = "Egress"]
    /\ Sleep(f)
    /\ UNCHANGED <<txSlot, txRecv, txOrders, txServer>>

BeginBlocked(f) ==
    /\ Runs(f, "Waiting") /\ Pickable = {} /\ Blocking
    /\ txFiber' = Ended(f, "Error")
    /\ Leave(f) /\ Sleep(f)
    /\ UNCHANGED <<txOrders, txServer>>

BeginWait(f) ==
    /\ Runs(f, "Waiting") /\ Pickable = {} /\ ~Blocking
    /\ txWaits' = [txWaits EXCEPT ![f] = "Ready"]
    /\ txNotified' = Forget(f)
    /\ Sleep(f)
    /\ UNCHANGED <<txSlot, txRecv, txOrders, txServer, txFiber, txTable, txQueue>>

\* Begin::poll in Pending; Builder::begin may then set a timeout before the guard exists.
BeginReply(f) ==
    /\ Runs(f, "Begin") /\ txFiber[f].reply # "None"
    /\ IF txFiber[f].reply = "Ok" /\ Seen(txSlot, f) = "Held"
       THEN /\ \/ txFiber' = To(f, "Guard", "None") /\ Sleep(f)
               \/ txFiber' = To(f, "Connecting", "Set") /\ UNCHANGED txRun
            /\ Leave(f)
       ELSE txFiber' = Ended(f, "Error") /\ Abort(f) /\ Sleep(f)
    /\ UNCHANGED <<txOrders, txServer>>

-----------------------------------------------------------------------------
(* Requests inside the transaction.                                        *)

\* Guard::query, Guard::savepoint, Savepoint::release and Savepoint::rollback.
Offers(f, kind) ==
    CASE kind = "Call" -> TRUE
      [] kind = "Save" -> txFiber[f].save = "None"
      [] OTHER -> txFiber[f].save = "Open"

Ask(f, kind) ==
    /\ txFiber[f].at = "Guard" /\ Offers(f, kind) /\ HasEvents
    /\ txFiber' = To(f, "Connecting", kind)
    /\ txServer' = Event
    /\ txRun' = txRun \cup {f}
    /\ UNCHANGED <<txSlot, txRecv, txOrders, txWaits, txNotified, txTable, txQueue>>

\* What an unsuccessful request costs its transaction: the futures of Release, Revert and
\* of a failed timeout own a Recover lease that they drop; Call and Save own none.
Drops(kind) == kind \in {"Release", "Revert", "Set"}

GiveUp(f, kind) ==
    IF Drops(kind)
    THEN /\ Abort(f)
         /\ txFiber' = IF kind = "Set" THEN Ended(f, "Error")
                       ELSE [To(f, "Guard", "None") EXCEPT ![f].save = "Lost"]
    ELSE Leave(f) /\ txFiber' = To(f, "Guard", "None")

\* State::poll_with and Core::poll_admit for a request pinned to the transaction.
\* The end of a transaction is sealed by Held::begin as its order is published.
Dispatch(f) ==
    LET c == txFiber[f].conn
        kind == txFiber[f].kind IN
    /\ Runs(f, "Connecting")
    /\ UNCHANGED txServer
    /\ CASE ~IsCurrent(f) ->
              /\ IF kind \in Ends THEN txFiber' = Ended(f, "Error") /\ Leave(f) ELSE GiveUp(f, kind)
              /\ Sleep(f) /\ UNCHANGED txOrders
         [] IsCurrent(f) /\ c \in txRecv ->
              /\ txWaits' = [txWaits EXCEPT ![f] = "Ready"] /\ txNotified' = Forget(f)
              /\ Sleep(f)
              /\ UNCHANGED <<txSlot, txRecv, txOrders, txFiber, txTable, txQueue>>
         [] IsCurrent(f) /\ c \notin txRecv /\ ~HasRoom(c) ->
              /\ txWaits' = [txWaits EXCEPT ![f] = "Egress"] /\ txNotified' = Forget(f)
              /\ Sleep(f)
              /\ UNCHANGED <<txSlot, txRecv, txOrders, txFiber, txTable, txQueue>>
         [] OTHER ->
              /\ txOrders' = [txOrders EXCEPT ![c] = Append(@, Order(f, kind))]
              /\ txFiber' = To(f, "Response", kind)
              /\ txSlot' = IF kind \in Ends THEN SetState(c, "Finalizing", f) ELSE txSlot
              /\ txWaits' = Unregistered(f) /\ txNotified' = Forget(f)
              /\ Sleep(f)
              /\ UNCHANGED <<txRecv, txTable, txQueue>>

\* The reply of a request that leaves the transaction running.
Reply(f) ==
    LET kind == txFiber[f].kind IN
    /\ Runs(f, "Response") /\ txFiber[f].reply # "None" /\ kind \notin Ends
    /\ UNCHANGED <<txOrders, txServer>>
    /\ IF txFiber[f].reply = "Error"
       THEN GiveUp(f, kind) /\ Sleep(f)
       ELSE /\ Leave(f)
            /\ CASE kind = "Revert" ->
                      txFiber' = To(f, "Connecting", "Release") /\ UNCHANGED txRun
                 [] kind = "Save" ->
                      txFiber' = [To(f, "Guard", "None") EXCEPT ![f].save = "Open"] /\ Sleep(f)
                 [] kind = "Release" ->
                      txFiber' = [To(f, "Guard", "None") EXCEPT ![f].save = "None"] /\ Sleep(f)
                 [] OTHER -> txFiber' = To(f, "Guard", "None") /\ Sleep(f)

\* The caller drops a request: a Call only detaches; an admitted Save holds a lease.
DropAsk(f) ==
    LET kind == txFiber[f].kind IN
    /\ txFiber[f].at \in {"Connecting", "Response"} /\ kind \in Asks
    /\ txOrders' = Detached(f)
    /\ IF kind = "Save" /\ txFiber[f].at = "Response"
       THEN Abort(f) /\ txFiber' = To(f, "Guard", "None")
       ELSE GiveUp(f, kind)
    /\ Sleep(f)
    /\ UNCHANGED txServer

\* Savepoint dropped or cancelled while open.
DropSavepoint(f) ==
    /\ txFiber[f].at = "Guard" /\ txFiber[f].save = "Open"
    /\ Abort(f)
    /\ txFiber' = [txFiber EXCEPT ![f].save = "Lost"]
    /\ UNCHANGED <<txOrders, txServer, txRun>>

-----------------------------------------------------------------------------
(* The end of a transaction: Finish.                                       *)

\* Guard::commit, Guard::rollback and Guard::finish, which picks one by the outcome.
StartFinish(f, end) ==
    /\ txFiber[f].at = "Guard" /\ txFiber[f].save # "Open"
    /\ txFiber' = To(f, "Holding", end)
    /\ txRun' = txRun \cup {f}
    /\ UNCHANGED <<txSlot, txRecv, txOrders, txServer, txWaits, txNotified, txTable, txQueue>>

\* Table::try_register: the slot's single waiter may be another fiber's.
Occupied(f) == \E g \in TxFibers \ {f} :
    txWaits[g] = "Table" /\ txFiber[g].conn = txFiber[f].conn
Register(f) ==
    /\ txTable' = [txTable EXCEPT ![txFiber[f].conn].target = f]
    /\ txWaits' = [txWaits EXCEPT ![f] = "Table"]
    /\ txNotified' = Forget(f)

\* Finish::poll in Holding: the batch must have settled before COMMIT is sent.
Settled(f) == txOrders[txFiber[f].conn] = <<>>

PollHolding(f) ==
    /\ Runs(f, "Holding")
    /\ UNCHANGED <<txOrders, txServer>>
    /\ CASE Seen(txSlot, f) # "Held" -> txFiber' = Ended(f, "Error") /\ Abort(f) /\ Sleep(f)
         [] Seen(txSlot, f) = "Held" /\ Settled(f) ->
              txFiber' = To(f, "Connecting", txFiber[f].kind) /\ Leave(f) /\ UNCHANGED txRun
         [] Seen(txSlot, f) = "Held" /\ ~Settled(f) /\ ~Occupied(f) ->
              Register(f) /\ Sleep(f) /\ UNCHANGED <<txSlot, txRecv, txFiber, txQueue>>
         [] OTHER -> txFiber' = Ended(f, "Error") /\ Abort(f) /\ Sleep(f)

\* poll_settled: whether the slot went back to the pool, was lost, or is still finalizing.
TxDisposition(f) ==
    CASE Seen(txSlot, f) \in {"Reserved", "Held", "Finalizing"} -> "Pending"
      [] Seen(txSlot, f) = "Other" -> "Reusable"
      [] OTHER -> "Lost"

\* Finish::poll from the reply on: one poll takes the reply and settles.
PollSettling(f) ==
    /\ \/ Runs(f, "Response") /\ txFiber[f].reply # "None" /\ txFiber[f].kind \in Ends
       \/ Runs(f, "Settling")
    /\ Sleep(f)
    /\ UNCHANGED <<txOrders, txServer>>
    /\ CASE TxDisposition(f) = "Pending" /\ ~Occupied(f) ->
              /\ Register(f)
              /\ txFiber' = [txFiber EXCEPT ![f].at = "Settling"]
              /\ UNCHANGED <<txSlot, txRecv, txQueue>>
         [] TxDisposition(f) = "Pending" /\ Occupied(f) ->
              txFiber' = Ended(f, "Error") /\ Abort(f)
         [] TxDisposition(f) = "Reusable" -> txFiber' = Ended(f, txFiber[f].reply) /\ Leave(f)
         [] OTHER -> txFiber' = Ended(f, "Error") /\ Leave(f)

\* Guard::cancel, or a Begin or Finish future dropped: the lease it owns is returned.
DropTx(f) ==
    /\ txFiber[f].at \in {"Waiting", "Begin", "Guard", "Holding", "Settling"}
          \/ (txFiber[f].at \in {"Connecting", "Response"} /\ txFiber[f].kind \in Ends)
    /\ txFiber[f].save # "Open"
    /\ txFiber' = Ended(f, "Error")
    /\ txOrders' = Detached(f)
    /\ Abort(f) /\ Sleep(f)
    /\ UNCHANGED txServer

\* deadline::Guard::poll_expired in any of the polls: Begin::fail, Finish::fail,
\* Stateful's abort and Core::fail, which leaves a detached call's connection open.
Expire(f) ==
    LET kind == txFiber[f].kind IN
    /\ txFiber[f].at \in Active
    /\ txOrders' = Detached(f)
    /\ CASE kind = "Save" /\ txFiber[f].at = "Response" ->
              Abort(f) /\ txFiber' = To(f, "Guard", "None")
         [] kind \in Asks \cup {"Set"} /\ ~(kind = "Save" /\ txFiber[f].at = "Response") ->
              GiveUp(f, kind)
         [] OTHER -> txFiber' = Ended(f, "Error") /\ Abort(f)
    /\ Sleep(f)
    /\ UNCHANGED txServer

-----------------------------------------------------------------------------
(* The connection and the server.                                          *)

Front(c) == Head(txOrders[c])
Block(c) == txServer.block[c]
Serving(c) == txOrders[c] # <<>> /\ txSlot[c].state \notin {"Closing", "Vacant"}
Unanswered(c) == Serving(c) /\ Front(c).sent /\ ~Front(c).failed

\* What PostgreSQL makes of a command it runs, or refuses, in a transaction block.
Ran(kind, block) ==
    CASE kind = "Begin" -> "Open"
      [] kind \in Ends -> "Idle"
      [] OTHER -> IF block = "Idle" THEN "Idle" ELSE "Open"
Refused(kind, block) ==
    IF block = "Idle" \/ kind \in Ends THEN "Idle" ELSE "Failed"
Runnable(kind, block) == block # "Failed" \/ kind \in Ends \cup {"Revert"}

\* Mutant: any tag ends a COMMIT well.
RolledBackNever(kind, block) == FALSE

\* The reply CommandComplete makes of a command: COMMIT of a failed block answers with
\* the tag ROLLBACK, which fails the request.
RolledBack(kind, block) == kind = "Commit" /\ block = "Failed"

\* Index::poll_ready: what ReadyForQuery makes of the slot, and whether it wakes the
\* transaction in it.
NextState(state, block) ==
    CASE state = "Reserved" /\ block # "Idle" -> "Held"
      [] state = "Finalizing" -> "Shared"
      [] OTHER -> state
\* Mutant: only the end of a transaction wakes its fiber.
ReadyWakesEnd(state) == state = "Finalizing"

ReadyWakes(state) == state \in {"Reserved", "Held", "Finalizing"}

\* Turn::try_settle: the order retires, its lane's egress is released (Port::maintain)
\* and the slot moves on.
Settle(c, block) ==
    LET s == txSlot[c]
        next == NextState(s.state, block)
        room == ReleaseLane(txWaits, c) IN
    /\ txOrders' = [txOrders EXCEPT ![c] = Tail(@)]
    /\ txSlot' = SetState(c, next, IF next = "Shared" THEN NoFiber ELSE s.tx)
    /\ IF ReadyWakes(s.state)
       THEN /\ txTable' = QueueTarget(txTable, c, s.tx)
            /\ txQueue' = Enqueue(txQueue, txTable, c)
            /\ txNotified' = Notify(txWaits) \cup room
       ELSE /\ txNotified' = txNotified \cup room
            /\ UNCHANGED <<txTable, txQueue>>

Answered(c, reply) ==
    IF Front(c).attached
    THEN /\ txFiber' = [txFiber EXCEPT ![Front(c).tx].reply = reply]
         /\ txRun' = txRun \cup {Front(c).tx}
    ELSE UNCHANGED <<txFiber, txRun>>

\* CommandComplete and the ReadyForQuery that ends the batch: a success is delivered
\* as the batch settles, in the same turn that moves the slot.
Succeed(c) ==
    LET kind == Front(c).kind
        block == Ran(kind, Block(c)) IN
    /\ Unanswered(c) /\ Runnable(kind, Block(c)) /\ ~RolledBack(kind, Block(c))
    /\ txServer' = [txServer EXCEPT
           !.block[c] = block,
           !.committed = IF kind = "Commit" /\ Block(c) = "Open" THEN @ \cup {Front(c).tx} ELSE @]
    /\ Answered(c, "Ok")
    /\ Settle(c, block)
    /\ UNCHANGED <<txRecv, txWaits>>

\* ErrorResponse, or the tag ROLLBACK: a failure is delivered before the batch settles.
TxFail(c) ==
    LET kind == Front(c).kind IN
    /\ Unanswered(c) /\ kind # "Rollback"
    /\ txServer' = [txServer EXCEPT !.block[c] = Refused(kind, @)]
    /\ txOrders' = [txOrders EXCEPT ![c][1].failed = TRUE]
    /\ Answered(c, "Error")
    /\ UNCHANGED <<txSlot, txRecv, txWaits, txNotified, txTable, txQueue>>

ReadyForQuery(c) ==
    /\ Serving(c) /\ Front(c).failed
    /\ Settle(c, Block(c))
    /\ UNCHANGED <<txRecv, txServer, txFiber, txWaits, txRun>>

\* A request of another client on a shared connection (PgPool models these).
Plain(c) ==
    /\ c \in Pickable /\ HasRoom(c) /\ HasEvents
    /\ txOrders' = [txOrders EXCEPT ![c] = Append(@, [Order(NoFiber, "Call") EXCEPT !.attached = FALSE])]
    /\ txServer' = Event
    /\ UNCHANGED <<txSlot, txRecv, txFiber, txWaits, txNotified, txTable, txQueue, txRun>>

\* Set::set_receiving: reads stop for a slow consumer, and resume.
Pause(c) ==
    /\ txSlot[c].state \notin {"Closing", "Vacant"} /\ c \notin txRecv /\ txOrders[c] # <<>> /\ HasEvents
    /\ txRecv' = txRecv \cup {c}
    /\ txServer' = Event
    /\ UNCHANGED <<txSlot, txOrders, txFiber, txWaits, txNotified, txTable, txQueue, txRun>>

TxResume(c) ==
    /\ c \in txRecv
    /\ txRecv' = txRecv \ {c}
    /\ txNotified' = Notify(txWaits)
    /\ UNCHANGED <<txSlot, txOrders, txServer, txFiber, txWaits, txTable, txQueue, txRun>>

\* The peer or the protocol fails the connection.
TxDisconnect(c) ==
    /\ txSlot[c].state \notin {"Closing", "Vacant"} /\ HasEvents
    /\ CloseConn(c, txWaits)
    /\ txServer' = Event
    /\ UNCHANGED <<txOrders, txFiber, txWaits, txRun>>

\* Control::deactivate: every order of a closing connection fails.  The server may yet
\* have run a COMMIT it was sent.
Owed(c) == {txOrders[c][i].tx : i \in {i \in 1..Len(txOrders[c]) :
                                        txOrders[c][i].attached /\ ~txOrders[c][i].failed}}
Sent(c) == {txOrders[c][i].tx : i \in {i \in 1..Len(txOrders[c]) :
                                        txOrders[c][i].kind = "Commit" /\ Block(c) = "Open"}}
Retire(c) ==
    /\ txSlot[c].state = "Closing"
    /\ txSlot' = SetState(c, "Vacant", NoFiber)
    /\ txOrders' = [txOrders EXCEPT ![c] = <<>>]
    /\ txFiber' = [f \in TxFibers |->
           IF f \in Owed(c) THEN [txFiber[f] EXCEPT !.reply = "Error"] ELSE txFiber[f]]
    /\ txRun' = txRun \cup Owed(c)
    /\ \E late \in SUBSET Sent(c) :
          txServer' = [txServer EXCEPT !.block[c] = "Idle", !.committed = @ \cup late]
    /\ txNotified' = Notify(txWaits) \cup {f \in TxFibers : txWaits[f] = "Egress"}
    /\ txTable' = [d \in TxConns |->
           [txTable[d] EXCEPT !.queued = IF txTable[d].target # NoFiber THEN txTable[d].target ELSE @]]
    /\ \E q \in {s \in UNION {[1..n -> TxConns] : n \in 0..Cardinality(TxConns)} :
                   /\ \A i, j \in DOMAIN s : s[i] = s[j] => i = j
                   /\ \A d \in TxConns : (\E i \in DOMAIN s : s[i] = d) <=> txTable'[d].queued # NoFiber
                   /\ SubSeq(s, 1, Len(txQueue)) = txQueue} : txQueue' = q
    /\ UNCHANGED <<txRecv, txWaits>>

\* A new connection is ready: Set::bind, then Set::try_ready notifies.
Reopen(c) ==
    /\ txSlot[c].state = "Vacant"
    /\ txSlot' = [txSlot EXCEPT ![c] = [state |-> "Shared", life |-> @.life + 1, tx |-> NoFiber]]
    /\ txNotified' = Notify(txWaits)
    /\ UNCHANGED <<txRecv, txOrders, txServer, txFiber, txWaits, txTable, txQueue, txRun>>

-----------------------------------------------------------------------------
(* Lifecycle::park: waiters::Set::flush.                                   *)

FlushNotified(f) ==
    /\ f \in txNotified
    /\ txNotified' = txNotified \ {f}
    /\ txWaits' = [txWaits EXCEPT ![f] = "None"]
    /\ txRun' = txRun \cup {f}
    /\ UNCHANGED <<txSlot, txRecv, txOrders, txServer, txFiber, txTable, txQueue>>

\* The end of a turn: Table::flush takes one slot, and wakes only the target registered
\* there; what was published in the turn is on its way to the server.
FlushTarget ==
    LET c == Head(txQueue)
        f == txTable[c].queued
        mine == txTable[c].target = f
        waiting == mine /\ txWaits[f] = "Table" /\ txFiber[f].conn = c IN
    /\ txQueue' = Tail(txQueue)
    /\ txTable' = [txTable EXCEPT ![c] =
           [target |-> IF mine THEN NoFiber ELSE @.target, queued |-> NoFiber]]
    /\ txWaits' = IF waiting THEN [txWaits EXCEPT ![f] = "None"] ELSE txWaits
    /\ txRun' = IF waiting THEN txRun \cup {f} ELSE txRun

Sending == [c \in TxConns |->
    [i \in 1..Len(txOrders[c]) |-> [txOrders[c][i] EXCEPT !.sent = TRUE]]]

Park ==
    /\ txQueue # <<>> \/ Sending # txOrders
    /\ txOrders' = Sending
    /\ IF txQueue # <<>> THEN FlushTarget ELSE UNCHANGED <<txQueue, txTable, txWaits, txRun>>
    /\ UNCHANGED <<txSlot, txRecv, txServer, txFiber, txNotified>>

-----------------------------------------------------------------------------
TxPoll(f) ==
    \/ BeginAdmit(f) \/ BeginFull(f) \/ BeginBlocked(f) \/ BeginWait(f) \/ BeginReply(f)
    \/ Dispatch(f) \/ Reply(f) \/ PollHolding(f) \/ PollSettling(f)

User(f) ==
    \/ \E kind \in Asks : Ask(f, kind)
    \/ \E end \in Ends : StartFinish(f, end)
    \/ DropAsk(f) \/ DropSavepoint(f) \/ DropTx(f)

Server(c) == Succeed(c) \/ TxFail(c) \/ ReadyForQuery(c)

TxNext ==
    \/ \E f \in TxFibers : TxPoll(f) \/ User(f) \/ Expire(f) \/ FlushNotified(f)
    \/ Park
    \/ \E c \in TxConns : Server(c) \/ Plain(c) \/ Pause(c) \/ TxResume(c) \/ TxDisconnect(c) \/ Retire(c) \/ Reopen(c)

\* The queued wake of f was replaced by one for the slot's next transaction, so that
\* Table::flush finds another target than the registered one and drops it.
Overtaken(f) ==
    /\ txWaits[f] = "Table"
    /\ txTable[txFiber[f].conn].queued # f /\ Seen(txSlot, f) \notin {"Held", "Finalizing"}

\* The driver polls what is runnable and parks while a wait table is pending; the server
\* answers; reads resume; a closing connection is retired.  A deadline is needed by a
\* fiber whose wake was overtaken, and by no other.
TxFairness ==
    /\ \A f \in TxFibers : /\ WF_txVars(TxPoll(f) \/ FlushNotified(f))
                           /\ WF_txVars(Overtaken(f) /\ Expire(f))
    /\ WF_txVars(Park)
    /\ \A c \in TxConns : WF_txVars(Server(c)) /\ WF_txVars(TxResume(c) \/ Retire(c) \/ Reopen(c))

TxSpec == TxInit /\ [][TxNext]_txVars /\ TxFairness

-----------------------------------------------------------------------------
(* Properties.                                                             *)

\* A slot that a transaction owns is owned by a live fiber on that connection: no drop,
\* failure or timeout of a fiber leaves its connection reserved.
TxBacked == \A c \in TxConns :
    txSlot[c].state \in {"Reserved", "Held", "Finalizing"} =>
        LET f == txSlot[c].tx IN
        /\ txFiber[f].at # "Done" /\ txFiber[f].conn = c /\ txFiber[f].life = txSlot[c].life

\* A commit that reports success was committed by the server, also when the block had
\* failed before; a transaction that lost an open savepoint, or whose rollback
\* reports success, is never committed.
CommitTruth == \A f \in TxFibers :
    /\ txFiber[f].at = "Done" /\ txFiber[f].reply = "Ok" =>
          (f \in txServer.committed <=> txFiber[f].kind = "Commit")
    /\ txFiber[f].save = "Lost" => f \notin txServer.committed

\* Connections of transactions are backed by live fibers, and what a finished
\* transaction reports is what the server did.
TxSound == TxBacked /\ CommitTruth

\* Without its deadline, a fiber that waits for a slot, a reply or the settlement of its
\* transaction goes on: no wake is lost between the wait tables and the slots.
TxEnds == \A f \in TxFibers : txFiber[f].at \in Active ~> txFiber[f].at \notin Active

=============================================================================
