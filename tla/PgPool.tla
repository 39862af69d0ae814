------------------------------- MODULE PgPool -------------------------------
(***************************************************************************)
(* The PostgreSQL connection pool: the slots of port/pool, the ready index *)
(* of protocol/runtime/ready that selects among them, the session of       *)
(* protocol/logic that interprets the server's answers, and the            *)
(* transaction leases of api/task/tx and api/tx.                           *)
(*                                                                         *)
(* A ready connection is Shared, and then listed in the index, or is       *)
(* taken through Reserved (BEGIN sent), Held and Finalizing (COMMIT or     *)
(* ROLLBACK sent) by one transaction, told apart from the others of the    *)
(* same connection by a wrapping access generation.  Commands are          *)
(* pipelined in batches that end with a Sync; the server answers every     *)
(* command up to the first error, skips to the Sync, and closes the batch  *)
(* with ReadyForQuery and the state of its transaction.  The program is    *)
(* single threaded: an operation is atomic, but the session yields while   *)
(* it settles a batch, and operations of the clients come in between.      *)
(***************************************************************************)
EXTENDS Integers, Sequences, FiniteSets

CONSTANTS
    Conns,      \* number of connection slots
    MaxGen,     \* bound: connection generations a slot goes through
    Wrap,       \* modulus of the access sequence, 2^64 in the code
    Batches,    \* modulus of the batch number, 2^64 in the code
    Buckets,    \* rows of the index; loads beyond the last share it
    Inflight,   \* entries the reply arena can hold
    Queued,     \* entries the request arena can hold
    Calls,      \* pooled commands; one is reused once out of lane and wire
    Txs,        \* transactions; one is reused likewise
    Stray,      \* may the text of a command open or close a transaction?
    Rogue       \* may the server answer what it was not asked?

ASSUME PoolAssumption ==
    /\ Conns \in Nat \ {0} /\ MaxGen \in Nat /\ Inflight \in Nat /\ Queued \in Nat
    /\ Wrap \in Nat /\ Wrap > 1
    /\ Batches \in Nat /\ Batches > 2
    /\ Buckets \in Nat \ {0}
    /\ Stray \in BOOLEAN /\ Rogue \in BOOLEAN

Slot == 0 .. Conns - 1
Nobody == "Nobody"

(* Commands and transactions are told apart, also from none and from a     *)
(* transaction that the text of a command has begun.                       *)
ASSUME NamesAssumption ==
    Calls \cap Txs = {} /\ Nobody \notin Calls \cup Txs /\ "Stray" \notin Txs

NoTarget == [slot |-> -1, gen |-> 0, seq |-> 0]
Unlisted == -1

Accesses == {"None", "Shared", "Reserved", "Held", "Finalizing", "Draining"}
Owned == {"Reserved", "Held", "Finalizing"}
Boundaries == {"Close", "Open", "External"}

VARIABLES
    phase,      \* [Slot -> Vacant, Handshaking, Ready, Closing]
    gen,        \* [Slot -> generation of the connection id]
    access,     \* [Slot -> Accesses]: access::State, None unless Ready
    seq,        \* [Slot -> sequence or generation of that state]
    receiving,  \* [Slot -> is input of the connection still to be parsed]
    sync,       \* [Slot -> Synced, Automatic, Explicit]
    pending,    \* [Slot -> Syncs whose ReadyForQuery is due]
    batch,      \* [Slot -> batch of the next command]
    index,      \* [rank : [Slot -> bucket or Unlisted], min : cached minimum]
    live,       \* Index::live
    blockers,   \* Index::blockers
    session,    \* [Slot -> Startup, Ready, or Failed once nothing is read]
    progress,   \* [Slot -> Running, Complete, Skipping]
    sbatch,     \* [Slot -> batch the session is answering]
    settling,   \* [Slot -> status of a ReadyForQuery being settled, or No]
    lane,       \* [Slot -> Seq of replies due: batch, kind, by, ends]
    queue,      \* [Slot -> Seq of frames not yet handed to the link]
    wire,       \* [Slot -> Seq of frames whose answers are to come]
    skip,       \* [Slot -> is the server discarding frames up to a Sync]
    txn,        \* [Slot -> Txs, Nobody or Stray: the server's transaction]
    stage,      \* [Txs -> Idle, Begin, Open, Finish]
    target,     \* [Txs -> access::Transaction of its lease]
    reply       \* [Txs -> Due, Ok, Err: reply of its BEGIN or its end]

slotVars == <<phase, gen, access, seq, receiving, sync, pending, batch>>
indexVars == <<index, live, blockers>>
sessionVars == <<session, progress, sbatch, settling>>
serverVars == <<wire, skip, txn>>
txVars == <<stage, target, reply>>
vars == <<slotVars, indexVars, sessionVars, lane, queue, serverVars, txVars>>

-----------------------------------------------------------------------------
(* The ready index: buckets of listed slots and a cached minimum *)

Clamp(load) == IF load < Buckets THEN load ELSE Buckets - 1
Listed(s) == index.rank[s] # Unlisted
Bucket(ix, r) == {s \in Slot : ix.rank[s] = r}

(* Entry::attach.                                                          *)
Attach(ix, s, r) ==
    [rank |-> [ix.rank EXCEPT ![s] = r],
     min |-> IF Bucket(ix, r) = {} /\ (ix.min = Unlisted \/ r < ix.min)
             THEN r ELSE ix.min]

(* The occupied row find returns from row r on, if any.                    *)
FindFrom(ix, r) ==
    LET rows == {q \in r .. Buckets - 1 : Bucket(ix, q) # {}}
    IN IF rows = {} THEN Unlisted ELSE CHOOSE q \in rows : \A p \in rows : q <= p

(* Entry::detach.  Mutant: the minimum is cleared rather than advanced.    *)
DetachClears(ix, s) ==
    LET left == [ix EXCEPT !.rank[s] = Unlisted]
    IN IF Bucket(left, ix.rank[s]) = {} /\ ix.min = ix.rank[s]
       THEN [left EXCEPT !.min = Unlisted] ELSE left
Detach(ix, s) ==
    LET left == [ix EXCEPT !.rank[s] = Unlisted]
    IN IF Bucket(left, ix.rank[s]) = {} /\ ix.min = ix.rank[s]
       THEN [left EXCEPT !.min = FindFrom(left, ix.rank[s] + 1)]
       ELSE left

(* Entry::reprioritize does nothing to an entry that is not listed.        *)
Reprioritize(ix, s, load) ==
    IF ix.rank[s] \in {Unlisted, Clamp(load)} THEN ix
    ELSE Attach(Detach(ix, s), s, Clamp(load))

-----------------------------------------------------------------------------
(* Slots *)

Id(s) == [slot |-> s, gen |-> gen[s], seq |-> seq[s]]
Barriers(s) == pending[s] + (IF sync[s] = "Synced" THEN 0 ELSE 1)
Load(s) == Len(lane[s]) + Barriers(s)

(* Slot::try_close with Index::close.  A second close changes nothing that *)
(* is modelled; a vacant slot has nothing to close.                        *)
(* Mutant: a finalizing transaction is counted as a blocker too.           *)
BlocksOwned(s) == access[s] \in Owned
Blocks(s) == access[s] \in {"Reserved", "Held"}

CloseSlot(s) ==
    IF phase[s] \in {"Handshaking", "Ready"}
    THEN /\ phase' = [phase EXCEPT ![s] = "Closing"]
         /\ access' = [access EXCEPT ![s] = "None"]
         /\ receiving' = [receiving EXCEPT ![s] = FALSE]
         /\ sync' = [sync EXCEPT ![s] = "Synced"]
         /\ pending' = [pending EXCEPT ![s] = 0]
         /\ index' = IF Listed(s) THEN Detach(index, s) ELSE index
         /\ live' = IF phase[s] = "Ready" THEN live - 1 ELSE live
         /\ blockers' = IF Blocks(s) THEN blockers - 1 ELSE blockers
         /\ UNCHANGED <<gen, seq, batch>>
    ELSE UNCHANGED <<slotVars, indexVars>>

(* Shared::reindex once the lane holds d replies and p Syncs are due: a    *)
(* listed route moves, a draining one without load closes.                 *)
Reindex(s, d, p) ==
    LET load == d + p + (IF sync[s] = "Synced" THEN 0 ELSE 1)
    IN IF access[s] = "Draining" /\ load = 0
       THEN CloseSlot(s)
       ELSE /\ index' = IF access[s] = "Shared"
                        THEN Reprioritize(index, s, load) ELSE index
            /\ pending' = [pending EXCEPT ![s] = p]
            /\ UNCHANGED <<phase, gen, access, seq, receiving, sync, batch,
                           live, blockers>>

(* Turn::fail: the session stops and its connection closes.                *)
Fails(s) ==
    /\ session' = [session EXCEPT ![s] = "Failed"]
    /\ progress' = [progress EXCEPT ![s] = "Running"]
    /\ settling' = [settling EXCEPT ![s] = "No"]
    /\ UNCHANGED sbatch
    /\ CloseSlot(s)

-----------------------------------------------------------------------------
(* Connections *)

Init ==
    /\ phase = [s \in Slot |-> "Vacant"] /\ gen = [s \in Slot |-> 0]
    /\ access = [s \in Slot |-> "None"] /\ seq = [s \in Slot |-> 0]
    /\ receiving = [s \in Slot |-> FALSE]
    /\ sync = [s \in Slot |-> "Synced"]
    /\ pending = [s \in Slot |-> 0] /\ batch = [s \in Slot |-> 0]
    /\ index = [rank |-> [s \in Slot |-> Unlisted], min |-> Unlisted]
    /\ live = 0 /\ blockers = 0
    /\ session = [s \in Slot |-> "Failed"]
    /\ progress = [s \in Slot |-> "Running"]
    /\ sbatch = [s \in Slot |-> 0] /\ settling = [s \in Slot |-> "No"]
    /\ lane = [s \in Slot |-> <<>>] /\ queue = [s \in Slot |-> <<>>]
    /\ wire = [s \in Slot |-> <<>>] /\ skip = [s \in Slot |-> FALSE]
    /\ txn = [s \in Slot |-> Nobody]
    /\ stage = [h \in Txs |-> "Idle"] /\ target = [h \in Txs |-> NoTarget]
    /\ reply = [h \in Txs |-> "Due"]

(* Control::activate and Turn::connect on a vacant slot.                   *)
Bind(s) ==
    /\ phase[s] = "Vacant" /\ gen[s] < MaxGen
    /\ phase' = [phase EXCEPT ![s] = "Handshaking"]
    /\ gen' = [gen EXCEPT ![s] = @ + 1]
    /\ batch' = [batch EXCEPT ![s] = 0]
    /\ session' = [session EXCEPT ![s] = "Startup"]
    /\ progress' = [progress EXCEPT ![s] = "Running"]
    /\ sbatch' = [sbatch EXCEPT ![s] = 0]
    /\ UNCHANGED <<access, seq, receiving, sync, pending, indexVars, settling,
                   lane, queue, serverVars, txVars>>

(* The last answer of the handshake: Turn::prepare and Index::try_ready.   *)
TryReady(s) ==
    /\ phase[s] = "Handshaking" /\ session[s] = "Startup"
    /\ phase' = [phase EXCEPT ![s] = "Ready"]
    /\ access' = [access EXCEPT ![s] = "Shared"]
    /\ seq' = [seq EXCEPT ![s] = 0]
    /\ index' = Attach(index, s, 0)
    /\ live' = live + 1
    /\ session' = [session EXCEPT ![s] = "Ready"]
    /\ UNCHANGED <<gen, receiving, sync, pending, batch, blockers, progress,
                   sbatch, settling, lane, queue, serverVars, txVars>>

(* The driver gives up the connection: quarantine, io_fail, a failed send. *)
Quarantine(s) ==
    /\ phase[s] \in {"Handshaking", "Ready"}
    /\ CloseSlot(s)
    /\ UNCHANGED <<sessionVars, lane, queue, serverVars, txVars>>

(* The driver has met Egress::Close: it reads no more from the link.       *)
Cut(s) ==
    /\ phase[s] = "Closing" /\ session[s] # "Failed"
    /\ session' = [session EXCEPT ![s] = "Failed"]
    /\ settling' = [settling EXCEPT ![s] = "No"]
    /\ UNCHANGED <<slotVars, indexVars, progress, sbatch, lane, queue,
                   serverVars, txVars>>

(* What a reply that leaves the lane means for the transaction it is of.   *)
Answer(e, how) ==
    reply' = IF e.ends THEN [reply EXCEPT ![e.by] = how] ELSE reply

(* clear_recv fails the replies of a closing connection one by one, and    *)
(* clear_send drops its requests.                                          *)
ClearRecv(s) ==
    /\ phase[s] = "Closing" /\ session[s] = "Failed" /\ lane[s] # <<>>
    /\ lane' = [lane EXCEPT ![s] = Tail(@)]
    /\ Answer(Head(lane[s]), "Err")
    /\ UNCHANGED <<slotVars, indexVars, sessionVars, queue, serverVars, stage,
                   target>>

ClearSend(s) ==
    /\ phase[s] = "Closing" /\ session[s] = "Failed" /\ queue[s] # <<>>
    /\ queue' = [queue EXCEPT ![s] = <<>>]
    /\ UNCHANGED <<slotVars, indexVars, sessionVars, lane, serverVars, txVars>>

(* Control::deactivate: the link is gone, and the server rolls back.       *)
Deactivate(s) ==
    /\ phase[s] = "Closing" /\ session[s] = "Failed"
    /\ lane[s] = <<>> /\ queue[s] = <<>>
    /\ phase' = [phase EXCEPT ![s] = "Vacant"]
    /\ wire' = [wire EXCEPT ![s] = <<>>]
    /\ skip' = [skip EXCEPT ![s] = FALSE]
    /\ txn' = [txn EXCEPT ![s] = Nobody]
    /\ UNCHANGED <<gen, access, seq, receiving, sync, pending, batch, indexVars,
                   sessionVars, lane, queue, txVars>>

-----------------------------------------------------------------------------
(* Requests *)

(* Sync::try_next, or None when the slot must refuse the boundary.         *)
NextSync(state, boundary) ==
    CASE boundary = "Open" /\ state # "Explicit" -> "Automatic"
      [] boundary = "External" /\ state = "Synced" -> "Explicit"
      [] boundary \in {"Close", "Begin", "Commit"} /\ state # "Explicit" -> "Synced"
      [] OTHER -> "None"

(* Tag::new.                                                               *)
Kind(boundary) ==
    CASE boundary = "Open" -> "Command"
      [] boundary \in {"Close", "External"} -> "Ready"
      [] OTHER -> boundary

Closes(boundary) == boundary \in {"Close", "Begin", "Commit"}
Frame(by, does, ends) == [by |-> by, does |-> does, sync |-> ends]
SyncFrame == Frame(Nobody, "Sync", TRUE)

(* Permit::commit at a boundary that sends a Sync.                         *)
NextBatch(b) == (b + 1) % Batches

(* An entry is left in the arenas the lanes share, for a request and for a *)
(* reply.                                                                  *)
Entries(lanes) == Cardinality(UNION {{s} \X DOMAIN lanes[s] : s \in Slot})
RequestRoom == Entries(queue) < Queued
Room == RequestRoom /\ Entries(lane) < Inflight

(* Nothing of an earlier use of the name is left.                          *)
Fresh(who) ==
    /\ \A s \in Slot : \A i \in DOMAIN lane[s] : lane[s][i].by # who
    /\ \A s \in Slot : \A i \in DOMAIN queue[s] : queue[s][i].by # who
    /\ \A s \in Slot : \A i \in DOMAIN wire[s] : wire[s][i].by # who

(* The load of a slot with one more reply, once the boundary is committed. *)
(* Mutant: the barriers are read before the commit.                        *)
LoadBefore(s, boundary) == Len(lane[s]) + 1 + Barriers(s)
LoadAfter(s, boundary) ==
    Len(lane[s]) + 1 + pending[s]
        + (IF Closes(boundary) \/ NextSync(sync[s], boundary) # "Synced" THEN 1 ELSE 0)

(* Access::try_with on a slot whose listing is ix: the reply is ordered,   *)
(* the request queued, the boundary committed and the slot moved to its    *)
(* new load, in one step.                                                  *)
Publish(s, by, does, boundary, ends, ix) ==
    LET next == NextSync(sync[s], boundary)
        due == pending[s] + (IF Closes(boundary) THEN 1 ELSE 0)
    IN /\ next # "None" /\ Room
       /\ lane' = [lane EXCEPT ![s] = Append(@,
              [batch |-> batch[s], kind |-> Kind(boundary), by |-> by, ends |-> ends])]
       /\ queue' = [queue EXCEPT ![s] = Append(@, Frame(by, does, Closes(boundary)))]
       /\ sync' = [sync EXCEPT ![s] = next]
       /\ pending' = [pending EXCEPT ![s] = due]
       /\ batch' = [batch EXCEPT ![s] = IF Closes(boundary) THEN NextBatch(@) ELSE @]
       /\ index' = Reprioritize(ix, s, LoadAfter(s, boundary))

Does(boundary) == IF boundary = "External" THEN "Copy" ELSE "Stmt"

(* A pooled command.  Set::pick takes a listed slot; which one depends on  *)
(* the policy.  Mutant: any ready slot without an open transaction.        *)
PicksFinalizing(s) == phase[s] = "Ready" /\ access[s] \in {"Shared", "Finalizing"}
Picks(s) == Listed(s)

Call(c, s, boundary) ==
    /\ Fresh(c) /\ Picks(s)
    /\ Publish(s, c, Does(boundary), boundary, FALSE, index)
    /\ UNCHANGED <<phase, gen, access, seq, receiving, live, blockers,
                   sessionVars, serverVars, txVars>>

(* Access::try_sync: the writer of a COPY closes it.                       *)
CopyFinish(s) ==
    /\ phase[s] = "Ready" /\ access[s] # "Draining" /\ sync[s] = "Explicit"
    /\ RequestRoom
    /\ queue' = [queue EXCEPT ![s] = Append(@, SyncFrame)]
    /\ sync' = [sync EXCEPT ![s] = "Synced"]
    /\ pending' = [pending EXCEPT ![s] = @ + 1]
    /\ batch' = [batch EXCEPT ![s] = NextBatch(@)]
    /\ UNCHANGED <<phase, gen, access, seq, receiving, indexVars, sessionVars,
                   lane, serverVars, txVars>>

(* What a server that answers at will was sent makes no difference.        *)
Sent(s, frame) == IF Rogue THEN wire ELSE [wire EXCEPT ![s] = Append(@, frame)]

(* Access::drain hands a request to the link.                              *)
Drain(s) ==
    /\ phase[s] = "Ready" /\ queue[s] # <<>>
    /\ wire' = Sent(s, Head(queue[s]))
    /\ queue' = [queue EXCEPT ![s] = Tail(@)]
    /\ UNCHANGED <<slotVars, indexVars, sessionVars, lane, skip, txn, txVars>>

-----------------------------------------------------------------------------
(* The session *)

(* Lane::front: the kind of the reply in front if it is of the batch the   *)
(* session answers.  Mutant: the batches are compared as plain numbers.    *)
FrontNoWrap(s) ==
    IF lane[s] = <<>> THEN "None"
    ELSE LET ahead == Head(lane[s]).batch - sbatch[s]
         IN IF ahead = 0 THEN Head(lane[s]).kind
            ELSE IF ahead > 0 THEN "None" ELSE "Stale"
Front(s) ==
    IF lane[s] = <<>> THEN "None"
    ELSE LET ahead == (Head(lane[s]).batch - sbatch[s]) % Batches
         IN IF ahead = 0 THEN Head(lane[s]).kind
            ELSE IF ahead <= (Batches - 1) \div 2 THEN "None" ELSE "Stale"

(* Pops the reply in front; the slot moves to its new load.                *)
Pop(s, how) ==
    /\ lane' = [lane EXCEPT ![s] = Tail(@)]
    /\ Answer(Head(lane[s]), how)

(* CommandComplete, and EmptyQueryResponse, as Turn::ready takes them.     *)
OnComplete(s, tag) ==
    \/ /\ progress[s] # "Running" \/ Front(s) \in {"None", "Stale"}
       /\ Fails(s)
       /\ UNCHANGED <<lane, reply>>
    \/ /\ progress[s] = "Running" /\ Front(s) = "Command"
       /\ Pop(s, "Ok") /\ Reindex(s, Len(lane[s]) - 1, pending[s])
       /\ UNCHANGED sessionVars
    \/ /\ progress[s] = "Running" /\ Front(s) = "Commit" /\ tag = "ROLLBACK"
       /\ Pop(s, "Err") /\ Reindex(s, Len(lane[s]) - 1, pending[s])
       /\ progress' = [progress EXCEPT ![s] = "Skipping"]
       /\ UNCHANGED <<session, sbatch, settling>>
    \/ /\ progress[s] = "Running"
       /\ \/ Front(s) \in {"Ready", "Begin"}
          \/ Front(s) = "Commit" /\ tag # "ROLLBACK"
       /\ progress' = [progress EXCEPT ![s] = "Complete"]
       /\ UNCHANGED <<slotVars, indexVars, session, sbatch, settling, lane, reply>>

(* ErrorResponse, as Turn::reply_error takes it: one that no reply of the  *)
(* batch can take, or of connection scope, stops the session.              *)
OnError(s, scope) ==
    \/ /\ Front(s) \in {"None", "Stale"}
       /\ Fails(s)
       /\ UNCHANGED <<lane, reply>>
    \/ /\ Front(s) \notin {"None", "Stale"} /\ scope = "Connection"
       /\ Pop(s, "Err") /\ Fails(s)
    \/ /\ Front(s) \notin {"None", "Stale"} /\ scope = "Command"
       /\ Pop(s, "Err") /\ Reindex(s, Len(lane[s]) - 1, pending[s])
       /\ progress' = [progress EXCEPT ![s] = "Skipping"]
       /\ UNCHANGED <<session, sbatch, settling>>

(* ReadyForQuery, as Turn::ready takes it: the status must agree with who  *)
(* holds the connection.                                                   *)
(* Mutant: a transaction is taken for that of the BEGIN on its way.        *)
AcceptsReserved(s, status) ==
    IF status = "Transaction" THEN access[s] \in {"Reserved", "Held"}
    ELSE access[s] # "Held"
Accepts(s, status) ==
    IF status = "Transaction"
    THEN access[s] = "Held" \/ (access[s] = "Reserved" /\ Front(s) = "Begin")
    ELSE access[s] # "Held"

OnReady(s, status) ==
    \/ /\ Accepts(s, status)
       /\ settling' = [settling EXCEPT ![s] = status]
       /\ UNCHANGED <<slotVars, indexVars, session, progress, sbatch>>
    \/ /\ ~Accepts(s, status)
       /\ Fails(s)

-----------------------------------------------------------------------------
(* The server, and the session reading its answers in order *)

(* The next message is read once the one before it has settled.            *)
Listens(s) == session[s] = "Ready" /\ settling[s] = "No"
Reads(s) == Listens(s) /\ wire[s] # <<>>
At(s) == Head(wire[s])

(* The server has run the command of a frame, and has its Sync to answer.  *)
Ran(s) ==
    wire' = [wire EXCEPT ![s] =
                 IF Head(@).sync THEN <<SyncFrame>> \o Tail(@) ELSE Tail(@)]

(* The transaction the server may be in once it has run frame f.           *)
Effects(s, f) ==
    CASE f.does = "Begin" /\ txn[s] = Nobody -> {f.by}
      [] f.does \in {"Commit", "Rollback"} -> {Nobody}
      [] f.does = "Stmt" /\ Stray ->
             {txn[s], Nobody} \cup (IF f.by \in Calls THEN {"Stray"} ELSE {})
      [] OTHER -> {txn[s]}

(* A command succeeds: a COPY once its data has ended; a COMMIT may answer *)
(* ROLLBACK.                                                               *)
CommandComplete(s, tag) ==
    /\ Reads(s) /\ ~skip[s] /\ At(s).does # "Sync"
    /\ At(s).does = "Copy" => Len(wire[s]) > 1
    /\ tag = "ROLLBACK" => At(s).does = "Commit"
    /\ Ran(s)
    /\ \E t \in Effects(s, At(s)) : txn' = [txn EXCEPT ![s] = t]
    /\ OnComplete(s, tag)
    /\ UNCHANGED <<queue, skip, stage, target>>

(* A command fails, and the server discards what follows up to the Sync;   *)
(* at the Sync itself an implicit transaction may still fail to commit.    *)
ErrorResponse(s, scope) ==
    /\ Reads(s) /\ ~skip[s]
    /\ At(s).does = "Sync" => progress[s] # "Skipping" /\ txn[s] = Nobody
    /\ Ran(s)
    /\ skip' = [skip EXCEPT ![s] = ~At(s).sync]
    /\ txn' \in {txn, [txn EXCEPT ![s] = Nobody]}
    /\ IF At(s).does \in {"Commit", "Rollback"}
       THEN Stray \/ txn'[s] = Nobody ELSE txn' = txn
    /\ OnError(s, scope)
    /\ UNCHANGED <<queue, stage, target>>

(* After an error the server reads and discards up to the Sync.            *)
Discard(s) ==
    /\ Reads(s) /\ skip[s]
    /\ Ran(s)
    /\ skip' = [skip EXCEPT ![s] = ~At(s).sync]
    /\ UNCHANGED <<slotVars, indexVars, sessionVars, lane, queue, txn, txVars>>

Status(s) == IF txn[s] = Nobody THEN "Idle" ELSE "Transaction"
ReadyForQuery(s) ==
    /\ Reads(s) /\ ~skip[s] /\ At(s).does = "Sync"
    /\ wire' = [wire EXCEPT ![s] = Tail(@)]
    /\ OnReady(s, Status(s))
    /\ UNCHANGED <<lane, queue, skip, txn, txVars>>

(* A server that does not keep to the protocol.                            *)
RogueComplete(s, tag) ==
    /\ Rogue /\ Listens(s)
    /\ OnComplete(s, tag)
    /\ UNCHANGED <<queue, serverVars, stage, target>>
RogueError(s, scope) ==
    /\ Rogue /\ Listens(s)
    /\ OnError(s, scope)
    /\ UNCHANGED <<queue, serverVars, stage, target>>
RogueReady(s, status) ==
    /\ Rogue /\ Listens(s)
    /\ OnReady(s, status)
    /\ UNCHANGED <<lane, queue, serverVars, txVars>>

-----------------------------------------------------------------------------
(* The end of a batch *)

(* Turn::try_settle fails a reply the server has skipped; it yields when   *)
(* its work budget is spent.                                               *)
SettleSkipped(s) ==
    /\ session[s] = "Ready" /\ settling[s] # "No"
    /\ progress[s] = "Skipping" /\ Front(s) \notin {"None", "Stale"}
    /\ Pop(s, "Err") /\ Reindex(s, Len(lane[s]) - 1, pending[s])
    /\ UNCHANGED <<sessionVars, queue, serverVars, stage, target>>

(* The reply the batch retained for its ReadyForQuery.                     *)
Retained(s) == progress[s] = "Complete" /\ Front(s) \in {"Ready", "Begin", "Commit"}
Settles(s) == Retained(s) \/ (progress[s] # "Complete" /\ Front(s) = "None")

(* Slot::settle on a ready slot.  Mutant: the Sync is not taken off.       *)
SettledNever(s) == pending[s]
Settled(s) == pending[s] - 1

(* Index::poll_ready.  Mutant: the slot is listed while it is receiving.   *)
RelistsAlways(s) == access[s] = "Finalizing"
Relists(s) == access[s] = "Finalizing" /\ ~receiving[s]

PollReady(s, status, load) ==
    \/ /\ access[s] = "Reserved" /\ status = "Transaction"
       /\ access' = [access EXCEPT ![s] = "Held"]
       /\ UNCHANGED index
    \/ /\ access[s] = "Finalizing" /\ status = "Idle"
       /\ access' = [access EXCEPT ![s] = "Shared"]
       /\ index' = IF Relists(s) THEN Attach(index, s, Clamp(load)) ELSE index

(* The batch is closed: Lane::settle and what its status means for the     *)
(* transaction.                                                            *)
SettleDone(s) ==
    /\ session[s] = "Ready" /\ settling[s] # "No" /\ Settles(s)
    /\ IF Retained(s) THEN Pop(s, "Ok") ELSE UNCHANGED <<lane, reply>>
    /\ UNCHANGED <<queue, serverVars, stage, target>>
    /\ LET depth == Len(lane[s]) - (IF Retained(s) THEN 1 ELSE 0)
           changes == \/ access[s] = "Reserved" /\ settling[s] = "Transaction"
                      \/ access[s] = "Finalizing" /\ settling[s] = "Idle"
           next == /\ progress' = [progress EXCEPT ![s] = "Running"]
                   /\ sbatch' = [sbatch EXCEPT ![s] = NextBatch(@)]
                   /\ settling' = [settling EXCEPT ![s] = "No"]
                   /\ UNCHANGED session
       IN \/ /\ phase[s] = "Closing"
             /\ next /\ UNCHANGED <<slotVars, indexVars>>
          \/ /\ phase[s] = "Ready" /\ pending[s] = 0
             /\ Fails(s)
          \/ /\ phase[s] = "Ready" /\ pending[s] > 0 /\ changes
             /\ next
             /\ PollReady(s, settling[s], depth + Barriers(s) - 1)
             /\ pending' = [pending EXCEPT ![s] = Settled(s)]
             /\ UNCHANGED <<phase, gen, seq, receiving, sync, batch, live, blockers>>
          \/ /\ phase[s] = "Ready" /\ pending[s] > 0 /\ ~changes
             /\ next /\ Reindex(s, depth, Settled(s))

(* try_settle finds a reply that the batch should have answered, or none   *)
(* to answer.                                                              *)
SettleFails(s) ==
    /\ session[s] = "Ready" /\ settling[s] # "No"
    /\ ~Settles(s)
    /\ ~(progress[s] = "Skipping" /\ Front(s) \notin {"None", "Stale"})
    /\ Fails(s)
    /\ UNCHANGED <<lane, queue, serverVars, txVars>>

(* Turn::try_flush at the end of a turn: input left unread takes the slot  *)
(* off the index or puts it back, and an open pipeline whose requests have *)
(* all left is closed by a Sync.                                           *)
Unread(s, input) == input = "Yield" \/ (input = "Partial" /\ Front(s) = "None")
Admitted(s, unread) ==
    CASE unread /\ Listed(s) -> Detach(index, s)
      [] ~unread /\ receiving[s] /\ access[s] = "Shared" ->
             Attach(index, s, Clamp(Load(s)))
      [] OTHER -> index

Flush(s, input) ==
    /\ session[s] = "Ready" /\ phase[s] = "Ready"
    /\ settling[s] # "No" => input = "Yield"
    /\ receiving' = [receiving EXCEPT ![s] = Unread(s, input)]
    /\ index' = Admitted(s, Unread(s, input))
    /\ IF sync[s] = "Automatic" /\ queue[s] = <<>>
       THEN /\ wire' = Sent(s, SyncFrame)
            /\ sync' = [sync EXCEPT ![s] = "Synced"]
            /\ pending' = [pending EXCEPT ![s] = @ + 1]
            /\ batch' = [batch EXCEPT ![s] = NextBatch(@)]
       ELSE UNCHANGED <<wire, sync, pending, batch>>
    /\ UNCHANGED <<phase, gen, access, seq, live, blockers, sessionVars, lane,
                   queue, skip, txn, txVars>>

-----------------------------------------------------------------------------
(* Transactions *)

(* Sequence::next.  Mutant: no modulus.                                    *)
SequenceNoWrap(n) == n + 1
NextSequence(n) == (n + 1) % Wrap

(* Set::pick_begin: an open pipeline cannot take a BEGIN.                  *)
PicksBegin(h, s) ==
    stage[h] = "Idle" /\ Fresh(h) /\ Listed(s) /\ sync[s] # "Automatic"

(* Begin::poll_admit: the slot is reserved and the BEGIN published.        *)
Begin(h, s) ==
    /\ PicksBegin(h, s) /\ NextSequence(seq[s]) # 0
    /\ access' = [access EXCEPT ![s] = "Reserved"]
    /\ seq' = [seq EXCEPT ![s] = NextSequence(@)]
    /\ blockers' = blockers + 1
    /\ Publish(s, h, "Begin", "Begin", TRUE, Detach(index, s))
    /\ stage' = [stage EXCEPT ![h] = "Begin"]
    /\ target' = [target EXCEPT ![h] = [Id(s) EXCEPT !.seq = NextSequence(@)]]
    /\ reply' = [reply EXCEPT ![h] = "Due"]
    /\ UNCHANGED <<phase, gen, receiving, live, sessionVars, serverVars>>

(* A COPY is open, or there is no room: the reservation is released, and   *)
(* its generation spent.                                                   *)
BeginRefused(h, s) ==
    /\ PicksBegin(h, s) /\ NextSequence(seq[s]) # 0
    /\ sync[s] = "Explicit" \/ ~Room
    /\ seq' = [seq EXCEPT ![s] = NextSequence(@)]
    /\ UNCHANGED <<phase, gen, access, receiving, sync, pending, batch,
                   indexVars, sessionVars, lane, queue, serverVars, txVars>>

(* The generations are spent: the connection serves what it has, and       *)
(* closes.                                                                 *)
BeginDrains(h, s) ==
    /\ PicksBegin(h, s) /\ NextSequence(seq[s]) = 0
    /\ IF Load(s) = 0 THEN CloseSlot(s)
       ELSE /\ access' = [access EXCEPT ![s] = "Draining"]
            /\ index' = Detach(index, s)
            /\ UNCHANGED <<phase, gen, seq, receiving, sync, pending, batch,
                           live, blockers>>
    /\ UNCHANGED <<sessionVars, lane, queue, serverVars, txVars>>

(* Access::is_current of the lease of h, in one of some states.            *)
Current(h, states) ==
    /\ target[h] # NoTarget
    /\ LET s == target[h].slot
       IN phase[s] = "Ready" /\ access[s] \in states /\ Id(s) = target[h]

(* Lease::abort: Client::abort closes a connection still leased.           *)
(* Mutant: a lease is dropped without recovery.                            *)
RecoversNot(h, states) == FALSE
Recovers(h, states) == Current(h, states)
Abort(h, states) ==
    /\ IF Recovers(h, states) THEN CloseSlot(target[h].slot)
       ELSE UNCHANGED <<slotVars, indexVars>>
    /\ stage' = [stage EXCEPT ![h] = "Idle"]
    /\ target' = [target EXCEPT ![h] = NoTarget]
    /\ UNCHANGED <<sessionVars, lane, queue, serverVars, reply>>

(* The BEGIN is answered: Begin::poll.                                     *)
BeginDone(h) ==
    /\ stage[h] = "Begin" /\ reply[h] # "Due"
    /\ \/ /\ reply[h] = "Ok" /\ Current(h, {"Held"})
          /\ stage' = [stage EXCEPT ![h] = "Open"]
          /\ UNCHANGED <<slotVars, indexVars, sessionVars, lane, queue,
                         serverVars, target, reply>>
       \/ /\ ~(reply[h] = "Ok" /\ Current(h, {"Held"}))
          /\ Abort(h, {"Reserved", "Held"})

(* A command of the transaction.                                           *)
TxCall(h, boundary) ==
    /\ stage[h] = "Open" /\ Current(h, {"Held"}) /\ ~receiving[target[h].slot]
    /\ Publish(target[h].slot, h, Does(boundary), boundary, FALSE, index)
    /\ UNCHANGED <<phase, gen, access, seq, receiving, live, blockers,
                   sessionVars, serverVars, txVars>>

(* Finish::poll: COMMIT or ROLLBACK once nothing of the transaction is     *)
(* due; Index::finalize lets go of the blocker as it is published.         *)
Finish(h, end) ==
    /\ stage[h] = "Open" /\ Current(h, {"Held"})
    /\ LET s == target[h].slot
       IN /\ Load(s) = 0 /\ ~receiving[s]
          /\ access' = [access EXCEPT ![s] = "Finalizing"]
          /\ Publish(s, h, end, IF end = "Commit" THEN "Commit" ELSE "Close",
                     TRUE, index)
    /\ blockers' = blockers - 1
    /\ stage' = [stage EXCEPT ![h] = "Finish"]
    /\ reply' = [reply EXCEPT ![h] = "Due"]
    /\ UNCHANGED <<phase, gen, seq, receiving, live, sessionVars, serverVars, target>>

(* The end is answered and its batch settled.                              *)
FinishDone(h) ==
    /\ stage[h] = "Finish" /\ reply[h] # "Due"
    /\ ~Current(h, Owned)
    /\ stage' = [stage EXCEPT ![h] = "Idle"]
    /\ target' = [target EXCEPT ![h] = NoTarget]
    /\ UNCHANGED <<slotVars, indexVars, sessionVars, lane, queue, serverVars, reply>>

(* The fiber of a transaction is dropped, times out, or finds it lost.     *)
DropTx(h) ==
    \/ stage[h] \in {"Begin", "Open"} /\ Abort(h, {"Reserved", "Held"})
    \/ stage[h] = "Finish" /\ Abort(h, {"Finalizing"})

-----------------------------------------------------------------------------

Next ==
    \/ \E s \in Slot :
          \/ Bind(s) \/ TryReady(s) \/ Quarantine(s) \/ Cut(s)
          \/ ClearRecv(s) \/ ClearSend(s) \/ Deactivate(s)
          \/ CopyFinish(s) \/ Drain(s)
          \/ Discard(s) \/ ReadyForQuery(s)
          \/ SettleSkipped(s) \/ SettleDone(s) \/ SettleFails(s)
    \/ \E s \in Slot, tag \in {"Done", "ROLLBACK"} :
          CommandComplete(s, tag) \/ RogueComplete(s, tag)
    \/ \E s \in Slot, scope \in {"Command", "Connection"} :
          ErrorResponse(s, scope) \/ RogueError(s, scope)
    \/ \E s \in Slot, status \in {"Idle", "Transaction"} : RogueReady(s, status)
    \/ \E s \in Slot, input \in {"Empty", "Partial", "Yield"} : Flush(s, input)
    \/ \E s \in Slot, c \in Calls, b \in Boundaries : Call(c, s, b)
    \/ \E s \in Slot, h \in Txs :
          Begin(h, s) \/ BeginRefused(h, s) \/ BeginDrains(h, s)
    \/ \E h \in Txs :
          \/ BeginDone(h) \/ FinishDone(h) \/ DropTx(h)
          \/ \E b \in Boundaries : TxCall(h, b)
          \/ \E end \in {"Commit", "Rollback"} : Finish(h, end)

Spec == Init /\ [][Next]_vars

-----------------------------------------------------------------------------
(* Properties *)

(* Every variable has its type, and the access sequence keeps its width.   *)
TypeOK ==
    /\ phase \in [Slot -> {"Vacant", "Handshaking", "Ready", "Closing"}]
    /\ gen \in [Slot -> 0 .. MaxGen]
    /\ access \in [Slot -> Accesses]
    /\ \A s \in Slot : access[s] = "None" <=> phase[s] # "Ready"
    /\ seq \in [Slot -> 0 .. Wrap - 1]
    /\ receiving \in [Slot -> BOOLEAN]
    /\ sync \in [Slot -> {"Synced", "Automatic", "Explicit"}]
    /\ pending \in [Slot -> Nat]
    /\ batch \in [Slot -> 0 .. Batches - 1]
    /\ index \in [rank : [Slot -> Unlisted .. Buckets - 1], min : Unlisted .. Buckets - 1]
    /\ live \in Int /\ blockers \in Int
    /\ session \in [Slot -> {"Startup", "Ready", "Failed"}]
    /\ progress \in [Slot -> {"Running", "Complete", "Skipping"}]
    /\ sbatch \in [Slot -> 0 .. Batches - 1]
    /\ settling \in [Slot -> {"No", "Idle", "Transaction"}]
    /\ skip \in [Slot -> BOOLEAN]
    /\ txn \in [Slot -> Txs \cup {Nobody, "Stray"}]
    /\ stage \in [Txs -> {"Idle", "Begin", "Open", "Finish"}]
    /\ reply \in [Txs -> {"Due", "Ok", "Err"}]

(* A slot is in the index exactly when a pooled command may take it: it is *)
(* ready, shared and has no input left to parse.  Everything that inserts  *)
(* or removes an entry relies on the other operations having kept this.    *)
ListedExact ==
    \A s \in Slot :
        Listed(s) <=> phase[s] = "Ready" /\ access[s] = "Shared" /\ ~receiving[s]

(* The counters that decide whether a command waits, fails with            *)
(* backpressure or reports a failure count what they are said to count,    *)
(* which is what their unchecked subtractions rest on.                     *)
CountersExact ==
    /\ live = Cardinality({s \in Slot : phase[s] = "Ready"})
    /\ blockers = Cardinality({s \in Slot : access[s] \in {"Reserved", "Held"}})

(* A listed slot is ranked by its present load, replies and barriers, no   *)
(* matter which of commands, Syncs and answers changed it last.            *)
RankExact == \A s \in Slot : Listed(s) => index.rank[s] = Clamp(Load(s))

(* The ready index is exact: whom it lists, and at which load.             *)
IndexExact == ListedExact /\ RankExact

(* The cached minimum is the rank of a listed slot, and the least: the     *)
(* unchecked read of its bucket finds an entry.                            *)
MinimumExact ==
    LET ranks == {index.rank[s] : s \in {r \in Slot : Listed(r)}}
    IN IF ranks = {} THEN index.min = Unlisted
       ELSE index.min \in ranks /\ \A r \in ranks : index.min <= r

(* While the server is in the transaction of h, and once its BEGIN is on   *)
(* its way, every request that follows is of h.                            *)
Requests(s) == wire[s] \o queue[s]
TxIsolation ==
    \A s \in Slot : \A j \in DOMAIN Requests(s) :
        LET by == Requests(s)[j].by
        IN /\ txn[s] \in Txs => by \in {txn[s], Nobody}
           /\ \A i \in 1 .. j - 1 : Requests(s)[i].does = "Begin" =>
                                        by \in {Requests(s)[i].by, Nobody}

(* When nothing is due on a connection, the server is in no transaction if *)
(* it is shared, and in the transaction of its holder if it is held and    *)
(* the holder has been told so: whatever the commands before did.          *)
StatusAgrees ==
    \A s \in Slot : phase[s] = "Ready" /\ session[s] = "Ready" /\ Load(s) = 0 =>
        /\ access[s] = "Shared" => txn[s] = Nobody
        /\ \A h \in Txs : stage[h] = "Open" /\ target[h] = Id(s) => txn[s] = h

(* A connection that is off the index for a transaction has exactly one    *)
(* holder, in the stage that will give it back or close it.                *)
LeaseBacked ==
    \A s \in Slot : access[s] \in Owned =>
        \E h \in Txs :
            /\ target[h] = Id(s)
            /\ stage[h] \in (CASE access[s] = "Reserved" -> {"Begin"}
                               [] access[s] = "Held" -> {"Begin", "Open"}
                               [] OTHER -> {"Finish"})
            /\ \A g \in Txs \ {h} : target[g] # Id(s)

(* The pool, the holders of its connections and the server agree: who      *)
(* holds a connection, and which transaction it is in once it is quiet.    *)
HoldersAgree == StatusAgrees /\ LeaseBacked

(* As many Syncs are counted as are queued, sent or being settled, and the *)
(* batches of the slot and of its session are that far apart.              *)
SyncsCounted ==
    \A s \in Slot : phase[s] = "Ready" =>
        /\ pending[s] = Cardinality({i \in DOMAIN Requests(s) : Requests(s)[i].sync})
                            + (IF settling[s] = "No" THEN 0 ELSE 1)
        /\ batch[s] = (sbatch[s] + pending[s]) % Batches

(* Only the Sync being answered may outlive the replies of its batch, as   *)
(* Permit::commit says: the counter of Syncs is bounded by the reply arena *)
(* and cannot overflow, whatever the server answers.                       *)
SyncsBounded == \A s \in Slot : pending[s] <= Len(lane[s]) + 1

(* What the unchecked arithmetic on the pool rests on, whatever the server *)
(* answers: whom the index lists and at which load, its counters, and the  *)
(* bound on the Syncs due.                                                 *)
PoolExact == TypeOK /\ IndexExact /\ CountersExact /\ SyncsBounded

(* A server that keeps to the protocol, and commands that leave            *)
(* transactions alone, are never taken for a protocol failure: the answer  *)
(* to a request finds the reply of that request in front, in the batch     *)
(* being answered, and a batch settles.                                    *)
Understood ==
    \A s \in Slot : session[s] = "Ready" =>
        /\ Reads(s) /\ ~skip[s] /\ At(s).does # "Sync" =>
               /\ progress[s] = "Running" /\ Front(s) \notin {"None", "Stale"}
               /\ Head(lane[s]).by = At(s).by
        /\ Reads(s) /\ ~skip[s] /\ At(s).does = "Sync" /\ phase[s] = "Ready" =>
               Accepts(s, Status(s))
        /\ settling[s] # "No" =>
               /\ Settles(s) \/ (progress[s] = "Skipping" /\ Front(s) # "Stale")
               /\ phase[s] = "Ready" => pending[s] > 0
=============================================================================
