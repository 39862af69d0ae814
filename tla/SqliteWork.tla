----------------------------- MODULE SqliteWork -----------------------------
(***************************************************************************)
(* The transactions, savepoints and deferred cleanup of the SQLite client: *)
(* engine/api/tx, engine/api/exec, engine/api/work and engine/conn.        *)
(*                                                                         *)
(* A scope that is dropped cannot await its rollback.  It leaves a debt in *)
(* Work instead, the shallowest savepoint still to roll back and release,  *)
(* or the whole transaction; the next call pays it before it runs, or the  *)
(* parked application does when no client holds the connection.  All       *)
(* savepoints have one name, so a control statement acts on the innermost  *)
(* one SQLite has open, and what it acts on follows only from the count in *)
(* Work::depth.  Any call and any scope may also be forgotten, which runs  *)
(* no destructor at all.                                                   *)
(*                                                                         *)
(* SQLite's calls are synchronous: an action is one poll of a call, up to  *)
(* its next yield.                                                         *)
(***************************************************************************)
EXTENDS Integers, SequencesExt

CONSTANTS
    MaxSave,    \* config.work.savepoints
    Writes      \* what queries write; one is reused once it is lost

ASSUME WorkAssumption == MaxSave \in Nat \ {0}

Ops == {"Begin", "Query", "Commit", "Rollback", "Open", "Release", "RollbackTo"}
NoCall == [op |-> "None", stage |-> "Start"]
NoScope == [tx |-> FALSE, saves |-> <<>>, failed |-> "None"]
NoDebt == [kind |-> "None", target |-> 0, undone |-> FALSE]
TxDebt == [NoDebt EXCEPT !.kind = "Tx"]
Failed == [NoDebt EXCEPT !.kind = "Failed"]

VARIABLES
    work,       \* [depth, debt, mode, health]: Work
    scope,      \* [tx, saves, failed]: the live Transaction, the depths its
                \*     live Savepoints own, and the fault they share
    call,       \* [op, stage]: the call that borrows the innermost scope
    conn,       \* Borrow of a live connection, or its later Phase
    frames,     \* Seq(SUBSET Writes): SQLite's transaction, a frame for it
                \*     and one for each open savepoint; <<>> in autocommit
    durable     \* SUBSET Writes: what SQLite has committed

vars == <<work, scope, call, conn, frames, durable>>

Init ==
    /\ work = [depth |-> 0, debt |-> NoDebt, mode |-> "Idle", health |-> "Healthy"]
    /\ scope = NoScope
    /\ call = NoCall
    /\ conn = "Vacant"
    /\ frames = <<>>
    /\ durable = {}

-----------------------------------------------------------------------------
(* Debts and the ends of scopes *)

(* Pending::transaction and Pending::savepoint.                            *)
(* Mutant: a debt that is owed already is left alone.                      *)
OwingTx(debt) == IF debt = Failed THEN debt ELSE TxDebt
OwingFirst(debt, depth) ==
    IF debt.kind = "None"
    THEN [kind |-> "Save", target |-> depth, undone |-> FALSE] ELSE debt
Owing(debt, depth) ==
    CASE debt.kind = "None" ->
             [kind |-> "Save", target |-> depth, undone |-> FALSE]
      [] debt.kind = "Save" ->
             [debt EXCEPT !.target = IF depth < @ THEN depth ELSE @]
      [] OTHER -> debt

Owed == work.debt.kind \in {"Tx", "Save"}

(* The destructors of Transaction and of Savepoint.  Mutant: an aborted    *)
(* transaction is rolled back as well.                                     *)
TxReturnAlways(w, failed) == [w EXCEPT !.debt = OwingTx(@)]
TxReturn(w, failed) ==
    IF failed = "Aborted" THEN [w EXCEPT !.depth = 0]
    ELSE [w EXCEPT !.debt = OwingTx(@)]

SaveReturn(w, s) ==
    IF s.failed = "None" THEN [w EXCEPT !.debt = Owing(@, Last(s.saves))] ELSE w

(* A call that is dropped, or returns an error, drops the scope it         *)
(* consumed.                                                               *)
Dropped(op, w, s) ==
    CASE op \in {"Commit", "Rollback"} -> <<TxReturn(w, s.failed), NoScope>>
      [] op = "Release" -> <<SaveReturn(w, s), [s EXCEPT !.saves = Front(@)]>>
      [] OTHER -> <<w, s>>

(* Transaction::commit and rollback first look whether SQLite is still in  *)
(* a transaction.                                                          *)
Ended(op, w, s, native) ==
    IF op \in {"Commit", "Rollback"} /\ native = <<>>
    THEN <<[w EXCEPT !.depth = 0], NoScope>>
    ELSE Dropped(op, w, s)

Leaves(pair) == work' = pair[1] /\ scope' = pair[2]
Idle(w) == [w EXCEPT !.mode = "Idle"]

(* Tx::error after a failed statement: native is what SQLite is left with. *)
Within(op, s) == s.tx /\ op \notin {"Begin", "Rollback"}
Faulted(op, w, s, native, busy) ==
    LET control == op # "Query"
        abort == native = <<>> \/ (control /\ ~busy)
    IN <<IF native # <<>> /\ control /\ ~busy
         THEN [w EXCEPT !.debt = OwingTx(@)] ELSE w,
         CASE Within(op, s) /\ abort -> [s EXCEPT !.failed = "Aborted"]
           [] Within(op, s) /\ ~abort /\ busy /\ op # "Commit" ->
                  [s EXCEPT !.failed = "Busy"]
           [] OTHER -> s>>

-----------------------------------------------------------------------------
(* Calls *)

Borrowed == conn \in {"Borrowed", "Stopping"}

Available ==
    CASE ~scope.tx -> {"Begin", "Query"}
      [] scope.tx /\ scope.saves = <<>> -> {"Query", "Open", "Commit", "Rollback"}
      [] OTHER -> {"Query", "Open", "Release", "RollbackTo"}

(* The checks before the first await.                                      *)
Barred(op) ==
    \/ op \in {"Commit", "Open"} /\ scope.failed # "None"
    \/ op = "Rollback" /\ scope.failed = "Aborted"

Ask(op) ==
    /\ Borrowed /\ call = NoCall /\ op \in Available
    /\ \/ /\ Barred(op)
          /\ Leaves(Dropped(op, work, scope))
          /\ UNCHANGED call
       \/ /\ ~Barred(op)
          /\ call' = [op |-> op, stage |-> "Start"]
          /\ UNCHANGED <<work, scope>>
    /\ UNCHANGED <<conn, frames, durable>>

Starts == call # NoCall /\ call.stage \in {"Start", "Loop"}
Blocked(op) == Within(op, scope) /\ scope.failed # "None"

(* Start::prepare is refused: the transaction failed, Health::check        *)
(* reports an error, or a forgotten call still holds the meter.            *)
Refuse ==
    /\ Starts /\ ~Owed
    /\ Blocked(call.op) \/ work.health # "Healthy" \/ work.mode # "Idle"
    /\ LET told == IF ~Blocked(call.op) /\ work.health = "Recoverable"
                   THEN [work EXCEPT !.health = "Healthy"] ELSE work
       IN Leaves(Ended(call.op, told, scope, frames))
    /\ call' = NoCall
    /\ UNCHANGED <<conn, frames, durable>>

Runs == Starts /\ ~Owed /\ ~Blocked(call.op) /\ work.health = "Healthy"
               /\ work.mode = "Idle"
Steps(op) == call.op = op /\ (Runs \/ call.stage \in {"Wait", "Rows"})

(* Depth::check.  Mutant: one more savepoint than the capacity.            *)
AdmitsOver == work.depth <= MaxSave
Admits == work.depth < MaxSave

(* The statement succeeds.                                                 *)
StepBegin ==
    /\ Steps("Begin") /\ frames = <<>>
    /\ frames' = <<{}>>
    /\ scope' = [NoScope EXCEPT !.tx = TRUE]
    /\ work' = Idle(work)
    /\ call' = NoCall
    /\ UNCHANGED <<conn, durable>>

StepCommit ==
    /\ Steps("Commit") /\ frames # <<>>
    /\ durable' = durable \cup UNION {frames[i] : i \in DOMAIN frames}
    /\ frames' = <<>>
    /\ Leaves(Ended("Commit", Idle(work), scope, <<>>))
    /\ call' = NoCall
    /\ UNCHANGED conn

StepRollback ==
    /\ Steps("Rollback") /\ frames # <<>>
    /\ frames' = <<>>
    /\ Leaves(Ended("Rollback", Idle(work), scope, <<>>))
    /\ call' = NoCall
    /\ UNCHANGED <<conn, durable>>

StepOpen ==
    /\ Steps("Open")
    /\ \/ /\ ~Admits
          /\ UNCHANGED <<work, scope, frames>>
       \/ /\ Admits /\ frames # <<>>
          /\ frames' = Append(frames, {})
          /\ work' = [Idle(work) EXCEPT !.depth = @ + 1]
          /\ scope' = [scope EXCEPT !.saves = Append(@, work.depth + 1)]
    /\ call' = NoCall
    /\ UNCHANGED <<conn, durable>>

(* RELEASE and ROLLBACK TO as SQLite runs them on its innermost savepoint. *)
Released(f) == [Front(f) EXCEPT ![Len(f) - 1] = @ \cup Last(f)]
Undone(f) == [f EXCEPT ![Len(f)] = {}]

(* Release::bind: savepoints left open inside the owned one are released   *)
(* first, one statement each.  Mutant: they are not.                       *)
ReachedAtOnce == TRUE
Reached == work.depth = Last(scope.saves)

StepRelease ==
    /\ Steps("Release") /\ Len(frames) > 1
    /\ frames' = Released(frames)
    /\ work' = [Idle(work) EXCEPT !.depth = @ - 1]
    /\ \/ /\ Reached
          /\ scope' = [scope EXCEPT !.saves = Front(@)]
          /\ call' = NoCall
       \/ /\ ~Reached
          /\ call' = [call EXCEPT !.stage = "Loop"]
          /\ UNCHANGED scope
    /\ UNCHANGED <<conn, durable>>

StepRollbackTo ==
    /\ Steps("RollbackTo") /\ Len(frames) > 1
    /\ \/ /\ Reached
          /\ frames' = Undone(frames)
          /\ work' = Idle(work)
          /\ call' = NoCall
       \/ /\ ~Reached
          /\ frames' = Released(frames)
          /\ work' = [Idle(work) EXCEPT !.depth = @ - 1]
          /\ call' = [call EXCEPT !.stage = "Loop"]
    /\ UNCHANGED <<scope, conn, durable>>

(* A query that reads, yields a row, or writes.                            *)
Lost(w) == w \notin durable /\ \A i \in DOMAIN frames : w \notin frames[i]

StepQuery ==
    /\ Steps("Query")
    /\ \/ /\ work' = Idle(work) /\ call' = NoCall
          /\ UNCHANGED <<frames, durable>>
       \/ /\ work' = [work EXCEPT !.mode = "Primary"]
          /\ call' = [call EXCEPT !.stage = "Rows"]
          /\ UNCHANGED <<frames, durable>>
       \/ \E w \in Writes :
          /\ Lost(w)
          /\ IF frames = <<>> THEN durable' = durable \cup {w} /\ UNCHANGED frames
             ELSE /\ frames' = [frames EXCEPT ![Len(frames)] = @ \cup {w}]
                  /\ UNCHANGED durable
          /\ work' = Idle(work) /\ call' = NoCall
    /\ UNCHANGED <<scope, conn>>

(* The statement fails.  SQLite may have rolled the transaction back; a    *)
(* busy database is waited for unless that would keep a transaction open.  *)
Waits(op, s, native, busy) ==
    /\ busy /\ (native = <<>> \/ op = "Commit")
    /\ Within(op, s) => s.failed = "None"

StepFails(native, busy) ==
    /\ call # NoCall /\ Steps(call.op)
    /\ native \in {frames, <<>>}
    /\ busy => call.op # "Rollback"
    /\ call.op = "Open" => Admits
    /\ frames' = native
    /\ LET after == Faulted(call.op, Idle(work), scope, native, busy)
       IN \/ /\ Waits(call.op, after[2], native, busy)
             /\ work' = [after[1] EXCEPT !.mode = "Primary"]
             /\ scope' = after[2]
             /\ call' = [call EXCEPT !.stage = "Wait"]
          \/ /\ Leaves(Ended(call.op, after[1], after[2], native))
             /\ call' = NoCall
    /\ UNCHANGED <<conn, durable>>

(* A call between two polls is finished early, dropped or forgotten.       *)
(* Resetting its statement may fail: the caller is told, or the error is   *)
(* kept for the next call.                                                 *)
Cancel(native, ok) ==
    /\ call # NoCall /\ call.stage # "Loop"
    /\ native \in {frames, <<>>}
    /\ call.stage # "Rows" => ok
    /\ ok => native = frames
    /\ frames' = native
    /\ \E health \in {work.health, "Recoverable"} :
          LET idle == IF call.stage = "Start" THEN work ELSE Idle(work)
              after == IF ok THEN <<idle, scope>>
                       ELSE Faulted(call.op, [idle EXCEPT !.health = health],
                                    scope, native, FALSE)
          IN Leaves(Dropped(call.op, after[1], after[2]))
    /\ call' = NoCall
    /\ UNCHANGED <<conn, durable>>

(* What is left of the scopes when the owner of the innermost is forgotten.*)
Outer(s) == IF s.saves = <<>> THEN NoScope ELSE [s EXCEPT !.saves = Front(@)]

Forget ==
    /\ call # NoCall /\ call.stage # "Loop"
    /\ call' = NoCall
    /\ scope' = IF call.op \in {"Commit", "Rollback", "Release"}
                THEN Outer(scope) ELSE scope
    /\ UNCHANGED <<work, conn, frames, durable>>

(* A scope that no call borrows is dropped or forgotten.                   *)
DropScope ==
    /\ call = NoCall /\ scope.tx
    /\ Leaves(Dropped(IF scope.saves = <<>> THEN "Rollback" ELSE "Release",
                      work, scope))
    /\ UNCHANGED <<call, conn, frames, durable>>

ForgetScope ==
    /\ call = NoCall /\ scope.tx
    /\ scope' = Outer(scope)
    /\ UNCHANGED <<work, call, conn, frames, durable>>

-----------------------------------------------------------------------------
(* Cleanup *)

(* Work::fail_cleanup.  Mutants: the connection is not marked failed; the  *)
(* debt is kept and tried again.                                           *)
FailCleanupHealthy(w) == [w EXCEPT !.depth = 0, !.debt = Failed, !.mode = "Idle"]
FailCleanupRetries(w) == [w EXCEPT !.mode = "Idle"]
FailCleanup(w) ==
    [depth |-> 0, debt |-> Failed, mode |-> "Idle", health |-> "Failed"]

(* The control statement of a debt is one SQLite can run.                  *)
Issuable == frames # <<>> /\ (work.debt.kind = "Save" => Len(frames) > 1)

(* Pending::complete, and the meter's release once nothing is owed.        *)
Complete(w) ==
    CASE w.debt.kind = "Tx" ->
             [w EXCEPT !.depth = 0, !.debt = NoDebt, !.mode = "Idle"]
      [] w.debt.kind = "Save" /\ ~w.debt.undone ->
             [w EXCEPT !.debt.undone = TRUE, !.mode = "Cleanup"]
      [] w.debt.kind = "Save" /\ w.debt.undone /\ w.depth # w.debt.target ->
             [w EXCEPT !.depth = @ - 1, !.debt.undone = FALSE, !.mode = "Cleanup"]
      [] w.debt.kind = "Save" /\ w.debt.undone /\ w.depth = w.debt.target ->
             [w EXCEPT !.depth = @ - 1, !.debt = NoDebt, !.mode = "Idle"]

(* Run::advance: one control statement succeeds.                           *)
Paid ==
    /\ Owed /\ work.mode # "Primary" /\ Issuable
    /\ frames' = IF work.debt.kind = "Tx" THEN <<>>
                 ELSE IF work.debt.undone THEN Released(frames) ELSE Undone(frames)
    /\ work' = Complete(work)

(* The call pays the debt a step at a time, and yields in between.         *)
CallPays ==
    /\ Starts /\ Paid
    /\ UNCHANGED <<scope, call, conn, durable>>

CallFails(native) ==
    /\ Starts /\ Owed
    /\ native \in {frames, <<>>} /\ (work.mode = "Primary" => native = frames)
    /\ frames' = native
    /\ Leaves(Ended(call.op, FailCleanup(work), scope, native))
    /\ call' = NoCall
    /\ UNCHANGED <<conn, durable>>

(* App::park, when no client borrows the connection.                       *)
Parks == conn \in {"Vacant", "Closed", "Closing"}

ParkPays ==
    /\ Parks /\ Paid
    /\ UNCHANGED <<scope, call, conn, durable>>

ParkFails(native) ==
    /\ Parks /\ Owed
    /\ native \in {frames, <<>>} /\ (work.mode = "Primary" => native = frames)
    /\ frames' = native
    /\ work' = FailCleanup(work)
    /\ UNCHANGED <<scope, call, conn, durable>>

-----------------------------------------------------------------------------
(* The connection *)

(* Connection::try_new, and its destructor.                                *)
Provide ==
    /\ conn = "Vacant"
    /\ conn' = "Borrowed"
    /\ UNCHANGED <<work, scope, call, frames, durable>>

Unused == call = NoCall /\ ~scope.tx
DropConnection ==
    /\ Borrowed /\ Unused
    /\ conn' = IF conn = "Borrowed" THEN "Vacant" ELSE "Closed"
    /\ UNCHANGED <<work, scope, call, frames, durable>>

(* App::shutdown.                                                          *)
Stop ==
    /\ conn \in {"Vacant", "Borrowed"}
    /\ conn' = IF conn = "Vacant" THEN "Closed" ELSE "Stopping"
    /\ UNCHANGED <<work, scope, call, frames, durable>>

(* App::released: every client is gone, a forgotten one too; Closing pays  *)
(* what is owed with the whole transaction.                                *)
Release ==
    /\ conn \in {"Closed", "Stopping"} /\ Unused
    /\ conn' = "Closing"
    /\ work' = IF Owed THEN [work EXCEPT !.debt = OwingTx(@)] ELSE work
    /\ UNCHANGED <<scope, call, frames, durable>>

(* Phase::retire, and the end of the connection, at which SQLite rolls     *)
(* back what is open.                                                      *)
Retire ==
    /\ conn = "Closing" /\ ~Owed
    /\ conn' = "Retired"
    /\ frames' = <<>>
    /\ UNCHANGED <<work, scope, call, durable>>

(* App::finish, when the executor gives up waiting for the connection.     *)
ForcePhase ==
    /\ conn # "Retired" /\ Unused
    /\ conn' = "Retired"
    /\ work' = Idle(work)
    /\ frames' = <<>>
    /\ UNCHANGED <<scope, call, durable>>

-----------------------------------------------------------------------------

Park ==
    \/ ParkPays \/ Retire
    \/ \E native \in {frames, <<>>} : ParkFails(native)

Next ==
    \/ \E op \in Ops : Ask(op)
    \/ Refuse
    \/ StepBegin \/ StepCommit \/ StepRollback \/ StepOpen
    \/ StepRelease \/ StepRollbackTo \/ StepQuery
    \/ \E native \in {frames, <<>>} :
          \/ CallFails(native)
          \/ \E b \in BOOLEAN : StepFails(native, b) \/ Cancel(native, b)
    \/ Forget \/ DropScope \/ ForgetScope
    \/ CallPays
    \/ Provide \/ DropConnection \/ Stop \/ Release \/ ForcePhase
    \/ Park

Spec == Init /\ [][Next]_vars

(* The executor parks the application as long as it reports progress to    *)
(* make.                                                                   *)
ParkFairness == WF_vars(Park)

-----------------------------------------------------------------------------
(* Properties *)

(* Every variable has its type, and SQLite never has more savepoints open  *)
(* than the configuration allows.                                          *)
TypeOK ==
    /\ work \in [depth : 0 .. MaxSave,
                 debt : [kind : {"None", "Tx", "Save", "Failed"},
                         target : 0 .. MaxSave, undone : BOOLEAN],
                 mode : {"Idle", "Primary", "Cleanup"},
                 health : {"Healthy", "Recoverable", "Failed"}]
    /\ scope \in [tx : BOOLEAN, saves : Seq(1 .. MaxSave),
                  failed : {"None", "Busy", "Aborted"}]
    /\ call \in [op : Ops \cup {"None"}, stage : {"Start", "Loop", "Wait", "Rows"}]
    /\ conn \in {"Vacant", "Borrowed", "Stopping", "Closed", "Closing", "Retired"}
    /\ frames \in Seq(SUBSET Writes) /\ Len(frames) <= MaxSave + 1
    /\ durable \subseteq Writes

(* The unchecked read of a savepoint count finds one: a savepoint that may *)
(* still be released, or a savepoint debt, is within the counted depth.    *)
ReleaseSound ==
    /\ work.debt.kind = "Save" => work.debt.target \in 1 .. work.depth
    /\ scope.saves # <<>> /\ scope.failed = "None" /\ work.health # "Failed"
          /\ work.debt.kind # "Tx" =>
           Last(scope.saves) \in 1 .. work.depth

(* A debt is always one that SQLite can settle, so cleanup, whose failure  *)
(* ends the connection, only fails for an error of SQLite's own or a call  *)
(* that was forgotten while it ran.                                        *)
DebtIssuable == Owed /\ conn # "Retired" => Issuable

(* The unchecked savepoint counts and the debts are always ones SQLite can *)
(* settle, through failed, dropped and forgotten calls.                    *)
WorkSound == TypeOK /\ ReleaseSound /\ DebtIssuable

(* Cleanup ends, whatever fails: a debt that no client is there to pay is  *)
(* settled or given up, unless the connection is lent or ends first, and a *)
(* connection that is closing retires.                                     *)
CleanupEnds ==
    /\ Owed /\ Parks ~> ~Owed \/ ~Parks
    /\ conn = "Closing" ~> conn = "Retired"

(* The scopes that remain, as the abstract specification sees them: frames *)
(* of forgotten savepoints belong to the scope around them, frames that    *)
(* are owed to rollback to nobody.                                         *)
DoomedOf(w, s) ==
    s.tx /\ (s.failed # "None" \/ w.health = "Failed" \/ w.debt = TxDebt)
FrameOf(w, f, depth) == depth + 1 - (w.depth - (Len(f) - 1))
First(w, s, f, k) == IF k = 1 THEN 1 ELSE FrameOf(w, f, s.saves[k - 1])
Kept(w, f, i) == w.debt.kind = "Save" => i < FrameOf(w, f, w.debt.target)
ScopedOf(w, s, f) ==
    IF ~s.tx THEN <<>>
    ELSE [k \in 1 .. Len(s.saves) + 1 |->
            IF DoomedOf(w, s) THEN {}
            ELSE UNION {f[i] : i \in
                    {j \in First(w, s, f, k) .. Len(f) :
                        /\ k <= Len(s.saves) => j < First(w, s, f, k + 1)
                        /\ Kept(w, f, j)}}]
Doomed == DoomedOf(work, scope)
Scoped == ScopedOf(work, scope, frames)

(* The client keeps the promises of SqliteScopes.                          *)
Scopes == INSTANCE SqliteScopes WITH
    scopes <- Scoped, doomed <- Doomed, durable <- durable
Refines == Scopes!Spec

(* What becomes of a scope's writes is what its owner asked for: a scope   *)
(* that is dropped, by itself or with a call that had consumed it, loses   *)
(* them, also where savepoints inside it were dropped or forgotten before; *)
(* one that is released or forgotten hands them to the scope around it.    *)
Consumed == call.op \in {"Commit", "Rollback", "Release"}
Drops ==
    \/ DropScope
    \/ Consumed /\ \E native \in {frames, <<>>} : Cancel(native, TRUE)
Keeps ==
    /\ Len(scope.saves) > 0
    /\ ForgetScope \/ (Consumed /\ Forget) \/ (Reached /\ StepRelease)
Fates ==
    [][/\ Drops => Scopes!Discard
       /\ Keeps => Scopes!Merge]_vars
=============================================================================
