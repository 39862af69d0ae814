---------------------------- MODULE SqliteInstall ----------------------------
(***************************************************************************)
(* One SQLite installation of a worker: the steps that open, configure and *)
(* verify the connection, run the initial commands and prepare the         *)
(* statements; the calls that then run on it; the retry slot that all of   *)
(* them share when the database is locked; the meter that charges their    *)
(* virtual-machine work; the health record that retains the errors nobody  *)
(* is there to receive; and the retirement that delivers those errors.     *)
(*                                                                         *)
(* SQLite itself is external: each native call succeeds, finds the         *)
(* database locked or fails, and may cost a quantum of progress.  Times    *)
(* are distances from now, so the clock needs no bound.  Transactions and  *)
(* the debts of dropped scopes are SqliteWork's.                           *)
(***************************************************************************)
EXTENDS Integers, Sequences, SequencesExt

CONSTANTS
    Limits,         \* "Open", "Call" -> [retries, window, delay, quota]
    Commands,       \* number of initial commands
    Controls,       \* number of control statements
    Items,          \* control and catalog statements together
    StmtBytes,      \* capacity for prepared programs
    ScanRows,       \* rows a query may read
    MaxCalls        \* bound: calls begun on the installation

ASSUME InstallAssumption ==
    /\ Limits \in [{"Open", "Call"} -> [retries : Nat, window : Nat, delay : Nat, quota : Nat]]
    /\ Commands \in Nat /\ Controls \in Nat /\ Items \in Nat
    /\ StmtBytes \in Nat /\ ScanRows \in Nat /\ MaxCalls \in Nat

VARIABLES
    stage,          \* where the installation is
    target,         \* [file, wal]: what the options ask for
    at,             \* next step of the opening, or next command
    live, used,     \* prepared statements and their bytes
    native,         \* what SQLite has: [applied, guarded, ran, loose]
    slot, alarm,    \* the retry slot and its timer (-1: not armed)
    woken,          \* the owner of the slot has been woken
    health,         \* [mode, native, cleanup] with 0 for no error
    meter,          \* [mode, left]
    scan,           \* rows of the call in progress: [at, rows, credit]
    calls,          \* calls begun so far
    unwound,        \* a forgotten call left its statement in the middle
    spent,          \* the cleanup has failed
    report,         \* errors the completion holds
    kept, told,     \* history: errors retained, and errors delivered
    hist            \* history of the operation's retries

installVars == <<stage, target, at, live, used, native, slot, alarm, woken,
                 health, meter, scan, calls, unwound, spent, report, kept,
                 told, hist>>

------------------------------------------------------------------------------
(* The opening, one step at a time. *)

Configure == <<"Limits", "TemporaryStore", "MainCache", "TemporaryCache">>
Settings == <<"Journal", "JournalLimit", "Mapped", "Synchronous", "Checkpoint">>
Verify == <<"VMapped", "VTemporaryStore", "VMainCache", "VTemporaryCache">>
OpenSteps == Configure \o Settings \o Verify

\* The steps that run SQL, for the database asked for.
RunsSql(step) ==
    CASE step \in {"Limits", "Checkpoint"} -> FALSE
      [] step \in {"Journal", "VMapped"} -> target.file
      [] step = "JournalLimit" -> target.file /\ target.wal
      [] OTHER -> TRUE

\* What a verified connection has been told.
Required == {step \in ToSet(OpenSteps) : RunsSql(step)} \cup {"Limits"}

Boundaries == Len(OpenSteps)
Opens == stage = "Opening"
Preparing == stage = "Prepare"

------------------------------------------------------------------------------
(* The retry slot. *)

NoSlot == [st |-> "Idle", left |-> 0, due |-> 0]
Unarmed == -1
NoHist == [tries |-> 0, age |-> 0, late |-> FALSE, gave |-> "None"]
Role == IF stage = "Calling" THEN "Call" ELSE "Open"
Waiting == slot.st \in {"Yield", "Sleep"}
Reserved == \E r \in DOMAIN Limits : Limits[r].delay > 0
Least(a, b) == IF a < b THEN a ELSE b

\* The budget of an operation's first busy result, or the one it carries on.
Budget ==
    IF slot.st = "Idle"
    THEN [left |-> Limits[Role].retries, due |-> Limits[Role].window]
    ELSE [left |-> slot.left, due |-> slot.due]

\* Mutant: a yielding slot relies on somebody else to wake its owner.
WakesLater == FALSE
Wakes == TRUE

\* Waits for the next attempt, or says why there is none.
Refusal ==
    CASE Budget.left = 0 -> "Busy"
      [] Budget.left > 0 /\ Budget.due = 0 -> "Timeout"
      [] OTHER -> "None"
Defer ==
    LET sleeps == Reserved /\ Limits[Role].delay > 0
    IN  /\ slot' = [st |-> IF sleeps THEN "Sleep" ELSE "Yield",
                    left |-> Budget.left - 1, due |-> Budget.due]
        /\ alarm' = IF sleeps THEN Least(Limits[Role].delay, Budget.due) ELSE alarm
        /\ woken' = IF sleeps THEN woken ELSE Wakes

\* A lease of a call clears the slot when it is returned.
Finish == slot' = NoSlot /\ alarm' = Unarmed /\ woken' = FALSE

\* An owner that waits goes on when it is woken, the deadline is not due and
\* the alarm has gone off; its slot is then ready for the attempt.
Due == slot.due = 0
Ripe == Waiting => woken /\ ~Due /\ (slot.st = "Sleep" => alarm <= 0)
Attempted ==
    /\ slot' = IF Waiting THEN [slot EXCEPT !.st = "Ready"] ELSE slot
    /\ alarm' = IF slot.st = "Sleep" THEN Unarmed ELSE alarm
    /\ woken' = FALSE
Tried(h) == [h EXCEPT !.late = @ \/ (Waiting /\ h.age >= Limits[Role].window)]
Busied(h) == [Tried(h) EXCEPT !.tries = @ + 1]

------------------------------------------------------------------------------
(* The meter. *)

NoMeter == [mode |-> "Idle", left |-> 0]
Charged(m, ticks) == [m EXCEPT !.left = IF @ > ticks THEN @ - ticks ELSE 0]
Exhausted(m) == m.left = 0

------------------------------------------------------------------------------
(* Health: the errors retained for later, in the order of their delivery. *)

NoHealth == [mode |-> "Healthy", native |-> 0, cleanup |-> 0]
Poisoned == health.mode \in {"NativeFirst", "CleanupFirst"}
Some(error) == IF error = 0 THEN <<>> ELSE <<error>>
OwedErrors(h) ==
    IF h.mode = "CleanupFirst" THEN Some(h.cleanup) \o Some(h.native)
    ELSE Some(h.native) \o Some(h.cleanup)

\* Mutant: the native error always comes first.
TakenNative(h) == Some(h.native) \o Some(h.cleanup)
Taken(h) == OwedErrors(h)

\* What a check leaves behind when it returns an error, and the error.
Checked(h) ==
    CASE h.mode = "Healthy" -> h
      [] h.mode = "Recoverable" -> NoHealth
      [] h.mode = "NativeFirst" ->
            IF h.native # 0 THEN [h EXCEPT !.native = 0] ELSE [h EXCEPT !.cleanup = 0]
      [] h.mode = "CleanupFirst" ->
            IF h.cleanup # 0 THEN [h EXCEPT !.cleanup = 0] ELSE [h EXCEPT !.native = 0]
Delivered(h) == IF OwedErrors(h) = <<>> THEN <<>> ELSE <<Head(OwedErrors(h))>>
Refuses(h) == h.mode \in {"NativeFirst", "CleanupFirst"} \/ h.native # 0

\* Mutant: a deferred reset error is recorded without the mode that tells it.
DeferredFinal(h, error) == [h EXCEPT !.native = error, !.mode = "Healthy"]
Deferred(h, error) == [h EXCEPT !.native = error, !.mode = "Recoverable"]
Finalized(h, error) ==
    [h EXCEPT !.native = error,
              !.mode = IF @ \in {"Healthy", "Recoverable"} THEN "NativeFirst" ELSE @]
CleanupFailed(h) ==
    [h EXCEPT !.mode = CASE @ = "Healthy" -> "CleanupFirst"
                         [] @ = "Recoverable" -> "NativeFirst"
                         [] OTHER -> @]
CleanupKept(h, error) == [h EXCEPT !.cleanup = error]

Fresh == Len(kept) + 1
Keep == kept' = Append(kept, Fresh)

------------------------------------------------------------------------------
(* The rows of a call.  Each is known by the attempt that read it and its *)
(* place in that attempt: a statement that is busy is reset, and its next  *)
(* step starts over from its first row.                                    *)

NoScan == [at |-> 0, rows |-> <<>>, credit |-> 0]
Midway == scan.at > 0
Read(c, try) ==
    [at |-> c.at + 1, rows |-> Append(c.rows, [try |-> try, row |-> c.at + 1]),
     credit |-> c.credit - 1]

\* Mutant: a reset gives the rows read so far back to the scan.
RewoundFresh(c) == [c EXCEPT !.at = 0, !.credit = ScanRows]
Rewound(c) == [c EXCEPT !.at = 0]

------------------------------------------------------------------------------
NoNative == [applied |-> {}, guarded |-> FALSE, ran |-> 0, loose |-> FALSE]

InstallInit ==
    /\ stage = "New"
    /\ target \in [file : {TRUE}, wal : BOOLEAN] \cup [file : {FALSE}, wal : {FALSE}]
    /\ at = 1 /\ live = 0 /\ used = 0
    /\ native = NoNative
    /\ slot = NoSlot /\ alarm = Unarmed /\ woken = FALSE
    /\ health = NoHealth /\ meter = NoMeter
    /\ scan = NoScan /\ calls = 0 /\ unwound = FALSE /\ spent = FALSE
    /\ report \in {<<>>, <<0>>}     \* <<0>>: an earlier installation's error
    /\ kept = <<>> /\ told = <<>> /\ hist = NoHist

\* The lease is returned: the retry slot, the connection and the allocator
\* scope are released, then the completion receives what is still retained.
Deliver ==
    /\ Finish
    /\ stage' = "Gone"
    /\ live' = 0
    /\ meter' = NoMeter
    /\ health' = [mode |-> "NativeFirst", native |-> 0, cleanup |-> 0]

\* The local storage's target is taken once; a completion that still holds
\* errors is refused before that, an occupied allocator or a failed native
\* open after it.
Refused ==
    /\ stage = "New"
    /\ report # <<>>
    /\ report' = <<>>       \* the caller takes the errors and asks again
    /\ UNCHANGED <<stage, target, at, live, used, native, slot, alarm, woken,
                   health, meter, scan, calls, unwound, spent, kept, told, hist>>
Install(opened) ==
    /\ stage = "New"
    /\ report = <<>>
    /\ stage' = IF opened THEN "Opening" ELSE "Gone"
    /\ meter' = IF opened THEN [mode |-> "Primary", left |-> Limits["Open"].quota]
                ELSE NoMeter
    /\ UNCHANGED <<target, at, live, used, native, slot, alarm, woken, health,
                   scan, calls, unwound, spent, report, kept, told, hist>>

------------------------------------------------------------------------------
(* Failing an opening: at once, or statement by statement. *)

GoneWith(h) ==
    /\ Deliver
    /\ told' = told \o Taken(h)
    /\ report' = Taken(h)

\* An opening that fails while it prepares retires what it has prepared first.
OpenFails(h) ==
    \/ /\ Preparing
       /\ stage' = "Failing"
       /\ slot' = NoSlot /\ alarm' = Unarmed /\ woken' = FALSE
       /\ health' = h
       /\ UNCHANGED <<live, meter, report, told>>
    \/ /\ Opens
       /\ GoneWith(h)

RetireFailing ==
    /\ stage = "Failing"
    /\ IF live > 1
       THEN live' = live - 1
            /\ UNCHANGED <<stage, slot, alarm, woken, health, meter, report, told>>
       ELSE GoneWith(health)
    /\ UNCHANGED <<target, at, used, native, scan, calls, unwound, spent, kept,
                   hist>>

\* The boot is cancelled: the phase is dropped, its statements with it.
CancelOpen ==
    /\ stage \in {"Opening", "Prepare", "Failing"}
    /\ GoneWith(health)
    /\ UNCHANGED <<target, at, used, native, scan, calls, unwound, spent, kept,
                   hist>>

------------------------------------------------------------------------------
(* One native call of the opening. *)

\* Mutant: the phase moves on before its call has succeeded.
OnwardEarly(i) == i + 1
Onward(i) == i

\* Executed SQL is charged its own quanta and two more; a preparation one.
Quanta == IF Preparing THEN 1 ELSE 2

\* The database is locked: without quota, attempts or time the opening fails.
OpenBusy(ticks) ==
    LET m == Charged(meter, ticks + Quanta)
        why == IF Exhausted(m) THEN "Quota" ELSE Refusal
    IN  /\ Ripe
        /\ meter.left > ticks
        /\ at' = Onward(at)
        /\ IF why = "None"
           THEN /\ Defer
                /\ meter' = m
                /\ hist' = Busied(hist)
                /\ UNCHANGED <<stage, live, health, report, told>>
           ELSE /\ OpenFails(health)
                /\ (Preparing => meter' = meter)
                /\ hist' = [Busied(hist) EXCEPT !.gave = why]
        /\ UNCHANGED <<target, used, native, scan, calls, unwound, spent, kept>>

\* The call fails.  A statement that fails twice, in its use and in its
\* finalization, has the second error retained.
OpenError(ticks, twice) ==
    /\ Ripe
    /\ twice => Opens
    /\ IF twice
       THEN OpenFails(Finalized(health, Fresh)) /\ Keep
       ELSE OpenFails(health) /\ kept' = kept
    /\ hist' = Tried(hist)
    /\ UNCHANGED <<target, at, used, native, scan, calls, unwound, spent>>

\* A step of the configuration or of its verification succeeds, unless it has
\* used the last of the quota.
StepSetting(ticks) ==
    LET step == OpenSteps[at]
        m == IF RunsSql(step) THEN Charged(meter, ticks + Quanta) ELSE meter
    IN  /\ Opens /\ at <= Boundaries
        /\ Ripe
        /\ ticks > 0 => RunsSql(step)
        /\ meter.left > ticks
        /\ native' = [native EXCEPT
                !.applied = IF RunsSql(step) \/ step = "Limits" THEN @ \cup {step} ELSE @,
                !.guarded = @ \/ (step = "VTemporaryCache" /\ ~Exhausted(m))]
        /\ hist' = Tried(hist)
        /\ IF RunsSql(step) /\ Exhausted(m)
           THEN /\ OpenFails(health)
                /\ UNCHANGED at
           ELSE /\ Attempted
                /\ meter' = m
                /\ at' = at + 1
                /\ UNCHANGED <<stage, live, health, report, told>>
        /\ UNCHANGED <<target, used, scan, calls, unwound, spent, kept>>

\* A verification finds another value than the one set.
StepMismatch ==
    /\ Opens /\ at <= Boundaries
    /\ OpenSteps[at] \in ToSet(Verify) \cup {"Journal", "Limits", "JournalLimit",
                                         "Mapped", "Checkpoint"}
    /\ OpenError(0, FALSE)

StepCommand(ticks) ==
    LET m == Charged(meter, ticks + Quanta)
    IN  /\ Opens /\ at > Boundaries
        /\ at - Boundaries <= Commands
        /\ Ripe
        /\ meter.left > ticks
        /\ native' = [native EXCEPT !.ran = @ + 1, !.loose = @ \/ ~native.guarded]
        /\ hist' = Tried(hist)
        /\ IF Exhausted(m)
           THEN OpenFails(health) /\ UNCHANGED at
           ELSE /\ Attempted
                /\ meter' = m
                /\ at' = at + 1
                /\ UNCHANGED <<stage, live, health, report, told>>
        /\ UNCHANGED <<target, used, scan, calls, unwound, spent, kept>>

StartPrepare ==
    /\ Opens /\ at = Boundaries + Commands + 1
    /\ stage' = "Prepare"
    /\ UNCHANGED <<target, at, live, used, native, slot, alarm, woken, health,
                   meter, scan, calls, unwound, spent, report, kept, told, hist>>

\* Mutant: the retry state of the opening is left to the first call.
ReadySlotKept == UNCHANGED <<slot, alarm>> /\ woken' = FALSE
ReadySlot == Finish

\* One statement is prepared, controls first; the last one makes the
\* connection ready.
StepPrepare(bytes) ==
    LET m == Charged(meter, Quanta)
        fits == used + bytes <= StmtBytes
    IN  /\ Preparing
        /\ Ripe
        /\ hist' = Tried(hist)
        /\ native' = [native EXCEPT !.loose = @ \/ (live >= Controls /\ ~native.guarded)]
        /\ \/ /\ Exhausted(m) \/ ~fits
              /\ OpenFails(health)
              /\ UNCHANGED used
           \/ /\ ~Exhausted(m) /\ fits /\ live + 1 < Items
              /\ Attempted
              /\ meter' = m /\ live' = live + 1 /\ used' = used + bytes
              /\ UNCHANGED <<stage, health, report, told>>
           \/ /\ ~Exhausted(m) /\ fits /\ live + 1 = Items
              /\ ReadySlot
              /\ stage' = "Ready"
              /\ meter' = NoMeter /\ live' = Items /\ used' = 0
              /\ UNCHANGED <<health, report, told>>
        /\ UNCHANGED <<target, at, scan, calls, unwound, spent, kept>>

\* SQL of the opening that can be locked or fail.
Executing ==
    \/ Opens /\ at <= Boundaries /\ RunsSql(OpenSteps[at])
    \/ Opens /\ at > Boundaries /\ at - Boundaries <= Commands
    \/ Preparing

------------------------------------------------------------------------------
(* Waiting. *)

\* The deadline has passed when the owner looks: the operation ends.
OpenExpires ==
    /\ stage \in {"Opening", "Prepare"}
    /\ Waiting /\ woken /\ Due
    /\ OpenFails(health)
    /\ hist' = [hist EXCEPT !.gave = "Timeout"]
    /\ UNCHANGED <<target, at, used, native, scan, calls, unwound, spent, kept>>

\* Woken too early: the alarm keeps the wake for later.
StillWaiting ==
    /\ slot.st = "Sleep" /\ woken /\ ~Due /\ alarm > 0
    /\ woken' = FALSE
    /\ UNCHANGED <<stage, target, at, live, used, native, slot, alarm, health,
                   meter, scan, calls, unwound, spent, report, kept, told, hist>>

\* Something else wakes the owner.
Spurious ==
    /\ slot.st = "Sleep" /\ ~woken
    /\ woken' = TRUE
    /\ UNCHANGED <<stage, target, at, live, used, native, slot, alarm, health,
                   meter, scan, calls, unwound, spent, report, kept, told, hist>>

Down(n) == IF n > 0 THEN n - 1 ELSE n
Tick ==
    /\ stage \in {"Opening", "Prepare", "Calling"}
    /\ hist.tries > 0
    /\ hist.age <= Limits[Role].window
    /\ hist' = [hist EXCEPT !.age = @ + 1]
    /\ slot' = [slot EXCEPT !.due = Down(@)]
    /\ alarm' = Down(alarm)
    /\ woken' = (woken \/ alarm = 1)
    /\ UNCHANGED <<stage, target, at, live, used, native, health, meter, scan,
                   calls, unwound, spent, report, kept, told>>

------------------------------------------------------------------------------
(* Calls on a ready connection. *)

\* Health first: a retained error ends the call before it has begun.
RefuseCall ==
    /\ stage = "Ready" /\ calls < MaxCalls
    /\ calls' = calls + 1
    /\ IF Refuses(health)
       THEN /\ told' = told \o Delivered(health)
            /\ health' = Checked(health)
       ELSE /\ meter.mode # "Idle"      \* ReentrantQuery: a call was forgotten
            /\ health' = Checked(health)
            /\ UNCHANGED told
    /\ Finish
    /\ UNCHANGED <<stage, target, at, live, used, native, meter, scan, unwound,
                   spent, report, kept, hist>>

BeginCall ==
    /\ stage = "Ready" /\ calls < MaxCalls
    /\ ~Refuses(health) /\ meter.mode = "Idle"
    /\ calls' = calls + 1
    /\ stage' = "Calling"
    /\ health' = Checked(health)
    /\ meter' = [mode |-> "Primary", left |-> Limits["Call"].quota]
    /\ scan' = [NoScan EXCEPT !.credit = ScanRows]
    /\ hist' = NoHist
    /\ UNCHANGED <<target, at, live, used, native, slot, alarm, woken, unwound,
                   spent, report, kept, told>>

\* Mutant: a returned call leaves its budget in the slot.
CallSlotKept == UNCHANGED <<slot, alarm>> /\ woken' = FALSE
CallSlot == Finish

EndCall ==
    /\ stage' = "Ready"
    /\ CallSlot
    /\ meter' = NoMeter
    /\ scan' = NoScan
    /\ UNCHANGED <<target, at, live, used, native, calls, unwound, spent, report,
                   told>>

\* A row is read; one more than the scan admits is an error.
ReadRow(ticks) ==
    LET m == Charged(meter, ticks)
    IN  /\ stage = "Calling" /\ Ripe
        /\ ~Exhausted(m)
        /\ scan.credit > 0
        /\ scan' = Read(scan, hist.tries)
        /\ meter' = m
        /\ Attempted
        /\ hist' = Tried(hist)
        /\ UNCHANGED <<stage, target, at, live, used, native, health, calls,
                       unwound, spent, report, kept, told>>

\* The database is locked, at any step: SQLite resets the statement, and the
\* policy keeps what it was given and the scan what it was charged.
CallBusy(ticks) ==
    LET m == Charged(meter, ticks)
        why == IF Exhausted(m) THEN "Quota" ELSE Refusal
    IN  /\ stage = "Calling" /\ Ripe
        /\ meter.left > ticks
        /\ IF why = "None"
           THEN /\ Defer
                /\ meter' = m
                /\ scan' = Rewound(scan)
                /\ hist' = Busied(hist)
                /\ UNCHANGED <<stage, target, at, live, used, native, health, calls,
                               unwound, spent, report, kept, told>>
           ELSE /\ EndCall
                /\ hist' = [Busied(hist) EXCEPT !.gave = why]
                /\ UNCHANGED <<health, kept>>

CallExpires ==
    /\ stage = "Calling"
    /\ Waiting /\ woken /\ Due
    /\ EndCall
    /\ hist' = [hist EXCEPT !.gave = "Timeout"]
    /\ UNCHANGED <<health, kept>>

\* The call returns: it answers, because its last step is done or its policy
\* has enough, or it fails, in a step, by the quota, or on a row that it cannot
\* read or was not to have.  A reset that fails then has nobody to tell when
\* the call fails already, and is deferred to the next one.
CallReturns(answers, reset) ==
    /\ stage = "Calling" /\ Ripe
    /\ answers => ~reset
    /\ EndCall
    /\ IF reset THEN health' = Deferred(health, Fresh) /\ Keep
       ELSE UNCHANGED <<health, kept>>
    /\ hist' = [Tried(hist) EXCEPT !.gave = IF answers THEN "Answer" ELSE "None"]

\* The fiber drops the call, in the middle of its rows or of a wait.
CancelCall(reset) ==
    /\ stage = "Calling"
    /\ reset => Midway
    /\ EndCall
    /\ IF reset THEN health' = Deferred(health, Fresh) /\ Keep
       ELSE UNCHANGED <<health, kept>>
    /\ UNCHANGED hist

\* A forgotten call keeps the meter, and its statement where it stands.
ForgetCall ==
    /\ stage = "Calling"
    /\ ~Waiting
    /\ stage' = "Ready"
    /\ unwound' = Midway
    /\ scan' = NoScan
    /\ UNCHANGED <<target, at, live, used, native, slot, alarm, woken, health,
                   meter, calls, spent, report, kept, told, hist>>

\* The rollback owed by a dropped scope fails: for a call, which receives the
\* error, or between calls, where it is retained.
CleanupFails(parked) ==
    /\ stage = "Ready" /\ ~spent
    /\ spent' = TRUE
    /\ meter' = NoMeter
    /\ IF parked
       THEN health' = CleanupKept(CleanupFailed(health), Fresh) /\ Keep
       ELSE health' = CleanupFailed(health) /\ kept' = kept
    /\ UNCHANGED <<stage, target, at, live, used, native, slot, alarm, woken,
                   scan, calls, unwound, report, told, hist>>

------------------------------------------------------------------------------
(* Retirement. *)

\* Without executable access the statements go, last first; the one left in
\* the middle may fail to finalize.
BeginRetire ==
    /\ stage = "Ready"
    /\ stage' = "Retiring"
    /\ UNCHANGED <<target, at, live, used, native, slot, alarm, woken, health,
                   meter, scan, calls, unwound, spent, report, kept, told, hist>>

RetireOne(fails) ==
    /\ stage = "Retiring" /\ live > 0
    /\ live' = live - 1
    /\ fails => unwound
    /\ unwound' = (unwound /\ ~fails)
    /\ IF fails THEN health' = Finalized(health, Fresh) /\ Keep
       ELSE UNCHANGED <<health, kept>>
    /\ UNCHANGED <<stage, target, at, used, native, slot, alarm, woken, meter,
                   scan, calls, spent, report, told, hist>>

Closed ==
    /\ stage = "Retiring" /\ live = 0
    /\ GoneWith(health)
    /\ UNCHANGED <<target, at, used, native, scan, calls, unwound, spent, kept,
                   hist>>

------------------------------------------------------------------------------
OpenProgress ==
    \/ \E ticks \in 0..1 : StepSetting(ticks) \/ StepCommand(ticks)
    \/ StartPrepare
    \/ \E bytes \in 1..2 : StepPrepare(bytes)
    \/ OpenExpires \/ RetireFailing
OpenTrouble ==
    \/ \E ticks \in 0..1 : Executing /\ OpenBusy(ticks)
    \/ \E twice \in BOOLEAN : Executing /\ OpenError(0, twice)
    \/ StepMismatch
CallProgress ==
    \/ \E ticks \in 0..1 : ReadRow(ticks) \/ CallBusy(ticks)
    \/ \E answers, reset \in BOOLEAN : CallReturns(answers, reset)
    \/ CallExpires

InstallNext ==
    \/ Refused \/ \E opened \in BOOLEAN : Install(opened)
    \/ OpenProgress \/ OpenTrouble \/ CancelOpen
    \/ Spurious \/ StillWaiting \/ Tick
    \/ RefuseCall \/ BeginCall \/ CallProgress
    \/ \E reset \in BOOLEAN : CancelCall(reset)
    \/ ForgetCall \/ \E parked \in BOOLEAN : CleanupFails(parked)
    \/ BeginRetire \/ \E fails \in BOOLEAN : RetireOne(fails)
    \/ Closed

\* The executor polls an owner it has woken, and time passes.
InstallFairness ==
    /\ WF_installVars(OpenProgress \/ OpenTrouble \/ CallProgress \/ StillWaiting)
    /\ WF_installVars(Tick)

InstallSpec == InstallInit /\ [][InstallNext]_installVars /\ InstallFairness

------------------------------------------------------------------------------
(* Properties. *)

\* The limits of contention belong to one operation each (`limits::Busy`): an
\* opening or a call gives up as busy only after all of its own attempts, as
\* timed out only after its own window, and never tries again once that
\* window, counted from its own first busy result, is over.  The slot and its
\* timer are shared, so a state left behind by one would shorten the next.
BudgetOwn ==
    /\ ~hist.late
    /\ stage \in {"Opening", "Prepare", "Calling"} =>
            hist.tries <= Limits[Role].retries
    /\ hist.gave = "Busy" => hist.tries > Limits[IF calls = 0 THEN "Open" ELSE "Call"].retries
    /\ hist.gave = "Timeout" => hist.age >= Limits[IF calls = 0 THEN "Open" ELSE "Call"].window

\* An error that had no receiver when it happened is delivered once, to a
\* later call or to the completion of the installation, and in the order in
\* which the errors happened; and a connection that has been poisoned never
\* begins another call.
ErrorsOnce ==
    /\ told \o (IF stage = "Gone" THEN <<>> ELSE OwedErrors(health)) = kept
    /\ spent => Poisoned /\ stage # "Calling"

\* A connection that serves calls has applied and verified every setting its
\* options ask for and has run each command once, however often the steps
\* were retried; and no command or catalog statement was compiled before the
\* authorizer was in place.
ServesConfigured ==
    /\ ~native.loose
    /\ stage \in {"Ready", "Calling"} =>
            /\ native.applied = Required
            /\ native.guarded
            /\ native.ran = Commands
            /\ live = Items

\* A call reads no more rows, over all its attempts, than its scan admits: what
\* its policy holds and what the scan may still read add up to `scan_rows`,
\* because the policy keeps the rows of an attempt that was found busy after
\* them.  An attempt hands over each of its rows once, in order from the first,
\* and only a busy result begins another.
Placed(rows, i) ==
    \/ rows[i].row = 1 /\ (i > 1 => rows[i - 1].try < rows[i].try)
    \/ i > 1 /\ rows[i].try = rows[i - 1].try /\ rows[i].row = rows[i - 1].row + 1
RowsCredited ==
    /\ stage = "Calling" => Len(scan.rows) + scan.credit = ScanRows
    /\ \A i \in 1 .. Len(scan.rows) :
            scan.rows[i].try <= hist.tries /\ Placed(scan.rows, i)

\* A call that answers gives the rows of the statement that took effect, once
\* each: what the tests of RETURNING clauses expect of the rows they are given
\* (sqlite/tests/query_mutation.rs:174).
AnswersOnce ==
    [][hist.gave # "Answer" /\ hist'.gave = "Answer" => Len(scan.rows) = scan.at]_installVars

\* Each operation's contention counts against its own limits, retained errors are
\* delivered once and in order, a connection serves only when all of its settings and
\* commands have been applied once, and its rows count against the scan once each.
InstallSound == BudgetOwn /\ ErrorsOnce /\ ServesConfigured /\ RowsCredited

\* Contention cannot hold an opening or a call for ever, even when the
\* database stays locked: the timer or the owner's own wake brings it back
\* until its attempts or its window are used up.
InstallEnds ==
    /\ (stage \in {"Opening", "Prepare", "Failing"}) ~> (stage \in {"Ready", "Gone"})
    /\ (stage = "Calling") ~> (stage # "Calling")

=============================================================================
