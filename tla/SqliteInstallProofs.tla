------------------------- MODULE SqliteInstallProofs ------------------------
(***************************************************************************)
(* Proofs about the opening of a SQLite connection and the statements it   *)
(* runs: for every pair of limits, every number of commands and statements *)
(* and every length of a call, each operation is charged for its own       *)
(* contention, errors are delivered once and in order, and a connection    *)
(* that serves has been configured by every step exactly once.             *)
(***************************************************************************)
EXTENDS SqliteInstall, SequenceTheorems, TLAPS

-----------------------------------------------------------------------------
(* The inductive invariant *)

InstallStages == {"New", "Opening", "Prepare", "Failing", "Ready", "Calling", "Retiring", "Gone"}
StepNames ==
    {"Limits", "TemporaryStore", "MainCache", "TemporaryCache", "Journal", "JournalLimit", "Mapped",
     "Synchronous", "Checkpoint", "VMapped", "VTemporaryStore", "VMainCache", "VTemporaryCache"}
Natives == [applied : SUBSET StepNames, guarded : BOOLEAN, ran : Nat, loose : BOOLEAN]
RetrySlots == [st : {"Idle", "Yield", "Sleep", "Ready"}, left : Nat, due : Nat]
Healths == [mode : {"Healthy", "Recoverable", "NativeFirst", "CleanupFirst"}, native : Nat, cleanup : Nat]
Meters == [mode : {"Idle", "Primary"}, left : Nat]
Hists == [tries : Nat, age : Nat, late : BOOLEAN, gave : {"None", "Busy", "Timeout", "Quota", "Answer"}]

InstallTypes ==
    /\ stage \in InstallStages
    /\ at \in Nat /\ live \in Nat /\ calls \in Nat
    /\ native \in Natives /\ slot \in RetrySlots /\ health \in Healths /\ meter \in Meters
    /\ unwound \in BOOLEAN /\ spent \in BOOLEAN
    /\ kept \in Seq(Nat) /\ told \in Seq(Nat)
    /\ hist \in Hists

(* What the steps before the n-th have told SQLite. *)
AppliedBy(n) ==
    {OpenSteps[i] : i \in {j \in 1 .. Boundaries : j < n /\ (RunsSql(OpenSteps[j]) \/ OpenSteps[j] = "Limits")}}

(* An opening has applied the steps before the next one, is guarded after  *)
(* them, and has run the commands before the next one.                     *)
OpeningFits(n, sql) ==
    /\ n \in 1 .. Boundaries + Commands + 1
    /\ sql.applied = AppliedBy(n)
    /\ n > Boundaries => sql.guarded /\ sql.ran + Boundaries + 1 = n
    /\ n <= Boundaries => sql.ran = 0
ConfiguredFits ==
    /\ native.loose = FALSE
    /\ stage = "New" => at = 1 /\ native.applied = {} /\ native.ran = 0 /\ live = 0
    /\ stage = "Opening" => OpeningFits(at, native)
    /\ stage \in {"Prepare", "Ready", "Calling"} =>
         native.applied = Required /\ native.guarded /\ native.ran = Commands
    /\ stage \in {"Ready", "Calling"} => live = Items

(* Errors are retained after an opening and outside a call only, and the   *)
(* statement that a forgotten call left behind has not failed yet.         *)
HealthFits ==
    /\ health.mode = "Healthy" => health.native = 0 /\ health.cleanup = 0
    /\ health.mode = "Recoverable" => health.cleanup = 0
    /\ stage \in {"New", "Opening", "Prepare", "Failing", "Calling"} =>
         health.mode = "Healthy" /\ ~spent /\ ~unwound
    /\ stage = "Ready" => (health.mode \in {"NativeFirst", "CleanupFirst"} <=> spent)
    /\ spent => health.mode \in {"NativeFirst", "CleanupFirst"}
    /\ unwound /\ stage # "Gone" => health.native = 0 /\ health.mode \in {"Healthy", "CleanupFirst"}

(* What was told and what is still owed is what was kept, in its order.    *)
LedgerFits == told \o (IF stage = "Gone" THEN <<>> ELSE OwedErrors(health)) = kept

(* The slot's budget is what the operation's own attempts and time left.   *)
Counted(s, h, l) ==
    /\ s.st = "Idle" => h.tries = 0 /\ h.age = 0
    /\ s.st # "Idle" => h.tries + s.left = l.retries
    /\ s.st # "Idle" /\ s.due = 0 => h.age >= l.window
    /\ s.st # "Idle" /\ s.due # 0 => h.age + s.due = l.window
GaveFits(h, l) ==
    /\ h.gave = "Busy" => h.tries > l.retries
    /\ h.gave = "Timeout" => h.age >= l.window
BudgetFits ==
    /\ hist.late = FALSE
    /\ stage = "New" => slot.st = "Idle"
    /\ stage \in {"New", "Opening", "Prepare"} => Counted(slot, hist, Limits["Open"]) /\ hist.gave = "None"
    /\ stage = "Calling" => Counted(slot, hist, Limits["Call"]) /\ hist.gave = "None" /\ meter.mode = "Primary"
    /\ stage \in {"New", "Opening", "Prepare", "Failing"} => calls = 0
    /\ stage = "Calling" => calls > 0
    /\ stage = "Ready" /\ calls = 0 => hist.gave = "None"
    /\ stage = "Ready" /\ meter.mode = "Idle" /\ ~spent => slot.st = "Idle" /\ ~unwound
    /\ calls = 0 => GaveFits(hist, Limits["Open"])
    /\ calls > 0 => GaveFits(hist, Limits["Call"])

InstallInv == InstallTypes /\ ConfiguredFits /\ HealthFits /\ LedgerFits /\ BudgetFits

-----------------------------------------------------------------------------
(* Sequences *)

(* What the concatenation of two sequences is.                             *)
LEMMA Joined ==
    ASSUME NEW S, NEW p \in Seq(S), NEW q \in Seq(S)
    PROVE  /\ p \o q \in Seq(S) /\ Len(p \o q) = Len(p) + Len(q)
           /\ \A i \in 1 .. Len(p) : (p \o q)[i] = p[i]
           /\ \A i \in 1 .. Len(q) : (p \o q)[Len(p) + i] = q[i]
  OBVIOUS

(* It begins as the first does and ends as the second does.                *)
LEMMA JoinedEnds ==
    ASSUME NEW S, NEW p \in Seq(S), NEW q \in Seq(S), Len(p) > 0, Len(q) > 0
    PROVE  /\ p \o q \in Seq(S) /\ Len(p \o q) > 0
           /\ (p \o q)[1] = p[1] /\ (p \o q)[Len(p \o q)] = q[Len(q)]
  BY Joined

-----------------------------------------------------------------------------
(* Limits *)

(* The limits of an operation are numbers.                                 *)
LEMMA LimitTyped ==
    ASSUME NEW r \in {"Open", "Call"}
    PROVE  /\ Limits[r].retries \in Nat /\ Limits[r].window \in Nat
           /\ Limits[r].delay \in Nat /\ Limits[r].quota \in Nat
  BY InstallAssumption

-----------------------------------------------------------------------------
(* The steps of an opening *)

(* The steps of an opening begin with the limits and end with a check that *)
(* the settings took.                                                      *)
LEMMA StepsAre ==
    /\ Boundaries \in Nat /\ Boundaries > 0
    /\ OpenSteps[1] = "Limits" /\ OpenSteps[Boundaries] = "VTemporaryCache"
    /\ \A i \in 1 .. Boundaries : OpenSteps[i] \in StepNames
    /\ DOMAIN OpenSteps = 1 .. Boundaries
<1>1. Configure \in Seq(StepNames) /\ Len(Configure) > 0 /\ Configure[1] = "Limits"
  BY DEF Configure, StepNames
<1>2. Settings \in Seq(StepNames) /\ Len(Settings) > 0
  BY DEF Settings, StepNames
<1>3. Verify \in Seq(StepNames) /\ Len(Verify) > 0 /\ Verify[Len(Verify)] = "VTemporaryCache"
  BY DEF Verify, StepNames
<1> DEFINE c == Configure \o Settings
<1>4. c \in Seq(StepNames) /\ Len(c) > 0 /\ c[1] = Configure[1]
  BY <1>1, <1>2, JoinedEnds
<1> HIDE DEF c
<1>5. /\ c \o Verify \in Seq(StepNames) /\ Len(c \o Verify) > 0
      /\ (c \o Verify)[1] = c[1] /\ (c \o Verify)[Len(c \o Verify)] = Verify[Len(Verify)]
  BY <1>3, <1>4, JoinedEnds
<1>6. OpenSteps = c \o Verify
  BY DEF OpenSteps, c
<1>7. /\ OpenSteps \in Seq(StepNames) /\ Len(OpenSteps) > 0
      /\ OpenSteps[1] = "Limits" /\ OpenSteps[Len(OpenSteps)] = "VTemporaryCache"
  BY <1>1, <1>3, <1>4, <1>5, <1>6
<1>8. Boundaries = Len(OpenSteps)
  BY DEF Boundaries
<1>9. QED BY <1>7, <1>8

LEMMA BoundariesTyped == Boundaries \in Nat /\ Boundaries > 0
  BY StepsAre

LEMMA AppliedFirst == AppliedBy(1) = {}
  BY BoundariesTyped DEF AppliedBy

(* A step adds itself to what the steps before it have told SQLite.        *)
LEMMA AppliedNext ==
    ASSUME NEW n \in 1 .. Boundaries
    PROVE  AppliedBy(n + 1) =
             IF RunsSql(OpenSteps[n]) \/ OpenSteps[n] = "Limits" THEN AppliedBy(n) \cup {OpenSteps[n]}
             ELSE AppliedBy(n)
<1>1. n \in Nat /\ Boundaries \in Nat
  BY BoundariesTyped
<1>2. \A j \in 1 .. Boundaries : j < n + 1 <=> j < n \/ j = n
  BY <1>1
<1>3. QED BY <1>2 DEF AppliedBy

(* After the last step SQLite has been told all that is required.          *)
LEMMA AppliedLast ==
    ASSUME NEW n \in Nat, n > Boundaries
    PROVE  AppliedBy(n) = Required
<1>1. \A j \in 1 .. Boundaries : j < n
  BY BoundariesTyped
<1>2. 1 \in 1 .. Boundaries /\ OpenSteps[1] = "Limits"
  BY StepsAre
<1>3. ToSet(OpenSteps) = {OpenSteps[i] : i \in 1 .. Boundaries}
  BY StepsAre DEF ToSet
<1>4. QED BY <1>1, <1>2, <1>3 DEF AppliedBy, Required

LEMMA AppliedKept ==
    ASSUME target' = target
    PROVE  /\ Required' = Required
           /\ \A n : AppliedBy(n)' = AppliedBy(n)
  BY DEF Required, AppliedBy, RunsSql

-----------------------------------------------------------------------------
(* Records *)

LEMMA TriedFields ==
    ASSUME NEW h \in Hists
    PROVE  /\ Tried(h) \in Hists
           /\ Tried(h).tries = h.tries /\ Tried(h).age = h.age /\ Tried(h).gave = h.gave
           /\ Tried(h).late = (h.late \/ (Waiting /\ h.age >= Limits[Role].window))
  BY DEF Tried, Hists

LEMMA BusiedFields ==
    ASSUME NEW h \in Hists
    PROVE  /\ Busied(h) \in Hists
           /\ Busied(h).tries = h.tries + 1 /\ Busied(h).age = h.age /\ Busied(h).gave = h.gave
           /\ Busied(h).late = Tried(h).late
<1>1. Tried(h) \in Hists /\ Tried(h).tries = h.tries /\ Tried(h).age = h.age /\ Tried(h).gave = h.gave
  BY TriedFields
<1> HIDE DEF Tried
<1>2. h.tries \in Nat
  BY DEF Hists
<1>3. QED BY <1>1, <1>2 DEF Busied, Hists

Giving(h, why) == [h EXCEPT !.gave = why]

LEMMA GivingFields ==
    ASSUME NEW h \in Hists, NEW why \in {"None", "Busy", "Timeout", "Quota", "Answer"}
    PROVE  /\ Giving(h, why) \in Hists
           /\ Giving(h, why).tries = h.tries /\ Giving(h, why).age = h.age
           /\ Giving(h, why).late = h.late /\ Giving(h, why).gave = why
  BY DEF Giving, Hists

LEMMA ChargedFields ==
    ASSUME NEW m \in Meters, NEW ticks \in Nat
    PROVE  Charged(m, ticks) \in Meters /\ Charged(m, ticks).mode = m.mode
<1>1. m.left \in Nat
  BY DEF Meters
<1>2. (IF m.left > ticks THEN m.left - ticks ELSE 0) \in Nat
  BY <1>1
<1>3. QED BY <1>2 DEF Charged, Meters

LEMMA NoneTyped ==
    /\ NoSlot \in RetrySlots /\ NoSlot.st = "Idle"
    /\ NoMeter \in Meters /\ NoMeter.mode = "Idle"
    /\ NoHist \in Hists /\ NoHist.tries = 0 /\ NoHist.age = 0 /\ NoHist.late = FALSE /\ NoHist.gave = "None"
    /\ NoHealth \in Healths /\ NoHealth.mode = "Healthy" /\ NoHealth.native = 0 /\ NoHealth.cleanup = 0
    /\ NoNative \in Natives /\ NoNative.applied = {} /\ NoNative.ran = 0 /\ NoNative.loose = FALSE
  BY DEF NoSlot, RetrySlots, NoMeter, Meters, NoHist, Hists, NoHealth, Healths, NoNative, Natives

-----------------------------------------------------------------------------
(* The retry slot *)

(* An attempt in its own time is not late. *)
LEMMA RipeInTime ==
    ASSUME InstallTypes, Counted(slot, hist, Limits[Role]), hist.late = FALSE, Ripe
    PROVE  Tried(hist).late = FALSE
<1>1. Role \in {"Open", "Call"}
  BY DEF Role
<1>2. hist \in Hists /\ hist.age \in Nat /\ slot.due \in Nat /\ Limits[Role].window \in Nat
  BY <1>1, LimitTyped DEF InstallTypes, Hists, RetrySlots
<1>3. ASSUME Waiting PROVE ~(hist.age >= Limits[Role].window)
  <2>1. slot.st # "Idle" /\ slot.due # 0
    BY <1>3 DEF Waiting, Ripe, Due
  <2>2. hist.age + slot.due = Limits[Role].window
    BY <2>1 DEF Counted
  <2>3. QED BY <1>2, <2>1, <2>2
<1>4. QED BY <1>2, <1>3, TriedFields

(* The budget of the next attempt is what the operation has left. *)
LEMMA BudgetIs ==
    ASSUME InstallTypes, Counted(slot, hist, Limits[Role])
    PROVE  /\ Budget.left \in Nat /\ Budget.due \in Nat
           /\ hist.tries + Budget.left = Limits[Role].retries
           /\ Budget.due = 0 => hist.age >= Limits[Role].window
           /\ Budget.due # 0 => hist.age + Budget.due = Limits[Role].window
<1>1. Role \in {"Open", "Call"}
  BY DEF Role
<1>2. /\ hist.age \in Nat /\ hist.tries \in Nat /\ slot.due \in Nat /\ slot.left \in Nat
      /\ Limits[Role].window \in Nat /\ Limits[Role].retries \in Nat
  BY <1>1, LimitTyped DEF InstallTypes, Hists, RetrySlots
<1>3. CASE slot.st = "Idle"
  <2>1. Budget.left = Limits[Role].retries /\ Budget.due = Limits[Role].window
    BY <1>3 DEF Budget
  <2>2. hist.tries = 0 /\ hist.age = 0
    BY <1>3 DEF Counted
  <2>3. QED BY <1>2, <2>1, <2>2
<1>4. CASE slot.st # "Idle"
  <2>1. Budget.left = slot.left /\ Budget.due = slot.due
    BY <1>4 DEF Budget
  <2>2. QED BY <1>2, <1>4, <2>1 DEF Counted
<1>5. QED BY <1>3, <1>4

(* Waiting for the next attempt counts this one. *)
LEMMA DeferCounts ==
    ASSUME InstallTypes, Counted(slot, hist, Limits[Role]), Refusal = "None", Defer
    PROVE  /\ slot' \in RetrySlots
           /\ Counted(slot', Busied(hist), Limits[Role])
<1> DEFINE b == Budget.left
           d == Budget.due
<1>1. /\ b \in Nat /\ d \in Nat
      /\ hist.tries + b = Limits[Role].retries
      /\ d = 0 => hist.age >= Limits[Role].window
      /\ d # 0 => hist.age + d = Limits[Role].window
  BY BudgetIs
<1> HIDE DEF b, d
<1>2. b # 0
  BY DEF Refusal, b
<1>3. b - 1 \in Nat
  BY <1>1, <1>2
<1>4. /\ slot' \in RetrySlots /\ slot'.left = b - 1 /\ slot'.due = d /\ slot'.st # "Idle"
  BY <1>1, <1>3 DEF Defer, RetrySlots, b, d
<1>5. /\ Busied(hist).tries = hist.tries + 1 /\ Busied(hist).age = hist.age /\ hist.tries \in Nat
  BY BusiedFields DEF InstallTypes, Hists
<1>6. (hist.tries + 1) + (b - 1) = hist.tries + b
  BY <1>1, <1>5
<1>7. QED BY <1>1, <1>4, <1>5, <1>6 DEF Counted

(* Without attempts or time, the operation gives up for its own reason. *)
LEMMA RefusalFits ==
    ASSUME InstallTypes, Counted(slot, hist, Limits[Role]), NEW why \in {"Quota", Refusal}, why # "None"
    PROVE  /\ why \in {"Busy", "Timeout", "Quota"}
           /\ Giving(Busied(hist), why) \in Hists
           /\ Giving(Busied(hist), why).late = Tried(hist).late
           /\ GaveFits(Giving(Busied(hist), why), Limits[Role])
<1> DEFINE b == Budget.left
           d == Budget.due
           g == Giving(Busied(hist), why)
<1>1. /\ b \in Nat /\ d \in Nat
      /\ hist.tries + b = Limits[Role].retries
      /\ d = 0 => hist.age >= Limits[Role].window
  BY BudgetIs
<1>2. /\ why \in {"Busy", "Timeout", "Quota"}
      /\ why = "Busy" => b = 0
      /\ why = "Timeout" => d = 0
  BY DEF Refusal
<1>3. /\ hist \in Hists /\ hist.tries \in Nat
  BY DEF InstallTypes, Hists
<1>4. /\ Busied(hist) \in Hists /\ Busied(hist).tries = hist.tries + 1 /\ Busied(hist).age = hist.age
      /\ Busied(hist).late = Tried(hist).late
  BY <1>3, BusiedFields
<1>5. /\ g \in Hists /\ g.tries = hist.tries + 1 /\ g.age = hist.age /\ g.late = Tried(hist).late /\ g.gave = why
  BY <1>2, <1>4, GivingFields
<1> HIDE DEF g, b, d
<1>6. why = "Busy" => hist.tries + 1 > Limits[Role].retries
  BY <1>1, <1>2, <1>3
<1>7. QED BY <1>1, <1>2, <1>5, <1>6 DEF GaveFits, g

(* An attempt that goes on leaves the budget as it is. *)
LEMMA AttemptCounts ==
    ASSUME InstallTypes, Counted(slot, hist, Limits[Role]), Attempted
    PROVE  /\ slot' \in RetrySlots
           /\ Counted(slot', Tried(hist), Limits[Role])
<1>1. /\ Tried(hist).tries = hist.tries /\ Tried(hist).age = hist.age /\ slot \in RetrySlots
  BY TriedFields DEF InstallTypes
<1>2. CASE Waiting
  <2>1. slot' = [slot EXCEPT !.st = "Ready"]
    BY <1>2 DEF Attempted
  <2>2. slot' \in RetrySlots /\ slot'.st = "Ready" /\ slot'.left = slot.left /\ slot'.due = slot.due
    BY <1>1, <2>1 DEF RetrySlots
  <2>3. slot.st # "Idle"
    BY <1>2 DEF Waiting
  <2>4. QED BY <1>1, <2>2, <2>3 DEF Counted
<1>3. CASE ~Waiting
  <2>1. slot' = slot
    BY <1>3 DEF Attempted
  <2>2. QED BY <1>1, <2>1 DEF Counted
<1>4. QED BY <1>2, <1>3

-----------------------------------------------------------------------------
(* The installation goes, or its opening goes on *)

(* What every step leaves to be shown for the types: what it changes. *)
RestTypes ==
    /\ at' \in Nat /\ live' \in Nat /\ native' \in Natives /\ slot' \in RetrySlots /\ meter' \in Meters
    /\ hist' \in Hists

(* The invariant, taken apart.                                             *)
LEMMA InvParts ==
    ASSUME InstallInv
    PROVE  /\ InstallTypes /\ ConfiguredFits /\ HealthFits /\ LedgerFits /\ BudgetFits
           /\ at \in Nat /\ live \in Nat /\ calls \in Nat /\ stage \in InstallStages
           /\ native \in Natives /\ slot \in RetrySlots /\ health \in Healths /\ meter \in Meters
           /\ unwound \in BOOLEAN /\ spent \in BOOLEAN /\ kept \in Seq(Nat) /\ told \in Seq(Nat)
           /\ hist \in Hists /\ hist.late = FALSE /\ native.loose = FALSE
  BY DEF InstallInv, InstallTypes, BudgetFits, ConfiguredFits

(* While an opening goes on, its own attempts and time are what is         *)
(* counted.                                                                *)
LEMMA OpenCounted ==
    ASSUME InstallInv, stage \in {"Opening", "Prepare"}
    PROVE  /\ Role = "Open" /\ Counted(slot, hist, Limits["Open"]) /\ hist.gave = "None" /\ calls = 0
           /\ health.mode = "Healthy" /\ health.native = 0 /\ health.cleanup = 0
           /\ ~spent /\ ~unwound
  BY InvParts DEF BudgetFits, HealthFits, Role

(* A healthy installation owes no error.                                   *)
LEMMA OwedNone ==
    ASSUME NEW h, h.native = 0, h.cleanup = 0
    PROVE  OwedErrors(h) = <<>>
<1>1. Some(h.native) = <<>> /\ Some(h.cleanup) = <<>>
  BY DEF Some
<1>2. <<>> \o <<>> = <<>>
  OBVIOUS
<1>3. QED BY <1>1, <1>2 DEF OwedErrors

LEMMA ConcatNone ==
    ASSUME NEW s \in Seq(Nat)
    PROVE  s \o <<>> = s /\ <<>> \o s = s
  OBVIOUS

(* While nothing is owed, all that was kept has been told.                 *)
LEMMA HealthyTold ==
    ASSUME InstallInv, stage # "Gone", health.native = 0, health.cleanup = 0
    PROVE  told = kept
<1>1. told \o OwedErrors(health) = kept /\ told \in Seq(Nat)
  BY InvParts DEF LedgerFits
<1>2. OwedErrors(health) = <<>>
  BY OwedNone
<1>3. QED BY <1>1, <1>2, ConcatNone

(* The installation is gone: everything kept has been told. *)
LEMMA GoneKeeps ==
    ASSUME InstallInv, stage' = "Gone", RestTypes, native'.loose = FALSE,
           calls' = calls, spent' = spent, unwound' = unwound,
           health' = [mode |-> "NativeFirst", native |-> 0, cleanup |-> 0],
           told' = kept', kept' \in Seq(Nat),
           hist'.late = FALSE, GaveFits(hist', Limits[IF calls = 0 THEN "Open" ELSE "Call"])
    PROVE  InstallInv'
<1>1. health' \in Healths /\ health'.mode = "NativeFirst"
  BY DEF Healths
<1>2. InstallTypes'
  BY <1>1, InvParts DEF InstallTypes, RestTypes, InstallStages
<1>3. ConfiguredFits'
  BY DEF ConfiguredFits
<1>4. HealthFits'
  BY <1>1 DEF HealthFits
<1>5. LedgerFits'
  BY ConcatNone DEF LedgerFits
<1>6. BudgetFits'
  BY DEF BudgetFits
<1>7. QED BY <1>2, <1>3, <1>4, <1>5, <1>6 DEF InstallInv

(* An installation that goes delivers what it owes, and then owes nothing. *)
LEMMA GoneWithKeeps ==
    ASSUME InstallInv, stage # "Gone", GoneWith(health), RestTypes, native'.loose = FALSE,
           calls' = calls, spent' = spent, unwound' = unwound, kept' = kept,
           hist'.late = FALSE, GaveFits(hist', Limits[IF calls = 0 THEN "Open" ELSE "Call"])
    PROVE  InstallInv'
<1>1. /\ stage' = "Gone" /\ told' = told \o OwedErrors(health)
      /\ health' = [mode |-> "NativeFirst", native |-> 0, cleanup |-> 0]
  BY DEF GoneWith, Deliver, Taken
<1>2. told' = kept' /\ kept' \in Seq(Nat)
  BY <1>1, InvParts DEF LedgerFits
<1>3. QED BY <1>1, <1>2, GoneKeeps

(* An opening fails: nothing was retained by then, and its own contention  *)
(* is what it gives up for.                                                *)
LEMMA OpenFailsKeeps ==
    ASSUME InstallInv, stage \in {"Opening", "Prepare"}, OpenFails(health),
           at' \in Nat, native' \in Natives, native'.loose = FALSE,
           calls' = calls, spent' = spent, unwound' = unwound, kept' = kept,
           hist' \in Hists, hist'.late = FALSE, GaveFits(hist', Limits["Open"])
    PROVE  InstallInv'
<1>1. /\ calls = 0 /\ health.mode = "Healthy" /\ health.native = 0 /\ health.cleanup = 0 /\ ~spent /\ ~unwound
  BY OpenCounted
<1>2. CASE GoneWith(health)
  <2>1. live' = 0 /\ slot' = NoSlot /\ meter' = NoMeter
    BY <1>2 DEF GoneWith, Deliver, Finish
  <2>2. RestTypes
    BY <2>1, NoneTyped DEF RestTypes
  <2>3. QED BY <1>1, <1>2, <2>2, GoneWithKeeps
<1>3. CASE /\ stage' = "Failing" /\ slot' = NoSlot /\ health' = health
           /\ UNCHANGED <<live, meter, report, told>>
  <2>1. InstallTypes'
    BY <1>3, InvParts, NoneTyped DEF InstallTypes, InstallStages
  <2>2. ConfiguredFits' /\ HealthFits'
    BY <1>1, <1>3 DEF ConfiguredFits, HealthFits
  <2>3. LedgerFits'
    BY <1>3, InvParts DEF LedgerFits
  <2>4. BudgetFits'
    BY <1>1, <1>3 DEF BudgetFits
  <2>5. QED BY <2>1, <2>2, <2>3, <2>4 DEF InstallInv
<1>4. QED BY <1>2, <1>3 DEF OpenFails, Preparing, Opens

(* An opening goes on. *)
LEMMA OpenStays ==
    ASSUME InstallInv, stage \in {"New", "Opening", "Prepare"}, stage' \in {"Opening", "Prepare"},
           RestTypes, ConfiguredFits',
           calls' = calls, spent' = spent, unwound' = unwound, kept' = kept, told' = told, health' = health,
           hist'.late = FALSE, hist'.gave = "None", Counted(slot', hist', Limits["Open"])
    PROVE  InstallInv'
<1>1. InstallTypes'
  BY InvParts DEF InstallTypes, RestTypes, InstallStages
<1>2. HealthFits'
  BY InvParts DEF HealthFits
<1>3. LedgerFits'
  BY InvParts DEF LedgerFits
<1>4. BudgetFits'
  BY InvParts DEF BudgetFits, GaveFits
<1>5. QED BY <1>1, <1>2, <1>3, <1>4 DEF InstallInv

LEMMA OpenCall ==
    ASSUME InstallInv, stage \in {"Opening", "Prepare"}, Ripe
    PROVE  /\ Tried(hist) \in Hists /\ Tried(hist).late = FALSE /\ Tried(hist).gave = "None"
           /\ GaveFits(Tried(hist), Limits["Open"])
<1>1. Role = "Open" /\ Counted(slot, hist, Limits["Open"]) /\ hist.gave = "None" /\ InstallTypes
      /\ hist \in Hists /\ hist.late = FALSE
  BY OpenCounted, InvParts
<1>2. Tried(hist).late = FALSE
  BY <1>1, RipeInTime
<1>3. Tried(hist) \in Hists /\ Tried(hist).gave = "None"
  BY <1>1, TriedFields
<1>4. QED BY <1>2, <1>3 DEF GaveFits

LEMMA QuantaTyped == Quanta \in Nat
  BY DEF Quanta

LEMMA OpenBusyKeeps ==
    ASSUME InstallInv, NEW ticks \in Nat, Executing, OpenBusy(ticks)
    PROVE  InstallInv'
<1> DEFINE m == Charged(meter, ticks + Quanta)
           why == IF Exhausted(m) THEN "Quota" ELSE Refusal
<1>1. stage \in {"Opening", "Prepare"}
  BY DEF Executing, Opens, Preparing
<1>2. /\ Ripe /\ at' = at /\ native' = native /\ target' = target
      /\ calls' = calls /\ spent' = spent /\ unwound' = unwound /\ kept' = kept
  BY DEF OpenBusy, Onward
<1>3. /\ Role = "Open" /\ Counted(slot, hist, Limits["Open"]) /\ hist.gave = "None" /\ InstallTypes
      /\ hist \in Hists /\ at \in Nat /\ native \in Natives /\ native.loose = FALSE /\ ConfiguredFits
      /\ live \in Nat /\ meter \in Meters
  BY <1>1, OpenCounted, InvParts
<1>4. Tried(hist).late = FALSE
  BY <1>1, <1>2, OpenCall
<1>5. CASE why = "None"
  <2>1. Defer /\ meter' = m /\ hist' = Busied(hist) /\ UNCHANGED <<stage, live, health, report, told>>
    BY <1>5 DEF OpenBusy
  <2>2. Refusal = "None"
    BY <1>5
  <2>3. m \in Meters
    <3>1. ticks + Quanta \in Nat
      BY QuantaTyped
    <3>2. QED BY <1>3, <3>1, ChargedFields
  <2>4. slot' \in RetrySlots /\ Counted(slot', hist', Limits["Open"])
    BY <1>3, <2>1, <2>2, DeferCounts
  <2>5. hist' \in Hists /\ hist'.late = FALSE /\ hist'.gave = "None"
    BY <1>3, <1>4, <2>1, BusiedFields
  <2>6. ConfiguredFits'
    BY <1>2, <1>3, <2>1, AppliedKept DEF ConfiguredFits, OpeningFits
  <2>7. RestTypes
    BY <1>2, <1>3, <2>1, <2>3, <2>4, <2>5 DEF RestTypes
  <2> HIDE DEF m, why
  <2>8. QED BY <1>1, <1>2, <2>1, <2>4, <2>5, <2>6, <2>7, OpenStays
<1>6. CASE why # "None"
  <2>1. OpenFails(health) /\ hist' = Giving(Busied(hist), why)
    BY <1>6 DEF OpenBusy, Giving
  <2>2. why \in {"Quota", Refusal}
    OBVIOUS
  <2> HIDE DEF why
  <2>3. /\ hist' \in Hists /\ hist'.late = FALSE /\ GaveFits(hist', Limits["Open"])
    BY <1>3, <1>4, <1>6, <2>1, <2>2, RefusalFits
  <2>4. QED BY <1>1, <1>2, <1>3, <2>1, <2>3, OpenFailsKeeps
<1>7. QED BY <1>5, <1>6

-----------------------------------------------------------------------------
(* The configuration fails, or takes its next step *)

(* An error that is new has a name of its own.                             *)
LEMMA FreshTyped ==
    ASSUME kept \in Seq(Nat)
    PROVE  /\ Fresh \in Nat /\ Fresh # 0 /\ Append(kept, Fresh) \in Seq(Nat)
           /\ \A s \in Seq(Nat) : s \o <<Fresh>> = Append(s, Fresh)
<1>1. Fresh \in Nat /\ Fresh # 0
  BY DEF Fresh
<1> HIDE DEF Fresh
<1>2. QED BY <1>1

LEMMA FinalizedFields ==
    ASSUME NEW h \in Healths, NEW error \in Nat
    PROVE  /\ Finalized(h, error) \in Healths
           /\ Finalized(h, error).native = error /\ Finalized(h, error).cleanup = h.cleanup
           /\ h.mode \in {"Healthy", "Recoverable"} => Finalized(h, error).mode = "NativeFirst"
           /\ h.mode \notin {"Healthy", "Recoverable"} => Finalized(h, error).mode = h.mode
  BY DEF Finalized, Healths

LEMMA OwedFields ==
    ASSUME NEW h, NEW error, error # 0
    PROVE  /\ h.native = error /\ h.cleanup = 0 => OwedErrors(h) = <<error>>
           /\ h.native = 0 /\ h.cleanup = error => OwedErrors(h) = <<error>>
<1>1. Some(0) = <<>> /\ Some(error) = <<error>>
  BY DEF Some
<1>2. <<>> \o <<error>> = <<error>> /\ <<error>> \o <<>> = <<error>>
  OBVIOUS
<1>3. QED BY <1>1, <1>2 DEF OwedErrors

(* An opening that fails keeps the error, and the one of its own cleanup.  *)
LEMMA OpenErrorKeeps ==
    ASSUME InstallInv, stage \in {"Opening", "Prepare"}, NEW twice \in BOOLEAN, OpenError(0, twice)
    PROVE  InstallInv'
<1>1. /\ Ripe /\ at' = at /\ native' = native /\ hist' = Tried(hist)
      /\ calls' = calls /\ spent' = spent /\ unwound' = unwound
  BY DEF OpenError
<1>2. /\ hist' \in Hists /\ hist'.late = FALSE /\ GaveFits(hist', Limits["Open"])
  BY <1>1, OpenCall
<1>3. at \in Nat /\ native \in Natives /\ native.loose = FALSE /\ health \in Healths
      /\ kept \in Seq(Nat) /\ told \in Seq(Nat)
  BY InvParts
<1>4. CASE ~twice
  <2>1. OpenFails(health) /\ kept' = kept
    BY <1>4 DEF OpenError
  <2>2. QED BY <1>1, <1>2, <1>3, <2>1, OpenFailsKeeps
<1>5. CASE twice
  <2> DEFINE h == Finalized(health, Fresh)
  <2>1. stage = "Opening" /\ OpenFails(h) /\ kept' = Append(kept, Fresh)
    BY <1>5 DEF OpenError, Opens, Keep
  <2>2. h.native = Fresh /\ h.cleanup = 0
    <3>1. Fresh \in Nat /\ health.cleanup = 0
      BY <1>3, FreshTyped, OpenCounted
    <3>2. QED BY <1>3, <3>1, FinalizedFields
  <2> HIDE DEF h
  <2>3. GoneWith(h)
    BY <2>1 DEF OpenFails, Preparing
  <2>4. /\ stage' = "Gone" /\ live' = 0 /\ slot' = NoSlot /\ meter' = NoMeter /\ told' = told \o OwedErrors(h)
        /\ health' = [mode |-> "NativeFirst", native |-> 0, cleanup |-> 0]
    BY <2>3 DEF GoneWith, Deliver, Finish, Taken
  <2>5. told = kept
    BY OpenCounted, HealthyTold
  <2>6. told' = kept' /\ kept' \in Seq(Nat)
    <3>1. Fresh # 0
      BY <1>3, FreshTyped
    <3>2. OwedErrors(h) = <<Fresh>>
      BY <2>2, <3>1, OwedFields
    <3>3. QED BY <1>3, <2>1, <2>4, <2>5, <3>2, FreshTyped
  <2>7. RestTypes
    BY <1>1, <1>2, <1>3, <2>4, NoneTyped DEF RestTypes
  <2>8. calls = 0
    BY OpenCounted
  <2>9. QED BY <1>1, <1>2, <1>3, <2>4, <2>6, <2>7, <2>8, GoneKeeps
<1>6. QED BY <1>4, <1>5

LEMMA MismatchKeeps ==
    ASSUME InstallInv, StepMismatch
    PROVE  InstallInv'
<1>1. stage \in {"Opening", "Prepare"} /\ OpenError(0, FALSE)
  BY DEF StepMismatch, Opens
<1>2. QED BY <1>1, OpenErrorKeeps

Tells(sql, step) ==
    IF RunsSql(step) \/ step = "Limits" THEN sql.applied \cup {step} ELSE sql.applied

(* What a step tells SQLite.                                               *)
LEMMA SettingTells ==
    ASSUME native \in Natives, NEW ticks \in Nat, StepSetting(ticks), OpenSteps[at] \in StepNames
    PROVE  /\ native' \in Natives /\ native'.loose = native.loose /\ native'.ran = native.ran
           /\ native'.applied = Tells(native, OpenSteps[at])
<1> DEFINE m == IF RunsSql(OpenSteps[at]) THEN Charged(meter, ticks + Quanta) ELSE meter
           told2 == IF RunsSql(OpenSteps[at]) \/ OpenSteps[at] = "Limits" THEN native.applied \cup {OpenSteps[at]}
                    ELSE native.applied
           guard == native.guarded \/ (OpenSteps[at] = "VTemporaryCache" /\ ~Exhausted(m))
<1>1. native' = [native EXCEPT !.applied = told2, !.guarded = guard]
  BY DEF StepSetting
<1>2. told2 \in SUBSET StepNames
  BY DEF Natives
<1>3. guard \in BOOLEAN
  BY DEF Natives
<1>4. told2 = Tells(native, OpenSteps[at])
  BY DEF Tells
<1> HIDE DEF told2, guard
<1>5. /\ native' \in Natives /\ native'.loose = native.loose /\ native'.ran = native.ran
      /\ native'.applied = told2
  BY <1>1, <1>2, <1>3 DEF Natives
<1>6. QED BY <1>4, <1>5

LEMMA SettingGuards ==
    ASSUME native \in Natives, NEW ticks \in Nat, StepSetting(ticks),
           OpenSteps[at] = "VTemporaryCache", ~Exhausted(Charged(meter, ticks + Quanta))
    PROVE  native'.guarded
<1>1. RunsSql(OpenSteps[at])
  BY DEF RunsSql
<1> DEFINE told2 == IF RunsSql(OpenSteps[at]) \/ OpenSteps[at] = "Limits" THEN native.applied \cup {OpenSteps[at]}
                    ELSE native.applied
           m == IF RunsSql(OpenSteps[at]) THEN Charged(meter, ticks + Quanta) ELSE meter
           guard == native.guarded \/ (OpenSteps[at] = "VTemporaryCache" /\ ~Exhausted(m))
<1>2. native' = [native EXCEPT !.applied = told2, !.guarded = guard]
  BY DEF StepSetting
<1>3. guard
  BY <1>1
<1> HIDE DEF told2, guard
<1>4. native'.guarded = guard
  BY <1>2 DEF Natives
<1>5. QED BY <1>3, <1>4

LEMMA AppliedNow ==
    ASSUME target' = target
    PROVE  AppliedBy(at)' = AppliedBy(at')
  BY DEF AppliedBy, RunsSql

(* A step of the configuration: the next one finds exactly the ones before *)
(* it applied.                                                             *)
LEMMA SettingKeeps ==
    ASSUME InstallInv, NEW ticks \in Nat, StepSetting(ticks)
    PROVE  InstallInv'
<1> DEFINE step == OpenSteps[at]
           m == IF RunsSql(step) THEN Charged(meter, ticks + Quanta) ELSE meter
<1>1. /\ stage = "Opening" /\ at <= Boundaries /\ Ripe /\ hist' = Tried(hist)
      /\ target' = target /\ calls' = calls /\ spent' = spent /\ unwound' = unwound /\ kept' = kept
  BY DEF StepSetting, Opens
<1>2. /\ Role = "Open" /\ Counted(slot, hist, Limits["Open"]) /\ InstallTypes
      /\ hist \in Hists /\ at \in Nat /\ native \in Natives /\ native.loose = FALSE /\ ConfiguredFits
      /\ live \in Nat /\ meter \in Meters
  BY <1>1, OpenCounted, InvParts
<1>3. OpeningFits(at, native) /\ at \in 1 .. Boundaries /\ Boundaries \in Nat
  <2>1. OpeningFits(at, native)
    BY <1>1, <1>2 DEF ConfiguredFits
  <2>2. at \in 1 .. Boundaries + Commands + 1
    BY <2>1 DEF OpeningFits
  <2>3. QED BY <1>1, <2>1, <2>2, BoundariesTyped
<1>4. step \in StepNames
  BY <1>3, StepsAre
<1>5. /\ hist' \in Hists /\ hist'.late = FALSE /\ hist'.gave = "None" /\ GaveFits(hist', Limits["Open"])
  BY <1>1, OpenCall
<1>6. /\ native' \in Natives /\ native'.loose = FALSE /\ native'.ran = native.ran
      /\ native'.applied = Tells(native, step)
  BY <1>2, <1>4, SettingTells
<1>7. m \in Meters
  <2>1. ticks + Quanta \in Nat
    BY QuantaTyped
  <2>2. QED BY <1>2, <2>1, ChargedFields
<1>8. CASE RunsSql(step) /\ Exhausted(m)
  <2>1. OpenFails(health) /\ at' = at
    BY <1>8 DEF StepSetting
  <2>2. QED BY <1>1, <1>2, <1>5, <1>6, <2>1, OpenFailsKeeps
<1>9. CASE ~(RunsSql(step) /\ Exhausted(m))
  <2>1. Attempted /\ meter' = m /\ at' = at + 1 /\ UNCHANGED <<stage, live, health, report, told>>
    BY <1>9 DEF StepSetting
  <2>2. slot' \in RetrySlots /\ Counted(slot', hist', Limits["Open"])
    BY <1>1, <1>2, <2>1, AttemptCounts
  <2>3. RestTypes
    BY <1>2, <1>5, <1>6, <1>7, <2>1, <2>2 DEF RestTypes
  <2>4. native'.applied = AppliedBy(at + 1)
    <3>1. native.applied = AppliedBy(at)
      BY <1>3 DEF OpeningFits
    <3>2. QED BY <1>3, <1>6, <3>1, AppliedNext DEF Tells
  <2>5. ASSUME at + 1 > Boundaries PROVE native'.guarded
    <3>1. at = Boundaries
      BY <1>2, <1>3, <2>5
    <3>2. step = "VTemporaryCache"
      BY <3>1, StepsAre
    <3>3. RunsSql(step)
      BY <3>2 DEF RunsSql
    <3>4. ~Exhausted(Charged(meter, ticks + Quanta))
      BY <1>9, <3>3
    <3>5. QED BY <1>2, <3>2, <3>4, SettingGuards
  <2>6. native'.ran = 0
    BY <1>1, <1>3, <1>6 DEF OpeningFits
  <2>7. OpeningFits(at, native)'
    <3>1. at + 1 \in 1 .. Boundaries + Commands + 1
      BY <1>3, InstallAssumption
    <3>2. at + 1 > Boundaries => native'.ran + Boundaries + 1 = at + 1
      BY <1>3, <2>6
    <3>3. native'.applied = AppliedBy(at)'
      BY <1>1, <2>1, <2>4, AppliedNow
    <3>4. Boundaries' = Boundaries
      BY DEF Boundaries
    <3>5. QED BY <2>1, <2>5, <2>6, <3>1, <3>2, <3>3, <3>4 DEF OpeningFits
  <2>8. ConfiguredFits'
    BY <1>1, <1>6, <2>1, <2>7 DEF ConfiguredFits
  <2> HIDE DEF m
  <2>9. QED BY <1>1, <1>5, <2>1, <2>2, <2>3, <2>8, OpenStays
<1>10. QED BY <1>8, <1>9

-----------------------------------------------------------------------------
(* The commands and statements of an opening *)

(* A command runs behind the guard that the configuration left.            *)
LEMMA CommandRuns ==
    ASSUME native \in Natives, native.guarded, native.loose = FALSE, NEW ticks \in Nat, StepCommand(ticks)
    PROVE  /\ native' \in Natives /\ native'.loose = FALSE /\ native'.ran = native.ran + 1
           /\ native'.applied = native.applied /\ native'.guarded
<1> DEFINE loose == native.loose \/ ~native.guarded
           ran == native.ran + 1
<1>1. native' = [native EXCEPT !.ran = ran, !.loose = loose]
  BY DEF StepCommand
<1>2. loose = FALSE
  OBVIOUS
<1>3. ran \in Nat
  BY DEF Natives
<1> HIDE DEF ran, loose
<1>4. /\ native' \in Natives /\ native'.loose = FALSE /\ native'.ran = ran
      /\ native'.applied = native.applied /\ native'.guarded = native.guarded
  BY <1>1, <1>2, <1>3 DEF Natives
<1>5. QED BY <1>4 DEF ran

(* A command of the opening: the next one finds one more run.              *)
LEMMA CommandKeeps ==
    ASSUME InstallInv, NEW ticks \in Nat, StepCommand(ticks)
    PROVE  InstallInv'
<1> DEFINE m == Charged(meter, ticks + Quanta)
<1>1. /\ stage = "Opening" /\ at > Boundaries /\ at - Boundaries <= Commands /\ Ripe /\ hist' = Tried(hist)
      /\ target' = target /\ calls' = calls /\ spent' = spent /\ unwound' = unwound /\ kept' = kept
  BY DEF StepCommand, Opens
<1>2. /\ Role = "Open" /\ Counted(slot, hist, Limits["Open"]) /\ InstallTypes
      /\ hist \in Hists /\ at \in Nat /\ native \in Natives /\ native.loose = FALSE /\ ConfiguredFits
      /\ live \in Nat /\ meter \in Meters
  BY <1>1, OpenCounted, InvParts
<1>3. OpeningFits(at, native) /\ Boundaries \in Nat /\ Commands \in Nat
  BY <1>1, <1>2, BoundariesTyped, InstallAssumption DEF ConfiguredFits
<1>4. native.guarded /\ native.ran + Boundaries + 1 = at /\ native.applied = AppliedBy(at) /\ native.ran \in Nat
  BY <1>1, <1>2, <1>3 DEF OpeningFits, Natives
<1>5. /\ hist' \in Hists /\ hist'.late = FALSE /\ hist'.gave = "None" /\ GaveFits(hist', Limits["Open"])
  BY <1>1, OpenCall
<1>6. /\ native' \in Natives /\ native'.loose = FALSE /\ native'.ran = native.ran + 1
      /\ native'.applied = native.applied /\ native'.guarded
  BY <1>2, <1>4, CommandRuns
<1>7. m \in Meters
  <2>1. ticks + Quanta \in Nat
    BY QuantaTyped
  <2>2. QED BY <1>2, <2>1, ChargedFields
<1>8. CASE Exhausted(m)
  <2>1. OpenFails(health) /\ at' = at
    BY <1>8 DEF StepCommand
  <2>2. QED BY <1>1, <1>2, <1>5, <1>6, <2>1, OpenFailsKeeps
<1>9. CASE ~Exhausted(m)
  <2>1. Attempted /\ meter' = m /\ at' = at + 1 /\ UNCHANGED <<stage, live, health, report, told>>
    BY <1>9 DEF StepCommand
  <2>2. slot' \in RetrySlots /\ Counted(slot', hist', Limits["Open"])
    BY <1>1, <1>2, <2>1, AttemptCounts
  <2>3. RestTypes
    BY <1>2, <1>5, <1>6, <1>7, <2>1, <2>2 DEF RestTypes
  <2>4. native'.applied = AppliedBy(at + 1)
    <3>1. at + 1 \in Nat /\ at + 1 > Boundaries
      BY <1>1, <1>2, <1>3
    <3>2. AppliedBy(at + 1) = Required /\ AppliedBy(at) = Required
      BY <1>1, <1>2, <3>1, AppliedLast
    <3>3. QED BY <1>4, <1>6, <3>2
  <2>5. OpeningFits(at, native)'
    <3>1. at + 1 \in 1 .. Boundaries + Commands + 1
      BY <1>1, <1>2, <1>3
    <3>2. native'.ran + Boundaries + 1 = at + 1 /\ at + 1 > Boundaries
      BY <1>1, <1>2, <1>3, <1>4, <1>6
    <3>3. native'.applied = AppliedBy(at)'
      BY <1>1, <2>1, <2>4, AppliedNow
    <3>4. Boundaries' = Boundaries
      BY DEF Boundaries
    <3>5. ~(at + 1 <= Boundaries)
      BY <1>2, <1>3, <3>2
    <3>6. QED BY <1>6, <2>1, <3>1, <3>2, <3>3, <3>4, <3>5 DEF OpeningFits
  <2>6. ConfiguredFits'
    BY <1>1, <1>6, <2>1, <2>5 DEF ConfiguredFits
  <2> HIDE DEF m
  <2>7. QED BY <1>1, <1>5, <2>1, <2>2, <2>3, <2>6, OpenStays
<1>10. QED BY <1>8, <1>9

LEMMA StartPrepareKeeps ==
    ASSUME InstallInv, StartPrepare
    PROVE  InstallInv'
<1>1. /\ stage = "Opening" /\ at = Boundaries + Commands + 1 /\ stage' = "Prepare"
      /\ UNCHANGED <<target, at, live, native, slot, health, meter, calls, unwound, spent, kept, told, hist>>
  BY DEF StartPrepare, Opens
<1>2. /\ Counted(slot, hist, Limits["Open"]) /\ hist.gave = "None"
      /\ hist \in Hists /\ hist.late = FALSE /\ at \in Nat /\ native \in Natives /\ native.loose = FALSE
      /\ ConfiguredFits /\ live \in Nat /\ meter \in Meters /\ slot \in RetrySlots
  BY <1>1, OpenCounted, InvParts
<1>3. OpeningFits(at, native) /\ Boundaries \in Nat /\ Commands \in Nat
  BY <1>1, <1>2, BoundariesTyped, InstallAssumption DEF ConfiguredFits
<1>4. at > Boundaries
  BY <1>1, <1>3
<1>5. native.guarded /\ native.ran + Boundaries + 1 = at /\ native.applied = AppliedBy(at) /\ native.ran \in Nat
  BY <1>2, <1>3, <1>4 DEF OpeningFits, Natives
<1>6. native.ran = Commands
  BY <1>1, <1>3, <1>5
<1>7. native.applied = Required
  BY <1>2, <1>4, <1>5, AppliedLast
<1>8. Required' = Required
  BY <1>1, AppliedKept
<1>9. ConfiguredFits'
  BY <1>1, <1>2, <1>5, <1>6, <1>7, <1>8 DEF ConfiguredFits
<1>10. RestTypes
  BY <1>1, <1>2 DEF RestTypes
<1>11. QED BY <1>1, <1>2, <1>9, <1>10, OpenStays

LEMMA PreparedNative ==
    ASSUME native \in Natives, native.guarded, native.loose = FALSE, NEW bytes, StepPrepare(bytes)
    PROVE  native' = native
<1> DEFINE loose == native.loose \/ (live >= Controls /\ ~native.guarded)
<1>1. native' = [native EXCEPT !.loose = loose]
  BY DEF StepPrepare
<1>2. loose = native.loose
  OBVIOUS
<1> HIDE DEF loose
<1>3. QED BY <1>1, <1>2 DEF Natives

(* A statement is prepared; after the last of them the connection serves.  *)
LEMMA PrepareKeeps ==
    ASSUME InstallInv, NEW bytes \in Nat, StepPrepare(bytes)
    PROVE  InstallInv'
<1> DEFINE m == Charged(meter, Quanta)
<1>1. /\ stage = "Prepare" /\ Ripe /\ hist' = Tried(hist) /\ at' = at
      /\ target' = target /\ calls' = calls /\ spent' = spent /\ unwound' = unwound /\ kept' = kept
  BY DEF StepPrepare, Preparing
<1>2. /\ Role = "Open" /\ Counted(slot, hist, Limits["Open"]) /\ InstallTypes
      /\ hist \in Hists /\ at \in Nat /\ native \in Natives /\ native.loose = FALSE /\ ConfiguredFits
      /\ live \in Nat /\ meter \in Meters
  BY <1>1, OpenCounted, InvParts
<1>3. native.applied = Required /\ native.guarded /\ native.ran = Commands
  BY <1>1, <1>2 DEF ConfiguredFits
<1>4. native' = native
  BY <1>2, <1>3, PreparedNative
<1>5. /\ hist' \in Hists /\ hist'.late = FALSE /\ hist'.gave = "None" /\ GaveFits(hist', Limits["Open"])
  BY <1>1, OpenCall
<1>6. m \in Meters
  BY <1>2, QuantaTyped, ChargedFields
<1>7. Required' = Required
  BY <1>1, AppliedKept
<1> HIDE DEF m
<1>8. CASE OpenFails(health)
  BY <1>1, <1>2, <1>4, <1>5, <1>8, OpenFailsKeeps
<1>9. CASE Attempted /\ meter' = m /\ live' = live + 1 /\ UNCHANGED <<stage, health, report, told>>
  <2>1. slot' \in RetrySlots /\ Counted(slot', hist', Limits["Open"])
    BY <1>1, <1>2, <1>9, AttemptCounts
  <2>2. RestTypes
    BY <1>1, <1>2, <1>4, <1>5, <1>6, <1>9, <2>1 DEF RestTypes
  <2>3. ConfiguredFits'
    BY <1>1, <1>2, <1>3, <1>4, <1>7, <1>9 DEF ConfiguredFits
  <2>4. QED BY <1>1, <1>5, <1>9, <2>1, <2>2, <2>3, OpenStays
<1>10. CASE ReadySlot /\ stage' = "Ready" /\ meter' = NoMeter /\ live' = Items /\ UNCHANGED <<health, report, told>>
  <2>1. slot' = NoSlot
    BY <1>10 DEF ReadySlot, Finish
  <2>2. InstallTypes'
    BY <1>1, <1>2, <1>4, <1>5, <1>10, <2>1, NoneTyped, InstallAssumption, InvParts DEF InstallTypes, InstallStages
  <2>3. ConfiguredFits'
    BY <1>1, <1>2, <1>3, <1>4, <1>7, <1>10 DEF ConfiguredFits
  <2>4. HealthFits'
    BY <1>1, <1>10, OpenCounted DEF HealthFits
  <2>5. LedgerFits'
    BY <1>1, <1>10, InvParts DEF LedgerFits
  <2>6. BudgetFits'
    BY <1>1, <1>5, <1>10, <2>1, OpenCounted, NoneTyped DEF BudgetFits
  <2>7. QED BY <2>2, <2>3, <2>4, <2>5, <2>6 DEF InstallInv
<1>11. QED
  BY <1>8, <1>9, <1>10 DEF StepPrepare, m

-----------------------------------------------------------------------------
(* The other ways out of an opening, and the steps that move nothing *)

(* The deadline of an opening: it fails for the time it has used itself.   *)
LEMMA OpenExpiresKeeps ==
    ASSUME InstallInv, OpenExpires
    PROVE  InstallInv'
<1>1. /\ stage \in {"Opening", "Prepare"} /\ Waiting /\ Due /\ OpenFails(health) /\ hist' = Giving(hist, "Timeout")
      /\ at' = at /\ native' = native /\ calls' = calls /\ spent' = spent /\ unwound' = unwound /\ kept' = kept
  BY DEF OpenExpires, Giving
<1>2. /\ Counted(slot, hist, Limits["Open"]) /\ hist \in Hists /\ hist.late = FALSE
      /\ at \in Nat /\ native \in Natives /\ native.loose = FALSE
  BY <1>1, OpenCounted, InvParts
<1>3. hist.age >= Limits["Open"].window
  BY <1>1, <1>2 DEF Counted, Waiting, Due
<1>4. hist' \in Hists /\ hist'.late = FALSE /\ hist'.age = hist.age /\ hist'.gave = "Timeout"
  BY <1>1, <1>2, GivingFields
<1>5. GaveFits(hist', Limits["Open"])
  BY <1>3, <1>4 DEF GaveFits
<1>6. QED BY <1>1, <1>2, <1>4, <1>5, OpenFailsKeeps

(* The parts of a step that leaves the installation for good. *)
LEMMA LeavesKeeps ==
    ASSUME InstallInv, stage # "Gone", GoneWith(health),
           UNCHANGED <<at, native, calls, unwound, spent, kept, hist>>
    PROVE  InstallInv'
<1>1. live' = 0 /\ slot' = NoSlot /\ meter' = NoMeter
  BY DEF GoneWith, Deliver, Finish
<1>2. RestTypes
  BY <1>1, NoneTyped, InvParts DEF RestTypes
<1>3. GaveFits(hist', Limits[IF calls = 0 THEN "Open" ELSE "Call"])
  <2>1. calls = 0 => GaveFits(hist, Limits["Open"])
    BY InvParts DEF BudgetFits
  <2>2. calls > 0 => GaveFits(hist, Limits["Call"])
    BY InvParts DEF BudgetFits
  <2>3. calls \in Nat /\ hist' = hist
    BY InvParts
  <2>4. QED BY <2>1, <2>2, <2>3
<1>4. native'.loose = FALSE /\ hist'.late = FALSE
  BY InvParts
<1>5. QED BY <1>2, <1>3, <1>4, GoneWithKeeps

LEMMA RetireFailingKeeps ==
    ASSUME InstallInv, RetireFailing
    PROVE  InstallInv'
<1>1. CASE live > 1
  <2>1. /\ stage = "Failing" /\ live' = live - 1
        /\ UNCHANGED <<stage, target, at, native, slot, health, meter, calls, unwound, spent, kept, told, hist>>
    BY <1>1 DEF RetireFailing
  <2>2. live - 1 \in Nat
    BY <1>1, InvParts
  <2>3. InstallTypes'
    BY <2>1, <2>2, InvParts DEF InstallTypes
  <2>4. ConfiguredFits' /\ HealthFits' /\ LedgerFits'
    BY <2>1, InvParts DEF ConfiguredFits, HealthFits, LedgerFits
  <2>5. BudgetFits'
    BY <2>1, InvParts DEF BudgetFits
  <2>6. QED BY <2>3, <2>4, <2>5 DEF InstallInv
<1>2. CASE ~(live > 1)
  BY <1>2, LeavesKeeps DEF RetireFailing
<1>3. QED BY <1>1, <1>2

LEMMA CancelOpenKeeps ==
    ASSUME InstallInv, CancelOpen
    PROVE  InstallInv'
  BY LeavesKeeps DEF CancelOpen

LEMMA ClosedKeeps ==
    ASSUME InstallInv, Closed
    PROVE  InstallInv'
  BY LeavesKeeps DEF Closed

(* Steps that move nothing the invariant looks at. *)
LEMMA IdleKeeps ==
    ASSUME InstallInv,
           UNCHANGED <<stage, target, at, live, native, slot, health, meter, calls, unwound, spent, kept, told, hist>>
    PROVE  InstallInv'
<1>1. InstallTypes'
  BY InvParts DEF InstallTypes
<1>2. ConfiguredFits'
  <2>1. Required' = Required /\ AppliedBy(at)' = AppliedBy(at)
    BY AppliedKept, AppliedNow
  <2>2. Boundaries' = Boundaries
    BY DEF Boundaries
  <2>3. QED BY <2>1, <2>2, InvParts DEF ConfiguredFits, OpeningFits
<1>3. HealthFits' /\ LedgerFits'
  BY InvParts DEF HealthFits, LedgerFits, OwedErrors
<1>4. BudgetFits'
  BY InvParts DEF BudgetFits
<1>5. QED BY <1>1, <1>2, <1>3, <1>4 DEF InstallInv

LEMMA WaitingKeeps ==
    ASSUME InstallInv, Refused \/ StillWaiting \/ Spurious
    PROVE  InstallInv'
  BY IdleKeeps DEF Refused, StillWaiting, Spurious

LEMMA NewParts ==
    ASSUME InstallInv, stage = "New"
    PROVE  /\ Counted(slot, hist, Limits["Open"]) /\ hist.gave = "None" /\ calls = 0
           /\ health.native = 0 /\ health.cleanup = 0 /\ ~spent /\ ~unwound
           /\ at = 1 /\ native.applied = {} /\ native.ran = 0
  BY InvParts DEF BudgetFits, HealthFits, ConfiguredFits

(* The native connection is opened, or is not.                             *)
LEMMA InstallKeeps ==
    ASSUME InstallInv, NEW opened \in BOOLEAN, Install(opened)
    PROVE  InstallInv'
<1>1. /\ stage = "New"
      /\ UNCHANGED <<target, at, live, native, slot, health, calls, unwound, spent, kept, told, hist>>
  BY DEF Install
<1>2. CASE opened
  <2>1. stage' = "Opening" /\ meter' = [mode |-> "Primary", left |-> Limits["Open"].quota]
    BY <1>2 DEF Install
  <2>2. meter' \in Meters
    BY <2>1, LimitTyped DEF Meters
  <2>3. RestTypes
    BY <1>1, <2>2, InvParts DEF RestTypes
  <2>4. OpeningFits(at, native)'
    <3>1. Boundaries' = Boundaries
      BY DEF Boundaries
    <3>2. native'.applied = AppliedBy(at)'
      BY <1>1, NewParts, AppliedNow, AppliedFirst
    <3>3. 1 \in 1 .. Boundaries + Commands + 1 /\ ~(1 > Boundaries)
      BY BoundariesTyped, InstallAssumption
    <3>4. QED BY <1>1, <3>1, <3>2, <3>3, NewParts DEF OpeningFits
  <2>5. ConfiguredFits'
    BY <1>1, <2>1, <2>4, InvParts DEF ConfiguredFits
  <2>6. hist'.late = FALSE /\ hist'.gave = "None" /\ Counted(slot', hist', Limits["Open"])
    BY <1>1, InvParts, NewParts
  <2>7. QED BY <1>1, <2>1, <2>3, <2>5, <2>6, OpenStays
<1>3. CASE ~opened
  <2>1. stage' = "Gone" /\ meter' = NoMeter
    BY <1>3 DEF Install
  <2>2. InstallTypes'
    BY <1>1, <2>1, NoneTyped, InvParts DEF InstallTypes, InstallStages
  <2>3. ConfiguredFits'
    BY <1>1, <2>1, InvParts DEF ConfiguredFits
  <2>4. HealthFits'
    BY <1>1, <2>1, InvParts, NewParts DEF HealthFits
  <2>5. LedgerFits'
    BY <1>1, <2>1, HealthyTold, NewParts, InvParts, ConcatNone DEF LedgerFits
  <2>6. BudgetFits'
    BY <1>1, <2>1, InvParts DEF BudgetFits
  <2>7. QED BY <2>2, <2>3, <2>4, <2>5, <2>6 DEF InstallInv
<1>4. QED BY <1>2, <1>3

LEMMA TickKeeps ==
    ASSUME InstallInv, Tick
    PROVE  InstallInv'
<1>1. /\ stage \in {"Opening", "Prepare", "Calling"} /\ hist.tries > 0
      /\ UNCHANGED <<stage, target, at, live, native, health, meter, calls, unwound, spent, kept, told>>
  BY DEF Tick
<1>2. hist' = [hist EXCEPT !.age = @ + 1] /\ slot' = [slot EXCEPT !.due = Down(@)]
  BY DEF Tick
<1>3. hist \in Hists /\ slot \in RetrySlots /\ hist.age \in Nat /\ slot.due \in Nat /\ hist.tries \in Nat
  BY InvParts DEF Hists, RetrySlots
<1>4. Counted(slot, hist, Limits[Role]) /\ hist.gave = "None" /\ Role' = Role /\ Role \in {"Open", "Call"}
  BY <1>1, InvParts DEF BudgetFits, Role
<1>5. /\ hist' \in Hists /\ hist'.age = hist.age + 1 /\ hist'.tries = hist.tries /\ hist'.late = hist.late
      /\ hist'.gave = hist.gave
  BY <1>2, <1>3 DEF Hists
<1>6. /\ slot' \in RetrySlots /\ slot'.due = Down(slot.due) /\ slot'.left = slot.left /\ slot'.st = slot.st
  BY <1>2, <1>3 DEF RetrySlots, Down
<1>7. Counted(slot', hist', Limits[Role])
  <2>1. slot.st # "Idle"
    BY <1>1, <1>3, <1>4 DEF Counted
  <2>2. Limits[Role].window \in Nat
    BY <1>4, LimitTyped
  <2>3. CASE slot.due = 0
    BY <1>3, <1>4, <1>5, <1>6, <2>1, <2>2, <2>3 DEF Counted, Down
  <2>4. CASE slot.due # 0
    <3>1. hist.age + slot.due = Limits[Role].window /\ slot'.due = slot.due - 1
      BY <1>3, <1>4, <1>6, <2>1, <2>4 DEF Counted, Down
    <3>2. slot'.due = 0 => hist'.age >= Limits[Role].window
      BY <1>3, <1>5, <2>2, <3>1
    <3>3. slot'.due # 0 => hist'.age + slot'.due = Limits[Role].window
      BY <1>3, <1>5, <2>2, <3>1
    <3>4. QED BY <1>4, <1>5, <1>6, <2>1, <3>2, <3>3 DEF Counted
  <2>5. QED BY <2>3, <2>4
<1>8. InstallTypes'
  BY <1>1, <1>5, <1>6, InvParts DEF InstallTypes
<1>9. ConfiguredFits'
  <2>1. Required' = Required /\ AppliedBy(at)' = AppliedBy(at)
    BY <1>1, AppliedKept, AppliedNow
  <2>2. Boundaries' = Boundaries
    BY DEF Boundaries
  <2>3. QED BY <1>1, <2>1, <2>2, InvParts DEF ConfiguredFits, OpeningFits
<1>10. HealthFits' /\ LedgerFits'
  BY <1>1, InvParts DEF HealthFits, LedgerFits, OwedErrors
<1>11. BudgetFits'
  <2>1. stage \in {"Opening", "Prepare"} => Counted(slot', hist', Limits["Open"]) /\ calls = 0
    BY <1>1, <1>7, InvParts DEF Role, BudgetFits
  <2>2. stage = "Calling" => Counted(slot', hist', Limits["Call"]) /\ meter.mode = "Primary" /\ calls > 0
    BY <1>1, <1>7, InvParts DEF Role, BudgetFits
  <2>3. hist'.late = FALSE /\ hist'.gave = "None"
    BY <1>4, <1>5, InvParts
  <2>4. QED BY <1>1, <2>1, <2>2, <2>3 DEF BudgetFits, GaveFits
<1>12. QED BY <1>8, <1>9, <1>10, <1>11 DEF InstallInv

-----------------------------------------------------------------------------
(* Calls *)

(* What the invariant says of a call.                                      *)
LEMMA CallParts ==
    ASSUME InstallInv, stage = "Calling"
    PROVE  /\ Role = "Call" /\ Counted(slot, hist, Limits["Call"]) /\ hist.gave = "None"
           /\ meter.mode = "Primary" /\ calls > 0
           /\ health.mode = "Healthy" /\ health.native = 0 /\ health.cleanup = 0
           /\ ~spent /\ ~unwound /\ told = kept
           /\ native.applied = Required /\ native.guarded /\ native.ran = Commands /\ live = Items
<1>1. /\ Role = "Call" /\ Counted(slot, hist, Limits["Call"]) /\ hist.gave = "None"
      /\ meter.mode = "Primary" /\ calls > 0
  BY InvParts DEF BudgetFits, Role
<1>2. health.mode = "Healthy" /\ health.native = 0 /\ health.cleanup = 0 /\ ~spent /\ ~unwound
  BY InvParts DEF HealthFits
<1>3. native.applied = Required /\ native.guarded /\ native.ran = Commands /\ live = Items
  BY InvParts DEF ConfiguredFits
<1>4. QED BY <1>1, <1>2, <1>3, HealthyTold

LEMMA CallGaveFits ==
    ASSUME InstallInv, calls > 0
    PROVE  GaveFits(hist, Limits["Call"])
  BY InvParts DEF BudgetFits

(* A connection that serves goes on serving. *)
LEMMA ServesStill ==
    ASSUME InstallInv, stage \in {"Ready", "Calling"}, stage' \in {"Ready", "Calling", "Retiring"},
           UNCHANGED <<target, at, live, native>>
    PROVE  ConfiguredFits'
<1>1. Required' = Required
  BY AppliedKept
<1>2. native.applied = Required /\ native.guarded /\ native.ran = Commands /\ live = Items /\ native.loose = FALSE
  BY InvParts DEF ConfiguredFits
<1>3. QED BY <1>1, <1>2 DEF ConfiguredFits

LEMMA DeferredFields ==
    ASSUME NEW h \in Healths, NEW error \in Nat
    PROVE  /\ Deferred(h, error) \in Healths
           /\ Deferred(h, error).native = error /\ Deferred(h, error).cleanup = h.cleanup
           /\ Deferred(h, error).mode = "Recoverable"
  BY DEF Deferred, Healths

(* A call ends, and may leave the error of its reset to the next one. *)
LEMMA EndCallKeeps ==
    ASSUME InstallInv, stage = "Calling", EndCall,
           NEW reset \in BOOLEAN,
           IF reset THEN health' = Deferred(health, Fresh) /\ Keep ELSE UNCHANGED <<health, kept>>,
           hist' \in Hists, hist'.late = FALSE, GaveFits(hist', Limits["Call"])
    PROVE  InstallInv'
<1>1. /\ stage' = "Ready" /\ slot' = NoSlot /\ meter' = NoMeter
      /\ UNCHANGED <<target, at, live, native, calls, unwound, spent, told>>
  BY DEF EndCall, CallSlot, Finish
<1>2. /\ health' \in Healths /\ health'.cleanup = 0
      /\ health'.mode \in {"Healthy", "Recoverable"} /\ (health'.mode = "Healthy" => health'.native = 0)
      /\ kept' \in Seq(Nat) /\ told \o OwedErrors(health') = kept'
  <2>1. CASE ~reset
    <3>1. health' = health /\ kept' = kept
      BY <2>1
    <3>2. OwedErrors(health') = <<>>
      BY <3>1, CallParts, OwedNone
    <3>3. QED BY <3>1, <3>2, InvParts, CallParts, ConcatNone
  <2>2. CASE reset
    <3>1. health' = Deferred(health, Fresh) /\ kept' = Append(kept, Fresh)
      BY <2>2 DEF Keep
    <3>2. Fresh \in Nat /\ Fresh # 0 /\ kept' \in Seq(Nat) /\ kept \o <<Fresh>> = Append(kept, Fresh)
      BY <3>1, FreshTyped, InvParts
    <3>3. /\ health' \in Healths /\ health'.native = Fresh /\ health'.cleanup = 0
          /\ health'.mode = "Recoverable"
      BY <3>1, <3>2, InvParts, CallParts, DeferredFields
    <3>4. OwedErrors(health') = <<Fresh>>
      BY <3>2, <3>3, OwedFields
    <3>5. QED BY <3>1, <3>2, <3>3, <3>4, CallParts
  <2>3. QED BY <2>1, <2>2
<1>3. InstallTypes'
  BY <1>1, <1>2, NoneTyped, InvParts DEF InstallTypes, InstallStages
<1>4. ConfiguredFits'
  BY <1>1, ServesStill
<1>5. HealthFits'
  BY <1>1, <1>2, CallParts DEF HealthFits
<1>6. LedgerFits'
  BY <1>1, <1>2 DEF LedgerFits
<1>7. BudgetFits'
  BY <1>1, NoneTyped, CallParts DEF BudgetFits
<1>8. QED BY <1>3, <1>4, <1>5, <1>6, <1>7 DEF InstallInv

(* A call goes on. *)
LEMMA CallStays ==
    ASSUME InstallInv, stage = "Calling",
           UNCHANGED <<stage, target, at, live, native, health, calls, unwound, spent, kept, told>>,
           slot' \in RetrySlots, meter' \in Meters, meter'.mode = "Primary",
           hist' \in Hists, hist'.late = FALSE, hist'.gave = "None", Counted(slot', hist', Limits["Call"])
    PROVE  InstallInv'
<1>1. InstallTypes'
  BY InvParts DEF InstallTypes
<1>2. ConfiguredFits'
  BY ServesStill
<1>3. HealthFits' /\ LedgerFits'
  BY InvParts DEF HealthFits, LedgerFits, OwedErrors
<1>4. BudgetFits'
  BY CallParts DEF BudgetFits, GaveFits
<1>5. QED BY <1>1, <1>2, <1>3, <1>4 DEF InstallInv

LEMMA CallTried ==
    ASSUME InstallInv, stage = "Calling", Ripe
    PROVE  /\ Tried(hist) \in Hists /\ Tried(hist).late = FALSE /\ Tried(hist).gave = "None"
           /\ GaveFits(Tried(hist), Limits["Call"])
<1>1. Role = "Call" /\ Counted(slot, hist, Limits["Call"]) /\ hist.gave = "None" /\ InstallTypes
      /\ hist \in Hists /\ hist.late = FALSE
  BY CallParts, InvParts
<1>2. Tried(hist).late = FALSE
  BY <1>1, RipeInTime
<1>3. Tried(hist) \in Hists /\ Tried(hist).gave = "None"
  BY <1>1, TriedFields
<1>4. QED BY <1>2, <1>3 DEF GaveFits

LEMMA ReadRowKeeps ==
    ASSUME InstallInv, NEW ticks \in Nat, ReadRow(ticks)
    PROVE  InstallInv'
<1>1. /\ stage = "Calling" /\ Ripe /\ meter' = Charged(meter, ticks) /\ Attempted /\ hist' = Tried(hist)
      /\ UNCHANGED <<stage, target, at, live, native, health, calls, unwound, spent, kept, told>>
  BY DEF ReadRow
<1>2. meter' \in Meters /\ meter'.mode = "Primary"
  BY <1>1, CallParts, InvParts, ChargedFields
<1>3. hist' \in Hists /\ hist'.late = FALSE /\ hist'.gave = "None"
  BY <1>1, CallTried
<1>4. slot' \in RetrySlots /\ Counted(slot', hist', Limits["Call"])
  BY <1>1, CallParts, InvParts, AttemptCounts
<1>5. QED BY <1>1, <1>2, <1>3, <1>4, CallStays

(* A call meets a lock: it waits for an attempt of its own, or gives up    *)
(* for its own reason.                                                     *)
LEMMA CallBusyKeeps ==
    ASSUME InstallInv, NEW ticks \in Nat, CallBusy(ticks)
    PROVE  InstallInv'
<1> DEFINE m == Charged(meter, ticks)
           why == IF Exhausted(m) THEN "Quota" ELSE Refusal
<1>1. stage = "Calling" /\ Ripe
  BY DEF CallBusy
<1>2. /\ Role = "Call" /\ Counted(slot, hist, Limits["Call"]) /\ hist.gave = "None" /\ InstallTypes
      /\ hist \in Hists
  BY <1>1, CallParts, InvParts
<1>3. Tried(hist).late = FALSE
  BY <1>1, CallTried
<1>4. CASE why = "None"
  <2>1. /\ Defer /\ meter' = m /\ hist' = Busied(hist)
        /\ UNCHANGED <<stage, target, at, live, native, health, calls, unwound, spent, kept, told>>
    BY <1>4 DEF CallBusy
  <2>2. Refusal = "None"
    BY <1>4
  <2>3. m \in Meters /\ m.mode = "Primary"
    BY <1>1, CallParts, InvParts, ChargedFields
  <2> HIDE DEF m, why
  <2>4. slot' \in RetrySlots /\ Counted(slot', hist', Limits["Call"])
    BY <1>2, <2>1, <2>2, DeferCounts
  <2>5. hist' \in Hists /\ hist'.late = FALSE /\ hist'.gave = "None"
    BY <1>2, <1>3, <2>1, BusiedFields
  <2>6. QED BY <1>1, <2>1, <2>3, <2>4, <2>5, CallStays
<1>5. CASE why # "None"
  <2>1. EndCall /\ hist' = Giving(Busied(hist), why) /\ UNCHANGED <<health, kept>>
    BY <1>5 DEF CallBusy, Giving
  <2>2. why \in {"Quota", Refusal}
    OBVIOUS
  <2> HIDE DEF why
  <2>3. hist' \in Hists /\ hist'.late = FALSE /\ GaveFits(hist', Limits["Call"])
    BY <1>2, <1>3, <1>5, <2>1, <2>2, RefusalFits
  <2>4. QED BY <1>1, <2>1, <2>3, EndCallKeeps
<1>6. QED BY <1>4, <1>5

(* The deadline of a call.                                                 *)
LEMMA CallExpiresKeeps ==
    ASSUME InstallInv, CallExpires
    PROVE  InstallInv'
<1>1. /\ stage = "Calling" /\ Waiting /\ Due /\ EndCall /\ hist' = Giving(hist, "Timeout")
      /\ UNCHANGED <<health, kept>>
  BY DEF CallExpires, Giving
<1>2. Counted(slot, hist, Limits["Call"]) /\ hist \in Hists /\ hist.late = FALSE
  BY <1>1, CallParts, InvParts
<1>3. hist.age >= Limits["Call"].window
  BY <1>1, <1>2 DEF Counted, Waiting, Due
<1>4. hist' \in Hists /\ hist'.late = FALSE /\ hist'.age = hist.age /\ hist'.gave = "Timeout"
  BY <1>1, <1>2, GivingFields
<1>5. GaveFits(hist', Limits["Call"])
  BY <1>3, <1>4 DEF GaveFits
<1>6. QED BY <1>1, <1>4, <1>5, EndCallKeeps

LEMMA CallReturnsKeeps ==
    ASSUME InstallInv, NEW answers \in BOOLEAN, NEW reset \in BOOLEAN, CallReturns(answers, reset)
    PROVE  InstallInv'
<1> DEFINE why == IF answers THEN "Answer" ELSE "None"
<1>1. /\ stage = "Calling" /\ Ripe /\ EndCall /\ hist' = Giving(Tried(hist), why)
      /\ IF reset THEN health' = Deferred(health, Fresh) /\ Keep ELSE UNCHANGED <<health, kept>>
  BY DEF CallReturns, Giving
<1>2. Tried(hist) \in Hists /\ Tried(hist).late = FALSE
  BY <1>1, CallTried
<1>3. hist' \in Hists /\ hist'.late = FALSE /\ hist'.gave \in {"None", "Answer"}
  BY <1>1, <1>2, GivingFields
<1>4. GaveFits(hist', Limits["Call"])
  BY <1>3 DEF GaveFits
<1>5. QED BY <1>1, <1>3, <1>4, EndCallKeeps

(* A call is dropped by its owner.                                         *)
LEMMA CancelCallKeeps ==
    ASSUME InstallInv, NEW reset \in BOOLEAN, CancelCall(reset)
    PROVE  InstallInv'
<1>1. /\ stage = "Calling" /\ EndCall /\ hist' = hist
      /\ IF reset THEN health' = Deferred(health, Fresh) /\ Keep ELSE UNCHANGED <<health, kept>>
  BY DEF CancelCall
<1>2. hist' \in Hists /\ hist'.late = FALSE /\ GaveFits(hist', Limits["Call"])
  BY <1>1, InvParts, CallParts, CallGaveFits
<1>3. QED BY <1>1, <1>2, EndCallKeeps

(* A call is forgotten: its statement waits for the next call to be reset. *)
LEMMA ForgetCallKeeps ==
    ASSUME InstallInv, ForgetCall
    PROVE  InstallInv'
<1>1. /\ stage = "Calling" /\ stage' = "Ready" /\ unwound' = Midway
      /\ UNCHANGED <<target, at, live, native, slot, health, meter, calls, spent, kept, told, hist>>
  BY DEF ForgetCall
<1>2. InstallTypes'
  BY <1>1, InvParts DEF InstallTypes, InstallStages, Midway
<1>3. ConfiguredFits'
  BY <1>1, ServesStill
<1>4. HealthFits'
  BY <1>1, CallParts DEF HealthFits
<1>5. LedgerFits'
  BY <1>1, InvParts DEF LedgerFits
<1>6. BudgetFits'
  BY <1>1, CallParts, InvParts DEF BudgetFits, GaveFits
<1>7. QED BY <1>2, <1>3, <1>4, <1>5, <1>6 DEF InstallInv

-----------------------------------------------------------------------------
(* What is owed when a call begins *)

(* What a check delivers is the first of what is owed. *)
LEMMA CheckedFields ==
    ASSUME NEW h \in Healths, h.mode = "Healthy" => h.native = 0 /\ h.cleanup = 0,
           h.mode = "Recoverable" => h.cleanup = 0
    PROVE  /\ Checked(h) \in Healths
           /\ h.mode \in {"Healthy", "Recoverable"} =>
                Checked(h).mode = "Healthy" /\ Checked(h).native = 0 /\ Checked(h).cleanup = 0
           /\ h.mode \in {"NativeFirst", "CleanupFirst"} => Checked(h).mode = h.mode
           /\ h.native = 0 => Checked(h).native = 0
           /\ h.mode = "NativeFirst" =>
                Checked(h).native = 0 /\ Checked(h).cleanup = IF h.native # 0 THEN h.cleanup ELSE 0
           /\ h.mode = "CleanupFirst" =>
                Checked(h).cleanup = 0 /\ Checked(h).native = IF h.cleanup # 0 THEN h.native ELSE 0
<1>1. CASE h.mode = "Healthy"
  BY <1>1 DEF Checked
<1>2. CASE h.mode = "Recoverable"
  BY <1>2, NoneTyped DEF Checked
<1>3. CASE h.mode = "NativeFirst" /\ h.native # 0
  <2>1. Checked(h) = [h EXCEPT !.native = 0]
    BY <1>3 DEF Checked
  <2>2. QED BY <1>3, <2>1 DEF Healths
<1>4. CASE h.mode = "NativeFirst" /\ h.native = 0
  <2>1. Checked(h) = [h EXCEPT !.cleanup = 0]
    BY <1>4 DEF Checked
  <2>2. QED BY <1>4, <2>1 DEF Healths
<1>5. CASE h.mode = "CleanupFirst" /\ h.cleanup # 0
  <2>1. Checked(h) = [h EXCEPT !.cleanup = 0]
    BY <1>5 DEF Checked
  <2>2. QED BY <1>5, <2>1 DEF Healths
<1>6. CASE h.mode = "CleanupFirst" /\ h.cleanup = 0
  <2>1. Checked(h) = [h EXCEPT !.native = 0]
    BY <1>6 DEF Checked
  <2>2. QED BY <1>6, <2>1 DEF Healths
<1>7. QED BY <1>1, <1>2, <1>3, <1>4, <1>5, <1>6 DEF Healths

LEMMA SomeIs ==
    /\ Some(0) = <<>>
    /\ \A e \in Nat : e # 0 => Some(e) = <<e>>
    /\ \A e \in Nat : Some(e) \in Seq(Nat)
  BY DEF Some

(* Delivering the first of what is owed leaves the rest of it.             *)
LEMMA ErrorFirst ==
    ASSUME NEW a \in Nat, NEW s \in Seq(Nat)
    PROVE  Head(<<a>> \o s) = a /\ <<a>> \o s # <<>> /\ <<a>> \in Seq(Nat)
<1>1. <<a>> \in Seq(Nat) /\ Len(<<a>>) = 1 /\ <<a>>[1] = a
  OBVIOUS
<1>2. /\ <<a>> \o s \in Seq(Nat) /\ Len(<<a>> \o s) = Len(<<a>>) + Len(s)
      /\ \A i \in 1 .. Len(<<a>>) : (<<a>> \o s)[i] = <<a>>[i]
  BY <1>1, Joined, Zenon
<1>3. Len(<<a>> \o s) > 0 /\ (<<a>> \o s)[1] = a
  <2>1. Len(s) \in Nat /\ 1 \in 1 .. Len(<<a>>)
    BY <1>1
  <2>2. QED BY <1>1, <1>2, <2>1
<1>4. ASSUME NEW t \in Seq(Nat), Len(t) > 0, t[1] = a
      PROVE  Head(t) = a /\ t # <<>>
  BY <1>4
<1>5. QED BY <1>1, <1>2, <1>3, <1>4, Zenon

(* Concatenation is associative.                                           *)
LEMMA ConcatThree ==
    ASSUME NEW r \in Seq(Nat), NEW s \in Seq(Nat), NEW t \in Seq(Nat)
    PROVE  (r \o s) \o t = r \o (s \o t)
  BY ConcatAssociative, SMTT(20)

LEMMA ConcatFlat ==
    \A r, s, t \in Seq(Nat) : (r \o s) \o t = r \o (s \o t)
  BY ConcatThree, Zenon

(* One error after the other: the first is delivered, the other still owed. *)
FirstOf(s) == IF s = <<>> THEN <<>> ELSE <<Head(s)>>

LEMMA FirstDelivered ==
    ASSUME NEW a \in Nat, NEW b \in Nat
    PROVE  Some(a) \o Some(b) =
             FirstOf(Some(a) \o Some(b)) \o (IF a # 0 THEN Some(0) \o Some(b) ELSE <<>>)
<1> DEFINE s == Some(a) \o Some(b)
<1>1. Some(a) \in Seq(Nat) /\ Some(b) \in Seq(Nat) /\ Some(0) = <<>>
  BY SomeIs
<1>2. Some(0) \o Some(b) = Some(b)
  BY <1>1, ConcatNone
<1>3. CASE a # 0
  <2>1. Some(a) = <<a>>
    BY <1>3, SomeIs
  <2>2. Head(s) = a /\ s # <<>>
    BY <1>1, <2>1, ErrorFirst
  <2>3. FirstOf(s) = <<a>>
    BY <2>2 DEF FirstOf
  <2>4. QED BY <1>2, <1>3, <2>1, <2>3
<1>4. CASE a = 0
  <2>1. s = Some(b)
    BY <1>2, <1>4
  <2>2. FirstOf(s) = Some(b)
    <3>1. CASE b = 0
      BY <1>1, <2>1, <3>1 DEF FirstOf
    <3>2. CASE b # 0
      <4>1. s = <<b>>
        BY <2>1, <3>2, SomeIs
      <4>2. Head(<<b>>) = b /\ <<b>> # <<>>
        OBVIOUS
      <4>3. QED BY <2>1, <4>1, <4>2 DEF FirstOf
    <3>3. QED BY <3>1, <3>2
  <2>3. Some(b) \o <<>> = Some(b)
    BY <1>1, ConcatNone
  <2>4. QED BY <1>4, <2>1, <2>2, <2>3
<1>5. QED BY <1>3, <1>4

LEMMA DeliveredIs == \A h : Delivered(h) = FirstOf(OwedErrors(h))
  BY DEF Delivered, FirstOf

LEMMA OwedTyped ==
    ASSUME NEW h \in Healths
    PROVE  OwedErrors(h) \in Seq(Nat) /\ Delivered(h) \in Seq(Nat)
<1>1. h.native \in Nat /\ h.cleanup \in Nat
  BY DEF Healths
<1>2. \A s, t \in Seq(Nat) : s \o t \in Seq(Nat)
  OBVIOUS
<1>3. OwedErrors(h) \in Seq(Nat)
  BY <1>1, <1>2, SomeIs DEF OwedErrors
<1>4. \A s \in Seq(Nat) : s # <<>> => <<Head(s)>> \in Seq(Nat)
  OBVIOUS
<1>5. QED BY <1>3, <1>4 DEF Delivered

LEMMA DeliveredOwed ==
    ASSUME NEW h \in Healths, h.mode = "Healthy" => h.native = 0 /\ h.cleanup = 0,
           h.mode = "Recoverable" => h.cleanup = 0
    PROVE  OwedErrors(h) = Delivered(h) \o OwedErrors(Checked(h))
<1> DEFINE c == Checked(h)
<1>1. h.native \in Nat /\ h.cleanup \in Nat /\ h.mode \in {"Healthy", "Recoverable", "NativeFirst", "CleanupFirst"}
  BY DEF Healths
<1>2. /\ h.mode \in {"Healthy", "Recoverable"} => c.mode = "Healthy" /\ c.native = 0 /\ c.cleanup = 0
      /\ h.mode \in {"NativeFirst", "CleanupFirst"} => c.mode = h.mode
      /\ h.mode = "NativeFirst" => c.native = 0 /\ c.cleanup = IF h.native # 0 THEN h.cleanup ELSE 0
      /\ h.mode = "CleanupFirst" => c.cleanup = 0 /\ c.native = IF h.cleanup # 0 THEN h.native ELSE 0
  BY CheckedFields
<1> HIDE DEF c
<1>3. CASE h.mode = "CleanupFirst"
  <2>1. OwedErrors(h) = Some(h.cleanup) \o Some(h.native)
    BY <1>3 DEF OwedErrors
  <2>2. OwedErrors(c) = Some(0) \o (IF h.cleanup # 0 THEN Some(h.native) ELSE Some(0))
    BY <1>2, <1>3 DEF OwedErrors
  <2>3. Some(0) \o Some(0) = <<>>
    BY SomeIs, ConcatNone
  <2>4. QED BY <1>1, <2>1, <2>2, <2>3, FirstDelivered, DeliveredIs DEF c
<1>4. CASE h.mode = "NativeFirst"
  <2>1. OwedErrors(h) = Some(h.native) \o Some(h.cleanup)
    BY <1>4 DEF OwedErrors
  <2>2. OwedErrors(c) = Some(0) \o (IF h.native # 0 THEN Some(h.cleanup) ELSE Some(0))
    BY <1>2, <1>4 DEF OwedErrors
  <2>3. Some(0) \o Some(0) = <<>>
    BY SomeIs, ConcatNone
  <2>4. QED BY <1>1, <2>1, <2>2, <2>3, FirstDelivered, DeliveredIs DEF c
<1>5. CASE h.mode \in {"Healthy", "Recoverable"}
  <2>1. h.cleanup = 0
    BY <1>5
  <2>2. OwedErrors(h) = Some(h.native) \o Some(0)
    BY <1>5, <2>1 DEF OwedErrors
  <2>3. OwedErrors(c) = <<>>
    BY <1>2, <1>5, OwedNone
  <2>4. Some(h.native) \o Some(0) = Some(h.native)
    BY <1>1, SomeIs, ConcatNone
  <2>5. CASE h.native = 0
    BY <2>2, <2>3, <2>4, <2>5, SomeIs, ConcatNone DEF Delivered, c
  <2>6. CASE h.native # 0
    <3>1. Some(h.native) = <<h.native>> /\ <<h.native>> \o <<>> = <<h.native>>
      BY <1>1, <2>6, SomeIs, ConcatNone
    <3>2. OwedErrors(h) = <<h.native>>
      BY <2>2, <2>4, <3>1
    <3>3. Delivered(h) = <<h.native>>
      <4>1. Head(<<h.native>>) = h.native /\ <<h.native>> # <<>>
        OBVIOUS
      <4>2. QED BY <3>2, <4>1 DEF Delivered
    <3>4. QED BY <2>3, <3>1, <3>2, <3>3 DEF c
  <2>7. QED BY <2>5, <2>6
<1>6. QED BY <1>1, <1>3, <1>4, <1>5

(* What the invariant says of an idle connection.                          *)
LEMMA ReadyParts ==
    ASSUME InstallInv, stage = "Ready"
    PROVE  /\ health.mode = "Healthy" => health.native = 0 /\ health.cleanup = 0
           /\ health.mode = "Recoverable" => health.cleanup = 0
           /\ health.mode \in {"NativeFirst", "CleanupFirst"} <=> spent
           /\ unwound => health.native = 0 /\ health.mode \in {"Healthy", "CleanupFirst"}
           /\ told \o OwedErrors(health) = kept
           /\ meter.mode = "Idle" /\ ~spent => slot.st = "Idle" /\ ~unwound
  BY InvParts DEF HealthFits, LedgerFits, BudgetFits

LEMMA HealthModes ==
    ASSUME NEW h \in Healths
    PROVE  h.mode \in {"Healthy", "Recoverable", "NativeFirst", "CleanupFirst"}
  BY DEF Healths

LEMMA ReadyGave ==
    ASSUME InstallInv, stage = "Ready"
    PROVE  GaveFits(hist, Limits["Call"])
<1>1. calls \in Nat /\ (calls = 0 => hist.gave = "None") /\ (calls > 0 => GaveFits(hist, Limits["Call"]))
  BY InvParts DEF BudgetFits
<1>2. QED BY <1>1 DEF GaveFits

(* A poisoned connection refuses, and delivers the next error it owes.     *)
LEMMA RefuseCallKeeps ==
    ASSUME InstallInv, RefuseCall
    PROVE  InstallInv'
<1>1. /\ stage = "Ready" /\ calls' = calls + 1 /\ slot' = NoSlot
      /\ UNCHANGED <<stage, target, at, live, native, meter, unwound, spent, kept, hist>>
  BY DEF RefuseCall, Finish
<1>2. health \in Healths /\ told \in Seq(Nat) /\ calls \in Nat /\ kept \in Seq(Nat)
  BY InvParts
<1>3. health' = Checked(health)
  BY DEF RefuseCall
<1>4. told' = told \o Delivered(health)
  <2>1. CASE Refuses(health)
    BY <2>1 DEF RefuseCall
  <2>2. CASE ~Refuses(health)
    <3>1. told' = told /\ health.native = 0 /\ health.mode \in {"Healthy", "Recoverable"}
      BY <1>2, <2>2, HealthModes DEF RefuseCall, Refuses
    <3>2. OwedErrors(health) = <<>>
      BY <1>1, <3>1, ReadyParts, OwedNone
    <3>3. QED BY <1>2, <3>1, <3>2, ConcatNone DEF Delivered
  <2>3. QED BY <2>1, <2>2
<1>5. /\ health' \in Healths
      /\ health.mode \in {"Healthy", "Recoverable"} =>
            health'.mode = "Healthy" /\ health'.native = 0 /\ health'.cleanup = 0
      /\ health.mode \in {"NativeFirst", "CleanupFirst"} => health'.mode = health.mode
      /\ health.native = 0 => health'.native = 0
  BY <1>1, <1>2, <1>3, ReadyParts, CheckedFields
<1>6. told' \o OwedErrors(health') = kept'
  <2>1. OwedErrors(health) = Delivered(health) \o OwedErrors(health')
    BY <1>1, <1>2, <1>3, ReadyParts, DeliveredOwed
  <2>2. Delivered(health) \in Seq(Nat) /\ OwedErrors(health') \in Seq(Nat)
    BY <1>2, <1>5, OwedTyped
  <2>3. (told \o Delivered(health)) \o OwedErrors(health') = told \o (Delivered(health) \o OwedErrors(health'))
    BY <1>2, <2>2, ConcatFlat
  <2>4. told \o OwedErrors(health) = kept
    BY <1>1, ReadyParts
  <2>5. QED BY <1>1, <1>4, <2>1, <2>3, <2>4
<1>7. InstallTypes'
  <2>1. told' \in Seq(Nat)
    <3>1. Delivered(health) \in Seq(Nat)
      BY <1>2, OwedTyped
    <3>2. \A s, t \in Seq(Nat) : s \o t \in Seq(Nat)
      OBVIOUS
    <3>3. QED BY <1>2, <1>4, <3>1, <3>2
  <2>2. QED BY <1>1, <1>2, <1>5, <2>1, NoneTyped, InvParts DEF InstallTypes
<1>8. ConfiguredFits'
  BY <1>1, ServesStill
<1>9. HealthFits'
  BY <1>1, <1>2, <1>5, ReadyParts, HealthModes DEF HealthFits
<1>10. LedgerFits'
  BY <1>1, <1>6 DEF LedgerFits
<1>11. BudgetFits'
  <2>0. calls' > 0 /\ calls' # 0
    BY <1>1, <1>2
  <2>1. hist'.late = FALSE /\ GaveFits(hist', Limits["Call"])
    BY <1>1, ReadyGave, InvParts
  <2>2. meter'.mode = "Idle" /\ ~spent' => slot'.st = "Idle" /\ ~unwound'
    BY <1>1, ReadyParts, NoneTyped
  <2>3. QED BY <1>1, <2>0, <2>1, <2>2 DEF BudgetFits
<1>12. QED BY <1>7, <1>8, <1>9, <1>10, <1>11 DEF InstallInv

(* A call begins: it delivers what is owed, or gets limits of its own.     *)
LEMMA BeginCallKeeps ==
    ASSUME InstallInv, BeginCall
    PROVE  InstallInv'
<1>1. /\ stage = "Ready" /\ ~Refuses(health) /\ meter.mode = "Idle" /\ calls' = calls + 1
      /\ stage' = "Calling" /\ health' = Checked(health) /\ hist' = NoHist
      /\ meter' = [mode |-> "Primary", left |-> Limits["Call"].quota]
      /\ UNCHANGED <<target, at, live, native, slot, unwound, spent, kept, told>>
  BY DEF BeginCall
<1>2. health \in Healths /\ calls \in Nat /\ told \in Seq(Nat)
  BY InvParts
<1>3. health.mode \in {"Healthy", "Recoverable"} /\ health.native = 0 /\ health.cleanup = 0
  BY <1>1, <1>2, HealthModes, ReadyParts DEF Refuses
<1>4. ~spent /\ slot.st = "Idle" /\ ~unwound
  BY <1>1, <1>3, ReadyParts
<1>5. health' \in Healths /\ health'.mode = "Healthy" /\ health'.native = 0 /\ health'.cleanup = 0
  BY <1>1, <1>2, <1>3, CheckedFields
<1>6. meter' \in Meters /\ meter'.mode = "Primary"
  BY <1>1, LimitTyped DEF Meters
<1>7. InstallTypes'
  BY <1>1, <1>2, <1>5, <1>6, NoneTyped, InvParts DEF InstallTypes, InstallStages
<1>8. ConfiguredFits'
  BY <1>1, ServesStill
<1>9. HealthFits'
  BY <1>1, <1>4, <1>5 DEF HealthFits
<1>10. LedgerFits'
  <2>1. OwedErrors(health') = <<>> /\ OwedErrors(health) = <<>>
    BY <1>3, <1>5, OwedNone
  <2>2. told = kept
    BY <1>1, <1>2, <2>1, ReadyParts, ConcatNone
  <2>3. QED BY <1>1, <1>2, <2>1, <2>2, ConcatNone DEF LedgerFits
<1>11. BudgetFits'
  <2>1. Counted(slot', hist', Limits["Call"])
    BY <1>1, <1>4, NoneTyped DEF Counted
  <2>2. GaveFits(hist', Limits["Call"]) /\ hist'.late = FALSE /\ hist'.gave = "None"
    BY <1>1, NoneTyped DEF GaveFits
  <2>3. calls' > 0 /\ calls' # 0
    BY <1>1, <1>2
  <2>4. QED BY <1>1, <1>6, <2>1, <2>2, <2>3 DEF BudgetFits
<1>12. QED BY <1>7, <1>8, <1>9, <1>10, <1>11 DEF InstallInv

-----------------------------------------------------------------------------
(* Cleanup between calls and on the way out *)

LEMMA CleanupFields ==
    ASSUME NEW h \in Healths, NEW error \in Nat
    PROVE  /\ CleanupFailed(h) \in Healths
           /\ CleanupFailed(h).native = h.native /\ CleanupFailed(h).cleanup = h.cleanup
           /\ h.mode = "Healthy" => CleanupFailed(h).mode = "CleanupFirst"
           /\ h.mode = "Recoverable" => CleanupFailed(h).mode = "NativeFirst"
           /\ CleanupKept(h, error) \in Healths
           /\ CleanupKept(h, error).native = h.native /\ CleanupKept(h, error).cleanup = error
           /\ CleanupKept(h, error).mode = h.mode
<1> DEFINE m == CASE h.mode = "Healthy" -> "CleanupFirst" [] h.mode = "Recoverable" -> "NativeFirst" [] OTHER -> h.mode
<1>1. /\ h.mode = "Healthy" => m = "CleanupFirst"
      /\ h.mode = "Recoverable" => m = "NativeFirst"
      /\ h.mode \notin {"Healthy", "Recoverable"} => m = h.mode
  OBVIOUS
<1>2. CleanupFailed(h) = [h EXCEPT !.mode = m]
  BY DEF CleanupFailed
<1> HIDE DEF m
<1>3. m \in {"Healthy", "Recoverable", "NativeFirst", "CleanupFirst"}
  BY <1>1, HealthModes
<1>4. /\ CleanupFailed(h) \in Healths /\ CleanupFailed(h).native = h.native
      /\ CleanupFailed(h).cleanup = h.cleanup /\ CleanupFailed(h).mode = m
  BY <1>2, <1>3 DEF Healths
<1>5. /\ CleanupKept(h, error) \in Healths
      /\ CleanupKept(h, error).native = h.native /\ CleanupKept(h, error).cleanup = error
      /\ CleanupKept(h, error).mode = h.mode
  BY DEF CleanupKept, Healths
<1>6. QED BY <1>1, <1>4, <1>5

(* The last error owed is the one just retained. *)
LEMMA OwedLast ==
    ASSUME NEW h \in Healths, NEW g \in Healths, NEW error \in Nat, error # 0,
           \/ /\ h.mode \in {"Healthy", "Recoverable"} /\ h.cleanup = 0 /\ (h.mode = "Healthy" => h.native = 0)
              /\ g.native = h.native /\ g.cleanup = error
              /\ h.mode = "Healthy" => g.mode = "CleanupFirst"
              /\ h.mode = "Recoverable" => g.mode = "NativeFirst"
           \/ /\ h.mode = "CleanupFirst" /\ h.native = 0
              /\ g.native = error /\ g.cleanup = h.cleanup /\ g.mode = "CleanupFirst"
           \/ /\ h.mode = "Healthy" /\ h.native = 0 /\ h.cleanup = 0
              /\ g.native = error /\ g.cleanup = 0 /\ g.mode = "NativeFirst"
    PROVE  OwedErrors(g) = OwedErrors(h) \o <<error>>
<1>1. h.native \in Nat /\ h.cleanup \in Nat
  BY DEF Healths
<1>2. /\ Some(0) = <<>> /\ Some(error) = <<error>> /\ Some(h.native) \in Seq(Nat) /\ Some(h.cleanup) \in Seq(Nat)
      /\ <<error>> \in Seq(Nat)
  BY <1>1, SomeIs
<1>3. /\ <<>> \o <<error>> = <<error>> /\ <<error>> \o <<>> = <<error>>
      /\ Some(h.native) \o <<>> = Some(h.native) /\ Some(h.cleanup) \o <<>> = Some(h.cleanup)
      /\ <<>> \o <<>> = <<>>
  BY <1>2, ConcatNone
<1>4. CASE /\ h.mode = "Recoverable" /\ h.cleanup = 0
           /\ g.native = h.native /\ g.cleanup = error /\ g.mode = "NativeFirst"
  BY <1>2, <1>3, <1>4 DEF OwedErrors
<1>5. CASE /\ h.mode = "Healthy" /\ h.cleanup = 0 /\ h.native = 0
           /\ g.native = h.native /\ g.cleanup = error /\ g.mode = "CleanupFirst"
  BY <1>2, <1>3, <1>5 DEF OwedErrors
<1>6. CASE /\ h.mode = "CleanupFirst" /\ h.native = 0
           /\ g.native = error /\ g.cleanup = h.cleanup /\ g.mode = "CleanupFirst"
  BY <1>2, <1>3, <1>6 DEF OwedErrors
<1>7. CASE /\ h.mode = "Healthy" /\ h.native = 0 /\ h.cleanup = 0
           /\ g.native = error /\ g.cleanup = 0 /\ g.mode = "NativeFirst"
  BY <1>2, <1>3, <1>7 DEF OwedErrors
<1>8. QED BY <1>4, <1>5, <1>6, <1>7

LEMMA OwedSame ==
    ASSUME NEW h \in Healths, NEW g \in Healths, g.native = h.native, g.cleanup = h.cleanup,
           \/ h.native = 0 /\ h.cleanup = 0
           \/ h.mode # "CleanupFirst" /\ g.mode # "CleanupFirst"
    PROVE  OwedErrors(g) = OwedErrors(h)
<1>1. CASE h.native = 0 /\ h.cleanup = 0
  BY <1>1, OwedNone
<1>2. CASE h.mode # "CleanupFirst" /\ g.mode # "CleanupFirst"
  BY <1>2 DEF OwedErrors
<1>3. QED BY <1>1, <1>2

(* What is told and still owed, with one more error retained. *)
LEMMA KeptOne ==
    ASSUME InstallInv, stage # "Gone", NEW g \in Healths, NEW error \in Nat,
           OwedErrors(g) = OwedErrors(health) \o <<error>>
    PROVE  told \o OwedErrors(g) = kept \o <<error>>
<1>1. told \in Seq(Nat) /\ OwedErrors(health) \in Seq(Nat) /\ <<error>> \in Seq(Nat)
  BY InvParts, OwedTyped
<1>2. told \o (OwedErrors(health) \o <<error>>) = (told \o OwedErrors(health)) \o <<error>>
  BY <1>1, ConcatFlat
<1>3. told \o OwedErrors(health) = kept
  BY InvParts DEF LedgerFits
<1>4. QED BY <1>2, <1>3

(* A cleanup between calls fails: its error is kept behind the ones owed   *)
(* before.                                                                 *)
LEMMA CleanupFailsKeeps ==
    ASSUME InstallInv, NEW parked \in BOOLEAN, CleanupFails(parked)
    PROVE  InstallInv'
<1> DEFINE c == CleanupFailed(health)
<1>1. /\ stage = "Ready" /\ ~spent /\ spent' = TRUE /\ meter' = NoMeter
      /\ UNCHANGED <<stage, target, at, live, native, slot, calls, unwound, told, hist>>
  BY DEF CleanupFails
<1>2. health \in Healths /\ kept \in Seq(Nat) /\ told \in Seq(Nat) /\ Fresh \in Nat /\ Fresh # 0
  BY InvParts, FreshTyped
<1>3. /\ health.mode \in {"Healthy", "Recoverable"} /\ health.cleanup = 0
      /\ health.mode = "Healthy" => health.native = 0
      /\ unwound => health.native = 0 /\ health.mode = "Healthy"
  BY <1>1, <1>2, HealthModes, ReadyParts
<1>4. /\ c \in Healths /\ c.native = health.native /\ c.cleanup = 0
      /\ health.mode = "Healthy" => c.mode = "CleanupFirst"
      /\ health.mode = "Recoverable" => c.mode = "NativeFirst"
  BY <1>2, <1>3, CleanupFields
<1> HIDE DEF c
<1>5. /\ health' \in Healths /\ health'.native = health.native
      /\ health.mode = "Healthy" => health'.mode = "CleanupFirst"
      /\ health.mode = "Recoverable" => health'.mode = "NativeFirst"
      /\ kept' \in Seq(Nat) /\ told \o OwedErrors(health') = kept'
  <2>1. CASE parked
    <3>1. health' = CleanupKept(c, Fresh) /\ kept' = Append(kept, Fresh)
      BY <2>1 DEF CleanupFails, Keep, c
    <3>2. /\ health' \in Healths /\ health'.native = c.native /\ health'.cleanup = Fresh /\ health'.mode = c.mode
      BY <1>2, <1>4, <3>1, CleanupFields
    <3>3. OwedErrors(health') = OwedErrors(health) \o <<Fresh>>
      <4>1. PICK error \in Nat : error = Fresh /\ error # 0
        BY <1>2
      <4>2. /\ health'.cleanup = error /\ health'.native = health.native
            /\ health.mode = "Healthy" => health'.mode = "CleanupFirst"
            /\ health.mode = "Recoverable" => health'.mode = "NativeFirst"
        BY <1>4, <3>2, <4>1
      <4>3. QED BY <1>2, <1>3, <3>2, <4>1, <4>2, OwedLast
    <3>4. told \o OwedErrors(health') = kept \o <<Fresh>>
      BY <1>1, <1>2, <3>2, <3>3, KeptOne
    <3>5. kept \o <<Fresh>> = Append(kept, Fresh) /\ Append(kept, Fresh) \in Seq(Nat)
      BY <1>2, FreshTyped
    <3>6. QED BY <1>4, <3>1, <3>2, <3>4, <3>5
  <2>2. CASE ~parked
    <3>1. health' = c /\ kept' = kept
      BY <2>2 DEF CleanupFails, c
    <3>2. OwedErrors(c) = OwedErrors(health)
      BY <1>2, <1>3, <1>4, OwedSame
    <3>3. QED BY <1>1, <1>2, <1>4, <3>1, <3>2, ReadyParts
  <2>3. QED BY <2>1, <2>2
<1>6. InstallTypes'
  BY <1>1, <1>2, <1>5, NoneTyped, InvParts DEF InstallTypes
<1>7. ConfiguredFits'
  BY <1>1, ServesStill
<1>8. HealthFits'
  BY <1>1, <1>3, <1>5 DEF HealthFits
<1>9. LedgerFits'
  BY <1>1, <1>5 DEF LedgerFits
<1>10. BudgetFits'
  BY <1>1, InvParts DEF BudgetFits
<1>11. QED BY <1>6, <1>7, <1>8, <1>9, <1>10 DEF InstallInv

LEMMA BeginRetireKeeps ==
    ASSUME InstallInv, BeginRetire
    PROVE  InstallInv'
<1>1. /\ stage = "Ready" /\ stage' = "Retiring"
      /\ UNCHANGED <<target, at, live, native, slot, health, meter, calls, unwound, spent, kept, told, hist>>
  BY DEF BeginRetire
<1>2. InstallTypes'
  BY <1>1, InvParts DEF InstallTypes, InstallStages
<1>3. ConfiguredFits'
  BY <1>1, ServesStill
<1>4. HealthFits'
  BY <1>1, InvParts DEF HealthFits
<1>5. LedgerFits'
  BY <1>1, InvParts DEF LedgerFits, OwedErrors
<1>6. BudgetFits'
  BY <1>1, InvParts DEF BudgetFits
<1>7. QED BY <1>2, <1>3, <1>4, <1>5, <1>6 DEF InstallInv

(* A statement is finalized on the way out, and may fail.                  *)
LEMMA RetireOneKeeps ==
    ASSUME InstallInv, NEW fails \in BOOLEAN, RetireOne(fails)
    PROVE  InstallInv'
<1>1. /\ stage = "Retiring" /\ live > 0 /\ live' = live - 1 /\ (fails => unwound)
      /\ UNCHANGED <<stage, target, at, native, slot, meter, calls, spent, told, hist>>
  BY DEF RetireOne
<1>2. health \in Healths /\ kept \in Seq(Nat) /\ told \in Seq(Nat) /\ Fresh \in Nat /\ Fresh # 0 /\ live \in Nat
  BY InvParts, FreshTyped
<1>3. /\ health.mode = "Healthy" => health.native = 0 /\ health.cleanup = 0
      /\ health.mode = "Recoverable" => health.cleanup = 0
      /\ spent => health.mode \in {"NativeFirst", "CleanupFirst"}
      /\ unwound => health.native = 0 /\ health.mode \in {"Healthy", "CleanupFirst"}
      /\ told \o OwedErrors(health) = kept
  BY <1>1, InvParts DEF HealthFits, LedgerFits
<1>4. /\ health' \in Healths /\ kept' \in Seq(Nat) /\ told \o OwedErrors(health') = kept'
      /\ health'.mode = "Healthy" => health'.native = 0 /\ health'.cleanup = 0
      /\ health'.mode = "Recoverable" => health'.cleanup = 0
      /\ spent => health'.mode \in {"NativeFirst", "CleanupFirst"}
      /\ unwound' \in BOOLEAN
      /\ unwound' => health'.native = 0 /\ health'.mode \in {"Healthy", "CleanupFirst"}
  <2>1. CASE fails
    <3>1. health' = Finalized(health, Fresh) /\ kept' = Append(kept, Fresh) /\ unwound' = FALSE
      BY <2>1 DEF RetireOne, Keep
    <3>2. health.native = 0 /\ health.mode \in {"Healthy", "CleanupFirst"}
      BY <1>1, <1>3, <2>1
    <3>3. /\ health' \in Healths /\ health'.native = Fresh /\ health'.cleanup = health.cleanup
          /\ health.mode = "Healthy" => health'.mode = "NativeFirst"
          /\ health.mode = "CleanupFirst" => health'.mode = "CleanupFirst"
      BY <1>2, <3>1, FinalizedFields
    <3>4. OwedErrors(health') = OwedErrors(health) \o <<Fresh>>
      <4>1. PICK error \in Nat : error = Fresh /\ error # 0
        BY <1>2
      <4>2. CASE health.mode = "Healthy"
        BY <1>2, <1>3, <3>3, <4>1, <4>2, OwedLast
      <4>3. CASE health.mode = "CleanupFirst"
        BY <1>2, <3>2, <3>3, <4>1, <4>3, OwedLast
      <4>4. QED BY <3>2, <4>2, <4>3
    <3>5. told \o OwedErrors(health') = kept \o <<Fresh>>
      BY <1>1, <1>2, <3>3, <3>4, KeptOne
    <3>6. kept \o <<Fresh>> = Append(kept, Fresh) /\ Append(kept, Fresh) \in Seq(Nat)
      BY <1>2, FreshTyped
    <3>7. health'.mode \in {"NativeFirst", "CleanupFirst"}
      BY <3>2, <3>3
    <3>8. QED BY <3>1, <3>3, <3>5, <3>6, <3>7
  <2>2. CASE ~fails
    <3>1. health' = health /\ kept' = kept /\ unwound' = (unwound /\ ~fails)
      BY <2>2 DEF RetireOne
    <3>2. unwound' \in BOOLEAN /\ (unwound' => unwound)
      BY <3>1
    <3>3. QED BY <1>2, <1>3, <3>1, <3>2
  <2>3. QED BY <2>1, <2>2
<1>5. InstallTypes'
  <2>1. live' \in Nat
    BY <1>1, <1>2
  <2>2. QED BY <1>1, <1>2, <1>4, <2>1, InvParts DEF InstallTypes
<1>6. ConfiguredFits'
  BY <1>1, InvParts DEF ConfiguredFits
<1>7. HealthFits'
  BY <1>1, <1>4 DEF HealthFits
<1>8. LedgerFits'
  BY <1>1, <1>4 DEF LedgerFits
<1>9. BudgetFits'
  BY <1>1, InvParts DEF BudgetFits
<1>10. QED BY <1>5, <1>6, <1>7, <1>8, <1>9 DEF InstallInv

-----------------------------------------------------------------------------
(* Every step *)

(* The initial states satisfy the invariant.                               *)
LEMMA InstallInitInv ==
    ASSUME InstallInit
    PROVE  InstallInv
<1>1. /\ stage = "New" /\ at = 1 /\ live = 0 /\ native = NoNative /\ slot = NoSlot /\ health = NoHealth
      /\ meter = NoMeter /\ calls = 0 /\ unwound = FALSE /\ spent = FALSE
      /\ kept = <<>> /\ told = <<>> /\ hist = NoHist
  BY DEF InstallInit
<1>2. InstallTypes
  <2>1. kept \in Seq(Nat) /\ told \in Seq(Nat)
    BY <1>1
  <2>2. native \in Natives /\ slot \in RetrySlots /\ health \in Healths /\ meter \in Meters /\ hist \in Hists
    BY <1>1, NoneTyped
  <2>3. stage \in InstallStages /\ at \in Nat /\ live \in Nat /\ calls \in Nat
    BY <1>1 DEF InstallStages
  <2>4. unwound \in BOOLEAN /\ spent \in BOOLEAN
    BY <1>1
  <2>5. QED BY <2>1, <2>2, <2>3, <2>4 DEF InstallTypes
<1>3. ConfiguredFits
  BY <1>1, NoneTyped DEF ConfiguredFits
<1>4. HealthFits
  BY <1>1, NoneTyped DEF HealthFits
<1>5. LedgerFits
  <2>1. OwedErrors(health) = <<>>
    BY <1>1, NoneTyped, OwedNone
  <2>2. told \o <<>> = kept
    BY <1>1
  <2>3. QED BY <1>1, <2>1, <2>2 DEF LedgerFits
<1>6. BudgetFits
  BY <1>1, NoneTyped DEF BudgetFits, Counted, GaveFits
<1>7. QED BY <1>2, <1>3, <1>4, <1>5, <1>6 DEF InstallInv

(* Every step keeps the invariant.                                         *)
LEMMA InstallStep ==
    ASSUME InstallInv, [InstallNext]_installVars
    PROVE  InstallInv'
<1>1. 0 .. 1 \subseteq Nat /\ 1 .. 2 \subseteq Nat
  OBVIOUS
<1>2. CASE Refused \/ StillWaiting \/ Spurious
  BY <1>2, WaitingKeeps
<1>3. CASE \E opened \in BOOLEAN : Install(opened)
  BY <1>3, InstallKeeps
<1>4. CASE OpenProgress
  BY <1>1, <1>4, SettingKeeps, CommandKeeps, StartPrepareKeeps, PrepareKeeps, OpenExpiresKeeps, RetireFailingKeeps
     DEF OpenProgress
<1>5. CASE OpenTrouble
  <2>1. ASSUME NEW ticks \in 0 .. 1, Executing, OpenBusy(ticks) PROVE InstallInv'
    BY <1>1, <2>1, OpenBusyKeeps
  <2>2. ASSUME NEW twice \in BOOLEAN, Executing, OpenError(0, twice) PROVE InstallInv'
    <3>1. stage \in {"Opening", "Prepare"}
      BY <2>2 DEF Executing, Opens, Preparing
    <3>2. QED BY <2>2, <3>1, OpenErrorKeeps
  <2>3. CASE StepMismatch
    BY <2>3, MismatchKeeps
  <2>4. QED BY <1>5, <2>1, <2>2, <2>3 DEF OpenTrouble
<1>6. CASE CancelOpen
  BY <1>6, CancelOpenKeeps
<1>7. CASE Tick
  BY <1>7, TickKeeps
<1>8. CASE RefuseCall \/ BeginCall \/ ForgetCall \/ BeginRetire \/ Closed
  BY <1>8, RefuseCallKeeps, BeginCallKeeps, ForgetCallKeeps, BeginRetireKeeps, ClosedKeeps
<1>9. CASE CallProgress
  BY <1>1, <1>9, ReadRowKeeps, CallBusyKeeps, CallReturnsKeeps, CallExpiresKeeps DEF CallProgress
<1>10. CASE \E reset \in BOOLEAN : CancelCall(reset)
  BY <1>10, CancelCallKeeps
<1>11. CASE \E parked \in BOOLEAN : CleanupFails(parked)
  BY <1>11, CleanupFailsKeeps
<1>12. CASE \E fails \in BOOLEAN : RetireOne(fails)
  BY <1>12, RetireOneKeeps
<1>13. CASE UNCHANGED installVars
  BY <1>13, IdleKeeps DEF installVars
<1>14. QED
  BY <1>2, <1>3, <1>4, <1>5, <1>6, <1>7, <1>8, <1>9, <1>10, <1>11, <1>12, <1>13 DEF InstallNext

(* The invariant holds in every state: what the steps of an opening have   *)
(* told SQLite, the errors owed and kept, and the budget of the operation  *)
(* that waits, as InstallConn, Health and RetrySlot keep them.             *)
THEOREM InstallInvariant == InstallSpec => []InstallInv
<1>1. InstallInit => InstallInv
  BY InstallInitInv
<1>2. InstallInv /\ [InstallNext]_installVars => InstallInv'
  BY InstallStep
<1>3. QED BY <1>1, <1>2, PTL DEF InstallSpec

-----------------------------------------------------------------------------
(* Rows *)

(* The rows of a call are numbered within their attempts, and the last one *)
(* is where its statement stands, or was reached before the last busy      *)
(* result reset it.                                                        *)
RowRefs == [try : Nat, row : Nat]
Scans == [at : Nat, rows : Seq(RowRefs), credit : Nat]
Numbered(rows, tries) ==
    \A i \in 1 .. Len(rows) : rows[i].try <= tries /\ Placed(rows, i)
Reached(c, tries) ==
    /\ c.at > 0 => c.rows # <<>> /\ c.rows[Len(c.rows)] = [try |-> tries, row |-> c.at]
    /\ c.at = 0 /\ c.rows # <<>> => c.rows[Len(c.rows)].try < tries
RowsFits ==
    /\ scan \in Scans
    /\ Numbered(scan.rows, hist.tries) /\ Reached(scan, hist.tries)
    /\ stage = "Calling" => Len(scan.rows) + scan.credit = ScanRows
    /\ stage # "Calling" => scan = NoScan

LEMMA NoRows ==
    ASSUME NEW tries \in Nat, NEW credit \in Nat
    PROVE  LET c == [at |-> 0, rows |-> <<>>, credit |-> credit]
           IN  c \in Scans /\ Numbered(c.rows, tries) /\ Reached(c, tries) /\ Len(c.rows) = 0
  BY DEF Scans, RowRefs, Numbered, Reached

(* A call has ended, or none has begun.                                    *)
LEMMA RowsGone ==
    ASSUME InstallInv', stage' # "Calling", scan' = NoScan
    PROVE  RowsFits'
<1>1. hist'.tries \in Nat
  BY DEF InstallInv, InstallTypes, Hists
<1>2. QED BY <1>1, NoRows DEF RowsFits, NoScan

LEMMA RowsOutside ==
    ASSUME RowsFits, InstallInv', stage # "Calling", stage' # "Calling", scan' = scan
    PROVE  RowsFits'
  BY RowsGone DEF RowsFits

(* Nothing is read.                                                        *)
LEMMA RowsSame ==
    ASSUME RowsFits, scan' = scan, stage' = stage, hist'.tries = hist.tries
    PROVE  RowsFits'
  BY DEF RowsFits

(* One row more.                                                           *)
LEMMA RowAdded ==
    ASSUME NEW c \in Scans, NEW tries \in Nat, Numbered(c.rows, tries), Reached(c, tries), c.credit > 0
    PROVE  /\ Read(c, tries) \in Scans
           /\ Numbered(Read(c, tries).rows, tries) /\ Reached(Read(c, tries), tries)
           /\ Len(Read(c, tries).rows) = Len(c.rows) + 1 /\ Read(c, tries).credit = c.credit - 1
<1> DEFINE x == [try |-> tries, row |-> c.at + 1]
           s == Append(c.rows, x)
<1>1. /\ c.at \in Nat /\ c.rows \in Seq(RowRefs) /\ c.credit \in Nat /\ x \in RowRefs
      /\ x.try = tries /\ x.row = c.at + 1
  BY DEF Scans, RowRefs
<1>2. /\ s \in Seq(RowRefs) /\ Len(s) = Len(c.rows) + 1 /\ s[Len(s)] = x
      /\ \A i \in 1 .. Len(c.rows) : s[i] = c.rows[i]
  BY <1>1
<1>3. Read(c, tries) = [at |-> c.at + 1, rows |-> s, credit |-> c.credit - 1]
  BY DEF Read
<1>4. Read(c, tries) \in Scans
  BY <1>1, <1>2, <1>3 DEF Scans
<1> HIDE DEF x, s
<1>5. Reached(Read(c, tries), tries)
  <2>1. x = [try |-> tries, row |-> c.at + 1]
    BY DEF x
  <2>2. s # <<>> /\ c.at + 1 > 0
    BY <1>1, <1>2
  <2>3. QED BY <1>2, <1>3, <2>1, <2>2 DEF Reached
<1>6. ASSUME NEW i \in 1 .. Len(s) PROVE s[i].try <= tries /\ Placed(s, i)
  <2>1. Len(c.rows) \in Nat
    BY <1>1
  <2>2. CASE i \in 1 .. Len(c.rows)
    <3>1. s[i] = c.rows[i] /\ (i > 1 => s[i - 1] = c.rows[i - 1])
      BY <1>2, <2>1, <2>2
    <3>2. c.rows[i].try <= tries /\ Placed(c.rows, i)
      BY <2>2 DEF Numbered
    <3>3. QED BY <3>1, <3>2 DEF Placed
  <2>3. CASE i = Len(c.rows) + 1
    <3>1. s[i] = x /\ s[i].try = tries /\ s[i].row = c.at + 1
      BY <1>1, <1>2, <2>3
    <3>2. i > 1 => s[i - 1] = c.rows[Len(c.rows)] /\ c.rows # <<>>
      BY <1>1, <1>2, <2>1, <2>3
    <3>3. CASE c.at = 0
      BY <3>1, <3>2, <3>3 DEF Reached, Placed
    <3>4. CASE c.at > 0
      <4>1. c.rows # <<>> /\ c.rows[Len(c.rows)] = [try |-> tries, row |-> c.at]
        BY <3>4 DEF Reached
      <4>2. Len(c.rows) # 0
        BY <1>1, <4>1
      <4>3. i > 1
        BY <2>1, <2>3, <4>2
      <4>4. QED BY <3>1, <3>2, <4>1, <4>3 DEF Placed
    <3>5. QED BY <1>1, <3>3, <3>4
  <2>4. QED BY <1>2, <2>1, <2>2, <2>3
<1>7. QED BY <1>2, <1>3, <1>4, <1>5, <1>6 DEF Numbered

LEMMA ReadRowFits ==
    ASSUME InstallInv, RowsFits, NEW ticks, ReadRow(ticks)
    PROVE  RowsFits'
<1>1. /\ stage = "Calling" /\ stage' = stage /\ hist' = Tried(hist)
      /\ scan.credit > 0 /\ scan' = Read(scan, hist.tries)
  BY DEF ReadRow
<1>2. hist'.tries = hist.tries /\ hist.tries \in Nat
  BY <1>1, InvParts DEF Tried, Hists
<1>3. /\ scan' \in Scans /\ Numbered(scan'.rows, hist'.tries) /\ Reached(scan', hist'.tries)
      /\ Len(scan'.rows) = Len(scan.rows) + 1 /\ scan'.credit = scan.credit - 1
  BY <1>1, <1>2, RowAdded DEF RowsFits
<1>4. Len(scan.rows) + scan.credit = ScanRows /\ Len(scan.rows) \in Nat /\ scan.credit \in Nat
  BY <1>1 DEF RowsFits, Scans
<1>5. Len(scan'.rows) + scan'.credit = ScanRows
  BY <1>3, <1>4
<1>6. QED BY <1>1, <1>3, <1>5 DEF RowsFits

LEMMA TryTyped ==
    ASSUME NEW rows \in Seq(RowRefs), NEW i \in 1 .. Len(rows)
    PROVE  rows[i].try \in Nat
<1>1. rows[i] \in RowRefs
  OBVIOUS
<1>2. QED BY <1>1 DEF RowRefs

(* A busy statement starts over: the rows that its policy holds belong to  *)
(* earlier attempts now, and are paid for.                                 *)
LEMMA BusyFits ==
    ASSUME InstallInv, RowsFits, stage = "Calling", stage' = stage,
           scan' = Rewound(scan), hist' = Busied(hist)
    PROVE  RowsFits'
<1>1. hist'.tries = hist.tries + 1 /\ hist.tries \in Nat
  BY InvParts DEF Busied, Tried, Hists
<1>2. /\ scan' \in Scans /\ scan'.at = 0 /\ scan'.rows = scan.rows /\ scan'.credit = scan.credit
      /\ scan.rows \in Seq(RowRefs) /\ scan.at \in Nat
  BY DEF RowsFits, Scans, Rewound
<1>3. Numbered(scan'.rows, hist'.tries)
  <2>1. ASSUME NEW i \in 1 .. Len(scan.rows) PROVE scan.rows[i].try <= hist.tries + 1 /\ Placed(scan.rows, i)
    <3>1. scan.rows[i].try <= hist.tries /\ Placed(scan.rows, i)
      BY DEF RowsFits, Numbered
    <3>2. scan.rows[i].try \in Nat
      BY <1>2, TryTyped
    <3>3. QED BY <1>1, <3>1, <3>2
  <2>2. QED BY <1>1, <1>2, <2>1 DEF Numbered
<1>4. Reached(scan', hist'.tries)
  <2>1. ASSUME scan.rows # <<>> PROVE scan.rows[Len(scan.rows)].try < hist.tries + 1
    <3>1. Len(scan.rows) \in 1 .. Len(scan.rows)
      BY <1>2, <2>1
    <3>2. scan.rows[Len(scan.rows)].try \in Nat
      BY <1>2, <3>1, TryTyped
    <3>3. scan.rows[Len(scan.rows)].try <= hist.tries
      BY <3>1 DEF RowsFits, Numbered
    <3>4. QED BY <1>1, <3>2, <3>3
  <2>2. QED BY <1>1, <1>2, <2>1 DEF Reached
<1>5. QED BY <1>2, <1>3, <1>4 DEF RowsFits

(* A call begins with all of its credit.                                   *)
LEMMA BeginFits ==
    ASSUME InstallInv', BeginCall
    PROVE  RowsFits'
<1>1. stage' = "Calling" /\ scan' = [at |-> 0, rows |-> <<>>, credit |-> ScanRows]
  BY DEF BeginCall, NoScan
<1>2. hist'.tries \in Nat /\ ScanRows \in Nat
  BY InstallAssumption DEF InstallInv, InstallTypes, Hists
<1>3. QED BY <1>1, <1>2, NoRows DEF RowsFits

(* The steps of the opening, the calls refused and the retirement read no  *)
(* row.                                                                    *)
LEMMA OpeningFailsFits ==
    ASSUME NEW h, OpenFails(h)
    PROVE  stage # "Calling" /\ stage' # "Calling"
  BY DEF OpenFails, Preparing, Opens, GoneWith, Deliver

LEMMA OpeningReadsNone ==
    ASSUME RowsFits, InstallInv',
           \/ OpenProgress \/ OpenTrouble \/ CancelOpen \/ Refused
           \/ \E opened \in BOOLEAN : Install(opened)
    PROVE  RowsFits'
<1> SUFFICES scan' = scan /\ stage # "Calling" /\ stage' # "Calling"
  BY RowsOutside
<1>1. CASE \E ticks \in 0 .. 1 : StepSetting(ticks) \/ StepCommand(ticks)
  BY <1>1, OpeningFailsFits DEF StepSetting, StepCommand, Opens
<1>2. CASE StartPrepare \/ OpenExpires \/ RetireFailing
  BY <1>2, OpeningFailsFits DEF StartPrepare, OpenExpires, RetireFailing, Opens, GoneWith, Deliver
<1>3. CASE \E bytes \in 1 .. 2 : StepPrepare(bytes)
  BY <1>3, OpeningFailsFits DEF StepPrepare, Preparing
<1>4. CASE \E ticks \in 0 .. 1 : Executing /\ OpenBusy(ticks)
  BY <1>4, OpeningFailsFits DEF OpenBusy, Executing, Opens, Preparing
<1>5. CASE StepMismatch \/ \E twice \in BOOLEAN : Executing /\ OpenError(0, twice)
  BY <1>5, OpeningFailsFits DEF OpenError, StepMismatch
<1>6. CASE CancelOpen \/ Refused \/ \E opened \in BOOLEAN : Install(opened)
  BY <1>6 DEF CancelOpen, Refused, Install, GoneWith, Deliver
<1>7. QED BY <1>1, <1>2, <1>3, <1>4, <1>5, <1>6 DEF OpenProgress, OpenTrouble

(* Every step keeps the rows accounted for.                                *)
LEMMA RowsStep ==
    ASSUME InstallInv, InstallInv', RowsFits, [InstallNext]_installVars
    PROVE  RowsFits'
<1>1. CASE \/ OpenProgress \/ OpenTrouble \/ CancelOpen \/ Refused
           \/ \E opened \in BOOLEAN : Install(opened)
  BY <1>1, OpeningReadsNone
<1>2. CASE Spurious \/ StillWaiting \/ Tick
  <2>1. scan' = scan /\ stage' = stage /\ hist'.tries = hist.tries
    <3>1. CASE Tick
      <4>1. hist' = [hist EXCEPT !.age = @ + 1] /\ scan' = scan /\ stage' = stage
        BY <3>1 DEF Tick
      <4>2. QED BY <4>1, InvParts DEF Hists
    <3>2. QED BY <1>2, <3>1 DEF Spurious, StillWaiting
  <2>2. QED BY <2>1, RowsSame
<1>3. CASE RefuseCall \/ BeginRetire \/ Closed
  BY <1>3, RowsOutside DEF RefuseCall, BeginRetire, Closed, GoneWith, Deliver
<1>4. CASE \/ \E parked \in BOOLEAN : CleanupFails(parked)
           \/ \E fails \in BOOLEAN : RetireOne(fails)
  BY <1>4, RowsOutside DEF CleanupFails, RetireOne
<1>5. CASE BeginCall
  BY <1>5, BeginFits
<1>6. CASE CallProgress
  <2>1. ASSUME NEW ticks \in 0 .. 1, ReadRow(ticks) PROVE RowsFits'
    BY <2>1, ReadRowFits
  <2>2. ASSUME NEW ticks \in 0 .. 1, CallBusy(ticks) PROVE RowsFits'
    <3>1. \/ EndCall
          \/ /\ stage = "Calling" /\ stage' = stage
             /\ scan' = Rewound(scan) /\ hist' = Busied(hist)
      BY <2>2 DEF CallBusy
    <3>2. CASE EndCall
      BY <3>2, RowsGone DEF EndCall
    <3>3. QED BY <3>1, <3>2, BusyFits
  <2>3. CASE CallExpires \/ \E answers, reset \in BOOLEAN : CallReturns(answers, reset)
    BY <2>3, RowsGone DEF CallExpires, CallReturns, EndCall
  <2>4. QED BY <1>6, <2>1, <2>2, <2>3 DEF CallProgress
<1>7. CASE ForgetCall \/ \E reset \in BOOLEAN : CancelCall(reset)
  BY <1>7, RowsGone DEF ForgetCall, CancelCall, EndCall
<1>8. CASE UNCHANGED installVars
  BY <1>8, RowsSame DEF installVars
<1>9. QED BY <1>1, <1>2, <1>3, <1>4, <1>5, <1>6, <1>7, <1>8 DEF InstallNext

(* The rows of every call are accounted for in every state.                *)
THEOREM RowsInvariant == InstallSpec => []RowsFits
<1>1. InstallInit => RowsFits
  <2> SUFFICES ASSUME InstallInit PROVE RowsFits
    OBVIOUS
  <2>1. stage = "New" /\ scan = NoScan /\ hist.tries = 0
    BY DEF InstallInit, NoHist
  <2>2. QED BY <2>1, NoRows DEF RowsFits, NoScan
<1>2. InstallInv /\ InstallInv' /\ RowsFits /\ [InstallNext]_installVars => RowsFits'
  BY RowsStep
<1>3. QED BY <1>1, <1>2, InstallInvariant, PTL DEF InstallSpec

(* What the runs check is part of the invariant.                           *)
LEMMA InvSound ==
    ASSUME InstallInv, RowsFits
    PROVE  InstallSound
<1>1. BudgetOwn
  <2>1. calls \in Nat
    BY InvParts
  <2>2. ASSUME stage \in {"Opening", "Prepare", "Calling"} PROVE hist.tries <= Limits[Role].retries
    <3>1. Counted(slot, hist, Limits[Role]) /\ Role \in {"Open", "Call"}
      BY <2>2, InvParts DEF BudgetFits, Role
    <3>2. hist.tries \in Nat /\ slot.left \in Nat /\ Limits[Role].retries \in Nat
      BY <3>1, InvParts, LimitTyped DEF Hists, RetrySlots
    <3>3. QED BY <3>1, <3>2 DEF Counted
  <2>3. GaveFits(hist, Limits[IF calls = 0 THEN "Open" ELSE "Call"])
    BY <2>1, InvParts DEF BudgetFits
  <2>4. QED BY <2>2, <2>3, InvParts DEF BudgetOwn, GaveFits
<1>2. ErrorsOnce
  <2>1. spent => health.mode \in {"NativeFirst", "CleanupFirst"} /\ stage # "Calling"
    BY InvParts DEF HealthFits
  <2>2. QED BY <2>1, InvParts DEF ErrorsOnce, LedgerFits, Poisoned
<1>3. ServesConfigured
  BY InvParts DEF ServesConfigured, ConfiguredFits
<1>4. RowsCredited
  BY DEF RowsCredited, RowsFits, Numbered
<1>5. QED BY <1>1, <1>2, <1>3, <1>4 DEF InstallSound

(* No opening or call gives up for contention it did not meet itself, an   *)
(* error kept by Health is told once and in its place, and a connection is *)
(* handed out only when every setting and command was applied once, and a  *)
(* call that is found busy after it has read rows starts over without more *)
(* rows to read, for every limit and every number of commands, statements  *)
(* and rows.                                                               *)
THEOREM InstallSoundCorrect == InstallSpec => []InstallSound
<1>1. InstallInv /\ RowsFits => InstallSound
  BY InvSound
<1>2. QED BY <1>1, InstallInvariant, RowsInvariant, PTL
=============================================================================
