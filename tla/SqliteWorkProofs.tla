-------------------------- MODULE SqliteWorkProofs ---------------------------
(***************************************************************************)
(* Proofs about the transactions, savepoints and deferred cleanup of the   *)
(* SQLite client, for every number of savepoints and every set of writes:  *)
(* what is owed can be settled, and the client implements SqliteScopes.    *)
(***************************************************************************)
EXTENDS SqliteWork, SequenceTheorems, TLAPS

-----------------------------------------------------------------------------
(* The inductive invariant *)

Debts == [kind : {"None", "Tx", "Save", "Failed"}, target : 0 .. MaxSave, undone : BOOLEAN]
Works == [depth : 0 .. MaxSave, debt : Debts, mode : {"Idle", "Primary", "Cleanup"},
          health : {"Healthy", "Recoverable", "Failed"}]
Live == [tx : BOOLEAN, saves : Seq(1 .. MaxSave), failed : {"None", "Busy", "Aborted"}]
Native == {f \in Seq(SUBSET Writes) : Len(f) <= MaxSave + 1}

(* Cleanup that failed is final. *)
FailedFinal(w) ==
    /\ w.debt.kind = "Failed" => w.debt = Failed
    /\ w.debt.kind = "Failed" <=> w.health = "Failed"

(* What is owed can be settled by SQLite whose transaction is f: the frame *)
(* of the savepoint to roll back to is not the one of the transaction.     *)
DebtSound(w, f) ==
    /\ w.debt.kind = "Save" =>
          w.debt.target \in 1 .. w.depth /\ w.debt.target + Len(f) >= w.depth + 2
    /\ w.debt.kind = "Tx" => f # <<>>

(* A live transaction has one in SQLite, unless it is known to be aborted. *)
ScopeBacked(w, s, f) ==
    /\ ~s.tx => s = NoScope
    /\ s.tx /\ w.debt.kind = "Tx" => s.failed = "Aborted"
    /\ s.tx /\ s.failed # "Aborted" /\ w.debt.kind # "Failed" => f # <<>>
    /\ s.tx /\ s.failed = "Aborted" => f = <<>> \/ w.debt.kind \in {"Tx", "Failed"}

(* The depths that live savepoints own increase inwards, lie within the    *)
(* counted depth and outside what is owed, and have a frame in SQLite.     *)
SavesSound(w, s, f) ==
    s.failed = "None" /\ w.debt.kind \in {"None", "Save"} =>
        /\ \A k \in 1 .. Len(s.saves) :
              /\ s.saves[k] \in 1 .. w.depth
              /\ s.saves[k] + Len(f) >= w.depth + 2
              /\ w.debt.kind = "Save" => s.saves[k] < w.debt.target
        /\ \A j, k \in 1 .. Len(s.saves) : j < k => s.saves[j] < s.saves[k]

(* Work counts every savepoint that SQLite has open.                       *)
DepthCovers(w, f) == w.debt.kind \in {"None", "Save"} => Len(f) <= w.depth + 1

Typed(w, s, f) == w \in Works /\ s \in Live /\ f \in Native
Sound(w, s, f) ==
    /\ Typed(w, s, f) /\ FailedFinal(w) /\ DebtSound(w, f)
    /\ ScopeBacked(w, s, f) /\ SavesSound(w, s, f) /\ DepthCovers(w, f)

(* A call borrows the innermost scope and the scope the connection, so     *)
(* nothing parks, forces or retires behind its back.                       *)
CallOwns ==
    /\ call.op = "None" => call = NoCall
    /\ call # NoCall => call.op \in Available
    /\ call # NoCall \/ scope.tx => Borrowed

(* A call that waits or yields rows owes nothing, and its transaction has  *)
(* not failed: both were checked when it started.                          *)
CallClean ==
    /\ call.stage \in {"Wait", "Rows"} =>
          /\ work.debt.kind = "None" /\ work.health = "Healthy"
          /\ Within(call.op, scope) => scope.failed = "None"
    /\ call.stage = "Rows" => call.op = "Query"

WorkInv ==
    /\ TypeOK /\ CallOwns /\ CallClean
    /\ IF conn = "Retired" THEN scope = NoScope ELSE Sound(work, scope, frames)
    /\ work.debt.kind = "Save" => work.debt.target \in 1 .. work.depth

-----------------------------------------------------------------------------
(* What the ends of scopes do *)

LEMMA FrontLast ==
    ASSUME NEW T, NEW q \in Seq(T), q # <<>>
    PROVE  /\ Front(q) \in Seq(T) /\ Len(Front(q)) = Len(q) - 1 /\ Len(q) \in Nat \ {0}
           /\ \A i \in 1 .. Len(q) - 1 : Front(q)[i] = q[i]
           /\ Last(q) = q[Len(q)] /\ Last(q) \in T
<1>1. Len(q) \in Nat \ {0}
  OBVIOUS
<1>2. PICK m \in Nat : Len(q) = m + 1
  <2>1. Len(q) - 1 \in Nat /\ Len(q) = (Len(q) - 1) + 1
    BY <1>1
  <2> QED
    BY <2>1
<1> DEFINE p == SubSeq(q, 1, m)
<1>3. p \in Seq(T) /\ Len(p) = m /\ \A i \in 1 .. m : p[i] = q[i]
  <2>1. \A i \in 1 .. m : q[i] \in T
    BY <1>2
  <2>2. /\ p \in Seq(T) /\ Len(p) = IF 1 <= m THEN m - 1 + 1 ELSE 0
        /\ \A i \in 1 .. m - 1 + 1 : p[i] = q[1 + i - 1]
    BY <2>1, SubSeqProperties
  <2> HIDE DEF p
  <2>3. m - 1 + 1 = m /\ (1 <= m \/ m = 0) /\ \A i \in 1 .. m : 1 + i - 1 = i
    OBVIOUS
  <2> QED
    BY <2>2, <2>3
<1>4. Len(q) - 1 = m /\ Front(q) = p
  BY <1>2 DEF Front
<1>5. Last(q) = q[Len(q)] /\ Last(q) \in T
  BY <1>1 DEF Last
<1> HIDE DEF p
<1> QED
  BY <1>1, <1>3, <1>4, <1>5

LEMMA Constants ==
    /\ NoDebt \in Debts /\ TxDebt \in Debts /\ Failed \in Debts /\ NoScope \in Live
    /\ NoDebt.kind = "None" /\ TxDebt.kind = "Tx" /\ Failed.kind = "Failed"
    /\ TxDebt # Failed /\ ~NoScope.tx /\ NoScope.saves = <<>> /\ NoScope.failed = "None"
    /\ Len(<<>>) = 0 /\ MaxSave \in Nat
<1>1. 0 \in 0 .. MaxSave /\ MaxSave \in Nat
  BY WorkAssumption
<1>2. NoDebt \in Debts /\ NoDebt.kind = "None"
  BY <1>1 DEF NoDebt, Debts
<1>3. /\ TxDebt \in Debts /\ TxDebt.kind = "Tx"
      /\ Failed \in Debts /\ Failed.kind = "Failed"
  BY <1>1 DEF NoDebt, TxDebt, Failed, Debts
<1>4. NoScope \in Live /\ NoScope.saves = <<>> /\ NoScope.failed = "None"
  BY <1>1 DEF NoScope, Live
<1>5. ~NoScope.tx
  BY DEF NoScope
<1>6. TxDebt # Failed
  BY <1>3
<1> QED
  BY <1>1, <1>2, <1>3, <1>4, <1>5, <1>6

LEMMA WorkUpdates ==
    ASSUME NEW w \in Works
    PROVE  /\ \A d \in Debts :
                /\ [w EXCEPT !.debt = d] \in Works /\ [w EXCEPT !.debt = d].debt = d
                /\ [w EXCEPT !.debt = d].depth = w.depth
                /\ [w EXCEPT !.debt = d].health = w.health
                /\ [w EXCEPT !.debt = d].mode = w.mode
           /\ \A n \in 0 .. MaxSave :
                /\ [w EXCEPT !.depth = n] \in Works /\ [w EXCEPT !.depth = n].depth = n
                /\ [w EXCEPT !.depth = n].debt = w.debt
                /\ [w EXCEPT !.depth = n].health = w.health
                /\ [w EXCEPT !.depth = n].mode = w.mode
           /\ \A m \in {"Idle", "Primary", "Cleanup"} :
                /\ [w EXCEPT !.mode = m] \in Works /\ [w EXCEPT !.mode = m].mode = m
                /\ [w EXCEPT !.mode = m].debt = w.debt
                /\ [w EXCEPT !.mode = m].health = w.health
                /\ [w EXCEPT !.mode = m].depth = w.depth
           /\ \A h \in {"Healthy", "Recoverable", "Failed"} :
                /\ [w EXCEPT !.health = h] \in Works /\ [w EXCEPT !.health = h].health = h
                /\ [w EXCEPT !.health = h].debt = w.debt
                /\ [w EXCEPT !.health = h].depth = w.depth
                /\ [w EXCEPT !.health = h].mode = w.mode
BY DEF Works

LEMMA LiveUpdates ==
    ASSUME NEW s \in Live
    PROVE  /\ \A q \in Seq(1 .. MaxSave) :
                /\ [s EXCEPT !.saves = q] \in Live /\ [s EXCEPT !.saves = q].saves = q
                /\ [s EXCEPT !.saves = q].tx = s.tx /\ [s EXCEPT !.saves = q].failed = s.failed
           /\ \A e \in {"None", "Busy", "Aborted"} :
                /\ [s EXCEPT !.failed = e] \in Live /\ [s EXCEPT !.failed = e].failed = e
                /\ [s EXCEPT !.failed = e].tx = s.tx /\ [s EXCEPT !.failed = e].saves = s.saves
BY DEF Live

LEMMA SavesUpdate ==
    ASSUME NEW s \in Live, NEW q \in Seq(1 .. MaxSave)
    PROVE  /\ [s EXCEPT !.saves = q] \in Live /\ [s EXCEPT !.saves = q].saves = q
           /\ [s EXCEPT !.saves = q].tx = s.tx /\ [s EXCEPT !.saves = q].failed = s.failed
BY DEF Live

LEMMA TxReturnSound ==
    ASSUME NEW w, NEW s, NEW f, Sound(w, s, f), s.tx
    PROVE  Sound(TxReturn(w, s.failed), NoScope, f)
<1> DEFINE v == TxReturn(w, s.failed)
<1>0. w \in Works /\ f \in Native /\ s \in Live
  BY DEF Sound, Typed
<1>1. /\ v \in Works /\ v.health = w.health
      /\ s.failed = "Aborted" => v.depth = 0 /\ v.debt = w.debt
      /\ s.failed # "Aborted" => v.depth = w.depth /\ v.debt = OwingTx(w.debt)
  <2>1. CASE s.failed = "Aborted"
    <3>1. v = [w EXCEPT !.depth = 0]
      BY <2>1 DEF TxReturn
    <3>2. 0 \in 0 .. MaxSave
      BY Constants
    <3> HIDE DEF v
    <3> QED
      BY <1>0, <2>1, <3>1, <3>2 DEF Works
  <2>2. CASE s.failed # "Aborted"
    <3>1. v = [w EXCEPT !.debt = OwingTx(w.debt)]
      BY <2>2 DEF TxReturn
    <3>2. OwingTx(w.debt) \in Debts
      BY <1>0, Constants DEF OwingTx, Works
    <3> HIDE DEF v
    <3> QED
      BY <1>0, <2>2, <3>1, <3>2 DEF Works
  <2> QED
    BY <2>1, <2>2
<1>2. s.failed = "Aborted" => w.debt.kind # "Save"
  BY <1>0, Constants DEF Sound, ScopeBacked, DebtSound, Works, Native
<1>3. FailedFinal(v) /\ DebtSound(v, f)
  BY <1>0, <1>1, <1>2, Constants DEF Sound, ScopeBacked, DebtSound, FailedFinal, OwingTx
<1>4. ScopeBacked(v, NoScope, f) /\ SavesSound(v, NoScope, f)
  BY Constants DEF ScopeBacked, SavesSound
<1>5. DepthCovers(v, f)
  BY <1>0, <1>1, <1>2, Constants
     DEF Sound, ScopeBacked, DepthCovers, OwingTx, Native, FailedFinal, DebtSound
<1> QED
  BY <1>0, <1>1, <1>3, <1>4, <1>5, Constants DEF Sound, Typed

LEMMA SaveReturnSound ==
    ASSUME NEW w, NEW s, NEW f, Sound(w, s, f), s.tx, s.saves # <<>>
    PROVE  Sound(SaveReturn(w, s), [s EXCEPT !.saves = Front(@)], f)
<1> DEFINE v == SaveReturn(w, s)
           t == [s EXCEPT !.saves = Front(@)]
           n == Len(s.saves)
<1>0. w \in Works /\ f \in Native /\ s \in Live /\ s.saves \in Seq(1 .. MaxSave)
  BY DEF Sound, Typed, Live
<1>1. /\ n \in Nat \ {0} /\ Last(s.saves) = s.saves[n] /\ s.saves[n] \in 1 .. MaxSave
      /\ Front(s.saves) \in Seq(1 .. MaxSave) /\ Len(Front(s.saves)) = n - 1
      /\ \A i \in 1 .. n - 1 : Front(s.saves)[i] = s.saves[i]
  BY <1>0, FrontLast
<1>2. t \in Live /\ t.tx = s.tx /\ t.failed = s.failed /\ t.saves = Front(s.saves)
  BY <1>0, <1>1, SavesUpdate
<1>3. CASE s.failed # "None"
  BY <1>0, <1>2, <1>3 DEF Sound, Typed, ScopeBacked, SavesSound, SaveReturn
<1>4. CASE s.failed = "None" /\ w.debt.kind \in {"Tx", "Failed"}
  <2>1. v = w
    BY <1>0, <1>4 DEF SaveReturn, Owing, Works, Debts
  <2> QED
    BY <1>0, <1>2, <1>4, <2>1 DEF Sound, Typed, ScopeBacked, SavesSound
<1>5. CASE s.failed = "None" /\ w.debt.kind \in {"None", "Save"}
  <2>1. /\ s.saves[n] \in 1 .. w.depth /\ s.saves[n] + Len(f) >= w.depth + 2
        /\ w.debt.kind = "Save" => s.saves[n] < w.debt.target
        /\ \A k \in 1 .. n - 1 : s.saves[k] < s.saves[n]
    <3>1. /\ \A k \in 1 .. n :
                /\ s.saves[k] \in 1 .. w.depth
                /\ s.saves[k] + Len(f) >= w.depth + 2
                /\ w.debt.kind = "Save" => s.saves[k] < w.debt.target
          /\ \A j, k \in 1 .. n : j < k => s.saves[j] < s.saves[k]
      BY <1>5 DEF Sound, SavesSound
    <3>2. n \in 1 .. n /\ \A k \in 1 .. n - 1 : k \in 1 .. n /\ k < n
      BY <1>1
    <3> HIDE DEF n
    <3> QED
      BY <3>1, <3>2
  <2>2. /\ Owing(w.debt, s.saves[n]) \in Debts
        /\ Owing(w.debt, s.saves[n]).kind = "Save"
        /\ Owing(w.debt, s.saves[n]).target = s.saves[n]
    <3>1. s.saves[n] \in 0 .. MaxSave /\ w.debt \in Debts
      BY <1>0, <1>1, Constants DEF Works
    <3>2. CASE w.debt.kind = "None"
      BY <3>1, <3>2 DEF Owing, Debts
    <3>3. CASE w.debt.kind = "Save"
      BY <2>1, <3>1, <3>3 DEF Owing, Debts
    <3> QED
      BY <1>5, <3>2, <3>3
  <2>3. /\ v \in Works /\ v.health = w.health /\ v.depth = w.depth
        /\ v.debt.kind = "Save" /\ v.debt.target = s.saves[n]
    <3>1. v = [w EXCEPT !.debt = Owing(w.debt, s.saves[n])]
      BY <1>0, <1>1, <1>5 DEF SaveReturn, Works
    <3> HIDE DEF v
    <3> QED
      BY <1>0, <2>2, <3>1, WorkUpdates
  <2> HIDE DEF v, t
  <2>4. FailedFinal(v) /\ DebtSound(v, f)
    BY <1>5, <2>1, <2>3 DEF Sound, FailedFinal, DebtSound
  <2>5. ScopeBacked(v, t, f) /\ DepthCovers(v, f)
    BY <1>2, <1>5, <2>3 DEF Sound, ScopeBacked, DepthCovers
  <2>6. SavesSound(v, t, f)
    <3>1. \A k \in 1 .. n - 1 : t.saves[k] = s.saves[k] /\ k \in 1 .. n
      BY <1>1, <1>2
    <3>2. Len(t.saves) = n - 1
      BY <1>1, <1>2
    <3>3. /\ \A k \in 1 .. n : s.saves[k] \in 1 .. w.depth
                                 /\ s.saves[k] + Len(f) >= w.depth + 2
          /\ \A j, k \in 1 .. n : j < k => s.saves[j] < s.saves[k]
      BY <1>5 DEF Sound, SavesSound
    <3> QED
      BY <2>1, <2>3, <3>1, <3>2, <3>3 DEF SavesSound
  <2> QED
    BY <1>0, <1>2, <2>3, <2>4, <2>5, <2>6 DEF Sound, Typed, v, t
<1>6. w.debt.kind \in {"None", "Tx", "Save", "Failed"}
  BY <1>0 DEF Works, Debts
<1> QED
  BY <1>3, <1>4, <1>5, <1>6

LEMMA OuterSound ==
    ASSUME NEW w, NEW s, NEW f, Sound(w, s, f), s.tx
    PROVE  Sound(w, Outer(s), f)
<1>1. CASE s.saves = <<>>
  BY <1>1, Constants DEF Sound, Typed, ScopeBacked, SavesSound, Outer
<1>2. CASE s.saves # <<>>
  <2> DEFINE t == [s EXCEPT !.saves = Front(@)]
             n == Len(s.saves)
  <2>0. s \in Live /\ s.saves \in Seq(1 .. MaxSave)
    BY DEF Sound, Typed, Live
  <2>1. /\ n \in Nat \ {0} /\ Front(s.saves) \in Seq(1 .. MaxSave)
        /\ Len(Front(s.saves)) = n - 1
        /\ \A i \in 1 .. n - 1 : Front(s.saves)[i] = s.saves[i]
    BY <1>2, <2>0, FrontLast
  <2>2. t \in Live /\ t.tx = s.tx /\ t.failed = s.failed /\ t.saves = Front(s.saves)
    BY <2>0, <2>1, SavesUpdate
  <2>3. Outer(s) = t
    BY <1>2 DEF Outer
  <2> HIDE DEF t
  <2>4. ScopeBacked(w, t, f)
    BY <2>2 DEF Sound, ScopeBacked
  <2>5. \A k \in 1 .. n - 1 : t.saves[k] = s.saves[k] /\ k \in 1 .. n
    BY <2>1, <2>2
  <2>6. SavesSound(w, t, f)
    BY <2>1, <2>2, <2>5 DEF Sound, SavesSound
  <2> QED
    BY <2>2, <2>3, <2>4, <2>6 DEF Sound, Typed
<1> QED
  BY <1>1, <1>2

(* The mode of the meter is none of the invariant's concern.               *)
LEMMA Metered ==
    ASSUME NEW w, NEW s, NEW f, Sound(w, s, f), NEW m \in {"Idle", "Primary", "Cleanup"}
    PROVE  /\ Sound([w EXCEPT !.mode = m], s, f)
           /\ [w EXCEPT !.mode = m].debt = w.debt
           /\ [w EXCEPT !.mode = m].health = w.health
           /\ [w EXCEPT !.mode = m].depth = w.depth
           /\ [w EXCEPT !.mode = m].mode = m
<1> DEFINE v == [w EXCEPT !.mode = m]
<1>1. w \in Works
  BY DEF Sound, Typed
<1>2. v \in Works /\ v.debt = w.debt /\ v.health = w.health /\ v.depth = w.depth /\ v.mode = m
  BY <1>1 DEF Works
<1> HIDE DEF v
<1>3. Sound(v, s, f)
  BY <1>2 DEF Sound, Typed, FailedFinal, DebtSound, ScopeBacked, SavesSound, DepthCovers
<1> QED
  BY <1>2, <1>3 DEF v

(* The calls that the live scopes allow.                                   *)
Consumes(op, s) ==
    /\ op \in {"Commit", "Rollback"} => s.tx /\ s.saves = <<>>
    /\ op \in {"Open", "Release", "RollbackTo"} => s.tx
    /\ op \in {"Release", "RollbackTo"} => s.saves # <<>>
    /\ op = "Begin" => ~s.tx

LEMMA DroppedSound ==
    ASSUME NEW w, NEW s, NEW f, NEW op, Sound(w, s, f), Consumes(op, s)
    PROVE  Sound(Dropped(op, w, s)[1], Dropped(op, w, s)[2], f)
<1>1. CASE op \in {"Commit", "Rollback"}
  <2>1. Dropped(op, w, s)[1] = TxReturn(w, s.failed) /\ Dropped(op, w, s)[2] = NoScope
    BY <1>1 DEF Dropped
  <2> QED
    BY <1>1, <2>1, TxReturnSound DEF Consumes
<1>2. CASE op = "Release"
  <2>1. /\ Dropped(op, w, s)[1] = SaveReturn(w, s)
        /\ Dropped(op, w, s)[2] = [s EXCEPT !.saves = Front(@)]
    BY <1>2 DEF Dropped
  <2> QED
    BY <1>2, <2>1, SaveReturnSound DEF Consumes
<1>3. CASE op \notin {"Commit", "Rollback", "Release"}
  BY <1>3 DEF Dropped
<1> QED
  BY <1>1, <1>2, <1>3

LEMMA EmptyNative == <<>> \in Native
BY Constants DEF Native

(* Nothing is left of a transaction that SQLite has ended.                 *)
LEMMA EndedEmpty ==
    ASSUME NEW w \in Works, FailedFinal(w), w.debt.kind \in {"None", "Failed"}
    PROVE  Sound([w EXCEPT !.depth = 0], NoScope, <<>>)
<1> DEFINE v == [w EXCEPT !.depth = 0]
<1>1. v \in Works /\ v.debt = w.debt /\ v.health = w.health /\ v.depth = 0
  BY Constants DEF Works
<1> HIDE DEF v
<1>2. <<>> \in Native /\ NoScope \in Live
  BY Constants, EmptyNative
<1>3. FailedFinal(v) /\ DebtSound(v, <<>>) /\ DepthCovers(v, <<>>)
  BY <1>1, Constants DEF FailedFinal, DebtSound, DepthCovers
<1>4. ScopeBacked(v, NoScope, <<>>) /\ SavesSound(v, NoScope, <<>>)
  BY Constants DEF ScopeBacked, SavesSound
<1> QED
  BY <1>1, <1>2, <1>3, <1>4 DEF Sound, Typed, v

LEMMA EndedSound ==
    ASSUME NEW w, NEW s, NEW f, NEW op, Sound(w, s, f), Consumes(op, s)
    PROVE  Sound(Ended(op, w, s, f)[1], Ended(op, w, s, f)[2], f)
<1>1. CASE op \in {"Commit", "Rollback"} /\ f = <<>>
  <2>1. /\ Ended(op, w, s, f)[1] = [w EXCEPT !.depth = 0]
        /\ Ended(op, w, s, f)[2] = NoScope
    BY <1>1 DEF Ended
  <2>2. w \in Works /\ FailedFinal(w)
    BY DEF Sound, Typed
  <2>3. w.debt.kind \in {"None", "Failed"}
    BY <1>1, <2>2, Constants DEF Sound, DebtSound, Works, Debts
  <2> QED
    BY <1>1, <2>1, <2>2, <2>3, EndedEmpty
<1>2. CASE ~(op \in {"Commit", "Rollback"} /\ f = <<>>)
  BY <1>2, DroppedSound DEF Ended
<1> QED
  BY <1>1, <1>2

LEMMA FailCleanupSound ==
    ASSUME NEW w, NEW s, NEW f, Sound(w, s, f), NEW g \in {f, <<>>}
    PROVE  Sound(FailCleanup(w), s, g)
<1> DEFINE v == FailCleanup(w)
<1>1. v \in Works /\ v.debt = Failed /\ v.health = "Failed"
  BY Constants DEF FailCleanup, Works
<1> HIDE DEF v
<1>2. s \in Live /\ g \in Native
  BY EmptyNative DEF Sound, Typed
<1>3. FailedFinal(v) /\ DebtSound(v, g) /\ DepthCovers(v, g)
  BY <1>1, Constants DEF FailedFinal, DebtSound, DepthCovers
<1>4. ScopeBacked(v, s, g) /\ SavesSound(v, s, g)
  BY <1>1, Constants DEF Sound, ScopeBacked, SavesSound
<1> QED
  BY <1>1, <1>2, <1>3, <1>4 DEF Sound, Typed, v

(* A failed statement leaves a scope that is known to be aborted, or one   *)
(* that SQLite still has.                                                  *)
LEMMA FaultedSound ==
    ASSUME NEW w, NEW s, NEW f, NEW op \in Ops, Sound(w, s, f), Consumes(op, s),
           w.debt.kind = "None", op # "Rollback",
           Within(op, s) => s.failed = "None",
           NEW g \in {f, <<>>}, NEW busy \in BOOLEAN
    PROVE  LET r == Faulted(op, w, s, g, busy)
           IN /\ Sound(r[1], r[2], g)
              /\ r[1].mode = w.mode /\ r[1].health = w.health
              /\ busy => r[1] = w
              /\ r[2].tx = s.tx /\ r[2].saves = s.saves
<1> DEFINE r == Faulted(op, w, s, g, busy)
           owes == g # <<>> /\ op # "Query" /\ ~busy
           abort == g = <<>> \/ (op # "Query" /\ ~busy)
<1>0. w \in Works /\ s \in Live /\ f \in Native /\ g \in Native
  BY EmptyNative DEF Sound, Typed
<1>1. /\ owes => r[1] = [w EXCEPT !.debt = TxDebt]
      /\ ~owes => r[1] = w
  BY <1>0, Constants DEF Faulted, OwingTx, Works
<1>2. /\ Within(op, s) /\ abort => r[2] = [s EXCEPT !.failed = "Aborted"]
      /\ Within(op, s) /\ ~abort => r[2] = s \/ r[2] = [s EXCEPT !.failed = "Busy"]
      /\ ~Within(op, s) => r[2] = s
  BY DEF Faulted
<1> HIDE DEF r
<1>3. /\ r[1] \in Works /\ r[1].mode = w.mode /\ r[1].health = w.health
      /\ r[1].depth = w.depth
      /\ owes => r[1].debt.kind = "Tx"
      /\ ~owes => r[1].debt.kind = "None"
  BY <1>0, <1>1, Constants DEF Works
<1>4. /\ r[2] \in Live /\ r[2].tx = s.tx /\ r[2].saves = s.saves
      /\ Within(op, s) /\ abort => r[2].failed = "Aborted"
      /\ Within(op, s) /\ ~abort => r[2].failed \in {"None", "Busy"}
      /\ ~Within(op, s) => r[2] = s
  <2>1. CASE r[2] = s
    BY <1>0, <1>2, <2>1 DEF Live
  <2>2. CASE r[2] = [s EXCEPT !.failed = "Aborted"]
    BY <1>0, <1>2, <2>2 DEF Live
  <2>3. CASE r[2] = [s EXCEPT !.failed = "Busy"]
    BY <1>0, <1>2, <2>3 DEF Live
  <2> QED
    BY <1>2, <2>1, <2>2, <2>3
<1>5. Within(op, s) <=> s.tx
  BY DEF Within, Consumes
<1>6. FailedFinal(r[1]) /\ DebtSound(r[1], g)
  BY <1>3 DEF Sound, FailedFinal, DebtSound
<1>7. ScopeBacked(r[1], r[2], g)
  BY <1>3, <1>4, <1>5 DEF Sound, ScopeBacked
<1>8. DepthCovers(r[1], g)
  BY <1>0, <1>3, Constants DEF Sound, DepthCovers, Works, Native
<1>9. SavesSound(r[1], r[2], g)
  <2>1. ~s.tx => r[2].saves = <<>>
    BY <1>4, <1>5, Constants DEF Sound, ScopeBacked
  <2>2. CASE ~s.tx
    BY <2>1, <2>2, Constants DEF SavesSound
  <2>3. CASE s.tx /\ r[2].failed = "None"
    BY <1>3, <1>4, <1>5, <2>3 DEF Sound, SavesSound
  <2> QED
    BY <2>2, <2>3 DEF SavesSound
<1> QED
  BY <1>0, <1>1, <1>3, <1>4, <1>6, <1>7, <1>8, <1>9 DEF Sound, Typed, r

-----------------------------------------------------------------------------
(* What statements do to SQLite's transaction *)

LEMMA UndoneFrames ==
    ASSUME NEW f \in Native, f # <<>>, NEW x \in SUBSET Writes
    PROVE  /\ [f EXCEPT ![Len(f)] = x] \in Native
           /\ Len([f EXCEPT ![Len(f)] = x]) = Len(f)
           /\ f[Len(f)] \in SUBSET Writes
<1>1. f \in Seq(SUBSET Writes) /\ Len(f) <= MaxSave + 1
  BY DEF Native
<1>2. Len(f) \in 1 .. Len(f) /\ Len(f) \in Nat
  BY <1>1
<1>3. [f EXCEPT ![Len(f)] = x] \in Seq(SUBSET Writes) /\ Len([f EXCEPT ![Len(f)] = x]) = Len(f)
  BY <1>1, <1>2
<1>4. f[Len(f)] \in SUBSET Writes
  BY <1>1, <1>2
<1> QED
  BY <1>1, <1>3, <1>4 DEF Native

LEMMA ReleasedFrames ==
    ASSUME NEW f \in Native, Len(f) > 1
    PROVE  Released(f) \in Native /\ Len(Released(f)) = Len(f) - 1
<1>1. f \in Seq(SUBSET Writes) /\ Len(f) <= MaxSave + 1 /\ f # <<>> /\ Len(f) \in Nat
  BY DEF Native
<1> DEFINE g == Front(f)
<1>2. /\ g \in Seq(SUBSET Writes) /\ Len(g) = Len(f) - 1
      /\ Last(f) \in SUBSET Writes
  BY <1>1, FrontLast
<1> HIDE DEF g
<1>3. Len(f) - 1 \in 1 .. Len(g)
  BY <1>1, <1>2
<1>4. g[Len(f) - 1] \in SUBSET Writes
  BY <1>2, <1>3
<1>5. g[Len(f) - 1] \cup Last(f) \in SUBSET Writes
  BY <1>2, <1>4
<1>6. PICK x \in SUBSET Writes : Released(f) = [g EXCEPT ![Len(f) - 1] = x]
  <2>1. Released(f) = [g EXCEPT ![Len(f) - 1] = g[Len(f) - 1] \cup Last(f)]
    BY DEF Released, g
  <2> QED
    BY <1>5, <2>1
<1>7. Released(f) \in Seq(SUBSET Writes) /\ Len(Released(f)) = Len(g)
  BY <1>2, <1>3, <1>6
<1> QED
  BY <1>1, <1>2, <1>7, Constants DEF Native

(* A write changes no more than the innermost frame.                       *)
LEMMA SameDepth ==
    ASSUME NEW w, NEW s, NEW f, Sound(w, s, f), NEW g \in Native, Len(g) = Len(f)
    PROVE  Sound(w, s, g)
<1>1. f \in Native /\ (f = <<>> <=> g = <<>>)
  BY Constants DEF Sound, Typed, Native
<1> QED
  BY <1>1 DEF Sound, Typed, DebtSound, ScopeBacked, SavesSound, DepthCovers

(* One savepoint more.                                                     *)
LEMMA Grown ==
    ASSUME NEW d \in Nat, NEW l \in Nat, NEW x \in 1 .. d, x + l >= d + 2
    PROVE  x \in 1 .. d + 1 /\ x + (l + 1) >= d + 1 + 2
OBVIOUS

LEMMA OpenSound ==
    ASSUME NEW w, NEW s, NEW f, Sound(w, s, f), w.debt.kind = "None", s.tx,
           w.depth < MaxSave, f # <<>>
    PROVE  Sound([w EXCEPT !.depth = @ + 1],
                 [s EXCEPT !.saves = Append(@, w.depth + 1)], Append(f, {}))
<1> DEFINE v == [w EXCEPT !.depth = @ + 1]
           q == Append(s.saves, w.depth + 1)
           t == [s EXCEPT !.saves = Append(@, w.depth + 1)]
           g == Append(f, {})
           n == Len(s.saves)
<1>0. /\ w \in Works /\ s \in Live /\ f \in Native /\ f \in Seq(SUBSET Writes)
      /\ s.saves \in Seq(1 .. MaxSave) /\ w.depth \in Nat /\ w.depth + 1 \in 1 .. MaxSave
      /\ Len(f) <= w.depth + 1
  BY Constants DEF Sound, Typed, DepthCovers, Works, Live, Native
<1>1. v \in Works /\ v.debt = w.debt /\ v.health = w.health /\ v.depth = w.depth + 1
  <2>1. w.depth + 1 \in 0 .. MaxSave
    BY <1>0, Constants
  <2> QED
    BY <1>0, <2>1 DEF Works
<1>2. /\ q \in Seq(1 .. MaxSave) /\ Len(q) = n + 1 /\ n \in Nat
      /\ q[n + 1] = w.depth + 1 /\ \A k \in 1 .. n : q[k] = s.saves[k]
  BY <1>0
<1>3. t \in Live /\ t.tx = s.tx /\ t.failed = s.failed /\ t.saves = q
  BY <1>0, <1>2 DEF Live
<1>4. g \in Seq(SUBSET Writes) /\ Len(g) = Len(f) + 1 /\ Len(f) \in Nat /\ Len(f) >= 1
  BY <1>0
<1> HIDE DEF v, q, t, g, n
<1>5. g \in Native /\ g # <<>>
  <2>1. Len(g) <= MaxSave + 1 /\ Len(g) # 0
    BY <1>0, <1>4, Constants
  <2> QED
    BY <1>4, <2>1, Constants DEF Native
<1>6. FailedFinal(v) /\ DebtSound(v, g) /\ DepthCovers(v, g)
  BY <1>0, <1>1, <1>4, <1>5 DEF Sound, FailedFinal, DebtSound, DepthCovers
<1>7. ScopeBacked(v, t, g)
  BY <1>1, <1>3, <1>5 DEF Sound, ScopeBacked
<1>8. SavesSound(v, t, g)
  <2>1. SUFFICES ASSUME s.failed = "None"
                 PROVE  SavesSound(v, t, g)
    BY <1>3 DEF SavesSound
  <2>2. /\ \A k \in 1 .. n : s.saves[k] \in 1 .. w.depth /\ s.saves[k] + Len(f) >= w.depth + 2
        /\ \A j, k \in 1 .. n : j < k => s.saves[j] < s.saves[k]
    BY <2>1 DEF Sound, SavesSound, n
  <2>3. \A k \in 1 .. n + 1 : k \in 1 .. n \/ k = n + 1
    BY <1>2
  <2>4. \A k \in 1 .. n + 1 : q[k] \in 1 .. v.depth /\ q[k] + Len(g) >= v.depth + 2
    <3>1. ASSUME NEW k \in 1 .. n PROVE q[k] \in 1 .. v.depth /\ q[k] + Len(g) >= v.depth + 2
      <4>1. q[k] = s.saves[k] /\ s.saves[k] \in 1 .. w.depth /\ s.saves[k] + Len(f) >= w.depth + 2
        BY <1>2, <2>2
      <4>2. /\ v.depth = w.depth + 1 /\ w.depth \in Nat
            /\ Len(g) = Len(f) + 1 /\ Len(f) \in Nat
        BY <1>0, <1>1, <1>4
      <4>3. /\ s.saves[k] \in 1 .. w.depth + 1
            /\ s.saves[k] + (Len(f) + 1) >= w.depth + 1 + 2
        BY <4>1, <4>2, Grown
      <4> QED
        BY <4>1, <4>2, <4>3
    <3>2. q[n + 1] \in 1 .. v.depth /\ q[n + 1] + Len(g) >= v.depth + 2
      <4>1. /\ v.depth = w.depth + 1 /\ w.depth \in Nat
            /\ Len(g) = Len(f) + 1 /\ Len(f) \in Nat /\ Len(f) >= 1
            /\ q[n + 1] = w.depth + 1
        BY <1>0, <1>1, <1>2, <1>4
      <4> QED
        BY ONLY <4>1
    <3> QED
      BY <2>3, <3>1, <3>2
  <2>5. \A j, k \in 1 .. n + 1 : j < k => q[j] < q[k]
    <3> SUFFICES ASSUME NEW j \in 1 .. n + 1, NEW k \in 1 .. n + 1, j < k
                 PROVE  q[j] < q[k]
      OBVIOUS
    <3>1. j \in 1 .. n /\ q[j] = s.saves[j] /\ q[j] \in 1 .. w.depth
      <4>1. j \in 1 .. n
        BY <1>2
      <4> QED
        BY <1>2, <2>2, <4>1
    <3>2. CASE k = n + 1
      BY <1>0, <1>2, <3>1, <3>2
    <3>3. CASE k \in 1 .. n
      BY <1>2, <2>2, <3>1, <3>3
    <3> QED
      BY <2>3, <3>2, <3>3
  <2> QED
    BY <1>1, <1>2, <1>3, <2>4, <2>5 DEF SavesSound
<1> QED
  BY <1>1, <1>3, <1>5, <1>6, <1>7, <1>8 DEF Sound, Typed, v, q, t, g

LEMMA Inside ==
    ASSUME NEW d \in Nat, NEW x \in 1 .. d, NEW b \in 1 .. d, x <= b, b < d
    PROVE  x < d
OBVIOUS

LEMMA Fewer ==
    ASSUME NEW d \in Nat, NEW l \in Nat, NEW x \in 1 .. d, x + l >= d + 2, x < d
    PROVE  x \in 1 .. d - 1 /\ x + (l - 1) >= d - 1 + 2
OBVIOUS

LEMMA Shrunk ==
    ASSUME NEW d \in Nat, NEW l \in Nat, NEW x \in 1 .. d, NEW b \in 1 .. d,
           x + l >= d + 2, x < b
    PROVE  x \in 1 .. d - 1 /\ x + (l - 1) >= d - 1 + 2
OBVIOUS

(* One savepoint less: the innermost live one is still deeper, or it is    *)
(* the one that was released.                                              *)
LEMMA CloseSound ==
    ASSUME NEW w, NEW s, NEW f, Sound(w, s, f), w.debt.kind = "None", s.tx,
           s.failed = "None", s.saves # <<>>, Len(f) > 1
    PROVE  LET v == [w EXCEPT !.depth = @ - 1]
           IN /\ w.depth # Last(s.saves) => Sound(v, s, Released(f))
              /\ w.depth = Last(s.saves) =>
                    Sound(v, [s EXCEPT !.saves = Front(@)], Released(f))
<1> DEFINE v == [w EXCEPT !.depth = @ - 1]
           t == [s EXCEPT !.saves = Front(@)]
           g == Released(f)
           n == Len(s.saves)
<1>0. /\ w \in Works /\ s \in Live /\ f \in Native /\ s.saves \in Seq(1 .. MaxSave)
      /\ w.depth \in 0 .. MaxSave /\ Len(f) \in Nat /\ Len(f) <= w.depth + 1
  BY Constants DEF Sound, Typed, DepthCovers, Works, Live, Native
<1>1. g \in Native /\ Len(g) = Len(f) - 1
  BY <1>0, ReleasedFrames
<1>2. /\ n \in Nat \ {0} /\ Last(s.saves) = s.saves[n]
      /\ Front(s.saves) \in Seq(1 .. MaxSave) /\ Len(Front(s.saves)) = n - 1
      /\ \A i \in 1 .. n - 1 : Front(s.saves)[i] = s.saves[i]
  BY <1>0, FrontLast
<1>3. /\ \A k \in 1 .. n : s.saves[k] \in 1 .. w.depth /\ s.saves[k] + Len(f) >= w.depth + 2
      /\ \A j, k \in 1 .. n : j < k => s.saves[j] < s.saves[k]
  BY DEF Sound, SavesSound
<1>4. w.depth - 1 \in 0 .. MaxSave
  BY <1>0, <1>2, <1>3, Constants
<1>5. v \in Works /\ v.debt = w.debt /\ v.health = w.health /\ v.depth = w.depth - 1
  BY <1>0, <1>4 DEF Works
<1>6. t \in Live /\ t.tx = s.tx /\ t.failed = s.failed /\ t.saves = Front(s.saves)
  BY <1>0, <1>2 DEF Live
<1> HIDE DEF v, t, g, n
<1>7. g # <<>>
  BY <1>0, <1>1, Constants
<1>8. FailedFinal(v) /\ DebtSound(v, g) /\ DepthCovers(v, g)
  BY <1>0, <1>1, <1>5, <1>7 DEF Sound, FailedFinal, DebtSound, DepthCovers
<1>9. ScopeBacked(v, s, g) /\ ScopeBacked(v, t, g)
  BY <1>5, <1>6, <1>7 DEF Sound, ScopeBacked
<1>10. CASE w.depth # Last(s.saves)
  <2>1. \A k \in 1 .. n : s.saves[k] <= s.saves[n] /\ s.saves[n] < w.depth
    <3>1. n \in 1 .. n /\ \A k \in 1 .. n : k < n \/ k = n
      BY <1>2
    <3>2. s.saves[n] \in 1 .. w.depth /\ s.saves[n] # w.depth
      BY <1>2, <1>3, <1>10, <3>1
    <3>3. s.saves[n] < w.depth /\ s.saves[n] <= s.saves[n]
      BY <1>0, <3>2
    <3>4. ASSUME NEW k \in 1 .. n PROVE s.saves[k] <= s.saves[n]
      <4>1. CASE k = n
        BY <3>3, <4>1
      <4>2. CASE k < n
        <5>1. s.saves[k] < s.saves[n] /\ s.saves[k] \in 1 .. w.depth
          BY <1>3, <3>1, <4>2
        <5> QED
          BY <1>0, <3>2, <5>1
      <4> QED
        BY <3>1, <4>1, <4>2
    <3> QED
      BY <3>3, <3>4
  <2>2. \A k \in 1 .. n : s.saves[k] \in 1 .. v.depth /\ s.saves[k] + Len(g) >= v.depth + 2
    <3> SUFFICES ASSUME NEW k \in 1 .. n
                 PROVE  s.saves[k] \in 1 .. v.depth /\ s.saves[k] + Len(g) >= v.depth + 2
      OBVIOUS
    <3>1. /\ s.saves[k] \in 1 .. w.depth /\ s.saves[k] + Len(f) >= w.depth + 2
          /\ s.saves[k] < w.depth
      <4>1. /\ s.saves[k] \in 1 .. w.depth /\ s.saves[k] + Len(f) >= w.depth + 2
            /\ s.saves[k] <= s.saves[n] /\ s.saves[n] < w.depth /\ s.saves[n] \in 1 .. w.depth
        BY <1>2, <1>3, <2>1
      <4>2. w.depth \in Nat
        BY <1>0
      <4> QED
        BY <4>1, <4>2, Inside
    <3>2. w.depth \in Nat /\ Len(f) \in Nat
      BY <1>0
    <3>3. s.saves[k] \in 1 .. w.depth - 1 /\ s.saves[k] + (Len(f) - 1) >= w.depth - 1 + 2
      BY <3>1, <3>2, Fewer
    <3> QED
      BY <1>1, <1>5, <3>3
  <2>3. SavesSound(v, s, g)
    BY <1>3, <1>5, <2>2 DEF SavesSound, n
  <2> QED
    BY <1>0, <1>1, <1>5, <1>8, <1>9, <1>10, <2>3 DEF Sound, Typed, v, g
<1>11. CASE w.depth = Last(s.saves)
  <2>1. \A k \in 1 .. n - 1 : k \in 1 .. n /\ k < n /\ t.saves[k] = s.saves[k]
    BY <1>2, <1>6
  <2>2. \A k \in 1 .. n - 1 : t.saves[k] \in 1 .. v.depth /\ t.saves[k] + Len(g) >= v.depth + 2
    <3> SUFFICES ASSUME NEW k \in 1 .. n - 1
                 PROVE  t.saves[k] \in 1 .. v.depth /\ t.saves[k] + Len(g) >= v.depth + 2
      OBVIOUS
    <3>1. /\ t.saves[k] = s.saves[k] /\ s.saves[k] \in 1 .. w.depth
          /\ s.saves[k] + Len(f) >= w.depth + 2 /\ s.saves[k] < w.depth
      <4>1. k \in 1 .. n /\ n \in 1 .. n /\ k < n /\ t.saves[k] = s.saves[k]
        BY <1>2, <2>1
      <4>2. s.saves[k] < s.saves[n] /\ s.saves[n] = w.depth
        BY <1>2, <1>3, <1>11, <4>1
      <4> QED
        BY <1>3, <4>1, <4>2
    <3>2. w.depth \in Nat /\ Len(f) \in Nat
      BY <1>0
    <3>3. s.saves[k] \in 1 .. w.depth - 1 /\ s.saves[k] + (Len(f) - 1) >= w.depth - 1 + 2
      BY <3>1, <3>2, Fewer
    <3> QED
      BY <1>1, <1>5, <3>1, <3>3
  <2>3. SavesSound(v, t, g)
    BY <1>2, <1>3, <1>5, <1>6, <2>1, <2>2 DEF SavesSound
  <2> QED
    BY <1>0, <1>1, <1>5, <1>6, <1>8, <1>9, <1>11, <2>3 DEF Sound, Typed, v, t, g
<1> QED
  BY <1>10, <1>11

(* What SQLite's transaction is after the control statement of a debt.     *)
Settled(w, f) ==
    IF w.debt.kind = "Tx" THEN <<>>
    ELSE IF w.debt.undone THEN Released(f) ELSE Undone(f)

(* Each control statement leaves a debt that can still be settled, or none *)
(* and the scopes around it untouched.                                     *)
LEMMA CompleteSound ==
    ASSUME NEW w, NEW s, NEW f, Sound(w, s, f), w.debt.kind \in {"Tx", "Save"}
    PROVE  Sound(Complete(w), s, Settled(w, f))
<1> DEFINE v == Complete(w)
           g == Settled(w, f)
           n == Len(s.saves)
<1>0. /\ w \in Works /\ s \in Live /\ f \in Native /\ Len(f) \in Nat
      /\ w.depth \in 0 .. MaxSave /\ w.debt \in Debts /\ w.debt.target \in 0 .. MaxSave
      /\ w.debt.undone \in BOOLEAN /\ w.health # "Failed"
  BY Constants DEF Sound, Typed, FailedFinal, Works, Debts, Native
<1>1. CASE w.debt.kind = "Tx"
  <2>1. v = [w EXCEPT !.depth = 0, !.debt = NoDebt, !.mode = "Idle"] /\ g = <<>>
    BY <1>1 DEF Complete, Settled
  <2> HIDE DEF v, g
  <2>2. /\ v \in Works /\ v.depth = 0 /\ v.debt.kind = "None" /\ v.health = w.health
    <3>1. 0 \in 0 .. MaxSave /\ NoDebt \in Debts /\ NoDebt.kind = "None"
      BY Constants
    <3> QED
      BY <1>0, <2>1, <3>1 DEF Works
  <2>3. FailedFinal(v) /\ DebtSound(v, g) /\ DepthCovers(v, g)
    BY <1>0, <2>1, <2>2, Constants DEF FailedFinal, DebtSound, DepthCovers
  <2>4. ScopeBacked(v, s, g)
    BY <1>1, <2>1, <2>2 DEF Sound, ScopeBacked
  <2>5. SavesSound(v, s, g)
    BY <1>1, Constants DEF Sound, ScopeBacked, SavesSound
  <2> QED
    BY <1>0, <2>1, <2>2, <2>3, <2>4, <2>5, EmptyNative DEF Sound, Typed, v, g
<1>2. CASE w.debt.kind = "Save"
  <2>1. /\ w.debt.target \in 1 .. w.depth /\ w.debt.target + Len(f) >= w.depth + 2
        /\ Len(f) <= w.depth + 1 /\ Len(f) > 1 /\ f # <<>>
    BY <1>0, <1>2, Constants DEF Sound, DebtSound, DepthCovers
  <2>2. s.failed = "None" =>
          /\ \A k \in 1 .. n :
                /\ s.saves[k] \in 1 .. w.depth /\ s.saves[k] + Len(f) >= w.depth + 2
                /\ s.saves[k] < w.debt.target
          /\ \A j, k \in 1 .. n : j < k => s.saves[j] < s.saves[k]
    BY <1>2 DEF Sound, SavesSound
  <2>3. CASE ~w.debt.undone
    <3>1. v = [w EXCEPT !.debt.undone = TRUE, !.mode = "Cleanup"]
      BY <1>2, <2>3 DEF Complete
    <3>2. g = [f EXCEPT ![Len(f)] = {}]
      BY <1>2, <2>3 DEF Settled, Undone
    <3>3. g \in Native /\ Len(g) = Len(f)
      <4>1. {} \in SUBSET Writes
        OBVIOUS
      <4> QED
        BY <1>0, <2>1, <3>2, <4>1, UndoneFrames, Zenon
    <3> HIDE DEF v, g
    <3>4. v.debt = [w.debt EXCEPT !.undone = TRUE] /\ [w.debt EXCEPT !.undone = TRUE] \in Debts
      <4>1. v.debt = [w.debt EXCEPT !.undone = TRUE]
        BY <1>0, <3>1 DEF Works
      <4>2. [w.debt EXCEPT !.undone = TRUE] \in Debts
        BY <1>0, Zenon DEF Debts
      <4> QED
        BY <4>1, <4>2
    <3>5. /\ v \in Works /\ v.depth = w.depth /\ v.health = w.health
          /\ v.debt.kind = "Save" /\ v.debt.target = w.debt.target
      <4>1. v = [w EXCEPT !.debt = v.debt, !.mode = "Cleanup"]
        BY <1>0, <3>1 DEF Works
      <4>2. v.debt.kind = "Save" /\ v.debt.target = w.debt.target
        BY <1>0, <1>2, <3>4 DEF Debts
      <4> QED
        BY <1>0, <3>4, <4>1, <4>2 DEF Works
    <3>6. Sound(v, s, f)
      BY <1>0, <1>2, <3>5 DEF Sound, Typed, FailedFinal, DebtSound, ScopeBacked,
                              SavesSound, DepthCovers
    <3> QED
      BY <3>3, <3>6, SameDepth DEF v, g
  <2>4. CASE w.debt.undone
    <3>1. g \in Native /\ Len(g) = Len(f) - 1
      BY <1>0, <1>2, <2>1, <2>4, ReleasedFrames DEF Settled
    <3>2. w.depth - 1 \in 0 .. MaxSave
      BY <1>0, <2>1, Constants
    <3>3. CASE w.depth # w.debt.target
      <4>1. v = [w EXCEPT !.depth = @ - 1, !.debt.undone = FALSE, !.mode = "Cleanup"]
        BY <1>2, <2>4, <3>3 DEF Complete
      <4> HIDE DEF v, g
      <4>2. v.debt = [w.debt EXCEPT !.undone = FALSE]
        BY <1>0, <4>1 DEF Works
      <4>3. [w.debt EXCEPT !.undone = FALSE] \in Debts
        BY <1>0, Zenon DEF Debts
      <4>4. v.debt \in Debts /\ v.debt.kind = "Save" /\ v.debt.target = w.debt.target
        BY <1>0, <1>2, <4>2, <4>3 DEF Debts
      <4>5. v = [w EXCEPT !.depth = w.depth - 1, !.debt = v.debt, !.mode = "Cleanup"]
        BY <1>0, <4>1 DEF Works
      <4>6. v \in Works /\ v.depth = w.depth - 1 /\ v.health = w.health
        BY <1>0, <3>2, <4>4, <4>5 DEF Works
      <4>7. FailedFinal(v) /\ DebtSound(v, g) /\ DepthCovers(v, g)
        BY <1>0, <2>1, <3>1, <3>3, <4>4, <4>6 DEF FailedFinal, DebtSound, DepthCovers
      <4>8. g # <<>>
        BY <1>0, <2>1, <3>1, Constants
      <4>9. ScopeBacked(v, s, g)
        BY <1>2, <2>1, <4>4, <4>8 DEF Sound, ScopeBacked
      <4>10. SavesSound(v, s, g)
        <5>1. ASSUME s.failed = "None", NEW k \in 1 .. n
              PROVE  /\ s.saves[k] \in 1 .. v.depth /\ s.saves[k] + Len(g) >= v.depth + 2
                     /\ v.debt.kind = "Save" => s.saves[k] < v.debt.target
          <6>1. /\ s.saves[k] \in 1 .. w.depth /\ s.saves[k] + Len(f) >= w.depth + 2
                /\ s.saves[k] < w.debt.target
            BY <2>2, <5>1
          <6>2. s.saves[k] \in 1 .. w.depth - 1 /\ s.saves[k] + (Len(f) - 1) >= w.depth - 1 + 2
            <7>1. w.depth \in Nat /\ Len(f) \in Nat /\ w.debt.target \in 1 .. w.depth
              BY <1>0, <2>1
            <7> QED
              BY <6>1, <7>1, Shrunk, Zenon
          <6> QED
            BY <3>1, <4>4, <4>6, <6>1, <6>2
        <5> QED
          BY <2>2, <5>1 DEF SavesSound
      <4> QED
        BY <1>0, <3>1, <4>6, <4>7, <4>9, <4>10 DEF Sound, Typed, v, g
    <3>4. CASE w.depth = w.debt.target
      <4>1. v = [w EXCEPT !.depth = @ - 1, !.debt = NoDebt, !.mode = "Idle"]
        BY <1>2, <2>4, <3>4 DEF Complete
      <4> HIDE DEF v, g
      <4>2. v \in Works /\ v.depth = w.depth - 1 /\ v.health = w.health /\ v.debt.kind = "None"
        BY <1>0, <3>2, <4>1, Constants DEF Works
      <4>3. FailedFinal(v) /\ DebtSound(v, g) /\ DepthCovers(v, g)
        BY <1>0, <2>1, <3>1, <3>4, <4>2 DEF FailedFinal, DebtSound, DepthCovers
      <4>4. g # <<>>
        BY <1>0, <2>1, <3>1, Constants
      <4>5. ScopeBacked(v, s, g)
        BY <1>2, <2>1, <4>2, <4>4 DEF Sound, ScopeBacked
      <4>6. SavesSound(v, s, g)
        <5>1. ASSUME s.failed = "None", NEW k \in 1 .. n
              PROVE  /\ s.saves[k] \in 1 .. v.depth /\ s.saves[k] + Len(g) >= v.depth + 2
                     /\ v.debt.kind = "Save" => s.saves[k] < v.debt.target
          <6>1. /\ s.saves[k] \in 1 .. w.depth /\ s.saves[k] + Len(f) >= w.depth + 2
                /\ s.saves[k] < w.debt.target
            BY <2>2, <5>1
          <6>2. s.saves[k] \in 1 .. w.depth - 1 /\ s.saves[k] + (Len(f) - 1) >= w.depth - 1 + 2
            <7>1. w.depth \in Nat /\ Len(f) \in Nat /\ w.debt.target \in 1 .. w.depth
              BY <1>0, <2>1
            <7> QED
              BY <6>1, <7>1, Shrunk, Zenon
          <6> QED
            BY <3>1, <4>2, <6>1, <6>2
        <5> QED
          BY <2>2, <5>1 DEF SavesSound
      <4> QED
        BY <1>0, <3>1, <4>2, <4>3, <4>5, <4>6 DEF Sound, Typed, v, g
    <3> QED
      BY <3>3, <3>4
  <2> QED
    BY <2>3, <2>4
<1> QED
  BY <1>1, <1>2

-----------------------------------------------------------------------------
(* Each action keeps the invariant *)

(* Who makes a call, and what it may assume of its scope.                  *)
LEMMA Calling ==
    ASSUME WorkInv, call # NoCall
    PROVE  /\ call.op \in Ops /\ Consumes(call.op, scope) /\ Borrowed /\ conn # "Retired"
           /\ Sound(work, scope, frames)
<1>1. call.op \in Ops \cup {"None"} /\ call.op # "None" /\ Borrowed /\ call.op \in Available
  BY DEF WorkInv, CallOwns, TypeOK
<1>2. conn # "Retired"
  BY <1>1 DEF Borrowed
<1>3. Consumes(call.op, scope)
  BY <1>1 DEF Available, Consumes
<1> QED
  BY <1>1, <1>2, <1>3 DEF WorkInv

(* A call that runs its statement owes nothing and has not failed.         *)
LEMMA Running ==
    ASSUME WorkInv, NEW op \in Ops, Steps(op)
    PROVE  /\ call # NoCall /\ call.op = op /\ work.debt.kind = "None"
           /\ work.health = "Healthy" /\ (Within(op, scope) => scope.failed = "None")
           /\ Consumes(op, scope) /\ Borrowed /\ Sound(work, scope, frames)
<1>1. call.op = op /\ op # "None"
  BY DEF Steps, Ops
<1>2. call # NoCall
  BY <1>1 DEF NoCall
<1>3. Consumes(op, scope) /\ Borrowed /\ Sound(work, scope, frames)
  BY <1>1, <1>2, Calling
<1>4. CASE Runs
  <2>1. ~Owed /\ ~Blocked(op) /\ work.health = "Healthy"
    BY <1>1, <1>4 DEF Runs
  <2>2. work.debt.kind \in {"None", "Tx", "Save", "Failed"}
    BY <1>3 DEF Sound, Typed, Works, Debts
  <2> QED
    BY <1>1, <1>2, <1>3, <2>1, <2>2 DEF Owed, Blocked, Sound, FailedFinal
<1>5. CASE call.stage \in {"Wait", "Rows"}
  BY <1>1, <1>2, <1>3, <1>5 DEF WorkInv, CallClean
<1> QED
  BY <1>4, <1>5 DEF Steps

(* The call returns, and its caller still borrows the connection.          *)
LEMMA Returned ==
    ASSUME WorkInv, Borrowed, call' = NoCall, conn' = conn, durable' \subseteq Writes,
           Sound(work, scope, frames)'
    PROVE  WorkInv'
<1>1. NoCall \in [op : Ops \cup {"None"}, stage : {"Start", "Loop", "Wait", "Rows"}]
  BY DEF NoCall
<1>2. TypeOK'
  BY <1>1 DEF WorkInv, TypeOK, Sound, Typed, Works, Debts, Live, Native
<1>3. CallOwns'
  BY DEF CallOwns, Borrowed
<1>4. CallClean'
  BY DEF CallClean, NoCall
<1>5. work'.debt.kind = "Save" => work'.debt.target \in 1 .. work'.depth
  BY DEF Sound, DebtSound
<1> QED
  BY <1>2, <1>3, <1>4, <1>5 DEF WorkInv, Borrowed

(* The call goes on, in the scope it borrows.                              *)
LEMMA GoesOn ==
    ASSUME WorkInv, call # NoCall, conn' = conn, durable' \subseteq Writes,
           NEW stage \in {"Start", "Loop", "Wait", "Rows"},
           call' = [call EXCEPT !.stage = stage],
           scope'.tx = scope.tx, scope'.saves = scope.saves,
           Sound(work, scope, frames)', CallClean'
    PROVE  WorkInv'
<1>1. call \in [op : Ops \cup {"None"}, stage : {"Start", "Loop", "Wait", "Rows"}]
  BY DEF WorkInv, TypeOK
<1>2. /\ call' \in [op : Ops \cup {"None"}, stage : {"Start", "Loop", "Wait", "Rows"}]
      /\ call'.op = call.op
  BY <1>1
<1>3. TypeOK'
  BY <1>2 DEF WorkInv, TypeOK, Sound, Typed, Works, Debts, Live, Native
<1>4. CallOwns'
  <2>1. call.op \in Available /\ Borrowed /\ call.op # "None"
    BY DEF WorkInv, CallOwns
  <2>2. Available' = Available /\ Borrowed' = Borrowed
    BY DEF Available, Borrowed
  <2> QED
    BY <1>2, <2>1, <2>2 DEF CallOwns
<1>5. work'.debt.kind = "Save" => work'.debt.target \in 1 .. work'.depth
  BY DEF Sound, DebtSound
<1>6. conn' # "Retired"
  BY Calling
<1> QED
  BY <1>3, <1>4, <1>5, <1>6 DEF WorkInv

LEMMA AskInv ==
    ASSUME WorkInv, NEW op \in Ops, Ask(op)
    PROVE  WorkInv'
<1>1. /\ Borrowed /\ call = NoCall /\ op \in Available /\ conn # "Retired"
      /\ Sound(work, scope, frames) /\ Consumes(op, scope)
  BY DEF Ask, Borrowed, WorkInv, Available, Consumes
<1>2. durable' \subseteq Writes /\ conn' = conn /\ frames' = frames
  BY DEF Ask, WorkInv, TypeOK
<1>3. CASE Barred(op) /\ Leaves(Dropped(op, work, scope)) /\ UNCHANGED call
  <2>1. Sound(work', scope', frames)
    BY <1>1, <1>3, DroppedSound DEF Leaves
  <2> QED
    BY <1>1, <1>2, <1>3, <2>1, Returned
<1>4. CASE call' = [op |-> op, stage |-> "Start"] /\ UNCHANGED <<work, scope>>
  <2>1. call' \in [op : Ops \cup {"None"}, stage : {"Start", "Loop", "Wait", "Rows"}]
    BY <1>4
  <2>2. TypeOK'
    BY <1>2, <1>4, <2>1 DEF WorkInv, TypeOK
  <2>3. op # "None"
    BY DEF Ops
  <2>4. CallOwns' /\ CallClean'
    BY <1>1, <1>2, <1>4, <2>3 DEF CallOwns, CallClean, Available, Borrowed
  <2> QED
    BY <1>1, <1>2, <1>4, <2>2, <2>4 DEF WorkInv
<1> QED
  BY <1>3, <1>4 DEF Ask

LEMMA RefuseInv ==
    ASSUME WorkInv, Refuse
    PROVE  WorkInv'
<1>1. call # NoCall /\ call' = NoCall /\ UNCHANGED <<conn, frames, durable>> /\ ~Owed
  BY DEF Refuse, Starts
<1>2. Consumes(call.op, scope) /\ Borrowed /\ Sound(work, scope, frames)
  BY <1>1, Calling
<1> DEFINE told == IF ~Blocked(call.op) /\ work.health = "Recoverable"
                   THEN [work EXCEPT !.health = "Healthy"] ELSE work
<1>3. Leaves(Ended(call.op, told, scope, frames))
  BY DEF Refuse
<1>4. /\ told \in Works /\ told.debt = work.debt /\ told.depth = work.depth
      /\ told.health = work.health \/ (work.health = "Recoverable" /\ told.health = "Healthy")
  BY <1>2 DEF Sound, Typed, Works
<1> HIDE DEF told
<1>5. Sound(told, scope, frames)
  BY <1>2, <1>4 DEF Sound, Typed, FailedFinal, DebtSound, ScopeBacked, SavesSound, DepthCovers
<1>6. Sound(work', scope', frames)
  BY <1>2, <1>3, <1>5, EndedSound DEF Leaves
<1> QED
  BY <1>1, <1>2, <1>6, Returned DEF WorkInv, TypeOK

LEMMA IdleSound ==
    ASSUME NEW w, NEW s, NEW f, Sound(w, s, f)
    PROVE  /\ Sound(Idle(w), s, f) /\ Idle(w).debt = w.debt /\ Idle(w).health = w.health
           /\ Idle(w).depth = w.depth
BY Metered DEF Idle

LEMMA StepBeginInv ==
    ASSUME WorkInv, StepBegin
    PROVE  WorkInv'
<1> DEFINE s == [NoScope EXCEPT !.tx = TRUE]
           g == <<{}>>
<1>1. /\ work.debt.kind = "None" /\ Consumes("Begin", scope) /\ Borrowed
      /\ Sound(work, scope, frames)
  BY Running DEF StepBegin, Ops
<1>2. /\ work' = Idle(work) /\ scope' = s /\ frames' = g /\ call' = NoCall
      /\ UNCHANGED <<conn, durable>>
  BY DEF StepBegin
<1>3. /\ work' \in Works /\ FailedFinal(work') /\ work'.debt.kind = "None"
      /\ work'.depth = work.depth /\ work.depth \in Nat
  <2>1. work \in Works /\ Sound(Idle(work), scope, frames)
    BY <1>1, IdleSound DEF Sound, Typed
  <2>2. Idle(work) \in Works /\ FailedFinal(Idle(work))
    BY <2>1 DEF Sound, Typed
  <2>3. work.depth \in Nat
    BY <2>1, Constants DEF Works
  <2> QED
    BY <1>1, <1>2, <2>2, <2>3, IdleSound
<1>4. s \in Live /\ s.tx
  <2>1. NoScope \in Live
    BY Constants
  <2>2. [NoScope EXCEPT !.tx = TRUE] \in Live
    BY <2>1, Zenon DEF Live
  <2>3. [NoScope EXCEPT !.tx = TRUE].tx
    BY <2>1, Zenon DEF Live
  <2> QED
    BY <2>2, <2>3
<1>5. s.saves = <<>> /\ s.failed = "None"
  BY Constants DEF Live
<1>6. g \in Native /\ Len(g) = 1 /\ g # <<>>
  <2>1. g \in Seq(SUBSET Writes) /\ Len(g) = 1 /\ g # <<>>
    OBVIOUS
  <2> QED
    BY <2>1, Constants DEF Native
<1> HIDE DEF s, g
<1>7. Sound(work', s, g)
  BY <1>3, <1>4, <1>5, <1>6, Constants
     DEF Sound, Typed, DebtSound, ScopeBacked, SavesSound, DepthCovers
<1> QED
  BY <1>1, <1>2, <1>7, Returned DEF WorkInv, TypeOK

LEMMA StepEndInv ==
    ASSUME WorkInv, StepCommit \/ StepRollback
    PROVE  WorkInv'
<1>1. PICK op \in {"Commit", "Rollback"} :
        /\ Steps(op) /\ frames' = <<>> /\ call' = NoCall /\ conn' = conn
        /\ Leaves(Ended(op, Idle(work), scope, <<>>))
  BY DEF StepCommit, StepRollback
<1>2. work.debt.kind = "None" /\ Borrowed /\ Sound(work, scope, frames)
  BY <1>1, Running DEF Ops
<1>3. Idle(work) \in Works /\ FailedFinal(Idle(work)) /\ Idle(work).debt.kind = "None"
  BY <1>2, IdleSound DEF Sound, Typed
<1>4. Sound([Idle(work) EXCEPT !.depth = 0], NoScope, <<>>)
  BY <1>3, EndedEmpty
<1>5. work' = [Idle(work) EXCEPT !.depth = 0] /\ scope' = NoScope
  BY <1>1 DEF Leaves, Ended
<1>6. durable' \subseteq Writes
  <2>1. frames \in Seq(SUBSET Writes) /\ durable \subseteq Writes
    BY DEF WorkInv, TypeOK
  <2>2. UNION {frames[i] : i \in DOMAIN frames} \subseteq Writes
    BY <2>1
  <2> QED
    BY <2>1, <2>2 DEF StepCommit, StepRollback
<1> QED
  BY <1>1, <1>2, <1>4, <1>5, <1>6, Returned

LEMMA StepOpenInv ==
    ASSUME WorkInv, StepOpen
    PROVE  WorkInv'
<1>1. /\ work.debt.kind = "None" /\ Consumes("Open", scope) /\ Borrowed
      /\ Sound(work, scope, frames) /\ call' = NoCall /\ UNCHANGED <<conn, durable>>
  BY Running DEF StepOpen, Ops
<1>2. CASE UNCHANGED <<work, scope, frames>>
  BY <1>1, <1>2, Returned DEF WorkInv, TypeOK
<1>3. CASE /\ Admits /\ frames # <<>> /\ frames' = Append(frames, {})
           /\ work' = [Idle(work) EXCEPT !.depth = @ + 1]
           /\ scope' = [scope EXCEPT !.saves = Append(@, work.depth + 1)]
  <2> DEFINE w == Idle(work)
  <2>1. Sound(w, scope, frames) /\ w.debt.kind = "None" /\ w.depth = work.depth
    BY <1>1, IdleSound
  <2>2. scope.tx /\ w.depth < MaxSave
    BY <1>1, <1>3, <2>1 DEF Consumes, Admits
  <2> HIDE DEF w
  <2>3. Sound([w EXCEPT !.depth = @ + 1],
              [scope EXCEPT !.saves = Append(@, w.depth + 1)], Append(frames, {}))
    BY <1>3, <2>1, <2>2, OpenSound
  <2>4. Sound(work', scope', frames')
    BY <1>3, <2>1, <2>3 DEF w
  <2> QED
    BY <1>1, <2>4, Returned DEF WorkInv, TypeOK
<1> QED
  BY <1>2, <1>3 DEF StepOpen

LEMMA StepReleaseInv ==
    ASSUME WorkInv, StepRelease
    PROVE  WorkInv'
<1> DEFINE w == Idle(work)
<1>1. /\ call # NoCall /\ call.op = "Release"
      /\ work.debt.kind = "None" /\ Consumes("Release", scope) /\ Borrowed
      /\ Sound(work, scope, frames) /\ UNCHANGED <<conn, durable>>
      /\ Within("Release", scope) => scope.failed = "None"
  BY Running DEF StepRelease, Ops
<1>2. scope.tx /\ scope.saves # <<>> /\ scope.failed = "None"
  BY <1>1 DEF Consumes, Within
<1>3. Sound(w, scope, frames) /\ w.debt.kind = "None" /\ w.depth = work.depth
  BY <1>1, IdleSound
<1>4. /\ Len(frames) > 1 /\ frames' = Released(frames)
      /\ work' = [w EXCEPT !.depth = @ - 1]
      /\ \/ work.depth = Last(scope.saves) /\ scope' = [scope EXCEPT !.saves = Front(@)]
            /\ call' = NoCall
         \/ work.depth # Last(scope.saves) /\ scope' = scope
            /\ call' = [call EXCEPT !.stage = "Loop"]
  BY DEF StepRelease, Reached
<1> HIDE DEF w
<1>5. /\ w.depth # Last(scope.saves) => Sound(work', scope, frames')
      /\ w.depth = Last(scope.saves) =>
            Sound(work', [scope EXCEPT !.saves = Front(@)], frames')
  BY <1>2, <1>3, <1>4, CloseSound
<1>6. Sound(work', scope', frames') /\ durable' \subseteq Writes
  BY <1>1, <1>3, <1>4, <1>5 DEF WorkInv, TypeOK
<1>7. CASE call' = NoCall
  BY <1>1, <1>6, <1>7, Returned
<1>8. CASE scope' = scope /\ call' = [call EXCEPT !.stage = "Loop"]
  <2>1. CallClean'
    BY <1>8 DEF CallClean, WorkInv, TypeOK
  <2> QED
    BY <1>1, <1>6, <1>8, <2>1, GoesOn
<1> QED
  BY <1>4, <1>7, <1>8

LEMMA StepRollbackToInv ==
    ASSUME WorkInv, StepRollbackTo
    PROVE  WorkInv'
<1> DEFINE w == Idle(work)
<1>1. /\ call # NoCall /\ call.op = "RollbackTo"
      /\ work.debt.kind = "None" /\ Consumes("RollbackTo", scope) /\ Borrowed
      /\ Sound(work, scope, frames) /\ UNCHANGED <<scope, conn, durable>>
      /\ Within("RollbackTo", scope) => scope.failed = "None"
  BY Running DEF StepRollbackTo, Ops
<1>2. scope.tx /\ scope.saves # <<>> /\ scope.failed = "None" /\ durable' \subseteq Writes
  BY <1>1 DEF Consumes, Within, WorkInv, TypeOK
<1>3. Sound(w, scope, frames) /\ w.debt.kind = "None" /\ w.depth = work.depth
  BY <1>1, IdleSound
<1>4. CASE Reached /\ frames' = Undone(frames) /\ work' = w /\ call' = NoCall
  <2>1. frames \in Native /\ frames # <<>> /\ {} \in SUBSET Writes
    BY Constants DEF StepRollbackTo, WorkInv, TypeOK, Native
  <2>2. frames' \in Native /\ Len(frames') = Len(frames)
    BY <1>4, <2>1, UndoneFrames, Zenon DEF Undone
  <2>3. Sound(work', scope', frames')
    BY <1>1, <1>3, <1>4, <2>2, SameDepth
  <2> QED
    BY <1>1, <1>2, <1>4, <2>3, Returned
<1>5. CASE /\ ~Reached /\ frames' = Released(frames)
           /\ work' = [w EXCEPT !.depth = @ - 1] /\ call' = [call EXCEPT !.stage = "Loop"]
  <2>1. w.depth # Last(scope.saves) /\ Len(frames) > 1
    BY <1>3, <1>5 DEF Reached, StepRollbackTo
  <2> HIDE DEF w
  <2>2. Sound(work', scope', frames')
    BY <1>1, <1>2, <1>3, <1>5, <2>1, CloseSound
  <2>3. CallClean'
    BY <1>5 DEF CallClean, WorkInv, TypeOK
  <2> QED
    BY <1>1, <1>2, <1>5, <2>2, <2>3, GoesOn
<1> QED
  BY <1>4, <1>5 DEF StepRollbackTo

LEMMA StepQueryInv ==
    ASSUME WorkInv, StepQuery
    PROVE  WorkInv'
<1>1. /\ call # NoCall /\ call.op = "Query"
      /\ work.debt.kind = "None" /\ work.health = "Healthy" /\ Borrowed
      /\ Sound(work, scope, frames) /\ UNCHANGED <<scope, conn>>
      /\ Within("Query", scope) => scope.failed = "None"
  BY Running DEF StepQuery, Ops
<1>2. durable \subseteq Writes /\ frames \in Native
  BY DEF WorkInv, TypeOK, Native
<1>3. CASE work' = Idle(work) /\ call' = NoCall /\ UNCHANGED <<frames, durable>>
  BY <1>1, <1>2, <1>3, IdleSound, Returned
<1>4. CASE /\ work' = [work EXCEPT !.mode = "Primary"]
           /\ call' = [call EXCEPT !.stage = "Rows"] /\ UNCHANGED <<frames, durable>>
  <2>1. Sound(work', scope', frames') /\ work'.debt = work.debt /\ work'.health = work.health
    BY <1>1, <1>4, Metered
  <2>2. call'.op = "Query"
    BY <1>1, <1>4 DEF WorkInv, TypeOK
  <2>3. CallClean'
    BY <1>1, <2>1, <2>2 DEF CallClean, Within
  <2> QED
    BY <1>1, <1>2, <1>4, <2>1, <2>3, GoesOn
<1>5. ASSUME NEW x \in Writes, work' = Idle(work), call' = NoCall,
             \/ frames = <<>> /\ durable' = durable \cup {x} /\ UNCHANGED frames
             \/ /\ frames # <<>> /\ UNCHANGED durable
                /\ frames' = [frames EXCEPT ![Len(frames)] = @ \cup {x}]
      PROVE  WorkInv'
  <2>1. frames' \in Native /\ Len(frames') = Len(frames) /\ durable' \subseteq Writes
    <3>1. CASE frames = <<>> /\ durable' = durable \cup {x} /\ UNCHANGED frames
      BY <1>2, <3>1
    <3>2. CASE /\ frames # <<>> /\ UNCHANGED durable
               /\ frames' = [frames EXCEPT ![Len(frames)] = @ \cup {x}]
      <4>1. frames[Len(frames)] \in SUBSET Writes
        BY <1>2, <3>2, UndoneFrames
      <4> DEFINE y == frames[Len(frames)] \cup {x}
      <4>2. y \in SUBSET Writes
        BY <4>1
      <4>3. frames' = [frames EXCEPT ![Len(frames)] = y]
        BY <3>2
      <4> HIDE DEF y
      <4> QED
        BY <1>2, <3>2, <4>2, <4>3, UndoneFrames
    <3> QED
      BY <1>5, <3>1, <3>2
  <2>2. Sound(work', scope', frames')
    BY <1>1, <1>5, <2>1, IdleSound, SameDepth
  <2> QED
    BY <1>1, <1>5, <2>1, <2>2, Returned
<1> QED
  BY <1>3, <1>4, <1>5 DEF StepQuery

LEMMA StepFailsInv ==
    ASSUME WorkInv, NEW native \in {frames, <<>>}, NEW busy \in BOOLEAN,
           StepFails(native, busy)
    PROVE  WorkInv'
<1> DEFINE op == call.op
           w == Idle(work)
           r == Faulted(op, w, scope, native, busy)
<1>1. /\ call # NoCall /\ Steps(op) /\ frames' = native /\ UNCHANGED <<conn, durable>>
      /\ busy => op # "Rollback"
      /\ \/ /\ Waits(op, r[2], native, busy)
            /\ work' = [r[1] EXCEPT !.mode = "Primary"] /\ scope' = r[2]
            /\ call' = [call EXCEPT !.stage = "Wait"]
         \/ Leaves(Ended(op, r[1], r[2], native)) /\ call' = NoCall
  BY DEF StepFails
<1>2. op \in Ops
  BY <1>1, Calling
<1>3. /\ work.debt.kind = "None" /\ work.health = "Healthy" /\ Consumes(op, scope) /\ Borrowed
      /\ Within(op, scope) => scope.failed = "None"
      /\ Sound(work, scope, frames) /\ durable' \subseteq Writes
  BY <1>1, <1>2, Running DEF WorkInv, TypeOK
<1>4. Sound(w, scope, frames) /\ w.debt.kind = "None" /\ w.health = "Healthy"
  BY <1>3, IdleSound
<1> HIDE DEF w, op, r
<1>5. CASE op # "Rollback"
  <2>1. /\ Sound(r[1], r[2], native) /\ r[1].health = "Healthy"
        /\ busy => r[1] = w
        /\ r[2].tx = scope.tx /\ r[2].saves = scope.saves
    BY <1>2, <1>3, <1>4, <1>5, FaultedSound DEF r
  <2>2. CASE Leaves(Ended(op, r[1], r[2], native)) /\ call' = NoCall
    <3>1. Consumes(op, r[2])
      BY <1>3, <2>1 DEF Consumes
    <3>2. Sound(work', scope', frames')
      BY <1>1, <2>1, <2>2, <3>1, EndedSound DEF Leaves
    <3> QED
      BY <1>1, <1>3, <2>2, <3>2, Returned
  <2>3. CASE /\ Waits(op, r[2], native, busy)
             /\ work' = [r[1] EXCEPT !.mode = "Primary"] /\ scope' = r[2]
             /\ call' = [call EXCEPT !.stage = "Wait"]
    <3>1. /\ Sound(work', scope', frames') /\ work'.debt = r[1].debt
          /\ work'.health = r[1].health
      BY <1>1, <2>1, <2>3, Metered
    <3>2. work'.debt.kind = "None" /\ work'.health = "Healthy"
      BY <1>4, <2>1, <2>3, <3>1 DEF Waits
    <3>3. call'.op = op /\ call'.stage = "Wait"
      BY <2>3 DEF op, WorkInv, TypeOK
    <3>4. CallClean'
      BY <2>3, <3>2, <3>3 DEF CallClean, Waits, Within
    <3> QED
      BY <1>1, <1>3, <2>1, <2>3, <3>1, <3>4, GoesOn
  <2> QED
    BY <1>1, <2>2, <2>3
<1>6. CASE op = "Rollback"
  <2>1. ~busy /\ scope.tx /\ Leaves(Ended(op, r[1], r[2], native)) /\ call' = NoCall
    BY <1>1, <1>3, <1>6 DEF Waits, Consumes
  <2>2. r[2] = scope
    BY <1>6 DEF r, Faulted, Within
  <2>3. w \in Works /\ FailedFinal(w) /\ OwingTx(w.debt) = TxDebt
    BY <1>4, Constants DEF Sound, Typed, OwingTx
  <2>4. CASE native = <<>>
    <3>1. r[1] = w
      BY <2>4 DEF r, Faulted
    <3>2. work' = [w EXCEPT !.depth = 0] /\ scope' = NoScope
      BY <1>6, <2>1, <2>4, <3>1 DEF Leaves, Ended
    <3>3. Sound(work', scope', frames')
      BY <1>1, <1>4, <2>3, <2>4, <3>2, EndedEmpty
    <3> QED
      BY <1>1, <1>3, <2>1, <3>3, Returned
  <2>5. CASE native # <<>>
    <3>1. r[1] = [w EXCEPT !.debt = TxDebt]
      BY <1>6, <2>1, <2>3, <2>5 DEF r, Faulted, Works
    <3>2. scope.failed # "Aborted" /\ native = frames
      BY <1>4, <2>1, <2>5 DEF Sound, ScopeBacked
    <3>3. work' = TxReturn(r[1], scope.failed) /\ scope' = NoScope
      BY <1>6, <2>1, <2>2, <2>5 DEF Leaves, Ended, Dropped
    <3>4. /\ r[1] \in Works /\ r[1].debt = TxDebt /\ r[1].health = "Healthy"
          /\ work' = [r[1] EXCEPT !.debt = TxDebt]
      BY <1>4, <2>3, <3>1, <3>2, <3>3, Constants DEF Works, TxReturn, OwingTx
    <3>5. work' \in Works /\ work'.debt = TxDebt /\ work'.health = "Healthy"
      BY <3>4, Constants DEF Works
    <3>6. native \in Native
      BY <1>4, <3>2 DEF Sound, Typed
    <3>7. Sound(work', scope', frames')
      BY <1>1, <2>5, <3>3, <3>5, <3>6, Constants
         DEF Sound, Typed, FailedFinal, DebtSound, ScopeBacked, SavesSound, DepthCovers
    <3> QED
      BY <1>1, <1>3, <2>1, <3>7, Returned
  <2> QED
    BY <2>4, <2>5
<1> QED
  BY <1>5, <1>6

LEMMA CancelInv ==
    ASSUME WorkInv, NEW native \in {frames, <<>>}, NEW ok \in BOOLEAN, Cancel(native, ok)
    PROVE  WorkInv'
<1> DEFINE op == call.op
           idle == IF call.stage = "Start" THEN work ELSE Idle(work)
<1>1. PICK health \in {work.health, "Recoverable"} :
        LET after == IF ok THEN <<idle, scope>>
                     ELSE Faulted(op, [idle EXCEPT !.health = health], scope, native, FALSE)
        IN Leaves(Dropped(op, after[1], after[2]))
  BY DEF Cancel
<1> DEFINE v == [idle EXCEPT !.health = health]
           r == Faulted(op, v, scope, native, FALSE)
<1>2. /\ call # NoCall /\ call' = NoCall /\ UNCHANGED <<conn, durable>> /\ frames' = native
      /\ ok => native = frames
      /\ ~ok => call.stage = "Rows"
  BY DEF Cancel
<1>3. /\ Consumes(op, scope) /\ Borrowed /\ Sound(work, scope, frames)
      /\ durable' \subseteq Writes /\ op \in Ops
  BY <1>2, Calling DEF WorkInv, TypeOK
<1>4. Sound(idle, scope, frames) /\ idle.debt = work.debt /\ idle.health = work.health
  BY <1>3, IdleSound
<1>5. CASE ok
  <2>1. Leaves(Dropped(op, idle, scope))
    BY <1>1, <1>5
  <2> HIDE DEF idle, op
  <2>2. Sound(work', scope', frames')
    BY <1>2, <1>3, <1>4, <1>5, <2>1, DroppedSound DEF Leaves
  <2> QED
    BY <1>2, <1>3, <2>2, Returned
<1>6. CASE ~ok
  <2>1. /\ op = "Query" /\ work.debt.kind = "None" /\ work.health = "Healthy"
        /\ Within(op, scope) => scope.failed = "None"
    BY <1>2, <1>6 DEF WorkInv, CallClean
  <2>2. Leaves(Dropped(op, r[1], r[2]))
    BY <1>1, <1>6
  <2> HIDE DEF idle, op
  <2>3. v \in Works /\ v.debt = work.debt /\ v.depth = idle.depth /\ v.health # "Failed"
    BY <1>1, <1>4, <2>1 DEF Sound, Typed, Works
  <2> HIDE DEF v
  <2>4. Sound(v, scope, frames)
    BY <1>4, <2>1, <2>3 DEF Sound, Typed, FailedFinal, DebtSound, ScopeBacked, SavesSound,
                            DepthCovers
  <2>5. Sound(r[1], r[2], native)
    <3>1. op # "Rollback" /\ v.debt.kind = "None" /\ FALSE \in BOOLEAN
      BY <2>1, <2>3
    <3>2. \A b \in BOOLEAN : Sound(Faulted(op, v, scope, native, b)[1],
                                   Faulted(op, v, scope, native, b)[2], native)
      BY <1>3, <2>1, <2>4, <3>1, FaultedSound
    <3> QED
      BY <3>1, <3>2, Zenon
  <2> HIDE DEF r
  <2>6. work' = r[1] /\ scope' = r[2]
    BY <2>1, <2>2 DEF Leaves, Dropped
  <2> QED
    BY <1>2, <1>3, <2>5, <2>6, Returned
<1> QED
  BY <1>5, <1>6

LEMMA ForgetInv ==
    ASSUME WorkInv, Forget \/ ForgetScope
    PROVE  WorkInv'
<1>1. /\ call # NoCall \/ scope.tx
      /\ call' = NoCall /\ UNCHANGED <<work, conn, frames, durable>>
  BY DEF Forget, ForgetScope
<1>2. Borrowed /\ Sound(work, scope, frames) /\ durable' \subseteq Writes
  BY <1>1 DEF WorkInv, TypeOK, CallOwns, Borrowed
<1>3. scope' = scope \/ (scope.tx /\ scope' = Outer(scope))
  <2>1. CASE ForgetScope
    BY <2>1 DEF ForgetScope
  <2>2. CASE Forget
    <3>1. Consumes(call.op, scope)
      BY <2>2, Calling DEF Forget
    <3> QED
      BY <2>2, <3>1 DEF Forget, Consumes
  <2> QED
    BY <2>1, <2>2
<1>4. Sound(work', scope', frames')
  BY <1>1, <1>2, <1>3, OuterSound
<1> QED
  BY <1>1, <1>2, <1>4, Returned

LEMMA DropScopeInv ==
    ASSUME WorkInv, DropScope
    PROVE  WorkInv'
<1>1. scope.tx /\ call = NoCall /\ call' = NoCall /\ UNCHANGED <<conn, frames, durable>>
  BY DEF DropScope
<1>2. Borrowed /\ Sound(work, scope, frames) /\ durable' \subseteq Writes
  BY <1>1 DEF WorkInv, TypeOK, CallOwns, Borrowed
<1>3. PICK op \in {"Rollback", "Release"} :
        Leaves(Dropped(op, work, scope)) /\ Consumes(op, scope)
  BY <1>1 DEF DropScope, Consumes
<1>4. Sound(work', scope', frames')
  BY <1>1, <1>2, <1>3, DroppedSound DEF Leaves
<1> QED
  BY <1>1, <1>2, <1>4, Returned

(* Cleanup changes what is owed and SQLite's transaction only.             *)
LEMMA Cleaned ==
    ASSUME WorkInv, UNCHANGED <<scope, call, conn, durable>>, Sound(work', scope, frames'),
           call = NoCall \/ call.stage \in {"Start", "Loop"}
    PROVE  WorkInv'
<1>1. TypeOK'
  BY DEF WorkInv, TypeOK, Sound, Typed, Works, Debts, Live, Native
<1>2. CallOwns'
  BY DEF WorkInv, CallOwns, Available, Borrowed
<1>3. CallClean'
  BY DEF CallClean, NoCall
<1>4. work'.debt.kind = "Save" => work'.debt.target \in 1 .. work'.depth
  BY DEF Sound, DebtSound
<1> QED
  BY <1>1, <1>2, <1>3, <1>4 DEF WorkInv

LEMMA Parked ==
    ASSUME WorkInv, Parks \/ Unused
    PROVE  conn # "Retired" => call = NoCall /\ ~scope.tx /\ scope = NoScope
<1>1. Parks => ~Borrowed
  BY DEF Parks, Borrowed
<1> QED
  BY <1>1 DEF WorkInv, CallOwns, Unused, Sound, ScopeBacked

LEMMA CleanupInv ==
    ASSUME WorkInv, NEW native \in {frames, <<>>},
           CallPays \/ CallFails(native) \/ ParkPays \/ ParkFails(native)
    PROVE  WorkInv'
<1>1. CASE CallPays \/ ParkPays
  <2>1. /\ Sound(work, scope, frames) /\ UNCHANGED <<scope, call, conn, durable>> /\ Paid
        /\ call = NoCall \/ call.stage \in {"Start", "Loop"}
    <3>1. CASE CallPays
      BY <3>1, Calling DEF CallPays, Starts
    <3>2. CASE ParkPays
      BY <3>2, Parked DEF ParkPays, Parks, WorkInv
    <3> QED
      BY <1>1, <3>1, <3>2
  <2>2. work' = Complete(work) /\ frames' = Settled(work, frames)
    BY <2>1 DEF Paid, Settled
  <2>3. Sound(work', scope, frames')
    BY <2>1, <2>2, CompleteSound DEF Paid, Owed
  <2> QED
    BY <2>1, <2>3, Cleaned
<1>2. CASE CallFails(native)
  <2>1. /\ call # NoCall /\ call' = NoCall /\ UNCHANGED <<conn, durable>> /\ frames' = native
        /\ Leaves(Ended(call.op, FailCleanup(work), scope, native))
    BY <1>2 DEF CallFails, Starts
  <2>2. Sound(work, scope, frames) /\ Consumes(call.op, scope) /\ Borrowed
    BY <2>1, Calling
  <2>3. Sound(FailCleanup(work), scope, native)
    BY <2>2, FailCleanupSound
  <2>4. Sound(work', scope', frames')
    BY <2>1, <2>2, <2>3, EndedSound DEF Leaves
  <2> QED
    BY <2>1, <2>2, <2>4, Returned DEF WorkInv, TypeOK
<1>3. CASE ParkFails(native)
  <2>1. /\ Parks /\ frames' = native /\ work' = FailCleanup(work)
        /\ UNCHANGED <<scope, call, conn, durable>>
    BY <1>3 DEF ParkFails
  <2>2. Sound(work, scope, frames) /\ call = NoCall
    BY <2>1, Parked DEF Parks, WorkInv
  <2>3. Sound(work', scope, frames')
    BY <2>1, <2>2, FailCleanupSound
  <2> QED
    BY <2>1, <2>2, <2>3, Cleaned
<1> QED
  BY <1>1, <1>2, <1>3

LEMMA ConnInv ==
    ASSUME WorkInv, Provide \/ DropConnection \/ Stop \/ Release \/ Retire \/ ForcePhase
    PROVE  WorkInv'
<1>1. /\ conn # "Retired" /\ Sound(work, scope, frames) /\ UNCHANGED <<scope, call, durable>>
      /\ conn' \in {"Vacant", "Borrowed", "Stopping", "Closed", "Closing", "Retired"}
  BY DEF Provide, DropConnection, Stop, Release, Retire, ForcePhase, Borrowed, WorkInv
<1>2. CASE Provide \/ Stop \/ DropConnection
  <2>1. UNCHANGED <<work, frames>>
    BY <1>2 DEF Provide, Stop, DropConnection
  <2>2. call # NoCall \/ scope.tx => Borrowed'
    BY <1>2 DEF Provide, Stop, DropConnection, Borrowed, Unused, WorkInv, CallOwns
  <2>3. TypeOK' /\ CallClean'
    BY <1>1, <2>1 DEF WorkInv, TypeOK, CallClean, Within
  <2>4. CallOwns'
    BY <1>1, <2>2 DEF WorkInv, CallOwns, Available
  <2> QED
    BY <1>1, <1>2, <2>1, <2>3, <2>4 DEF WorkInv, Provide, Stop, DropConnection
<1>3. CASE Release \/ Retire \/ ForcePhase
  <2>1. call = NoCall /\ ~scope.tx /\ scope = NoScope
    BY <1>1, <1>3, Parked DEF Release, Retire, ForcePhase, Parks
  <2>2. CallOwns' /\ CallClean'
    BY <1>1, <2>1 DEF CallOwns, CallClean, NoCall
  <2>3. CASE Release
    <3>1. frames' = frames /\ conn' = "Closing"
      BY <2>3 DEF Release
    <3>2. CASE ~Owed
      <4>1. work' = work
        BY <2>3, <3>2 DEF Release
      <4> QED
        BY <1>1, <2>2, <3>1, <4>1 DEF WorkInv, TypeOK
    <3>3. CASE Owed
      <4>1. work.debt # Failed /\ work \in Works /\ frames \in Native /\ NoScope \in Live
        BY <1>1, <3>3, Constants DEF Owed, Sound, Typed
      <4>2. work' = [work EXCEPT !.debt = TxDebt]
        BY <2>3, <3>3, <4>1 DEF Release, OwingTx, Works
      <4>3. work' \in Works /\ work'.debt = TxDebt /\ work'.health = work.health
        BY <4>1, <4>2, Constants DEF Works
      <4>4. frames # <<>> /\ work.health # "Failed"
        BY <1>1, <3>3, <4>1, Constants DEF Owed, Sound, DebtSound, FailedFinal, Works, Debts
      <4>5. Sound(work', NoScope, frames)
        BY <4>1, <4>3, <4>4, Constants
           DEF Sound, Typed, FailedFinal, DebtSound, ScopeBacked, SavesSound, DepthCovers
      <4>6. TypeOK'
        BY <1>1, <3>1, <4>3 DEF WorkInv, TypeOK, Works, Debts
      <4> QED
        BY <1>1, <2>1, <2>2, <3>1, <4>3, <4>5, <4>6, Constants DEF WorkInv
    <3> QED
      BY <3>2, <3>3
  <2>4. CASE Retire \/ ForcePhase
    <3>1. conn' = "Retired" /\ frames' = <<>> /\ (work' = work \/ work' = Idle(work))
      BY <2>4 DEF Retire, ForcePhase
    <3>2. Sound(work', scope, frames)
      BY <1>1, <3>1, IdleSound
    <3>3. TypeOK'
      BY <1>1, <3>1, <3>2, EmptyNative DEF Sound, Typed, WorkInv, TypeOK, Works, Debts, Native
    <3>4. work'.debt.kind = "Save" => work'.debt.target \in 1 .. work'.depth
      BY <3>2 DEF Sound, DebtSound
    <3> QED
      BY <1>1, <2>1, <2>2, <3>1, <3>3, <3>4 DEF WorkInv
  <2> QED
    BY <1>3, <2>3, <2>4
<1> QED
  BY <1>2, <1>3

-----------------------------------------------------------------------------
(* Theorems *)

LEMMA WorkInit == Init => WorkInv
<1> SUFFICES ASSUME Init PROVE WorkInv
  OBVIOUS
<1>0. 0 \in 0 .. MaxSave
  BY Constants
<1>1. work \in Works /\ work.debt.kind = "None" /\ work.health = "Healthy" /\ work.depth = 0
  BY <1>0, Constants DEF Init, Works
<1>2. Sound(work, scope, frames)
  BY <1>1, Constants, EmptyNative
     DEF Init, Sound, Typed, FailedFinal, DebtSound, ScopeBacked, SavesSound, DepthCovers
<1>3. TypeOK
  BY <1>2, Constants DEF Init, Sound, Typed, TypeOK, Works, Debts, Live, Native, NoCall
<1>4. CallOwns /\ CallClean
  BY Constants DEF Init, CallOwns, CallClean, NoCall
<1> QED
  BY <1>1, <1>2, <1>3, <1>4 DEF WorkInv, Init

LEMMA WorkStep == WorkInv /\ [Next]_vars => WorkInv'
<1> SUFFICES ASSUME WorkInv, [Next]_vars PROVE WorkInv'
  OBVIOUS
<1>1. CASE UNCHANGED vars
  BY <1>1 DEF vars, WorkInv, TypeOK, CallOwns, CallClean, Available, Borrowed, Within
<1>2. ASSUME NEW op \in Ops, Ask(op) PROVE WorkInv'
  BY <1>2, AskInv
<1>3. CASE Refuse
  BY <1>3, RefuseInv
<1>4. CASE StepBegin
  BY <1>4, StepBeginInv
<1>5. CASE StepCommit \/ StepRollback
  BY <1>5, StepEndInv
<1>6. CASE StepOpen
  BY <1>6, StepOpenInv
<1>7. CASE StepRelease
  BY <1>7, StepReleaseInv
<1>8. CASE StepRollbackTo
  BY <1>8, StepRollbackToInv
<1>9. CASE StepQuery
  BY <1>9, StepQueryInv
<1>10. ASSUME NEW native \in {frames, <<>>}, CallFails(native) PROVE WorkInv'
  BY <1>10, CleanupInv
<1>11. ASSUME NEW native \in {frames, <<>>}, NEW b \in BOOLEAN, StepFails(native, b)
       PROVE  WorkInv'
  BY <1>11, StepFailsInv
<1>12. ASSUME NEW native \in {frames, <<>>}, NEW b \in BOOLEAN, Cancel(native, b)
       PROVE  WorkInv'
  BY <1>12, CancelInv
<1>13. CASE Forget \/ ForgetScope
  BY <1>13, ForgetInv
<1>14. CASE DropScope
  BY <1>14, DropScopeInv
<1>15. CASE CallPays \/ ParkPays
  BY <1>15, CleanupInv
<1>16. ASSUME NEW native \in {frames, <<>>}, ParkFails(native) PROVE WorkInv'
  BY <1>16, CleanupInv
<1>17. CASE Provide \/ DropConnection \/ Stop \/ Release \/ Retire \/ ForcePhase
  BY <1>17, ConnInv
<1> QED
  BY <1>1, <1>2, <1>3, <1>4, <1>5, <1>6, <1>7, <1>8, <1>9, <1>10, <1>11, <1>12, <1>13,
     <1>14, <1>15, <1>16, <1>17 DEF Next, Park

(* The unchecked savepoint counts and the debts of a dropped scope are     *)
(* ones that SQLite can settle, through failed, dropped and forgotten      *)
(* calls, however many savepoints the configuration allows.                *)
THEOREM WorkSoundCorrect == Spec => []WorkSound
<1>1. WorkInv => WorkSound
  <2> SUFFICES ASSUME WorkInv PROVE WorkSound
    OBVIOUS
  <2>1. DebtIssuable
    <3> SUFFICES ASSUME Owed, conn # "Retired" PROVE Issuable
      BY DEF DebtIssuable
    <3>1. Sound(work, scope, frames)
      BY DEF WorkInv
    <3> QED
      BY <3>1, Constants DEF Owed, Issuable, Sound, Typed, DebtSound, Works, Debts, Native
  <2>2. TypeOK
    BY DEF WorkInv
  <2>3. ASSUME scope.saves # <<>>, scope.failed = "None", work.health # "Failed",
               work.debt.kind # "Tx"
        PROVE  Last(scope.saves) \in 1 .. work.depth
    <3>1. scope.saves \in Seq(1 .. MaxSave)
      BY <2>2 DEF TypeOK
    <3>2. Len(scope.saves) \in 1 .. Len(scope.saves)
      BY <2>3, <3>1
    <3>3. conn # "Retired"
      BY <2>3, Constants DEF WorkInv
    <3> QED
      BY <2>3, <3>2, <3>3 DEF WorkInv, Sound, SavesSound, FailedFinal, Typed, Works, Debts, Last
  <2> QED
    BY <2>1, <2>2, <2>3 DEF WorkSound, ReleaseSound, WorkInv
<1> QED
  BY <1>1, WorkInit, WorkStep, PTL DEF Spec

-----------------------------------------------------------------------------
(* The frames of each scope *)

(* The writes of the frames from the a-th to the b-th.                     *)
Part(f, a, b) == UNION {f[i] : i \in a .. b}

(* The last frame of the k-th live scope.                                  *)
LastKept(w, f) ==
    IF w.debt.kind = "Save" THEN FrameOf(w, f, w.debt.target) - 1 ELSE Len(f)
EndOf(w, s, f, k) ==
    IF k <= Len(s.saves) THEN FrameOf(w, f, s.saves[k]) - 1 ELSE LastKept(w, f)

(* Depths have the same frames before and after.                           *)
Aligned(w, f, v, g) == \A x \in Nat : FrameOf(v, g, x) = FrameOf(w, f, x)

(* A scope that has not failed has frames, and owes no whole transaction.  *)
LEMMA NotDoomed ==
    ASSUME NEW w, NEW s, NEW f, Sound(w, s, f), s.tx, ~DoomedOf(w, s)
    PROVE  /\ w \in Works /\ w.depth \in 0 .. MaxSave /\ w.depth \in Nat
           /\ w.debt.kind \in {"None", "Save"} /\ w.debt.target \in Nat /\ w.health # "Failed"
           /\ s \in Live /\ s.failed = "None" /\ s.saves \in Seq(1 .. MaxSave)
           /\ Len(s.saves) \in Nat
           /\ f \in Native /\ f \in Seq(SUBSET Writes) /\ f # <<>> /\ Len(f) \in Nat \ {0}
<1>1. w \in Works /\ s \in Live /\ f \in Native /\ FailedFinal(w) /\ ScopeBacked(w, s, f)
  BY DEF Sound, Typed
<1>2. s.failed = "None" /\ w.health # "Failed"
  BY <1>1 DEF DoomedOf, Live
<1>3. w.debt.kind \in {"None", "Tx", "Save", "Failed"} /\ w.debt.target \in 0 .. MaxSave
      /\ w.depth \in 0 .. MaxSave
  BY <1>1 DEF Works, Debts
<1>4. w.debt.kind # "Failed" /\ w.debt.kind # "Tx" /\ f # <<>>
  BY <1>1, <1>2 DEF FailedFinal, ScopeBacked
<1>5. f \in Seq(SUBSET Writes) /\ s.saves \in Seq(1 .. MaxSave)
  BY <1>1 DEF Native, Live
<1> QED
  BY <1>1, <1>2, <1>3, <1>4, <1>5, Constants

(* A depth that is counted and has a frame.                                *)
LEMMA Above ==
    ASSUME NEW d \in Nat, NEW l \in Nat, NEW y \in 1 .. d, y + l >= d + 2
    PROVE  y \in Nat /\ y + 1 - (d - (l - 1)) \in 2 .. l
OBVIOUS

(* The frame of a smaller depth ends before that of a larger one.          *)
LEMMA Below ==
    ASSUME NEW d \in Nat, NEW l \in Nat, NEW i \in Nat, NEW j \in Nat, i < j
    PROVE  i + 1 - (d - (l - 1)) <= (j + 1 - (d - (l - 1))) - 1
OBVIOUS

(* A savepoint SQLite has open is not its transaction frame.               *)
LEMMA FrameAbove ==
    ASSUME NEW w, NEW f, w.depth \in Nat, Len(f) \in Nat, NEW x \in 1 .. w.depth,
           x + Len(f) >= w.depth + 2
    PROVE  x \in Nat /\ FrameOf(w, f, x) \in 2 .. Len(f)
BY Above DEF FrameOf

(* Frames are ordered as the depths they belong to.                        *)
LEMMA FrameOrder ==
    ASSUME NEW w, NEW f, w.depth \in Nat, Len(f) \in Nat, NEW x \in Nat, NEW y \in Nat, x < y
    PROVE  FrameOf(w, f, x) <= FrameOf(w, f, y) - 1
BY Below DEF FrameOf

(* Where the frames of a live scope begin and end.                         *)
LEMMA Bounds ==
    ASSUME NEW w, NEW s, NEW f, Sound(w, s, f), s.tx, ~DoomedOf(w, s)
    PROVE  /\ \A k \in 1 .. Len(s.saves) :
                /\ s.saves[k] \in Nat /\ s.saves[k] \in 1 .. w.depth
                /\ FrameOf(w, f, s.saves[k]) \in 2 .. Len(f)
                /\ FrameOf(w, f, s.saves[k]) <= LastKept(w, f)
           /\ \A j, k \in 1 .. Len(s.saves) : j < k =>
                s.saves[j] < s.saves[k]
                /\ FrameOf(w, f, s.saves[j]) <= FrameOf(w, f, s.saves[k]) - 1
           /\ LastKept(w, f) \in 1 .. Len(f)
<1>1. /\ w.depth \in Nat /\ w.debt.kind \in {"None", "Save"} /\ w.debt.target \in Nat
      /\ Len(f) \in Nat \ {0} /\ s.failed = "None"
  BY NotDoomed
<1>2. /\ \A k \in 1 .. Len(s.saves) :
              /\ s.saves[k] \in 1 .. w.depth
              /\ s.saves[k] + Len(f) >= w.depth + 2
              /\ w.debt.kind = "Save" => s.saves[k] < w.debt.target
      /\ \A j, k \in 1 .. Len(s.saves) : j < k => s.saves[j] < s.saves[k]
  BY <1>1 DEF Sound, SavesSound
<1>3. w.debt.kind = "Save" =>
        w.debt.target \in 1 .. w.depth /\ w.debt.target + Len(f) >= w.depth + 2
  BY DEF Sound, DebtSound
<1>4. w.debt.kind = "Save" => FrameOf(w, f, w.debt.target) \in 2 .. Len(f)
  BY <1>1, <1>3, FrameAbove
<1>5. LastKept(w, f) \in 1 .. Len(f)
  BY <1>1, <1>4 DEF LastKept
<1>6. ASSUME NEW k \in 1 .. Len(s.saves)
      PROVE  /\ s.saves[k] \in Nat /\ s.saves[k] \in 1 .. w.depth
             /\ FrameOf(w, f, s.saves[k]) \in 2 .. Len(f)
             /\ FrameOf(w, f, s.saves[k]) <= LastKept(w, f)
  <2>1. /\ s.saves[k] \in 1 .. w.depth
        /\ s.saves[k] + Len(f) >= w.depth + 2
        /\ w.debt.kind = "Save" => s.saves[k] < w.debt.target
    BY <1>2
  <2>2. s.saves[k] \in Nat /\ FrameOf(w, f, s.saves[k]) \in 2 .. Len(f)
    BY <1>1, <2>1, FrameAbove
  <2>3. w.debt.kind = "Save" => FrameOf(w, f, s.saves[k]) <= FrameOf(w, f, w.debt.target) - 1
    BY <1>1, <2>1, <2>2, FrameOrder
  <2> QED
    BY <1>1, <2>1, <2>2, <2>3 DEF LastKept
<1>7. ASSUME NEW j \in 1 .. Len(s.saves), NEW k \in 1 .. Len(s.saves), j < k
      PROVE  /\ s.saves[j] < s.saves[k]
             /\ FrameOf(w, f, s.saves[j]) <= FrameOf(w, f, s.saves[k]) - 1
  <2>1. s.saves[j] < s.saves[k] /\ s.saves[j] \in Nat /\ s.saves[k] \in Nat
    BY <1>2, <1>6, <1>7
  <2> QED
    BY <1>1, <2>1, FrameOrder
<1> QED
  BY <1>5, <1>6, <1>7

(* The frames of a scope are a non-empty interval, next to those of the    *)
(* scopes around and inside it.                                            *)
LEMMA Intervals ==
    ASSUME NEW w, NEW s, NEW f, Sound(w, s, f), s.tx, ~DoomedOf(w, s),
           NEW k \in 1 .. Len(s.saves) + 1
    PROVE  /\ First(w, s, f, k) \in 1 .. Len(f) /\ EndOf(w, s, f, k) \in 1 .. Len(f)
           /\ First(w, s, f, k) <= EndOf(w, s, f, k)
           /\ EndOf(w, s, f, k) <= LastKept(w, f)
<1>1. Len(s.saves) \in Nat /\ Len(f) \in Nat
  BY NotDoomed
<1>2. LastKept(w, f) \in 1 .. Len(f)
  BY Bounds
<1>3. k <= Len(s.saves) => /\ FrameOf(w, f, s.saves[k]) \in 2 .. Len(f)
                           /\ FrameOf(w, f, s.saves[k]) <= LastKept(w, f)
  BY <1>1, Bounds
<1>4. k # 1 => /\ FrameOf(w, f, s.saves[k - 1]) \in 2 .. Len(f)
               /\ FrameOf(w, f, s.saves[k - 1]) <= LastKept(w, f)
  <2>1. k # 1 => k - 1 \in 1 .. Len(s.saves)
    BY <1>1
  <2> QED
    BY <2>1, Bounds
<1>5. k # 1 /\ k <= Len(s.saves) =>
        FrameOf(w, f, s.saves[k - 1]) <= FrameOf(w, f, s.saves[k]) - 1
  <2>1. k # 1 /\ k <= Len(s.saves) =>
          k - 1 \in 1 .. Len(s.saves) /\ k \in 1 .. Len(s.saves) /\ k - 1 < k
    BY <1>1
  <2> QED
    BY <2>1, Bounds
<1>6. CASE k <= Len(s.saves)
  <2>1. EndOf(w, s, f, k) = FrameOf(w, f, s.saves[k]) - 1
    BY <1>6 DEF EndOf
  <2>2. CASE k = 1
    <3>1. First(w, s, f, k) = 1
      BY <2>2 DEF First
    <3> QED
      BY <1>1, <1>2, <1>3, <1>6, <2>1, <3>1
  <2>3. CASE k # 1
    <3>1. First(w, s, f, k) = FrameOf(w, f, s.saves[k - 1])
      BY <2>3 DEF First
    <3> QED
      BY <1>1, <1>2, <1>3, <1>4, <1>5, <1>6, <2>1, <2>3, <3>1
  <2> QED
    BY <2>2, <2>3
<1>7. CASE ~(k <= Len(s.saves))
  BY <1>1, <1>2, <1>4, <1>7 DEF First, EndOf
<1> QED
  BY <1>6, <1>7

(* What is seen of a scope is the writes of its interval of frames.        *)
LEMMA ScopedParts ==
    ASSUME NEW w, NEW s, NEW f, Sound(w, s, f), s.tx, ~DoomedOf(w, s)
    PROVE  ScopedOf(w, s, f) =
             [k \in 1 .. Len(s.saves) + 1 |-> Part(f, First(w, s, f, k), EndOf(w, s, f, k))]
<1> DEFINE In(k) == {j \in First(w, s, f, k) .. Len(f) :
                        /\ k <= Len(s.saves) => j < First(w, s, f, k + 1)
                        /\ Kept(w, f, j)}
<1>0. /\ Len(s.saves) \in Nat /\ Len(f) \in Nat /\ LastKept(w, f) \in 1 .. Len(f)
      /\ w.debt.kind = "Save" => FrameOf(w, f, w.debt.target) \in Int
  <2>1. /\ w.debt.kind = "Save" =>
             w.debt.target \in 1 .. w.depth /\ w.debt.target + Len(f) >= w.depth + 2
        /\ w.depth \in Nat /\ Len(f) \in Nat
    BY NotDoomed DEF Sound, DebtSound
  <2>2. w.debt.kind = "Save" => FrameOf(w, f, w.debt.target) \in 2 .. Len(f)
    BY <2>1, FrameAbove
  <2> QED
    BY <2>2, NotDoomed, Bounds
<1>1. ASSUME NEW k \in 1 .. Len(s.saves) + 1
      PROVE  In(k) = First(w, s, f, k) .. EndOf(w, s, f, k)
  <2>1. /\ First(w, s, f, k) \in 1 .. Len(f) /\ EndOf(w, s, f, k) \in 1 .. Len(f)
        /\ EndOf(w, s, f, k) <= LastKept(w, f)
    BY Intervals
  <2>2. ASSUME NEW j \in First(w, s, f, k) .. Len(f)
        PROVE  Kept(w, f, j) <=> j <= LastKept(w, f)
    BY <1>0, <2>1 DEF Kept, LastKept
  <2>3. CASE k <= Len(s.saves)
    <3>1. k + 1 # 1 /\ k + 1 - 1 = k /\ k \in 1 .. Len(s.saves)
      BY <1>0, <2>3
    <3>2. First(w, s, f, k + 1) = FrameOf(w, f, s.saves[k])
      BY <3>1 DEF First
    <3>3. FrameOf(w, f, s.saves[k]) \in 2 .. Len(f)
      BY <3>1, Bounds
    <3>4. EndOf(w, s, f, k) = First(w, s, f, k + 1) - 1 /\ First(w, s, f, k + 1) \in 2 .. Len(f)
      BY <2>3, <3>2, <3>3 DEF EndOf
    <3>5. ASSUME NEW j \in First(w, s, f, k) .. Len(f)
          PROVE  j < First(w, s, f, k + 1) /\ Kept(w, f, j) <=> j <= EndOf(w, s, f, k)
      BY <1>0, <2>1, <2>2, <3>4
    <3> QED
      BY <1>0, <2>1, <2>3, <3>5
  <2>4. CASE ~(k <= Len(s.saves))
    <3>1. EndOf(w, s, f, k) = LastKept(w, f)
      BY <2>4 DEF EndOf
    <3> QED
      BY <1>0, <2>1, <2>2, <2>4, <3>1
  <2> QED
    BY <2>3, <2>4
<1>2. \A k \in 1 .. Len(s.saves) + 1 :
        UNION {f[i] : i \in In(k)} = Part(f, First(w, s, f, k), EndOf(w, s, f, k))
  BY <1>1 DEF Part
<1>3. ScopedOf(w, s, f) = [k \in 1 .. Len(s.saves) + 1 |-> UNION {f[i] : i \in In(k)}]
  BY DEF ScopedOf
<1> HIDE DEF In
<1> QED
  BY <1>2, <1>3

(* Frames hold writes.                                                     *)
LEMMA PartTyped ==
    ASSUME NEW f \in Seq(SUBSET Writes), NEW a \in 1 .. Len(f), NEW b \in 1 .. Len(f)
    PROVE  Part(f, a, b) \in SUBSET Writes
BY DEF Part

(* Nothing is seen of the scopes of a transaction that has failed.         *)
LEMMA ScopedBlank ==
    ASSUME NEW w, NEW s, NEW f, s.tx, DoomedOf(w, s)
    PROVE  ScopedOf(w, s, f) = [k \in 1 .. Len(s.saves) + 1 |-> {}]
BY DEF ScopedOf

(* What is seen is a scope for the transaction and one for each savepoint. *)
LEMMA ScopedTyped ==
    ASSUME NEW w, NEW s, NEW f, Sound(w, s, f), s.tx
    PROVE  /\ ScopedOf(w, s, f) \in Seq(SUBSET Writes)
           /\ Len(ScopedOf(w, s, f)) = Len(s.saves) + 1 /\ Len(s.saves) \in Nat
           /\ ScopedOf(w, s, f) # <<>> /\ DOMAIN ScopedOf(w, s, f) = 1 .. Len(s.saves) + 1
           /\ DoomedOf(w, s) \in BOOLEAN
<1> DEFINE a == ScopedOf(w, s, f)
<1>1. Len(s.saves) \in Nat /\ DoomedOf(w, s) \in BOOLEAN
  BY DEF Sound, Typed, Live, DoomedOf
<1>2. a \in [1 .. Len(s.saves) + 1 -> SUBSET Writes]
  <2>1. CASE DoomedOf(w, s)
    BY <2>1, ScopedBlank
  <2>2. CASE ~DoomedOf(w, s)
    <3>1. \A k \in 1 .. Len(s.saves) + 1 :
            Part(f, First(w, s, f, k), EndOf(w, s, f, k)) \in SUBSET Writes
      BY <2>2, NotDoomed, Intervals, PartTyped
    <3> QED
      BY <2>2, <3>1, ScopedParts
  <2> QED
    BY <2>1, <2>2
<1> HIDE DEF a
<1>3. a \in Seq(SUBSET Writes) /\ Len(a) = Len(s.saves) + 1 /\ DOMAIN a = 1 .. Len(s.saves) + 1
  BY <1>1, <1>2, IsASeq
<1>4. a # <<>>
  BY <1>1, <1>3
<1> QED
  BY <1>1, <1>3, <1>4 DEF a

-----------------------------------------------------------------------------
(* Steps of SqliteScopes, between what it sees before and after *)

Stays(w, s, f, v, t, g) ==
    ScopedOf(v, t, g) = ScopedOf(w, s, f) /\ (DoomedOf(v, t) <=> DoomedOf(w, s))
Discards(w, s, f, v, t, g) ==
    /\ ScopedOf(w, s, f) # <<>> /\ ScopedOf(v, t, g) = Front(ScopedOf(w, s, f))
    /\ DoomedOf(v, t) <=> DoomedOf(w, s) /\ Len(ScopedOf(w, s, f)) > 1
Merges(w, s, f, v, t, g) ==
    /\ Len(ScopedOf(w, s, f)) > 1 /\ ScopedOf(v, t, g) = Released(ScopedOf(w, s, f))
    /\ DoomedOf(v, t) <=> DoomedOf(w, s)
Undoes(w, s, f, v, t, g) ==
    /\ ScopedOf(w, s, f) # <<>> /\ ScopedOf(v, t, g) = Undone(ScopedOf(w, s, f))
    /\ ~DoomedOf(w, s) /\ ~DoomedOf(v, t)
Dooms(w, s, f, v, t, g) ==
    /\ ScopedOf(w, s, f) # <<>> /\ DoomedOf(v, t)
    /\ ScopedOf(v, t, g) = [i \in DOMAIN ScopedOf(w, s, f) |-> {}]
DoomDiscards(w, s, f, v, t, g) ==
    /\ Len(ScopedOf(w, s, f)) > 1 /\ DoomedOf(v, t)
    /\ ScopedOf(v, t, g) = [i \in DOMAIN Front(ScopedOf(w, s, f)) |-> {}]

(* A sequence is the front of another if it lacks only the last element.   *)
LEMMA FrontIs ==
    ASSUME NEW T, NEW a \in Seq(T), a # <<>>, NEW b \in Seq(T), Len(b) = Len(a) - 1,
           \A i \in 1 .. Len(b) : b[i] = a[i]
    PROVE  b = Front(a)
<1>1. /\ Front(a) \in Seq(T) /\ Len(Front(a)) = Len(a) - 1 /\ Len(a) \in Nat \ {0}
      /\ \A i \in 1 .. Len(a) - 1 : Front(a)[i] = a[i]
  BY FrontLast
<1> DEFINE c == Front(a)
<1> HIDE DEF c
<1>2. c \in Seq(T) /\ Len(c) = Len(b) /\ \A i \in 1 .. Len(b) : b[i] = c[i]
  BY <1>1 DEF c
<1>3. b = c
  BY <1>2, SeqEqual
<1> QED
  BY <1>3 DEF c

(* What RELEASE leaves of each frame.                                      *)
LEMMA ReleasedElements ==
    ASSUME NEW f \in Seq(SUBSET Writes), Len(f) > 1
    PROVE  /\ Released(f) \in Seq(SUBSET Writes) /\ Len(Released(f)) = Len(f) - 1
           /\ \A i \in 1 .. Len(f) - 2 : Released(f)[i] = f[i]
           /\ Released(f)[Len(f) - 1] = f[Len(f) - 1] \cup f[Len(f)]
<1> DEFINE g == Front(f)
           x == f[Len(f) - 1] \cup f[Len(f)]
           m == Len(f) - 1
<1>1. Len(f) \in Nat /\ f # <<>> /\ m \in 1 .. m /\ m \in Nat /\ Len(f) - 2 = m - 1
  OBVIOUS
<1>2. /\ g \in Seq(SUBSET Writes) /\ Len(g) = m /\ \A i \in 1 .. m : g[i] = f[i]
      /\ Last(f) = f[Len(f)] /\ Last(f) \in SUBSET Writes
  BY <1>1, FrontLast
<1>3. g[m] = f[m] /\ f[m] \in SUBSET Writes /\ x \in SUBSET Writes /\ x = g[m] \cup Last(f)
  BY <1>1, <1>2
<1>4. Released(f) = [g EXCEPT ![m] = x]
  BY <1>3 DEF Released
<1> HIDE DEF g, m, x
<1>5. /\ [g EXCEPT ![m] = x] \in Seq(SUBSET Writes) /\ Len([g EXCEPT ![m] = x]) = m
      /\ \A i \in 1 .. m - 1 : [g EXCEPT ![m] = x][i] = g[i] /\ i \in 1 .. m
      /\ [g EXCEPT ![m] = x][m] = x
  BY <1>1, <1>2, <1>3
<1>6. \A i \in 1 .. m - 1 : Released(f)[i] = f[i]
  BY <1>2, <1>4, <1>5
<1> QED
  BY <1>1, <1>4, <1>5, <1>6 DEF m, x

(* A sequence is what RELEASE leaves if its elements are.                  *)
LEMMA ReleasedIs ==
    ASSUME NEW a \in Seq(SUBSET Writes), Len(a) > 1, NEW b \in Seq(SUBSET Writes),
           Len(b) = Len(a) - 1, \A i \in 1 .. Len(a) - 2 : b[i] = a[i],
           b[Len(a) - 1] = a[Len(a) - 1] \cup a[Len(a)]
    PROVE  b = Released(a)
<1> DEFINE c == Released(a)
<1>1. /\ c \in Seq(SUBSET Writes) /\ Len(c) = Len(a) - 1
      /\ \A i \in 1 .. Len(a) - 2 : c[i] = a[i]
      /\ c[Len(a) - 1] = a[Len(a) - 1] \cup a[Len(a)]
  BY ReleasedElements
<1> HIDE DEF c
<1>2. Len(a) \in Nat /\ \A i \in 1 .. Len(b) : i \in 1 .. Len(a) - 2 \/ i = Len(a) - 1
  OBVIOUS
<1>3. \A i \in 1 .. Len(b) : b[i] = c[i]
  BY <1>1, <1>2
<1>4. b = c
  BY <1>1, <1>3, SeqEqual
<1> QED
  BY <1>4 DEF c

(* An interval of frames is two that adjoin.                               *)
LEMMA PartSplit ==
    ASSUME NEW f, NEW a \in Nat, NEW b \in Nat, NEW m \in Nat, a <= m, m <= b
    PROVE  Part(f, a, b) = Part(f, a, m - 1) \cup Part(f, m, b)
<1>1. a .. b = (a .. m - 1) \cup (m .. b)
  OBVIOUS
<1> QED
  BY <1>1 DEF Part

(* Equal frames hold equal writes.                                         *)
LEMMA PartSame ==
    ASSUME NEW f, NEW g, NEW a, NEW b, \A i \in a .. b : f[i] = g[i]
    PROVE  Part(f, a, b) = Part(g, a, b)
BY DEF Part

(* Only the scopes, the counts and what is owed decide what is seen.       *)
LEMMA SameView ==
    ASSUME NEW w, NEW v, NEW s, NEW f, v.depth = w.depth, v.debt = w.debt,
           v.health = "Failed" <=> w.health = "Failed"
    PROVE  Stays(w, s, f, v, s, f)
<1>1. DoomedOf(v, s) <=> DoomedOf(w, s)
  BY DEF DoomedOf
<1>2. /\ \A k : First(v, s, f, k) = First(w, s, f, k)
      /\ \A j : Kept(v, f, j) <=> Kept(w, f, j)
  BY DEF First, FrameOf, Kept
<1> DEFINE In(u, k) == {j \in First(u, s, f, k) .. Len(f) :
                          /\ k <= Len(s.saves) => j < First(u, s, f, k + 1)
                          /\ Kept(u, f, j)}
           Of(u) == [k \in 1 .. Len(s.saves) + 1 |->
                       IF DoomedOf(u, s) THEN {} ELSE UNION {f[i] : i \in In(u, k)}]
<1>3. \A k : In(v, k) = In(w, k)
  BY <1>2
<1>4. /\ ScopedOf(v, s, f) = IF ~s.tx THEN <<>> ELSE Of(v)
      /\ ScopedOf(w, s, f) = IF ~s.tx THEN <<>> ELSE Of(w)
  BY DEF ScopedOf
<1> HIDE DEF In
<1>5. Of(v) = Of(w)
  BY <1>1, <1>3
<1> HIDE DEF Of
<1>6. ScopedOf(v, s, f) = ScopedOf(w, s, f)
  BY <1>4, <1>5
<1> QED
  BY <1>1, <1>6 DEF Stays

(* Without a live transaction nothing is seen.                             *)
LEMMA NoView ==
    ASSUME NEW w, NEW s, NEW f, ~s.tx
    PROVE  ScopedOf(w, s, f) = <<>> /\ ~DoomedOf(w, s)
BY DEF ScopedOf, DoomedOf

(* The transaction ends.                                                   *)
LEMMA Gone ==
    ASSUME NEW w, NEW s, NEW f, Sound(w, s, f), s.tx, s.saves = <<>>, NEW v, NEW g
    PROVE  Discards(w, s, f, v, NoScope, g)
<1> DEFINE a == ScopedOf(w, s, f)
<1>0. Len(s.saves) = 0
  OBVIOUS
<1>1. a \in Seq(SUBSET Writes) /\ Len(a) = Len(s.saves) + 1 /\ a # <<>>
  BY ScopedTyped
<1> HIDE DEF a
<1>2. <<>> = Front(a)
  <2>1. <<>> \in Seq(SUBSET Writes) /\ Len(<<>>) = Len(a) - 1
        /\ \A i \in 1 .. Len(<<>>) : <<>>[i] = a[i]
    BY <1>0, <1>1
  <2> QED
    BY <1>1, <2>1, FrontIs
<1>3. ScopedOf(v, NoScope, g) = <<>> /\ ~DoomedOf(v, NoScope)
  BY NoView, Constants
<1>4. ~(Len(a) > 1)
  BY <1>0, <1>1
<1> QED
  BY <1>1, <1>2, <1>3, <1>4 DEF Discards, a

(* The innermost of several failed scopes ends.                            *)
LEMMA BlankShrinks ==
    ASSUME NEW w, NEW s, NEW f, Sound(w, s, f), s.tx, DoomedOf(w, s),
           NEW v, NEW t, NEW g, Sound(v, t, g), t.tx, DoomedOf(v, t),
           s.saves # <<>>, Len(t.saves) = Len(s.saves) - 1
    PROVE  Discards(w, s, f, v, t, g) /\ Merges(w, s, f, v, t, g)
<1> DEFINE a == ScopedOf(w, s, f)
           b == ScopedOf(v, t, g)
           n == Len(s.saves)
<1>1. /\ a \in Seq(SUBSET Writes) /\ Len(a) = n + 1 /\ n \in Nat /\ a # <<>>
      /\ b \in Seq(SUBSET Writes) /\ Len(b) = Len(t.saves) + 1
  BY ScopedTyped
<1>2. /\ \A i \in 1 .. n + 1 : a[i] = {}
      /\ \A i \in 1 .. Len(t.saves) + 1 : b[i] = {}
  BY ScopedBlank
<1>3. n # 0
  BY DEF Sound, Typed, Live
<1> HIDE DEF a, b, n
<1>0. Len(t.saves) + 1 = n
  BY <1>1 DEF n
<1>4. Len(b) = n /\ Len(a) > 1 /\ Len(a) = n + 1
  BY <1>0, <1>1, <1>3
<1>5. \A i \in 1 .. n : a[i] = {} /\ b[i] = {}
  BY <1>0, <1>1, <1>2
<1>6. b = Front(a)
  <2>1. Len(b) = Len(a) - 1
    BY <1>1, <1>4
  <2>2. \A i \in 1 .. Len(b) : b[i] = a[i]
    BY ONLY <1>4, <1>5
  <2> QED
    BY <1>1, <2>1, <2>2, FrontIs
<1>7. b = Released(a)
  <2>0. \A i \in 1 .. Len(a) - 2 : i \in 1 .. n
    BY ONLY <1>1, <1>4
  <2>1. \A i \in 1 .. Len(a) - 2 : b[i] = a[i]
    BY ONLY <2>0, <1>5
  <2>2. b[Len(a) - 1] = a[Len(a) - 1] \cup a[Len(a)]
    <3>1. Len(a) - 1 = n /\ n \in 1 .. n /\ n + 1 \in 1 .. n + 1
      BY <1>1, <1>3, <1>4
    <3>2. b[n] = {} /\ a[n] = {} /\ a[n + 1] = {}
      BY <1>2, <1>5, <3>1
    <3> QED
      BY <1>4, <3>1, <3>2
  <2>3. Len(b) = Len(a) - 1
    BY <1>1, <1>4
  <2> QED
    BY <1>1, <1>4, <2>1, <2>2, <2>3, ReleasedIs
<1> QED
  BY <1>1, <1>4, <1>6, <1>7 DEF Discards, Merges, a, b

(* The frames of the scopes around the innermost one.                      *)
LEMMA Around ==
    ASSUME NEW w, NEW s, NEW f, NEW v, NEW t, NEW g, s.saves # <<>>,
           Sound(w, s, f), s.tx, Sound(v, t, g), t.tx, t.saves = Front(s.saves),
           ~DoomedOf(w, s), ~DoomedOf(v, t),
           Aligned(w, f, v, g)
    PROVE  /\ Len(s.saves) \in Nat \ {0} /\ Len(t.saves) = Len(s.saves) - 1
           /\ \A k \in 1 .. Len(s.saves) : First(v, t, g, k) = First(w, s, f, k)
           /\ \A k \in 1 .. Len(s.saves) - 1 : EndOf(v, t, g, k) = EndOf(w, s, f, k)
           /\ EndOf(v, t, g, Len(s.saves)) = LastKept(v, g)
<1>1. s.saves \in Seq(1 .. MaxSave)
  BY NotDoomed
<1> DEFINE n == Len(s.saves)
<1>2. n \in Nat \ {0} /\ Len(t.saves) = n - 1 /\ \A i \in 1 .. n - 1 : t.saves[i] = s.saves[i]
  BY <1>1, FrontLast
<1>3. \A i \in 1 .. n : s.saves[i] \in Nat
  BY Bounds
<1> HIDE DEF n
<1>4. \A i \in 1 .. n - 1 : FrameOf(v, g, t.saves[i]) = FrameOf(w, f, s.saves[i])
  BY <1>2, <1>3 DEF Aligned
<1>5. ASSUME NEW k \in 1 .. n PROVE First(v, t, g, k) = First(w, s, f, k)
  <2>1. k # 1 => k - 1 \in 1 .. n - 1
    BY <1>2
  <2> QED
    BY <1>4, <2>1 DEF First
<1>6. ASSUME NEW k \in 1 .. n - 1 PROVE EndOf(v, t, g, k) = EndOf(w, s, f, k)
  <2>1. k <= Len(t.saves) /\ k <= Len(s.saves)
    BY <1>2 DEF n
  <2> QED
    BY <1>4, <2>1 DEF EndOf
<1>7. ~(n <= Len(t.saves))
  BY <1>2
<1> QED
  BY <1>2, <1>5, <1>6, <1>7 DEF EndOf, n

(* A dropped savepoint owes its own rollback, and what is inside it.       *)
LEMMA SaveOwed ==
    ASSUME NEW w, NEW s, NEW f, Sound(w, s, f), s.tx, s.saves # <<>>, ~DoomedOf(w, s)
    PROVE  LET v == SaveReturn(w, s)
           IN /\ v.depth = w.depth /\ v.health = w.health /\ v.debt.kind = "Save"
              /\ v.debt.target = s.saves[Len(s.saves)]
<1> DEFINE v == SaveReturn(w, s)
           d == s.saves[Len(s.saves)]
<1>1. /\ w \in Works /\ w.debt.kind \in {"None", "Save"} /\ s.failed = "None"
      /\ s.saves \in Seq(1 .. MaxSave) /\ w.debt \in Debts
  BY NotDoomed DEF Works
<1>2. /\ Last(s.saves) = d /\ d \in 0 .. MaxSave /\ Len(s.saves) \in 1 .. Len(s.saves)
      /\ Len(s.saves) \in Nat
  <2>1. Last(s.saves) = d /\ Last(s.saves) \in 1 .. MaxSave /\ Len(s.saves) \in Nat \ {0}
    BY <1>1, FrontLast
  <2> HIDE DEF d
  <2> QED
    BY <2>1, Constants
<1>3. w.debt.kind = "Save" => d < w.debt.target
  BY <1>1, <1>2 DEF Sound, SavesSound
<1> HIDE DEF d
<1>4. /\ Owing(w.debt, d) \in Debts /\ Owing(w.debt, d).kind = "Save"
      /\ Owing(w.debt, d).target = d
  <2>1. CASE w.debt.kind = "None"
    BY <1>1, <1>2, <2>1 DEF Owing, Debts
  <2>2. CASE w.debt.kind = "Save"
    BY <1>1, <1>2, <1>3, <2>2 DEF Owing, Debts
  <2> QED
    BY <1>1, <2>1, <2>2
<1>5. v = [w EXCEPT !.debt = Owing(w.debt, d)]
  BY <1>1, <1>2 DEF SaveReturn, Works
<1> HIDE DEF v
<1>6. v.depth = w.depth /\ v.health = w.health /\ v.debt = Owing(w.debt, d)
  BY <1>1, <1>4, <1>5, WorkUpdates
<1> QED
  BY <1>4, <1>6 DEF v, d

(* A savepoint that is dropped loses its writes, whatever was owed before. *)
LEMMA SaveReturnMoves ==
    ASSUME NEW w, NEW s, NEW f, Sound(w, s, f), s.tx, s.saves # <<>>
    PROVE  Discards(w, s, f, SaveReturn(w, s), [s EXCEPT !.saves = Front(@)], f)
<1> DEFINE v == SaveReturn(w, s)
           t == [s EXCEPT !.saves = Front(@)]
           a == ScopedOf(w, s, f)
           b == ScopedOf(v, t, f)
           n == Len(s.saves)
<1>0. s \in Live /\ s.saves \in Seq(1 .. MaxSave) /\ w \in Works
  BY DEF Sound, Typed, Live
<1>1. /\ t.tx /\ t.failed = s.failed /\ t.saves = Front(s.saves)
      /\ Len(Front(s.saves)) = Len(s.saves) - 1
  <2>1. Front(s.saves) \in Seq(1 .. MaxSave) /\ Len(Front(s.saves)) = Len(s.saves) - 1
    BY <1>0, FrontLast
  <2> QED
    BY <1>0, <2>1, LiveUpdates
<1>2. Sound(v, t, f)
  BY SaveReturnSound
<1>3. CASE DoomedOf(w, s)
  <2>1. DoomedOf(v, t)
    <3>1. CASE s.failed # "None"
      BY <1>1, <3>1 DEF DoomedOf
    <3>2. CASE s.failed = "None"
      <4>1. w.health = "Failed" /\ w.debt = Failed
        BY <3>2, <1>3, Constants DEF DoomedOf, Sound, ScopeBacked, FailedFinal
      <4>2. v = w
        BY <1>0, <3>2, <4>1, Constants DEF SaveReturn, Owing, Works
      <4> QED
        BY <1>1, <4>1, <4>2 DEF DoomedOf
    <3> QED
      BY <3>1, <3>2
  <2> HIDE DEF v, t
  <2>2. t.tx /\ Len(t.saves) = Len(s.saves) - 1
    BY <1>1
  <2>3. Discards(w, s, f, v, t, f)
    BY <1>2, <1>3, <2>1, <2>2, BlankShrinks
  <2> QED
    BY <2>3 DEF v, t
<1>4. CASE ~DoomedOf(w, s)
  <2>1. /\ v.depth = w.depth /\ v.health = w.health /\ v.debt.kind = "Save"
        /\ v.debt.target = s.saves[n] /\ w.health # "Failed" /\ s.failed = "None"
    BY <1>4, SaveOwed, NotDoomed
  <2> HIDE DEF v, t
  <2>2. ~DoomedOf(v, t)
    BY <1>1, <2>1, Constants DEF DoomedOf
  <2>3. Aligned(w, f, v, f)
    BY <2>1 DEF FrameOf, Aligned
  <2>4. /\ n \in Nat \ {0} /\ Len(t.saves) = n - 1
        /\ \A k \in 1 .. n : First(v, t, f, k) = First(w, s, f, k)
        /\ \A k \in 1 .. n - 1 : EndOf(v, t, f, k) = EndOf(w, s, f, k)
        /\ EndOf(v, t, f, n) = LastKept(v, f)
    BY <1>1, <1>2, <1>4, <2>2, <2>3, Around
  <2>5. \A k \in 1 .. n : EndOf(v, t, f, k) = EndOf(w, s, f, k)
    <3>1. n <= Len(s.saves) /\ n \in 1 .. n /\ s.saves[n] \in Nat
      BY <1>4, <2>4, Bounds
    <3>2. LastKept(v, f) = FrameOf(w, f, s.saves[n]) - 1
      BY <2>1, <2>3, <3>1 DEF LastKept, Aligned
    <3>3. EndOf(w, s, f, n) = FrameOf(w, f, s.saves[n]) - 1
      BY <3>1 DEF EndOf
    <3>4. \A k \in 1 .. n : k = n \/ k \in 1 .. n - 1
      BY <2>4
    <3> HIDE DEF n
    <3> QED
      BY <2>4, <3>2, <3>3, <3>4
  <2>6. /\ a = [k \in 1 .. n + 1 |-> Part(f, First(w, s, f, k), EndOf(w, s, f, k))]
        /\ b = [k \in 1 .. n |-> Part(f, First(v, t, f, k), EndOf(v, t, f, k))]
    <3>1. /\ a = [k \in 1 .. n + 1 |-> Part(f, First(w, s, f, k), EndOf(w, s, f, k))]
          /\ b = [k \in 1 .. Len(t.saves) + 1 |->
                    Part(f, First(v, t, f, k), EndOf(v, t, f, k))]
      BY <1>1, <1>2, <1>4, <2>2, ScopedParts
    <3>2. Len(t.saves) + 1 = n
      BY <2>4
    <3> QED
      BY <3>1, <3>2
  <2>7. /\ a \in Seq(SUBSET Writes) /\ Len(a) = n + 1 /\ a # <<>>
        /\ b \in Seq(SUBSET Writes) /\ Len(b) = Len(t.saves) + 1
    BY <1>1, <1>2, ScopedTyped
  <2> HIDE DEF a, b, n
  <2>8. \A k \in 1 .. n : k \in 1 .. n + 1
    BY <2>4
  <2>9. \A k \in 1 .. n : b[k] = a[k]
    BY <2>4, <2>5, <2>6, <2>8
  <2>10. Len(b) = n /\ Len(b) = Len(a) - 1 /\ Len(a) > 1
    BY <2>4, <2>7
  <2>11. b = Front(a)
    <3>1. \A i \in 1 .. Len(b) : b[i] = a[i]
      BY ONLY <2>9, <2>10
    <3> QED
      BY <2>7, <2>10, <3>1, FrontIs
  <2> QED
    BY <1>4, <2>2, <2>7, <2>11 DEF Discards, a, b, v, t
<1> QED
  BY <1>3, <1>4

(* A scope whose owner forgets it belongs to the one around it.            *)
LEMMA OuterMoves ==
    ASSUME NEW w, NEW s, NEW f, Sound(w, s, f), s.tx, s.saves # <<>>
    PROVE  Merges(w, s, f, w, Outer(s), f)
<1> DEFINE t == Outer(s)
           a == ScopedOf(w, s, f)
           b == ScopedOf(w, t, f)
           n == Len(s.saves)
<1>0. s \in Live /\ s.saves \in Seq(1 .. MaxSave) /\ w \in Works
  BY DEF Sound, Typed, Live
<1>1. /\ t.tx /\ t.failed = s.failed /\ t.saves = Front(s.saves)
      /\ Len(Front(s.saves)) = Len(s.saves) - 1
  <2>1. Front(s.saves) \in Seq(1 .. MaxSave) /\ Len(Front(s.saves)) = Len(s.saves) - 1
    BY <1>0, FrontLast
  <2>2. t = [s EXCEPT !.saves = Front(s.saves)]
    BY <1>0 DEF Outer, Live
  <2> HIDE DEF t
  <2> QED
    BY <1>0, <2>1, <2>2, LiveUpdates
<1>2. Sound(w, t, f)
  BY OuterSound
<1> HIDE DEF t
<1>3. DoomedOf(w, t) <=> DoomedOf(w, s)
  BY <1>1 DEF DoomedOf
<1>4. CASE DoomedOf(w, s)
  BY <1>1, <1>2, <1>3, <1>4, BlankShrinks DEF t
<1>5. CASE ~DoomedOf(w, s)
  <2>0. Aligned(w, f, w, f)
    BY DEF Aligned
  <2>1. /\ n \in Nat \ {0} /\ Len(t.saves) = n - 1
        /\ \A k \in 1 .. n : First(w, t, f, k) = First(w, s, f, k)
        /\ \A k \in 1 .. n - 1 : EndOf(w, t, f, k) = EndOf(w, s, f, k)
        /\ EndOf(w, t, f, n) = LastKept(w, f)
    BY <1>1, <1>2, <1>3, <1>5, <2>0, Around
  <2>2. /\ a = [k \in 1 .. n + 1 |-> Part(f, First(w, s, f, k), EndOf(w, s, f, k))]
        /\ b = [k \in 1 .. n |-> Part(f, First(w, t, f, k), EndOf(w, t, f, k))]
    <3>1. /\ a = [k \in 1 .. n + 1 |-> Part(f, First(w, s, f, k), EndOf(w, s, f, k))]
          /\ b = [k \in 1 .. Len(t.saves) + 1 |->
                    Part(f, First(w, t, f, k), EndOf(w, t, f, k))]
      BY <1>1, <1>2, <1>3, <1>5, ScopedParts
    <3>2. Len(t.saves) + 1 = n
      BY <2>1
    <3> QED
      BY <3>1, <3>2
  <2>3. /\ a \in Seq(SUBSET Writes) /\ Len(a) = n + 1 /\ a # <<>>
        /\ b \in Seq(SUBSET Writes) /\ Len(b) = Len(t.saves) + 1
    BY <1>1, <1>2, ScopedTyped
  <2>4. /\ First(w, s, f, n) \in Nat /\ FrameOf(w, f, s.saves[n]) \in Nat
        /\ LastKept(w, f) \in Nat /\ First(w, s, f, n) <= FrameOf(w, f, s.saves[n])
        /\ FrameOf(w, f, s.saves[n]) <= LastKept(w, f)
        /\ EndOf(w, s, f, n) = FrameOf(w, f, s.saves[n]) - 1
        /\ First(w, s, f, n + 1) = FrameOf(w, f, s.saves[n])
        /\ EndOf(w, s, f, n + 1) = LastKept(w, f)
    <3>1. n \in 1 .. Len(s.saves) /\ n \in 1 .. Len(s.saves) + 1 /\ Len(f) \in Nat
      BY <1>5, <2>1, NotDoomed
    <3>2. /\ FrameOf(w, f, s.saves[n]) \in 2 .. Len(f) /\ LastKept(w, f) \in 1 .. Len(f)
          /\ FrameOf(w, f, s.saves[n]) <= LastKept(w, f)
      BY <1>5, <3>1, Bounds
    <3>3. First(w, s, f, n) \in 1 .. Len(f) /\ First(w, s, f, n) <= EndOf(w, s, f, n)
      BY <1>5, <3>1, Intervals
    <3>4. EndOf(w, s, f, n) = FrameOf(w, f, s.saves[n]) - 1
      BY <3>1 DEF EndOf
    <3>5. n + 1 # 1 /\ n + 1 - 1 = n /\ ~(n + 1 <= Len(s.saves))
      BY <2>1
    <3>6. First(w, s, f, n + 1) = FrameOf(w, f, s.saves[n]) /\ EndOf(w, s, f, n + 1) = LastKept(w, f)
      BY <3>5 DEF First, EndOf
    <3> HIDE DEF n
    <3> QED
      BY <3>1, <3>2, <3>3, <3>4, <3>6
  <2> HIDE DEF a, b, n
  <2>5. b[n] = a[n] \cup a[n + 1]
    <3>1. n \in 1 .. n /\ n \in 1 .. n + 1 /\ n + 1 \in 1 .. n + 1
      BY <2>1
    <3>2. /\ b[n] = Part(f, First(w, s, f, n), LastKept(w, f))
          /\ a[n] = Part(f, First(w, s, f, n), FrameOf(w, f, s.saves[n]) - 1)
          /\ a[n + 1] = Part(f, FrameOf(w, f, s.saves[n]), LastKept(w, f))
      BY <2>1, <2>2, <2>4, <3>1
    <3> QED
      BY <2>4, <3>2, PartSplit
  <2>6. \A k \in 1 .. n - 1 : k \in 1 .. n + 1 /\ k \in 1 .. n
    BY <2>1
  <2>7. \A k \in 1 .. n - 1 : b[k] = a[k]
    BY <2>1, <2>2, <2>6
  <2>8. Len(b) = Len(a) - 1 /\ Len(a) > 1 /\ Len(a) - 2 = n - 1 /\ Len(a) - 1 = n /\ Len(a) = n + 1
    BY <2>1, <2>3
  <2>9. b = Released(a)
    <3>1. \A i \in 1 .. Len(a) - 2 : b[i] = a[i]
      BY ONLY <2>7, <2>8
    <3>2. b[Len(a) - 1] = a[Len(a) - 1] \cup a[Len(a)]
      BY ONLY <2>5, <2>8
    <3> QED
      BY <2>3, <2>8, <3>1, <3>2, ReleasedIs
  <2> QED
    BY <1>3, <2>8, <2>9 DEF Merges, a, b, t
<1> QED
  BY <1>4, <1>5

(* A failure of the transaction empties every scope of it.                 *)
LEMMA DoomMoves ==
    ASSUME NEW w, NEW s, NEW f, Sound(w, s, f), s.tx,
           NEW v, NEW t, NEW g, t.tx, t.saves = s.saves, DoomedOf(v, t)
    PROVE  Dooms(w, s, f, v, t, g)
<1>1. ScopedOf(w, s, f) # <<>> /\ DOMAIN ScopedOf(w, s, f) = 1 .. Len(s.saves) + 1
  BY ScopedTyped
<1>2. ScopedOf(v, t, g) = [k \in 1 .. Len(s.saves) + 1 |-> {}]
  BY ScopedBlank
<1> QED
  BY <1>1, <1>2 DEF Dooms

(* A failure that consumes the innermost savepoint empties the others.     *)
LEMMA DoomDiscardMoves ==
    ASSUME NEW w, NEW s, NEW f, Sound(w, s, f), s.tx, s.saves # <<>>,
           NEW v, NEW t, NEW g, t.tx, Len(t.saves) = Len(s.saves) - 1, DoomedOf(v, t)
    PROVE  DoomDiscards(w, s, f, v, t, g)
<1> DEFINE a == ScopedOf(w, s, f)
<1>1. a # <<>> /\ a \in Seq(SUBSET Writes) /\ Len(a) = Len(s.saves) + 1 /\ Len(s.saves) \in Nat
  BY ScopedTyped
<1>2. Len(s.saves) # 0
  BY DEF Sound, Typed, Live
<1>3. ScopedOf(v, t, g) = [k \in 1 .. Len(t.saves) + 1 |-> {}]
  BY ScopedBlank
<1> HIDE DEF a
<1>4. Front(a) \in Seq(SUBSET Writes) /\ Len(Front(a)) = Len(a) - 1
  BY <1>1, FrontLast
<1>5. DOMAIN Front(a) = 1 .. Len(a) - 1 /\ Len(t.saves) + 1 = Len(a) - 1 /\ Len(a) > 1
  BY <1>1, <1>2, <1>4
<1> QED
  BY <1>3, <1>5 DEF DoomDiscards, a

Gives(op) == op \in {"Commit", "Rollback", "Release"}

(* A call that ends without success drops the scope that it was given.     *)
LEMMA DroppedMoves ==
    ASSUME NEW w, NEW s, NEW f, NEW op, Sound(w, s, f), Consumes(op, s)
    PROVE  LET r == Dropped(op, w, s)
           IN IF Gives(op) THEN Discards(w, s, f, r[1], r[2], f) ELSE r[1] = w /\ r[2] = s
<1>1. CASE op \in {"Commit", "Rollback"}
  <2>1. Dropped(op, w, s)[2] = NoScope /\ s.tx /\ s.saves = <<>>
    BY <1>1 DEF Dropped, Consumes
  <2> QED
    BY <1>1, <2>1, Gone DEF Gives
<1>2. CASE op = "Release"
  <2>1. /\ Dropped(op, w, s)[1] = SaveReturn(w, s) /\ s.tx /\ s.saves # <<>>
        /\ Dropped(op, w, s)[2] = [s EXCEPT !.saves = Front(@)]
    BY <1>2 DEF Dropped, Consumes
  <2> QED
    BY <1>2, <2>1, SaveReturnMoves DEF Gives
<1>3. CASE ~Gives(op)
  BY <1>3 DEF Dropped, Gives
<1> QED
  BY <1>1, <1>2, <1>3 DEF Gives

(* The same where SQLite may have ended the transaction.                   *)
LEMMA EndedMoves ==
    ASSUME NEW w, NEW s, NEW f, NEW op, Sound(w, s, f), Consumes(op, s)
    PROVE  LET r == Ended(op, w, s, f)
           IN IF Gives(op) THEN Discards(w, s, f, r[1], r[2], f) ELSE r[1] = w /\ r[2] = s
<1>1. CASE op \in {"Commit", "Rollback"} /\ f = <<>>
  <2>1. Ended(op, w, s, f)[2] = NoScope /\ s.tx /\ s.saves = <<>>
    BY <1>1 DEF Ended, Consumes
  <2> QED
    BY <1>1, <2>1, Gone DEF Gives
<1>2. CASE ~(op \in {"Commit", "Rollback"} /\ f = <<>>)
  <2>1. Ended(op, w, s, f) = Dropped(op, w, s)
    BY <1>2 DEF Ended
  <2> QED
    BY <2>1, DroppedMoves
<1> QED
  BY <1>1, <1>2

-----------------------------------------------------------------------------
(* The steps of the abstract specification *)

SeenNext == [Scopes!Next]_Scopes!vars

(* The steps above are those of SqliteScopes.                              *)
LEMMA Seen ==
    ASSUME durable' = durable
    PROVE  /\ Stays(work, scope, frames, work', scope', frames') => SeenNext
           /\ Discards(work, scope, frames, work', scope', frames') => Scopes!Discard
           /\ Merges(work, scope, frames, work', scope', frames') => Scopes!Merge
           /\ Undoes(work, scope, frames, work', scope', frames') => Scopes!Undo
           /\ Dooms(work, scope, frames, work', scope', frames') => Scopes!Doom
           /\ DoomDiscards(work, scope, frames, work', scope', frames') => Scopes!DoomDiscard
           /\ Scopes!Discard \/ Scopes!Merge \/ Scopes!Undo \/ Scopes!Doom \/ Scopes!DoomDiscard =>
                SeenNext
<1>0. Doomed \in BOOLEAN /\ Doomed' \in BOOLEAN
  BY DEF Doomed, DoomedOf
<1>1. Stays(work, scope, frames, work', scope', frames') => SeenNext
  BY <1>0 DEF Stays, SeenNext, Scopes!vars, Scoped, Doomed
<1>2. Discards(work, scope, frames, work', scope', frames') => Scopes!Discard
  BY <1>0 DEF Discards, Scopes!Discard, Scoped, Doomed, Scopes!Front, Front
<1>3. Merges(work, scope, frames, work', scope', frames') => Scopes!Merge
  BY <1>0 DEF Merges, Scopes!Merge, Scoped, Doomed, Released, Scopes!Front, Front, Scopes!Last, Last
<1>4. Undoes(work, scope, frames, work', scope', frames') => Scopes!Undo
  BY <1>0 DEF Undoes, Scopes!Undo, Scoped, Doomed, Undone
<1>5. Dooms(work, scope, frames, work', scope', frames') => Scopes!Doom
  BY <1>0 DEF Dooms, Scopes!Doom, Scoped, Doomed, Scopes!Emptied
<1>6. DoomDiscards(work, scope, frames, work', scope', frames') => Scopes!DoomDiscard
  BY <1>0 DEF DoomDiscards, Scopes!DoomDiscard, Scoped, Doomed, Scopes!Emptied, Scopes!Front, Front
<1>7. Scopes!Discard \/ Scopes!Merge \/ Scopes!Undo \/ Scopes!Doom \/ Scopes!DoomDiscard => SeenNext
  BY DEF SeenNext, Scopes!Next
<1> QED
  BY <1>1, <1>2, <1>3, <1>4, <1>5, <1>6, <1>7

(* A call ends without success where nothing else of what is seen changes. *)
LEMMA EndsSeen ==
    ASSUME NEW w, NEW op, Sound(w, scope, frames), Consumes(op, scope),
           Stays(work, scope, frames, w, scope, frames), UNCHANGED <<frames, durable>>,
           Leaves(Ended(op, w, scope, frames)) \/ Leaves(Dropped(op, w, scope))
    PROVE  SeenNext /\ (Gives(op) => Scopes!Discard)
<1>1. IF Gives(op) THEN Discards(w, scope, frames, work', scope', frames')
      ELSE work' = w /\ scope' = scope
  <2>1. CASE Leaves(Ended(op, w, scope, frames))
    BY <2>1, EndedMoves DEF Leaves
  <2>2. CASE Leaves(Dropped(op, w, scope))
    BY <2>2, DroppedMoves DEF Leaves
  <2> QED
    BY <2>1, <2>2
<1>2. CASE Gives(op)
  <2>1. Discards(work, scope, frames, work', scope', frames')
    BY <1>1, <1>2 DEF Discards, Stays
  <2> QED
    BY <2>1, Seen
<1>3. CASE ~Gives(op)
  <2>1. Stays(work, scope, frames, work', scope', frames')
    BY <1>1, <1>3
  <2> QED
    BY <1>3, <2>1, Seen
<1> QED
  BY <1>2, <1>3

(* Nothing that is seen changes.                                           *)
LEMMA StillSeen ==
    ASSUME scope' = scope, frames' = frames, durable' = durable, work'.depth = work.depth,
           work'.debt = work.debt, work'.health = "Failed" <=> work.health = "Failed"
    PROVE  SeenNext
BY SameView, Seen

(* Nothing is seen of what happens outside a live transaction.             *)
LEMMA NoneSeen ==
    ASSUME ~scope.tx, ~scope'.tx, durable' = durable
    PROVE  SeenNext
<1>1. /\ ScopedOf(work, scope, frames) = <<>> /\ ~DoomedOf(work, scope)
      /\ ScopedOf(work', scope', frames') = <<>> /\ ~DoomedOf(work', scope')
  BY NoView
<1>2. Stays(work, scope, frames, work', scope', frames')
  BY <1>1 DEF Stays
<1> QED
  BY <1>2, Seen

(* A call that its checks bar drops the scope it consumed.                 *)
LEMMA AskSeen ==
    ASSUME WorkInv, NEW op \in Ops, Ask(op)
    PROVE  SeenNext
<1>1. Sound(work, scope, frames) /\ Consumes(op, scope) /\ UNCHANGED <<frames, durable>>
  BY DEF Ask, Borrowed, WorkInv, Available, Consumes
<1>2. CASE Leaves(Dropped(op, work, scope))
  <2>1. Stays(work, scope, frames, work, scope, frames)
    BY DEF Stays
  <2> QED
    BY <1>1, <1>2, <2>1, EndsSeen
<1>3. CASE UNCHANGED <<work, scope>>
  BY <1>1, <1>3, StillSeen
<1> QED
  BY <1>2, <1>3 DEF Ask

(* So does a call that is refused.                                         *)
LEMMA RefuseSeen ==
    ASSUME WorkInv, Refuse
    PROVE  SeenNext
<1>1. call # NoCall /\ UNCHANGED <<frames, durable>>
  BY DEF Refuse, Starts
<1>2. Consumes(call.op, scope) /\ Sound(work, scope, frames)
  BY <1>1, Calling
<1> DEFINE told == IF ~Blocked(call.op) /\ work.health = "Recoverable"
                   THEN [work EXCEPT !.health = "Healthy"] ELSE work
<1>3. Leaves(Ended(call.op, told, scope, frames))
  BY DEF Refuse
<1>4. /\ told \in Works /\ told.debt = work.debt /\ told.depth = work.depth
      /\ told.health = work.health \/ (work.health = "Recoverable" /\ told.health = "Healthy")
  BY <1>2 DEF Sound, Typed, Works
<1> HIDE DEF told
<1>5. Sound(told, scope, frames)
  BY <1>2, <1>4 DEF Sound, Typed, FailedFinal, DebtSound, ScopeBacked, SavesSound, DepthCovers
<1>6. Stays(work, scope, frames, told, scope, frames)
  BY <1>4, SameView
<1> QED
  BY <1>1, <1>2, <1>3, <1>5, <1>6, EndsSeen

(* A savepoint that is forgotten merges into the scope around it.          *)
LEMMA ForgetSeen ==
    ASSUME WorkInv, Forget \/ ForgetScope
    PROVE  /\ SeenNext
           /\ Len(scope.saves) > 0 /\ (ForgetScope \/ Consumed) => Scopes!Merge
<1>1. call # NoCall \/ scope.tx
  BY DEF Forget, ForgetScope
<1>2. Sound(work, scope, frames) /\ UNCHANGED <<work, frames, durable>>
  BY <1>1 DEF WorkInv, CallOwns, Borrowed, Forget, ForgetScope
<1>3. CASE scope' = scope /\ ~ForgetScope /\ ~Consumed
  BY <1>2, <1>3, StillSeen
<1>4. CASE scope.tx /\ scope' = Outer(scope)
  <2>1. CASE scope.saves = <<>>
    <3>1. scope' = NoScope /\ ~(Len(scope.saves) > 0)
      BY <1>4, <2>1 DEF Outer
    <3>2. Discards(work, scope, frames, work', scope', frames')
      BY <1>2, <1>4, <2>1, <3>1, Gone
    <3> QED
      BY <1>2, <3>1, <3>2, Seen
  <2>2. CASE scope.saves # <<>>
    <3>1. Merges(work, scope, frames, work', scope', frames')
      BY <1>2, <1>4, <2>2, OuterMoves
    <3> QED
      BY <1>2, <3>1, Seen
  <2> QED
    BY <2>1, <2>2
<1>5. CASE ForgetScope
  BY <1>4, <1>5 DEF ForgetScope
<1>6. CASE Forget /\ ~ForgetScope
  <2>1. Consumes(call.op, scope)
    BY <1>6, Calling DEF Forget
  <2> QED
    BY <1>3, <1>4, <1>6, <2>1 DEF Forget, Consumes, Consumed
<1> QED
  BY <1>5, <1>6

(* A scope that is dropped is discarded.                                   *)
LEMMA DropScopeSeen ==
    ASSUME WorkInv, DropScope
    PROVE  SeenNext /\ Scopes!Discard
<1>1. scope.tx /\ UNCHANGED <<frames, durable>>
  BY DEF DropScope
<1>2. Sound(work, scope, frames)
  BY <1>1 DEF WorkInv, CallOwns, Borrowed
<1>3. PICK op \in {"Rollback", "Release"} :
        Leaves(Dropped(op, work, scope)) /\ Consumes(op, scope)
  BY <1>1 DEF DropScope, Consumes
<1>4. Stays(work, scope, frames, work, scope, frames) /\ Gives(op)
  BY <1>3 DEF Stays, Gives
<1> QED
  BY <1>1, <1>2, <1>3, <1>4, EndsSeen

(* The connection changes hands or ends only where no scope is live.       *)
LEMMA ConnSeen ==
    ASSUME WorkInv, Provide \/ DropConnection \/ Stop \/ Release \/ Retire \/ ForcePhase
    PROVE  SeenNext
<1>1. scope' = scope /\ durable' = durable
  BY DEF Provide, DropConnection, Stop, Release, Retire, ForcePhase
<1>2. CASE Provide \/ DropConnection \/ Stop
  BY <1>1, <1>2, StillSeen DEF Provide, DropConnection, Stop
<1>3. CASE Release \/ Retire \/ ForcePhase
  <2>1. conn # "Retired" /\ (Parks \/ Unused)
    BY <1>3 DEF Release, Retire, ForcePhase, Parks
  <2>2. ~scope.tx
    BY <2>1, Parked
  <2> QED
    BY <1>1, <2>2, NoneSeen
<1> QED
  BY <1>2, <1>3

-----------------------------------------------------------------------------
(* Steps that change SQLite's transaction *)

(* Frames that are opened and released are counted, so that the depths of  *)
(* the other savepoints keep theirs.                                       *)
LEMMA Recounted ==
    ASSUME NEW x \in Nat, NEW d \in Nat, NEW l \in Nat
    PROVE  /\ x + 1 - ((d - 1) - (l - 1 - 1)) = x + 1 - (d - (l - 1))
           /\ x + 1 - ((d + 1) - (l + 1 - 1)) = x + 1 - (d - (l - 1))
OBVIOUS

LEMMA SameFrames ==
    ASSUME NEW w, NEW f, NEW v, NEW g, w.depth \in Nat, Len(f) \in Nat,
           \/ v.depth = w.depth /\ Len(g) = Len(f)
           \/ v.depth = w.depth - 1 /\ Len(g) = Len(f) - 1
           \/ v.depth = w.depth + 1 /\ Len(g) = Len(f) + 1
    PROVE  Aligned(w, f, v, g)
<1> SUFFICES ASSUME NEW x \in Nat PROVE FrameOf(v, g, x) = FrameOf(w, f, x)
  BY DEF Aligned
<1>1. CASE v.depth = w.depth /\ Len(g) = Len(f)
  BY <1>1 DEF FrameOf
<1>2. CASE v.depth = w.depth - 1 /\ Len(g) = Len(f) - 1
  <2>1. x + 1 - ((w.depth - 1) - (Len(f) - 1 - 1)) = x + 1 - (w.depth - (Len(f) - 1))
    BY Recounted
  <2> QED
    BY <1>2, <2>1 DEF FrameOf
<1>3. CASE v.depth = w.depth + 1 /\ Len(g) = Len(f) + 1
  <2>1. x + 1 - ((w.depth + 1) - (Len(f) + 1 - 1)) = x + 1 - (w.depth - (Len(f) - 1))
    BY Recounted
  <2> QED
    BY <1>3, <2>1 DEF FrameOf
<1> QED
  BY <1>1, <1>2, <1>3

(* The counted depth is that of the last frame.                            *)
LEMMA TopFrame ==
    ASSUME NEW w, NEW f, w.depth \in Nat, Len(f) \in Nat
    PROVE  FrameOf(w, f, w.depth) = Len(f)
<1>1. ASSUME NEW d \in Nat, NEW l \in Nat PROVE d + 1 - (d - (l - 1)) = l
  OBVIOUS
<1> QED
  BY <1>1 DEF FrameOf

(* Scopes keep their intervals where depths keep their frames.             *)
LEMMA SameBounds ==
    ASSUME NEW w, NEW s, NEW f, NEW v, NEW g, Sound(w, s, f), s.tx, ~DoomedOf(w, s),
           Aligned(w, f, v, g)
    PROVE  /\ \A k \in 1 .. Len(s.saves) + 1 : First(v, s, g, k) = First(w, s, f, k)
           /\ \A k \in 1 .. Len(s.saves) : EndOf(v, s, g, k) = EndOf(w, s, f, k)
           /\ EndOf(v, s, g, Len(s.saves) + 1) = LastKept(v, g)
           /\ EndOf(w, s, f, Len(s.saves) + 1) = LastKept(w, f)
<1> DEFINE n == Len(s.saves)
<1>1. n \in Nat
  BY NotDoomed
<1>2. \A i \in 1 .. n : s.saves[i] \in Nat
  BY Bounds
<1> HIDE DEF n
<1>3. ASSUME NEW k \in 1 .. n + 1 PROVE First(v, s, g, k) = First(w, s, f, k)
  <2>1. k # 1 => k - 1 \in 1 .. n
    BY <1>1
  <2> QED
    BY <1>2, <2>1 DEF First, Aligned
<1>4. ASSUME NEW k \in 1 .. n PROVE EndOf(v, s, g, k) = EndOf(w, s, f, k)
  <2>1. k <= Len(s.saves)
    BY <1>1 DEF n
  <2> QED
    BY <1>2, <2>1 DEF EndOf, Aligned
<1>5. ~(n + 1 <= Len(s.saves))
  BY <1>1 DEF n
<1> QED
  BY <1>3, <1>4, <1>5 DEF EndOf, n

(* Frames that belong to no scope change.                                  *)
LEMMA SameParts ==
    ASSUME NEW w, NEW s, NEW f, NEW v, NEW g, Sound(w, s, f), Sound(v, s, g), s.tx,
           ~DoomedOf(w, s), ~DoomedOf(v, s),
           Aligned(w, f, v, g),
           LastKept(v, g) = LastKept(w, f), \A i \in 1 .. LastKept(w, f) : g[i] = f[i]
    PROVE  Stays(w, s, f, v, s, g)
<1> DEFINE n == Len(s.saves)
<1>0. n \in Nat /\ LastKept(w, f) \in Nat /\ Len(f) \in Nat
  BY NotDoomed, Bounds
<1>1. \A k \in 1 .. n + 1 : First(v, s, g, k) = First(w, s, f, k)
  BY SameBounds
<1>2. \A k \in 1 .. n + 1 : EndOf(v, s, g, k) = EndOf(w, s, f, k)
  <2>1. /\ \A k \in 1 .. n : EndOf(v, s, g, k) = EndOf(w, s, f, k)
        /\ EndOf(v, s, g, n + 1) = EndOf(w, s, f, n + 1)
    BY SameBounds
  <2>2. \A k \in 1 .. n + 1 : k \in 1 .. n \/ k = n + 1
    BY <1>0
  <2> HIDE DEF n
  <2> QED
    BY <2>1, <2>2
<1>3. ASSUME NEW k \in 1 .. n + 1
      PROVE  Part(g, First(v, s, g, k), EndOf(v, s, g, k)) = Part(f, First(w, s, f, k), EndOf(w, s, f, k))
  <2>1. /\ First(w, s, f, k) \in 1 .. Len(f) /\ EndOf(w, s, f, k) \in 1 .. Len(f)
        /\ EndOf(w, s, f, k) <= LastKept(w, f)
    BY Intervals
  <2>2. \A i \in First(w, s, f, k) .. EndOf(w, s, f, k) : i \in 1 .. LastKept(w, f)
    BY <1>0, <2>1
  <2>3. Part(g, First(w, s, f, k), EndOf(w, s, f, k)) = Part(f, First(w, s, f, k), EndOf(w, s, f, k))
    BY <2>2, PartSame
  <2> QED
    BY <1>1, <1>2, <2>3
<1>4. /\ ScopedOf(w, s, f) = [k \in 1 .. n + 1 |-> Part(f, First(w, s, f, k), EndOf(w, s, f, k))]
      /\ ScopedOf(v, s, g) = [k \in 1 .. n + 1 |-> Part(g, First(v, s, g, k), EndOf(v, s, g, k))]
  BY ScopedParts
<1> HIDE DEF n
<1>5. ScopedOf(v, s, g) = ScopedOf(w, s, f)
  BY <1>3, <1>4
<1> QED
  BY <1>5 DEF Stays

(* RELEASE loses no writes.                                                *)
LEMMA PartReleased ==
    ASSUME NEW f \in Seq(SUBSET Writes), Len(f) > 1, NEW a \in 1 .. Len(f) - 1
    PROVE  Part(Released(f), a, Len(f) - 1) = Part(f, a, Len(f))
<1> DEFINE g == Released(f)
           l == Len(f)
<1>1. /\ l \in Nat /\ l > 1 /\ \A i \in 1 .. l - 2 : g[i] = f[i]
      /\ g[l - 1] = f[l - 1] \cup f[l]
  BY ReleasedElements
<1> HIDE DEF g, l
<1>2. /\ a .. l = (a .. l - 2) \cup {l - 1, l} /\ a .. l - 1 = (a .. l - 2) \cup {l - 1}
      /\ \A i \in a .. l - 2 : i \in 1 .. l - 2
  BY <1>1 DEF l
<1>3. ASSUME NEW x, \E i \in a .. l : x \in f[i] PROVE \E i \in a .. l - 1 : x \in g[i]
  BY <1>1, <1>2, <1>3
<1>4. ASSUME NEW x, \E i \in a .. l - 1 : x \in g[i] PROVE \E i \in a .. l : x \in f[i]
  BY <1>1, <1>2, <1>4
<1>5. \A x : x \in Part(g, a, l - 1) <=> x \in Part(f, a, l)
  BY <1>3, <1>4 DEF Part
<1> QED
  BY <1>5 DEF g, l

(* What a step of the cleanup leaves owed.                                 *)
LEMMA CompleteFacts ==
    ASSUME NEW w \in Works, w.debt.kind \in {"Tx", "Save"}
    PROVE  LET v == Complete(w)
           IN /\ v.health = w.health
              /\ w.debt.kind = "Tx" => v.debt = NoDebt
              /\ w.debt.kind = "Save" /\ ~w.debt.undone =>
                    /\ v.depth = w.depth /\ v.debt.kind = "Save"
                    /\ v.debt.target = w.debt.target
              /\ w.debt.kind = "Save" /\ w.debt.undone /\ w.depth # w.debt.target =>
                    /\ v.depth = w.depth - 1 /\ v.debt.kind = "Save"
                    /\ v.debt.target = w.debt.target /\ ~v.debt.undone
              /\ w.debt.kind = "Save" /\ w.debt.undone /\ w.depth = w.debt.target =>
                    v.depth = w.depth - 1 /\ v.debt = NoDebt
<1> DEFINE v == Complete(w)
<1>0. w.debt \in Debts /\ w.debt.undone \in BOOLEAN
  BY DEF Works, Debts
<1>1. CASE w.debt.kind = "Tx"
  <2>1. v = [w EXCEPT !.depth = 0, !.debt = NoDebt, !.mode = "Idle"]
    BY <1>1 DEF Complete
  <2> HIDE DEF v
  <2>2. v.health = w.health /\ v.debt = NoDebt
    BY <2>1 DEF Works
  <2> QED
    BY <1>1, <2>2 DEF v
<1>2. CASE w.debt.kind = "Save" /\ ~w.debt.undone
  <2>1. v = [w EXCEPT !.debt.undone = TRUE, !.mode = "Cleanup"]
    BY <1>2 DEF Complete
  <2> HIDE DEF v
  <2>2. v.depth = w.depth /\ v.health = w.health /\ v.debt = [w.debt EXCEPT !.undone = TRUE]
    BY <2>1 DEF Works
  <2>3. v.debt.kind = "Save" /\ v.debt.target = w.debt.target
    BY <1>0, <1>2, <2>2 DEF Debts
  <2> QED
    BY <1>2, <2>2, <2>3 DEF v
<1>3. CASE w.debt.kind = "Save" /\ w.debt.undone /\ w.depth # w.debt.target
  <2>1. v = [w EXCEPT !.depth = @ - 1, !.debt.undone = FALSE, !.mode = "Cleanup"]
    BY <1>3 DEF Complete
  <2> HIDE DEF v
  <2>2. v.depth = w.depth - 1 /\ v.health = w.health /\ v.debt = [w.debt EXCEPT !.undone = FALSE]
    BY <2>1 DEF Works
  <2>3. v.debt.kind = "Save" /\ v.debt.target = w.debt.target
    BY <1>0, <1>3, <2>2 DEF Debts
  <2>4. ~v.debt.undone
    <3>1. "undone" \in DOMAIN w.debt
      BY <1>0, Zenon DEF Debts
    <3>2. [w.debt EXCEPT !.undone = FALSE].undone = FALSE
      BY <3>1, Zenon
    <3> QED
      BY <2>2, <3>2
  <2> QED
    BY <1>3, <2>2, <2>3, <2>4 DEF v
<1>4. CASE w.debt.kind = "Save" /\ w.debt.undone /\ w.depth = w.debt.target
  <2>1. v = [w EXCEPT !.depth = @ - 1, !.debt = NoDebt, !.mode = "Idle"]
    BY <1>4 DEF Complete
  <2> HIDE DEF v
  <2>2. v.depth = w.depth - 1 /\ v.health = w.health /\ v.debt = NoDebt
    BY <2>1 DEF Works
  <2> QED
    BY <1>4, <2>2 DEF v
<1> QED
  BY <1>0, <1>1, <1>2, <1>3, <1>4

(* Paying a debt changes nothing that a scope can see; the last savepoint  *)
(* is released into the scope around it only when it has been emptied.     *)
LEMMA CompleteMoves ==
    ASSUME NEW w, NEW s, NEW f, Sound(w, s, f), w.debt.kind \in {"Tx", "Save"}, s.tx,
           w.debt.kind = "Save" /\ w.debt.undone => f[Len(f)] = {}
    PROVE  Stays(w, s, f, Complete(w), s, Settled(w, f))
<1> DEFINE v == Complete(w)
           g == Settled(w, f)
           l == Len(f)
<1>0. w \in Works /\ s \in Live /\ w.health # "Failed" /\ v.health = w.health
  BY CompleteFacts DEF Sound, Typed, FailedFinal
<1>1. Sound(v, s, g)
  BY CompleteSound
<1>2. DoomedOf(w, s) <=> s.failed # "None"
  BY <1>0, Constants DEF DoomedOf, Sound, ScopeBacked
<1>3. DoomedOf(v, s) <=> s.failed # "None"
  BY <1>0, <1>1, Constants DEF DoomedOf, Sound, ScopeBacked
<1>4. CASE s.failed # "None"
  <2>1. DoomedOf(w, s) /\ DoomedOf(v, s)
    BY <1>2, <1>3, <1>4
  <2> HIDE DEF v, g
  <2>2. ScopedOf(v, s, g) = ScopedOf(w, s, f)
    <3>1. ScopedOf(v, s, g) = [k \in 1 .. Len(s.saves) + 1 |-> {}]
      BY <2>1, ScopedBlank
    <3>2. ScopedOf(w, s, f) = [k \in 1 .. Len(s.saves) + 1 |-> {}]
      BY <2>1, ScopedBlank
    <3> QED
      BY <3>1, <3>2
  <2> QED
    BY <2>1, <2>2 DEF Stays, v, g
<1>5. CASE s.failed = "None"
  <2>1. ~DoomedOf(w, s) /\ ~DoomedOf(v, s)
    BY <1>2, <1>3, <1>5
  <2>2. /\ w.debt.kind = "Save" /\ w.depth \in Nat /\ l \in Nat \ {0} /\ f \in Seq(SUBSET Writes)
        /\ f \in Native /\ f # <<>> /\ w.debt.target \in Nat /\ w.debt.undone \in BOOLEAN
    BY <1>0, <2>1, NotDoomed DEF Works, Debts
  <2>3. /\ w.debt.target \in 1 .. w.depth /\ w.debt.target + l >= w.depth + 2
    BY <2>2 DEF Sound, DebtSound
  <2>4. FrameOf(w, f, w.debt.target) \in 2 .. l
    BY <2>2, <2>3, FrameAbove
  <2>5. LastKept(w, f) = FrameOf(w, f, w.debt.target) - 1
    BY <2>2 DEF LastKept
  <2>6. l > 1
    BY <2>2, <2>4
  <2>7. CASE ~w.debt.undone
    <3>1. v.depth = w.depth /\ v.debt.kind = "Save" /\ v.debt.target = w.debt.target
      BY <1>0, <2>2, <2>7, CompleteFacts
    <3>2. g = [f EXCEPT ![l] = {}]
      BY <2>2, <2>7 DEF Settled, Undone
    <3> HIDE DEF v, g
    <3>3. Len(g) = l /\ \A i \in 1 .. l - 1 : g[i] = f[i]
      BY <2>2, <3>2
    <3>4. Aligned(w, f, v, g)
      BY <2>2, <3>1, <3>3, SameFrames
    <3>5. LastKept(v, g) = LastKept(w, f)
      BY <2>2, <2>5, <3>1, <3>4 DEF LastKept, Aligned
    <3>6. \A i \in 1 .. LastKept(w, f) : g[i] = f[i]
      BY <2>2, <2>4, <2>5, <3>3
    <3> QED
      BY <1>1, <2>1, <3>4, <3>5, <3>6, SameParts DEF v, g
  <2>8. CASE w.debt.undone
    <3>1. g = Released(f)
      BY <2>2, <2>8 DEF Settled
    <3>2. /\ v.depth = w.depth - 1
          /\ w.depth # w.debt.target => v.debt.kind = "Save" /\ v.debt.target = w.debt.target
          /\ w.depth = w.debt.target => v.debt.kind = "None"
      BY <1>0, <2>2, <2>8, CompleteFacts, Constants
    <3> HIDE DEF v, g
    <3>3. /\ Len(g) = l - 1 /\ \A i \in 1 .. l - 2 : g[i] = f[i]
          /\ g[l - 1] = f[l - 1] \cup f[l]
      BY <2>2, <2>6, <3>1, ReleasedElements
    <3>4. Aligned(w, f, v, g)
      BY <2>2, <3>2, <3>3, SameFrames
    <3>5. g[l - 1] = f[l - 1]
      BY <2>2, <2>8, <3>3
    <3>6. CASE w.depth # w.debt.target
      <4>1. LastKept(v, g) = LastKept(w, f)
        BY <2>2, <2>5, <3>2, <3>4, <3>6 DEF LastKept, Aligned
      <4>2. FrameOf(w, f, w.debt.target) <= FrameOf(w, f, w.depth) - 1 /\ FrameOf(w, f, w.depth) = l
        <5>1. w.debt.target < w.depth
          BY <2>2, <2>3, <3>6
        <5> QED
          BY <2>2, <5>1, FrameOrder, TopFrame
      <4>3. \A i \in 1 .. LastKept(w, f) : i \in 1 .. l - 2
        BY <2>2, <2>4, <2>5, <4>2
      <4> QED
        BY <1>1, <2>1, <3>3, <3>4, <4>1, <4>3, SameParts DEF v, g
    <3>7. CASE w.depth = w.debt.target
      <4>1. FrameOf(w, f, w.debt.target) = l
        BY <2>2, <3>7, TopFrame
      <4>2. LastKept(w, f) = l - 1 /\ LastKept(v, g) = l - 1
        BY <2>5, <3>2, <3>3, <3>7, <4>1 DEF LastKept
      <4>3. \A i \in 1 .. LastKept(w, f) : i \in 1 .. l - 2 \/ i = l - 1
        BY <2>2, <4>2
      <4> QED
        BY <1>1, <2>1, <3>3, <3>4, <3>5, <4>2, <4>3, SameParts DEF v, g
    <3> QED
      BY <3>6, <3>7
  <2> QED
    BY <2>7, <2>8
<1> QED
  BY <1>4, <1>5

(* The innermost savepoint of SQLite is released: it is one that was       *)
(* forgotten inside the innermost scope, or the scope's own.               *)
LEMMA CloseMoves ==
    ASSUME NEW w, NEW s, NEW f, Sound(w, s, f), w.debt.kind = "None", s.tx, ~DoomedOf(w, s),
           s.saves # <<>>, Len(f) > 1
    PROVE  LET v == [w EXCEPT !.depth = @ - 1]
               t == [s EXCEPT !.saves = Front(@)]
           IN /\ w.depth # Last(s.saves) => Stays(w, s, f, v, s, Released(f))
              /\ w.depth = Last(s.saves) => Merges(w, s, f, v, t, Released(f))
<1> DEFINE v == [w EXCEPT !.depth = @ - 1]
           t == [s EXCEPT !.saves = Front(@)]
           g == Released(f)
           n == Len(s.saves)
           l == Len(f)
           a == ScopedOf(w, s, f)
<1>0. /\ w \in Works /\ w.depth \in 0 .. MaxSave /\ w.depth \in Nat /\ w.health # "Failed"
      /\ s \in Live /\ s.failed = "None" /\ s.saves \in Seq(1 .. MaxSave) /\ n \in Nat
      /\ f \in Seq(SUBSET Writes) /\ l \in Nat \ {0} /\ l > 1
  BY NotDoomed
<1>1. /\ n \in Nat \ {0} /\ Last(s.saves) = s.saves[n] /\ n \in 1 .. n
      /\ Front(s.saves) \in Seq(1 .. MaxSave) /\ Len(Front(s.saves)) = n - 1
  BY <1>0, FrontLast
<1>2. /\ s.saves[n] \in 1 .. w.depth /\ s.saves[n] \in Nat
      /\ FrameOf(w, f, s.saves[n]) \in 2 .. l
  BY <1>1, Bounds
<1>3. w.depth - 1 \in 0 .. MaxSave
  BY <1>0, <1>2, Constants
<1>4. v.depth = w.depth - 1 /\ v.debt = w.debt /\ v.health = w.health
  BY <1>0, <1>3, WorkUpdates
<1>5. /\ g \in Seq(SUBSET Writes) /\ Len(g) = l - 1 /\ \A i \in 1 .. l - 2 : g[i] = f[i]
  BY <1>0, ReleasedElements
<1>6. t.tx /\ t.failed = s.failed /\ t.saves = Front(s.saves)
  BY <1>0, <1>1, LiveUpdates
<1>7. /\ w.depth # Last(s.saves) => Sound(v, s, g)
      /\ w.depth = Last(s.saves) => Sound(v, t, g)
  BY <1>0, CloseSound
<1>8. LastKept(w, f) = l
  BY DEF LastKept
<1> HIDE DEF v, t
<1>9. Aligned(w, f, v, g)
  BY <1>0, <1>4, <1>5, SameFrames
<1>10. ~DoomedOf(v, s) /\ ~DoomedOf(v, t) /\ LastKept(v, g) = l - 1
  BY <1>0, <1>4, <1>5, <1>6, Constants DEF DoomedOf, LastKept
<1>11. a = [k \in 1 .. n + 1 |-> Part(f, First(w, s, f, k), EndOf(w, s, f, k))]
  BY ScopedParts
<1>12. /\ First(w, s, f, n + 1) = FrameOf(w, f, s.saves[n]) /\ EndOf(w, s, f, n + 1) = l
       /\ EndOf(w, s, f, n) = FrameOf(w, f, s.saves[n]) - 1
  <2>1. n + 1 # 1 /\ n + 1 - 1 = n /\ ~(n + 1 <= Len(s.saves)) /\ n <= Len(s.saves)
    BY <1>1
  <2>2. First(w, s, f, n + 1) = FrameOf(w, f, s.saves[n])
    BY <2>1 DEF First
  <2>3. EndOf(w, s, f, n + 1) = l
    BY <1>8, <2>1 DEF EndOf
  <2>4. EndOf(w, s, f, n) = FrameOf(w, f, s.saves[n]) - 1
    BY <2>1 DEF EndOf
  <2> QED
    BY <2>2, <2>3, <2>4
<1>13. CASE w.depth # Last(s.saves)
  <2> DEFINE b == ScopedOf(v, s, g)
  <2>1. FrameOf(w, f, s.saves[n]) <= l - 1
    <3>1. s.saves[n] < w.depth
      BY <1>0, <1>1, <1>2, <1>13
    <3>2. FrameOf(w, f, s.saves[n]) <= FrameOf(w, f, w.depth) - 1
      BY <1>0, <1>2, <3>1, FrameOrder
    <3> QED
      BY <1>0, <3>2, TopFrame
  <2>2. b = [k \in 1 .. n + 1 |-> Part(g, First(v, s, g, k), EndOf(v, s, g, k))]
    BY <1>7, <1>10, <1>13, ScopedParts
  <2>3. /\ \A k \in 1 .. n + 1 : First(v, s, g, k) = First(w, s, f, k)
        /\ \A k \in 1 .. n : EndOf(v, s, g, k) = EndOf(w, s, f, k)
        /\ EndOf(v, s, g, n + 1) = LastKept(v, g)
    BY <1>9, SameBounds
  <2> HIDE DEF a, b, g, n, l
  <2>4. ASSUME NEW k \in 1 .. n PROVE b[k] = a[k]
    <3>1. k \in 1 .. n + 1
      BY <1>1
    <3>2. /\ First(w, s, f, k) \in 1 .. l /\ EndOf(w, s, f, k) \in 1 .. l
          /\ EndOf(w, s, f, k) <= l - 2
      <4>1. First(w, s, f, k) \in 1 .. l /\ EndOf(w, s, f, k) \in 1 .. l
        BY <3>1, Intervals DEF n, l
      <4>2. EndOf(w, s, f, k) = FrameOf(w, f, s.saves[k]) - 1
        BY <1>1 DEF EndOf, n
      <4>3. k = n \/ FrameOf(w, f, s.saves[k]) <= FrameOf(w, f, s.saves[n]) - 1
        <5>1. k < n \/ k = n
          BY <1>1
        <5> QED
          BY <1>1, <5>1, Bounds DEF n
      <4>4. FrameOf(w, f, s.saves[k]) \in 2 .. l
        BY Bounds DEF n, l
      <4> QED
        BY <1>0, <1>2, <2>1, <4>1, <4>2, <4>3, <4>4
    <3>3. \A i \in First(w, s, f, k) .. EndOf(w, s, f, k) : i \in 1 .. l - 2
      BY <1>0, <3>2
    <3>4. Part(g, First(w, s, f, k), EndOf(w, s, f, k)) =
            Part(f, First(w, s, f, k), EndOf(w, s, f, k))
      BY <1>5, <3>3, PartSame
    <3> QED
      BY <1>11, <2>2, <2>3, <3>1, <3>4
  <2>5. b[n + 1] = a[n + 1]
    <3>1. n + 1 \in 1 .. n + 1
      BY <1>1
    <3>2. b[n + 1] = Part(g, FrameOf(w, f, s.saves[n]), l - 1)
      BY <1>10, <1>12, <2>2, <2>3, <3>1
    <3>3. a[n + 1] = Part(f, FrameOf(w, f, s.saves[n]), l)
      BY <1>11, <1>12, <3>1
    <3>4. FrameOf(w, f, s.saves[n]) \in 1 .. l - 1
      BY <1>0, <1>2, <2>1
    <3>5. Part(g, FrameOf(w, f, s.saves[n]), l - 1) = Part(f, FrameOf(w, f, s.saves[n]), l)
      BY <1>0, <3>4, PartReleased DEF g, l
    <3> QED
      BY <3>2, <3>3, <3>5
  <2>6. \A k \in 1 .. n + 1 : b[k] = a[k]
    <3>1. \A k \in 1 .. n + 1 : k \in 1 .. n \/ k = n + 1
      BY <1>1
    <3> QED
      BY <2>4, <2>5, <3>1
  <2>7. b = a
    BY <1>11, <2>2, <2>6
  <2>8. Stays(w, s, f, v, s, g)
    BY <1>10, <2>7 DEF Stays, a, b
  <2> QED
    BY <1>13, <2>8 DEF v, g
<1>14. CASE w.depth = Last(s.saves)
  <2> DEFINE b == ScopedOf(v, t, g)
  <2>1. FrameOf(w, f, s.saves[n]) = l
    BY <1>0, <1>1, <1>14, TopFrame
  <2>2. /\ Len(t.saves) = n - 1
        /\ \A k \in 1 .. n : First(v, t, g, k) = First(w, s, f, k)
        /\ \A k \in 1 .. n - 1 : EndOf(v, t, g, k) = EndOf(w, s, f, k)
        /\ EndOf(v, t, g, n) = LastKept(v, g)
    BY <1>6, <1>7, <1>9, <1>10, <1>14, Around
  <2>3. b = [k \in 1 .. n |-> Part(g, First(v, t, g, k), EndOf(v, t, g, k))]
    <3>1. b = [k \in 1 .. Len(t.saves) + 1 |-> Part(g, First(v, t, g, k), EndOf(v, t, g, k))]
      BY <1>6, <1>7, <1>10, <1>14, ScopedParts
    <3>2. Len(t.saves) + 1 = n
      BY <1>1, <2>2
    <3> QED
      BY <3>1, <3>2
  <2>4. /\ a \in Seq(SUBSET Writes) /\ Len(a) = n + 1
        /\ b \in Seq(SUBSET Writes) /\ Len(b) = Len(t.saves) + 1
    BY <1>6, <1>7, <1>14, ScopedTyped
  <2> HIDE DEF a, b, g, n, l
  <2>5. ASSUME NEW k \in 1 .. n - 1 PROVE b[k] = a[k]
    <3>1. k \in 1 .. n + 1 /\ k \in 1 .. n /\ k < n
      BY <1>1
    <3>2. /\ First(w, s, f, k) \in 1 .. l /\ EndOf(w, s, f, k) \in 1 .. l
          /\ EndOf(w, s, f, k) <= l - 2
      <4>1. First(w, s, f, k) \in 1 .. l /\ EndOf(w, s, f, k) \in 1 .. l
        BY <3>1, Intervals DEF n, l
      <4>0. k <= Len(s.saves)
        BY <1>1, <3>1 DEF n
      <4>2. EndOf(w, s, f, k) = FrameOf(w, f, s.saves[k]) - 1
        BY <4>0 DEF EndOf
      <4>3. FrameOf(w, f, s.saves[k]) <= FrameOf(w, f, s.saves[n]) - 1
        BY <1>1, <3>1, Bounds DEF n
      <4>4. FrameOf(w, f, s.saves[k]) \in 2 .. l
        BY <3>1, Bounds DEF n, l
      <4> QED
        BY <1>0, <2>1, <4>1, <4>2, <4>3, <4>4
    <3>3. \A i \in First(w, s, f, k) .. EndOf(w, s, f, k) : i \in 1 .. l - 2
      BY <1>0, <3>2
    <3>4. Part(g, First(w, s, f, k), EndOf(w, s, f, k)) =
            Part(f, First(w, s, f, k), EndOf(w, s, f, k))
      BY <1>5, <3>3, PartSame
    <3> QED
      BY <1>11, <2>2, <2>3, <3>1, <3>4
  <2>6. b[n] = a[n] \cup a[n + 1]
    <3>1. n + 1 \in 1 .. n + 1 /\ n \in 1 .. n + 1 /\ n \in 1 .. n
      BY <1>1
    <3>2. First(w, s, f, n) \in 1 .. l /\ First(w, s, f, n) <= EndOf(w, s, f, n)
      BY <3>1, Intervals DEF n, l
    <3>3. First(w, s, f, n) \in 1 .. l - 1 /\ First(w, s, f, n) \in Nat /\ First(w, s, f, n) <= l
      BY <1>0, <1>12, <2>1, <3>2
    <3>4. b[n] = Part(g, First(w, s, f, n), l - 1)
      BY <1>10, <2>2, <2>3, <3>1
    <3>5. a[n] = Part(f, First(w, s, f, n), l - 1) /\ a[n + 1] = Part(f, l, l)
      BY <1>11, <1>12, <2>1, <3>1
    <3>6. Part(g, First(w, s, f, n), l - 1) = Part(f, First(w, s, f, n), l)
      BY <1>0, <3>3, PartReleased DEF g, l
    <3>7. Part(f, First(w, s, f, n), l) = Part(f, First(w, s, f, n), l - 1) \cup Part(f, l, l)
      <4>1. l \in Nat /\ l <= l
        BY <1>0
      <4>2. ASSUME NEW x \in Nat, x <= l
            PROVE  Part(f, x, l) = Part(f, x, l - 1) \cup Part(f, l, l)
        BY ONLY <4>1, <4>2, PartSplit
      <4> QED
        BY <3>3, <4>2
    <3> QED
      BY <3>4, <3>5, <3>6, <3>7
  <2>7. Len(b) = Len(a) - 1 /\ Len(a) > 1 /\ Len(a) - 2 = n - 1 /\ Len(a) - 1 = n /\ Len(a) = n + 1
    BY <1>1, <2>2, <2>4
  <2>8. b = Released(a)
    <3>1. \A i \in 1 .. Len(a) - 2 : b[i] = a[i]
      BY ONLY <2>5, <2>7
    <3>2. b[Len(a) - 1] = a[Len(a) - 1] \cup a[Len(a)]
      BY ONLY <2>6, <2>7
    <3> QED
      BY <2>4, <2>7, <3>1, <3>2, ReleasedIs
  <2>9. Merges(w, s, f, v, t, g)
    BY <1>10, <2>7, <2>8 DEF Merges, a, b
  <2> QED
    BY <1>14, <2>9 DEF v, t, g
<1> QED
  BY <1>13, <1>14

(* A savepoint is opened for a new innermost scope.                        *)
LEMMA OpenMoves ==
    ASSUME NEW w, NEW s, NEW f, Sound(w, s, f), w.debt.kind = "None", s.tx, ~DoomedOf(w, s),
           w.depth < MaxSave
    PROVE  LET v == [w EXCEPT !.depth = @ + 1]
               t == [s EXCEPT !.saves = Append(@, w.depth + 1)]
           IN /\ ScopedOf(v, t, Append(f, {})) = Append(ScopedOf(w, s, f), {})
              /\ ~DoomedOf(v, t)
<1> DEFINE v == [w EXCEPT !.depth = @ + 1]
           t == [s EXCEPT !.saves = Append(@, w.depth + 1)]
           g == Append(f, {})
           q == Append(s.saves, w.depth + 1)
           n == Len(s.saves)
           l == Len(f)
           a == ScopedOf(w, s, f)
           b == ScopedOf(v, t, g)
<1>0. /\ w \in Works /\ w.depth \in 0 .. MaxSave /\ w.depth \in Nat /\ w.health # "Failed"
      /\ s \in Live /\ s.failed = "None" /\ s.saves \in Seq(1 .. MaxSave) /\ n \in Nat
      /\ f \in Seq(SUBSET Writes) /\ l \in Nat \ {0} /\ f # <<>> /\ MaxSave \in Nat
  BY NotDoomed, Constants
<1>1. w.depth + 1 \in 0 .. MaxSave /\ w.depth + 1 \in 1 .. MaxSave
  BY <1>0
<1>2. v.depth = w.depth + 1 /\ v.debt = w.debt /\ v.health = w.health
  BY <1>0, <1>1, WorkUpdates
<1>3. /\ q \in Seq(1 .. MaxSave) /\ Len(q) = n + 1 /\ q[n + 1] = w.depth + 1
      /\ \A i \in 1 .. n : q[i] = s.saves[i]
  BY <1>0, <1>1
<1>4. t.tx /\ t.failed = s.failed /\ t.saves = q
  <2> HIDE DEF q
  <2>1. t = [s EXCEPT !.saves = q]
    BY <1>0 DEF Live, q
  <2> HIDE DEF t
  <2> QED
    BY <1>0, <1>3, <2>1, LiveUpdates
<1>5. Len(g) = l + 1 /\ g[l + 1] = {} /\ \A i \in 1 .. l : g[i] = f[i]
  BY <1>0
<1>6. Sound(v, t, g)
  BY <1>0, OpenSound
<1> HIDE DEF v, t, g, q
<1>7. Aligned(w, f, v, g)
  BY <1>0, <1>2, <1>5, SameFrames
<1>8. ~DoomedOf(v, t) /\ LastKept(w, f) = l /\ LastKept(v, g) = l + 1
  BY <1>0, <1>2, <1>4, <1>5, Constants DEF DoomedOf, LastKept
<1>9. FrameOf(v, g, w.depth + 1) = l + 1
  <2>1. v.depth \in Nat /\ Len(g) \in Nat
    BY <1>0, <1>2, <1>5
  <2> QED
    BY <1>2, <1>5, <2>1, TopFrame
<1>10. \A i \in 1 .. n : s.saves[i] \in Nat /\ FrameOf(v, g, t.saves[i]) = FrameOf(w, f, s.saves[i])
  <2>1. \A i \in 1 .. n : s.saves[i] \in Nat
    BY Bounds
  <2> QED
    BY <1>3, <1>4, <1>7, <2>1 DEF Aligned
<1>11. /\ a = [k \in 1 .. n + 1 |-> Part(f, First(w, s, f, k), EndOf(w, s, f, k))]
       /\ b = [k \in 1 .. n + 2 |-> Part(g, First(v, t, g, k), EndOf(v, t, g, k))]
  <2>1. /\ a = [k \in 1 .. n + 1 |-> Part(f, First(w, s, f, k), EndOf(w, s, f, k))]
        /\ b = [k \in 1 .. Len(t.saves) + 1 |-> Part(g, First(v, t, g, k), EndOf(v, t, g, k))]
    BY <1>4, <1>6, <1>8, ScopedParts
  <2>2. Len(t.saves) + 1 = n + 2
    BY <1>0, <1>3, <1>4
  <2> QED
    BY <2>1, <2>2
<1>12. /\ a \in Seq(SUBSET Writes) /\ Len(a) = n + 1
       /\ b \in Seq(SUBSET Writes) /\ Len(b) = Len(t.saves) + 1
  BY <1>4, <1>6, ScopedTyped
<1> HIDE DEF a, b, n, l
<1>13. ASSUME NEW k \in 1 .. n + 1 PROVE b[k] = a[k]
  <2>1. k \in 1 .. n + 2 /\ (k # 1 => k - 1 \in 1 .. n)
    BY <1>0
  <2>2. First(v, t, g, k) = First(w, s, f, k)
    BY <1>10, <2>1 DEF First
  <2>3. EndOf(v, t, g, k) = EndOf(w, s, f, k)
    <3>1. CASE k \in 1 .. n
      <4>1. k <= Len(s.saves) /\ k <= Len(t.saves)
        BY <1>0, <1>3, <1>4, <3>1 DEF n
      <4> QED
        BY <1>10, <3>1, <4>1 DEF EndOf
    <3>2. CASE k = n + 1
      <4>1. ~(n + 1 <= Len(s.saves)) /\ n + 1 <= Len(t.saves)
        BY <1>0, <1>3, <1>4 DEF n
      <4>2. EndOf(w, s, f, n + 1) = l
        BY <1>8, <4>1 DEF EndOf
      <4>3. EndOf(v, t, g, n + 1) = FrameOf(v, g, w.depth + 1) - 1
        BY <1>3, <1>4, <4>1 DEF EndOf
      <4>4. (l + 1) - 1 = l
        BY <1>0
      <4> QED
        BY <1>9, <3>2, <4>2, <4>3, <4>4
    <3> QED
      BY <1>0, <3>1, <3>2
  <2>4. First(w, s, f, k) \in 1 .. l /\ EndOf(w, s, f, k) \in 1 .. l
    BY Intervals DEF n, l
  <2>5. \A i \in First(w, s, f, k) .. EndOf(w, s, f, k) : i \in 1 .. l
    BY <1>0, <2>4
  <2>6. Part(g, First(w, s, f, k), EndOf(w, s, f, k)) =
          Part(f, First(w, s, f, k), EndOf(w, s, f, k))
    BY <1>5, <2>5, PartSame
  <2> QED
    BY <1>11, <2>1, <2>2, <2>3, <2>6
<1>14. b[n + 2] = {}
  <2>0. Len(t.saves) = n + 1 /\ n \in Nat
    BY <1>0, <1>3, <1>4
  <2>1. n + 2 \in 1 .. n + 2 /\ n + 2 # 1 /\ n + 2 - 1 = n + 1 /\ ~(n + 2 <= Len(t.saves))
    BY <2>0
  <2>2. First(v, t, g, n + 2) = l + 1
    <3> DEFINE m == n + 2
    <3>1. m # 1 /\ m - 1 = n + 1
      BY <2>0
    <3> HIDE DEF m
    <3>2. First(v, t, g, m) = FrameOf(v, g, t.saves[m - 1])
      BY <3>1 DEF First
    <3>3. First(v, t, g, m) = FrameOf(v, g, t.saves[n + 1])
      BY <3>1, <3>2
    <3>4. t.saves[n + 1] = w.depth + 1
      BY <1>3, <1>4, <2>1
    <3>5. First(v, t, g, m) = l + 1
      BY <1>9, <3>3, <3>4
    <3> QED
      BY <3>5 DEF m
  <2>3. EndOf(v, t, g, n + 2) = l + 1
    BY <1>8, <2>1 DEF EndOf
  <2>4. Part(g, l + 1, l + 1) = {}
    <3>1. l + 1 .. l + 1 = {l + 1}
      BY <1>0
    <3> QED
      BY <1>5, <3>1 DEF Part
  <2> QED
    BY <1>11, <2>1, <2>2, <2>3, <2>4
<1>15. b = Append(a, {})
  <2> DEFINE c == Append(a, {})
  <2>1. /\ c \in Seq(SUBSET Writes) /\ Len(c) = n + 2 /\ c[n + 2] = {}
        /\ \A k \in 1 .. n + 1 : c[k] = a[k]
    BY <1>0, <1>12
  <2>2. Len(b) = n + 2
    BY <1>0, <1>3, <1>4, <1>12
  <2> HIDE DEF c
  <2>3. \A k \in 1 .. Len(b) : k \in 1 .. n + 1 \/ k = n + 2
    BY <1>0, <2>2
  <2>4. \A k \in 1 .. Len(b) : b[k] = c[k]
    BY <1>13, <1>14, <2>1, <2>3
  <2>5. b = c
    BY <1>12, <2>1, <2>2, <2>4, SeqEqual
  <2> QED
    BY <2>5 DEF c
<1> QED
  BY <1>8, <1>15 DEF a, b, v, t, g

(* The innermost frame is SQLite's, and the innermost scope's.             *)
Topped(f, y) == [f EXCEPT ![Len(f)] = y]

(* A change of the last frame is one of the innermost scope.               *)
LEMMA TopChanges ==
    ASSUME NEW w, NEW s, NEW f, Sound(w, s, f), w.debt.kind = "None", s.tx, ~DoomedOf(w, s),
           NEW y \in SUBSET Writes
    PROVE  LET at == First(w, s, f, Len(s.saves) + 1)
           IN /\ at \in 1 .. Len(f)
              /\ ScopedOf(w, s, f)[Len(s.saves) + 1] = Part(f, at, Len(f))
              /\ ScopedOf(w, s, Topped(f, y)) =
                   [ScopedOf(w, s, f) EXCEPT ![Len(s.saves) + 1] =
                                                 Part(Topped(f, y), at, Len(f))]
<1> DEFINE g == [f EXCEPT ![Len(f)] = y]
           n == Len(s.saves)
           l == Len(f)
           a == ScopedOf(w, s, f)
           b == ScopedOf(w, s, g)
           at == First(w, s, f, n + 1)
<1>0. /\ n \in Nat /\ f \in Seq(SUBSET Writes) /\ f \in Native /\ f # <<>> /\ l \in Nat \ {0}
      /\ w.depth \in Nat
  BY NotDoomed
<1>1. g \in Native /\ Len(g) = l
  BY <1>0, UndoneFrames
<1>2. \A i \in 1 .. l - 1 : g[i] = f[i]
  BY <1>0
<1>3. Sound(w, s, g)
  BY <1>1, SameDepth
<1> HIDE DEF g
<1>4. Aligned(w, f, w, g)
  BY <1>0, <1>1, SameFrames
<1>5. LastKept(w, f) = l /\ LastKept(w, g) = l
  BY <1>1 DEF LastKept
<1>6. /\ \A k \in 1 .. n + 1 : First(w, s, g, k) = First(w, s, f, k)
      /\ \A k \in 1 .. n : EndOf(w, s, g, k) = EndOf(w, s, f, k)
      /\ EndOf(w, s, g, n + 1) = LastKept(w, g)
      /\ EndOf(w, s, f, n + 1) = LastKept(w, f)
  BY <1>4, SameBounds
<1>7. /\ a = [k \in 1 .. n + 1 |-> Part(f, First(w, s, f, k), EndOf(w, s, f, k))]
      /\ b = [k \in 1 .. n + 1 |-> Part(g, First(w, s, g, k), EndOf(w, s, g, k))]
  BY <1>3, ScopedParts
<1>8. at \in 1 .. l
  <2>1. n + 1 \in 1 .. n + 1
    BY <1>0
  <2> QED
    BY <2>1, Intervals
<1> HIDE DEF a, b, n, l
<1>9. n + 1 \in 1 .. n + 1 /\ \A k \in 1 .. n : k \in 1 .. n + 1 /\ k # n + 1
  BY <1>0
<1>10. a[n + 1] = Part(f, at, l) /\ b[n + 1] = Part(g, at, l)
  BY <1>5, <1>6, <1>7, <1>9
<1>11. ASSUME NEW k \in 1 .. n PROVE b[k] = a[k]
  <2>1. k \in 1 .. n + 1
    BY <1>9
  <2>2. First(w, s, f, k) \in 1 .. l /\ EndOf(w, s, f, k) \in 1 .. l /\ EndOf(w, s, f, k) <= l - 1
    <3>1. First(w, s, f, k) \in 1 .. l /\ EndOf(w, s, f, k) \in 1 .. l
      BY <2>1, Intervals DEF n, l
    <3>2. k <= Len(s.saves)
      BY <1>0 DEF n
    <3>3. EndOf(w, s, f, k) = FrameOf(w, f, s.saves[k]) - 1
      BY <3>2 DEF EndOf
    <3>4. FrameOf(w, f, s.saves[k]) \in 2 .. l
      BY Bounds DEF n, l
    <3> QED
      BY <1>0, <3>1, <3>3, <3>4
  <2>3. \A i \in First(w, s, f, k) .. EndOf(w, s, f, k) : i \in 1 .. l - 1
    BY <1>0, <2>2
  <2>4. Part(g, First(w, s, f, k), EndOf(w, s, f, k)) =
          Part(f, First(w, s, f, k), EndOf(w, s, f, k))
    BY <1>2, <2>3, PartSame
  <2> QED
    BY <1>6, <1>7, <2>1, <2>4
<1>12. \A k \in 1 .. n + 1 : k \in 1 .. n \/ k = n + 1
  BY <1>0
<1> HIDE DEF at
<1>13. b = [a EXCEPT ![n + 1] = Part(g, at, l)]
  <2> DEFINE c == [a EXCEPT ![n + 1] = Part(g, at, l)]
  <2>1. /\ \A k \in 1 .. n + 1 : k # n + 1 => c[k] = a[k]
        /\ c[n + 1] = Part(g, at, l) /\ c = [k \in 1 .. n + 1 |-> c[k]]
    BY <1>7, <1>9
  <2> HIDE DEF c
  <2>2. \A k \in 1 .. n + 1 : b[k] = c[k]
    BY <1>9, <1>10, <1>11, <1>12, <2>1
  <2>3. b = [k \in 1 .. n + 1 |-> b[k]]
    BY <1>7
  <2>4. b = c
    BY <2>1, <2>2, <2>3
  <2> QED
    BY <2>4 DEF c
<1> QED
  BY <1>8, <1>10, <1>13 DEF a, b, g, n, l, at, Topped

(* ROLLBACK TO empties the innermost scope.                                *)
LEMMA UndoMoves ==
    ASSUME NEW w, NEW s, NEW f, Sound(w, s, f), w.debt.kind = "None", s.tx, ~DoomedOf(w, s),
           s.saves # <<>>, w.depth = Last(s.saves)
    PROVE  Undoes(w, s, f, w, s, Undone(f))
<1> DEFINE g == Topped(f, {})
           n == Len(s.saves)
           l == Len(f)
           a == ScopedOf(w, s, f)
           at == First(w, s, f, n + 1)
<1>0. /\ n \in Nat \ {0} /\ Last(s.saves) = s.saves[n] /\ w.depth \in Nat /\ l \in Nat \ {0}
      /\ f \in Seq(SUBSET Writes)
  BY NotDoomed, FrontLast
<1>1. at = l
  <2>1. n + 1 # 1 /\ n + 1 - 1 = n
    BY <1>0
  <2>2. at = FrameOf(w, f, s.saves[n + 1 - 1])
    BY <2>1 DEF First
  <2>3. at = FrameOf(w, f, w.depth)
    BY <1>0, <2>1, <2>2
  <2> QED
    BY <1>0, <2>3, TopFrame
<1>2. ScopedOf(w, s, g) = [a EXCEPT ![n + 1] = Part(g, at, l)]
  <2>1. {} \in SUBSET Writes
    OBVIOUS
  <2> QED
    BY <2>1, TopChanges
<1>3. Part(g, l, l) = {}
  <2>1. l .. l = {l} /\ g[l] = {}
    BY <1>0 DEF Topped
  <2> HIDE DEF g, l
  <2> QED
    BY <2>1 DEF Part
<1>4. a # <<>> /\ Len(a) = n + 1
  BY ScopedTyped
<1> HIDE DEF a, n, l, at
<1>5. Undone(f) = g /\ Undone(a) = [a EXCEPT ![n + 1] = {}]
  BY <1>4 DEF Undone, Topped
<1> HIDE DEF g
<1>6. ScopedOf(w, s, Undone(f)) = Undone(a)
  BY <1>1, <1>2, <1>3, <1>5
<1> QED
  BY <1>4, <1>6 DEF Undoes, a

(* A write belongs to the innermost scope.                                 *)
LEMMA WriteMoves ==
    ASSUME NEW w, NEW s, NEW f, Sound(w, s, f), w.debt.kind = "None", s.tx, ~DoomedOf(w, s),
           NEW x \in Writes
    PROVE  LET a == ScopedOf(w, s, f)
               g == [f EXCEPT ![Len(f)] = @ \cup {x}]
           IN ScopedOf(w, s, g) = [a EXCEPT ![Len(a)] = @ \cup {x}]
<1> DEFINE y == f[Len(f)] \cup {x}
           g == Topped(f, y)
           n == Len(s.saves)
           l == Len(f)
           a == ScopedOf(w, s, f)
           at == First(w, s, f, n + 1)
<1>0. n \in Nat /\ l \in Nat \ {0} /\ f \in Seq(SUBSET Writes) /\ l \in 1 .. l
  BY NotDoomed
<1>1. y \in SUBSET Writes
  BY <1>0
<1>2. /\ at \in 1 .. l /\ a[n + 1] = Part(f, at, l)
      /\ ScopedOf(w, s, g) = [a EXCEPT ![n + 1] = Part(g, at, l)]
  <2> HIDE DEF y
  <2> QED
    BY <1>1, TopChanges
<1>3. Len(a) = n + 1
  BY ScopedTyped
<1>4. g[l] = f[l] \cup {x} /\ \A i \in 1 .. l : i # l => g[i] = f[i]
  BY <1>0 DEF Topped
<1>5. [f EXCEPT ![Len(f)] = @ \cup {x}] = g
  BY DEF Topped
<1> HIDE DEF y, g, l, a, at, n
<1>6. Part(g, at, l) = Part(f, at, l) \cup {x}
  <2>1. l \in at .. l /\ \A i \in at .. l : i \in 1 .. l
    BY <1>0, <1>2
  <2> QED
    BY <1>4, <2>1 DEF Part
<1>7. ScopedOf(w, s, g) = [a EXCEPT ![Len(a)] = @ \cup {x}]
  BY <1>2, <1>3, <1>6
<1> QED
  BY <1>5, <1>7 DEF a

-----------------------------------------------------------------------------
(* Calls that succeed, fail, are dropped or pay a debt *)

(* What a running call of a transaction that has not failed starts from.   *)
LEMMA RunningView ==
    ASSUME WorkInv, NEW op \in Ops, Steps(op), Within(op, scope)
    PROVE  /\ Sound(Idle(work), scope, frames) /\ Idle(work).debt.kind = "None"
           /\ Idle(work).depth = work.depth /\ scope.tx /\ ~DoomedOf(Idle(work), scope)
           /\ Stays(work, scope, frames, Idle(work), scope, frames)
<1>1. /\ work.debt.kind = "None" /\ work.health = "Healthy" /\ scope.failed = "None"
      /\ Sound(work, scope, frames) /\ scope.tx
  BY Running DEF Within
<1>2. /\ Sound(Idle(work), scope, frames) /\ Idle(work).debt = work.debt
      /\ Idle(work).health = work.health /\ Idle(work).depth = work.depth
  BY <1>1, IdleSound
<1>3. ~DoomedOf(Idle(work), scope)
  BY <1>1, <1>2, Constants DEF DoomedOf, TxDebt, NoDebt
<1>4. Stays(work, scope, frames, Idle(work), scope, frames)
  BY <1>2, SameView
<1> QED
  BY <1>1, <1>2, <1>3, <1>4

(* BEGIN opens an empty scope.                                             *)
LEMMA StepBeginSeen ==
    ASSUME WorkInv, StepBegin
    PROVE  SeenNext
<1>1. ~scope.tx /\ work.debt.kind = "None" /\ work.health = "Healthy" /\ Sound(work, scope, frames)
  BY Running DEF StepBegin, Ops, Consumes
<1>2. frames' = <<{}>> /\ durable' = durable
  BY DEF StepBegin
<1>3. scope'.tx /\ scope'.saves = <<>> /\ scope'.failed = "None"
  <2>1. NoScope \in Live /\ NoScope.saves = <<>> /\ NoScope.failed = "None"
    BY Constants
  <2>2. [NoScope EXCEPT !.tx = TRUE].tx
    BY <2>1, Zenon DEF Live
  <2> QED
    BY <2>1, <2>2 DEF StepBegin, Live
<1>4. work'.debt.kind = "None" /\ work'.health = "Healthy"
  BY <1>1, IdleSound DEF StepBegin
<1>5. ~DoomedOf(work', scope')
  BY <1>3, <1>4, Constants DEF DoomedOf, TxDebt, NoDebt
<1>6. Sound(work', scope', frames')
  <2>1. WorkInv' /\ conn' = conn /\ conn # "Retired"
    BY StepBeginInv, Running DEF StepBegin, Ops, Borrowed
  <2> QED
    BY <2>1 DEF WorkInv
<1> DEFINE b == ScopedOf(work', scope', frames')
           one == First(work', scope', frames', 1)
           top == EndOf(work', scope', frames', 1)
<1>7. b \in Seq(SUBSET Writes) /\ Len(b) = 1
  <2>1. b \in Seq(SUBSET Writes) /\ Len(b) = Len(scope'.saves) + 1
    BY <1>3, <1>6, ScopedTyped
  <2>2. Len(scope'.saves) = 0
    BY <1>3
  <2> QED
    BY ONLY <2>1, <2>2
<1>8. b[1] = Part(frames', one, top) /\ one \in 1 .. 1 /\ top \in 1 .. 1
  <2>1. 1 \in 1 .. Len(scope'.saves) + 1 /\ Len(frames') = 1
    BY <1>2, <1>3
  <2>2. b[1] = Part(frames', one, top)
    BY <1>3, <1>5, <1>6, <2>1, ScopedParts
  <2>3. one \in 1 .. 1 /\ top \in 1 .. 1
    BY <1>3, <1>5, <1>6, <2>1, Intervals
  <2> QED
    BY <2>2, <2>3
<1> HIDE DEF b, one, top
<1>9. b[1] = {}
  <2>1. one = 1 /\ top = 1 /\ 1 .. 1 = {1}
    BY <1>8
  <2> QED
    BY <1>2, <1>8, <2>1 DEF Part
<1>10. b = <<{}>>
  BY <1>7, <1>9
<1>11. Scoped = <<>> /\ ~Doomed
  BY <1>1, NoView DEF Scoped, Doomed
<1>12. Scoped' = <<{}>> /\ ~Doomed'
  BY <1>5, <1>10 DEF Scoped, Doomed, b
<1>13. Doomed \in BOOLEAN /\ Doomed' \in BOOLEAN
  BY DEF Doomed, DoomedOf
<1> QED
  BY <1>2, <1>11, <1>12, <1>13 DEF SeenNext, Scopes!Next, Scopes!Begin

(* COMMIT makes durable the writes of the one scope that is left, and no others. *)
LEMMA StepCommitSeen ==
    ASSUME WorkInv, StepCommit
    PROVE  SeenNext
<1> DEFINE w == Idle(work)
<1>1. Steps("Commit") /\ "Commit" \in Ops
  BY DEF StepCommit, Ops
<1>2. scope.tx /\ scope.saves = <<>>
  BY <1>1, Running DEF Consumes
<1>3. /\ Sound(w, scope, frames) /\ w.debt.kind = "None" /\ ~DoomedOf(w, scope)
      /\ Stays(work, scope, frames, w, scope, frames)
  BY <1>1, <1>2, RunningView DEF Within
<1>4. /\ scope' = NoScope
      /\ durable' = durable \cup UNION {frames[i] : i \in DOMAIN frames}
  BY DEF StepCommit, Leaves, Ended
<1> HIDE DEF w
<1> DEFINE a == ScopedOf(w, scope, frames)
<1>5. Len(a) = 1
  <2>1. Len(a) = Len(scope.saves) + 1
    BY <1>2, <1>3, ScopedTyped
  <2>2. Len(scope.saves) = 0
    BY <1>2
  <2> QED
    BY ONLY <2>1, <2>2
<1>6. a[1] = UNION {frames[i] : i \in DOMAIN frames}
  <2>1. Len(scope.saves) = 0 /\ {} \in SUBSET Writes
    BY <1>2
  <2>2. a[Len(scope.saves) + 1] = Part(frames, First(w, scope, frames, Len(scope.saves) + 1), Len(frames))
    BY <1>2, <1>3, <2>1, TopChanges
  <2>3. First(w, scope, frames, 1) = 1
    BY DEF First
  <2>4. DOMAIN frames = 1 .. Len(frames)
    BY DEF WorkInv, TypeOK
  <2> QED
    BY <2>1, <2>2, <2>3, <2>4 DEF Part
<1>7. Scoped = a /\ ~Doomed
  BY <1>3 DEF Stays, Scoped, Doomed
<1>8. Scoped' = <<>> /\ ~Doomed'
  BY <1>4, NoView, Constants DEF Scoped, Doomed, NoScope
<1>9. Doomed \in BOOLEAN /\ Doomed' \in BOOLEAN
  BY DEF Doomed, DoomedOf
<1> QED
  BY <1>4, <1>5, <1>6, <1>7, <1>8, <1>9 DEF SeenNext, Scopes!Next, Scopes!Commit

(* ROLLBACK discards the transaction.                                      *)
LEMMA StepRollbackSeen ==
    ASSUME WorkInv, StepRollback
    PROVE  SeenNext
<1>1. scope.tx /\ scope.saves = <<>> /\ Sound(work, scope, frames)
  BY Running DEF StepRollback, Ops, Consumes
<1>2. scope' = NoScope /\ durable' = durable
  BY DEF StepRollback, Leaves, Ended
<1>3. Discards(work, scope, frames, work', scope', frames')
  BY <1>1, <1>2, Gone
<1> QED
  BY <1>2, <1>3, Seen

(* SAVEPOINT opens an empty scope inside the others.                       *)
LEMMA StepOpenSeen ==
    ASSUME WorkInv, StepOpen
    PROVE  SeenNext
<1> DEFINE w == Idle(work)
<1>1. Steps("Open") /\ "Open" \in Ops /\ durable' = durable
  BY DEF StepOpen, Ops
<1>2. CASE UNCHANGED <<work, scope, frames>>
  BY <1>1, <1>2, StillSeen
<1>3. CASE /\ Admits /\ frames # <<>> /\ frames' = Append(frames, {})
           /\ work' = [w EXCEPT !.depth = @ + 1]
           /\ scope' = [scope EXCEPT !.saves = Append(@, work.depth + 1)]
  <2>1. scope.tx
    BY <1>1, Running DEF Consumes
  <2>2. /\ Sound(w, scope, frames) /\ w.debt.kind = "None" /\ w.depth = work.depth
        /\ ~DoomedOf(w, scope) /\ Stays(work, scope, frames, w, scope, frames)
    BY <1>1, <2>1, RunningView DEF Within
  <2>3. w.depth < MaxSave
    BY <1>3, <2>2 DEF Admits
  <2> HIDE DEF w
  <2> DEFINE a == ScopedOf(w, scope, frames)
             v == [w EXCEPT !.depth = @ + 1]
             t == [scope EXCEPT !.saves = Append(@, w.depth + 1)]
             g == Append(frames, {})
  <2>4. ScopedOf(v, t, g) = Append(a, {}) /\ ~DoomedOf(v, t)
    BY <2>1, <2>2, <2>3, OpenMoves
  <2>5. work' = v /\ scope' = t /\ frames' = g
    BY <1>3, <2>2
  <2>6. a # <<>>
    BY <2>1, <2>2, ScopedTyped
  <2> HIDE DEF v, t, g, a
  <2>7. Scoped = a /\ ~Doomed
    BY <2>2 DEF Stays, Scoped, Doomed, a
  <2>8. Scoped' = Append(a, {}) /\ ~Doomed'
    BY <2>4, <2>5 DEF Scoped, Doomed
  <2>9. Doomed \in BOOLEAN /\ Doomed' \in BOOLEAN
    BY DEF Doomed, DoomedOf
  <2> QED
    BY <1>1, <2>6, <2>7, <2>8, <2>9 DEF SeenNext, Scopes!Next, Scopes!Open
<1> QED
  BY <1>2, <1>3 DEF StepOpen

(* RELEASE merges the innermost scope once its own savepoint is reached.   *)
LEMMA StepReleaseSeen ==
    ASSUME WorkInv, StepRelease
    PROVE  SeenNext /\ (Reached => Scopes!Merge)
<1> DEFINE w == Idle(work)
<1>1. Steps("Release") /\ "Release" \in Ops /\ durable' = durable
  BY DEF StepRelease, Ops
<1>2. scope.tx /\ scope.saves # <<>>
  BY <1>1, Running DEF Consumes
<1>3. /\ Sound(w, scope, frames) /\ w.debt.kind = "None" /\ w.depth = work.depth
      /\ ~DoomedOf(w, scope) /\ Stays(work, scope, frames, w, scope, frames)
  BY <1>1, <1>2, RunningView DEF Within
<1>4. /\ Len(frames) > 1 /\ frames' = Released(frames)
      /\ work' = [w EXCEPT !.depth = @ - 1]
      /\ \/ Reached /\ scope' = [scope EXCEPT !.saves = Front(@)]
         \/ ~Reached /\ scope' = scope
  BY DEF StepRelease
<1> HIDE DEF w
<1>5. /\ w.depth # Last(scope.saves) => Stays(w, scope, frames, work', scope, frames')
      /\ w.depth = Last(scope.saves) =>
            Merges(w, scope, frames, work', [scope EXCEPT !.saves = Front(@)], frames')
  BY <1>2, <1>3, <1>4, CloseMoves
<1>6. CASE Reached
  <2>1. Merges(w, scope, frames, work', scope', frames')
    BY <1>3, <1>4, <1>5, <1>6 DEF Reached
  <2>2. Merges(work, scope, frames, work', scope', frames')
    BY <1>3, <2>1 DEF Merges, Stays
  <2> QED
    BY <1>1, <2>2, Seen
<1>7. CASE ~Reached
  <2>1. Stays(w, scope, frames, work', scope', frames')
    BY <1>3, <1>4, <1>5, <1>7 DEF Reached
  <2>2. Stays(work, scope, frames, work', scope', frames')
    BY <1>3, <2>1 DEF Stays
  <2> QED
    BY <1>1, <1>7, <2>2, Seen
<1> QED
  BY <1>6, <1>7

(* ROLLBACK TO acts on nothing but the savepoint of its scope.             *)
LEMMA StepRollbackToSeen ==
    ASSUME WorkInv, StepRollbackTo
    PROVE  SeenNext
<1> DEFINE w == Idle(work)
<1>1. Steps("RollbackTo") /\ "RollbackTo" \in Ops /\ durable' = durable /\ scope' = scope
  BY DEF StepRollbackTo, Ops
<1>2. scope.tx /\ scope.saves # <<>>
  BY <1>1, Running DEF Consumes
<1>3. /\ Sound(w, scope, frames) /\ w.debt.kind = "None" /\ w.depth = work.depth
      /\ ~DoomedOf(w, scope) /\ Stays(work, scope, frames, w, scope, frames)
  BY <1>1, <1>2, RunningView DEF Within
<1>4. \/ Reached /\ frames' = Undone(frames) /\ work' = w
      \/ ~Reached /\ frames' = Released(frames) /\ work' = [w EXCEPT !.depth = @ - 1]
  BY DEF StepRollbackTo
<1>5. Len(frames) > 1
  BY DEF StepRollbackTo
<1> HIDE DEF w
<1>6. CASE Reached /\ frames' = Undone(frames) /\ work' = w
  <2>1. Undoes(w, scope, frames, w, scope, Undone(frames))
    BY <1>2, <1>3, <1>6, UndoMoves DEF Reached
  <2>2. Undoes(w, scope, frames, work', scope', frames')
    BY <1>1, <1>6, <2>1
  <2>3. Undoes(work, scope, frames, work', scope', frames')
    BY <1>3, <2>2 DEF Undoes, Stays
  <2> QED
    BY <1>1, <2>3, Seen
<1>7. CASE ~Reached /\ frames' = Released(frames) /\ work' = [w EXCEPT !.depth = @ - 1]
  <2>1. w.depth # Last(scope.saves)
    BY <1>3, <1>7 DEF Reached
  <2>2. Stays(w, scope, frames, work', scope, frames')
    BY <1>2, <1>3, <1>5, <1>7, <2>1, CloseMoves
  <2>3. Stays(work, scope, frames, work', scope', frames')
    BY <1>1, <1>3, <2>2 DEF Stays
  <2> QED
    BY <1>1, <2>3, Seen
<1> QED
  BY <1>4, <1>6, <1>7

(* A query writes for the innermost scope, or for good.                    *)
LEMMA StepQuerySeen ==
    ASSUME WorkInv, StepQuery
    PROVE  SeenNext
<1> DEFINE w == Idle(work)
<1>1. Steps("Query") /\ "Query" \in Ops /\ scope' = scope
  BY DEF StepQuery, Ops
<1>2. /\ Sound(work, scope, frames) /\ w.debt = work.debt /\ w.health = work.health
      /\ w.depth = work.depth
  BY <1>1, Running, IdleSound
<1>3. CASE work' = w /\ UNCHANGED <<frames, durable>>
  BY <1>1, <1>2, <1>3, StillSeen
<1>4. CASE work' = [work EXCEPT !.mode = "Primary"] /\ UNCHANGED <<frames, durable>>
  <2>1. work'.debt = work.debt /\ work'.health = work.health /\ work'.depth = work.depth
    BY <1>2, <1>4, Metered
  <2> QED
    BY <1>1, <1>4, <2>1, StillSeen
<1>5. ASSUME NEW x \in Writes, work' = w,
             \/ frames = <<>> /\ durable' = durable \cup {x} /\ UNCHANGED frames
             \/ /\ frames # <<>> /\ UNCHANGED durable
                /\ frames' = [frames EXCEPT ![Len(frames)] = @ \cup {x}]
      PROVE  SeenNext
  <2>0. Doomed \in BOOLEAN /\ Doomed' \in BOOLEAN
    BY DEF Doomed, DoomedOf
  <2>1. CASE scope.tx
    <3>1. /\ Sound(w, scope, frames) /\ w.debt.kind = "None"
          /\ ~DoomedOf(w, scope) /\ Stays(work, scope, frames, w, scope, frames)
      BY <1>1, <2>1, RunningView DEF Within
    <3> HIDE DEF w
    <3>2. frames # <<>>
      BY <2>1, <3>1, NotDoomed
    <3> DEFINE a == ScopedOf(w, scope, frames)
               g == [frames EXCEPT ![Len(frames)] = @ \cup {x}]
    <3>3. ScopedOf(w, scope, g) = [a EXCEPT ![Len(a)] = @ \cup {x}]
      BY <2>1, <3>1, WriteMoves
    <3>4. work' = w /\ scope' = scope /\ frames' = g /\ durable' = durable
      BY <1>1, <1>5, <3>2
    <3>5. a # <<>>
      BY <2>1, <3>1, ScopedTyped
    <3> HIDE DEF a, g
    <3>6. Scoped = a /\ ~Doomed
      BY <3>1 DEF Stays, Scoped, Doomed, a
    <3>7. Scoped' = [a EXCEPT ![Len(a)] = @ \cup {x}] /\ ~Doomed'
      BY <3>1, <3>3, <3>4 DEF Scoped, Doomed
    <3>8. Scopes!Write(x)
      BY <2>0, <3>4, <3>5, <3>6, <3>7 DEF Scopes!Write
    <3> QED
      BY <1>5, <3>8 DEF SeenNext, Scopes!Next
  <2>2. CASE ~scope.tx /\ frames = <<>>
    <3>1. Scoped = <<>> /\ ~Doomed /\ Scoped' = <<>> /\ ~Doomed'
      BY <1>1, <2>2, NoView DEF Scoped, Doomed
    <3>2. Scopes!Write(x)
      BY <1>5, <2>0, <2>2, <3>1 DEF Scopes!Write
    <3> QED
      BY <1>5, <3>2 DEF SeenNext, Scopes!Next
  <2>3. CASE ~scope.tx /\ frames # <<>>
    BY <1>1, <1>5, <2>3, NoneSeen
  <2> QED
    BY <2>1, <2>2, <2>3
<1> QED
  BY <1>3, <1>4, <1>5 DEF StepQuery

(* What a failed statement leaves of a transaction that had not failed.    *)
LEMMA FaultedView ==
    ASSUME NEW w, NEW s \in Live, s.failed = "None", NEW op, Within(op, s), NEW g,
           NEW busy \in BOOLEAN
    PROVE  LET r == Faulted(op, w, s, g, busy)
           IN /\ r[2] \in Live /\ r[2].tx /\ r[2].saves = s.saves
              /\ \/ r[2].failed # "None"
                 \/ /\ g # <<>> /\ r[1] = w /\ r[2] = s
                    /\ op = "Query" \/ (op = "Commit" /\ busy)
<1> DEFINE r == Faulted(op, w, s, g, busy)
           abort == g = <<>> \/ (op # "Query" /\ ~busy)
<1>1. s.tx
  BY DEF Within
<1>2. CASE abort
  <2>1. r[2] = [s EXCEPT !.failed = "Aborted"]
    BY <1>2 DEF Faulted
  <2>2. r[2] \in Live /\ r[2].saves = s.saves /\ r[2].failed = "Aborted"
    BY <2>1 DEF Live
  <2>3. r[2].tx
    BY <1>1, <2>1, Zenon DEF Live
  <2> QED
    BY <2>2, <2>3
<1>3. CASE ~abort /\ busy /\ op # "Commit"
  <2>1. r[2] = [s EXCEPT !.failed = "Busy"]
    BY <1>3 DEF Faulted
  <2>2. r[2] \in Live /\ r[2].saves = s.saves /\ r[2].failed = "Busy"
    BY <2>1 DEF Live
  <2>3. r[2].tx
    BY <1>1, <2>1, Zenon DEF Live
  <2> QED
    BY <2>2, <2>3
<1>4. CASE ~abort /\ ~(busy /\ op # "Commit")
  <2>1. r[2] = s
    BY <1>4 DEF Faulted
  <2>2. r[1] = w
    BY <1>4 DEF Faulted
  <2>3. g # <<>> /\ (op = "Query" \/ (op = "Commit" /\ busy))
    BY <1>4
  <2> QED
    BY <1>1, <2>1, <2>2, <2>3
<1> QED
  BY <1>2, <1>3, <1>4

(* What a call that ends without success leaves, by what it consumed.      *)
LEMMA EndedTx ==
    ASSUME NEW w, NEW s, NEW g, NEW op, op \in {"Commit", "Rollback"}, Leaves(Ended(op, w, s, g))
    PROVE  scope' = NoScope
BY DEF Leaves, Ended, Dropped

(* A call that consumes no scope leaves its own.                           *)
LEMMA EndedPlain ==
    ASSUME NEW w, NEW s, NEW g, NEW op, ~Gives(op), Leaves(Ended(op, w, s, g))
    PROVE  work' = w /\ scope' = s
BY DEF Leaves, Ended, Dropped, Gives

(* A release that fails drops its savepoint.                               *)
LEMMA EndedSave ==
    ASSUME NEW w, NEW s, NEW g, Leaves(Ended("Release", w, s, g))
    PROVE  work' = SaveReturn(w, s) /\ scope' = [s EXCEPT !.saves = Front(@)]
BY DEF Leaves, Ended, Dropped

(* The scope around the innermost savepoint.                               *)
LEMMA FrontShorter ==
    ASSUME NEW s \in Live, s.tx, s.saves # <<>>
    PROVE  LET t == [s EXCEPT !.saves = Front(@)]
           IN t.tx /\ Len(t.saves) = Len(s.saves) - 1 /\ t.failed = s.failed
<1> DEFINE t == [s EXCEPT !.saves = Front(@)]
<1>1. s.saves \in Seq(1 .. MaxSave)
  BY DEF Live
<1>2. Len(Front(s.saves)) = Len(s.saves) - 1
  BY <1>1, FrontLast
<1>3. t.saves = Front(s.saves) /\ t.failed = s.failed
  BY DEF Live
<1>4. t.tx
  BY Zenon DEF Live
<1> QED
  BY <1>2, <1>3, <1>4

(* A call of a live transaction that ends by failing it.                   *)
LEMMA FailureSeen ==
    ASSUME NEW op \in Ops, Consumes(op, scope), Sound(work, scope, frames), scope.tx,
           NEW w, NEW s \in Live, s.tx, s.saves = scope.saves,
           NEW g, frames' = g, durable' = durable, Leaves(Ended(op, w, s, g)),
           s.failed # "None" \/ w.health = "Failed"
    PROVE  SeenNext
<1>1. CASE op \in {"Commit", "Rollback"}
  <2>1. scope' = NoScope /\ scope.saves = <<>>
    BY <1>1, EndedTx DEF Consumes
  <2>2. Discards(work, scope, frames, work', scope', frames')
    BY <2>1, Gone
  <2> QED
    BY <2>2, Seen
<1>2. CASE ~Gives(op)
  <2>1. work' = w /\ scope' = s
    BY <1>2, EndedPlain
  <2>2. DoomedOf(work', scope')
    BY <2>1 DEF DoomedOf
  <2>3. Dooms(work, scope, frames, work', scope', frames')
    BY <2>1, <2>2, DoomMoves
  <2> QED
    BY <2>3, Seen
<1>3. CASE op = "Release"
  <2>1. scope.saves # <<>>
    BY <1>3 DEF Consumes
  <2>2. work' = SaveReturn(w, s) /\ scope' = [s EXCEPT !.saves = Front(@)]
    BY <1>3, EndedSave
  <2>3. scope'.tx /\ Len(scope'.saves) = Len(scope.saves) - 1 /\ scope'.failed = s.failed
    BY <2>1, <2>2, FrontShorter
  <2>4. work'.health = w.health \/ s.failed # "None"
    BY <2>2 DEF SaveReturn
  <2>5. DoomedOf(work', scope')
    BY <2>3, <2>4 DEF DoomedOf
  <2>6. DoomDiscards(work, scope, frames, work', scope', frames')
    BY <2>1, <2>3, <2>5, DoomDiscardMoves
  <2> QED
    BY <2>6, Seen
<1> QED
  BY <1>1, <1>2, <1>3 DEF Gives

(* A statement that fails dooms its transaction, ends it, or leaves all as it was. *)
LEMMA StepFailsSeen ==
    ASSUME WorkInv, NEW native \in {frames, <<>>}, NEW busy \in BOOLEAN,
           StepFails(native, busy)
    PROVE  SeenNext
<1> DEFINE op == call.op
           w == Idle(work)
           r == Faulted(op, w, scope, native, busy)
<1>1. /\ call # NoCall /\ Steps(op) /\ frames' = native /\ durable' = durable
      /\ busy => op # "Rollback"
      /\ \/ /\ Waits(op, r[2], native, busy)
            /\ work' = [r[1] EXCEPT !.mode = "Primary"] /\ scope' = r[2]
         \/ Leaves(Ended(op, r[1], r[2], native))
  BY DEF StepFails
<1>2. op \in Ops
  BY <1>1, Calling
<1>3. /\ work.debt.kind = "None" /\ work.health = "Healthy" /\ Consumes(op, scope)
      /\ Within(op, scope) => scope.failed = "None"
      /\ Sound(work, scope, frames) /\ scope \in Live
  BY <1>1, <1>2, Running DEF Sound, Typed
<1>4. Sound(w, scope, frames) /\ w.debt = work.debt /\ w.health = work.health
      /\ w.depth = work.depth
  BY <1>3, IdleSound
<1> HIDE DEF w, op, r
<1>5. CASE ~scope.tx
  <2>1. r[2] = scope /\ ~Gives(op)
    BY <1>3, <1>5 DEF r, Faulted, Within, Consumes, Gives
  <2>2. scope' = scope
    BY <1>1, <2>1, EndedPlain
  <2> QED
    BY <1>1, <1>5, <2>2, NoneSeen
<1>6. CASE op = "Rollback"
  <2>1. Leaves(Ended(op, r[1], r[2], native)) /\ scope.tx /\ scope.saves = <<>>
    BY <1>1, <1>3, <1>6 DEF Waits, Consumes
  <2>2. scope' = NoScope
    BY <1>6, <2>1, EndedTx
  <2>3. Discards(work, scope, frames, work', scope', frames')
    BY <1>3, <2>1, <2>2, Gone
  <2> QED
    BY <1>1, <2>3, Seen
<1>7. CASE scope.tx /\ op # "Rollback"
  <2>1. Within(op, scope)
    BY <1>3, <1>7 DEF Within, Consumes
  <2>2. /\ r[2] \in Live /\ r[2].tx /\ r[2].saves = scope.saves
        /\ \/ r[2].failed # "None"
           \/ native # <<>> /\ r[1] = w /\ r[2] = scope
              /\ (op = "Query" \/ (op = "Commit" /\ busy))
    BY <1>3, <2>1, FaultedView DEF r
  <2>3. CASE Leaves(Ended(op, r[1], r[2], native)) /\ r[2].failed # "None"
    BY <1>1, <1>2, <1>3, <1>7, <2>2, <2>3, FailureSeen
  <2>4. CASE Leaves(Ended(op, r[1], r[2], native)) /\ r[2].failed = "None"
    <3>1. native = frames /\ r[1] = w /\ r[2] = scope
      BY <2>2, <2>4
    <3>2. Stays(work, scope, frames, w, scope, frames)
      BY <1>4, SameView
    <3>3. Leaves(Ended(op, w, scope, frames))
      BY <2>4, <3>1
    <3> QED
      BY <1>1, <1>3, <1>4, <3>1, <3>2, <3>3, EndsSeen
  <2>5. CASE Waits(op, r[2], native, busy) /\ work' = [r[1] EXCEPT !.mode = "Primary"]
             /\ scope' = r[2]
    <3>1. r[2].failed = "None"
      BY <2>1, <2>2, <2>5 DEF Waits, Within
    <3>2. native = frames /\ r[1] = w /\ r[2] = scope
      BY <2>2, <3>1
    <3>3. work'.debt = work.debt /\ work'.health = work.health /\ work'.depth = work.depth
      BY <1>4, <2>5, <3>2, Metered
    <3> QED
      BY <1>1, <2>5, <3>2, <3>3, StillSeen
  <2> QED
    BY <1>1, <2>3, <2>4, <2>5
<1> QED
  BY <1>5, <1>6, <1>7

(* A call that is dropped drops the scope it consumed.                     *)
LEMMA CancelSeen ==
    ASSUME WorkInv, NEW native \in {frames, <<>>}, NEW ok \in BOOLEAN, Cancel(native, ok)
    PROVE  SeenNext /\ (ok /\ Consumed => Scopes!Discard)
<1> DEFINE op == call.op
           idle == IF call.stage = "Start" THEN work ELSE Idle(work)
<1>1. PICK health \in {work.health, "Recoverable"} :
        LET after == IF ok THEN <<idle, scope>>
                     ELSE Faulted(op, [idle EXCEPT !.health = health], scope, native, FALSE)
        IN Leaves(Dropped(op, after[1], after[2]))
  BY DEF Cancel
<1> DEFINE v == [idle EXCEPT !.health = health]
           r == Faulted(op, v, scope, native, FALSE)
<1>2. /\ call # NoCall /\ durable' = durable /\ frames' = native
      /\ ok => native = frames
      /\ ~ok => call.stage = "Rows"
  BY DEF Cancel
<1>3. Consumes(op, scope) /\ Sound(work, scope, frames) /\ scope \in Live /\ op \in Ops
  BY <1>2, Calling DEF Sound, Typed
<1>4. /\ Sound(idle, scope, frames) /\ idle.debt = work.debt /\ idle.health = work.health
      /\ idle.depth = work.depth
  BY <1>3, IdleSound
<1>5. CASE ok
  <2>1. Leaves(Dropped(op, idle, scope))
    BY <1>1, <1>5
  <2>2. Consumed => Gives(op)
    BY DEF Consumed, Gives
  <2> HIDE DEF idle, op
  <2>3. Stays(work, scope, frames, idle, scope, frames)
    BY <1>4, SameView
  <2>4. SeenNext /\ (Gives(op) => Scopes!Discard)
    BY <1>2, <1>3, <1>4, <1>5, <2>1, <2>3, EndsSeen
  <2> QED
    BY <2>2, <2>4
<1>6. CASE ~ok
  <2>1. /\ op = "Query" /\ work.debt.kind = "None" /\ work.health = "Healthy"
        /\ Within(op, scope) => scope.failed = "None"
    BY <1>2, <1>6 DEF WorkInv, CallClean
  <2>2. Leaves(Dropped(op, r[1], r[2]))
    BY <1>1, <1>6
  <2> HIDE DEF idle, op
  <2>3. v.debt = work.debt /\ v.depth = work.depth /\ v.health # "Failed"
    BY <1>1, <1>4, <2>1 DEF Sound, Typed, Works
  <2> HIDE DEF v
  <2>4. work' = r[1] /\ scope' = r[2]
    BY <2>1, <2>2 DEF Leaves, Dropped
  <2>5. CASE ~scope.tx
    <3>1. r[2] = scope
      BY <2>5 DEF Faulted, Within
    <3> QED
      BY <1>2, <1>6, <2>4, <2>5, <3>1, NoneSeen
  <2>6. CASE scope.tx
    <3>1. Within(op, scope) /\ scope.failed = "None"
      BY <2>1, <2>6 DEF Within
    <3>2. \A b \in BOOLEAN :
            LET q == Faulted(op, v, scope, native, b)
            IN /\ q[2] \in Live /\ q[2].tx /\ q[2].saves = scope.saves
               /\ q[2].failed # "None" \/ (native # <<>> /\ q[1] = v /\ q[2] = scope)
      BY <1>3, <3>1, FaultedView
    <3>3. FALSE \in BOOLEAN
      OBVIOUS
    <3>4. /\ r[2] \in Live /\ r[2].tx /\ r[2].saves = scope.saves
          /\ r[2].failed # "None" \/ (native # <<>> /\ r[1] = v /\ r[2] = scope)
      BY <3>2, <3>3, Zenon
    <3> HIDE DEF r
    <3>5. CASE r[2].failed # "None"
      <4>1. DoomedOf(work', scope')
        BY <2>4, <3>4, <3>5 DEF DoomedOf
      <4>2. Dooms(work, scope, frames, work', scope', frames')
        BY <1>3, <2>4, <2>6, <3>4, <4>1, DoomMoves
      <4> QED
        BY <1>2, <1>6, <4>2, Seen
    <3>6. CASE native # <<>> /\ r[1] = v /\ r[2] = scope
      BY <1>2, <1>6, <2>1, <2>3, <2>4, <3>6, StillSeen
    <3> QED
      BY <3>4, <3>5, <3>6
  <2> QED
    BY <2>5, <2>6
<1> QED
  BY <1>5, <1>6

(* Cleanup that fails dooms what is left of the transaction.               *)
LEMMA CleanupFailsSeen ==
    ASSUME WorkInv, NEW native \in {frames, <<>>}, CallFails(native) \/ ParkFails(native)
    PROVE  SeenNext
<1>1. CASE CallFails(native)
  <2> DEFINE w == FailCleanup(work)
  <2>1. /\ call # NoCall /\ durable' = durable /\ frames' = native
        /\ Leaves(Ended(call.op, w, scope, native))
    BY <1>1 DEF CallFails, Starts
  <2>2. /\ Sound(work, scope, frames) /\ Consumes(call.op, scope) /\ call.op \in Ops
        /\ scope \in Live
    BY <2>1, Calling DEF Sound, Typed
  <2>3. w.health = "Failed"
    BY DEF FailCleanup
  <2> HIDE DEF w
  <2>4. CASE scope.tx
    BY <2>1, <2>2, <2>3, <2>4, FailureSeen
  <2>5. CASE ~scope.tx
    <3>1. ~Gives(call.op)
      BY <2>2, <2>5 DEF Consumes, Gives
    <3>2. scope' = scope
      BY <2>1, <3>1, EndedPlain
    <3> QED
      BY <2>1, <2>5, <3>2, NoneSeen
  <2> QED
    BY <2>4, <2>5
<1>2. CASE ParkFails(native)
  <2>1. Parks /\ conn # "Retired" /\ scope' = scope /\ durable' = durable
    BY <1>2 DEF ParkFails, Parks
  <2> QED
    BY <2>1, Parked, NoneSeen
<1> QED
  BY <1>1, <1>2

-----------------------------------------------------------------------------
(* A savepoint that was rolled back to and not yet released is empty *)

Undoing(w) == w.debt.kind = "Save" /\ w.debt.undone
UndoneEmpty == conn # "Retired" /\ Undoing(work) => frames[Len(frames)] = {}

(* No new debt is half settled.                                            *)
LEMMA OwingUndoing ==
    ASSUME NEW d \in Debts, NEW depth
    PROVE  /\ OwingTx(d).kind # "Save"
           /\ Owing(d, depth).kind = "Save" /\ Owing(d, depth).undone =>
                d.kind = "Save" /\ d.undone
<1>1. OwingTx(d).kind # "Save"
  BY Constants DEF OwingTx
<1>2. CASE d.kind = "None"
  <2>1. Owing(d, depth) = [kind |-> "Save", target |-> depth, undone |-> FALSE]
    BY <1>2 DEF Owing
  <2>2. [kind |-> "Save", target |-> depth, undone |-> FALSE].undone = FALSE
    OBVIOUS
  <2>3. ~Owing(d, depth).undone
    BY ONLY <2>1, <2>2, Zenon
  <2> QED
    BY <1>1, <2>3, Zenon
<1>3. CASE d.kind = "Save"
  <2>1. Owing(d, depth) = [d EXCEPT !.target = IF depth < @ THEN depth ELSE @]
    BY <1>3 DEF Owing
  <2>2. Owing(d, depth).undone = d.undone
    BY <2>1, Zenon DEF Debts
  <2> QED
    BY <1>1, <1>3, <2>2, Zenon
<1>4. CASE d.kind \notin {"None", "Save"}
  <2>1. Owing(d, depth) = d
    BY <1>4 DEF Owing
  <2> QED
    BY <1>1, <1>4, <2>1
<1> QED
  BY <1>1, <1>2, <1>3, <1>4

(* The ends of scopes leave no debt half settled that was not so before.   *)
LEMMA DroppedUndoing ==
    ASSUME NEW w \in Works, NEW s, NEW op, NEW g,
           Undoing(Dropped(op, w, s)[1]) \/ Undoing(Ended(op, w, s, g)[1])
    PROVE  Undoing(w)
<1>1. w.debt \in Debts
  BY DEF Works
<1>2. Undoing([w EXCEPT !.depth = 0]) => Undoing(w)
  <2>1. [w EXCEPT !.depth = 0].debt = w.debt
    BY DEF Works
  <2> QED
    BY <2>1 DEF Undoing
<1>3. ~Undoing([w EXCEPT !.debt = OwingTx(@)])
  <2>1. [w EXCEPT !.debt = OwingTx(@)].debt = OwingTx(w.debt)
    BY DEF Works
  <2> QED
    BY <1>1, <2>1, OwingUndoing DEF Undoing
<1>4. ASSUME NEW depth PROVE Undoing([w EXCEPT !.debt = Owing(@, depth)]) => Undoing(w)
  <2>1. [w EXCEPT !.debt = Owing(@, depth)].debt = Owing(w.debt, depth)
    BY DEF Works
  <2> QED
    BY <1>1, <2>1, OwingUndoing DEF Undoing
<1>5. Undoing(TxReturn(w, s.failed)) => Undoing(w)
  BY <1>2, <1>3 DEF TxReturn
<1>6. Undoing(SaveReturn(w, s)) => Undoing(w)
  BY <1>4 DEF SaveReturn
<1>7. Dropped(op, w, s)[1] \in {TxReturn(w, s.failed), SaveReturn(w, s), w}
  BY DEF Dropped
<1>8. Ended(op, w, s, g)[1] \in {[w EXCEPT !.depth = 0], Dropped(op, w, s)[1]}
  BY DEF Ended
<1>9. Undoing(Dropped(op, w, s)[1]) => Undoing(w)
  BY <1>5, <1>6, <1>7
<1> QED
  BY <1>2, <1>8, <1>9

(* Cleanup releases a savepoint only after it rolled back to it.           *)
LEMMA PaidUndone ==
    ASSUME Sound(work, scope, frames), Paid, Undoing(work')
    PROVE  frames'[Len(frames')] = {}
<1>1. work \in Works /\ frames \in Native /\ frames # <<>> /\ work.debt.kind \in {"Tx", "Save"}
  BY DEF Sound, Typed, Paid, Issuable, Owed
<1>2. /\ work' = Complete(work)
      /\ frames' = IF work.debt.kind = "Tx" THEN <<>>
                   ELSE IF work.debt.undone THEN Released(frames) ELSE Undone(frames)
  BY DEF Paid
<1>3. work.debt.kind = "Save" /\ ~work.debt.undone
  <2>1. NoDebt.kind # "Save"
    BY Constants
  <2> QED
    BY <1>1, <1>2, <2>1, CompleteFacts DEF Undoing
<1>4. frames' = [frames EXCEPT ![Len(frames)] = {}]
  BY <1>2, <1>3 DEF Undone
<1>5. Len(frames) \in 1 .. Len(frames) /\ frames \in Seq(SUBSET Writes)
  BY <1>1 DEF Native
<1>6. Len(frames') = Len(frames)
  BY <1>4, <1>5
<1> QED
  BY <1>4, <1>5, <1>6

(* A statement that fails, or a reset that does, owes no release.          *)
LEMMA FaultedUndoing ==
    ASSUME NEW w \in Works, NEW op, NEW s, NEW g, NEW busy,
           Undoing(Faulted(op, w, s, g, busy)[1])
    PROVE  Undoing(w)
<1>1. w.debt \in Debts
  BY DEF Works
<1>2. ~Undoing([w EXCEPT !.debt = OwingTx(@)])
  <2>1. [w EXCEPT !.debt = OwingTx(@)].debt = OwingTx(w.debt)
    BY DEF Works
  <2> QED
    BY <1>1, <2>1, OwingUndoing DEF Undoing
<1>3. Faulted(op, w, s, g, busy)[1] \in {[w EXCEPT !.debt = OwingTx(@)], w}
  BY DEF Faulted
<1> QED
  BY <1>2, <1>3

(* Every step keeps the savepoint to be released next empty.               *)
LEMMA UndoneStep ==
    ASSUME WorkInv, UndoneEmpty, [Next]_vars
    PROVE  UndoneEmpty'
<1>1. ASSUME conn # "Retired", conn' = conn, frames' = frames, Undoing(work') => Undoing(work)
      PROVE  UndoneEmpty'
  BY <1>1 DEF UndoneEmpty
<1>2. ASSUME ~Undoing(work')
      PROVE  UndoneEmpty'
  BY <1>2 DEF UndoneEmpty
<1>3. Sound(work, scope, frames) => work \in Works
  BY DEF Sound, Typed
<1>4. ASSUME NEW op \in Ops, Ask(op)
      PROVE  UndoneEmpty'
  <2>1. conn # "Retired" /\ Sound(work, scope, frames) /\ UNCHANGED <<conn, frames>>
    BY <1>4 DEF Ask, Borrowed, WorkInv
  <2>2. work' = Dropped(op, work, scope)[1] \/ work' = work
    BY <1>4 DEF Ask, Leaves
  <2> QED
    BY <1>1, <1>3, <2>1, <2>2, DroppedUndoing
<1>5. CASE Refuse
  <2>1. call # NoCall /\ UNCHANGED <<conn, frames>>
    BY <1>5 DEF Refuse, Starts
  <2>2. Sound(work, scope, frames) /\ conn # "Retired" /\ work \in Works
    BY <1>3, <2>1, Calling
  <2> DEFINE told == IF ~Blocked(call.op) /\ work.health = "Recoverable"
                     THEN [work EXCEPT !.health = "Healthy"] ELSE work
  <2>3. told \in Works /\ told.debt = work.debt
    BY <2>2 DEF Works
  <2>4. work' = Ended(call.op, told, scope, frames)[1]
    BY <1>5 DEF Refuse, Leaves
  <2> HIDE DEF told
  <2>5. Undoing(work') => Undoing(told)
    BY <2>3, <2>4, DroppedUndoing
  <2> QED
    BY <1>1, <2>1, <2>2, <2>3, <2>5 DEF Undoing
<1>6. CASE StepBegin \/ StepCommit \/ StepRollback \/ StepOpen \/ StepRelease
           \/ StepRollbackTo \/ StepQuery
  <2>1. PICK op \in Ops : Steps(op)
    BY <1>6 DEF StepBegin, StepCommit, StepRollback, StepOpen, StepRelease, StepRollbackTo,
               StepQuery, Ops
  <2>2. work.debt.kind = "None" /\ Sound(work, scope, frames) /\ work \in Works
    BY <1>3, <2>1, Running
  <2>3. Idle(work) \in Works /\ Idle(work).debt = work.debt
    BY <2>2, IdleSound DEF Sound, Typed
  <2>4. \/ work' \in {work, Idle(work), [work EXCEPT !.mode = "Primary"],
                      [Idle(work) EXCEPT !.depth = 0], [Idle(work) EXCEPT !.depth = @ + 1],
                      [Idle(work) EXCEPT !.depth = @ - 1]}
    <3>1. CASE StepBegin
      BY <3>1 DEF StepBegin
    <3>2. CASE StepCommit \/ StepRollback
      BY <3>2 DEF StepCommit, StepRollback, Leaves, Ended
    <3>3. CASE StepOpen
      BY <3>3 DEF StepOpen
    <3>4. CASE StepRelease \/ StepRollbackTo
      BY <3>4 DEF StepRelease, StepRollbackTo
    <3>5. CASE StepQuery
      BY <3>5 DEF StepQuery
    <3> QED
      BY <1>6, <3>1, <3>2, <3>3, <3>4, <3>5
  <2>5. work'.debt = work.debt
    BY <2>2, <2>3, <2>4 DEF Works
  <2> QED
    BY <1>2, <2>2, <2>5 DEF Undoing
<1>7. ASSUME NEW native \in {frames, <<>>}, NEW busy \in BOOLEAN, StepFails(native, busy)
      PROVE  UndoneEmpty'
  <2> DEFINE op == call.op
             w == Idle(work)
             r == Faulted(op, w, scope, native, busy)
  <2>1. /\ call # NoCall /\ Steps(op)
        /\ \/ work' = [r[1] EXCEPT !.mode = "Primary"]
           \/ work' = Ended(op, r[1], r[2], native)[1]
        /\ busy => op # "Rollback"
    BY <1>7 DEF StepFails, Leaves
  <2>2. op \in Ops /\ Steps(op) /\ Sound(work, scope, frames)
    BY <2>1, Calling
  <2>3. work.debt.kind = "None"
    BY <2>2, Running
  <2>4. w \in Works /\ w.debt.kind = "None"
    BY <2>2, <2>3, IdleSound DEF Sound, Typed
  <2> HIDE DEF w, op
  <2>5. r[1] \in Works
    <3>1. w.debt \in Debts
      BY <2>4 DEF Works
    <3>2. OwingTx(w.debt) \in Debts
      BY <3>1, Constants DEF OwingTx
    <3>3. [w EXCEPT !.debt = OwingTx(@)] \in Works
      BY <2>4, <3>2 DEF Works
    <3> QED
      BY <2>4, <3>3 DEF Faulted
  <2>6. ~Undoing(r[1])
    BY <2>4, FaultedUndoing DEF Undoing
  <2> HIDE DEF r
  <2>7. [r[1] EXCEPT !.mode = "Primary"].debt = r[1].debt
    BY <2>5 DEF Works
  <2>8. ~Undoing(work')
    <3>1. CASE work' = [r[1] EXCEPT !.mode = "Primary"]
      BY <2>6, <2>7, <3>1 DEF Undoing
    <3>2. CASE work' = Ended(op, r[1], r[2], native)[1]
      BY <2>5, <2>6, <3>2, DroppedUndoing
    <3> QED
      BY <2>1, <3>1, <3>2
  <2> QED
    BY <1>2, <2>8
<1>8. ASSUME NEW native \in {frames, <<>>}, NEW ok \in BOOLEAN, Cancel(native, ok)
      PROVE  UndoneEmpty'
  <2> DEFINE idle == IF call.stage = "Start" THEN work ELSE Idle(work)
  <2>1. PICK health \in {work.health, "Recoverable"} :
          LET after == IF ok THEN <<idle, scope>>
                       ELSE Faulted(call.op, [idle EXCEPT !.health = health], scope, native, FALSE)
          IN work' = Dropped(call.op, after[1], after[2])[1]
    BY <1>8 DEF Cancel, Leaves
  <2> DEFINE v == [idle EXCEPT !.health = health]
             r == Faulted(call.op, v, scope, native, FALSE)
  <2>2. /\ call # NoCall /\ conn' = conn /\ frames' = native
        /\ ok => native = frames
        /\ ~ok => call.stage = "Rows"
    BY <1>8 DEF Cancel
  <2>3. Sound(work, scope, frames) /\ conn # "Retired"
    BY <2>2, Calling
  <2>4. idle \in Works /\ idle.debt = work.debt
    BY <2>3, IdleSound DEF Sound, Typed
  <2>5. CASE ok
    <3>1. work' = Dropped(call.op, idle, scope)[1]
      BY <2>1, <2>5
    <3> HIDE DEF idle
    <3>2. Undoing(work') => Undoing(idle)
      BY <2>4, <3>1, DroppedUndoing
    <3> QED
      BY <1>1, <2>2, <2>3, <2>4, <2>5, <3>2 DEF Undoing
  <2>6. CASE ~ok
    <3>1. call.op = "Query" /\ work.debt.kind = "None"
      BY <2>2, <2>6 DEF WorkInv, CallClean
    <3>2. work' = r[1]
      BY <2>1, <2>6, <3>1 DEF Dropped
    <3> HIDE DEF idle
    <3>3. r[1] = v
      BY <3>1 DEF Faulted
    <3>4. v.debt = work.debt
      BY <2>4 DEF Works
    <3> QED
      BY <1>2, <3>1, <3>2, <3>3, <3>4 DEF Undoing
  <2> QED
    BY <2>5, <2>6
<1>9. CASE Forget \/ ForgetScope
  <2>1. call # NoCall \/ scope.tx
    BY <1>9 DEF Forget, ForgetScope
  <2>2. conn # "Retired" /\ UNCHANGED <<work, conn, frames>>
    BY <1>9, <2>1 DEF Forget, ForgetScope, WorkInv, CallOwns, Borrowed
  <2> QED
    BY <1>1, <2>2
<1>10. CASE DropScope
  <2>1. scope.tx /\ UNCHANGED <<conn, frames>>
    BY <1>10 DEF DropScope
  <2>2. conn # "Retired" /\ Sound(work, scope, frames)
    BY <2>1 DEF WorkInv, CallOwns, Borrowed
  <2>3. \E op : work' = Dropped(op, work, scope)[1]
    BY <1>10 DEF DropScope, Leaves
  <2> QED
    BY <1>1, <1>3, <2>1, <2>2, <2>3, DroppedUndoing
<1>11. CASE CallPays \/ ParkPays
  <2>1. Paid /\ conn' = conn /\ Sound(work, scope, frames)
    <3>1. CASE CallPays
      BY <3>1, Calling DEF CallPays, Starts
    <3>2. CASE ParkPays
      BY <3>2 DEF ParkPays, Parks, WorkInv
    <3> QED
      BY <1>11, <3>1, <3>2
  <2> QED
    BY <2>1, PaidUndone DEF UndoneEmpty
<1>12. ASSUME NEW native \in {frames, <<>>}, CallFails(native) \/ ParkFails(native)
       PROVE  UndoneEmpty'
  <2> DEFINE w == FailCleanup(work)
  <2>1. w \in Works /\ ~Undoing(w)
    BY Constants DEF FailCleanup, Works, Undoing
  <2>2. work' = w \/ work' = Ended(call.op, w, scope, native)[1]
    BY <1>12 DEF CallFails, ParkFails, Leaves
  <2> HIDE DEF w
  <2>3. ~Undoing(work')
    BY <2>1, <2>2, DroppedUndoing
  <2> QED
    BY <1>2, <2>3
<1>13. CASE Provide \/ DropConnection \/ Stop \/ Release
  <2>1. conn # "Retired" /\ frames' = frames /\ Sound(work, scope, frames)
    BY <1>13 DEF Provide, DropConnection, Stop, Release, Borrowed, WorkInv
  <2>2. work' = work \/ work' = [work EXCEPT !.debt = OwingTx(@)]
    BY <1>13 DEF Provide, DropConnection, Stop, Release
  <2>3. ~Undoing([work EXCEPT !.debt = OwingTx(@)])
    <3>1. /\ [work EXCEPT !.debt = OwingTx(@)].debt = OwingTx(work.debt)
          /\ work.debt \in Debts
      BY <1>3, <2>1 DEF Works
    <3> QED
      BY <3>1, OwingUndoing DEF Undoing
  <2> QED
    BY <2>1, <2>2, <2>3 DEF UndoneEmpty
<1>14. CASE Retire \/ ForcePhase
  BY <1>14 DEF Retire, ForcePhase, UndoneEmpty
<1>15. CASE UNCHANGED vars
  BY <1>15 DEF vars, UndoneEmpty
<1> QED
  BY <1>4, <1>5, <1>6, <1>7, <1>8, <1>9, <1>10, <1>11, <1>12, <1>13, <1>14, <1>15
     DEF Next, Park

(* Paying a debt removes only what nobody owns any more.                   *)
LEMMA PaysSeen ==
    ASSUME WorkInv, UndoneEmpty, CallPays \/ ParkPays
    PROVE  SeenNext
<1>1. /\ Sound(work, scope, frames) /\ conn # "Retired" /\ Paid
      /\ scope' = scope /\ durable' = durable
  <2>1. CASE CallPays
    BY <2>1, Calling DEF CallPays, Starts
  <2>2. CASE ParkPays
    BY <2>2 DEF ParkPays, Parks, WorkInv
  <2> QED
    BY <2>1, <2>2
<1>2. CASE ~scope.tx
  BY <1>1, <1>2, NoneSeen
<1>3. CASE scope.tx
  <2>1. /\ work' = Complete(work) /\ frames' = Settled(work, frames)
        /\ work.debt.kind \in {"Tx", "Save"}
    BY <1>1 DEF Paid, Settled, Owed
  <2>2. work.debt.kind = "Save" /\ work.debt.undone => frames[Len(frames)] = {}
    BY <1>1 DEF UndoneEmpty, Undoing
  <2>3. Stays(work, scope, frames, Complete(work), scope, Settled(work, frames))
    BY <1>1, <1>3, <2>1, <2>2, CompleteMoves
  <2>4. Stays(work, scope, frames, work', scope', frames')
    BY <1>1, <2>1, <2>3
  <2> QED
    BY <1>1, <2>4, Seen
<1> QED
  BY <1>2, <1>3

-----------------------------------------------------------------------------
(* The refinement *)

ViewInv == WorkInv /\ UndoneEmpty

(* The client starts as SqliteScopes does.                                 *)
LEMMA ViewInit == Init => ViewInv /\ Scopes!Init
<1> SUFFICES ASSUME Init PROVE ViewInv /\ Scopes!Init
  OBVIOUS
<1>1. WorkInv
  BY WorkInit
<1>2. ~Undoing(work)
  BY Constants DEF Init, Undoing
<1>3. ~scope.tx /\ durable = {}
  BY Constants DEF Init
<1>4. Scoped = <<>> /\ ~Doomed
  BY <1>3, NoView DEF Scoped, Doomed
<1>5. Doomed \in BOOLEAN
  BY DEF Doomed, DoomedOf
<1> QED
  BY <1>1, <1>2, <1>3, <1>4, <1>5 DEF ViewInv, UndoneEmpty, Scopes!Init

(* Every step of the client is one that SqliteScopes allows, or none.      *)
LEMMA ViewStep ==
    ASSUME ViewInv, [Next]_vars
    PROVE  ViewInv' /\ SeenNext
<1>0. WorkInv /\ UndoneEmpty
  BY DEF ViewInv
<1>1. ViewInv'
  BY <1>0, WorkStep, UndoneStep DEF ViewInv
<1> SUFFICES SeenNext
  BY <1>1
<1>2. CASE \E op \in Ops : Ask(op)
  BY <1>0, <1>2, AskSeen
<1>3. CASE Refuse
  BY <1>0, <1>3, RefuseSeen
<1>4. CASE StepBegin
  BY <1>0, <1>4, StepBeginSeen
<1>5. CASE StepCommit
  BY <1>0, <1>5, StepCommitSeen
<1>6. CASE StepRollback
  BY <1>0, <1>6, StepRollbackSeen
<1>7. CASE StepOpen
  BY <1>0, <1>7, StepOpenSeen
<1>8. CASE StepRelease
  BY <1>0, <1>8, StepReleaseSeen
<1>9. CASE StepRollbackTo
  BY <1>0, <1>9, StepRollbackToSeen
<1>10. CASE StepQuery
  BY <1>0, <1>10, StepQuerySeen
<1>11. CASE \E native \in {frames, <<>>} : CallFails(native) \/ ParkFails(native)
  BY <1>0, <1>11, CleanupFailsSeen
<1>12. CASE \E native \in {frames, <<>>}, b \in BOOLEAN : StepFails(native, b)
  BY <1>0, <1>12, StepFailsSeen
<1>13. CASE \E native \in {frames, <<>>}, b \in BOOLEAN : Cancel(native, b)
  BY <1>0, <1>13, CancelSeen
<1>14. CASE Forget \/ ForgetScope
  BY <1>0, <1>14, ForgetSeen
<1>15. CASE DropScope
  BY <1>0, <1>15, DropScopeSeen
<1>16. CASE CallPays \/ ParkPays
  BY <1>0, <1>16, PaysSeen
<1>17. CASE Provide \/ DropConnection \/ Stop \/ Release \/ Retire \/ ForcePhase
  BY <1>0, <1>17, ConnSeen
<1>18. CASE UNCHANGED vars
  BY <1>18, StillSeen DEF vars
<1> QED
  BY <1>2, <1>3, <1>4, <1>5, <1>6, <1>7, <1>8, <1>9, <1>10, <1>11, <1>12, <1>13, <1>14, <1>15,
     <1>16, <1>17, <1>18 DEF Next, Park

(* A scope's end is the one its owner asked for.                           *)
LEMMA FatesStep ==
    ASSUME ViewInv, [Next]_vars
    PROVE  [(Drops => Scopes!Discard) /\ (Keeps => Scopes!Merge)]_vars
<1>0. WorkInv
  BY DEF ViewInv
<1>1. Drops => Scopes!Discard
  <2>1. CASE DropScope
    BY <1>0, <2>1, DropScopeSeen
  <2>2. CASE Consumed /\ \E native \in {frames, <<>>} : Cancel(native, TRUE)
    <3>1. PICK native \in {frames, <<>>} : Cancel(native, TRUE)
      BY <2>2
    <3>2. \A b \in BOOLEAN : Cancel(native, b) => (b /\ Consumed => Scopes!Discard)
      BY <1>0, CancelSeen
    <3>3. TRUE \in BOOLEAN
      OBVIOUS
    <3> QED
      BY <2>2, <3>1, <3>2, <3>3, Zenon
  <2> QED
    BY <2>1, <2>2 DEF Drops
<1>2. Keeps => Scopes!Merge
  BY <1>0, ForgetSeen, StepReleaseSeen DEF Keeps
<1> QED
  BY <1>1, <1>2

(* The client implements SqliteScopes, for every number of savepoints and  *)
(* every set of writes: through debts that are paid later, calls and scopes *)
(* that are dropped or forgotten and statements that fail, a commit makes  *)
(* durable exactly the writes of the scopes that were not lost, all at once. *)
THEOREM ScopesRefined == Spec => Refines
<1>1. Init => ViewInv /\ Scopes!Init
  BY ViewInit
<1>2. ViewInv /\ [Next]_vars => ViewInv' /\ SeenNext
  BY ViewStep
<1> QED
  BY <1>1, <1>2, PTL DEF Spec, Refines, Scopes!Spec, SeenNext

(* A scope that is dropped, or consumed by a call that is dropped, loses its *)
(* writes; a savepoint that is released or forgotten hands them to the scope *)
(* around it.                                                              *)
THEOREM FatesCorrect == Spec => Fates
<1>1. Init => ViewInv
  BY ViewInit
<1>2. ViewInv /\ [Next]_vars => ViewInv'
  BY ViewStep
<1>3. ViewInv /\ [Next]_vars => [(Drops => Scopes!Discard) /\ (Keeps => Scopes!Merge)]_vars
  BY FatesStep
<1> QED
  BY <1>1, <1>2, <1>3, PTL DEF Spec, Fates
=============================================================================
