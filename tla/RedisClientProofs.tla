-------------------------- MODULE RedisClientProofs --------------------------
(***************************************************************************)
(* Proofs about the Redis connection scheduler, for every number of slots, *)
(* generations, commands and leases and any peer, and about the fibers of  *)
(* the client above it, for every number of watchers, every capacity of    *)
(* the notifiers and of the reply arena, and any faults, drops and         *)
(* deadlines.                                                              *)
(*                                                                         *)
(* A client step is a step of the scheduler or leaves it alone, so what is *)
(* shown of the scheduler holds of the client too.  On top of it come the  *)
(* books of the reply arena, the stages of the fibers, and why a fiber     *)
(* that sleeps in a notifier cannot run.                                   *)
(***************************************************************************)
EXTENDS RedisClient, FiniteSetTheorems, SequenceTheorems, TLAPS

-----------------------------------------------------------------------------
(* What the FIFO operations do to the set of linked slots. *)

(* Renumbering the links of a FIFO keeps every link in range and neither   *)
(* links nor unlinks a slot.                                               *)
LEMMA DenseRange ==
    ASSUME NEW key \in [Slot -> Nat]
    PROVE  /\ Dense(key) \in [Slot -> 0 .. Conns]
           /\ \A s \in Slot : Dense(key)[s] > 0 <=> key[s] > 0
<1> DEFINE Upto(s) == {t \in Slot : key[t] > 0 /\ key[t] <= key[s]}
<1>1. IsFiniteSet(Slot) /\ Cardinality(Slot) = Conns
  BY RoutesAssumption, FS_Interval, 0 \in Int, Conns - 1 \in Int DEF Slot
<1>2. ASSUME NEW s \in Slot
      PROVE  /\ Cardinality(Upto(s)) \in 0 .. Conns
             /\ key[s] > 0 => Cardinality(Upto(s)) > 0
  <2>1. Upto(s) \in SUBSET Slot
    OBVIOUS
  <2>2. IsFiniteSet(Upto(s)) /\ Cardinality(Upto(s)) <= Cardinality(Slot)
    BY <1>1, <2>1, FS_Subset
  <2>3. Cardinality(Upto(s)) \in Nat
    BY <2>2, FS_CardinalityType
  <2>4. key[s] > 0 => Upto(s) # {}
    BY s \in Slot, key[s] \in Nat
  <2>5. key[s] > 0 => Cardinality(Upto(s)) # 0
    BY <2>2, <2>4, FS_EmptySet
  <2> QED
    BY <1>1, <2>2, <2>3, <2>5, RoutesAssumption
<1>3. Dense(key) = [s \in Slot |->
                      IF key[s] = 0 THEN 0 ELSE Cardinality(Upto(s))]
  BY DEF Dense
<1> HIDE DEF Upto
<1> QED
  BY <1>2, <1>3, RoutesAssumption

LEMMA ScheduleIdleLinks ==
    ASSUME TypeOK, NEW s \in Slot, ScheduleIdle(s)
    PROVE  /\ idle' \in [Slot -> 0 .. Conns]
           /\ idleGen' = [idleGen EXCEPT ![s] = gen[s]]
           /\ idleGen' \in [Slot -> 0 .. MaxGen]
           /\ \A t \in Slot : idle'[t] > 0 <=> (t = s \/ idle[t] > 0)
<1> DEFINE key == [idle EXCEPT ![s] = Conns + 1]
<1>0. idle \in [Slot -> 0 .. Conns] /\ Conns \in Nat
  BY RoutesAssumption DEF TypeOK
<1>1. key \in [Slot -> Nat]
  BY <1>0
<1>2. \A t \in Slot : key[t] > 0 <=> (t = s \/ idle[t] > 0)
  BY <1>0
<1>3. idleGen' = [idleGen EXCEPT ![s] = gen[s]]
  BY DEF ScheduleIdle
<1>4. (idle' = idle /\ idle[s] > 0) \/ idle' = Dense(key)
  BY DEF ScheduleIdle, Linked, PushBack
<1>5. idle \in [Slot -> 0 .. Conns] /\ idleGen \in [Slot -> 0 .. MaxGen]
      /\ gen \in [Slot -> 0 .. MaxGen]
  BY DEF TypeOK
<1> HIDE DEF key
<1> QED
  BY <1>1, <1>2, <1>3, <1>4, <1>5, DenseRange

LEMMA ScheduleDeferredLinks ==
    ASSUME TypeOK, NEW s \in Slot, ScheduleDeferred(s)
    PROVE  /\ defer' \in [Slot -> 0 .. Conns]
           /\ deferGen' = [deferGen EXCEPT ![s] = gen[s]]
           /\ deferGen' \in [Slot -> 0 .. MaxGen]
           /\ \A t \in Slot : defer'[t] > 0 <=> (t = s \/ defer[t] > 0)
<1> DEFINE key == [defer EXCEPT ![s] = Conns + 1]
<1>0. defer \in [Slot -> 0 .. Conns] /\ Conns \in Nat
  BY RoutesAssumption DEF TypeOK
<1>1. key \in [Slot -> Nat]
  BY <1>0
<1>2. \A t \in Slot : key[t] > 0 <=> (t = s \/ defer[t] > 0)
  BY <1>0
<1>3. deferGen' = [deferGen EXCEPT ![s] = gen[s]]
  BY DEF ScheduleDeferred
<1>4. (defer' = defer /\ defer[s] > 0) \/ defer' = Dense(key)
  BY DEF ScheduleDeferred, Linked, PushBack
<1>5. defer \in [Slot -> 0 .. Conns] /\ deferGen \in [Slot -> 0 .. MaxGen]
      /\ gen \in [Slot -> 0 .. MaxGen]
  BY DEF TypeOK
<1> HIDE DEF key
<1> QED
  BY <1>1, <1>2, <1>3, <1>4, <1>5, DenseRange

LEMMA UnlinkIdleLinks ==
    ASSUME TypeOK, NEW s \in Slot, UnlinkIdle(s)
    PROVE  /\ idle' \in [Slot -> 0 .. Conns]
           /\ idleGen' \in [Slot -> 0 .. MaxGen]
           /\ \A t \in Slot : idle'[t] > 0 <=>
                (idle[t] > 0 /\ ~(t = s /\ idleGen[s] = gen[s]))
           /\ \A t \in Slot \ {s} : idleGen'[t] = idleGen[t]
           /\ idleGen[s] # gen[s] => idleGen'[s] = idleGen[s]
<1> DEFINE key == [idle EXCEPT ![s] = 0]
<1>0. idle \in [Slot -> 0 .. Conns] /\ Conns \in Nat
  BY RoutesAssumption DEF TypeOK
<1>1. key \in [Slot -> Nat]
  BY <1>0
<1>2. \A t \in Slot : key[t] > 0 <=> (t # s /\ idle[t] > 0)
  BY <1>0
<1>3. idle \in [Slot -> 0 .. Conns] /\ idleGen \in [Slot -> 0 .. MaxGen]
  BY DEF TypeOK
<1>4. CASE Linked(idle, idleGen, s)
  <2>1. idle' = Dense(key) /\ idleGen' = [idleGen EXCEPT ![s] = 0]
    BY <1>4 DEF UnlinkIdle, Remove
  <2>2. idleGen[s] = gen[s]
    BY <1>4 DEF Linked
  <2> HIDE DEF key
  <2> QED
    BY <1>1, <1>2, <1>3, <2>1, <2>2, DenseRange, RoutesAssumption
<1>5. CASE ~Linked(idle, idleGen, s)
  BY <1>3, <1>5 DEF UnlinkIdle, Linked
<1> QED
  BY <1>4, <1>5

LEMMA UnlinkDeferredLinks ==
    ASSUME TypeOK, NEW s \in Slot, UnlinkDeferred(s)
    PROVE  /\ defer' \in [Slot -> 0 .. Conns]
           /\ deferGen' \in [Slot -> 0 .. MaxGen]
           /\ \A t \in Slot : defer'[t] > 0 <=>
                (defer[t] > 0 /\ ~(t = s /\ deferGen[s] = gen[s]))
           /\ \A t \in Slot \ {s} : deferGen'[t] = deferGen[t]
           /\ deferGen[s] # gen[s] => deferGen'[s] = deferGen[s]
<1> DEFINE key == [defer EXCEPT ![s] = 0]
<1>0. defer \in [Slot -> 0 .. Conns] /\ Conns \in Nat
  BY RoutesAssumption DEF TypeOK
<1>1. key \in [Slot -> Nat]
  BY <1>0
<1>2. \A t \in Slot : key[t] > 0 <=> (t # s /\ defer[t] > 0)
  BY <1>0
<1>3. defer \in [Slot -> 0 .. Conns] /\ deferGen \in [Slot -> 0 .. MaxGen]
  BY DEF TypeOK
<1>4. CASE Linked(defer, deferGen, s)
  <2>1. defer' = Dense(key) /\ deferGen' = [deferGen EXCEPT ![s] = 0]
    BY <1>4 DEF UnlinkDeferred, Remove
  <2>2. deferGen[s] = gen[s]
    BY <1>4 DEF Linked
  <2> HIDE DEF key
  <2> QED
    BY <1>1, <1>2, <1>3, <2>1, <2>2, DenseRange, RoutesAssumption
<1>5. CASE ~Linked(defer, deferGen, s)
  BY <1>3, <1>5 DEF UnlinkDeferred, Linked
<1> QED
  BY <1>4, <1>5

(* refresh links exactly the quiet deferred routes into the idle FIFO and  *)
(* keeps exactly the busy ones deferred.                                   *)
LEMMA RefreshLinks ==
    ASSUME TypeOK
    PROVE  /\ RefreshedIdle \in [Slot -> 0 .. Conns]
           /\ RefreshedIdleGen \in [Slot -> 0 .. MaxGen]
           /\ RefreshedDefer \in [Slot -> 0 .. Conns]
           /\ RefreshedDeferGen \in [Slot -> 0 .. MaxGen]
           /\ \A s \in Slot : RefreshedIdle[s] > 0 <=> (Moved(s) \/ idle[s] > 0)
           /\ \A s \in Slot : RefreshedDefer[s] > 0 <=>
                (defer[s] > 0 /\ Ripe(s) /\ ~Quiet(s))
           /\ \A s \in Slot : RefreshedDefer[s] > 0 =>
                RefreshedDeferGen[s] = deferGen[s]
           /\ \A s \in Slot : Moved(s) => RefreshedIdleGen[s] = gen[s]
           /\ \A s \in Slot : ~Moved(s) => RefreshedIdleGen[s] = idleGen[s]
<1> DEFINE ikey == [s \in Slot |->
                      IF Moved(s) /\ ~Linked(idle, idleGen, s)
                      THEN Conns + defer[s] ELSE idle[s]]
           dkey == [s \in Slot |->
                      IF Ripe(s) /\ ~Quiet(s) THEN defer[s] ELSE 0]
<1>1. /\ idle \in [Slot -> 0 .. Conns] /\ idleGen \in [Slot -> 0 .. MaxGen]
      /\ defer \in [Slot -> 0 .. Conns] /\ deferGen \in [Slot -> 0 .. MaxGen]
      /\ gen \in [Slot -> 0 .. MaxGen] /\ Conns \in Nat /\ Conns > 0
      /\ MaxGen \in Nat
  BY RoutesAssumption DEF TypeOK
<1>2. ikey \in [Slot -> Nat] /\ dkey \in [Slot -> Nat]
  BY <1>1
<1>3. \A s \in Slot : ikey[s] > 0 <=> (Moved(s) \/ idle[s] > 0)
  BY <1>1 DEF Linked
<1>4. \A s \in Slot : dkey[s] > 0 <=> (defer[s] > 0 /\ Ripe(s) /\ ~Quiet(s))
  BY <1>1
<1>5. RefreshedIdle = Dense(ikey) /\ RefreshedDefer = Dense(dkey)
  BY DEF RefreshedIdle, RefreshedDefer
<1> HIDE DEF ikey, dkey
<1>6. /\ RefreshedIdle \in [Slot -> 0 .. Conns]
      /\ RefreshedDefer \in [Slot -> 0 .. Conns]
      /\ \A s \in Slot : RefreshedIdle[s] > 0 <=> (Moved(s) \/ idle[s] > 0)
      /\ \A s \in Slot : RefreshedDefer[s] > 0 <=>
                (defer[s] > 0 /\ Ripe(s) /\ ~Quiet(s))
  BY <1>2, <1>3, <1>4, <1>5, DenseRange
<1> QED
  BY <1>1, <1>6 DEF RefreshedIdleGen, RefreshedDeferGen

-----------------------------------------------------------------------------
(* Type correctness *)

LEMMA SlotFacts ==
    /\ Conns \in Nat /\ Conns > 0 /\ MaxGen \in Nat
    /\ \A s \in Slot : s \in Int /\ 0 <= s /\ s < Conns /\ After(s) \in Slot
    /\ 0 \in Slot
BY RoutesAssumption DEF Slot, After

(* A suffix of a lane is a lane. *)
LEMMA SuffixType ==
    ASSUME NEW q \in Seq(Commands), NEW k \in 1 .. Len(q)
    PROVE  SubSeq(q, k + 1, Len(q)) \in Seq(Commands)
BY SubSeqProperties, k + 1 \in 1 .. Len(q) + 1

LEMMA WithdrawLinks ==
    ASSUME TypeOK, NEW s \in Slot, Withdraw(s)
    PROVE  /\ idle' \in [Slot -> 0 .. Conns] /\ idleGen' \in [Slot -> 0 .. MaxGen]
           /\ defer' \in [Slot -> 0 .. Conns] /\ deferGen' \in [Slot -> 0 .. MaxGen]
BY UnlinkIdleLinks, UnlinkDeferredLinks DEF Withdraw

LEMMA TypeInit == Init => TypeOK
BY RoutesAssumption, SlotFacts
DEF Init, TypeOK, Phases, NoCause, Pool

(* Every action keeps the type invariant. *)
LEMMA TypeStep == TypeOK /\ [Next]_vars => TypeOK'
<1> SUFFICES ASSUME TypeOK, [Next]_vars PROVE TypeOK'
  OBVIOUS
<1> USE SlotFacts
<1>1. ASSUME NEW s \in Slot, Activate(s) PROVE TypeOK'
  <2>1. phase' \in [Slot -> Phases]
    BY <1>1 DEF Activate, TypeOK, Phases
  <2>2. gen' \in [Slot -> 0 .. MaxGen]
    <3>1. gen \in [Slot -> 0 .. MaxGen]
      BY DEF TypeOK
    <3>2. gen[s] < MaxGen /\ gen' = [gen EXCEPT ![s] = gen[s] + 1]
      BY <1>1 DEF Activate
    <3>3. gen[s] + 1 \in 0 .. MaxGen
      BY <3>1, <3>2
    <3> QED
      BY <3>1, <3>2, <3>3
  <2> QED
    BY <1>1, <2>1, <2>2 DEF Activate, TypeOK, fifos, lanes
<1>2. ASSUME NEW s \in Slot, MarkReady(s) PROVE TypeOK'
  <2>1. idle' \in [Slot -> 0 .. Conns] /\ idleGen' \in [Slot -> 0 .. MaxGen]
    BY <1>2, ScheduleIdleLinks DEF MarkReady, TypeOK
  <2>2. phase' \in [Slot -> Phases]
    BY <1>2 DEF MarkReady, TypeOK, Phases
  <2>3. active' \in Int /\ fatal' \subseteq Slot
    BY <1>2 DEF MarkReady, ClearFatal, TypeOK
  <2> QED
    BY <1>2, <2>1, <2>2, <2>3 DEF MarkReady, TypeOK, lanes
<1>3. ASSUME NEW s \in Slot, NEW why \in Causes, Close(s, why), fatal' \subseteq Slot
      PROVE TypeOK'
  <2>1. Withdraw(s)
    BY <1>3 DEF Close
  <2>2. phase' \in [Slot -> Phases] /\ cause' \in [Slot -> Causes \cup {NoCause}]
    BY <1>3 DEF Close, TypeOK, Phases
  <2>3. active' \in Int
    BY <1>3 DEF Close, TypeOK
  <2>4. UNCHANGED <<gen, next, lanes, holds>>
    BY <1>3 DEF Close
  <2> QED
    BY <1>3, <2>1, <2>2, <2>3, <2>4, WithdrawLinks DEF TypeOK, lanes
<1>4. ASSUME NEW s \in Slot, NEW why \in Causes, Fail(s, why) \/ Quarantine(s, why)
      PROVE TypeOK'
  BY <1>3, <1>4 DEF Fail, Quarantine, TypeOK
<1>5. ASSUME NEW s \in Slot, Reconnect(s) PROVE TypeOK'
  <2>1. Withdraw(s)
    BY <1>5 DEF Reconnect
  <2>2. phase' \in [Slot -> Phases] /\ cause' \in [Slot -> Causes \cup {NoCause}]
    BY <1>5 DEF Reconnect, TypeOK, Phases, Causes
  <2>3. active' \in Int
    BY <1>5 DEF Reconnect, TypeOK
  <2>4. UNCHANGED <<gen, next, lanes, holds, fatal>>
    BY <1>5 DEF Reconnect
  <2> QED
    BY <2>1, <2>2, <2>3, <2>4, WithdrawLinks DEF TypeOK, lanes
<1>6. ASSUME NEW s \in Slot, Retire(s) PROVE TypeOK'
  BY <1>6 DEF Retire, TypeOK, Phases, fifos, lanes
<1>7. ASSUME NEW c \in Commands, NEW s \in Slot, NEW who \in Leases \cup {Pool},
             Publish(c, s, who)
      PROVE  /\ queue' \in [Slot -> Seq(Commands)]
             /\ replies' \in [Slot -> Seq(Commands)]
             /\ owner' \in [Commands -> Leases \cup {Pool}]
  <2>1. \A q \in Seq(Commands) : Append(q, c) \in Seq(Commands)
    OBVIOUS
  <2>2. /\ queue \in [Slot -> Seq(Commands)] /\ replies \in [Slot -> Seq(Commands)]
        /\ owner \in [Commands -> Leases \cup {Pool}]
    BY DEF TypeOK
  <2>3. /\ queue' = [queue EXCEPT ![s] = Append(queue[s], c)]
        /\ replies' = [replies EXCEPT ![s] = Append(replies[s], c)]
        /\ owner' = [owner EXCEPT ![c] = who]
    BY <1>7 DEF Publish
  <2> QED
    BY <2>1, <2>2, <2>3
<1>8. ASSUME NEW c \in Commands, TryPool(c) PROVE TypeOK'
  <2>1. PICK s \in Slot : Publish(c, s, Pool) /\ UnlinkIdle(s) /\ next' = After(s)
    BY <1>8 DEF TryPool
  <2> QED
    BY <1>7, <1>8, <2>1, UnlinkIdleLinks DEF TryPool, TypeOK
<1>9. ASSUME NEW c \in Commands, NEW l \in Leases, DispatchLease(c, l)
      PROVE TypeOK'
  <2>1. holds[l].slot \in Slot
    BY <1>9 DEF DispatchLease, Leased, Id
  <2>2. Publish(c, holds[l].slot, l)
    BY <1>9 DEF DispatchLease
  <2> QED
    BY <1>7, <1>9, <2>1, <2>2 DEF DispatchLease, TypeOK, fifos
<1>10. ASSUME NEW s \in Slot, NEW k \in 1 .. Len(queue[s]),
              Drain(s, k) \/ ClearSend(s, k)
       PROVE TypeOK'
  <2>1. queue' = [queue EXCEPT ![s] = SubSeq(queue[s], k + 1, Len(queue[s]))]
    BY <1>10 DEF Drain, ClearSend
  <2>2. queue[s] \in Seq(Commands)
    BY DEF TypeOK
  <2>3. queue' \in [Slot -> Seq(Commands)]
    BY <2>1, <2>2, SuffixType DEF TypeOK
  <2> QED
    BY <1>10, <2>3 DEF Drain, ClearSend, TypeOK, fifos
<1>11. ASSUME NEW s \in Slot, NEW k \in 1 .. Len(replies[s]), ClearRecv(s, k)
       PROVE TypeOK'
  <2>1. replies' = [replies EXCEPT ![s] = SubSeq(replies[s], k + 1, Len(replies[s]))]
    BY <1>11 DEF ClearRecv
  <2>2. replies[s] \in Seq(Commands)
    BY DEF TypeOK
  <2>3. replies' \in [Slot -> Seq(Commands)]
    BY <2>1, <2>2, SuffixType DEF TypeOK
  <2> QED
    BY <1>11, <2>3 DEF ClearRecv, TypeOK, fifos
<1>12. ASSUME NEW s \in Slot, TryReply(s) PROVE TypeOK'
  <2>1. replies' \in [Slot -> Seq(Commands)]
    BY <1>12 DEF TryReply, TypeOK
  <2>2. idle' \in [Slot -> 0 .. Conns] /\ idleGen' \in [Slot -> 0 .. MaxGen]
    BY <1>12, ScheduleIdleLinks DEF TryReply, TypeOK
  <2> QED
    BY <1>12, <2>1, <2>2 DEF TryReply, TypeOK
<1>13. ASSUME NEW l \in Leases, TryLease(l) PROVE TypeOK'
  <2>1. PICK s \in Slot :
          /\ idle' = Dense([t \in Slot |->
                            IF t \in Popped(s) THEN 0 ELSE RefreshedIdle[t]])
          /\ idleGen' = [t \in Slot |->
                            IF t \in Popped(s) THEN 0 ELSE RefreshedIdleGen[t]]
          /\ phase' = [phase EXCEPT ![s] = "Exclusive"]
          /\ holds' = [holds EXCEPT ![l] = Id(s)]
    BY <1>13 DEF TryLease
  <2>2. [t \in Slot |-> IF t \in Popped(s) THEN 0 ELSE RefreshedIdle[t]]
          \in [Slot -> Nat]
    BY RefreshLinks
  <2>3. idle' \in [Slot -> 0 .. Conns]
    BY <2>1, <2>2, DenseRange
  <2>4. idleGen' \in [Slot -> 0 .. MaxGen]
    BY <2>1, RefreshLinks
  <2>5. Id(s) \in Token
    BY DEF Id, Token, TypeOK
  <2> QED
    BY <1>13, <2>1, <2>3, <2>4, <2>5, RefreshLinks
    DEF TryLease, TypeOK, Phases, lanes
<1>14. ASSUME NEW l \in Leases, TryLeaseEmpty(l) PROVE TypeOK'
  <2>1. idle' \in [Slot -> 0 .. Conns] /\ idleGen' \in [Slot -> 0 .. MaxGen]
    BY <1>14 DEF TryLeaseEmpty
  <2>2. defer' = RefreshedDefer /\ deferGen' = RefreshedDeferGen
    BY <1>14 DEF TryLeaseEmpty
  <2>3. UNCHANGED <<phase, gen, cause, active, next, lanes, holds, fatal>>
    BY <1>14 DEF TryLeaseEmpty
  <2> QED
    BY <2>1, <2>2, <2>3, RefreshLinks DEF TypeOK, lanes
<1>15. ASSUME NEW l \in Leases, Release(l) PROVE TypeOK'
  <2>1. holds[l].slot \in Slot
    BY <1>15 DEF Release, TypeOK, Token
  <2>2. defer' \in [Slot -> 0 .. Conns] /\ deferGen' \in [Slot -> 0 .. MaxGen]
        /\ phase' \in [Slot -> Phases]
    BY <1>15, <2>1, ScheduleDeferredLinks DEF Release, TypeOK, Phases
  <2> QED
    BY <1>15, <2>2 DEF Release, TypeOK, lanes
<1>16. ASSUME UNCHANGED vars PROVE TypeOK'
  BY <1>16 DEF vars, fifos, lanes, TypeOK
<1> QED
  BY <1>1, <1>2, <1>4, <1>5, <1>6, <1>8, <1>9, <1>10, <1>11, <1>12, <1>13,
     <1>14, <1>15, <1>16
  DEF Next

(* The scheduler keeps the types of its state, whatever the sizes, the     *)
(* peer and the order of the operations: ranks stay within the slots, the  *)
(* cursor of Routes::next stays on a slot, lanes hold commands.            *)
THEOREM TypeCorrect == Spec => []TypeOK
BY TypeInit, TypeStep, PTL DEF Spec

-----------------------------------------------------------------------------
(* The FIFOs hold only routes that may be leased. *)

(* IdleSound and DeferSound are inductive together: refresh moves deferred *)
(* routes into the idle FIFO, and a lease empties the link it takes.       *)
FifoInv == TypeOK /\ IdleSound /\ DeferSound

LEMMA FifoInit == Init => FifoInv
BY TypeInit, RoutesAssumption DEF Init, FifoInv, IdleSound, DeferSound

(* A failing connection is in neither FIFO, the others stay as they were.  *)
LEMMA WithdrawSound ==
    ASSUME FifoInv, NEW s \in Slot, Withdraw(s),
           \A t \in Slot \ {s} : phase'[t] = phase[t],
           UNCHANGED <<gen, lanes>>
    PROVE  IdleSound' /\ DeferSound'
<1>1. /\ \A t \in Slot : idle'[t] > 0 => idle[t] > 0 /\ t # s
      /\ \A t \in Slot \ {s} : idleGen'[t] = idleGen[t]
  BY UnlinkIdleLinks DEF FifoInv, IdleSound, Withdraw
<1>2. /\ \A t \in Slot : defer'[t] > 0 => defer[t] > 0 /\ t # s
      /\ \A t \in Slot \ {s} : deferGen'[t] = deferGen[t]
  BY UnlinkDeferredLinks DEF FifoInv, DeferSound, Withdraw
<1> QED
  BY <1>1, <1>2 DEF FifoInv, IdleSound, DeferSound, Quiet, lanes

(* Dropping entries from the front of a lane never makes a route busy.     *)
LEMMA ShorterSound ==
    ASSUME FifoInv, UNCHANGED <<phase, gen, fifos>>,
           \A t \in Slot : queue[t] = <<>> => queue'[t] = <<>>,
           \A t \in Slot : replies[t] = <<>> => replies'[t] = <<>>
    PROVE  IdleSound' /\ DeferSound'
BY DEF FifoInv, IdleSound, DeferSound, Quiet, fifos

LEMMA FifoStep == FifoInv /\ [Next]_vars => FifoInv'
<1> SUFFICES ASSUME FifoInv, [Next]_vars PROVE IdleSound' /\ DeferSound'
  BY TypeStep DEF FifoInv
<1> USE SlotFacts
<1>0. TypeOK /\ IdleSound /\ DeferSound
  BY DEF FifoInv
<1>T. /\ phase \in [Slot -> Phases] /\ gen \in [Slot -> 0 .. MaxGen]
      /\ queue \in [Slot -> Seq(Commands)] /\ replies \in [Slot -> Seq(Commands)]
  BY <1>0 DEF TypeOK
<1>1. ASSUME NEW s \in Slot, Activate(s) PROVE IdleSound' /\ DeferSound'
  <2>0. phase[s] # "Shared"
    BY <1>1 DEF Activate
  <2>1. ~(idle[s] > 0) /\ ~(defer[s] > 0)
    BY <1>0, <2>0 DEF IdleSound, DeferSound
  <2> QED
    BY <1>0, <1>T, <1>1, <2>1
    DEF Activate, IdleSound, DeferSound, Quiet, fifos, lanes
<1>2. ASSUME NEW s \in Slot, MarkReady(s) PROVE IdleSound' /\ DeferSound'
  <2>0. phase[s] # "Shared"
    BY <1>2 DEF MarkReady
  <2>1. ~(idle[s] > 0) /\ ~(defer[s] > 0)
    BY <1>0, <2>0 DEF IdleSound, DeferSound
  <2>2. phase' = [phase EXCEPT ![s] = "Shared"] /\ UNCHANGED <<gen, defer, deferGen, lanes>>
    BY <1>2 DEF MarkReady
  <2>3. DeferSound'
    BY <1>0, <1>T, <2>1, <2>2 DEF DeferSound
  <2>4. CASE Quiet(s)
    <3>1. ScheduleIdle(s)
      BY <1>2, <2>4 DEF MarkReady
    <3>2. IdleSound'
      BY <1>0, <1>T, <2>2, <2>4, <3>1, ScheduleIdleLinks
      DEF IdleSound, Quiet, lanes
    <3> QED
      BY <2>3, <3>2
  <2>5. CASE ~Quiet(s)
    BY <1>0, <1>2, <1>T, <2>1, <2>2, <2>5, <2>3
    DEF MarkReady, IdleSound, Quiet, lanes
  <2> QED
    BY <2>4, <2>5
<1>4. ASSUME NEW s \in Slot, NEW why \in Causes, Fail(s, why) \/ Quarantine(s, why)
      PROVE IdleSound' /\ DeferSound'
  <2>1. Withdraw(s) /\ phase' = [phase EXCEPT ![s] = "Closing"] /\ UNCHANGED <<gen, lanes>>
    BY <1>4 DEF Fail, Quarantine, Close
  <2> QED
    BY <1>T, <2>1, WithdrawSound
<1>5. ASSUME NEW s \in Slot, Reconnect(s) PROVE IdleSound' /\ DeferSound'
  <2>1. Withdraw(s) /\ phase' = [phase EXCEPT ![s] = "Reconnecting"]
        /\ UNCHANGED <<gen, lanes>>
    BY <1>5 DEF Reconnect
  <2> QED
    BY <1>T, <2>1, WithdrawSound
<1>6. ASSUME NEW s \in Slot, Retire(s) PROVE IdleSound' /\ DeferSound'
  <2>1. phase[s] # "Shared"
    BY <1>6 DEF Retire
  <2> QED
    BY <1>0, <1>T, <1>6, <2>1 DEF Retire, IdleSound, DeferSound, Quiet, fifos, lanes
<1>8. ASSUME NEW c \in Commands, TryPool(c) PROVE IdleSound' /\ DeferSound'
  <2>1. PICK s \in Slot : Publish(c, s, Pool) /\ UnlinkIdle(s)
    BY <1>8 DEF TryPool
  <2>2. UNCHANGED <<phase, gen, defer, deferGen>>
    BY <1>8 DEF TryPool
  <2>3. \A t \in Slot : idle'[t] > 0 => idle[t] > 0 /\ t # s /\ idleGen'[t] = idleGen[t]
    BY <1>0, <2>1, UnlinkIdleLinks DEF IdleSound
  <2>4. \A t \in Slot \ {s} : queue'[t] = queue[t] /\ replies'[t] = replies[t]
    BY <1>T, <2>1 DEF Publish
  <2> QED
    BY <1>0, <2>2, <2>3, <2>4 DEF IdleSound, DeferSound, Quiet
<1>9. ASSUME NEW c \in Commands, NEW l \in Leases, DispatchLease(c, l)
      PROVE IdleSound' /\ DeferSound'
  <2>1. PICK s \in Slot : phase[s] = "Exclusive" /\ holds[l] = Id(s)
    BY <1>9 DEF DispatchLease, Leased
  <2>2. holds[l].slot = s
    BY <2>1 DEF Id
  <2>3. \A t \in Slot \ {s} : queue'[t] = queue[t] /\ replies'[t] = replies[t]
    BY <1>9, <1>T, <2>2 DEF DispatchLease, Publish
  <2>4. UNCHANGED <<phase, gen, fifos>>
    BY <1>9 DEF DispatchLease
  <2> QED
    BY <1>0, <2>1, <2>3, <2>4 DEF IdleSound, DeferSound, Quiet, fifos
<1>10. ASSUME NEW s \in Slot, NEW k \in 1 .. Len(queue[s]),
              Drain(s, k) \/ ClearSend(s, k)
       PROVE IdleSound' /\ DeferSound'
  <2>1. queue' = [queue EXCEPT ![s] = SubSeq(queue[s], k + 1, Len(queue[s]))]
        /\ UNCHANGED <<phase, gen, fifos, replies>>
    BY <1>10 DEF Drain, ClearSend
  <2>2. queue[s] # <<>>
    BY <1>T
  <2> QED
    BY <1>T, <2>1, <2>2, ShorterSound
<1>11. ASSUME NEW s \in Slot, NEW k \in 1 .. Len(replies[s]), ClearRecv(s, k)
       PROVE IdleSound' /\ DeferSound'
  <2>1. replies' = [replies EXCEPT ![s] = SubSeq(replies[s], k + 1, Len(replies[s]))]
        /\ UNCHANGED <<phase, gen, fifos, queue>>
    BY <1>11 DEF ClearRecv
  <2>2. replies[s] # <<>>
    BY <1>T
  <2> QED
    BY <1>T, <2>1, <2>2, ShorterSound
<1>12. ASSUME NEW s \in Slot, TryReply(s) PROVE IdleSound' /\ DeferSound'
  <2>1. /\ replies[s] # <<>> /\ replies' = [replies EXCEPT ![s] = Tail(replies[s])]
        /\ UNCHANGED <<phase, gen, defer, deferGen, queue>>
    BY <1>12 DEF TryReply
  <2>2. CASE phase[s] = "Shared" /\ Answered(s)
    <3>1. ScheduleIdle(s)
      BY <1>12, <2>2 DEF TryReply
    <3> QED
      BY <1>0, <1>T, <2>1, <2>2, <3>1, ScheduleIdleLinks
      DEF IdleSound, DeferSound, Quiet, Answered
  <2>3. CASE ~(phase[s] = "Shared" /\ Answered(s))
    <3>1. UNCHANGED <<idle, idleGen>>
      BY <1>12, <2>3 DEF TryReply
    <3> QED
      BY <1>0, <1>T, <2>1, <3>1 DEF IdleSound, DeferSound, Quiet
  <2> QED
    BY <2>2, <2>3
<1>R. /\ \A t \in Slot : RefreshedIdle[t] > 0 =>
            phase[t] = "Shared" /\ RefreshedIdleGen[t] = gen[t] /\ Quiet(t)
      /\ \A t \in Slot : RefreshedDefer[t] > 0 =>
            phase[t] = "Shared" /\ RefreshedDeferGen[t] = gen[t] /\ ~Quiet(t)
  BY <1>0, RefreshLinks DEF IdleSound, DeferSound, Moved, Ripe
<1>13. ASSUME NEW l \in Leases, TryLease(l) PROVE IdleSound' /\ DeferSound'
  <2>1. PICK s \in Slot :
          /\ Acquirable(s)
          /\ idle' = Dense([t \in Slot |->
                            IF t \in Popped(s) THEN 0 ELSE RefreshedIdle[t]])
          /\ idleGen' = [t \in Slot |->
                            IF t \in Popped(s) THEN 0 ELSE RefreshedIdleGen[t]]
          /\ phase' = [phase EXCEPT ![s] = "Exclusive"]
    BY <1>13 DEF TryLease
  <2> DEFINE key == [t \in Slot |-> IF t \in Popped(s) THEN 0 ELSE RefreshedIdle[t]]
  <2>2. key \in [Slot -> Nat]
    BY <1>0, RefreshLinks
  <2>3. RefreshedIdle[s] > 0 /\ RefreshedIdle[s] \in Nat
    BY <1>0, <2>1, RefreshLinks DEF Acquirable
  <2>4. s \in Popped(s)
    BY <2>3 DEF Popped
  <2>5. \A t \in Slot : key[t] > 0 =>
          t \notin Popped(s) /\ t # s /\ RefreshedIdle[t] > 0
    BY <2>4
  <2>6. \A t \in Slot : idle'[t] > 0 => key[t] > 0
    <3> HIDE DEF key
    <3> QED
      BY <2>1, <2>2, DenseRange DEF key
  <2>7. UNCHANGED <<gen, lanes>> /\ defer' = RefreshedDefer /\ deferGen' = RefreshedDeferGen
    BY <1>13 DEF TryLease
  <2>8. IdleSound'
    <3> HIDE DEF key
    <3> QED
      BY <1>R, <1>T, <2>1, <2>5, <2>6, <2>7 DEF IdleSound, Quiet, lanes
  <2>9. Quiet(s)
    BY <1>R, <2>3
  <2>10. DeferSound'
    BY <1>R, <1>T, <2>1, <2>7, <2>9 DEF DeferSound
  <2> QED
    BY <2>8, <2>10
<1>14. ASSUME NEW l \in Leases, TryLeaseEmpty(l) PROVE IdleSound' /\ DeferSound'
  BY <1>R, <1>14 DEF TryLeaseEmpty, IdleSound, DeferSound
<1>15. ASSUME NEW l \in Leases, Release(l) PROVE IdleSound' /\ DeferSound'
  <2> DEFINE s == holds[l].slot
  <2>1. s \in Slot
    BY <1>0, <1>15 DEF Release, TypeOK, Token
  <2>2. UNCHANGED <<gen, idle, idleGen, lanes>>
    BY <1>15 DEF Release
  <2>3. CASE Releases(l)
    <3>1. phase' = [phase EXCEPT ![s] = "Shared"] /\ ScheduleDeferred(s)
      BY <1>15, <2>3 DEF Release
    <3> HIDE DEF s
    <3>2. DeferSound'
      BY <1>0, <1>T, <2>1, <2>2, <3>1, ScheduleDeferredLinks DEF DeferSound, TypeOK
    <3>3. IdleSound'
      BY <1>0, <1>T, <2>1, <2>2, <3>1 DEF IdleSound, Quiet, lanes
    <3> QED
      BY <3>2, <3>3
  <2>4. CASE ~Releases(l)
    BY <1>0, <1>15, <2>2, <2>4 DEF Release, IdleSound, DeferSound, Quiet, lanes
  <2> QED
    BY <2>3, <2>4
<1>16. ASSUME UNCHANGED vars PROVE IdleSound' /\ DeferSound'
  BY <1>0, <1>16 DEF vars, fifos, lanes, IdleSound, DeferSound, Quiet
<1> QED
  BY <1>1, <1>2, <1>4, <1>5, <1>6, <1>8, <1>9, <1>10, <1>11, <1>12, <1>13,
     <1>14, <1>15, <1>16
  DEF Next

(* Every route in the idle FIFO is shared, current and has empty lanes,    *)
(* which is what Conn::acquire relies on instead of checking the lanes,    *)
(* and refresh never publishes a stale entry of the deferred FIFO.         *)
THEOREM FifoSoundCorrect == Spec => []FifoSound
<1>1. Init => FifoInv
  BY FifoInit
<1>2. FifoInv /\ [Next]_vars => FifoInv'
  BY FifoStep
<1>3. FifoInv => FifoSound
  BY DEF FifoInv, FifoSound
<1> QED
  BY <1>1, <1>2, <1>3, PTL DEF Spec

-----------------------------------------------------------------------------
(* Leases *)

(* A generation that is not yet, or again, open to the pool has no lease.  *)
LeaseFresh ==
    \A s \in Slot, l \in Leases :
        phase[s] \in {"Initializing", "Shared"} => holds[l] # Id(s)

(* A lease is of the current or an earlier generation of its slot, so a    *)
(* new generation is nobody's.                                             *)
LeasePast ==
    \A l \in Leases : holds[l] # NoToken => holds[l].gen <= gen[holds[l].slot]

LeaseInv == FifoInv /\ LeaseUnique /\ LeaseFresh /\ LeasePast /\ LeaseIsolation

LEMMA ElementsAppend ==
    ASSUME NEW q \in Seq(Commands), NEW c \in Commands
    PROVE  Elements(Append(q, c)) = Elements(q) \cup {c}
<1>1. /\ Len(Append(q, c)) = Len(q) + 1 /\ Len(q) \in Nat
      /\ \A i \in 1 .. Len(q) : Append(q, c)[i] = q[i]
      /\ Append(q, c)[Len(q) + 1] = c
  OBVIOUS
<1>2. \A i \in 1 .. Len(q) + 1 : i \in 1 .. Len(q) \/ i = Len(q) + 1
  BY <1>1
<1> QED
  BY <1>1, <1>2 DEF Elements

LEMMA ElementsTail ==
    ASSUME NEW q \in Seq(Commands), q # <<>>
    PROVE  Elements(Tail(q)) \subseteq Elements(q)
<1>1. Len(Tail(q)) = Len(q) - 1 /\ Len(q) \in Nat
      /\ \A i \in 1 .. Len(q) - 1 : Tail(q)[i] = q[i + 1]
  OBVIOUS
<1> QED
  BY <1>1 DEF Elements

LEMMA ElementsSuffix ==
    ASSUME NEW q \in Seq(Commands), NEW k \in 1 .. Len(q)
    PROVE  Elements(SubSeq(q, k + 1, Len(q))) \subseteq Elements(q)
<1>1. Len(q) \in Nat /\ k + 1 \in 1 .. Len(q) + 1
  OBVIOUS
<1> DEFINE r == SubSeq(q, k + 1, Len(q))
<1>2. Len(r) = Len(q) - k /\ \A i \in 1 .. Len(r) : r[i] = q[i + k]
  BY <1>1
<1> HIDE DEF r
<1>3. \A i \in 1 .. Len(r) : i + k \in 1 .. Len(q) /\ r[i] = q[i + k]
  BY <1>1, <1>2
<1>4. Elements(r) \subseteq Elements(q)
  BY <1>3 DEF Elements
<1> QED
  BY <1>4 DEF r

LEMMA LeaseInit == Init => LeaseInv
<1> SUFFICES ASSUME Init PROVE LeaseInv
  OBVIOUS
<1>1. \A s \in Slot : phase[s] = "Vacant" /\ gen[s] = 0
  BY DEF Init
<1>2. \A l \in Leases : holds[l] = NoToken
  BY DEF Init
<1> QED
  BY <1>1, <1>2, FifoInit
  DEF LeaseInv, LeaseUnique, LeaseFresh, LeasePast, LeaseIsolation

(* A step that changes no lease, opens no slot and grows no lane.          *)
LEMMA LeaseKept ==
    ASSUME LeaseInv, UNCHANGED <<gen, holds, owner>>,
           \A s \in Slot : phase'[s] = "Exclusive" => phase[s] = "Exclusive",
           \A s \in Slot : phase'[s] \in {"Initializing", "Shared"} =>
                phase[s] \in {"Initializing", "Shared"},
           \A s \in Slot : Elements(queue'[s]) \subseteq Elements(queue[s]),
           \A s \in Slot : Elements(replies'[s]) \subseteq Elements(replies[s])
    PROVE  (LeaseUnique /\ LeaseFresh /\ LeasePast /\ LeaseIsolation)'
<1>1. \A s \in Slot : Id(s)' = Id(s)
  BY DEF Id
<1>2. LeaseUnique'
  BY <1>1 DEF LeaseInv, LeaseUnique
<1>3. LeaseFresh'
  BY <1>1 DEF LeaseInv, LeaseFresh
<1>4. LeasePast'
  BY DEF LeaseInv, LeasePast
<1>5. LeaseIsolation'
  BY <1>1 DEF LeaseInv, LeaseIsolation
<1> QED
  BY <1>2, <1>3, <1>4, <1>5

LEMMA LeaseStep == LeaseInv /\ [Next]_vars => LeaseInv'
<1> DEFINE P == LeaseUnique /\ LeaseFresh /\ LeasePast /\ LeaseIsolation
<1> SUFFICES ASSUME LeaseInv, [Next]_vars PROVE P'
  BY FifoStep DEF LeaseInv
<1> USE SlotFacts
<1>0. TypeOK /\ IdleSound /\ LeaseUnique /\ LeaseFresh /\ LeasePast /\ LeaseIsolation
  BY DEF LeaseInv, FifoInv
<1>T. /\ phase \in [Slot -> Phases] /\ gen \in [Slot -> 0 .. MaxGen]
      /\ queue \in [Slot -> Seq(Commands)] /\ replies \in [Slot -> Seq(Commands)]
      /\ owner \in [Commands -> Leases \cup {Pool}]
      /\ holds \in [Leases -> Token \cup {NoToken}]
  BY <1>0 DEF TypeOK
<1>H. \A l \in Leases : holds[l] # NoToken =>
        holds[l].slot \in Slot /\ holds[l].gen \in 0 .. MaxGen
        /\ holds[l] = [slot |-> holds[l].slot, gen |-> holds[l].gen]
  BY <1>T DEF Token
<1>I. \A s \in Slot : Id(s) # NoToken
  BY DEF Id, NoToken
<1>1. ASSUME NEW s \in Slot, Activate(s) PROVE P'
  <2>1. /\ gen' = [gen EXCEPT ![s] = gen[s] + 1] /\ phase[s] = "Vacant"
        /\ phase' = [phase EXCEPT ![s] = "Initializing"]
        /\ UNCHANGED <<holds, owner, queue, replies>>
    BY <1>1 DEF Activate, lanes
  <2>2. \A t \in Slot \ {s} : Id(t)' = Id(t) /\ phase'[t] = phase[t]
    BY <1>T, <2>1 DEF Id
  <2>3. Id(s)'.gen = gen[s] + 1 /\ Id(s)'.slot = s
    BY <1>T, <2>1 DEF Id
  <2>4. \A l \in Leases : holds[l] # Id(s)'
    <3> SUFFICES ASSUME NEW l \in Leases, holds[l] = Id(s)' PROVE FALSE
      OBVIOUS
    <3>1. holds[l].gen = gen[s] + 1 /\ holds[l].slot = s
      BY <2>3
    <3>2. holds[l] # NoToken
      BY <3>1, s >= 0 DEF NoToken
    <3>3. holds[l].gen <= gen[s]
      BY <1>0, <3>1, <3>2 DEF LeasePast
    <3> QED
      BY <1>T, <3>1, <3>3
  <2>5. LeaseUnique'
    BY <1>0, <1>T, <2>1, <2>2 DEF LeaseUnique
  <2>6. LeaseFresh'
    BY <1>0, <2>1, <2>2, <2>4 DEF LeaseFresh
  <2>7. LeasePast'
    BY <1>0, <1>H, <1>T, <2>1 DEF LeasePast
  <2>8. LeaseIsolation'
    BY <1>0, <1>T, <2>1, <2>2 DEF LeaseIsolation
  <2> QED
    BY <2>5, <2>6, <2>7, <2>8
<1>2. ASSUME NEW s \in Slot, MarkReady(s) PROVE P'
  <2>1. phase[s] = "Initializing" /\ phase' = [phase EXCEPT ![s] = "Shared"]
        /\ UNCHANGED <<gen, holds, queue, replies, owner>>
    BY <1>2 DEF MarkReady, lanes
  <2> QED
    BY <1>T, <2>1, LeaseKept
<1>4. ASSUME NEW s \in Slot, NEW why \in Causes, Fail(s, why) \/ Quarantine(s, why)
      PROVE P'
  <2>1. phase' = [phase EXCEPT ![s] = "Closing"]
        /\ UNCHANGED <<gen, holds, queue, replies, owner>>
    BY <1>4 DEF Fail, Quarantine, Close, lanes
  <2> QED
    BY <1>T, <2>1, LeaseKept
<1>5. ASSUME NEW s \in Slot, Reconnect(s) PROVE P'
  <2>1. phase' = [phase EXCEPT ![s] = "Reconnecting"]
        /\ UNCHANGED <<gen, holds, queue, replies, owner>>
    BY <1>5 DEF Reconnect, lanes
  <2> QED
    BY <1>T, <2>1, LeaseKept
<1>6. ASSUME NEW s \in Slot, Retire(s) PROVE P'
  <2>1. phase' = [phase EXCEPT ![s] = "Vacant"]
        /\ UNCHANGED <<gen, holds, queue, replies, owner>>
    BY <1>6 DEF Retire, lanes
  <2> QED
    BY <1>T, <2>1, LeaseKept
<1>7. ASSUME NEW c \in Commands, NEW s \in Slot, NEW who \in Leases \cup {Pool},
             Fresh(c), Publish(c, s, who), UNCHANGED <<phase, gen, holds>>,
             \A l \in Leases :
                phase[s] = "Exclusive" /\ holds[l] = Id(s) => who = l
      PROVE P'
  <2>1. \A t \in Slot \ {s} : queue'[t] = queue[t] /\ replies'[t] = replies[t]
    BY <1>7, <1>T DEF Publish
  <2>2. /\ queue'[s] = Append(queue[s], c) /\ replies'[s] = Append(replies[s], c)
        /\ owner' = [owner EXCEPT ![c] = who]
    BY <1>7, <1>T DEF Publish
  <2>3. Elements(queue'[s]) = Elements(queue[s]) \cup {c}
        /\ Elements(replies'[s]) = Elements(replies[s]) \cup {c}
    BY <1>T, <2>2, ElementsAppend
  <2>4. \A t \in Slot : \A e \in Elements(queue[t]) \cup Elements(replies[t]) :
          owner'[e] = owner[e]
    BY <1>7, <1>T, <2>2 DEF Fresh, InQueue, InReplies
  <2>5. owner'[c] = who
    BY <1>T, <2>2
  <2>6. \A t \in Slot : Id(t)' = Id(t)
    BY <1>7 DEF Id
  <2>7. LeaseUnique' /\ LeaseFresh' /\ LeasePast'
    BY <1>0, <1>7, <2>6 DEF LeaseUnique, LeaseFresh, LeasePast
  <2>8. LeaseIsolation'
    BY <1>0, <1>7, <2>1, <2>3, <2>4, <2>5, <2>6 DEF LeaseIsolation
  <2> QED
    BY <2>7, <2>8
<1>8. ASSUME NEW c \in Commands, TryPool(c) PROVE P'
  <2>1. PICK s \in Slot : phase[s] = "Shared" /\ Publish(c, s, Pool)
    BY <1>8 DEF TryPool
  <2>2. Fresh(c) /\ UNCHANGED <<phase, gen, holds>>
    BY <1>8 DEF TryPool
  <2> QED
    BY <1>7, <2>1, <2>2
<1>9. ASSUME NEW c \in Commands, NEW l \in Leases, DispatchLease(c, l) PROVE P'
  <2>1. PICK s \in Slot : phase[s] = "Exclusive" /\ holds[l] = Id(s)
    BY <1>9 DEF DispatchLease, Leased
  <2>2. Publish(c, s, l) /\ Fresh(c) /\ UNCHANGED <<phase, gen, holds>>
    BY <1>9, <2>1 DEF DispatchLease, Id
  <2>3. \A m \in Leases : holds[m] = Id(s) => m = l
    BY <1>0, <1>I, <2>1 DEF LeaseUnique
  <2> QED
    BY <1>7, <2>1, <2>2, <2>3
<1>10. ASSUME NEW s \in Slot, NEW k \in 1 .. Len(queue[s]),
              Drain(s, k) \/ ClearSend(s, k)
       PROVE P'
  <2>1. queue' = [queue EXCEPT ![s] = SubSeq(queue[s], k + 1, Len(queue[s]))]
        /\ UNCHANGED <<phase, gen, holds, replies, owner>>
    BY <1>10 DEF Drain, ClearSend
  <2>2. Elements(queue'[s]) \subseteq Elements(queue[s])
    BY <1>T, <2>1, ElementsSuffix
  <2> QED
    BY <1>T, <2>1, <2>2, LeaseKept
<1>11. ASSUME NEW s \in Slot, NEW k \in 1 .. Len(replies[s]), ClearRecv(s, k)
       PROVE P'
  <2>1. replies' = [replies EXCEPT ![s] = SubSeq(replies[s], k + 1, Len(replies[s]))]
        /\ UNCHANGED <<phase, gen, holds, queue, owner>>
    BY <1>11 DEF ClearRecv
  <2>2. Elements(replies'[s]) \subseteq Elements(replies[s])
    BY <1>T, <2>1, ElementsSuffix
  <2> QED
    BY <1>T, <2>1, <2>2, LeaseKept
<1>12. ASSUME NEW s \in Slot, TryReply(s) PROVE P'
  <2>1. /\ replies[s] # <<>> /\ replies' = [replies EXCEPT ![s] = Tail(replies[s])]
        /\ UNCHANGED <<phase, gen, holds, queue, owner>>
    BY <1>12 DEF TryReply
  <2>2. Elements(replies'[s]) \subseteq Elements(replies[s])
    BY <1>T, <2>1, ElementsTail
  <2> QED
    BY <1>T, <2>1, <2>2, LeaseKept
<1>13. ASSUME NEW l \in Leases, TryLease(l) PROVE P'
  <2>1. PICK s \in Slot :
          /\ Acquirable(s)
          /\ phase' = [phase EXCEPT ![s] = "Exclusive"]
          /\ holds' = [holds EXCEPT ![l] = Id(s)]
    BY <1>13 DEF TryLease
  <2>2. holds[l] = NoToken /\ UNCHANGED <<gen, queue, replies, owner>>
    BY <1>13 DEF TryLease, lanes
  <2>3. phase[s] = "Shared" /\ (Moved(s) \/ idle[s] > 0)
    BY <1>0, <2>1, RefreshLinks DEF Acquirable
  <2>4. queue[s] = <<>> /\ replies[s] = <<>>
    BY <1>0, <2>3 DEF Moved, IdleSound, Quiet
  <2>5. \A t \in Slot : Id(t)' = Id(t)
    BY <2>2 DEF Id
  <2>6. \A m \in Leases : holds[m] # Id(s)
    BY <1>0, <2>3 DEF LeaseFresh
  <2>7. \A m \in Leases \ {l} : holds'[m] = holds[m]
    BY <1>T, <2>1
  <2>8. holds'[l] = Id(s)
    BY <1>T, <2>1
  <2>9. \A t \in Slot \ {s} : phase'[t] = phase[t] /\ Id(t) # Id(s)
    BY <1>T, <2>1 DEF Id
  <2>10. phase'[s] = "Exclusive"
    BY <1>T, <2>1
  <2>11. LeaseUnique'
    BY <1>0, <1>I, <2>2, <2>5, <2>6, <2>7, <2>8, <2>9 DEF LeaseUnique
  <2>12. LeaseFresh'
    BY <1>0, <2>5, <2>7, <2>8, <2>9, <2>10 DEF LeaseFresh
  <2>13. LeasePast'
    <3>1. Id(s).gen <= gen[Id(s).slot]
      BY <1>T DEF Id
    <3> QED
      BY <1>0, <2>2, <2>7, <2>8, <3>1 DEF LeasePast
  <2>14. LeaseIsolation'
    BY <1>0, <2>2, <2>4, <2>5, <2>7, <2>8, <2>9 DEF LeaseIsolation, Elements
  <2> QED
    BY <2>11, <2>12, <2>13, <2>14
<1>14. ASSUME NEW l \in Leases, TryLeaseEmpty(l) PROVE P'
  <2>1. UNCHANGED <<phase, gen, holds, queue, replies, owner>>
    BY <1>14 DEF TryLeaseEmpty, lanes
  <2> QED
    BY <2>1, LeaseKept
<1>15. ASSUME NEW l \in Leases, Release(l) PROVE P'
  <2> DEFINE s == holds[l].slot
  <2>1. holds[l] # NoToken /\ s \in Slot /\ holds' = [holds EXCEPT ![l] = NoToken]
        /\ UNCHANGED <<gen, queue, replies, owner>>
    BY <1>15, <1>H DEF Release, lanes
  <2>2. \A t \in Slot : Id(t)' = Id(t)
    BY <2>1 DEF Id
  <2>3. \A m \in Leases \ {l} : holds'[m] = holds[m]
    BY <1>T, <2>1
  <2>4. holds'[l] = NoToken
    BY <1>T, <2>1
  <2>5. LeasePast'
    BY <1>0, <2>1, <2>3, <2>4 DEF LeasePast
  <2>6. CASE Releases(l)
    <3>1. phase' = [phase EXCEPT ![s] = "Shared"]
      BY <1>15, <2>6 DEF Release
    <3>2. holds[l] = Id(s)
      BY <1>H, <2>1, <2>6 DEF Releases, Id
    <3> HIDE DEF s
    <3>3. \A t \in Slot \ {s} : phase'[t] = phase[t] /\ Id(t) # Id(s)
      BY <1>T, <3>1 DEF Id
    <3>4. phase'[s] = "Shared"
      BY <1>T, <2>1, <3>1
    <3>5. \A m \in Leases \ {l} : holds[m] # Id(s)
      BY <1>0, <1>I, <2>1, <3>2 DEF LeaseUnique
    <3>6. LeaseUnique'
      BY <1>0, <2>2, <2>3, <2>4, <3>2, <3>3, <3>4 DEF LeaseUnique
    <3>7. LeaseFresh'
      BY <1>0, <1>I, <2>2, <2>3, <2>4, <3>3, <3>5 DEF LeaseFresh
    <3>8. LeaseIsolation'
      BY <1>0, <1>I, <2>1, <2>2, <2>3, <2>4, <3>3, <3>4 DEF LeaseIsolation
    <3> QED
      BY <2>5, <3>6, <3>7, <3>8
  <2>7. CASE ~Releases(l)
    <3>1. phase' = phase
      BY <1>15, <2>7 DEF Release
    <3>2. \A t \in Slot : phase[t] = "Exclusive" => holds[l] # Id(t)
      BY <2>7 DEF Releases, Id
    <3> HIDE DEF s
    <3>3. LeaseUnique'
      BY <1>0, <2>2, <2>3, <2>4, <3>1, <3>2 DEF LeaseUnique
    <3>4. LeaseFresh'
      BY <1>0, <1>I, <2>2, <2>3, <2>4, <3>1 DEF LeaseFresh
    <3>5. LeaseIsolation'
      BY <1>0, <1>I, <2>1, <2>2, <2>3, <2>4, <3>1 DEF LeaseIsolation
    <3> QED
      BY <2>5, <3>3, <3>4, <3>5
  <2> QED
    BY <2>6, <2>7
<1>16. ASSUME UNCHANGED vars PROVE P'
  <2>1. UNCHANGED <<phase, gen, holds, queue, replies, owner>>
    BY <1>16 DEF vars, lanes
  <2> QED
    BY <2>1, LeaseKept
<1> QED
  BY <1>1, <1>2, <1>4, <1>5, <1>6, <1>8, <1>9, <1>10, <1>11, <1>12, <1>13,
     <1>14, <1>15, <1>16
  DEF Next

LEMMA LeaseInvariant == Spec => []LeaseInv
BY LeaseInit, LeaseStep, PTL DEF Spec

(* An exclusive connection always has exactly one lease: no failure,       *)
(* retirement, reopening or late drop of a Lease gives one connection to   *)
(* two holders.                                                            *)
THEOREM LeaseUniqueCorrect == Spec => []LeaseUnique
<1>1. LeaseInv => LeaseUnique
  BY DEF LeaseInv
<1> QED
  BY <1>1, LeaseInvariant, PTL

(* The lanes of a leased connection carry only what was published through  *)
(* its lease, whatever the peer answers and whatever the pool was doing on *)
(* that connection before.                                                 *)
THEOREM LeaseIsolationCorrect == Spec => []LeaseIsolation
<1>1. LeaseInv => LeaseIsolation
  BY DEF LeaseInv
<1> QED
  BY <1>1, LeaseInvariant, PTL

(* A lease is exclusive, against any peer: no second holder of its         *)
(* connection generation and no command of anybody else in its lanes.      *)
THEOREM LeaseSafeCorrect == Spec => []LeaseSafe
<1>1. LeaseUnique /\ LeaseIsolation => LeaseSafe
  BY DEF LeaseSafe
<1> QED
  BY <1>1, LeaseUniqueCorrect, LeaseIsolationCorrect, PTL

-----------------------------------------------------------------------------
(* Retirement *)

(* Every step of the scheduler that takes a slot out of Closing or         *)
(* Reconnecting is its retirement.                                         *)
Withdrawn(s) == phase[s] \in {"Closing", "Reconnecting"}
Resurrects(s) == Withdrawn(s) /\ phase'[s] # phase[s] /\ ~(phase'[s] = "Vacant" /\ Quiet(s))

LEMMA WithdrawnStep ==
    ASSUME TypeOK, [Next]_vars, NEW s \in Slot PROVE ~Resurrects(s)
<1>1. ASSUME NEW r \in Slot, Activate(r) PROVE ~Resurrects(s)
  BY <1>1 DEF Activate, TypeOK, Resurrects, Withdrawn
<1>2. ASSUME NEW r \in Slot, MarkReady(r) PROVE ~Resurrects(s)
  BY <1>2 DEF MarkReady, TypeOK, Resurrects, Withdrawn
<1>3. ASSUME NEW r \in Slot, Reconnect(r) PROVE ~Resurrects(s)
  BY <1>3 DEF Reconnect, Live, TypeOK, Resurrects, Withdrawn
<1>4. ASSUME NEW r \in Slot, Retire(r) PROVE ~Resurrects(s)
  BY <1>4 DEF Retire, TypeOK, Resurrects, Withdrawn
<1>5. ASSUME NEW r \in Slot, NEW why \in Causes, Fail(r, why) \/ Quarantine(r, why)
      PROVE  ~Resurrects(s)
  <2>1. Close(r, why)
    BY <1>5 DEF Fail, Quarantine
  <2> QED
    BY <2>1 DEF Close, Live, TypeOK, Resurrects, Withdrawn
<1>6. ASSUME NEW l \in Leases, TryLease(l) PROVE ~Resurrects(s)
  <2>1. PICK r \in Slot : Acquirable(r) /\ phase' = [phase EXCEPT ![r] = "Exclusive"]
    BY <1>6 DEF TryLease
  <2> QED
    BY <2>1 DEF Acquirable, TypeOK, Resurrects, Withdrawn
<1>7. ASSUME NEW l \in Leases, Release(l) PROVE ~Resurrects(s)
  BY <1>7 DEF Release, Releases, TypeOK, Resurrects, Withdrawn
<1>8. ASSUME UNCHANGED phase PROVE ~Resurrects(s)
  BY <1>8 DEF Resurrects
<1>9. ASSUME NEW r \in Slot, TryReply(r) PROVE UNCHANGED phase
  BY <1>9 DEF TryReply
<1>10. ASSUME NEW r \in Slot, NEW k \in 1 .. Len(queue[r]), Drain(r, k) \/ ClearSend(r, k)
       PROVE  UNCHANGED phase
  BY <1>10 DEF Drain, ClearSend
<1>11. ASSUME NEW r \in Slot, NEW k \in 1 .. Len(replies[r]), ClearRecv(r, k)
       PROVE  UNCHANGED phase
  BY <1>11 DEF ClearRecv
<1>12. ASSUME NEW c \in Commands, TryPool(c) PROVE UNCHANGED phase
  BY <1>12 DEF TryPool
<1>13. ASSUME NEW c \in Commands, NEW l \in Leases, DispatchLease(c, l) PROVE UNCHANGED phase
  BY <1>13 DEF DispatchLease
<1>14. ASSUME NEW l \in Leases, TryLeaseEmpty(l) PROVE UNCHANGED phase
  BY <1>14 DEF TryLeaseEmpty
<1>15. ASSUME UNCHANGED vars PROVE UNCHANGED phase
  BY <1>15 DEF vars
<1> QED
  BY <1>1, <1>2, <1>3, <1>4, <1>5, <1>6, <1>7, <1>8, <1>9, <1>10, <1>11, <1>12,
     <1>13, <1>14, <1>15
  DEF Next

(* A connection generation that was withdrawn never serves again, whatever *)
(* leases and replies of it arrive late: it can only be retired, with both *)
(* lanes empty.                                                            *)
THEOREM NoResurrectionCorrect == Spec => NoResurrection
<1>1. TypeOK /\ [Next]_vars =>
        [\A s \in Slot :
            phase[s] \in {"Closing", "Reconnecting"} /\ phase'[s] # phase[s]
                => phase'[s] = "Vacant" /\ Quiet(s)]_vars
  BY WithdrawnStep DEF Resurrects, Withdrawn
<1> QED
  BY <1>1, TypeCorrect, PTL DEF Spec, NoResurrection

-----------------------------------------------------------------------------
(* The counter of serving connections *)

Serving == {s \in Slot : phase[s] \in Live}
Serves(p) == IF p \in Live THEN 1 ELSE 0

(* A slot that changes its phase moves the counter by what it serves       *)
(* before and after.                                                       *)
LEMMA CountMoves ==
    ASSUME TypeOK, ActiveCount, NEW s \in Slot, NEW p \in Phases,
           phase' = [phase EXCEPT ![s] = p],
           active' = active + Serves(p) - Serves(phase[s])
    PROVE  ActiveCount'
<1>1. IsFiniteSet(Slot)
  <2>1. 0 \in Int /\ Conns - 1 \in Int
    BY RoutesAssumption
  <2> QED
    BY <2>1, FS_Interval DEF Slot
<1>2. IsFiniteSet(Serving) /\ Cardinality(Serving) \in Nat
  <2>1. Serving \in SUBSET Slot
    BY DEF Serving
  <2> QED
    BY <1>1, <2>1, FS_Subset, FS_CardinalityType
<1>3. active = Cardinality(Serving)
  BY DEF ActiveCount, Serving
<1>4. phase'[s] = p /\ \A t \in Slot \ {s} : phase'[t] = phase[t]
  BY DEF TypeOK
<1>5. CASE p \in Live
  <2>1. Serving' = Serving \cup {s}
    BY <1>4, <1>5 DEF Serving
  <2>2. Cardinality(Serving') = IF s \in Serving THEN Cardinality(Serving) ELSE Cardinality(Serving) + 1
    BY <1>2, <2>1, FS_AddElement
  <2>3. s \in Serving <=> phase[s] \in Live
    BY DEF Serving
  <2>4. active' = Cardinality(Serving')
    BY <1>2, <1>3, <1>5, <2>2, <2>3 DEF Serves
  <2> QED
    BY <2>4 DEF ActiveCount, Serving
<1>6. CASE p \notin Live
  <2>1. Serving' = Serving \ {s}
    BY <1>4, <1>6 DEF Serving
  <2>2. Cardinality(Serving') = IF s \in Serving THEN Cardinality(Serving) - 1 ELSE Cardinality(Serving)
    BY <1>2, <2>1, FS_RemoveElement
  <2>3. s \in Serving <=> phase[s] \in Live
    BY DEF Serving
  <2>4. active' = Cardinality(Serving')
    BY <1>2, <1>3, <1>6, <2>2, <2>3 DEF Serves
  <2> QED
    BY <2>4 DEF ActiveCount, Serving
<1> QED
  BY <1>5, <1>6

LEMMA CountInit == Init => ActiveCount
<1> SUFFICES ASSUME Init PROVE ActiveCount
  OBVIOUS
<1>1. {s \in Slot : phase[s] \in Live} = {}
  BY DEF Init, Live
<1> QED
  BY <1>1, FS_EmptySet DEF ActiveCount, Init

LEMMA CountStep == TypeOK /\ ActiveCount /\ [Next]_vars => ActiveCount'
<1> SUFFICES ASSUME TypeOK, ActiveCount, [Next]_vars PROVE ActiveCount'
  OBVIOUS
<1>0. active \in Int
  BY DEF TypeOK
<1>1. ASSUME NEW r \in Slot, Activate(r) PROVE ActiveCount'
  <2>1. active' = active + Serves("Initializing") - Serves(phase[r])
    BY <1>0, <1>1 DEF Activate, Serves, Live
  <2> QED
    BY <1>1, <2>1, CountMoves DEF Activate, Phases
<1>2. ASSUME NEW r \in Slot, MarkReady(r) PROVE ActiveCount'
  <2>1. active' = active + Serves("Shared") - Serves(phase[r])
    BY <1>0, <1>2 DEF MarkReady, Serves, Live
  <2> QED
    BY <1>2, <2>1, CountMoves DEF MarkReady, Phases
<1>3. ASSUME NEW r \in Slot, Reconnect(r) PROVE ActiveCount'
  <2>1. active' = active + Serves("Reconnecting") - Serves(phase[r])
    BY <1>0, <1>3 DEF Reconnect, Serves, Live
  <2> QED
    BY <1>3, <2>1, CountMoves DEF Reconnect, Phases
<1>4. ASSUME NEW r \in Slot, Retire(r) PROVE ActiveCount'
  <2>1. active' = active + Serves("Vacant") - Serves(phase[r])
    BY <1>0, <1>4 DEF Retire, Serves, Live
  <2> QED
    BY <1>4, <2>1, CountMoves DEF Retire, Phases
<1>5. ASSUME NEW r \in Slot, NEW why \in Causes, Fail(r, why) \/ Quarantine(r, why)
      PROVE  ActiveCount'
  <2>1. Close(r, why)
    BY <1>5 DEF Fail, Quarantine
  <2>2. active' = active + Serves("Closing") - Serves(phase[r])
    BY <1>0, <2>1 DEF Close, Served, Serves, Live
  <2> QED
    BY <2>1, <2>2, CountMoves DEF Close, Phases
<1>6. ASSUME NEW l \in Leases, TryLease(l) PROVE ActiveCount'
  <2>1. PICK r \in Slot : Acquirable(r) /\ phase' = [phase EXCEPT ![r] = "Exclusive"]
    BY <1>6 DEF TryLease
  <2>2. active' = active + Serves("Exclusive") - Serves(phase[r])
    BY <1>0, <1>6, <2>1 DEF TryLease, Acquirable, Serves, Live
  <2> QED
    BY <2>1, <2>2, CountMoves DEF Phases
<1>8. ASSUME UNCHANGED <<phase, active>> PROVE ActiveCount'
  BY <1>8 DEF ActiveCount
<1>7. ASSUME NEW l \in Leases, Release(l) PROVE ActiveCount'
  <2> DEFINE s == holds[l].slot
  <2>1. CASE Releases(l)
    <3>1. s \in Slot
      BY <1>7 DEF Release, TypeOK, Token
    <3>2. phase' = [phase EXCEPT ![s] = "Shared"] /\ phase[s] = "Exclusive"
      BY <1>7, <2>1 DEF Release, Releases
    <3>3. active' = active + Serves("Shared") - Serves(phase[s])
      BY <1>0, <1>7, <3>2 DEF Release, Serves, Live
    <3> QED
      BY <3>1, <3>2, <3>3, CountMoves DEF Phases
  <2>2. CASE ~Releases(l)
    <3>1. UNCHANGED <<phase, active>>
      BY <1>7, <2>2 DEF Release
    <3> QED
      BY <1>8, <3>1
  <2> QED
    BY <2>1, <2>2
<1>9. ASSUME NEW r \in Slot, TryReply(r) PROVE UNCHANGED <<phase, active>>
  BY <1>9 DEF TryReply
<1>10. ASSUME NEW r \in Slot, NEW k \in 1 .. Len(queue[r]), Drain(r, k) \/ ClearSend(r, k)
       PROVE  UNCHANGED <<phase, active>>
  BY <1>10 DEF Drain, ClearSend
<1>11. ASSUME NEW r \in Slot, NEW k \in 1 .. Len(replies[r]), ClearRecv(r, k)
       PROVE  UNCHANGED <<phase, active>>
  BY <1>11 DEF ClearRecv
<1>12. ASSUME NEW c \in Commands, TryPool(c) PROVE UNCHANGED <<phase, active>>
  BY <1>12 DEF TryPool
<1>13. ASSUME NEW c \in Commands, NEW l \in Leases, DispatchLease(c, l)
       PROVE  UNCHANGED <<phase, active>>
  BY <1>13 DEF DispatchLease
<1>14. ASSUME NEW l \in Leases, TryLeaseEmpty(l) PROVE UNCHANGED <<phase, active>>
  BY <1>14 DEF TryLeaseEmpty
<1>15. ASSUME UNCHANGED vars PROVE UNCHANGED <<phase, active>>
  BY <1>15 DEF vars
<1> QED
  BY <1>1, <1>2, <1>3, <1>4, <1>5, <1>6, <1>7, <1>8, <1>9, <1>10, <1>11, <1>12,
     <1>13, <1>14, <1>15
  DEF Next

(* Routes::active, which the code keeps by wrapping arithmetic on five     *)
(* transitions, is the number of connections that serve: it never goes     *)
(* below zero, and is_active never reports a pool that is gone.            *)
THEOREM ActiveCountCorrect == Spec => []ActiveCount
<1>1. Init => ActiveCount
  BY CountInit
<1>2. TypeOK /\ TypeOK' /\ ActiveCount /\ [Next]_vars => ActiveCount'
  BY CountStep
<1> QED
  BY <1>1, <1>2, TypeCorrect, PTL DEF Spec

-----------------------------------------------------------------------------
(* Recorded failures *)

LEMMA FatalStep == TypeOK /\ FatalFresh /\ [Next]_vars => FatalFresh'
<1> SUFFICES ASSUME TypeOK, FatalFresh, [Next]_vars PROVE FatalFresh'
  OBVIOUS
<1>T. phase \in [Slot -> Phases] /\ fatal \subseteq Slot
  BY DEF TypeOK
<1>1. ASSUME NEW r \in Slot, Activate(r) PROVE FatalFresh'
  BY <1>T, <1>1 DEF Activate, FatalFresh, Live
<1>2. ASSUME NEW r \in Slot, MarkReady(r) PROVE FatalFresh'
  BY <1>T, <1>2 DEF MarkReady, ClearFatal, FatalFresh, Live
<1>3. ASSUME NEW r \in Slot, Reconnect(r) PROVE FatalFresh'
  BY <1>T, <1>3 DEF Reconnect, FatalFresh, Live
<1>4. ASSUME NEW r \in Slot, Retire(r) PROVE FatalFresh'
  BY <1>T, <1>4 DEF Retire, FatalFresh, Live
<1>5. ASSUME NEW r \in Slot, NEW why \in Causes, Fail(r, why) \/ Quarantine(r, why)
      PROVE  FatalFresh'
  <2>1. phase' = [phase EXCEPT ![r] = "Closing"] /\ fatal' \subseteq fatal \cup {r}
    BY <1>5 DEF Fail, Quarantine, Close
  <2> QED
    BY <1>T, <2>1 DEF FatalFresh, Live
<1>6. ASSUME NEW l \in Leases, TryLease(l) PROVE FatalFresh'
  <2>1. PICK r \in Slot : Acquirable(r) /\ phase' = [phase EXCEPT ![r] = "Exclusive"]
    BY <1>6 DEF TryLease
  <2>2. phase[r] = "Shared" /\ UNCHANGED fatal
    BY <1>6, <2>1 DEF Acquirable, TryLease
  <2> QED
    BY <1>T, <2>1, <2>2 DEF FatalFresh, Live
<1>7. ASSUME NEW l \in Leases, Release(l) PROVE FatalFresh'
  <2>1. UNCHANGED fatal
    BY <1>7 DEF Release
  <2>2. \A s \in Slot : phase'[s] \in Live => phase[s] \in Live
    BY <1>T, <1>7 DEF Release, Releases, Live
  <2> QED
    BY <1>T, <2>1, <2>2 DEF FatalFresh
<1>8. ASSUME UNCHANGED <<phase, fatal>> PROVE FatalFresh'
  BY <1>8 DEF FatalFresh
<1>9. ASSUME NEW r \in Slot, TryReply(r) PROVE UNCHANGED <<phase, fatal>>
  BY <1>9 DEF TryReply
<1>10. ASSUME NEW r \in Slot, NEW k \in 1 .. Len(queue[r]), Drain(r, k) \/ ClearSend(r, k)
       PROVE  UNCHANGED <<phase, fatal>>
  BY <1>10 DEF Drain, ClearSend
<1>11. ASSUME NEW r \in Slot, NEW k \in 1 .. Len(replies[r]), ClearRecv(r, k)
       PROVE  UNCHANGED <<phase, fatal>>
  BY <1>11 DEF ClearRecv
<1>12. ASSUME NEW c \in Commands, TryPool(c) PROVE UNCHANGED <<phase, fatal>>
  BY <1>12 DEF TryPool
<1>13. ASSUME NEW c \in Commands, NEW l \in Leases, DispatchLease(c, l)
       PROVE  UNCHANGED <<phase, fatal>>
  BY <1>13 DEF DispatchLease
<1>14. ASSUME NEW l \in Leases, TryLeaseEmpty(l) PROVE UNCHANGED <<phase, fatal>>
  BY <1>14 DEF TryLeaseEmpty
<1>15. ASSUME UNCHANGED vars PROVE UNCHANGED <<phase, fatal>>
  BY <1>15 DEF vars
<1> QED
  BY <1>1, <1>2, <1>3, <1>4, <1>5, <1>6, <1>7, <1>8, <1>9, <1>10, <1>11, <1>12,
     <1>13, <1>14, <1>15
  DEF Next

(* A failure that Activity::failures keeps is never that of a connection   *)
(* that serves: mark_ready of the next generation clears it before the     *)
(* first command of that generation can be published.                      *)
THEOREM FatalFreshCorrect == Spec => []FatalFresh
<1>1. Init => FatalFresh
  BY DEF Init, FatalFresh
<1>2. TypeOK /\ FatalFresh /\ [Next]_vars => FatalFresh'
  BY FatalStep
<1> QED
  BY <1>1, <1>2, TypeCorrect, PTL DEF Spec

-----------------------------------------------------------------------------
(* The order of requests and replies *)

(* A slot whose connection does not serve yet has nothing in its lanes:    *)
(* retirement requires it, and nothing is published before mark_ready.     *)
LanesFresh == \A s \in Slot : phase[s] \in {"Vacant", "Initializing"} => Quiet(s)

(* The unsent requests q are the last of the unanswered commands r.        *)
IsTail(q, r) ==
    /\ Len(q) <= Len(r)
    /\ \A i \in 1 .. Len(q) : q[i] = r[Len(r) - Len(q) + i]

SuffixInv == LanesFresh /\ SuffixOrder

LEMMA TailPublish ==
    ASSUME NEW q \in Seq(Commands), NEW r \in Seq(Commands), NEW c \in Commands, IsTail(q, r)
    PROVE  IsTail(Append(q, c), Append(r, c))
<1>1. /\ Len(q) \in Nat /\ Len(r) \in Nat /\ Len(q) <= Len(r)
      /\ Len(Append(q, c)) = Len(q) + 1 /\ Len(Append(r, c)) = Len(r) + 1
      /\ \A i \in 1 .. Len(q) : Append(q, c)[i] = q[i]
      /\ \A i \in 1 .. Len(r) : Append(r, c)[i] = r[i]
      /\ Append(q, c)[Len(q) + 1] = c /\ Append(r, c)[Len(r) + 1] = c
  BY DEF IsTail
<1>2. ASSUME NEW i \in 1 .. Len(q) + 1
      PROVE  Append(q, c)[i] = Append(r, c)[Len(r) + 1 - (Len(q) + 1) + i]
  <2>1. CASE i = Len(q) + 1
    BY <1>1, <2>1
  <2>2. CASE i \in 1 .. Len(q)
    <3>1. Len(r) - Len(q) + i \in 1 .. Len(r)
      BY <1>1, <2>2
    <3>2. q[i] = r[Len(r) - Len(q) + i]
      BY <2>2 DEF IsTail
    <3>3. Len(r) + 1 - (Len(q) + 1) + i = Len(r) - Len(q) + i
      BY <1>1
    <3> QED
      BY <1>1, <2>2, <3>1, <3>2, <3>3
  <2> QED
    BY <1>1, <2>1, <2>2
<1> DEFINE p == Append(q, c)
           s == Append(r, c)
<1>3. Len(p) = Len(q) + 1 /\ Len(s) = Len(r) + 1
      /\ \A i \in 1 .. Len(q) + 1 : p[i] = s[Len(r) + 1 - (Len(q) + 1) + i]
  BY <1>1, <1>2
<1> HIDE DEF p, s
<1>4. IsTail(p, s)
  BY <1>1, <1>3 DEF IsTail
<1> QED
  BY <1>4 DEF p, s

LEMMA TailDrain ==
    ASSUME NEW q \in Seq(Commands), NEW r \in Seq(Commands), NEW k \in 1 .. Len(q), IsTail(q, r)
    PROVE  IsTail(SubSeq(q, k + 1, Len(q)), r)
<1> DEFINE p == SubSeq(q, k + 1, Len(q))
<1>1. Len(q) \in Nat /\ Len(r) \in Nat /\ Len(q) <= Len(r) /\ k \in 1 .. Len(q)
  BY DEF IsTail
<1>2. Len(p) = Len(q) - k /\ \A i \in 1 .. Len(p) : p[i] = q[i + k]
  BY <1>1
<1> HIDE DEF p
<1>3. ASSUME NEW i \in 1 .. Len(p) PROVE p[i] = r[Len(r) - Len(p) + i]
  <2>1. i + k \in 1 .. Len(q)
    BY <1>1, <1>2
  <2>2. q[i + k] = r[Len(r) - Len(q) + (i + k)]
    BY <2>1 DEF IsTail
  <2>3. Len(r) - Len(p) + i = Len(r) - Len(q) + (i + k)
    BY <1>1, <1>2
  <2> QED
    BY <1>2, <2>2, <2>3
<1>4. IsTail(p, r)
  BY <1>1, <1>2, <1>3 DEF IsTail
<1> QED
  BY <1>4 DEF p

(* A reply to a command that was sent leaves the unsent ones at the end.   *)
LEMMA TailReply ==
    ASSUME NEW q \in Seq(Commands), NEW r \in Seq(Commands), r # <<>>,
           Head(r) \notin Elements(q), IsTail(q, r)
    PROVE  IsTail(q, Tail(r))
<1>1. /\ Len(q) \in Nat /\ Len(r) \in Nat /\ Len(q) <= Len(r) /\ Len(r) > 0
      /\ Len(Tail(r)) = Len(r) - 1 /\ Head(r) = r[1]
      /\ \A i \in 1 .. Len(r) - 1 : Tail(r)[i] = r[i + 1]
  BY DEF IsTail
<1>2. Len(q) # Len(r)
  <2> SUFFICES ASSUME Len(q) = Len(r) PROVE FALSE
    OBVIOUS
  <2>1. 1 \in 1 .. Len(q) /\ Len(r) - Len(q) + 1 = 1
    BY <1>1
  <2>2. q[1] = r[1]
    BY <2>1 DEF IsTail
  <2> QED
    BY <1>1, <2>1, <2>2 DEF Elements
<1>3. ASSUME NEW i \in 1 .. Len(q) PROVE q[i] = Tail(r)[Len(Tail(r)) - Len(q) + i]
  <2>1. q[i] = r[Len(r) - Len(q) + i]
    BY DEF IsTail
  <2>2. Len(Tail(r)) - Len(q) + i \in 1 .. Len(r) - 1
        /\ Len(Tail(r)) - Len(q) + i + 1 = Len(r) - Len(q) + i
    BY <1>1, <1>2
  <2> QED
    BY <1>1, <2>1, <2>2
<1> QED
  BY <1>1, <1>2, <1>3 DEF IsTail

LEMMA SuffixIsTail == SuffixOrder <=> (~Rogue => \A s \in Slot : phase[s] \in Live => IsTail(queue[s], replies[s]))
BY DEF SuffixOrder, IsTail

(* A step that changes no lane keeps the order when every slot it opens    *)
(* has empty lanes.                                                        *)
LEMMA SuffixKept ==
    ASSUME TypeOK, SuffixInv, UNCHANGED <<queue, replies>>,
           \A s \in Slot : phase'[s] \in Live => phase[s] \in Live \cup {"Initializing"},
           \A s \in Slot : phase'[s] \in {"Vacant", "Initializing"} =>
                phase[s] \in {"Vacant", "Initializing"} \/ Quiet(s)
    PROVE  SuffixInv'
<1>1. LanesFresh'
  BY DEF SuffixInv, LanesFresh, Quiet
<1>2. ASSUME NEW s \in Slot, phase[s] = "Initializing" PROVE IsTail(queue[s], replies[s])
  <2>1. queue[s] = <<>> /\ replies[s] = <<>>
    BY <1>2 DEF SuffixInv, LanesFresh, Quiet
  <2> QED
    BY <2>1 DEF IsTail
<1>3. ~Rogue => \A s \in Slot : phase[s] \in Live => IsTail(queue[s], replies[s])
  BY SuffixIsTail DEF SuffixInv
<1>4. ~Rogue => \A s \in Slot : phase'[s] \in Live => IsTail(queue'[s], replies'[s])
  BY <1>2, <1>3
<1>5. SuffixOrder'
  BY <1>4 DEF SuffixOrder, IsTail
<1> QED
  BY <1>1, <1>5 DEF SuffixInv

(* A step that changes the lanes of one slot.                              *)
LEMMA SuffixMoved ==
    ASSUME TypeOK, SuffixInv, NEW s \in Slot, UNCHANGED phase,
           \A t \in Slot \ {s} : queue'[t] = queue[t] /\ replies'[t] = replies[t],
           phase[s] \in {"Vacant", "Initializing"} => queue'[s] = <<>> /\ replies'[s] = <<>>,
           ~Rogue /\ phase[s] \in Live => IsTail(queue'[s], replies'[s])
    PROVE  SuffixInv'
<1>1. LanesFresh'
  BY DEF SuffixInv, LanesFresh, Quiet
<1>2. ~Rogue => \A t \in Slot : phase[t] \in Live => IsTail(queue[t], replies[t])
  BY SuffixIsTail DEF SuffixInv
<1>3. ~Rogue => \A t \in Slot : phase'[t] \in Live => IsTail(queue'[t], replies'[t])
  BY <1>2
<1>4. SuffixOrder'
  BY <1>3 DEF SuffixOrder, IsTail
<1> QED
  BY <1>1, <1>4 DEF SuffixInv

LEMMA SuffixInit == Init => SuffixInv
<1> SUFFICES ASSUME Init PROVE SuffixInv
  OBVIOUS
<1>1. \A s \in Slot : phase[s] = "Vacant" /\ queue[s] = <<>> /\ replies[s] = <<>>
  BY DEF Init
<1> QED
  BY <1>1 DEF SuffixInv, LanesFresh, SuffixOrder, Live, Quiet

LEMMA SuffixStep == TypeOK /\ SuffixInv /\ [Next]_vars => SuffixInv'
<1> SUFFICES ASSUME TypeOK, SuffixInv, [Next]_vars PROVE SuffixInv'
  OBVIOUS
<1>T. /\ phase \in [Slot -> Phases]
      /\ queue \in [Slot -> Seq(Commands)] /\ replies \in [Slot -> Seq(Commands)]
  BY DEF TypeOK
<1>L. ~Rogue => \A s \in Slot : phase[s] \in Live => IsTail(queue[s], replies[s])
  BY SuffixIsTail DEF SuffixInv
<1>F. \A s \in Slot : phase[s] \in {"Vacant", "Initializing"} => queue[s] = <<>> /\ replies[s] = <<>>
  BY DEF SuffixInv, LanesFresh, Quiet
<1>1. ASSUME NEW r \in Slot, Activate(r) PROVE SuffixInv'
  BY <1>T, <1>1, SuffixKept DEF Activate, lanes, Live
<1>2. ASSUME NEW r \in Slot, MarkReady(r) PROVE SuffixInv'
  BY <1>T, <1>2, SuffixKept DEF MarkReady, lanes, Live
<1>3. ASSUME NEW r \in Slot, Reconnect(r) PROVE SuffixInv'
  BY <1>T, <1>3, SuffixKept DEF Reconnect, lanes, Live
<1>4. ASSUME NEW r \in Slot, Retire(r) PROVE SuffixInv'
  BY <1>T, <1>4, SuffixKept DEF Retire, lanes, Live
<1>5. ASSUME NEW r \in Slot, NEW why \in Causes, Fail(r, why) \/ Quarantine(r, why)
      PROVE  SuffixInv'
  <2>1. phase' = [phase EXCEPT ![r] = "Closing"] /\ UNCHANGED <<queue, replies>>
    BY <1>5 DEF Fail, Quarantine, Close, lanes
  <2> QED
    BY <1>T, <2>1, SuffixKept DEF Live
<1>6. ASSUME NEW l \in Leases, TryLease(l) PROVE SuffixInv'
  <2>1. PICK r \in Slot : Acquirable(r) /\ phase' = [phase EXCEPT ![r] = "Exclusive"]
    BY <1>6 DEF TryLease
  <2>2. phase[r] = "Shared" /\ UNCHANGED <<queue, replies>>
    BY <1>6, <2>1 DEF Acquirable, TryLease, lanes
  <2> QED
    BY <1>T, <2>1, <2>2, SuffixKept DEF Live
<1>7. ASSUME NEW l \in Leases, Release(l) PROVE SuffixInv'
  <2>1. UNCHANGED <<queue, replies>>
    BY <1>7 DEF Release, lanes
  <2>2. \A s \in Slot : phase'[s] = phase[s] \/ (phase[s] = "Exclusive" /\ phase'[s] = "Shared")
    BY <1>T, <1>7 DEF Release, Releases
  <2> QED
    BY <1>T, <2>1, <2>2, SuffixKept DEF Live
<1>8. ASSUME NEW c \in Commands, NEW s \in Slot, NEW who, Publish(c, s, who),
             phase[s] \in Live, UNCHANGED phase
      PROVE  SuffixInv'
  <2>1. \A t \in Slot \ {s} : queue'[t] = queue[t] /\ replies'[t] = replies[t]
    BY <1>8, <1>T DEF Publish
  <2>2. queue'[s] = Append(queue[s], c) /\ replies'[s] = Append(replies[s], c)
    BY <1>8, <1>T DEF Publish
  <2>3. ~Rogue => IsTail(queue'[s], replies'[s])
    BY <1>8, <1>L, <1>T, <2>2, TailPublish
  <2> QED
    BY <1>8, <2>1, <2>3, SuffixMoved DEF Live
<1>9. ASSUME NEW c \in Commands, TryPool(c) PROVE SuffixInv'
  <2>1. PICK s \in Slot : phase[s] = "Shared" /\ Publish(c, s, Pool)
    BY <1>9 DEF TryPool
  <2>2. UNCHANGED phase
    BY <1>9 DEF TryPool
  <2> QED
    BY <1>8, <2>1, <2>2 DEF Live
<1>10. ASSUME NEW c \in Commands, NEW l \in Leases, DispatchLease(c, l) PROVE SuffixInv'
  <2>1. PICK s \in Slot : phase[s] = "Exclusive" /\ holds[l] = Id(s)
    BY <1>10 DEF DispatchLease, Leased
  <2>2. Publish(c, s, l) /\ UNCHANGED phase
    BY <1>10, <2>1 DEF DispatchLease, Id
  <2> QED
    BY <1>8, <2>1, <2>2 DEF Live
<1>11. ASSUME NEW s \in Slot, NEW k \in 1 .. Len(queue[s]), Drain(s, k) \/ ClearSend(s, k)
       PROVE  SuffixInv'
  <2>1. queue' = [queue EXCEPT ![s] = SubSeq(queue[s], k + 1, Len(queue[s]))]
        /\ UNCHANGED <<phase, replies>>
    BY <1>11 DEF Drain, ClearSend
  <2>2. queue[s] # <<>>
    BY k \in 1 .. Len(queue[s])
  <2>3. ~Rogue /\ phase[s] \in Live => IsTail(queue'[s], replies'[s])
    BY <1>L, <1>T, <2>1, TailDrain
  <2> QED
    BY <1>F, <1>T, <2>1, <2>2, <2>3, SuffixMoved
<1>12. ASSUME NEW s \in Slot, NEW k \in 1 .. Len(replies[s]), ClearRecv(s, k)
       PROVE  SuffixInv'
  <2>1. /\ phase[s] \in {"Closing", "Reconnecting"} /\ UNCHANGED <<phase, queue>>
        /\ replies' = [replies EXCEPT ![s] = SubSeq(replies[s], k + 1, Len(replies[s]))]
    BY <1>12 DEF ClearRecv, Clears
  <2> QED
    BY <1>T, <2>1, SuffixMoved DEF Live
<1>13. ASSUME NEW s \in Slot, TryReply(s) PROVE SuffixInv'
  <2>1. /\ replies[s] # <<>> /\ replies' = [replies EXCEPT ![s] = Tail(replies[s])]
        /\ Rogue \/ Head(replies[s]) \notin Elements(queue[s])
        /\ UNCHANGED <<phase, queue>>
    BY <1>13 DEF TryReply
  <2>2. ~Rogue /\ phase[s] \in Live => IsTail(queue'[s], replies'[s])
    BY <1>L, <1>T, <2>1, TailReply
  <2> QED
    BY <1>F, <1>T, <2>1, <2>2, SuffixMoved
<1>14. ASSUME UNCHANGED <<phase, queue, replies>> PROVE SuffixInv'
  BY <1>14, SuffixKept
<1>15. ASSUME NEW l \in Leases, TryLeaseEmpty(l) PROVE UNCHANGED <<phase, queue, replies>>
  BY <1>15 DEF TryLeaseEmpty, lanes
<1>16. ASSUME UNCHANGED vars PROVE UNCHANGED <<phase, queue, replies>>
  BY <1>16 DEF vars, lanes
<1> QED
  BY <1>1, <1>2, <1>3, <1>4, <1>5, <1>6, <1>7, <1>9, <1>10, <1>11, <1>12,
     <1>13, <1>14, <1>15, <1>16
  DEF Next

LEMMA SuffixInvariant == Spec => []SuffixInv
<1>1. Init => SuffixInv
  BY SuffixInit
<1>2. TypeOK /\ SuffixInv /\ [Next]_vars => SuffixInv'
  BY SuffixStep
<1> QED
  BY <1>1, <1>2, TypeCorrect, PTL DEF Spec

(* A reply is matched to the command it answers: with a peer that answers  *)
(* what it was sent, in order, the unsent requests of a serving connection *)
(* are always the last of the commands that wait for a reply.              *)
THEOREM SuffixOrderCorrect == Spec => []SuffixOrder
<1>1. SuffixInv => SuffixOrder
  BY DEF SuffixInv
<1> QED
  BY <1>1, SuffixInvariant, PTL

-----------------------------------------------------------------------------
(* No quiet connection is lost to leases *)

Reachable(s) == idle[s] > 0 \/ defer[s] > 0
NoLeak == \A s \in Slot : phase[s] = "Shared" /\ Quiet(s) => Reachable(s)

LEMMA AppendNotEmpty ==
    ASSUME NEW q \in Seq(Commands), NEW c \in Commands PROVE Append(q, c) # <<>>
<1>1. Len(Append(q, c)) = Len(q) + 1 /\ Len(q) \in Nat /\ Len(<<>>) = 0
  OBVIOUS
<1> QED
  BY <1>1

(* A request is in the lane of a serving connection only while its reply   *)
(* is due, so draining never makes a route quiet.                          *)
LEMMA DrainedBusy ==
    ASSUME TypeOK, SuffixOrder, ~Rogue, NEW s \in Slot, phase[s] \in Live, queue[s] # <<>>
    PROVE  replies[s] # <<>>
<1>1. queue[s] \in Seq(Commands) /\ replies[s] \in Seq(Commands)
  BY DEF TypeOK
<1>2. Len(queue[s]) <= Len(replies[s])
  BY DEF SuffixOrder
<1> QED
  BY <1>1, <1>2

LEMMA LeakStep ==
    FifoInv /\ SuffixOrder /\ ~Rogue /\ NoLeak /\ [Next]_vars => NoLeak'
<1> SUFFICES ASSUME FifoInv, SuffixOrder, ~Rogue, NoLeak, [Next]_vars PROVE NoLeak'
  OBVIOUS
<1> USE SlotFacts
<1>0. TypeOK /\ IdleSound /\ DeferSound
  BY DEF FifoInv
<1>T. /\ phase \in [Slot -> Phases] /\ gen \in [Slot -> 0 .. MaxGen]
      /\ queue \in [Slot -> Seq(Commands)] /\ replies \in [Slot -> Seq(Commands)]
  BY <1>0 DEF TypeOK
<1>1. ASSUME NEW r \in Slot, Activate(r) PROVE NoLeak'
  BY <1>T, <1>1 DEF Activate, NoLeak, Reachable, Quiet, fifos, lanes
<1>2. ASSUME NEW r \in Slot, MarkReady(r) PROVE NoLeak'
  <2>1. phase' = [phase EXCEPT ![r] = "Shared"] /\ UNCHANGED <<defer, queue, replies>>
    BY <1>2 DEF MarkReady, lanes
  <2>2. CASE Quiet(r)
    <3>1. ScheduleIdle(r)
      BY <1>2, <2>2 DEF MarkReady
    <3>2. \A t \in Slot : idle'[t] > 0 <=> (t = r \/ idle[t] > 0)
      BY <1>0, <3>1, ScheduleIdleLinks
    <3> QED
      BY <1>T, <2>1, <3>2 DEF NoLeak, Reachable, Quiet
  <2>3. CASE ~Quiet(r)
    <3>1. UNCHANGED idle
      BY <1>2, <2>3 DEF MarkReady
    <3> QED
      BY <1>T, <2>1, <2>3, <3>1 DEF NoLeak, Reachable, Quiet
  <2> QED
    BY <2>2, <2>3
<1>3. ASSUME NEW r \in Slot, Withdraw(r), phase'[r] # "Shared",
             \A t \in Slot \ {r} : phase'[t] = phase[t], UNCHANGED <<queue, replies>>
      PROVE  NoLeak'
  <2>1. \A t \in Slot \ {r} : (idle[t] > 0 => idle'[t] > 0) /\ (defer[t] > 0 => defer'[t] > 0)
    BY <1>0, <1>3, UnlinkIdleLinks, UnlinkDeferredLinks DEF Withdraw
  <2> QED
    BY <1>3, <2>1 DEF NoLeak, Reachable, Quiet
<1>4. ASSUME NEW r \in Slot, NEW why \in Causes, Fail(r, why) \/ Quarantine(r, why)
      PROVE  NoLeak'
  <2>1. phase' = [phase EXCEPT ![r] = "Closing"] /\ Withdraw(r) /\ UNCHANGED <<queue, replies>>
    BY <1>4 DEF Fail, Quarantine, Close, lanes
  <2> QED
    BY <1>3, <1>T, <2>1
<1>5. ASSUME NEW r \in Slot, Reconnect(r) PROVE NoLeak'
  <2>1. phase' = [phase EXCEPT ![r] = "Reconnecting"] /\ Withdraw(r) /\ UNCHANGED <<queue, replies>>
    BY <1>5 DEF Reconnect, lanes
  <2> QED
    BY <1>3, <1>T, <2>1
<1>6. ASSUME NEW r \in Slot, Retire(r) PROVE NoLeak'
  BY <1>T, <1>6 DEF Retire, NoLeak, Reachable, Quiet, fifos, lanes
<1>7. ASSUME NEW c \in Commands, TryPool(c) PROVE NoLeak'
  <2>1. PICK s \in Slot : Publish(c, s, Pool) /\ UnlinkIdle(s)
    BY <1>7 DEF TryPool
  <2>2. UNCHANGED <<phase, defer>>
    BY <1>7 DEF TryPool
  <2>3. \A t \in Slot \ {s} : idle[t] > 0 => idle'[t] > 0
    BY <1>0, <2>1, UnlinkIdleLinks
  <2>4. queue'[s] # <<>> /\ \A t \in Slot \ {s} : queue'[t] = queue[t] /\ replies'[t] = replies[t]
    <3>1. queue'[s] = Append(queue[s], c)
      BY <1>T, <2>1 DEF Publish
    <3>2. Append(queue[s], c) # <<>>
      BY <1>T, AppendNotEmpty
    <3> QED
      BY <1>T, <2>1, <3>1, <3>2 DEF Publish
  <2> QED
    BY <2>2, <2>3, <2>4 DEF NoLeak, Reachable, Quiet
<1>8. ASSUME NEW c \in Commands, NEW l \in Leases, DispatchLease(c, l) PROVE NoLeak'
  <2>1. PICK s \in Slot : phase[s] = "Exclusive" /\ holds[l] = Id(s)
    BY <1>8 DEF DispatchLease, Leased
  <2>2. Publish(c, s, l) /\ UNCHANGED <<phase, idle, defer>>
    BY <1>8, <2>1 DEF DispatchLease, Id, fifos
  <2>3. \A t \in Slot \ {s} : queue'[t] = queue[t] /\ replies'[t] = replies[t]
    BY <1>T, <2>2 DEF Publish
  <2> QED
    BY <2>1, <2>2, <2>3 DEF NoLeak, Reachable, Quiet
<1>9. ASSUME NEW s \in Slot, NEW k \in 1 .. Len(queue[s]), Drain(s, k) \/ ClearSend(s, k)
      PROVE  NoLeak'
  <2>1. queue' = [queue EXCEPT ![s] = SubSeq(queue[s], k + 1, Len(queue[s]))]
        /\ UNCHANGED <<phase, replies, idle, defer>>
    BY <1>9 DEF Drain, ClearSend, fifos
  <2>2. queue[s] # <<>>
    BY k \in 1 .. Len(queue[s])
  <2>3. phase[s] = "Shared" => replies[s] # <<>>
    BY <1>0, <2>2, DrainedBusy DEF Live
  <2> QED
    BY <1>T, <2>1, <2>3 DEF NoLeak, Reachable, Quiet
<1>10. ASSUME NEW s \in Slot, NEW k \in 1 .. Len(replies[s]), ClearRecv(s, k) PROVE NoLeak'
  <2>1. /\ phase[s] # "Shared" /\ UNCHANGED <<phase, queue, idle, defer>>
        /\ replies' = [replies EXCEPT ![s] = SubSeq(replies[s], k + 1, Len(replies[s]))]
    BY <1>10 DEF ClearRecv, Clears, fifos
  <2> QED
    BY <1>T, <2>1 DEF NoLeak, Reachable, Quiet
<1>11. ASSUME NEW s \in Slot, TryReply(s) PROVE NoLeak'
  <2>1. /\ replies' = [replies EXCEPT ![s] = Tail(replies[s])]
        /\ UNCHANGED <<phase, queue, defer>>
    BY <1>11 DEF TryReply
  <2>2. CASE phase[s] = "Shared" /\ Answered(s)
    <3>1. ScheduleIdle(s)
      BY <1>11, <2>2 DEF TryReply
    <3>2. \A t \in Slot : idle'[t] > 0 <=> (t = s \/ idle[t] > 0)
      BY <1>0, <3>1, ScheduleIdleLinks
    <3> QED
      BY <1>T, <2>1, <3>2 DEF NoLeak, Reachable, Quiet
  <2>3. CASE ~(phase[s] = "Shared" /\ Answered(s))
    <3>1. UNCHANGED idle
      BY <1>11, <2>3 DEF TryReply
    <3> QED
      BY <1>T, <2>1, <2>3, <3>1 DEF NoLeak, Reachable, Quiet, Answered
  <2> QED
    BY <2>2, <2>3
(* After refresh every quiet shared route is in the idle FIFO and can be   *)
(* acquired.                                                               *)
<1>R. /\ \A t \in Slot : phase[t] = "Shared" /\ Quiet(t) => Acquirable(t)
      /\ \A t \in Slot : RefreshedIdle[t] > 0 => Acquirable(t)
  BY <1>0, RefreshLinks DEF NoLeak, Reachable, IdleSound, DeferSound, Moved, Ripe, Acquirable
<1>12. ASSUME NEW l \in Leases, TryLease(l) PROVE NoLeak'
  <2>1. PICK s \in Slot :
          /\ Acquirable(s)
          /\ \A t \in Popped(s) \ {s} : ~Acquirable(t)
          /\ idle' = Dense([t \in Slot |->
                            IF t \in Popped(s) THEN 0 ELSE RefreshedIdle[t]])
          /\ phase' = [phase EXCEPT ![s] = "Exclusive"]
    BY <1>12 DEF TryLease
  <2> DEFINE key == [t \in Slot |-> IF t \in Popped(s) THEN 0 ELSE RefreshedIdle[t]]
  <2>2. key \in [Slot -> Nat]
    BY <1>0, RefreshLinks
  <2>3. \A t \in Slot \ {s} : t \notin Popped(s)
    BY <1>R, <2>1 DEF Popped
  <2>4. \A t \in Slot \ {s} : Acquirable(t) => key[t] > 0
    BY <2>3 DEF Acquirable
  <2>5. \A t \in Slot : idle'[t] > 0 <=> key[t] > 0
    <3> HIDE DEF key
    <3> QED
      BY <2>1, <2>2, DenseRange DEF key
  <2> HIDE DEF key
  <2>6. UNCHANGED <<queue, replies>>
    BY <1>12 DEF TryLease, lanes
  <2> QED
    BY <1>R, <1>T, <2>1, <2>4, <2>5, <2>6 DEF NoLeak, Reachable, Quiet
<1>13. ASSUME NEW l \in Leases, TryLeaseEmpty(l) PROVE NoLeak'
  <2>1. (\A s \in Slot : ~Acquirable(s)) /\ UNCHANGED <<phase, queue, replies>>
    BY <1>13 DEF TryLeaseEmpty, lanes
  <2> QED
    BY <1>R, <2>1 DEF NoLeak, Quiet
<1>14. ASSUME NEW l \in Leases, Release(l) PROVE NoLeak'
  <2> DEFINE s == holds[l].slot
  <2>1. UNCHANGED <<idle, queue, replies>>
    BY <1>14 DEF Release, lanes
  <2>2. CASE Releases(l)
    <3>1. s \in Slot
      BY <1>0, <1>14 DEF Release, TypeOK, Token
    <3>2. phase' = [phase EXCEPT ![s] = "Shared"] /\ ScheduleDeferred(s)
      BY <1>14, <2>2 DEF Release
    <3> HIDE DEF s
    <3>3. \A t \in Slot : defer'[t] > 0 <=> (t = s \/ defer[t] > 0)
      BY <1>0, <3>1, <3>2, ScheduleDeferredLinks
    <3> QED
      BY <1>T, <2>1, <3>2, <3>3 DEF NoLeak, Reachable, Quiet
  <2>3. CASE ~Releases(l)
    BY <1>14, <2>1, <2>3 DEF Release, NoLeak, Reachable, Quiet
  <2> QED
    BY <2>2, <2>3
<1>15. ASSUME UNCHANGED vars PROVE NoLeak'
  BY <1>15 DEF vars, fifos, lanes, NoLeak, Reachable, Quiet
<1> QED
  BY <1>1, <1>2, <1>4, <1>5, <1>6, <1>7, <1>8, <1>9, <1>10, <1>11, <1>12, <1>13, <1>14, <1>15
  DEF Next

(* With a peer that answers what it was sent, a quiet shared connection is *)
(* always in a FIFO that try_lease searches.                               *)
THEOREM NoIdleLeakCorrect == Spec => []NoIdleLeak
<1>1. Init => NoIdleLeak
  BY DEF Init, NoIdleLeak
<1>2. FifoInv /\ SuffixOrder /\ NoIdleLeak /\ [Next]_vars => NoIdleLeak'
  BY LeakStep DEF NoIdleLeak, NoLeak, Reachable
<1>3. Spec => []FifoInv
  BY FifoInit, FifoStep, PTL DEF Spec
<1> QED
  BY <1>1, <1>2, <1>3, SuffixOrderCorrect, PTL DEF Spec

(* The books of the scheduler are exact after any history: every variable  *)
(* in its range, the counter of serving connections equal to their number, *)
(* and no quiet connection out of the reach of leases.                     *)
THEOREM AccountedCorrect == Spec => []Accounted
<1>1. TypeOK /\ ActiveCount /\ NoIdleLeak => Accounted
  BY DEF Accounted
<1> QED
  BY <1>1, TypeCorrect, ActiveCountCorrect, NoIdleLeakCorrect, PTL

-----------------------------------------------------------------------------
(* The scheduler under the client *)

(* Every step of the client is one of the scheduler, or none. *)
LEMMA ClientStepRoutes == [ClientNext]_cvars => [Next]_vars
<1> SUFFICES ASSUME [ClientNext]_cvars PROVE [Next]_vars
  OBVIOUS
<1>u. UNCHANGED routes => [Next]_vars
  BY DEF routes, vars
<1>1. ASSUME NEW c \in Commands, PollAdmission(c) PROVE [Next]_vars
  <2>1. CASE Admitted(c)
    <3>1. TryPool(c) \/ (Target[c] # Pool /\ DispatchLease(c, Target[c]))
      BY <2>1 DEF Admitted
    <3>2. Target[c] # Pool => Target[c] \in Leases
      BY ClientAssumption
    <3> QED
      BY <3>1, <3>2 DEF Next
  <2>2. CASE AdmissionExpired(c) \/ AdmissionFailed(c) \/ AdmissionBlocked(c)
    BY <1>u, <2>2 DEF AdmissionExpired, AdmissionFailed, AdmissionBlocked
  <2> QED
    BY <1>1, <2>1, <2>2 DEF PollAdmission
<1>2. ASSUME NEW c \in Commands, PollResponse(c) PROVE [Next]_vars
  <2>1. UNCHANGED routes \/ \E s \in Slot : Reconnect(s)
    BY <1>2 DEF PollResponse, ResponseExpired, ResponsePolled, GivesUpConnection
  <2> QED
    BY <1>u, <2>1 DEF Next
<1>3. ASSUME NEW c \in Commands, Drop(c) \/ Maintain(c) PROVE [Next]_vars
  BY <1>3, <1>u DEF Drop, Maintain
<1>4. ASSUME NEW l \in Leases, PollAcquire(l) \/ DropLease(l) PROVE [Next]_vars
  <2>1. UNCHANGED routes \/ TryLease(l) \/ TryLeaseEmpty(l) \/ Release(l)
    BY <1>4 DEF PollAcquire, DropLease
  <2> QED
    BY <1>u, <2>1 DEF Next
<1>5. ASSUME NEW w \in Watchers, PollWatch(w) PROVE [Next]_vars
  BY <1>5, <1>u DEF PollWatch
<1>6. ASSUME NEW f \in Commands \cup Leases, Expire(f) PROVE [Next]_vars
  BY <1>6, <1>u DEF Expire
<1>7. ASSUME NEW s \in Slot, SlotStep(s) PROVE [Next]_vars
  <2>1. \/ UNCHANGED routes \/ Activate(s) \/ MarkReady(s) \/ Retire(s)
        \/ \E k \in 1 .. Len(queue[s]) : Drain(s, k) \/ ClearSend(s, k)
        \/ \E k \in 1 .. Len(replies[s]) : ClearRecv(s, k)
    BY <1>7 DEF SlotStep, Open, Ready, Disconnect, Send, Sent, FailReplies, DropRequests
  <2> QED
    BY <1>u, <2>1 DEF Next
<1>8. ASSUME NEW s \in Slot, Reply(s) \/ SessionFails(s) \/ DriverCloses(s) PROVE [Next]_vars
  <2>1. TryReply(s) \/ Fail(s, "Other") \/ Quarantine(s, "Remote")
    BY <1>8 DEF Reply, SessionFails, DriverCloses
  <2> QED
    BY <2>1 DEF Next, Causes
<1>9. ASSUME Stop PROVE [Next]_vars
  BY <1>9, <1>u DEF Stop
<1>10. ASSUME UNCHANGED cvars PROVE [Next]_vars
  BY <1>10, <1>u DEF cvars
<1> QED
  BY <1>1, <1>2, <1>3, <1>4, <1>5, <1>6, <1>7, <1>8, <1>9, <1>10 DEF ClientNext, CommandPoll

(* The client implements the scheduler: its fibers, notifiers, deadlines   *)
(* and drops drive the routes only through operations of Schedule, so      *)
(* every property proved of RedisRoutes holds under the client.            *)
THEOREM ClientRefinesRoutes == ClientSpec => Spec
<1>1. ClientInit => Init
  BY DEF ClientInit
<1> QED
  BY <1>1, ClientStepRoutes, PTL DEF ClientSpec, Spec

(* What the scheduler guarantees to its client. *)
RoutesInv == LeaseInv /\ SuffixInv /\ ActiveCount

LEMMA RoutesInitial == Init => RoutesInv
BY LeaseInit, SuffixInit, CountInit DEF RoutesInv

LEMMA RoutesKept == RoutesInv /\ [Next]_vars => RoutesInv'
BY LeaseStep, SuffixStep, CountStep DEF RoutesInv, LeaseInv, FifoInv

(* A connection that serves is counted. *)
LEMMA ServingActive ==
    ASSUME RoutesInv, NEW s \in Slot, phase[s] \in Live PROVE IsActive
<1>1. IsFiniteSet(Slot)
  BY RoutesAssumption, FS_Interval, 0 \in Int, Conns - 1 \in Int DEF Slot
<1>2. {r \in Slot : phase[r] \in Live} # {} /\ IsFiniteSet({r \in Slot : phase[r] \in Live})
  BY <1>1, FS_Subset
<1>3. Cardinality({r \in Slot : phase[r] \in Live}) # 0
  BY <1>2, FS_EmptySet
<1> QED
  BY <1>3 DEF RoutesInv, ActiveCount, IsActive

-----------------------------------------------------------------------------
(* Fibers and replies *)

(* The notifiers hold finitely many fibers, as their capacity says.        *)
WaitsFinite == IsFiniteSet(sendWait) /\ IsFiniteSet(leaseWait)

(* A command in a reply lane has its entry in the arena, and is in no      *)
(* second lane.                                                            *)
EntriesKept ==
    /\ \A c \in Commands : InReplies(c) => c \in arena
    /\ \A s, t \in Slot : s # t => Elements(replies[s]) \cap Elements(replies[t]) = {}

(* The commands of a lease start with it, and a command that was given up  *)
(* has ended.                                                              *)
StagesKept ==
    /\ \A c \in Commands : \A l \in Leases :
          Target[c] = l /\ acquire[l] = "Acquire" => fiber[c] = "Unborn"
    /\ late \subseteq Commands
    /\ \A c \in late : fiber[c] = "Done"

(* A fiber that awaits its reply will be polled with it, or it is due.     *)
AnswerAhead ==
    \A c \in Commands : fiber[c] = "Response" =>
        InReplies(c) \/ (c \in answered /\ c \in woken)

FiberInv ==
    /\ ClientTypeOK /\ WaitsFinite /\ EntriesKept /\ StagesKept /\ AnswerAhead
    /\ LateRetired /\ SleepersKnown

(* Sleeping in a notifier, in terms that the steps preserve one by one. *)
Offers == ReplyRoom /\ Queueable /\ \E s \in Slot : phase[s] = "Shared"
Leasable(s) == idle[s] > 0 \/ (defer[s] > 0 /\ Quiet(s))

SendHeld ==
    \A c \in sendWait \cap Commands : Target[c] = Pool => ~Offers \/ egress # {}
LeaseHeld == leaseWait # {} => \A s \in Slot : ~Leasable(s)

BlockedInv == SendHeld /\ (~Rogue => LeaseHeld) /\ CauseAhead


-----------------------------------------------------------------------------
(* What a step does to the waits and to the reply lanes *)

(* The fibers of also are woken; those of gone are forgotten; any other    *)
(* that leaves a notifier is woken.                                        *)
Woke(also, gone) ==
    /\ woken \ gone \subseteq woken' /\ also \subseteq woken' /\ woken' \subseteq Fibers
    /\ sendWait' \subseteq sendWait /\ sendWait \ (gone \cup woken') \subseteq sendWait'
    /\ leaseWait' \subseteq leaseWait /\ leaseWait \ (gone \cup woken') \subseteq leaseWait'

LEMMA NotifyWoke ==
    ASSUME ClientTypeOK, NEW send, NEW lease, NEW also \in SUBSET Fibers, NEW gone,
           Notify(send, lease, also, gone)
    PROVE  /\ Woke(also, gone)
           /\ send => sendWait' = {}
           /\ lease => leaseWait' = {}
<1>1. woken \subseteq Fibers /\ sendWait \subseteq Fibers /\ leaseWait \subseteq Fibers
  BY DEF ClientTypeOK, Fibers
<1>2. CASE send
  <2>1. sendWait' = {} /\ sendWait \ gone \subseteq woken'
    BY <1>2 DEF Notify
  <2> QED
    BY <1>1, <1>2, <2>1 DEF Notify, Woke
<1>3. CASE ~send
  BY <1>1, <1>3 DEF Notify, Woke
<1> QED
  BY <1>2, <1>3

(* The reply lanes lose at most the commands in dead, and gain none.       *)
Trims(dead) ==
    \A t \in Slot : /\ Elements(replies'[t]) \subseteq Elements(replies[t])
                    /\ Elements(replies[t]) \subseteq Elements(replies'[t]) \cup dead

(* The stages of fibers end; those in gone do, the others may.             *)
Ends(gone) ==
    /\ \A c \in Commands : \/ fiber'[c] = fiber[c] /\ c \notin gone
                           \/ fiber'[c] = "Done" /\ fiber[c] # "Unborn"
    /\ \A l \in Leases : (acquire'[l] = acquire[l] /\ l \notin gone) \/ acquire'[l] # "Acquire"
    /\ watch' \subseteq watch \ gone

(* Every type but those of the waits and stages, which the steps change.   *)
BooksOK ==
    /\ fiber \in [Commands -> {"Unborn", "Admission", "Response", "Done"}]
    /\ acquire \in [Leases -> {"Acquire", "Held", "Done"}]
    /\ answered \subseteq Commands /\ arena \subseteq Commands
    /\ Cardinality(arena) <= Inflight
    /\ egress \subseteq Slot

(* Fewer fibers in the notifiers are still within their capacity.          *)
LEMMA WaitsShrink ==
    ASSUME ClientTypeOK, WaitsFinite, NEW S \in SUBSET sendWait, NEW L \in SUBSET leaseWait
    PROVE  /\ IsFiniteSet(S) /\ IsFiniteSet(L)
           /\ Cardinality(S) <= WaitCap /\ Cardinality(L) <= WaitCap
<1>1. /\ IsFiniteSet(S) /\ Cardinality(S) <= Cardinality(sendWait)
      /\ IsFiniteSet(L) /\ Cardinality(L) <= Cardinality(leaseWait)
  BY FS_Subset DEF WaitsFinite
<1>2. /\ Cardinality(S) \in Nat /\ Cardinality(L) \in Nat
      /\ Cardinality(sendWait) \in Nat /\ Cardinality(leaseWait) \in Nat
  BY <1>1, FS_CardinalityType DEF WaitsFinite
<1> QED
  BY <1>1, <1>2, ClientAssumption DEF ClientTypeOK

(* A step that publishes nothing, registers nobody and starts no stage.    *)
LEMMA FibersKept ==
    ASSUME FiberInv, NEW dead \in SUBSET Commands, NEW gone,
           Woke(dead, gone), Trims(dead), Ends(gone), BooksOK',
           answered' = answered \cup dead,
           arena' \subseteq arena, \A c \in arena \ arena' : ~InReplies(c),
           \A c \in late' : c \in late \/ (c \in Commands /\ fiber'[c] = "Done")
    PROVE  /\ ClientTypeOK' /\ WaitsFinite' /\ EntriesKept' /\ StagesKept'
           /\ AnswerAhead' /\ SleepersKnown'
<1>0. /\ ClientTypeOK /\ WaitsFinite /\ EntriesKept /\ StagesKept /\ AnswerAhead
      /\ SleepersKnown
  BY DEF FiberInv
<1>1. ClientTypeOK' /\ WaitsFinite'
  <2>1. /\ IsFiniteSet(sendWait') /\ IsFiniteSet(leaseWait')
        /\ Cardinality(sendWait') <= WaitCap /\ Cardinality(leaseWait') <= WaitCap
    BY <1>0, WaitsShrink DEF Woke
  <2>2. /\ watch' \subseteq Watchers /\ woken' \subseteq Fibers
        /\ sendWait' \subseteq Commands \cup Watchers /\ leaseWait' \subseteq Leases
    BY <1>0 DEF ClientTypeOK, Woke, Ends
  <2> QED
    BY <2>1, <2>2 DEF ClientTypeOK, WaitsFinite, BooksOK
<1>2. \A c \in Commands : (InReplies(c)' => InReplies(c)) /\ (InReplies(c) => InReplies(c)' \/ c \in dead)
  BY DEF InReplies, Trims
<1>3. EntriesKept'
  <2>1. \A c \in Commands : InReplies(c)' => c \in arena'
    BY <1>0, <1>2 DEF EntriesKept
  <2>2. \A s, t \in Slot : s # t => Elements(replies'[s]) \cap Elements(replies'[t]) = {}
    BY <1>0 DEF EntriesKept, Trims
  <2> QED
    BY <2>1, <2>2 DEF EntriesKept
<1>4. StagesKept'
  <2>1. ASSUME NEW c \in Commands, NEW l \in Leases, Target[c] = l, acquire'[l] = "Acquire"
        PROVE  fiber'[c] = "Unborn"
    <3>1. acquire[l] = "Acquire"
      BY <2>1 DEF Ends
    <3>2. fiber[c] = "Unborn"
      BY <1>0, <2>1, <3>1 DEF StagesKept
    <3> QED
      BY <3>2 DEF Ends
  <2> QED
    BY <1>0, <2>1 DEF StagesKept, Ends
<1>5. AnswerAhead'
  BY <1>0, <1>2 DEF AnswerAhead, Woke, Ends
<1>6. SleepersKnown'
  <2>1. ASSUME NEW c \in Commands, c \notin woken'
        PROVE  /\ fiber'[c] = "Admission" => c \in sendWait'
               /\ fiber'[c] = "Response" => InReplies(c)'
    BY <1>0, <1>2, <2>1 DEF SleepersKnown, Woke, Ends
  <2>2. \A l \in Leases \ woken' : acquire'[l] = "Acquire" => l \in leaseWait'
    BY <1>0 DEF SleepersKnown, Woke, Ends
  <2>3. watch' \ woken' \subseteq sendWait'
    BY <1>0 DEF SleepersKnown, Woke, Ends
  <2> QED
    BY <2>1, <2>2, <2>3 DEF SleepersKnown
<1> QED
  BY <1>1, <1>3, <1>4, <1>5, <1>6


(* Connections that begin to serve have no unanswered command.             *)
LEMMA LateKept ==
    ASSUME FiberInv, late' = late, NEW dead, Trims(dead),
           \A s \in Slot : phase'[s] \in Live => phase[s] \in Live \/ Quiet(s)
    PROVE  LateRetired'
<1>1. \A s \in Slot : Quiet(s) => Elements(replies[s]) = {}
  BY DEF Quiet, Elements
<1>2. \A s \in Slot : Elements(replies[s]) \cap late # {} => phase[s] \notin Live
  BY DEF FiberInv, LateRetired
<1> QED
  BY <1>1, <1>2 DEF LateRetired, Trims

LEMMA TrimsNothing == replies' = replies => Trims({})
BY DEF Trims

(* A fiber ends, and the scheduler does not move.                          *)
LEMMA FiberEnds ==
    ASSUME FiberInv, NEW c \in Commands, fiber[c] \in {"Admission", "Response"}, Finish(c),
           NEW send, Notify(send, FALSE, {}, {c}),
           UNCHANGED <<routes, entries, acquire, watch, late>>
    PROVE  FiberInv'
<1>0. ClientTypeOK /\ StagesKept
  BY DEF FiberInv
<1>1. Woke({}, {c})
  BY <1>0, NotifyWoke
<1>2. Trims({}) /\ phase' = phase
  BY TrimsNothing DEF routes, lanes
<1>3. /\ fiber' \in [Commands -> {"Unborn", "Admission", "Response", "Done"}]
      /\ fiber'[c] = "Done" /\ \A d \in Commands \ {c} : fiber'[d] = fiber[d]
  BY <1>0 DEF ClientTypeOK, Finish
<1>4. Ends({c})
  BY <1>0, <1>3, FibersAssumption DEF Ends, ClientTypeOK
<1>5. BooksOK'
  BY <1>0, <1>3 DEF BooksOK, ClientTypeOK, entries
<1>6. LateRetired'
  BY <1>2, LateKept
<1>7. answered' = answered \cup {} /\ arena' = arena /\ late' = late
  BY DEF entries
<1>8. \A d \in late' : d \in late
  BY <1>7
<1> QED
  BY <1>1, <1>2, <1>4, <1>5, <1>6, <1>7, <1>8, FibersKept DEF FiberInv

(* The driver or the scheduler moves, and no fiber runs.                   *)
LEMMA FiberDriven ==
    ASSUME FiberInv, NEW dead \in SUBSET Commands, Woke(dead, {}), Trims(dead),
           UNCHANGED <<stages, late>>, answered' = answered \cup dead,
           arena' \subseteq arena, \A c \in arena \ arena' : ~InReplies(c),
           egress' \subseteq Slot,
           \A s \in Slot : phase'[s] \in Live => phase[s] \in Live \/ Quiet(s)
    PROVE  FiberInv'
<1>0. ClientTypeOK /\ StagesKept
  BY DEF FiberInv
<1>1. Cardinality(arena') <= Inflight
  <2>1. IsFiniteSet(arena)
    BY <1>0, RoutesAssumption, FS_Subset DEF ClientTypeOK
  <2>2. IsFiniteSet(arena') /\ Cardinality(arena') <= Cardinality(arena)
    BY <2>1, FS_Subset
  <2>3. Cardinality(arena) \in Nat /\ Cardinality(arena') \in Nat
    BY <2>1, <2>2, FS_CardinalityType
  <2> QED
    BY <1>0, <2>2, <2>3, RoutesAssumption DEF ClientTypeOK
<1>t. UNCHANGED <<fiber, acquire>> /\ answered' \subseteq Commands /\ arena' \subseteq Commands
  BY <1>0 DEF ClientTypeOK, stages
<1>2. BooksOK'
  BY <1>0, <1>1, <1>t DEF BooksOK, ClientTypeOK
<1>3. Ends({})
  BY DEF Ends, stages
<1>4. LateRetired'
  BY LateKept
<1>5. \A d \in late' : d \in late
  OBVIOUS
<1> QED
  BY <1>2, <1>3, <1>4, <1>5, FibersKept DEF FiberInv

(* A command is published: it enters one lane, with its entry.             *)
LEMMA FiberAdmitted ==
    ASSUME RoutesInv, FiberInv, NEW c \in Commands, PollAdmission(c), Admitted(c)
    PROVE  FiberInv'
<1>0. /\ ClientTypeOK /\ WaitsFinite /\ EntriesKept /\ StagesKept /\ AnswerAhead
      /\ LateRetired /\ SleepersKnown /\ TypeOK
  BY DEF FiberInv, RoutesInv, LeaseInv, FifoInv
<1>1. ~InReplies(c) /\ phase' = phase
      /\ \E s \in Slot : replies' = [replies EXCEPT ![s] = Append(@, c)]
  <2>1. CASE Target[c] = Pool
    BY <2>1 DEF Admitted, TryPool, Fresh, Publish
  <2>2. CASE Target[c] # Pool
    <3>1. DispatchLease(c, Target[c])
      BY <2>2 DEF Admitted
    <3>2. PICK s \in Slot : holds[Target[c]] = Id(s)
      BY <3>1 DEF DispatchLease, Leased
    <3>3. holds[Target[c]].slot = s
      BY <3>2 DEF Id
    <3> QED
      BY <3>1, <3>3 DEF DispatchLease, Fresh, Publish
  <2> QED
    BY <2>1, <2>2
<1>2. PICK s \in Slot : replies' = [replies EXCEPT ![s] = Append(@, c)]
  BY <1>1
<1>3. /\ Elements(replies'[s]) = Elements(replies[s]) \cup {c}
      /\ \A t \in Slot \ {s} : Elements(replies'[t]) = Elements(replies[t])
  BY <1>0, <1>2, ElementsAppend DEF TypeOK
<1>4. /\ c \in woken /\ fiber[c] = "Admission" /\ c \notin late
      /\ fiber' = [fiber EXCEPT ![c] = "Response"] /\ arena' = arena \cup {c}
      /\ UNCHANGED <<acquire, watch, answered, egress, late>>
  BY <1>0 DEF PollAdmission, Admitted, StagesKept
<1>5. Woke({}, {c})
  BY <1>0, NotifyWoke DEF Admitted
<1>6. \A d \in Commands : InReplies(d)' <=> InReplies(d) \/ d = c
  BY <1>3 DEF InReplies
<1>7. fiber' \in [Commands -> {"Unborn", "Admission", "Response", "Done"}]
      /\ fiber'[c] = "Response" /\ \A d \in Commands \ {c} : fiber'[d] = fiber[d]
  BY <1>0, <1>4 DEF ClientTypeOK
<1>8. ClientTypeOK' /\ WaitsFinite'
  <2>1. /\ IsFiniteSet(sendWait') /\ IsFiniteSet(leaseWait')
        /\ Cardinality(sendWait') <= WaitCap /\ Cardinality(leaseWait') <= WaitCap
    BY <1>0, <1>5, WaitsShrink DEF Woke
  <2>2. Cardinality(arena') <= Inflight
    <3>1. IsFiniteSet(arena)
      BY <1>0, RoutesAssumption, FS_Subset DEF ClientTypeOK
    <3>2. Cardinality(arena) \in Nat /\ Cardinality(arena) < Inflight
      BY <3>1, FS_CardinalityType DEF Admitted, ReplyRoom
    <3>3. Cardinality(arena \cup {c}) \in {Cardinality(arena), Cardinality(arena) + 1}
      BY <3>1, FS_AddElement
    <3> QED
      BY <1>4, <3>2, <3>3, RoutesAssumption
  <2>3. /\ woken' \subseteq Fibers /\ sendWait' \subseteq Commands \cup Watchers
        /\ leaseWait' \subseteq Leases
    BY <1>0, <1>5 DEF ClientTypeOK, Woke
  <2> QED
    BY <1>0, <1>4, <1>7, <2>1, <2>2, <2>3 DEF ClientTypeOK, WaitsFinite
<1>9. EntriesKept'
  <2>1. \A d \in Commands : InReplies(d)' => d \in arena'
    BY <1>0, <1>4, <1>6 DEF EntriesKept
  <2>2. \A r \in Slot : c \notin Elements(replies[r])
    BY <1>1 DEF InReplies
  <2>3. \A r, t \in Slot : r # t => Elements(replies'[r]) \cap Elements(replies'[t]) = {}
    BY <1>0, <1>3, <2>2 DEF EntriesKept
  <2> QED
    BY <2>1, <2>3 DEF EntriesKept
<1>10. StagesKept'
  BY <1>0, <1>4, <1>7 DEF StagesKept
<1>11. AnswerAhead'
  BY <1>0, <1>4, <1>5, <1>6, <1>7 DEF AnswerAhead, Woke
<1>12. LateRetired'
  BY <1>0, <1>1, <1>3, <1>4 DEF LateRetired
<1>13. SleepersKnown'
  <2>1. ASSUME NEW d \in Commands, d \notin woken'
        PROVE  /\ fiber'[d] = "Admission" => d \in sendWait'
               /\ fiber'[d] = "Response" => InReplies(d)'
    BY <1>0, <1>5, <1>6, <1>7, <2>1 DEF SleepersKnown, Woke
  <2>2. /\ \A l \in Leases \ woken' : acquire'[l] = "Acquire" => l \in leaseWait'
        /\ watch' \ woken' \subseteq sendWait'
    BY <1>0, <1>4, <1>5, FibersAssumption DEF SleepersKnown, Woke, ClientTypeOK
  <2> QED
    BY <2>1, <2>2 DEF SleepersKnown
<1> QED
  BY <1>8, <1>9, <1>10, <1>11, <1>12, <1>13 DEF FiberInv


(* A fiber registers with a notifier that has room for it, instead of      *)
(* being polled again, or leaves the waits because its reply is due.       *)
LEMMA FiberSleeps ==
    ASSUME FiberInv, NEW f \in Fibers, woken' = woken \ {f},
           \/ /\ f \in Commands \cup Watchers /\ sendWait' = sendWait \cup {f}
              /\ Cardinality(sendWait') <= WaitCap /\ leaseWait' = leaseWait
              /\ f \in Commands => fiber[f] = "Admission"
           \/ /\ f \in Leases /\ leaseWait' = leaseWait \cup {f}
              /\ Cardinality(leaseWait') <= WaitCap /\ sendWait' = sendWait
           \/ /\ f \in Commands /\ fiber[f] = "Response" /\ InReplies(f)
              /\ sendWait' = sendWait \ {f} /\ leaseWait' = leaseWait \ {f},
           UNCHANGED <<phase, replies, stages, entries, late>>
    PROVE  FiberInv'
<1>0. /\ ClientTypeOK /\ WaitsFinite /\ EntriesKept /\ StagesKept /\ AnswerAhead
      /\ LateRetired /\ SleepersKnown
  BY DEF FiberInv
<1>u. UNCHANGED <<fiber, acquire, watch, answered, arena, egress>>
  BY DEF stages, entries
<1>1. WaitsFinite' /\ Cardinality(sendWait') <= WaitCap /\ Cardinality(leaseWait') <= WaitCap
  <2>1. IsFiniteSet(sendWait \cup {f}) /\ IsFiniteSet(leaseWait \cup {f})
    BY <1>0, FS_AddElement DEF WaitsFinite
  <2>2. CASE sendWait' = sendWait \cup {f} \/ leaseWait' = leaseWait \cup {f}
    BY <1>0, <2>1, <2>2 DEF WaitsFinite, ClientTypeOK
  <2>3. CASE sendWait' = sendWait \ {f} /\ leaseWait' = leaseWait \ {f}
    BY <1>0, <2>3, WaitsShrink DEF WaitsFinite
  <2> QED
    BY <2>2, <2>3
<1>2. ClientTypeOK'
  <2>1. /\ woken' \subseteq Fibers /\ sendWait' \subseteq Commands \cup Watchers
        /\ leaseWait' \subseteq Leases
    BY <1>0 DEF ClientTypeOK
  <2> QED
    BY <1>0, <1>1, <1>u, <2>1 DEF ClientTypeOK
<1>3. EntriesKept' /\ StagesKept' /\ LateRetired'
  BY <1>0, <1>u DEF EntriesKept, StagesKept, LateRetired, InReplies
<1>4. \A c : InReplies(c)' <=> InReplies(c)
  BY DEF InReplies
<1>k. /\ f \in Commands => f \notin Leases \cup Watchers
      /\ f \in Leases => f \notin Commands \cup Watchers
  BY FibersAssumption
<1>5. AnswerAhead'
  BY <1>0, <1>u, <1>4, <1>k DEF AnswerAhead
<1>6. SleepersKnown'
  <2>1. ASSUME NEW c \in Commands, c \notin woken'
        PROVE  /\ fiber'[c] = "Admission" => c \in sendWait'
               /\ fiber'[c] = "Response" => InReplies(c)'
    BY <1>0, <1>u, <1>4, <1>k, <2>1 DEF SleepersKnown
  <2>2. \A l \in Leases \ woken' : acquire'[l] = "Acquire" => l \in leaseWait'
    BY <1>0, <1>u, <1>k DEF SleepersKnown
  <2>3. watch' \ woken' \subseteq sendWait'
    BY <1>0, <1>u, <1>k DEF SleepersKnown, ClientTypeOK
  <2> QED
    BY <2>1, <2>2, <2>3 DEF SleepersKnown
<1> QED
  BY <1>0, <1>1, <1>2, <1>3, <1>5, <1>6 DEF FiberInv

LEMMA FiberPollsCommand ==
    ASSUME RoutesInv, FiberInv, NEW c \in Commands, CommandPoll(c)
    PROVE  FiberInv'
<1>0. ClientTypeOK /\ TypeOK /\ AnswerAhead /\ EntriesKept /\ LateRetired
  BY DEF FiberInv, RoutesInv, LeaseInv, FifoInv
<1>f. c \in Fibers
  BY DEF Fibers
<1>1. CASE PollAdmission(c)
  <2>0. fiber[c] = "Admission" /\ UNCHANGED <<acquire, watch, answered, egress, late>>
    BY <1>1 DEF PollAdmission
  <2>1. CASE Admitted(c)
    BY <1>1, <2>1, FiberAdmitted
  <2>2. CASE /\ Finish(c) /\ Notify(TRUE, FALSE, {}, {c}) /\ UNCHANGED <<routes, arena>>
    BY <2>0, <2>2, FiberEnds DEF entries
  <2>3. CASE /\ AdmissionBlocked(c) /\ Cardinality(sendWait \cup {c}) <= WaitCap
    <3>1. /\ woken' = woken \ {c} /\ sendWait' = sendWait \cup {c} /\ leaseWait' = leaseWait
          /\ UNCHANGED <<fiber, routes, arena>>
      BY <2>3 DEF AdmissionBlocked, Registers
    <3>2. UNCHANGED <<phase, replies, stages, entries, late>>
      BY <2>0, <3>1 DEF routes, lanes, stages, entries
    <3>3. Cardinality(sendWait') <= WaitCap
      BY <2>3, <3>1
    <3> QED
      BY <1>f, <2>0, <3>1, <3>2, <3>3, FiberSleeps
  <2> QED
    BY <1>1, <2>1, <2>2, <2>3 DEF PollAdmission, AdmissionExpired, AdmissionFailed, AdmissionBlocked
<1>2. CASE PollResponse(c)
  <2>0. fiber[c] = "Response" /\ UNCHANGED <<acquire, watch, entries>> /\ c \in woken
    BY <1>2 DEF PollResponse
  <2>1. CASE ResponsePolled(c) /\ c \in answered
    BY <2>0, <2>1, FiberEnds DEF ResponsePolled
  <2>2. CASE ResponsePolled(c) /\ c \notin answered
    <3>1. InReplies(c)
      BY <1>0, <2>0, <2>2 DEF AnswerAhead
    <3>2. /\ woken' = woken \ {c} /\ sendWait' = sendWait \ {c} /\ leaseWait' = leaseWait \ {c}
          /\ UNCHANGED <<routes, late, fiber>>
      BY <2>2 DEF ResponsePolled, Notify
    <3>3. UNCHANGED <<phase, replies, stages, entries, late>>
      BY <2>0, <3>2 DEF routes, lanes, stages
    <3> QED
      BY <1>f, <2>0, <3>1, <3>2, <3>3, FiberSleeps
  <2>3. CASE ResponseExpired(c) /\ ~InReplies(c)
    BY <2>0, <2>3, FiberEnds DEF ResponseExpired
  <2>4. CASE ResponseExpired(c) /\ InReplies(c)
    <3>1. Finish(c) /\ late' = late \cup {c}
      BY <2>4 DEF ResponseExpired
    <3>2. PICK s \in Slot :
            /\ c \in Elements(replies[s])
            /\ IF phase[s] \in Live
               THEN Reconnect(s) /\ Notify(TRUE, TRUE, {}, {c})
               ELSE UNCHANGED routes /\ Notify(FALSE, FALSE, {}, {c})
      BY <2>4 DEF ResponseExpired, GivesUpConnection
    <3>3. /\ replies' = replies /\ phase'[s] \notin Live
          /\ \A t \in Slot : phase'[t] \in Live => phase[t] \in Live
      BY <1>0, <3>2 DEF Reconnect, routes, lanes, Live, TypeOK
    <3>4. Woke({}, {c})
      BY <1>0, <3>2, NotifyWoke
    <3>5. /\ fiber' \in [Commands -> {"Unborn", "Admission", "Response", "Done"}]
          /\ fiber'[c] = "Done" /\ \A d \in Commands \ {c} : fiber'[d] = fiber[d]
      BY <1>0, <3>1 DEF ClientTypeOK, Finish
    <3>6. Ends({c})
      BY <1>0, <2>0, <3>5, FibersAssumption DEF Ends, ClientTypeOK
    <3>7. BooksOK'
      BY <1>0, <2>0, <3>5 DEF BooksOK, ClientTypeOK, entries
    <3>8. LateRetired'
      <4>1. \A t \in Slot \ {s} : c \notin Elements(replies[t])
        BY <1>0, <3>2 DEF EntriesKept
      <4> QED
        BY <1>0, <3>1, <3>3, <4>1 DEF LateRetired
    <3>9. /\ answered' = answered \cup {} /\ arena' = arena
          /\ \A d \in late' : d \in late \/ (d \in Commands /\ fiber'[d] = "Done")
      BY <2>0, <3>1, <3>5 DEF entries
    <3>10. Trims({})
      BY <3>3, TrimsNothing
    <3> QED
      BY <3>4, <3>6, <3>7, <3>8, <3>9, <3>10, FibersKept DEF FiberInv
  <2> QED
    BY <1>2, <2>1, <2>2, <2>3, <2>4 DEF PollResponse
<1> QED
  BY <1>1, <1>2 DEF CommandPoll


(* A lease fiber or a watcher ends, and no reply or published stage moves. *)
LEMMA FiberGoes ==
    ASSUME FiberInv, NEW f \in Leases \cup Watchers, NEW send, NEW lease, NEW gone \in SUBSET {f},
           Notify(send, lease, {}, gone), Ends(gone), BooksOK', UNCHANGED <<entries, late, replies>>,
           \A s \in Slot : phase'[s] \in Live => phase[s] \in Live \/ Quiet(s)
    PROVE  FiberInv'
<1>0. ClientTypeOK
  BY DEF FiberInv
<1>1. Woke({}, gone)
  BY <1>0, NotifyWoke
<1>2. Trims({})
  BY TrimsNothing
<1>3. LateRetired'
  BY <1>2, LateKept
<1>4. answered' = answered \cup {} /\ arena' = arena /\ \A d \in late' : d \in late
  BY DEF entries
<1> QED
  BY <1>1, <1>2, <1>3, <1>4, FibersKept DEF FiberInv

(* A lease is granted: its commands start and are polled.                  *)
LEMMA FiberLeased ==
    ASSUME RoutesInv, FiberInv, NEW l \in Leases, acquire[l] = "Acquire", TryLease(l), Give(l, "Held"),
           fiber' = [c \in Commands |-> IF Target[c] = l THEN "Admission" ELSE fiber[c]],
           Notify(FALSE, FALSE, {c \in Commands : Target[c] = l}, {l}),
           UNCHANGED <<watch, entries, late>>
    PROVE  FiberInv'
<1>0. /\ ClientTypeOK /\ WaitsFinite /\ EntriesKept /\ StagesKept /\ AnswerAhead
      /\ LateRetired /\ SleepersKnown /\ TypeOK
  BY DEF FiberInv, RoutesInv, LeaseInv, FifoInv
<1> DEFINE born == {c \in Commands : Target[c] = l}
<1>1. /\ fiber' \in [Commands -> {"Unborn", "Admission", "Response", "Done"}]
      /\ \A c \in born : fiber'[c] = "Admission" /\ fiber[c] = "Unborn"
      /\ \A c \in Commands \ born : fiber'[c] = fiber[c]
  BY <1>0 DEF ClientTypeOK, StagesKept
<1>2. /\ acquire' \in [Leases -> {"Acquire", "Held", "Done"}] /\ acquire'[l] = "Held"
      /\ \A m \in Leases \ {l} : acquire'[m] = acquire[m]
  BY <1>0 DEF ClientTypeOK, Give
<1>3. Woke(born, {l})
  <2>1. born \in SUBSET Fibers
    BY DEF Fibers
  <2> QED
    BY <1>0, <2>1, NotifyWoke
<1>4. /\ replies' = replies
      /\ \A s \in Slot : phase'[s] \in Live => phase[s] \in Live
  BY <1>0 DEF TryLease, lanes, Acquirable, TypeOK, Live
<1>5. ClientTypeOK' /\ WaitsFinite'
  <2>1. /\ IsFiniteSet(sendWait') /\ IsFiniteSet(leaseWait')
        /\ Cardinality(sendWait') <= WaitCap /\ Cardinality(leaseWait') <= WaitCap
    BY <1>0, <1>3, WaitsShrink DEF Woke
  <2>2. /\ woken' \subseteq Fibers /\ sendWait' \subseteq Commands \cup Watchers
        /\ leaseWait' \subseteq Leases
    BY <1>0, <1>3 DEF ClientTypeOK, Woke
  <2> QED
    BY <1>0, <1>1, <1>2, <2>1, <2>2 DEF ClientTypeOK, WaitsFinite, entries
<1>6. EntriesKept' /\ LateRetired'
  BY <1>0, <1>4 DEF EntriesKept, LateRetired, InReplies, entries
<1>7. StagesKept'
  BY <1>0, <1>1, <1>2 DEF StagesKept
<1>8. \A c : InReplies(c)' <=> InReplies(c)
  BY <1>4 DEF InReplies
<1>k. l \notin Commands /\ l \notin watch
  BY <1>0, FibersAssumption DEF ClientTypeOK
<1>9. AnswerAhead'
  BY <1>0, <1>1, <1>3, <1>8, <1>k DEF AnswerAhead, Woke, entries
<1>10. SleepersKnown'
  <2>1. ASSUME NEW c \in Commands, c \notin woken'
        PROVE  /\ fiber'[c] = "Admission" => c \in sendWait'
               /\ fiber'[c] = "Response" => InReplies(c)'
    BY <1>0, <1>1, <1>3, <1>8, <1>k, <2>1 DEF SleepersKnown, Woke
  <2>2. /\ \A m \in Leases \ woken' : acquire'[m] = "Acquire" => m \in leaseWait'
        /\ watch' \ woken' \subseteq sendWait'
    BY <1>0, <1>2, <1>3, <1>k DEF SleepersKnown, Woke
  <2> QED
    BY <2>1, <2>2 DEF SleepersKnown
<1> QED
  BY <1>5, <1>6, <1>7, <1>9, <1>10 DEF FiberInv

LEMMA FiberPollsLease ==
    ASSUME RoutesInv, FiberInv, NEW l \in Leases, PollAcquire(l)
    PROVE  FiberInv'
<1>0. ClientTypeOK /\ TypeOK
  BY DEF FiberInv, RoutesInv, LeaseInv, FifoInv
<1>k. l \in Fibers /\ l \notin Commands /\ l \notin watch
  BY <1>0, FibersAssumption DEF Fibers, ClientTypeOK
<1>p. acquire[l] = "Acquire" /\ UNCHANGED <<watch, entries, late>>
  BY DEF PollAcquire
<1>1. ASSUME Give(l, "Done"), Notify(FALSE, FALSE, {}, {l}), UNCHANGED <<fiber, phase, replies>>
      PROVE  FiberInv'
  <2>1. /\ acquire' \in [Leases -> {"Acquire", "Held", "Done"}] /\ acquire'[l] = "Done"
        /\ \A m \in Leases \ {l} : acquire'[m] = acquire[m]
    BY <1>0, <1>1 DEF ClientTypeOK, Give
  <2>2. Ends({l})
    BY <1>1, <1>p, <1>k, <2>1 DEF Ends
  <2>3. BooksOK'
    BY <1>0, <1>1, <1>p, <2>1 DEF BooksOK, ClientTypeOK, entries
  <2> QED
    BY <1>1, <1>p, <2>2, <2>3, FiberGoes
<1>2. CASE /\ Give(l, "Done") /\ Notify(FALSE, FALSE, {}, {l}) /\ UNCHANGED <<routes, fiber>>
  BY <1>1, <1>2 DEF routes, lanes
<1>3. CASE TryLease(l) /\ Give(l, "Held")
           /\ fiber' = [c \in Commands |-> IF Target[c] = l THEN "Admission" ELSE fiber[c]]
           /\ Notify(FALSE, FALSE, {c \in Commands : Target[c] = l}, {l})
  BY <1>p, <1>3, FiberLeased
<1>4. CASE TryLeaseEmpty(l) /\ Give(l, "Done") /\ Notify(FALSE, FALSE, {}, {l}) /\ UNCHANGED fiber
  BY <1>1, <1>4 DEF TryLeaseEmpty, lanes
<1>5. CASE /\ TryLeaseEmpty(l) /\ Cardinality(leaseWait \cup {l}) <= WaitCap
           /\ woken' = woken \ {l} /\ leaseWait' = leaseWait \cup {l}
           /\ UNCHANGED <<acquire, sendWait, fiber>>
  <2>1. UNCHANGED <<phase, replies, stages, entries, late>>
    BY <1>5, <1>p DEF TryLeaseEmpty, lanes, stages
  <2>2. Cardinality(leaseWait') <= WaitCap
    BY <1>5
  <2> QED
    BY <1>k, <1>5, <2>1, <2>2, FiberSleeps
<1>6. Cardinality(leaseWait \cup {l}) > WaitCap \/ Cardinality(leaseWait \cup {l}) <= WaitCap
  <2>1. IsFiniteSet(leaseWait \cup {l})
    BY FS_AddElement DEF FiberInv, WaitsFinite
  <2>2. Cardinality(leaseWait \cup {l}) \in Nat /\ WaitCap \in Nat
    BY <2>1, FS_CardinalityType, ClientAssumption
  <2> QED
    BY <2>2
<1> QED
  BY <1>2, <1>3, <1>4, <1>5, <1>6 DEF PollAcquire

LEMMA FiberDropsLease ==
    ASSUME RoutesInv, FiberInv, NEW l \in Leases, DropLease(l)
    PROVE  FiberInv'
<1>0. ClientTypeOK /\ TypeOK
  BY DEF FiberInv, RoutesInv, LeaseInv, FifoInv
<1>1. /\ acquire' \in [Leases -> {"Acquire", "Held", "Done"}] /\ acquire'[l] = "Done"
      /\ \A m \in Leases \ {l} : acquire'[m] = acquire[m]
      /\ UNCHANGED <<fiber, watch, entries, late>>
  BY <1>0 DEF ClientTypeOK, Give, DropLease
<1>2. Ends({}) /\ BooksOK'
  BY <1>0, <1>1 DEF Ends, BooksOK, ClientTypeOK, entries
<1>3. replies' = replies /\ \A s \in Slot : phase'[s] \in Live => phase[s] \in Live
  <2>1. CASE Releases(l)
    <3>1. holds[l].slot \in Slot
      BY <1>0 DEF TypeOK, Token, DropLease, Release
    <3> QED
      BY <1>0, <2>1, <3>1 DEF DropLease, Release, Releases, TypeOK, Live, lanes
  <2>2. CASE ~Releases(l)
    BY <2>2 DEF DropLease, Release, lanes
  <2> QED
    BY <2>1, <2>2
<1>4. Notify(Releases(l), Releases(l), {}, {})
  BY DEF DropLease, ReleaseWakes
<1> QED
  BY <1>1, <1>2, <1>3, <1>4, FiberGoes

LEMMA FiberPollsWatch ==
    ASSUME FiberInv, NEW w \in Watchers, PollWatch(w)
    PROVE  FiberInv'
<1>0. ClientTypeOK
  BY DEF FiberInv
<1>k. w \in Fibers /\ w \notin Commands /\ w \notin Leases
  BY FibersAssumption DEF Fibers
<1>p. UNCHANGED <<routes, fiber, acquire, entries, late, phase, replies>>
  BY DEF PollWatch, routes, lanes
<1>1. CASE watch' = watch \ {w} /\ Notify(FALSE, FALSE, {}, {w})
  <2>1. Ends({w})
    BY <1>k, <1>1, <1>p DEF Ends
  <2>2. BooksOK'
    BY <1>0, <1>p DEF BooksOK, ClientTypeOK, entries
  <2> QED
    BY <1>1, <1>p, <2>1, <2>2, FiberGoes
<1>2. CASE /\ Cardinality(sendWait \cup {w}) <= WaitCap
           /\ woken' = woken \ {w} /\ sendWait' = sendWait \cup {w} /\ UNCHANGED <<watch, leaseWait>>
  <2>1. UNCHANGED <<phase, replies, stages, entries, late>>
    BY <1>2, <1>p DEF stages
  <2>2. Cardinality(sendWait') <= WaitCap
    BY <1>2
  <2> QED
    BY <1>k, <1>2, <2>1, <2>2, FiberSleeps
<1>3. Cardinality(sendWait \cup {w}) > WaitCap \/ Cardinality(sendWait \cup {w}) <= WaitCap
  <2>1. IsFiniteSet(sendWait \cup {w})
    BY FS_AddElement DEF FiberInv, WaitsFinite
  <2>2. Cardinality(sendWait \cup {w}) \in Nat /\ WaitCap \in Nat
    BY <2>1, FS_CardinalityType, ClientAssumption
  <2> QED
    BY <2>2
<1> QED
  BY <1>1, <1>2, <1>3 DEF PollWatch


(* A lane is its first commands and the others.                            *)
LEMMA ElementsSplit ==
    ASSUME NEW q \in Seq(Commands), NEW k \in 1 .. Len(q)
    PROVE  /\ Elements(SubSeq(q, 1, k)) \in SUBSET Commands
           /\ Elements(q) \subseteq Elements(SubSeq(q, k + 1, Len(q))) \cup Elements(SubSeq(q, 1, k))
<1> DEFINE a == SubSeq(q, 1, k)
           b == SubSeq(q, k + 1, Len(q))
<1>0. Len(q) \in Nat /\ k \in Nat /\ 1 <= k /\ k <= Len(q)
  OBVIOUS
<1>1. Len(a) = k /\ \A i \in 1 .. k : a[i] = q[i]
  BY <1>0, SubSeqProperties
<1>2. Len(b) = Len(q) - k /\ \A i \in 1 .. Len(q) - k : b[i] = q[i + k]
  BY <1>0, SubSeqProperties
<1> HIDE DEF a, b
<1>3. \A i \in 1 .. k : q[i] \in Elements(a) /\ q[i] \in Commands
  BY <1>0, <1>1 DEF Elements
<1>4. Elements(a) \in SUBSET Commands
  BY <1>1, <1>3 DEF Elements
<1>5. ASSUME NEW i \in 1 .. Len(q), i > k PROVE q[i] \in Elements(b)
  <2>1. i - k \in 1 .. Len(q) - k /\ (i - k) + k = i
    BY <1>0, <1>5
  <2>2. b[i - k] = q[i]
    BY <1>2, <2>1
  <2> QED
    BY <1>2, <2>1, <2>2 DEF Elements
<1>6. \A i \in 1 .. Len(q) : i \in 1 .. k \/ i > k
  BY <1>0
<1>7. \A i \in 1 .. Len(q) : q[i] \in Elements(b) \cup Elements(a)
  BY <1>3, <1>5, <1>6
<1> QED
  BY <1>4, <1>7 DEF Elements, a, b

(* The steps of the driver and of the scheduler around the fibers.         *)
LEMMA FiberSlotStep ==
    ASSUME RoutesInv, FiberInv, NEW s \in Slot,
           SlotStep(s) \/ Reply(s) \/ SessionFails(s) \/ DriverCloses(s)
    PROVE  FiberInv'
<1>0. ClientTypeOK /\ TypeOK /\ LanesFresh
  BY DEF FiberInv, RoutesInv, LeaseInv, FifoInv, SuffixInv
<1>T. phase \in [Slot -> Phases] /\ replies \in [Slot -> Seq(Commands)] /\ egress \subseteq Slot
  BY <1>0 DEF TypeOK, ClientTypeOK
<1>w. waits' = waits => Woke({}, {})
  BY <1>0 DEF waits, Woke, ClientTypeOK
<1>n. ASSUME NEW send, NEW lease, Notify(send, lease, {}, {}) PROVE Woke({}, {})
  BY <1>0, <1>n, NotifyWoke
<1>u. ASSUME Woke({}, {}), replies' = replies, UNCHANGED <<stages, late, answered, arena>>, egress' \subseteq Slot,
             \A t \in Slot : phase'[t] \in Live => phase[t] \in Live \/ Quiet(t)
      PROVE  FiberInv'
  <2>1. Trims({}) /\ answered' = answered \cup {}
    BY <1>u, TrimsNothing
  <2> QED
    BY <1>u, <2>1, FiberDriven
<1>1. CASE Open(s)
  <2>1. replies' = replies /\ \A t \in Slot : phase'[t] \in Live => phase[t] \in Live
    BY <1>T, <1>1 DEF Open, Activate, lanes, Live
  <2> QED
    BY <1>T, <1>1, <1>w, <1>u, <2>1 DEF Open, entries
<1>2. CASE Ready(s)
  <2>1. replies' = replies /\ \A t \in Slot : phase'[t] \in Live => phase[t] \in Live \/ Quiet(t)
    BY <1>0, <1>T, <1>2 DEF Ready, MarkReady, lanes, Live, LanesFresh
  <2>2. Woke({}, {})
    BY <1>2, <1>n DEF Ready, ReadyWakes, WakeAll
  <2> QED
    BY <1>T, <1>2, <1>u, <2>1, <2>2 DEF Ready, entries
<1>3. CASE Disconnect(s)
  <2>1. replies' = replies /\ \A t \in Slot : phase'[t] \in Live => phase[t] \in Live
    BY <1>T, <1>3 DEF Disconnect, Retire, lanes, Live
  <2>2. Woke({}, {})
    BY <1>3, <1>n DEF Disconnect, Retired, WakeAll
  <2> QED
    BY <1>T, <1>3, <1>u, <2>1, <2>2 DEF Disconnect, entries
<1>4. CASE Send(s)
  <2>1. replies' = replies /\ phase' = phase
    BY <1>4 DEF Send, Drain
  <2> QED
    BY <1>T, <1>4, <1>w, <1>u, <2>1 DEF Send, entries
<1>5. CASE Sent(s)
  <2>1. replies' = replies /\ phase' = phase
    BY <1>5 DEF Sent, routes, lanes
  <2>2. Woke({}, {})
    BY <1>5, <1>n DEF Sent, WakeSend
  <2>3. UNCHANGED <<stages, late, answered, arena>> /\ egress' \subseteq Slot
    BY <1>T, <1>5 DEF Sent
  <2> QED
    BY <1>u, <2>1, <2>2, <2>3
<1>6. CASE FailReplies(s)
  <2>1. PICK k \in 1 .. Len(replies[s]) :
            /\ ClearRecv(s, k)
            /\ LET gone == Elements(SubSeq(replies[s], 1, k))
               IN answered' = answered \cup gone /\ Notify(FALSE, FALSE, gone, {})
            /\ UNCHANGED <<stages, arena, egress, late>>
    BY <1>6 DEF FailReplies
  <2> DEFINE q == replies[s]
             gone == Elements(SubSeq(q, 1, k))
  <2>2. q \in Seq(Commands) /\ k \in 1 .. Len(q)
    BY <1>T
  <2>4. gone \in SUBSET Commands
    BY <2>2, ElementsSplit
  <2>5. Elements(q) \subseteq Elements(SubSeq(q, k + 1, Len(q))) \cup gone
    BY <2>2, ElementsSplit
  <2>6. replies' = [replies EXCEPT ![s] = SubSeq(q, k + 1, Len(q))] /\ phase' = phase
    BY <2>1 DEF ClearRecv
  <2>7. Trims(gone)
    <3>1. Elements(replies'[s]) \subseteq Elements(q) /\ Elements(q) \subseteq Elements(replies'[s]) \cup gone
      BY <1>T, <2>2, <2>5, <2>6, ElementsSuffix
    <3>2. \A t \in Slot \ {s} : replies'[t] = replies[t]
      BY <1>T, <2>6
    <3> HIDE DEF gone
    <3> QED
      BY <3>1, <3>2 DEF Trims
  <2>8. Woke(gone, {})
    <3>1. gone \in SUBSET Fibers
      BY <2>4 DEF Fibers
    <3> QED
      BY <1>0, <2>1, <3>1, NotifyWoke
  <2> HIDE DEF gone
  <2>9. answered' = answered \cup gone /\ UNCHANGED <<stages, late, arena, egress>>
    BY <2>1 DEF gone
  <2> QED
    BY <1>T, <2>4, <2>6, <2>7, <2>8, <2>9, FiberDriven
<1>7. CASE DropRequests(s)
  <2>1. replies' = replies /\ phase' = phase
    BY <1>7 DEF DropRequests, ClearSend
  <2>2. Woke({}, {})
    BY <1>7, <1>n DEF DropRequests, WakeSend
  <2> QED
    BY <1>T, <1>7, <1>u, <2>1, <2>2 DEF DropRequests, entries
<1>8. CASE Reply(s)
  <2>1. /\ TryReply(s) /\ answered' = answered \cup {Head(replies[s])}
        /\ Notify(TRUE, phase[s] = "Shared" /\ Answered(s), {Head(replies[s])}, {})
        /\ UNCHANGED <<stages, arena, egress, late>>
    BY <1>8 DEF Reply, ReplyWakes
  <2> DEFINE q == replies[s]
  <2>2. q \in Seq(Commands) /\ q # <<>> /\ replies' = [replies EXCEPT ![s] = Tail(q)] /\ phase' = phase
    BY <1>T, <2>1 DEF TryReply
  <2>3. /\ Len(q) \in Nat /\ Len(q) > 0 /\ Head(q) = q[1] /\ Len(Tail(q)) = Len(q) - 1
        /\ \A i \in 1 .. Len(q) - 1 : Tail(q)[i] = q[i + 1]
    BY <2>2
  <2>4. Head(q) \in Commands
    BY <2>2
  <2>5. Elements(q) \subseteq Elements(Tail(q)) \cup {Head(q)}
    <3>1. ASSUME NEW i \in 1 .. Len(q), i # 1 PROVE q[i] \in Elements(Tail(q))
      <4>1. i - 1 \in 1 .. Len(q) - 1 /\ (i - 1) + 1 = i
        BY <2>3, <3>1
      <4>2. Tail(q)[i - 1] = q[i]
        BY <2>3, <4>1
      <4> QED
        BY <2>3, <4>1, <4>2 DEF Elements
    <3> QED
      BY <2>3, <3>1 DEF Elements
  <2>6. Trims({Head(q)})
    <3>1. Elements(replies'[s]) \subseteq Elements(q)
          /\ Elements(q) \subseteq Elements(replies'[s]) \cup {Head(q)}
      BY <1>T, <2>2, <2>5, ElementsTail
    <3>2. \A t \in Slot \ {s} : replies'[t] = replies[t]
      BY <1>T, <2>2
    <3> QED
      BY <3>1, <3>2 DEF Trims
  <2>7. Woke({Head(q)}, {})
    <3>1. {Head(q)} \in SUBSET Fibers
      BY <2>4 DEF Fibers
    <3> QED
      BY <1>0, <2>1, <3>1, NotifyWoke
  <2>8. {Head(q)} \in SUBSET Commands
    BY <2>4
  <2> QED
    BY <1>T, <2>1, <2>2, <2>6, <2>7, <2>8, FiberDriven
<1>9. CASE SessionFails(s) \/ DriverCloses(s)
  <2>1. replies' = replies /\ \A t \in Slot : phase'[t] \in Live => phase[t] \in Live
    BY <1>T, <1>9 DEF SessionFails, DriverCloses, Fail, Quarantine, Close, lanes, Live
  <2>2. Woke({}, {})
    BY <1>9, <1>n, <1>w DEF SessionFails, DriverCloses, WakeAll
  <2>3. UNCHANGED <<stages, late, answered, arena, egress>>
    BY <1>9 DEF SessionFails, DriverCloses, entries
  <2> QED
    BY <1>T, <1>u, <2>1, <2>2, <2>3
<1> QED
  BY <1>1, <1>2, <1>3, <1>4, <1>5, <1>6, <1>7, <1>8, <1>9 DEF SlotStep


LEMMA FiberInit == ClientInit => FiberInv
<1> SUFFICES ASSUME ClientInit PROVE FiberInv
  OBVIOUS
<1>1. /\ fiber \in [Commands -> {"Unborn", "Admission", "Response", "Done"}]
      /\ \A c \in Commands : fiber[c] = IF Target[c] = Pool THEN "Admission" ELSE "Unborn"
      /\ acquire \in [Leases -> {"Acquire", "Held", "Done"}]
      /\ watch = Watchers /\ sendWait = {} /\ leaseWait = {}
      /\ answered = {} /\ arena = {} /\ egress = {} /\ late = {}
      /\ woken = {c \in Commands : Target[c] = Pool} \cup Leases \cup Watchers
  BY DEF ClientInit
<1>2. \A s \in Slot : replies[s] = <<>>
  BY DEF ClientInit, Init
<1>3. \A s \in Slot : Elements(replies[s]) = {}
  BY <1>2 DEF Elements
<1>4. IsFiniteSet({}) /\ Cardinality({}) = 0
  BY FS_EmptySet
<1>5. ClientTypeOK /\ WaitsFinite
  BY <1>1, <1>4, RoutesAssumption, ClientAssumption DEF ClientTypeOK, WaitsFinite, Fibers
<1>6. EntriesKept /\ LateRetired
  BY <1>1, <1>3 DEF EntriesKept, LateRetired, InReplies
<1>7. StagesKept /\ AnswerAhead
  BY <1>1, FibersAssumption DEF StagesKept, AnswerAhead
<1>8. SleepersKnown
  BY <1>1 DEF SleepersKnown
<1> QED
  BY <1>5, <1>6, <1>7, <1>8 DEF FiberInv

LEMMA FiberStep == RoutesInv /\ FiberInv /\ [ClientNext]_cvars => FiberInv'
<1> SUFFICES ASSUME RoutesInv, FiberInv, [ClientNext]_cvars PROVE FiberInv'
  OBVIOUS
<1>0. ClientTypeOK
  BY DEF FiberInv
<1>1. ASSUME NEW c \in Commands, CommandPoll(c) PROVE FiberInv'
  BY <1>1, FiberPollsCommand
<1>2. ASSUME NEW c \in Commands, Drop(c) PROVE FiberInv'
  BY <1>2, FiberEnds DEF Drop
<1>3. ASSUME NEW c \in Commands, Maintain(c) PROVE FiberInv'
  <2>1. Woke({}, {})
    BY <1>0, <1>3, NotifyWoke DEF Maintain, MaintainWakes, WakeAll
  <2>2. Trims({}) /\ phase' = phase
    BY <1>3, TrimsNothing DEF Maintain, routes, lanes
  <2>3. arena' = arena \ {c} /\ ~InReplies(c) /\ UNCHANGED <<stages, late, egress>>
        /\ answered' = answered \cup {}
    BY <1>3 DEF Maintain
  <2>4. egress' \subseteq Slot
    BY <1>0, <2>3 DEF ClientTypeOK
  <2> QED
    BY <2>1, <2>2, <2>3, <2>4, FiberDriven
<1>4. ASSUME NEW l \in Leases, PollAcquire(l) \/ DropLease(l) PROVE FiberInv'
  BY <1>4, FiberPollsLease, FiberDropsLease
<1>5. ASSUME NEW w \in Watchers, PollWatch(w) PROVE FiberInv'
  BY <1>5, FiberPollsWatch
<1>6. ASSUME NEW f \in Commands \cup Leases, Expire(f) PROVE FiberInv'
  <2>1. Woke({f}, {})
    <3>1. {f} \in SUBSET Fibers
      BY DEF Fibers
    <3> QED
      BY <1>0, <1>6, <3>1, NotifyWoke DEF Expire, Alarm
  <2>2. Trims({}) /\ phase' = phase /\ UNCHANGED <<stages, late, answered, arena, egress>>
    BY <1>6, TrimsNothing DEF Expire, routes, lanes, entries
  <2>3. Woke({}, {}) /\ answered' = answered \cup {} /\ egress' \subseteq Slot
    BY <1>0, <2>1, <2>2 DEF Woke, ClientTypeOK
  <2> QED
    BY <2>2, <2>3, FiberDriven
<1>7. ASSUME NEW s \in Slot, SlotStep(s) \/ Reply(s) \/ SessionFails(s) \/ DriverCloses(s)
      PROVE FiberInv'
  BY <1>7, FiberSlotStep
<1>8. ASSUME Stop PROVE FiberInv'
  <2>1. Woke({}, {})
    BY <1>0, <1>8, NotifyWoke DEF Stop, WakeAll
  <2>2. Trims({}) /\ phase' = phase /\ UNCHANGED <<stages, late, answered, arena, egress>>
    BY <1>8, TrimsNothing DEF Stop, routes, lanes, entries
  <2>3. answered' = answered \cup {} /\ egress' \subseteq Slot
    BY <1>0, <2>2 DEF ClientTypeOK
  <2> QED
    BY <2>1, <2>2, <2>3, FiberDriven
<1>9. ASSUME UNCHANGED cvars PROVE FiberInv'
  <2>1. Woke({}, {})
    BY <1>0, <1>9 DEF cvars, waits, Woke, ClientTypeOK
  <2>2. Trims({}) /\ phase' = phase /\ UNCHANGED <<stages, late, answered, arena, egress>>
    BY <1>9, TrimsNothing DEF cvars, routes, lanes, entries
  <2>3. answered' = answered \cup {} /\ egress' \subseteq Slot
    BY <1>0, <2>2 DEF ClientTypeOK
  <2> QED
    BY <2>1, <2>2, <2>3, FiberDriven
<1> QED
  BY <1>1, <1>2, <1>3, <1>4, <1>5, <1>6, <1>7, <1>8, <1>9 DEF ClientNext

LEMMA ClientInvariant == ClientSpec => [](RoutesInv /\ FiberInv)
<1>1. ClientInit => RoutesInv /\ FiberInv
  BY RoutesInitial, FiberInit DEF ClientInit
<1>2. RoutesInv /\ FiberInv /\ [ClientNext]_cvars => RoutesInv' /\ FiberInv'
  BY ClientStepRoutes, RoutesKept, FiberStep
<1> QED
  BY <1>1, <1>2, PTL DEF ClientSpec

(* The reply arena never holds more than it was made for, the notifiers no *)
(* more fibers than config.waiters(), and a connection on which somebody   *)
(* gave up a reply serves nobody, so the late reply is never taken for     *)
(* another command's: after any faults, drops and elapsed deadlines.       *)
THEOREM RepliesSoundCorrect == ClientSpec => []RepliesSound
<1>1. FiberInv => RepliesSound
  BY DEF FiberInv, RepliesSound
<1> QED
  BY <1>1, ClientInvariant, PTL


-----------------------------------------------------------------------------
(* No lost wake-up *)

(* What try_lease would find, in terms of the FIFOs.                       *)
LEMMA LeasableIs ==
    ASSUME RoutesInv, NEW s \in Slot PROVE Acquirable(s) <=> Leasable(s)
<1>0. TypeOK /\ IdleSound /\ DeferSound
  BY DEF RoutesInv, LeaseInv, FifoInv
<1>1. /\ RefreshedIdle[s] > 0 <=> (Moved(s) \/ idle[s] > 0)
      /\ Moved(s) => RefreshedIdleGen[s] = gen[s]
      /\ ~Moved(s) => RefreshedIdleGen[s] = idleGen[s]
  BY <1>0, RefreshLinks
<1> QED
  BY <1>0, <1>1 DEF Acquirable, Leasable, Moved, Ripe, IdleSound, DeferSound

(* A command with an entry is not in more lanes than entries: room in the  *)
(* arena is room to register.                                              *)
LEMMA RoomRegisters ==
    ASSUME FiberInv, ReplyRoom PROVE Registrable
<1> DEFINE S == {c \in Commands : InReplies(c)}
<1>1. S \subseteq arena /\ IsFiniteSet(arena)
  BY RoutesAssumption, FS_Subset DEF FiberInv, EntriesKept, ClientTypeOK
<1>2. IsFiniteSet(S) /\ Cardinality(S) <= Cardinality(arena)
  BY <1>1, FS_Subset
<1>3. Cardinality(S) \in Nat /\ Cardinality(arena) \in Nat /\ Inflight \in Nat
  BY <1>1, <1>2, FS_CardinalityType, RoutesAssumption
<1>4. Cardinality(S) < Inflight
  BY <1>2, <1>3 DEF ReplyRoom
<1> QED
  BY <1>4 DEF Registrable

(* Nobody new registers, and the step offers nobody anything it does not   *)
(* tell.                                                                   *)
LEMMA BlockedKept ==
    ASSUME BlockedInv, sendWait' \subseteq sendWait, leaseWait' \subseteq leaseWait,
           sendWait' # {} => /\ egress \subseteq egress'
                             /\ Offers' => Offers \/ egress' # {},
           ~Rogue /\ leaseWait' # {} => \A s \in Slot : Leasable(s)' => Leasable(s),
           sendWait' \cup leaseWait' # {} =>
                \/ \E s \in Slot : Withdrawn(s)'
                \/ /\ active' = active
                   /\ FatalCause' => FatalCause
                   /\ \A s \in Slot : Withdrawn(s) => Withdrawn(s)'
    PROVE  BlockedInv'
<1>1. SendHeld'
  <2> SUFFICES ASSUME NEW c \in sendWait' \cap Commands, Target[c] = Pool
               PROVE  ~Offers' \/ egress' # {}
    BY DEF SendHeld
  <2>1. c \in sendWait \cap Commands /\ sendWait' # {}
    OBVIOUS
  <2>2. ~Offers \/ egress # {}
    BY <2>1 DEF BlockedInv, SendHeld
  <2> QED
    BY <2>1, <2>2
<1>2. (~Rogue => LeaseHeld)'
  <2> SUFFICES ASSUME ~Rogue, leaseWait' # {}, NEW s \in Slot PROVE ~Leasable(s)'
    BY DEF LeaseHeld
  <2>1. ~Leasable(s)
    BY DEF BlockedInv, LeaseHeld
  <2> QED
    BY <2>1
<1>3. CauseAhead'
  <2> SUFFICES ASSUME sendWait' \cup leaseWait' # {}, active' = 0, FatalCause',
                      ~\E s \in Slot : Withdrawn(s)'
               PROVE  FALSE
    BY DEF CauseAhead, IsActive, Withdrawn
  <2>1. active = 0 /\ FatalCause /\ sendWait \cup leaseWait # {}
    OBVIOUS
  <2>2. \E s \in Slot : Withdrawn(s)
    BY <2>1 DEF BlockedInv, CauseAhead, IsActive, Withdrawn
  <2> QED
    BY <2>2
<1> QED
  BY <1>1, <1>2, <1>3 DEF BlockedInv

(* A step that tells everybody leaves nobody asleep.                       *)
LEMMA BlockedTold ==
    ASSUME sendWait' = {}, leaseWait' = {} PROVE BlockedInv'
BY DEF BlockedInv, SendHeld, LeaseHeld, CauseAhead

(* Where the scheduler, the arena and the output do not move, the fibers   *)
(* that stay registered stay blocked.                                      *)
Still == UNCHANGED <<phase, idle, defer, active, queue, replies, fatal, arena, egress, terminal>>

LEMMA StillFacts ==
    ASSUME Still
    PROVE  /\ Offers' <=> Offers
           /\ \A s \in Slot : Leasable(s)' <=> Leasable(s)
           /\ FatalCause' <=> FatalCause
           /\ \A s \in Slot : Withdrawn(s)' <=> Withdrawn(s)
           /\ IsActive' <=> IsActive
BY DEF Still, Offers, ReplyRoom, Queueable, InQueue, Leasable, Quiet, FatalCause, Withdrawn, IsActive

LEMMA BlockedStill ==
    ASSUME BlockedInv, Still, sendWait' \subseteq sendWait, leaseWait' \subseteq leaseWait
    PROVE  BlockedInv'
<1>1. active' = active /\ egress' = egress
  BY DEF Still
<1> QED
  BY <1>1, StillFacts, BlockedKept

(* A fiber registers because it cannot run.                                *)
LEMMA BlockedRegisters ==
    ASSUME BlockedInv, Still, NEW f,
           \/ sendWait' = sendWait \cup {f} /\ leaseWait' = leaseWait
           \/ /\ leaseWait' = leaseWait \cup {f} /\ sendWait' = sendWait
              /\ \A s \in Slot : ~Leasable(s),
           f \in Commands /\ Target[f] = Pool => ~Offers,
           IsActive \/ ~FatalCause
    PROVE  BlockedInv'
<1>1. SendHeld'
  <2>1. CASE sendWait' = sendWait
    BY <2>1, StillFacts DEF SendHeld, BlockedInv, Still
  <2>2. CASE sendWait' = sendWait \cup {f}
    <3>1. ASSUME NEW c \in sendWait' \cap Commands, Target[c] = Pool PROVE ~Offers \/ egress # {}
      BY <2>2, <3>1 DEF BlockedInv, SendHeld
    <3>2. egress' = egress
      BY DEF Still
    <3> QED
      BY <3>1, <3>2, StillFacts DEF SendHeld
  <2> QED
    BY <2>1, <2>2
<1>2. (~Rogue => LeaseHeld)'
  BY StillFacts DEF BlockedInv, LeaseHeld
<1>3. CauseAhead'
  BY StillFacts DEF CauseAhead
<1> QED
  BY <1>1, <1>2, <1>3 DEF BlockedInv


(* Room for a pooled command is what it would be offered.                  *)
LEMMA RoomOffers == FiberInv => (PoolRoom <=> Offers)
BY RoomRegisters DEF PoolRoom, Offers

LEMMA BlockedAdmitted ==
    ASSUME RoutesInv, FiberInv, BlockedInv, NEW c \in Commands, PollAdmission(c), Admitted(c)
    PROVE  BlockedInv'
<1>0. ClientTypeOK /\ TypeOK /\ IdleSound
  BY DEF FiberInv, RoutesInv, LeaseInv, FifoInv
<1>1. sendWait' \subseteq sendWait /\ leaseWait' \subseteq leaseWait
  BY <1>0, NotifyWoke DEF Admitted, Woke
<1>2. UNCHANGED <<egress, terminal>> /\ ReplyRoom
  BY DEF PollAdmission, Admitted
<1>3. /\ Queueable /\ UNCHANGED <<phase, defer, active, fatal>>
      /\ \A t \in Slot : idle'[t] > 0 => idle[t] > 0
      /\ \E s \in Slot : queue' = [queue EXCEPT ![s] = Append(@, c)]
      /\ \E s \in Slot : replies' = [replies EXCEPT ![s] = Append(@, c)]
  <2>1. CASE Target[c] = Pool
    <3>1. TryPool(c)
      BY <2>1 DEF Admitted
    <3>2. PICK s \in Slot : Publish(c, s, Pool) /\ UnlinkIdle(s)
      BY <3>1 DEF TryPool
    <3>3. \A t \in Slot : idle'[t] > 0 => idle[t] > 0
      BY <1>0, <3>2, UnlinkIdleLinks
    <3> QED
      BY <3>1, <3>2, <3>3 DEF TryPool, Publish
  <2>2. CASE Target[c] # Pool
    <3>1. DispatchLease(c, Target[c])
      BY <2>2 DEF Admitted
    <3>2. PICK s \in Slot : holds[Target[c]] = Id(s)
      BY <3>1 DEF DispatchLease, Leased
    <3>3. holds[Target[c]].slot = s
      BY <3>2 DEF Id
    <3> QED
      BY <3>1, <3>3 DEF DispatchLease, Publish, fifos
  <2> QED
    BY <2>1, <2>2
<1>4. Offers' => Offers
  BY <1>2, <1>3 DEF Offers
<1>5. \A t \in Slot : Quiet(t)' => Quiet(t)
  <2>1. PICK s \in Slot : queue' = [queue EXCEPT ![s] = Append(@, c)]
    BY <1>3
  <2>2. PICK r \in Slot : replies' = [replies EXCEPT ![r] = Append(@, c)]
    BY <1>3
  <2>3. Append(queue[s], c) # <<>> /\ Append(replies[r], c) # <<>>
    BY <1>0, AppendNotEmpty DEF TypeOK
  <2>4. \A t \in Slot : queue'[t] = <<>> => queue[t] = <<>>
    BY <1>0, <2>1, <2>3 DEF TypeOK
  <2>5. \A t \in Slot : replies'[t] = <<>> => replies[t] = <<>>
    BY <1>0, <2>2, <2>3 DEF TypeOK
  <2> QED
    BY <2>4, <2>5 DEF Quiet
<1>6. \A t \in Slot : Leasable(t)' => Leasable(t)
  BY <1>3, <1>5 DEF Leasable
<1>7. (FatalCause' => FatalCause) /\ \A t \in Slot : Withdrawn(t) => Withdrawn(t)'
  BY <1>2, <1>3 DEF FatalCause, Withdrawn
<1> QED
  BY <1>1, <1>2, <1>3, <1>4, <1>6, <1>7, BlockedKept

LEMMA BlockedPollsCommand ==
    ASSUME RoutesInv, FiberInv, BlockedInv, NEW c \in Commands, CommandPoll(c)
    PROVE  BlockedInv'
<1>0. ClientTypeOK
  BY DEF FiberInv
<1>n. ASSUME NEW send, NEW lease, Notify(send, lease, {}, {c})
      PROVE  sendWait' \subseteq sendWait /\ leaseWait' \subseteq leaseWait
  BY <1>0, <1>n, NotifyWoke DEF Woke
<1>1. CASE PollAdmission(c)
  <2>0. UNCHANGED <<egress, terminal>>
    BY <1>1 DEF PollAdmission
  <2>s. UNCHANGED <<routes, arena>> => Still
    BY <2>0 DEF Still, routes, fifos, lanes
  <2>1. CASE Admitted(c)
    BY <1>1, <2>1, BlockedAdmitted
  <2>2. CASE Notify(TRUE, FALSE, {}, {c}) /\ UNCHANGED <<routes, arena>>
    BY <1>n, <2>2, <2>s, BlockedStill
  <2>3. CASE AdmissionBlocked(c) /\ Registers(c)
    <3>1. Still /\ sendWait' = sendWait \cup {c} /\ leaseWait' = leaseWait
      BY <2>3, <2>s DEF AdmissionBlocked, Registers
    <3>2. CASE Target[c] = Pool
      <4>1. ~PoolRoom /\ (IsActive \/ ~FatalCause)
        BY <2>3, <3>2 DEF AdmissionBlocked, Refused
      <4>2. ~Offers
        BY <4>1, RoomOffers
      <4> QED
        BY <3>1, <4>1, <4>2, BlockedRegisters
    <3>3. CASE Target[c] # Pool
      <4>1. PICK s \in Slot : phase[s] = "Exclusive"
        BY <2>3, <3>3 DEF AdmissionBlocked, Leased
      <4>2. IsActive
        BY <4>1, ServingActive DEF Live
      <4> QED
        BY <3>1, <3>3, <4>2, BlockedRegisters
    <3> QED
      BY <3>2, <3>3
  <2> QED
    BY <1>1, <2>1, <2>2, <2>3 DEF PollAdmission, AdmissionExpired, AdmissionFailed, AdmissionBlocked
<1>2. CASE PollResponse(c)
  <2>0. UNCHANGED <<arena, egress, terminal>>
    BY <1>2 DEF PollResponse, entries
  <2>1. CASE UNCHANGED routes /\ Notify(FALSE, FALSE, {}, {c})
    <3>1. Still
      BY <2>0, <2>1 DEF Still, routes, fifos, lanes
    <3> QED
      BY <1>n, <2>1, <3>1, BlockedStill
  <2>2. CASE Notify(TRUE, TRUE, {}, {c})
    <3>1. sendWait' = {} /\ leaseWait' = {}
      BY <2>2 DEF Notify
    <3> QED
      BY <3>1, BlockedTold
  <2> QED
    BY <1>2, <2>1, <2>2 DEF PollResponse, ResponseExpired, ResponsePolled, GivesUpConnection
<1> QED
  BY <1>1, <1>2 DEF CommandPoll

LEMMA BlockedPollsLease ==
    ASSUME RoutesInv, FiberInv, BlockedInv, NEW l \in Leases, PollAcquire(l) \/ DropLease(l)
    PROVE  BlockedInv'
<1>0. ClientTypeOK /\ TypeOK
  BY DEF FiberInv, RoutesInv, LeaseInv, FifoInv
<1>n. ASSUME NEW also \in SUBSET Fibers, Notify(FALSE, FALSE, also, {l})
      PROVE  sendWait' \subseteq sendWait /\ leaseWait' \subseteq leaseWait
  BY <1>0, <1>n, NotifyWoke DEF Woke
<1>m. ASSUME Notify(FALSE, FALSE, {}, {l})
      PROVE  sendWait' \subseteq sendWait /\ leaseWait' \subseteq leaseWait
  BY <1>m DEF Notify
<1>1. CASE PollAcquire(l)
  <2>0. UNCHANGED <<arena, egress, terminal>>
    BY <1>1 DEF PollAcquire, entries
  <2>1. CASE UNCHANGED routes /\ Notify(FALSE, FALSE, {}, {l})
    <3>1. Still
      BY <2>0, <2>1 DEF Still, routes, fifos, lanes
    <3> QED
      BY <1>m, <2>1, <3>1, BlockedStill
  <2>2. CASE TryLease(l) /\ Notify(FALSE, FALSE, {c \in Commands : Target[c] = l}, {l})
    <3>1. sendWait' \subseteq sendWait /\ leaseWait' \subseteq leaseWait
      <4>1. {c \in Commands : Target[c] = l} \in SUBSET Fibers
        BY DEF Fibers
      <4> QED
        BY <1>n, <2>2, <4>1
    <3>2. PICK s \in Slot : Acquirable(s) /\ phase' = [phase EXCEPT ![s] = "Exclusive"]
      BY <2>2 DEF TryLease
    <3>3. ~Rogue => leaseWait' = {}
      BY <3>1, <3>2, LeasableIs DEF BlockedInv, LeaseHeld
    <3>4. UNCHANGED <<active, fatal, queue>>
      BY <2>2 DEF TryLease, lanes
    <3>5. /\ \A t \in Slot : phase'[t] = "Shared" => phase[t] = "Shared"
          /\ \A t \in Slot : Withdrawn(t) => Withdrawn(t)'
      BY <1>0, <3>2 DEF TypeOK, Withdrawn, Acquirable
    <3>6. (Offers' => Offers) /\ (FatalCause' => FatalCause)
      BY <2>0, <3>4, <3>5 DEF Offers, ReplyRoom, Queueable, InQueue, FatalCause
    <3> QED
      BY <2>0, <3>1, <3>3, <3>4, <3>5, <3>6, BlockedKept
  <2>3. CASE TryLeaseEmpty(l)
    <3>1. UNCHANGED <<phase, active, fatal, queue, replies>>
      BY <2>3 DEF TryLeaseEmpty, lanes
    <3>2. \A s \in Slot : ~Leasable(s)'
      <4>1. \A s \in Slot : idle'[s] = 0 /\ (defer'[s] > 0 => ~Quiet(s))
        BY <1>0, <2>3, RefreshLinks DEF TryLeaseEmpty
      <4> QED
        BY <3>1, <4>1 DEF Leasable, Quiet
    <3>3. /\ Offers' <=> Offers
          /\ FatalCause' <=> FatalCause
          /\ \A s \in Slot : Withdrawn(s)' <=> Withdrawn(s)
          /\ active' = active
          /\ egress' = egress
      BY <2>0, <3>1 DEF Offers, ReplyRoom, Queueable, InQueue, FatalCause, Withdrawn
    <3>4. CASE Notify(FALSE, FALSE, {}, {l})
      BY <1>m, <3>2, <3>3, <3>4, BlockedKept
    <3>5. CASE /\ ~(~IsActive /\ FatalCause) /\ leaseWait' = leaseWait \cup {l}
               /\ UNCHANGED sendWait
      <4>1. SendHeld'
        BY <3>3, <3>5 DEF BlockedInv, SendHeld
      <4>2. LeaseHeld'
        BY <3>2 DEF LeaseHeld
      <4>3. CauseAhead'
        BY <3>3, <3>5 DEF CauseAhead, IsActive
      <4> QED
        BY <4>1, <4>2, <4>3 DEF BlockedInv
    <3> QED
      BY <1>1, <2>3, <3>4, <3>5, <2>1, <2>2 DEF PollAcquire
  <2> QED
    BY <1>1, <2>1, <2>2, <2>3 DEF PollAcquire
<1>2. CASE DropLease(l) /\ Releases(l)
  <2>1. sendWait' = {} /\ leaseWait' = {}
    BY <1>2 DEF DropLease, ReleaseWakes, Notify
  <2> QED
    BY <2>1, BlockedTold
<1>3. CASE DropLease(l) /\ ~Releases(l)
  <2>1. Still
    BY <1>3 DEF DropLease, Release, Still, lanes, entries
  <2>2. sendWait' \subseteq sendWait /\ leaseWait' \subseteq leaseWait
    BY <1>3 DEF DropLease, ReleaseWakes, Notify
  <2> QED
    BY <2>1, <2>2, BlockedStill
<1> QED
  BY <1>1, <1>2, <1>3


LEMMA BlockedSlotStep ==
    ASSUME RoutesInv, FiberInv, BlockedInv, NEW s \in Slot,
           SlotStep(s) \/ Reply(s) \/ SessionFails(s) \/ DriverCloses(s)
    PROVE  BlockedInv'
<1>0. TypeOK /\ IdleSound /\ DeferSound /\ SuffixOrder
  BY DEF RoutesInv, LeaseInv, FifoInv, SuffixInv
<1>T. /\ phase \in [Slot -> Phases] /\ queue \in [Slot -> Seq(Commands)]
      /\ replies \in [Slot -> Seq(Commands)]
  BY <1>0 DEF TypeOK
<1>1. CASE Open(s)
  <2>1. /\ UNCHANGED <<idle, defer, active, queue, replies, fatal, arena, egress, terminal>>
        /\ UNCHANGED <<sendWait, leaseWait>>
        /\ phase[s] = "Vacant" /\ phase' = [phase EXCEPT ![s] = "Initializing"]
    BY <1>1 DEF Open, Activate, fifos, lanes, waits, entries
  <2>2. /\ \A t \in Slot : phase'[t] = "Shared" => phase[t] = "Shared"
        /\ \A t \in Slot : Withdrawn(t) => Withdrawn(t)'
    BY <1>T, <2>1 DEF Withdrawn
  <2>3. Offers' => Offers
    BY <2>1, <2>2 DEF Offers, ReplyRoom, Queueable, InQueue
  <2>4. /\ \A t \in Slot : Leasable(t)' => Leasable(t)
        /\ FatalCause' => FatalCause
    BY <2>1 DEF Leasable, Quiet, FatalCause
  <2> QED
    BY <2>1, <2>2, <2>3, <2>4, BlockedKept
<1>2. CASE Ready(s) \/ Disconnect(s) \/ SessionFails(s)
  <2>1. sendWait' = {} /\ leaseWait' = {}
    BY <1>2 DEF Ready, ReadyWakes, Disconnect, Retired, SessionFails, WakeAll, Notify
  <2> QED
    BY <2>1, BlockedTold
<1>3. CASE Send(s)
  <2>1. PICK k \in 1 .. Len(queue[s]) : Drain(s, k)
    BY <1>3 DEF Send
  <2>2. /\ UNCHANGED <<phase, idle, defer, active, replies, fatal, sendWait, leaseWait, terminal>>
        /\ egress' = egress \cup {s} /\ queue' = [queue EXCEPT ![s] = SubSeq(@, k + 1, Len(@))]
    BY <1>3, <2>1 DEF Send, Drain, fifos, waits
  <2>3. \A t \in Slot : ~Rogue /\ Leasable(t)' => Leasable(t)
    <3>1. ASSUME NEW t \in Slot, ~Rogue, defer[t] > 0, Quiet(t)' PROVE Quiet(t)
      <4>1. replies[t] = <<>> /\ phase[t] = "Shared"
        BY <1>0, <2>2, <3>1 DEF Quiet, DeferSound
      <4>2. queue[t] = <<>>
        BY <1>0, <3>1, <4>1, DrainedBusy DEF Live
      <4> QED
        BY <4>1, <4>2 DEF Quiet
    <3> QED
      BY <2>2, <3>1 DEF Leasable
  <2>4. (FatalCause' => FatalCause) /\ \A t \in Slot : Withdrawn(t) => Withdrawn(t)'
    BY <2>2 DEF FatalCause, Withdrawn
  <2> QED
    BY <2>2, <2>3, <2>4, BlockedKept
<1>4. CASE Sent(s)
  <2>1. /\ sendWait' = {} /\ leaseWait' \subseteq leaseWait
        /\ UNCHANGED <<phase, idle, defer, active, queue, replies, fatal, arena, terminal>>
    BY <1>4 DEF Sent, WakeSend, Notify, routes, fifos, lanes
  <2>2. /\ \A t \in Slot : Leasable(t)' => Leasable(t)
        /\ FatalCause' => FatalCause
        /\ \A t \in Slot : Withdrawn(t) => Withdrawn(t)'
    BY <2>1 DEF Leasable, Quiet, FatalCause, Withdrawn
  <2> QED
    BY <2>1, <2>2, BlockedKept
<1>5. CASE FailReplies(s)
  <2>1. PICK k \in 1 .. Len(replies[s]) :
            /\ ClearRecv(s, k)
            /\ Notify(FALSE, FALSE, Elements(SubSeq(replies[s], 1, k)), {})
            /\ UNCHANGED <<arena, egress, terminal>>
    BY <1>5 DEF FailReplies
  <2>2. /\ UNCHANGED <<phase, idle, defer, active, queue, fatal>>
        /\ Withdrawn(s) /\ sendWait' \subseteq sendWait /\ leaseWait' \subseteq leaseWait
        /\ replies' = [replies EXCEPT ![s] = SubSeq(@, k + 1, Len(@))]
    BY <2>1 DEF ClearRecv, Clears, Withdrawn, fifos, Notify
  <2>3. Offers' => Offers
    BY <2>1, <2>2 DEF Offers, ReplyRoom, Queueable, InQueue
  <2>4. \A t \in Slot : Leasable(t)' => Leasable(t)
    <3>1. defer[s] > 0 => phase[s] = "Shared"
      BY <1>0 DEF DeferSound
    <3>2. \A t \in Slot \ {s} : replies'[t] = replies[t]
      BY <1>T, <2>2
    <3> QED
      BY <2>2, <3>1, <3>2 DEF Leasable, Quiet, Withdrawn
  <2>5. Withdrawn(s)'
    BY <2>2 DEF Withdrawn
  <2> QED
    BY <2>1, <2>2, <2>3, <2>4, <2>5, BlockedKept
<1>6. CASE DropRequests(s)
  <2>1. PICK k \in 1 .. Len(queue[s]) : ClearSend(s, k)
    BY <1>6 DEF DropRequests
  <2>2. /\ UNCHANGED <<phase, idle, defer, active, replies, fatal, terminal>>
        /\ Withdrawn(s) /\ sendWait' = {} /\ leaseWait' \subseteq leaseWait
        /\ queue' = [queue EXCEPT ![s] = SubSeq(@, k + 1, Len(@))]
    BY <1>6, <2>1 DEF DropRequests, ClearSend, Clears, Withdrawn, fifos, WakeSend, Notify
  <2>3. \A t \in Slot : Leasable(t)' => Leasable(t)
    <3>1. defer[s] > 0 => phase[s] = "Shared"
      BY <1>0 DEF DeferSound
    <3>2. \A t \in Slot \ {s} : queue'[t] = queue[t]
      BY <1>T, <2>2
    <3> QED
      BY <2>2, <3>1, <3>2 DEF Leasable, Quiet, Withdrawn
  <2>4. Withdrawn(s)'
    BY <2>2 DEF Withdrawn
  <2> QED
    BY <2>2, <2>3, <2>4, BlockedKept
<1>7. CASE Reply(s)
  <2>1. /\ TryReply(s) /\ UNCHANGED terminal
        /\ Notify(TRUE, phase[s] = "Shared" /\ Answered(s), {Head(replies[s])}, {})
    BY <1>7 DEF Reply, ReplyWakes
  <2>2. sendWait' = {} /\ leaseWait' \subseteq leaseWait
        /\ (phase[s] = "Shared" /\ Answered(s) => leaseWait' = {})
    BY <2>1 DEF Notify
  <2>3. CASE phase[s] = "Shared" /\ Answered(s)
    BY <2>2, <2>3, BlockedTold
  <2>4. CASE ~(phase[s] = "Shared" /\ Answered(s))
    <3>1. /\ UNCHANGED <<phase, idle, defer, active, queue, fatal>>
          /\ replies' = [replies EXCEPT ![s] = Tail(@)]
      BY <2>1, <2>4 DEF TryReply
    <3>2. defer[s] > 0 => phase[s] = "Shared"
      BY <1>0 DEF DeferSound
    <3>3. defer[s] > 0 => ~Quiet(s)'
      BY <1>T, <2>4, <3>1, <3>2 DEF Answered, Quiet
    <3>4. \A t \in Slot \ {s} : replies'[t] = replies[t]
      BY <1>T, <3>1
    <3>5. \A t \in Slot : Leasable(t)' => Leasable(t)
      BY <3>1, <3>3, <3>4 DEF Leasable, Quiet
    <3>6. (FatalCause' => FatalCause) /\ \A t \in Slot : Withdrawn(t) => Withdrawn(t)'
      BY <2>1, <3>1 DEF FatalCause, Withdrawn
    <3> QED
      BY <2>2, <3>1, <3>5, <3>6, BlockedKept
  <2> QED
    BY <2>3, <2>4
<1>8. CASE DriverCloses(s)
  <2>1. /\ Withdraw(s) /\ phase' = [phase EXCEPT ![s] = "Closing"]
        /\ UNCHANGED <<queue, replies, arena, egress, sendWait, leaseWait>>
    BY <1>8 DEF DriverCloses, Quarantine, Close, lanes, waits, entries
  <2>2. /\ \A t \in Slot : idle'[t] > 0 => idle[t] > 0
        /\ \A t \in Slot : defer'[t] > 0 => defer[t] > 0
    BY <1>0, <2>1, UnlinkIdleLinks, UnlinkDeferredLinks DEF Withdraw
  <2>3. \A t \in Slot : Leasable(t)' => Leasable(t)
    BY <2>1, <2>2 DEF Leasable, Quiet
  <2>4. Withdrawn(s)' /\ \A t \in Slot : phase'[t] = "Shared" => phase[t] = "Shared"
    BY <1>T, <2>1 DEF Withdrawn
  <2>5. Offers' => Offers
    BY <2>1, <2>4 DEF Offers, ReplyRoom, Queueable, InQueue
  <2> QED
    BY <2>1, <2>3, <2>4, <2>5, BlockedKept
<1> QED
  BY <1>1, <1>2, <1>3, <1>4, <1>5, <1>6, <1>7, <1>8 DEF SlotStep

LEMMA BlockedStep == RoutesInv /\ FiberInv /\ BlockedInv /\ [ClientNext]_cvars => BlockedInv'
<1> SUFFICES ASSUME RoutesInv, FiberInv, BlockedInv, [ClientNext]_cvars PROVE BlockedInv'
  OBVIOUS
<1>1. ASSUME NEW c \in Commands, CommandPoll(c) PROVE BlockedInv'
  BY <1>1, BlockedPollsCommand
<1>2. ASSUME NEW c \in Commands, Drop(c) PROVE BlockedInv'
  <2>1. Still
    BY <1>2 DEF Drop, Still, routes, fifos, lanes, entries
  <2>2. sendWait' \subseteq sendWait /\ leaseWait' \subseteq leaseWait
    BY <1>2 DEF Drop, Notify
  <2> QED
    BY <2>1, <2>2, BlockedStill
<1>3. ASSUME NEW c \in Commands, Maintain(c) PROVE BlockedInv'
  <2>1. sendWait' = {} /\ leaseWait' = {}
    BY <1>3 DEF Maintain, MaintainWakes, WakeAll, Notify
  <2> QED
    BY <2>1, BlockedTold
<1>4. ASSUME NEW l \in Leases, PollAcquire(l) \/ DropLease(l) PROVE BlockedInv'
  BY <1>4, BlockedPollsLease
<1>5. ASSUME NEW w \in Watchers, PollWatch(w) PROVE BlockedInv'
  <2>1. Still
    BY <1>5 DEF PollWatch, Still, routes, fifos, lanes, entries
  <2>2. w \notin Commands
    BY FibersAssumption
  <2>3. CASE Notify(FALSE, FALSE, {}, {w})
    <3>1. sendWait' \subseteq sendWait /\ leaseWait' \subseteq leaseWait
      BY <2>3 DEF Notify
    <3> QED
      BY <2>1, <3>1, BlockedStill
  <2>4. CASE ~FatalCause /\ sendWait' = sendWait \cup {w} /\ leaseWait' = leaseWait
    BY <2>1, <2>2, <2>4, BlockedRegisters
  <2> QED
    BY <1>5, <2>3, <2>4 DEF PollWatch
<1>6. ASSUME NEW f \in Commands \cup Leases, Expire(f) PROVE BlockedInv'
  <2>1. Still
    BY <1>6 DEF Expire, Still, routes, fifos, lanes, entries
  <2>2. sendWait' \subseteq sendWait /\ leaseWait' \subseteq leaseWait
    BY <1>6 DEF Expire, Alarm, Notify
  <2> QED
    BY <2>1, <2>2, BlockedStill
<1>7. ASSUME NEW s \in Slot, SlotStep(s) \/ Reply(s) \/ SessionFails(s) \/ DriverCloses(s)
      PROVE BlockedInv'
  BY <1>7, BlockedSlotStep
<1>8. ASSUME Stop PROVE BlockedInv'
  <2>1. sendWait' = {} /\ leaseWait' = {}
    BY <1>8 DEF Stop, WakeAll, Notify
  <2> QED
    BY <2>1, BlockedTold
<1>9. ASSUME UNCHANGED cvars PROVE BlockedInv'
  <2>1. Still /\ UNCHANGED <<sendWait, leaseWait>>
    BY <1>9 DEF cvars, Still, routes, fifos, lanes, entries, waits
  <2> QED
    BY <2>1, BlockedStill
<1> QED
  BY <1>1, <1>2, <1>3, <1>4, <1>5, <1>6, <1>7, <1>8, <1>9 DEF ClientNext

(* No wake-up is lost, against a peer that answers only what it was sent:  *)
(* a fiber that is not going to be polled is registered where it will be   *)
(* found, and one that is registered could not run if it were polled,      *)
(* after any interleaving of commands, leases, faults, drops, deadlines    *)
(* and capacities reached.                                                 *)
THEOREM NoLostWakeupCorrect == ~Rogue => (ClientSpec => []NoLostWakeup)
<1>1. ClientInit => BlockedInv
  BY DEF ClientInit, BlockedInv, SendHeld, LeaseHeld, CauseAhead
<1>2. RoutesInv /\ FiberInv /\ BlockedInv /\ [ClientNext]_cvars => BlockedInv'
  BY BlockedStep
<1>3. ASSUME ~Rogue, RoutesInv, FiberInv, BlockedInv PROVE NoLostWakeup
  <2>1. SendBlocked
    BY <1>3, RoomOffers DEF BlockedInv, SendHeld, SendBlocked
  <2>2. LeaseBlocked
    BY <1>3, LeasableIs DEF BlockedInv, LeaseHeld, LeaseBlocked
  <2> QED
    BY <1>3, <2>1, <2>2 DEF NoLostWakeup, FiberInv, BlockedInv
<1>4. ClientSpec => []BlockedInv
  BY <1>1, <1>2, ClientInvariant, PTL DEF ClientSpec
<1>5. ASSUME ~Rogue PROVE ClientSpec => []NoLostWakeup
  <2>1. RoutesInv /\ FiberInv /\ BlockedInv => NoLostWakeup
    BY <1>3, <1>5
  <2> QED
    BY <1>4, <2>1, ClientInvariant, PTL
<1> QED
  BY <1>5
=============================================================================
