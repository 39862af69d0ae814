------------------------- MODULE RedisSessionProofs --------------------------
(***************************************************************************)
(* Proofs about what the connections of a Redis port share: the lanes and  *)
(* the nodes of the parser storage (RespStorage), for every number of      *)
(* connections, lanes and values, and the failures table (RedisFailures),  *)
(* for every number of slots.                                              *)
(***************************************************************************)
EXTENDS RespStorage, RedisFailures, FiniteSetTheorems, WellFoundedInduction, TLAPS

(* A nonempty set of natural numbers has a least one. *)
LEMMA LeastNat ==
    ASSUME NEW T, T \subseteq Nat, T # {}
    PROVE  \E x \in T : \A y \in T : x <= y
<1> DEFINE R == OpToRel(<, Nat)
<1>1. \A x, y \in Nat : <<y, x>> \in R <=> y < x
  BY DEF OpToRel
<1>2. IsWellFoundedOn(R, Nat)
  BY NatLessThanWellFounded
<1> HIDE DEF R
<1>3. PICK x \in T : \A y \in T : ~ (<<y, x>> \in R)
  BY <1>2, WFMin
<1>4. \A y \in T : y \in Nat /\ x \in Nat /\ ~ (y < x)
  BY <1>1, <1>3, Zenon
<1>5. \A y \in T : x <= y
  BY <1>4
<1> QED
  BY <1>5

-----------------------------------------------------------------------------
(* The inductive invariant.  A lane is owned by one connection at a time,  *)
(* as a builder, as a grantee or as the holder of a finished frame.        *)

GateType ==
    [active : Int, rank : [Conns -> Nat], granted : [Conns -> BOOLEAN]]

Own(g, ph, fin) ==
    {c \in Conns : ph[c] = "Held" \/ g.granted[c] \/ c \in fin}

(* Of a gate g, phases ph, the connections fin with a finished frame and   *)
(* the suspended ones pk: they fit together, n charges having no owner.    *)
Fit(g, ph, fin, pk, n) ==
    /\ g \in GateType
    /\ ph \in [Conns -> Phases]
    /\ pk \in [Conns -> BOOLEAN]
    /\ g.active = Cardinality(Own(g, ph, fin)) + n
    /\ g.active <= Lanes
    /\ \A c \in Conns :
          /\ g.granted[c] => ph[c] = "Waiting"
          /\ c \in fin => ph[c] = "Idle"
          /\ pk[c] => g.rank[c] # 0
          /\ g.rank[c] # 0 => /\ ph[c] = "Waiting"
                              /\ g.active = Lanes
                              /\ ~g.granted[c]
          /\ ph[c] = "Waiting" => g.rank[c] # 0 \/ g.granted[c]

TapeTypes ==
    /\ DOMAIN pending = Conns /\ DOMAIN building = Conns
    /\ \A c \in Conns : building[c].len \in Nat

IInv == TapeTypes /\ Fit(gate, phase, Finishers, parked, 0)

LEMMA OwnFinite ==
    ASSUME NEW g, NEW ph, NEW fin
    PROVE  /\ IsFiniteSet(Own(g, ph, fin))
           /\ Cardinality(Own(g, ph, fin)) \in Nat
<1>1. Own(g, ph, fin) \in SUBSET Conns
  BY DEF Own
<1>2. IsFiniteSet(Own(g, ph, fin))
  BY <1>1, StorageAssumption, FS_Subset
<1> QED
  BY <1>2, FS_CardinalityType

(* Leaving the queue takes out one connection and no other. *)
LEMMA UnqueueOne ==
    ASSUME NEW g \in GateType, NEW c \in Conns
    PROVE  /\ Unqueue(g, c) \in [Conns -> Nat]
           /\ \A d \in Conns : Unqueue(g, c)[d] # 0 <=> g.rank[d] # 0 /\ d # c
<1>1. g.rank \in [Conns -> Nat]
  BY DEF GateType
<1> QED
  BY <1>1 DEF Unqueue

(* Somebody is first in a queue that is not empty. *)
LEMMA FirstExists ==
    ASSUME NEW g \in GateType, Queued(g) # {}
    PROVE  \E c \in Conns : IsFirst(g, c)
<1> DEFINE T == {g.rank[c] : c \in Queued(g)}
<1>1. g.rank \in [Conns -> Nat]
  BY DEF GateType
<1>2. T \subseteq Nat /\ T # {}
  BY <1>1 DEF Queued
<1>3. PICK x \in T : \A y \in T : x <= y
  BY <1>2, LeastNat
<1>4. PICK c \in Queued(g) : g.rank[c] = x
  BY <1>3
<1> QED
  BY <1>1, <1>3, <1>4 DEF IsFirst, Queued

(* A returned charge reduces the counter, or makes a waiter its owner. *)
LEMMA ReturnedCharge ==
    ASSUME NEW g \in GateType
    PROVE  \/ /\ Queued(g) = {} /\ Woken(g) = {}
              /\ Returned(g) = Gate(g.active - 1, g.rank, g.granted)
           \/ \E f \in Queued(g) :
                 /\ f \in Woken(g)
                 /\ Returned(g) = Gate(g.active, Unqueue(g, f),
                     [g.granted EXCEPT ![f] = TRUE])
<1>1. CASE Queued(g) = {}
  BY <1>1 DEF Returned, Woken, IsFirst, Queued
<1>2. CASE Queued(g) # {}
  <2> DEFINE f == CHOOSE c \in Conns : IsFirst(g, c)
  <2>1. f \in Conns /\ IsFirst(g, f)
    BY <1>2, FirstExists
  <2>2. f \in Queued(g) /\ f \in Woken(g)
    BY <2>1 DEF IsFirst, Queued, Woken
  <2>3. Returned(g) = Gate(g.active, Unqueue(g, f),
                     [g.granted EXCEPT ![f] = TRUE])
    BY <1>2 DEF Returned
  <2> HIDE DEF f
  <2> QED
    BY <2>2, <2>3
<1> QED
  BY <1>1, <1>2

(* Dropping a Lane that has no owner restores the fit. *)
LEMMA ReturnFits ==
    ASSUME NEW g, NEW ph, NEW fin, NEW pk, Fit(g, ph, fin, pk, 1)
    PROVE  Fit(Returned(g), ph, fin, [c \in Conns |-> pk[c] /\ c \notin Woken(g)], 0)
<1> DEFINE up == [c \in Conns |-> pk[c] /\ c \notin Woken(g)]
<1>0. g \in GateType /\ ph \in [Conns -> Phases] /\ pk \in [Conns -> BOOLEAN]
  BY DEF Fit
<1>1. Cardinality(Own(g, ph, fin)) \in Nat /\ IsFiniteSet(Own(g, ph, fin))
  BY OwnFinite
<1>2. up \in [Conns -> BOOLEAN] /\ \A c \in Conns : up[c] => pk[c] /\ c \notin Woken(g)
  BY <1>0
<1> HIDE DEF up
<1>3. CASE Queued(g) = {} /\ Returned(g) = Gate(g.active - 1, g.rank, g.granted)
  <2>1. Own(Returned(g), ph, fin) = Own(g, ph, fin)
    BY <1>0, <1>3 DEF Own, GateType, Gate
  <2>2. \A c \in Conns : g.rank[c] = 0
    BY <1>3 DEF Queued
  <2>3. Returned(g) \in GateType /\ Returned(g).rank = g.rank
        /\ Returned(g).granted = g.granted /\ Returned(g).active = g.active - 1
    BY <1>0, <1>3 DEF GateType, Gate
  <2> QED
    BY <1>0, <1>1, <1>2, <2>1, <2>2, <2>3, StorageAssumption DEF Fit, up
<1>4. CASE \E f \in Queued(g) :
              /\ f \in Woken(g)
              /\ Returned(g) = Gate(g.active, Unqueue(g, f),
                     [g.granted EXCEPT ![f] = TRUE])
  <2>1. PICK f \in Queued(g) :
              /\ f \in Woken(g)
              /\ Returned(g) = Gate(g.active, Unqueue(g, f),
                     [g.granted EXCEPT ![f] = TRUE])
    BY <1>4
  <2>2. f \in Conns /\ g.rank[f] # 0
    BY DEF Queued
  <2>3. /\ Unqueue(g, f) \in [Conns -> Nat]
        /\ \A d \in Conns : Unqueue(g, f)[d] # 0 <=> g.rank[d] # 0 /\ d # f
    BY <1>0, <2>2, UnqueueOne
  <2>4. /\ Returned(g) \in GateType
        /\ Returned(g).rank = Unqueue(g, f)
        /\ Returned(g).active = g.active
        /\ Returned(g).granted = [g.granted EXCEPT ![f] = TRUE]
    <3>1. g = [active |-> g.active, rank |-> g.rank, granted |-> g.granted]
          /\ g.active \in Int /\ g.granted \in [Conns -> BOOLEAN]
      BY <1>0 DEF GateType
    <3>2. Returned(g) = [active |-> g.active, rank |-> Unqueue(g, f),
                         granted |-> [g.granted EXCEPT ![f] = TRUE]]
      BY <2>1, <3>1 DEF Gate
    <3>3. [g.granted EXCEPT ![f] = TRUE] \in [Conns -> BOOLEAN]
      BY <3>1
    <3> QED
      BY <2>3, <3>1, <3>2, <3>3 DEF GateType
  <2>5. g.granted \in [Conns -> BOOLEAN]
    BY <1>0 DEF GateType
  <2>6. ph[f] = "Waiting" /\ ~g.granted[f] /\ f \notin fin
    BY <2>2 DEF Fit
  <2>7. Own(Returned(g), ph, fin) = Own(g, ph, fin) \cup {f} /\ f \notin Own(g, ph, fin)
    BY <2>2, <2>4, <2>5, <2>6 DEF Own
  <2>8. Cardinality(Own(Returned(g), ph, fin)) = Cardinality(Own(g, ph, fin)) + 1
    BY <1>1, <2>7, FS_AddElement
  <2>9. Returned(g).active = Cardinality(Own(Returned(g), ph, fin)) + 0
        /\ Returned(g).active <= Lanes
    BY <1>1, <2>4, <2>8 DEF Fit
  <2>10. ASSUME NEW c \in Conns
         PROVE  /\ Returned(g).granted[c] => ph[c] = "Waiting"
                /\ c \in fin => ph[c] = "Idle"
                /\ up[c] => Returned(g).rank[c] # 0
                /\ Returned(g).rank[c] # 0 => /\ ph[c] = "Waiting"
                                              /\ Returned(g).active = Lanes
                                              /\ ~Returned(g).granted[c]
                /\ ph[c] = "Waiting" => Returned(g).rank[c] # 0 \/ Returned(g).granted[c]
    <3>1. Returned(g).granted[c] = (c = f \/ g.granted[c])
      BY <2>4, <2>5
    <3>2. Returned(g).rank[c] # 0 <=> g.rank[c] # 0 /\ c # f
      BY <2>3, <2>4
    <3>3. up[c] => pk[c] /\ c # f
      BY <1>2, <2>1
    <3>4. /\ g.granted[c] => ph[c] = "Waiting"
          /\ c \in fin => ph[c] = "Idle"
          /\ pk[c] => g.rank[c] # 0
          /\ g.rank[c] # 0 => /\ ph[c] = "Waiting"
                              /\ g.active = Lanes
                              /\ ~g.granted[c]
          /\ ph[c] = "Waiting" => g.rank[c] # 0 \/ g.granted[c]
      BY DEF Fit
    <3> QED
      BY <2>4, <2>6, <3>1, <3>2, <3>3, <3>4
  <2> QED
    BY <1>0, <1>2, <2>4, <2>9, <2>10 DEF Fit, up
<1> QED
  BY <1>0, <1>3, <1>4, ReturnedCharge

(* Suspending fewer connections keeps the fit. *)
LEMMA FitsAwake ==
    ASSUME NEW g, NEW ph, NEW fin, NEW pk, NEW up \in [Conns -> BOOLEAN], NEW n,
           Fit(g, ph, fin, pk, n), \A c \in Conns : up[c] => pk[c]
    PROVE  Fit(g, ph, fin, up, n)
BY DEF Fit

(* An owner that gives up its charge leaves it without one. *)
LEMMA OwnerLeaves ==
    ASSUME NEW g, NEW ph, NEW fin, NEW pk, Fit(g, ph, fin, pk, 0),
           NEW c \in Own(g, ph, fin)
    PROVE  /\ Fit(Gate(g.active, g.rank, [g.granted EXCEPT ![c] = FALSE]), [ph EXCEPT ![c] = "Idle"],
                  fin \ {c}, pk, 1)
           /\ g.rank[c] = 0 /\ ~pk[c]
<1> DEFINE h == Gate(g.active, g.rank, [g.granted EXCEPT ![c] = FALSE])
           qh == [ph EXCEPT ![c] = "Idle"]
<1>0. /\ g \in GateType /\ ph \in [Conns -> Phases] /\ pk \in [Conns -> BOOLEAN]
      /\ c \in Conns
  BY DEF Fit, Own
<1>1. h \in GateType /\ h.rank = g.rank /\ h.active = g.active
      /\ h.granted = [g.granted EXCEPT ![c] = FALSE]
  BY <1>0 DEF GateType, Gate
<1>2. g.granted \in [Conns -> BOOLEAN]
  BY <1>0 DEF GateType
<1>3. qh \in [Conns -> Phases] /\ qh[c] = "Idle" /\ \A d \in Conns : d # c => qh[d] = ph[d]
  BY <1>0 DEF Phases
<1>4. h.granted[c] = FALSE /\ \A d \in Conns : d # c => h.granted[d] = g.granted[d]
  BY <1>0, <1>1, <1>2
<1> HIDE DEF h, qh
<1>5. Own(h, qh, fin \ {c}) = Own(g, ph, fin) \ {c}
  <2>1. ASSUME NEW d \in Conns
        PROVE  d \in Own(h, qh, fin \ {c}) <=> d \in Own(g, ph, fin) /\ d # c
    BY <1>3, <1>4 DEF Own
  <2> QED
    BY <2>1 DEF Own
<1>6. Cardinality(Own(h, qh, fin \ {c})) = Cardinality(Own(g, ph, fin)) - 1
  BY <1>5, OwnFinite, FS_RemoveElement
<1>7. Cardinality(Own(g, ph, fin)) \in Nat
  BY OwnFinite
<1>8. h.active = Cardinality(Own(h, qh, fin \ {c})) + 1
  BY <1>1, <1>6, <1>7 DEF Fit
<1>9. ASSUME NEW d \in Conns
      PROVE  /\ g.granted[d] => ph[d] = "Waiting"
             /\ d \in fin => ph[d] = "Idle"
             /\ pk[d] => g.rank[d] # 0
             /\ g.rank[d] # 0 => /\ ph[d] = "Waiting"
                                 /\ g.active = Lanes
                                 /\ ~g.granted[d]
             /\ ph[d] = "Waiting" => g.rank[d] # 0 \/ g.granted[d]
  BY DEF Fit
<1>10. g.rank[c] = 0 /\ ~pk[c]
  BY <1>0, <1>9 DEF Own
<1>11. ASSUME NEW d \in Conns
       PROVE  /\ h.granted[d] => qh[d] = "Waiting"
              /\ d \in fin \ {c} => qh[d] = "Idle"
              /\ pk[d] => h.rank[d] # 0
              /\ h.rank[d] # 0 => /\ qh[d] = "Waiting"
                                  /\ h.active = Lanes
                                  /\ ~h.granted[d]
              /\ qh[d] = "Waiting" => h.rank[d] # 0 \/ h.granted[d]
  BY <1>1, <1>3, <1>4, <1>9, <1>10
<1>12. h.active <= Lanes
  BY <1>1 DEF Fit
<1>13. Fit(h, qh, fin \ {c}, pk, 1)
  BY <1>0, <1>1, <1>3, <1>8, <1>11, <1>12 DEF Fit
<1> QED
  BY <1>10, <1>13 DEF h, qh

(* A finished frame takes over the charge of its builder. *)
LEMMA FrameFits ==
    ASSUME NEW g, NEW ph, NEW fin, NEW pk, Fit(g, ph, fin, pk, 0),
           NEW c \in Conns, ph[c] = "Held"
    PROVE  Fit(g, [ph EXCEPT ![c] = "Idle"], fin \cup {c}, pk, 0)
<1> DEFINE qh == [ph EXCEPT ![c] = "Idle"]
<1>0. /\ g \in GateType /\ ph \in [Conns -> Phases] /\ pk \in [Conns -> BOOLEAN]
  BY DEF Fit
<1>1. qh \in [Conns -> Phases] /\ qh[c] = "Idle" /\ \A d \in Conns : d # c => qh[d] = ph[d]
  BY <1>0 DEF Phases
<1> HIDE DEF qh
<1>2. Own(g, qh, fin \cup {c}) = Own(g, ph, fin)
  BY <1>1 DEF Own
<1>3. ASSUME NEW d \in Conns
      PROVE  /\ g.granted[d] => qh[d] = "Waiting"
             /\ d \in fin \cup {c} => qh[d] = "Idle"
             /\ pk[d] => g.rank[d] # 0
             /\ g.rank[d] # 0 => /\ qh[d] = "Waiting"
                                 /\ g.active = Lanes
                                 /\ ~g.granted[d]
             /\ qh[d] = "Waiting" => g.rank[d] # 0 \/ g.granted[d]
  BY <1>1 DEF Fit
<1>4. Fit(g, qh, fin \cup {c}, pk, 0)
  BY <1>0, <1>1, <1>2, <1>3 DEF Fit
<1> QED
  BY <1>4 DEF qh

(* A connection without a charge leaves the queue. *)
LEMMA WaiterLeaves ==
    ASSUME NEW g, NEW ph, NEW fin, NEW pk, NEW up \in [Conns -> BOOLEAN],
           Fit(g, ph, fin, pk, 0),
           NEW c \in Conns, c \notin Own(g, ph, fin),
           ~up[c], \A d \in Conns : up[d] => pk[d]
    PROVE  Fit(Gate(g.active, Unqueue(g, c), [g.granted EXCEPT ![c] = FALSE]),
               [ph EXCEPT ![c] = "Idle"], fin, up, 0)
<1> DEFINE h == Gate(g.active, Unqueue(g, c), [g.granted EXCEPT ![c] = FALSE])
           qh == [ph EXCEPT ![c] = "Idle"]
<1>0. /\ g \in GateType /\ ph \in [Conns -> Phases] /\ pk \in [Conns -> BOOLEAN]
  BY DEF Fit
<1>1. /\ Unqueue(g, c) \in [Conns -> Nat]
      /\ \A d \in Conns : Unqueue(g, c)[d] # 0 <=> g.rank[d] # 0 /\ d # c
  BY <1>0, UnqueueOne
<1>2. ~g.granted[c] /\ ph[c] # "Held" /\ c \notin fin
  BY DEF Own
<1>3. /\ h \in GateType /\ h.rank = Unqueue(g, c) /\ h.active = g.active
      /\ \A d \in Conns : h.granted[d] = g.granted[d]
  <2>1. g = [active |-> g.active, rank |-> g.rank, granted |-> g.granted]
        /\ g.active \in Int /\ g.granted \in [Conns -> BOOLEAN]
    BY <1>0 DEF GateType
  <2>2. h = [active |-> g.active, rank |-> Unqueue(g, c),
             granted |-> [g.granted EXCEPT ![c] = FALSE]]
    BY <1>0 DEF Gate
  <2>3. /\ [g.granted EXCEPT ![c] = FALSE] \in [Conns -> BOOLEAN]
        /\ \A d \in Conns : [g.granted EXCEPT ![c] = FALSE][d] = g.granted[d]
    BY <1>2, <2>1
  <2> QED
    BY <1>1, <2>1, <2>2, <2>3 DEF GateType, Gate
<1>4. qh \in [Conns -> Phases] /\ qh[c] = "Idle" /\ \A d \in Conns : d # c => qh[d] = ph[d]
  BY <1>0 DEF Phases
<1> HIDE DEF h, qh
<1>5. Own(h, qh, fin) = Own(g, ph, fin)
  BY <1>2, <1>3, <1>4 DEF Own
<1>6. ASSUME NEW d \in Conns
      PROVE  /\ h.granted[d] => qh[d] = "Waiting"
             /\ d \in fin => qh[d] = "Idle"
             /\ up[d] => h.rank[d] # 0
             /\ h.rank[d] # 0 => /\ qh[d] = "Waiting"
                                 /\ h.active = Lanes
                                 /\ ~h.granted[d]
             /\ qh[d] = "Waiting" => h.rank[d] # 0 \/ h.granted[d]
  <2>1. /\ g.granted[d] => ph[d] = "Waiting"
        /\ d \in fin => ph[d] = "Idle"
        /\ pk[d] => g.rank[d] # 0
        /\ g.rank[d] # 0 => /\ ph[d] = "Waiting"
                            /\ g.active = Lanes
                            /\ ~g.granted[d]
        /\ ph[d] = "Waiting" => g.rank[d] # 0 \/ g.granted[d]
    BY DEF Fit
  <2> QED
    BY <1>1, <1>2, <1>3, <1>4, <2>1
<1>7. Fit(h, qh, fin, up, 0)
  BY <1>0, <1>3, <1>4, <1>5, <1>6 DEF Fit
<1> QED
  BY <1>7 DEF h, qh

(* Access::acquire makes the connection the owner of one charge. *)
LEMMA AcquireFits ==
    ASSUME IInv, NEW c \in Conns, Parses(c), CanAcquire(c)
    PROVE  Fit(Acquired(c), [phase EXCEPT ![c] = "Held"], Finishers, parked, 0)
<1> DEFINE qh == [phase EXCEPT ![c] = "Held"]
<1>0. /\ gate \in GateType /\ phase \in [Conns -> Phases]
      /\ parked \in [Conns -> BOOLEAN] /\ Fit(gate, phase, Finishers, parked, 0)
  BY DEF Fit, IInv
<1>1. qh \in [Conns -> Phases] /\ qh[c] = "Held" /\ \A d \in Conns : d # c => qh[d] = phase[d]
  BY <1>0 DEF Phases
<1>2. c \notin Finishers
  BY DEF Parses, Finishers
<1>3. gate = [active |-> gate.active, rank |-> gate.rank, granted |-> gate.granted]
      /\ gate.active \in Int /\ gate.granted \in [Conns -> BOOLEAN]
      /\ gate.rank \in [Conns -> Nat]
  BY <1>0 DEF GateType
<1>4. ASSUME NEW d \in Conns
      PROVE  /\ gate.granted[d] => phase[d] = "Waiting"
             /\ d \in Finishers => phase[d] = "Idle"
             /\ parked[d] => gate.rank[d] # 0
             /\ gate.rank[d] # 0 => /\ phase[d] = "Waiting"
                                    /\ gate.active = Lanes
                                    /\ ~gate.granted[d]
             /\ phase[d] = "Waiting" => gate.rank[d] # 0 \/ gate.granted[d]
  BY <1>0 DEF Fit
<1> HIDE DEF qh
<1>5. CASE phase[c] = "Held"
  <2>1. qh = phase
    BY <1>0, <1>5 DEF qh
  <2> QED
    BY <1>0, <1>5, <2>1 DEF Acquired, qh
<1>6. CASE phase[c] # "Held" /\ gate.granted[c]
  <2> DEFINE h == Gate(gate.active, gate.rank, [gate.granted EXCEPT ![c] = FALSE])
  <2>1. h = [active |-> gate.active, rank |-> gate.rank,
             granted |-> [gate.granted EXCEPT ![c] = FALSE]]
    BY <1>0 DEF Gate
  <2>2. /\ h \in GateType /\ h.rank = gate.rank /\ h.active = gate.active
        /\ ~h.granted[c] /\ \A d \in Conns : d # c => h.granted[d] = gate.granted[d]
    BY <1>3, <2>1 DEF GateType, Gate
  <2> HIDE DEF h
  <2>3. Own(h, qh, Finishers) = Own(gate, phase, Finishers)
    BY <1>1, <1>6, <2>2 DEF Own
  <2>4. Fit(h, qh, Finishers, parked, 0)
    BY <1>0, <1>1, <1>2, <1>4, <1>6, <2>2, <2>3 DEF Fit
  <2>5. Acquired(c) = h
    BY <1>6 DEF Acquired, h
  <2> QED
    BY <2>4, <2>5 DEF qh
<1>7. CASE phase[c] # "Held" /\ ~gate.granted[c]
  <2>1. gate.active < Lanes
    BY <1>7 DEF CanAcquire
  <2>2. \A d \in Conns : gate.rank[d] = 0
    BY <1>4, <2>1, StorageAssumption
  <2>3. Unqueue(gate, c) = gate.rank
    BY <1>3, <2>2 DEF Unqueue
  <2> DEFINE h == Gate(gate.active + 1, gate.rank, gate.granted)
  <2>4. h = [active |-> gate.active + 1, rank |-> gate.rank, granted |-> gate.granted]
    BY <1>0 DEF Gate
  <2>5. /\ h \in GateType /\ h.rank = gate.rank /\ h.active = gate.active + 1
        /\ h.granted = gate.granted
    BY <1>3, <2>4 DEF GateType
  <2> HIDE DEF h
  <2>6. Own(h, qh, Finishers) = Own(gate, phase, Finishers) \cup {c}
        /\ c \notin Own(gate, phase, Finishers)
    BY <1>1, <1>2, <1>7, <2>5 DEF Own
  <2>7. Cardinality(Own(h, qh, Finishers)) = Cardinality(Own(gate, phase, Finishers)) + 1
    BY <2>6, OwnFinite, FS_AddElement
  <2>8. Cardinality(Own(gate, phase, Finishers)) \in Nat
    BY OwnFinite
  <2>9. h.active = Cardinality(Own(h, qh, Finishers)) + 0 /\ h.active <= Lanes
    BY <1>0, <1>3, <2>1, <2>5, <2>7, <2>8, StorageAssumption DEF Fit
  <2>10. ASSUME NEW d \in Conns
         PROVE  /\ h.granted[d] => qh[d] = "Waiting"
                /\ d \in Finishers => qh[d] = "Idle"
                /\ parked[d] => h.rank[d] # 0
                /\ h.rank[d] # 0 => /\ qh[d] = "Waiting"
                                    /\ h.active = Lanes
                                    /\ ~h.granted[d]
                /\ qh[d] = "Waiting" => h.rank[d] # 0 \/ h.granted[d]
    BY <1>1, <1>2, <1>4, <1>7, <2>2, <2>5
  <2>11. Fit(h, qh, Finishers, parked, 0)
    BY <1>0, <1>1, <2>5, <2>9, <2>10 DEF Fit
  <2>12. Acquired(c) = h
    BY <1>7, <2>3 DEF Acquired, h
  <2> QED
    BY <2>11, <2>12 DEF qh
<1> QED
  BY <1>5, <1>6, <1>7

LEMMA UnqueueNone ==
    ASSUME NEW g \in GateType, NEW c \in Conns, g.rank[c] = 0
    PROVE  Unqueue(g, c) = g.rank
BY DEF Unqueue, GateType

(* A connection that gives up its charge, as builder or with its frame. *)
LEMMA ChargeReturned ==
    ASSUME NEW g, NEW ph, NEW fin, NEW pk, Fit(g, ph, fin, pk, 0),
           NEW c \in Own(g, ph, fin)
    PROVE  Fit(Returned(Gate(g.active, Unqueue(g, c), [g.granted EXCEPT ![c] = FALSE])),
               [ph EXCEPT ![c] = "Idle"], fin \ {c},
               [d \in Conns |-> pk[d] /\ d \notin Woken(g)], 0)
<1> DEFINE h == Gate(g.active, g.rank, [g.granted EXCEPT ![c] = FALSE])
<1>1. Fit(h, [ph EXCEPT ![c] = "Idle"], fin \ {c}, pk, 1) /\ g.rank[c] = 0
  BY OwnerLeaves
<1>2. Unqueue(g, c) = g.rank
  BY <1>1, UnqueueNone DEF Own, Fit
<1>3. Woken(h) = Woken(g)
  BY DEF Woken, IsFirst, Queued, Gate
<1>4. Fit(Returned(h), [ph EXCEPT ![c] = "Idle"], fin \ {c},
          [d \in Conns |-> pk[d] /\ d \notin Woken(h)], 0)
  BY <1>1, ReturnFits
<1> QED
  BY <1>2, <1>3, <1>4

LEMMA FrameReturned ==
    ASSUME NEW g, NEW ph, NEW fin, NEW pk, Fit(g, ph, fin, pk, 0),
           NEW c \in Own(g, ph, fin), ~g.granted[c]
    PROVE  Fit(Returned(g), [ph EXCEPT ![c] = "Idle"], fin \ {c},
               [d \in Conns |-> pk[d] /\ d \notin Woken(g)], 0)
<1> DEFINE h == Gate(g.active, Unqueue(g, c), [g.granted EXCEPT ![c] = FALSE])
<1>0. c \in Conns /\ g \in GateType
  BY DEF Own, Fit
<1>1. g.rank[c] = 0
  BY OwnerLeaves
<1>2. Unqueue(g, c) = g.rank
  BY <1>0, <1>1, UnqueueNone
<1>3. g.granted \in [Conns -> BOOLEAN] /\ g = Gate(g.active, g.rank, g.granted)
  BY <1>0 DEF GateType, Gate
<1>4. [g.granted EXCEPT ![c] = FALSE] = g.granted
  BY <1>0, <1>3
<1>5. h = g
  BY <1>2, <1>3, <1>4
<1> QED
  BY <1>5, ChargeReturned

(* The delivery of a finished frame. *)
LEMMA DeliverFits ==
    ASSUME TapeTypes, NEW g, NEW ph, NEW c \in Conns,
           Fit(g, ph, Finishers, parked, 0),
           c \in Own(g, ph, Finishers), ~g.granted[c],
           NEW tape, NEW p, NEW o, tape # Empty,
           o = "keep" => ph[c] = "Held",
           Deliver(c, tape, p, g, o), phase' = [ph EXCEPT ![c] = "Idle"]
    PROVE  Fit(gate', phase', Finishers', parked', 0) /\ DOMAIN pending' = Conns
<1>1. DOMAIN pending' = Conns /\ parked \in [Conns -> BOOLEAN]
  BY DEF Deliver, TapeTypes, Fit
<1>2. CASE o = "keep"
  <2>1. Finishers' = Finishers \cup {c}
    BY <1>2 DEF Deliver, Finishers, TapeTypes
  <2>2. parked' = parked
    BY <1>1, <1>2 DEF Deliver, Unpark
  <2>3. gate' = g
    BY <1>2 DEF Deliver
  <2> QED
    BY <1>1, <1>2, <2>1, <2>2, <2>3, FrameFits
<1>3. CASE o # "keep"
  <2>1. Finishers' = Finishers \ {c}
    BY <1>3 DEF Deliver, Finishers, TapeTypes
  <2>2. parked' = [d \in Conns |-> parked[d] /\ d \notin Woken(g)]
    BY <1>3 DEF Deliver, Unpark
  <2>3. gate' = Returned(g)
    BY <1>3 DEF Deliver
  <2> QED
    BY <1>1, <2>1, <2>2, <2>3, FrameReturned
<1> QED
  BY <1>2, <1>3

-----------------------------------------------------------------------------
(* The actions. *)

LEMMA InitIInv == Init => IInv
<1> SUFFICES ASSUME Init PROVE IInv
  OBVIOUS
<1>1. gate = Gate(0, [c \in Conns |-> 0], [c \in Conns |-> FALSE])
  BY DEF Init, NewGate
<1>2. gate \in GateType /\ gate.active = 0 /\ \A c \in Conns : gate.rank[c] = 0 /\ ~gate.granted[c]
  BY <1>1 DEF GateType, Gate
<1>3. Finishers = {}
  BY DEF Init, Finishers
<1>4. Own(gate, phase, Finishers) = {}
  BY <1>2, <1>3 DEF Own, Init
<1>5. Cardinality(Own(gate, phase, Finishers)) = 0
  BY <1>4, FS_EmptySet
<1>6. TapeTypes
  <2>1. \A c \in Conns : building[c] = Empty
    BY DEF Init
  <2>2. Empty.len \in Nat
    BY DEF Empty
  <2> QED
    BY <2>1, <2>2 DEF Init, TapeTypes
<1> QED
  BY <1>2, <1>3, <1>5, <1>6, StorageAssumption DEF IInv, Fit, Init, Phases

LEMMA BlockedFits ==
    ASSUME IInv, NEW c \in Conns, Blocked(c)
    PROVE  IInv'
<1>0. /\ gate \in GateType /\ phase \in [Conns -> Phases]
      /\ parked \in [Conns -> BOOLEAN] /\ Fit(gate, phase, Finishers, parked, 0)
  BY DEF Fit, IInv
<1>1. Finishers' = Finishers /\ TapeTypes'
  BY DEF Finishers, Blocked, IInv, TapeTypes
<1>2. c \notin Finishers /\ phase[c] # "Held" /\ gate.active >= Lanes
      /\ ~ (phase[c] = "Waiting" /\ gate.granted[c])
  BY <1>0, StorageAssumption DEF Blocked, Parses, Finishers, CanAcquire, GateType
<1>3. ASSUME NEW d \in Conns
      PROVE  /\ gate.granted[d] => phase[d] = "Waiting"
             /\ d \in Finishers => phase[d] = "Idle"
             /\ parked[d] => gate.rank[d] # 0
             /\ gate.rank[d] # 0 => /\ phase[d] = "Waiting"
                                    /\ gate.active = Lanes
                                    /\ ~gate.granted[d]
             /\ phase[d] = "Waiting" => gate.rank[d] # 0 \/ gate.granted[d]
  BY <1>0 DEF Fit
<1>4. gate.active = Lanes /\ ~gate.granted[c]
  BY <1>0, <1>2, <1>3, StorageAssumption DEF Fit, GateType
<1>5. /\ phase' \in [Conns -> Phases] /\ phase'[c] = "Waiting"
      /\ \A d \in Conns : d # c => phase'[d] = phase[d]
  BY <1>0 DEF Blocked, Phases
<1>6. /\ parked' \in [Conns -> BOOLEAN]
      /\ \A d \in Conns : d # c => parked'[d] = parked[d]
  BY <1>0 DEF Blocked
<1>7. /\ gate' \in GateType /\ gate'.active = gate.active
      /\ gate'.granted = gate.granted /\ gate'.rank[c] # 0
      /\ \A d \in Conns : d # c => gate'.rank[d] = gate.rank[d]
  <2>1. CASE phase[c] = "Idle"
    <3>1. gate' = Gate(gate.active, [gate.rank EXCEPT ![c] = Behind(gate)], gate.granted)
      BY <2>1 DEF Blocked
    <3>2. Queued(gate) \in SUBSET Conns
      BY DEF Queued
    <3>3. IsFiniteSet(Queued(gate))
      BY <3>2, StorageAssumption, FS_Subset
    <3>4. Behind(gate) \in Nat /\ Behind(gate) # 0
      BY <3>3, FS_CardinalityType DEF Behind
    <3> QED
      BY <1>0, <3>1, <3>4 DEF GateType, Gate
  <2>2. CASE phase[c] # "Idle"
    <3>1. phase[c] = "Waiting"
      BY <1>0, <1>2, <2>2 DEF Phases
    <3> QED
      BY <1>0, <1>3, <1>4, <2>2, <3>1 DEF Blocked
  <2> QED
    BY <2>1, <2>2
<1>8. Own(gate', phase', Finishers') = Own(gate, phase, Finishers)
  BY <1>1, <1>2, <1>4, <1>5, <1>7 DEF Own
<1>9. ASSUME NEW d \in Conns
      PROVE  /\ gate'.granted[d] => phase'[d] = "Waiting"
             /\ d \in Finishers => phase'[d] = "Idle"
             /\ parked'[d] => gate'.rank[d] # 0
             /\ gate'.rank[d] # 0 => /\ phase'[d] = "Waiting"
                                     /\ gate'.active = Lanes
                                     /\ ~gate'.granted[d]
             /\ phase'[d] = "Waiting" => gate'.rank[d] # 0 \/ gate'.granted[d]
  BY <1>2, <1>3, <1>4, <1>5, <1>6, <1>7
<1>10. Fit(gate', phase', Finishers', parked', 0)
  BY <1>0, <1>1, <1>5, <1>6, <1>7, <1>8, <1>9 DEF Fit
<1> QED
  BY <1>1, <1>10 DEF IInv

LEMMA PollFits ==
    ASSUME IInv, NEW c \in Conns, Poll(c)
    PROVE  IInv'
<1>1. parked' \in [Conns -> BOOLEAN] /\ \A d \in Conns : parked'[d] => parked[d]
  BY DEF Poll, IInv, Fit
<1>2. Fit(gate, phase, Finishers, parked', 0)
  BY <1>1, FitsAwake DEF IInv
<1>3. gate' = gate /\ phase' = phase /\ Finishers' = Finishers /\ TapeTypes'
  BY DEF Poll, Finishers, IInv, TapeTypes
<1> QED
  BY <1>2, <1>3 DEF IInv

(* What is built is a tape again, and not empty. *)
LEMMA LongerTape ==
    ASSUME TapeTypes, NEW c \in Conns
    PROVE  /\ Longer(pool, building[c]).len \in Nat
           /\ Longer(pool, building[c]) # Empty
<1>1. building[c].len + 1 \in Nat /\ building[c].len + 1 # 0
  BY DEF TapeTypes
<1>2. Longer(pool, building[c]).len = building[c].len + 1
  BY DEF Longer
<1> QED
  BY <1>1, <1>2 DEF Empty

LEMMA PushFits ==
    ASSUME IInv, NEW c \in Conns, Push(c)
    PROVE  IInv'
<1>1. Fit(Acquired(c), [phase EXCEPT ![c] = "Held"], Finishers, parked, 0)
  BY AcquireFits DEF Push
<1>2. /\ gate' = Acquired(c) /\ phase' = [phase EXCEPT ![c] = "Held"]
      /\ Finishers' = Finishers /\ parked' = parked
  BY DEF Push, Finishers
<1>3. /\ DOMAIN building' = Conns
      /\ building'[c] = Longer(pool, building[c])
      /\ \A d \in Conns : d # c => building'[d] = building[d]
  BY DEF Push, IInv, TapeTypes
<1>4. TapeTypes'
  BY <1>3, LongerTape DEF IInv, TapeTypes, Push
<1> QED
  BY <1>1, <1>2, <1>4 DEF IInv

LEMMA CompleteFits ==
    ASSUME IInv, NEW c \in Conns, NEW o \in Outcomes, Complete(c, o)
    PROVE  IInv'
<1> DEFINE ph == [phase EXCEPT ![c] = "Held"]
<1>1. Fit(Acquired(c), ph, Finishers, parked, 0)
  BY AcquireFits DEF Complete
<1>2. phase \in [Conns -> Phases]
  BY DEF IInv, Fit
<1>3. ph[c] = "Held" /\ phase' = [ph EXCEPT ![c] = "Idle"]
  BY <1>2 DEF Complete
<1> HIDE DEF ph
<1>4. c \in Own(Acquired(c), ph, Finishers) /\ ~Acquired(c).granted[c]
  BY <1>1, <1>3 DEF Own, Fit
<1>5. Longer(pool, building[c]) # Empty
  BY LongerTape DEF IInv
<1>6. Fit(gate', phase', Finishers', parked', 0) /\ DOMAIN pending' = Conns
  BY <1>1, <1>3, <1>4, <1>5, DeliverFits DEF IInv, Complete
<1>7. building' = [building EXCEPT ![c] = Empty]
  BY DEF Complete
<1>8. TapeTypes'
  BY <1>6, <1>7 DEF TapeTypes, IInv, Empty
<1> QED
  BY <1>6, <1>8 DEF IInv

LEMMA SettleFits ==
    ASSUME IInv, NEW c \in Conns, NEW o \in Outcomes, Settle(c, o)
    PROVE  IInv'
<1>1. c \in Finishers /\ Fit(gate, phase, Finishers, parked, 0)
  BY DEF Settle, Finishers, IInv
<1>2. phase[c] = "Idle" /\ ~gate.granted[c] /\ phase \in [Conns -> Phases]
  BY <1>1 DEF Fit
<1>3. phase' = [phase EXCEPT ![c] = "Idle"]
  BY <1>2 DEF Settle
<1>4. c \in Own(gate, phase, Finishers)
  BY <1>1 DEF Own
<1>5. Fit(gate', phase', Finishers', parked', 0) /\ DOMAIN pending' = Conns
  BY <1>1, <1>2, <1>3, <1>4, DeliverFits DEF IInv, Settle
<1>6. TapeTypes'
  BY <1>5 DEF TapeTypes, IInv, Settle
<1> QED
  BY <1>5, <1>6 DEF IInv

LEMMA ResetFits ==
    ASSUME IInv, NEW c \in Conns, Reset(c)
    PROVE  IInv'
<1> DEFINE left == Gate(gate.active, Unqueue(gate, c), [gate.granted EXCEPT ![c] = FALSE])
<1>0. /\ Fit(gate, phase, Finishers, parked, 0) /\ parked \in [Conns -> BOOLEAN]
      /\ c \notin Finishers /\ ~parked[c]
  BY DEF IInv, Fit, Reset, Parses, Finishers
<1>1. Finishers' = Finishers /\ phase' = [phase EXCEPT ![c] = "Idle"]
  BY DEF Reset, Finishers
<1>2. TapeTypes'
  BY DEF Reset, IInv, TapeTypes, Empty
<1>3. CASE phase[c] = "Held" \/ gate.granted[c]
  <2>1. c \in Own(gate, phase, Finishers)
    BY <1>3 DEF Own
  <2>2. gate' = Returned(left)
    BY <1>3 DEF Reset, Cancelled
  <2>3. parked' = [d \in Conns |-> parked[d] /\ d \notin Woken(gate)]
    BY <1>3 DEF Reset, Wakes, Unpark
  <2>4. Finishers \ {c} = Finishers
    BY <1>0
  <2> QED
    <3>1. Fit(Returned(left), [phase EXCEPT ![c] = "Idle"], Finishers \ {c},
              [d \in Conns |-> parked[d] /\ d \notin Woken(gate)], 0)
      BY <1>0, <2>1, ChargeReturned
    <3>2. Fit(gate', phase', Finishers', parked', 0)
      BY <1>1, <2>2, <2>3, <2>4, <3>1, Zenon
    <3> QED
      BY <1>2, <3>2 DEF IInv
<1>4. CASE ~ (phase[c] = "Held" \/ gate.granted[c])
  <2>1. c \notin Own(gate, phase, Finishers)
    BY <1>0, <1>4 DEF Own
  <2>2. gate' = left
    BY <1>4 DEF Reset, Cancelled
  <2>3. parked' = parked
    BY <1>0, <1>4 DEF Reset, Wakes, Unpark
  <2> QED
    BY <1>0, <1>1, <1>2, <2>1, <2>2, <2>3, WaiterLeaves DEF IInv
<1> QED
  BY <1>3, <1>4

LEMMA CloseFits ==
    ASSUME IInv, NEW c \in Conns, Close(c)
    PROVE  IInv'
<1> DEFINE left == Gate(gate.active, Unqueue(gate, c), [gate.granted EXCEPT ![c] = FALSE])
<1>0. /\ Fit(gate, phase, Finishers, parked, 0) /\ parked \in [Conns -> BOOLEAN]
      /\ phase \in [Conns -> Phases]
  BY DEF IInv, Fit
<1>1. phase' = [phase EXCEPT ![c] = "Idle"] /\ Finishers' = Finishers \ {c}
  BY DEF Close, Finishers, IInv, TapeTypes
<1>2. TapeTypes'
  BY DEF Close, IInv, TapeTypes, Empty
<1>3. CASE pending[c] # Empty
  <2>1. c \in Finishers /\ ~gate.granted[c] /\ c \in Own(gate, phase, Finishers)
    BY <1>0, <1>3 DEF Finishers, Own, Fit
  <2>2. gate' = Returned(gate)
    BY <1>3 DEF Close
  <2> DEFINE up == [d \in Conns |-> parked[d] /\ d \notin Woken(gate)]
  <2>3. Fit(gate', phase', Finishers', up, 0)
    BY <1>0, <1>1, <2>1, <2>2, FrameReturned
  <2>4. parked' = [up EXCEPT ![c] = FALSE]
    BY <1>3 DEF Close, Unpark
  <2>5. parked' \in [Conns -> BOOLEAN] /\ \A d \in Conns : parked'[d] => up[d]
    BY <1>0, <2>4
  <2> HIDE DEF up
  <2>6. Fit(gate', phase', Finishers', parked', 0)
    BY <2>3, <2>5, FitsAwake
  <2> QED
    BY <1>2, <2>6 DEF IInv
<1>4. CASE pending[c] = Empty
  <2>1. parked[c] /\ c \notin Finishers
    BY <1>4 DEF Close, Finishers
  <2>2. gate.rank[c] # 0 /\ phase[c] = "Waiting" /\ ~gate.granted[c]
    BY <1>0, <2>1 DEF Fit
  <2>3. c \notin Own(gate, phase, Finishers) /\ Finishers \ {c} = Finishers
    BY <2>1, <2>2 DEF Own
  <2>4. gate' = left
    BY <1>4, <2>2 DEF Close, Cancelled
  <2>5. parked' = [Unpark({}) EXCEPT ![c] = FALSE]
    BY <1>4, <2>2 DEF Close, Wakes
  <2>6. parked' \in [Conns -> BOOLEAN] /\ ~parked'[c] /\ \A d \in Conns : parked'[d] => parked[d]
    BY <1>0, <2>5 DEF Unpark
  <2>7. Fit(gate', phase', Finishers', parked', 0)
    BY <1>0, <1>1, <2>3, <2>4, <2>6, WaiterLeaves
  <2> QED
    BY <1>2, <2>7 DEF IInv
<1> QED
  BY <1>3, <1>4

(* Every step keeps the invariant. *)
LEMMA NextIInv == IInv /\ [Next]_vars => IInv'
<1> SUFFICES ASSUME IInv, [Next]_vars PROVE IInv'
  OBVIOUS
<1>1. CASE UNCHANGED vars
  BY <1>1 DEF vars, IInv, TapeTypes, Fit, Finishers, Own
<1>2. CASE \E t \in kept : Consume(t)
  BY <1>2 DEF Consume, IInv, TapeTypes, Fit, Finishers, Own
<1>3. ASSUME NEW c \in Conns
      PROVE  \/ Blocked(c) \/ Poll(c) \/ Reset(c) \/ Close(c)
             \/ Push(c)
             \/ (\E o \in Outcomes : Complete(c, o))
             \/ (\E o \in Outcomes : Settle(c, o))
             => IInv'
  BY BlockedFits, PollFits, ResetFits, CloseFits, PushFits, CompleteFits, SettleFits
<1> QED
  BY <1>1, <1>2, <1>3 DEF Next

LEMMA Invariance == Spec => []IInv
BY InitIInv, NextIInv, PTL DEF Spec

(* The lanes counted by the gate are those that builders, grantees and     *)
(* finished frames own, and never more than there are: the unchecked       *)
(* decrement of Drop for Lane cannot wrap, and no charge is lost, for any  *)
(* number of connections, lanes and values.                                *)
THEOREM LanesExactCorrect == Spec => []LanesExact
<1>1. IInv => LanesExact
  <2> SUFFICES ASSUME IInv PROVE LanesExact
    OBVIOUS
  <2>1. Holders \in SUBSET Conns /\ Grantees \in SUBSET Conns /\ Finishers \in SUBSET Conns
    BY DEF Holders, Grantees, Finishers
  <2>2. IsFiniteSet(Holders) /\ IsFiniteSet(Grantees) /\ IsFiniteSet(Finishers)
    BY <2>1, StorageAssumption, FS_Subset
  <2>3. Own(gate, phase, Finishers) = (Holders \cup Grantees) \cup Finishers
    BY DEF Own, Holders, Grantees, Finishers
  <2>4. Holders \cap Grantees = {} /\ (Holders \cup Grantees) \cap Finishers = {}
    BY DEF IInv, Fit, Holders, Grantees, Finishers
  <2>5. IsFiniteSet(Holders \cup Grantees)
        /\ Cardinality(Holders \cup Grantees)
              = Cardinality(Holders) + Cardinality(Grantees) - Cardinality(Holders \cap Grantees)
    BY <2>2, FS_Union
  <2>6. Cardinality((Holders \cup Grantees) \cup Finishers)
              = Cardinality(Holders \cup Grantees) + Cardinality(Finishers)
                - Cardinality((Holders \cup Grantees) \cap Finishers)
    BY <2>2, <2>5, FS_Union
  <2>7. Cardinality(Holders) \in Nat /\ Cardinality(Grantees) \in Nat
        /\ Cardinality(Finishers) \in Nat
    BY <2>2, FS_CardinalityType
  <2>8. Cardinality({}) = 0
    BY FS_EmptySet
  <2>9. Cardinality(Own(gate, phase, Finishers))
          = Cardinality(Holders) + Cardinality(Grantees) + Cardinality(Finishers)
    <3>1. Cardinality(Holders \cap Grantees) = 0
          /\ Cardinality((Holders \cup Grantees) \cap Finishers) = 0
      BY <2>4, <2>8
    <3>2. Cardinality(Own(gate, phase, Finishers))
            = Cardinality((Holders \cup Grantees) \cup Finishers)
      BY <2>3
    <3> QED
      BY <2>5, <2>6, <2>7, <3>1, <3>2
  <2> QED
    BY <2>7, <2>9 DEF IInv, Fit, LanesExact
<1> QED
  BY <1>1, Invariance, PTL

(* A suspended connection is queued, nobody queues beside an unowned lane, *)
(* and a granted lane is with a connection that runs: a wake-up of the     *)
(* gate is never lost.                                                     *)
THEOREM NoLostGrantCorrect == Spec => []NoLostGrant
<1>1. IInv => NoLostGrant
  BY DEF IInv, Fit, NoLostGrant, Queued
<1> QED
  BY <1>1, Invariance, PTL

-----------------------------------------------------------------------------
(* The nodes: what a walk along the links meets *)

(* A sequence of nodes, walked along the links f from the node tail on. *)
Walks(f, g, tail, n) ==
    /\ DOMAIN g = 0 .. n
    /\ g[0] = tail
    /\ \A i \in 1 .. n : g[i] = f[g[i - 1]]

(* Two walks of one length from one node meet the same nodes.              *)
LEMMA WalksUnique ==
    ASSUME NEW f, NEW g, NEW h, NEW tail, NEW n \in Nat, Walks(f, g, tail, n), Walks(f, h, tail, n)
    PROVE  \A i \in 0 .. n : g[i] = h[i]
<1> DEFINE D == {i \in 0 .. n : g[i] # h[i]}
<1>1. SUFFICES ASSUME D # {} PROVE FALSE
  OBVIOUS
<1>2. D \subseteq Nat
  OBVIOUS
<1> HIDE DEF D
<1>3. PICK m \in D : \A j \in D : m <= j
  BY <1>1, <1>2, LeastNat
<1> USE DEF D
<1>4. CASE m = 0
  BY <1>4 DEF Walks
<1>5. CASE m # 0
  <2>1. m - 1 \in 0 .. n /\ m \in 1 .. n /\ ~(m <= m - 1)
    BY <1>5
  <2>2. g[m - 1] = h[m - 1]
    BY <1>3, <2>1
  <2>3. QED BY <2>1, <2>2 DEF Walks
<1>6. QED BY <1>4, <1>5

(* Walk chooses the one walk there is.                                     *)
LEMMA WalkIs ==
    ASSUME NEW g, NEW tail, NEW n \in Nat, Walks(pool.next, g, tail, n),
           g = [i \in 0 .. n |-> g[i]]
    PROVE  Walk(tail, n) = [i \in 1 .. n |-> g[i]]
<1> DEFINE E(at) == at = [i \in 0 .. n |-> IF i = 0 THEN tail ELSE pool.next[at[i - 1]]]
<1>1. E(g)
  <2>1. \A i \in 0 .. n : g[i] = IF i = 0 THEN tail ELSE pool.next[g[i - 1]]
    BY DEF Walks
  <2>2. QED BY <2>1
<1>2. ASSUME NEW h, E(h) PROVE Walks(pool.next, h, tail, n)
  <2>1. h = [i \in 0 .. n |-> IF i = 0 THEN tail ELSE pool.next[h[i - 1]]]
    BY <1>2
  <2>2. DOMAIN h = 0 .. n
    BY <2>1
  <2>3. \A i \in 0 .. n : h[i] = IF i = 0 THEN tail ELSE pool.next[h[i - 1]]
    BY <2>1
  <2>4. h[0] = tail
    BY <2>3
  <2>5. QED BY <2>2, <2>3, <2>4 DEF Walks
<1>3. \A h : E(h) => \A i \in 0 .. n : h[i] = g[i]
  <2> SUFFICES ASSUME NEW h, E(h) PROVE \A i \in 0 .. n : h[i] = g[i]
    OBVIOUS
  <2>1. Walks(pool.next, h, tail, n)
    BY <1>2
  <2>2. QED BY <2>1, WalksUnique
<1> DEFINE a == CHOOSE at : E(at)
<1>4. E(a)
  <2> HIDE DEF E
  <2>1. QED BY <1>1
<1>5. \A i \in 0 .. n : a[i] = g[i]
  <2> HIDE DEF E, a
  <2>1. QED BY <1>3, <1>4
<1>6. Walk(tail, n) = [i \in 1 .. n |-> a[i]]
  BY DEF Walk
<1> HIDE DEF a
<1>7. QED BY <1>5, <1>6

-----------------------------------------------------------------------------
(* Rings of nodes *)

(* The nodes of a sequence. *)
On(s) == {s[i] : i \in 1 .. Len(s)}

(* s is a ring of f: each of its nodes is linked to the next one, and the  *)
(* last to the first.                                                      *)
Ring(f, s) ==
    /\ s \in Seq(Node)
    /\ \A i, j \in 1 .. Len(s) : s[i] = s[j] => i = j
    /\ \A i \in 1 .. Len(s) : f[s[i]] = IF i = Len(s) THEN s[1] ELSE s[i + 1]

(* A ring whose own links stay is a ring still.                            *)
LEMMA RingStays ==
    ASSUME NEW f, NEW g, NEW s, Ring(f, s), \A n \in On(s) : g[n] = f[n]
    PROVE  Ring(g, s)
<1>1. \A i \in 1 .. Len(s) : s[i] \in On(s)
  BY DEF On
<1>2. QED BY <1>1 DEF Ring

(* The nodes of a sequence.                                                *)
LEMMA NodesOn ==
    ASSUME NEW s \in Seq(Node)
    PROVE  On(s) \subseteq Node /\ \A i \in 1 .. Len(s) : s[i] \in On(s) /\ s[i] \in Node
  BY DEF On

(* The first node of a ring leaves it. *)
LEMMA RingTaken ==
    ASSUME NEW f \in [Node -> Node], NEW g, NEW s, Ring(f, s), Len(s) > 1,
           g = [f EXCEPT ![s[Len(s)]] = f[s[1]]]
    PROVE  Ring(g, Tail(s))
<1> DEFINE t == Tail(s)
           k == Len(s)
<1>1. s \in Seq(Node) /\ k \in Nat /\ k > 1
  BY DEF Ring
<1>2. t \in Seq(Node) /\ Len(t) = k - 1 /\ \A i \in 1 .. k - 1 : t[i] = s[i + 1]
  BY <1>1
<1>3. /\ \A i, j \in 1 .. k : s[i] = s[j] => i = j
      /\ \A i \in 1 .. k : f[s[i]] = IF i = k THEN s[1] ELSE s[i + 1]
      /\ \A i \in 1 .. k : s[i] \in Node
  BY <1>1 DEF Ring
<1>4. 1 \in 1 .. k /\ 2 \in 1 .. k /\ k \in 1 .. k /\ f[s[1]] = s[1 + 1] /\ 1 + 1 = 2
  BY <1>1, <1>3
<1>5. \A i \in 1 .. k : g[s[i]] = IF s[i] = s[k] THEN s[2] ELSE f[s[i]]
  BY <1>3, <1>4
<1> HIDE DEF t, k
<1>6. \A i \in 1 .. k - 1 : i + 1 \in 1 .. k
  BY <1>1
<1>7. \A i, j \in 1 .. k - 1 : t[i] = t[j] => i = j
  <2> SUFFICES ASSUME NEW i \in 1 .. k - 1, NEW j \in 1 .. k - 1, t[i] = t[j] PROVE i = j
    OBVIOUS
  <2>1. s[i + 1] = s[j + 1] /\ i + 1 \in 1 .. k /\ j + 1 \in 1 .. k
    BY <1>2, <1>6
  <2>2. i + 1 = j + 1
    BY <1>3, <2>1
  <2>3. QED BY <1>1, <2>2
<1>8. \A i \in 1 .. k - 1 : g[t[i]] = IF i = k - 1 THEN t[1] ELSE t[i + 1]
  <2> SUFFICES ASSUME NEW i \in 1 .. k - 1
               PROVE  g[t[i]] = IF i = k - 1 THEN t[1] ELSE t[i + 1]
    OBVIOUS
  <2>1. i + 1 \in 1 .. k /\ t[i] = s[i + 1] /\ 1 \in 1 .. k - 1 /\ t[1] = s[2]
    <3>1. 1 \in 1 .. k - 1 /\ t[1] = s[1 + 1]
      BY <1>1, <1>2
    <3>2. QED BY <1>2, <1>4, <1>6, <3>1
  <2>2. CASE i = k - 1
    <3>1. i + 1 = k
      BY <1>1, <2>2
    <3>2. g[s[k]] = s[2]
      BY <1>4, <1>5
    <3>3. QED BY <2>1, <2>2, <3>1, <3>2
  <2>3. CASE i # k - 1
    <3>1. i + 1 # k /\ i + 1 \in 1 .. k - 1
      BY <1>1, <2>3
    <3>2. s[i + 1] # s[k]
      BY <1>3, <1>4, <2>1, <3>1
    <3>3. g[s[i + 1]] = f[s[i + 1]]
      BY <1>5, <2>1, <3>2
    <3>4. f[s[i + 1]] = s[(i + 1) + 1]
      BY <1>3, <2>1, <3>1
    <3>5. t[i + 1] = s[(i + 1) + 1]
      BY <1>2, <3>1
    <3>6. QED BY <2>1, <2>3, <3>3, <3>4, <3>5
  <2>4. QED BY <2>2, <2>3
<1>9. QED BY <1>2, <1>7, <1>8 DEF Ring, t

(* A node joins a ring behind its last one. *)
LEMMA RingAppended ==
    ASSUME NEW f \in [Node -> Node], NEW g, NEW s, Ring(f, s), Len(s) > 0,
           NEW key \in Node \ On(s),
           g = [f EXCEPT ![key] = f[s[Len(s)]], ![s[Len(s)]] = key]
    PROVE  Ring(g, Append(s, key))
<1> DEFINE t == Append(s, key)
           k == Len(s)
<1>1. s \in Seq(Node) /\ k \in Nat /\ k > 0
  BY DEF Ring
<1>2. t \in Seq(Node) /\ Len(t) = k + 1 /\ t[k + 1] = key /\ \A i \in 1 .. k : t[i] = s[i]
  BY <1>1
<1>3. \A i \in 1 .. k : s[i] \in Node /\ s[i] # key
  BY <1>1, NodesOn
<1>4. \A i, j \in 1 .. k + 1 : t[i] = t[j] => i = j
  <2> SUFFICES ASSUME NEW i \in 1 .. k + 1, NEW j \in 1 .. k + 1, t[i] = t[j] PROVE i = j
    OBVIOUS
  <2> HIDE DEF t, k
  <2>1. (i \in 1 .. k \/ i = k + 1) /\ (j \in 1 .. k \/ j = k + 1)
    BY <1>1
  <2>2. \A x, y \in 1 .. k : s[x] = s[y] => x = y
    BY DEF Ring, k
  <2>3. QED BY <1>2, <1>3, <2>1, <2>2
<1>5. k \in 1 .. k /\ s[k] \in Node /\ s[k] # key /\ key \in Node
  BY <1>1, <1>3
<1>6. f[s[k]] = s[1]
  BY <1>1, <1>5 DEF Ring
<1>7. g[key] = s[1] /\ g[s[k]] = key /\ \A n \in Node : n # key /\ n # s[k] => g[n] = f[n]
  BY <1>5, <1>6
<1>8. \A i \in 1 .. k : i # k => g[s[i]] = s[i + 1] /\ i + 1 \in 1 .. k
  <2> SUFFICES ASSUME NEW i \in 1 .. k, i # k PROVE g[s[i]] = s[i + 1] /\ i + 1 \in 1 .. k
    OBVIOUS
  <2>1. s[i] # s[k] /\ f[s[i]] = s[i + 1]
    BY <1>5 DEF Ring
  <2>2. QED BY <1>1, <1>3, <1>7, <2>1
<1>9. \A i \in 1 .. k + 1 : g[t[i]] = IF i = k + 1 THEN t[1] ELSE t[i + 1]
  <2> SUFFICES ASSUME NEW i \in 1 .. k + 1 PROVE g[t[i]] = IF i = k + 1 THEN t[1] ELSE t[i + 1]
    OBVIOUS
  <2> HIDE DEF t, k
  <2>1. 1 \in 1 .. k /\ t[1] = s[1]
    BY <1>1, <1>2
  <2>2. CASE i = k + 1
    BY <1>2, <1>7, <2>1, <2>2
  <2>3. CASE i = k
    BY <1>1, <1>2, <1>5, <1>7, <2>3
  <2>4. CASE i \in 1 .. k /\ i # k
    <3>1. i + 1 \in 1 .. k /\ g[s[i]] = s[i + 1]
      BY <1>8, <2>4
    <3>4. i # k + 1
      BY <1>1, <2>4
    <3>2. t[i] = s[i] /\ t[i + 1] = s[i + 1]
      BY <1>2, <2>4, <3>1
    <3>3. QED BY <3>1, <3>2, <3>4
  <2>5. QED BY <1>1, <2>2, <2>3, <2>4
<1> HIDE DEF k
<1>10. QED BY <1>2, <1>4, <1>9 DEF Ring

(* A node linked to itself is a ring.                                      *)
LEMMA RingOne ==
    ASSUME NEW f, NEW key \in Node, f[key] = key
    PROVE  Ring(f, <<key>>)
  BY DEF Ring

(* Two rings are spliced into one. *)
LEMMA RingJoined ==
    ASSUME NEW f \in [Node -> Node], NEW g, NEW s, NEW t, Ring(f, s), Ring(f, t),
           Len(s) > 0, Len(t) > 0, On(s) \cap On(t) = {},
           g = [f EXCEPT ![t[Len(t)]] = f[s[Len(s)]], ![s[Len(s)]] = f[t[Len(t)]]]
    PROVE  Ring(g, s \o t)
<1> DEFINE u == s \o t
           k == Len(s)
           m == Len(t)
<1>1. s \in Seq(Node) /\ t \in Seq(Node) /\ k \in Nat /\ m \in Nat /\ k > 0 /\ m > 0
  BY DEF Ring
<1>2. /\ u \in Seq(Node) /\ Len(u) = k + m
      /\ \A i \in 1 .. k : u[i] = s[i]
      /\ \A i \in 1 .. m : u[k + i] = t[i]
  BY <1>1
<1>3. /\ \A i \in 1 .. k : s[i] \in Node /\ s[i] \in On(s)
      /\ \A i \in 1 .. m : t[i] \in Node /\ t[i] \in On(t)
  BY <1>1, NodesOn
<1>4. /\ \A i, j \in 1 .. k : s[i] = s[j] => i = j
      /\ \A i, j \in 1 .. m : t[i] = t[j] => i = j
      /\ \A i \in 1 .. k : \A j \in 1 .. m : s[i] # t[j]
      /\ \A i \in 1 .. k : f[s[i]] = IF i = k THEN s[1] ELSE s[i + 1]
      /\ \A i \in 1 .. m : f[t[i]] = IF i = m THEN t[1] ELSE t[i + 1]
  BY <1>3 DEF Ring
<1>5. k \in 1 .. k /\ m \in 1 .. m /\ 1 \in 1 .. k /\ 1 \in 1 .. m
  BY <1>1
<1>6. f[s[k]] = s[1] /\ f[t[m]] = t[1] /\ s[k] \in Node /\ t[m] \in Node /\ s[k] # t[m]
  BY <1>3, <1>4, <1>5
<1>7. g[t[m]] = s[1] /\ g[s[k]] = t[1] /\ \A n \in Node : n # t[m] /\ n # s[k] => g[n] = f[n]
  BY <1>6
<1>8. \A i \in 1 .. k + m : i \in 1 .. k \/ (i - k \in 1 .. m /\ i = k + (i - k))
  BY <1>1
<1> HIDE DEF u, k, m
<1>9. \A i, j \in 1 .. k + m : u[i] = u[j] => i = j
  <2> SUFFICES ASSUME NEW i \in 1 .. k + m, NEW j \in 1 .. k + m, u[i] = u[j] PROVE i = j
    OBVIOUS
  <2>1. CASE i \in 1 .. k /\ j \in 1 .. k
    BY <1>2, <1>4, <2>1
  <2>2. CASE i \in 1 .. k /\ j - k \in 1 .. m /\ j = k + (j - k)
    BY <1>2, <1>4, <2>2
  <2>3. CASE i - k \in 1 .. m /\ i = k + (i - k) /\ j \in 1 .. k
    BY <1>2, <1>4, <2>3
  <2>4. CASE i - k \in 1 .. m /\ i = k + (i - k) /\ j - k \in 1 .. m /\ j = k + (j - k)
    <3> DEFINE a == i - k
               b == j - k
    <3>1. a \in 1 .. m /\ b \in 1 .. m /\ i = k + a /\ j = k + b
      BY <2>4
    <3> HIDE DEF a, b
    <3>2. u[i] = t[a] /\ u[j] = t[b]
      BY <1>2, <3>1
    <3>3. a = b
      BY <1>4, <3>1, <3>2
    <3>4. QED BY <3>1, <3>3
  <2>5. QED BY <1>8, <2>1, <2>2, <2>3, <2>4
<1>10. \A i \in 1 .. k + m : g[u[i]] = IF i = k + m THEN u[1] ELSE u[i + 1]
  <2> SUFFICES ASSUME NEW i \in 1 .. k + m
               PROVE  g[u[i]] = IF i = k + m THEN u[1] ELSE u[i + 1]
    OBVIOUS
  <2>1. CASE i = k
    <3>1. u[i] = s[k] /\ u[k + 1] = t[1] /\ i # k + m
      BY <1>1, <1>2, <1>5, <2>1
    <3>2. QED BY <1>7, <2>1, <3>1
  <2>2. CASE i \in 1 .. k /\ i # k
    <3>1. i + 1 \in 1 .. k /\ i # k + m
      BY <1>1, <2>2
    <3>2. s[i] # s[k] /\ s[i] # t[m] /\ f[s[i]] = s[i + 1]
      BY <1>4, <1>5, <2>2
    <3>3. g[s[i]] = s[i + 1]
      BY <1>3, <1>7, <2>2, <3>2
    <3>4. QED BY <1>2, <2>2, <3>1, <3>3
  <2>3. CASE i - k \in 1 .. m /\ i - k # m
    <3>1. (i - k) + 1 \in 1 .. m /\ i # k + m /\ i = k + (i - k) /\ i + 1 = k + ((i - k) + 1)
      BY <1>1, <2>3
    <3>2. t[i - k] # t[m] /\ t[i - k] # s[k] /\ f[t[i - k]] = t[(i - k) + 1]
      BY <1>4, <1>5, <2>3
    <3>3. g[t[i - k]] = t[(i - k) + 1]
      BY <1>3, <1>7, <2>3, <3>2
    <3>4. u[i] = t[i - k] /\ u[i + 1] = t[(i - k) + 1]
      BY <1>2, <2>3, <3>1
    <3>5. QED BY <3>1, <3>3, <3>4
  <2>4. CASE i - k = m
    <3>1. i = k + m /\ u[1] = s[1] /\ u[i] = t[m]
      BY <1>1, <1>2, <1>5, <2>4
    <3>2. QED BY <1>7, <3>1
  <2>5. QED BY <1>8, <2>1, <2>2, <2>3, <2>4
<1>11. QED BY <1>2, <1>9, <1>10 DEF Ring, u

-----------------------------------------------------------------------------
(* The layout of the pool *)

Pools == [next : [Node -> Node], free : Node \cup {NoNode}]
Tapes == [tail : Node \cup {NoNode}, len : Nat, nodes : Seq(Node)]

(* A tape is a ring of its nodes, named by its last one. *)
TapeFits(f, t) ==
    /\ t \in Tapes
    /\ t.len = Len(t.nodes)
    /\ t.tail = IF t.len = 0 THEN NoNode ELSE t.nodes[t.len]
    /\ t.len = 0 => t = Empty
    /\ Ring(f, t.nodes)

(* F is the ring of the free nodes of p, whose tapes are T[o] of the owners *)
(* o in S: no two of these share a node, and together they are all nodes.   *)
Laid(p, S, T, F) ==
    /\ p \in Pools
    /\ Ring(p.next, F)
    /\ p.free = IF Len(F) = 0 THEN NoNode ELSE F[Len(F)]
    /\ \A o \in S : TapeFits(p.next, T[o])
    /\ \A o, q \in S : o # q => On(T[o].nodes) \cap On(T[q].nodes) = {}
    /\ \A o \in S : On(T[o].nodes) \cap On(F) = {}
    /\ \A n \in Node : n \in On(F) \/ \E o \in S : n \in On(T[o].nodes)

(* There are nodes, and none of them is NoNode.                            *)
LEMMA NodesTyped == Capacity \in Nat /\ Capacity > 0 /\ NoNode \notin Node
<1>1. Lanes * FrameValues \in Nat
  BY StorageAssumption
<1>2. Capacity \in Nat /\ Capacity > 0
  BY <1>1, StorageAssumption DEF Capacity
<1>3. QED BY <1>2 DEF Node, NoNode

(* An empty tape.                                                          *)
LEMMA EmptyFields == Empty.tail = NoNode /\ Empty.len = 0 /\ Empty.nodes = <<>>
  BY DEF Empty

(* It has no node.                                                         *)
LEMMA OnNone == On(<<>>) = {}
  BY DEF On

(* The nodes of a longer sequence.                                         *)
LEMMA OnAppended ==
    ASSUME NEW s \in Seq(Node), NEW key
    PROVE  key \in Node => On(Append(s, key)) = On(s) \cup {key}
<1> SUFFICES ASSUME key \in Node PROVE On(Append(s, key)) = On(s) \cup {key}
  OBVIOUS
<1> DEFINE t == Append(s, key)
           k == Len(s)
<1>1. k \in Nat /\ Len(t) = k + 1 /\ t[k + 1] = key /\ \A i \in 1 .. k : t[i] = s[i]
  OBVIOUS
<1> HIDE DEF t, k
<1>2. \A i \in 1 .. k + 1 : i \in 1 .. k \/ i = k + 1
  BY <1>1
<1>3. k + 1 \in 1 .. k + 1 /\ \A i \in 1 .. k : i \in 1 .. k + 1
  BY <1>1
<1>4. On(t) = {t[i] : i \in 1 .. k + 1} /\ On(s) = {s[i] : i \in 1 .. k}
  BY <1>1 DEF On, k
<1>5. QED BY <1>1, <1>2, <1>3, <1>4 DEF t

(* The nodes of two sequences, one behind the other.                       *)
LEMMA OnJoined ==
    ASSUME NEW s \in Seq(Node), NEW t \in Seq(Node)
    PROVE  On(s \o t) = On(s) \cup On(t)
<1> DEFINE u == s \o t
           k == Len(s)
           m == Len(t)
<1>1. /\ k \in Nat /\ m \in Nat /\ Len(u) = k + m
      /\ \A i \in 1 .. k : u[i] = s[i]
      /\ \A i \in 1 .. m : u[k + i] = t[i]
  OBVIOUS
<1> HIDE DEF u, k, m
<1>2. \A i \in 1 .. k + m : i \in 1 .. k \/ (i - k \in 1 .. m /\ i = k + (i - k))
  BY <1>1
<1>3. (\A i \in 1 .. k : i \in 1 .. k + m) /\ \A i \in 1 .. m : k + i \in 1 .. k + m
  BY <1>1
<1>4. On(u) = {u[i] : i \in 1 .. k + m} /\ On(s) = {s[i] : i \in 1 .. k} /\ On(t) = {t[i] : i \in 1 .. m}
  BY <1>1 DEF On, k, m
<1>5. \A n : n \in On(u) => n \in On(s) \cup On(t)
  <2> SUFFICES ASSUME NEW i \in 1 .. k + m PROVE u[i] \in On(s) \cup On(t)
    BY <1>4
  <2>1. CASE i \in 1 .. k
    BY <1>1, <1>4, <2>1
  <2>2. CASE i - k \in 1 .. m /\ i = k + (i - k)
    BY <1>1, <1>4, <2>2
  <2>3. QED BY <1>2, <2>1, <2>2
<1>6. \A n : n \in On(s) \cup On(t) => n \in On(u)
  BY <1>1, <1>3, <1>4
<1>7. QED BY <1>5, <1>6 DEF u

(* The first node of a ring is not among the others. *)
LEMMA OnTail ==
    ASSUME NEW f, NEW s, Ring(f, s), Len(s) > 0
    PROVE  /\ On(Tail(s)) = On(s) \ {s[1]} /\ s[1] \in On(s) /\ Tail(s) \in Seq(Node)
           /\ Len(Tail(s)) = Len(s) - 1
           /\ Len(s) > 1 => Tail(s)[Len(s) - 1] = s[Len(s)]
<1> DEFINE t == Tail(s)
           k == Len(s)
<1>1. s \in Seq(Node) /\ k \in Nat /\ k > 0 /\ \A i, j \in 1 .. k : s[i] = s[j] => i = j
  BY DEF Ring
<1>2. t \in Seq(Node) /\ Len(t) = k - 1 /\ \A i \in 1 .. k - 1 : t[i] = s[i + 1]
  BY <1>1
<1> HIDE DEF t, k
<1>3. On(t) = {t[i] : i \in 1 .. k - 1} /\ On(s) = {s[i] : i \in 1 .. k}
  BY <1>2 DEF On, k
<1>4. 1 \in 1 .. k /\ \A i \in 1 .. k - 1 : i + 1 \in 1 .. k /\ i + 1 # 1
  BY <1>1
<1>5. \A i \in 1 .. k : i # 1 => i - 1 \in 1 .. k - 1 /\ i = (i - 1) + 1
  BY <1>1
<1>6. On(t) \subseteq On(s) \ {s[1]}
  <2> SUFFICES ASSUME NEW i \in 1 .. k - 1 PROVE t[i] \in On(s) /\ t[i] # s[1]
    BY <1>3
  <2>1. QED BY <1>1, <1>2, <1>3, <1>4
<1>7. On(s) \ {s[1]} \subseteq On(t)
  <2> SUFFICES ASSUME NEW i \in 1 .. k, s[i] # s[1] PROVE s[i] \in On(t)
    BY <1>3
  <2>1. i - 1 \in 1 .. k - 1 /\ t[i - 1] = s[i]
    BY <1>2, <1>5
  <2>2. QED BY <1>3, <2>1
<1>8. k > 1 => t[k - 1] = s[k]
  <2>1. k > 1 => k - 1 \in 1 .. k - 1 /\ (k - 1) + 1 = k
    BY <1>1
  <2>2. QED BY <1>2, <2>1
<1>9. QED BY <1>2, <1>3, <1>4, <1>6, <1>7, <1>8 DEF t, k

-----------------------------------------------------------------------------
(* Append and release *)

(* The first free node is taken out of the free ring. *)
LEMMA TakenFields ==
    ASSUME NEW p \in Pools, NEW F, Ring(p.next, F), p.free = (IF Len(F) = 0 THEN NoNode ELSE F[Len(F)]),
           p.free # NoNode
    PROVE  /\ Len(F) > 0 /\ F \in Seq(Node) /\ Taken(p) = F[1] /\ Taken(p) \in On(F) /\ Taken(p) \in Node
           /\ p.free = F[Len(F)] /\ (Taken(p) = p.free <=> Len(F) = 1)
<1> DEFINE k == Len(F)
<1>1. F \in Seq(Node) /\ k \in Nat /\ k > 0 /\ p.free = F[k]
  BY DEF Ring
<1>2. 1 \in 1 .. k /\ k \in 1 .. k
  BY <1>1
<1>3. p.next[F[k]] = F[1] /\ (F[1] = F[k] <=> k = 1) /\ F[1] \in On(F) /\ F[1] \in Node
  <2>1. F[1] \in On(F) /\ F[1] \in Node
    BY <1>1, <1>2, NodesOn
  <2>2. F[1] = F[k] => 1 = k
    BY <1>2 DEF Ring
  <2>3. p.next[F[k]] = F[1]
    BY <1>2 DEF Ring
  <2> HIDE DEF k
  <2>4. QED BY <2>1, <2>2, <2>3
<1>4. Taken(p) = p.next[p.free]
  BY DEF Taken
<1>5. QED BY <1>1, <1>3, <1>4

(* No node is a ring.                                                      *)
LEMMA RingNone ==
    ASSUME NEW f, NEW s \in Seq(Node), Len(s) = 0
    PROVE  Ring(f, s)
<1>1. 1 .. Len(s) = {}
  OBVIOUS
<1>2. QED BY <1>1 DEF Ring

(* The first node of a tape.                                               *)
LEMMA AppendedNone ==
    ASSUME NEW key, NEW s, s = <<>>
    PROVE  Append(s, key) = <<key>>
  OBVIOUS

(* Free::append takes the first free node out of the ring of the free      *)
(* ones.                                                                   *)
LEMMA UnlinkedFields ==
    ASSUME NEW p \in Pools, NEW F, Ring(p.next, F), p.free = (IF Len(F) = 0 THEN NoNode ELSE F[Len(F)]),
           p.free # NoNode
    PROVE  /\ Unlinked(p) \in Pools /\ Ring(Unlinked(p).next, Tail(F))
           /\ Unlinked(p).free = IF Len(Tail(F)) = 0 THEN NoNode ELSE Tail(F)[Len(Tail(F))]
           /\ \A n \in Node \ On(F) : Unlinked(p).next[n] = p.next[n]
<1>1. /\ Len(F) > 0 /\ F \in Seq(Node) /\ Taken(p) = F[1] /\ Taken(p) \in On(F) /\ Taken(p) \in Node
      /\ p.free = F[Len(F)] /\ (Taken(p) = p.free <=> Len(F) = 1)
  BY TakenFields
<1>2. /\ Tail(F) \in Seq(Node) /\ Len(Tail(F)) = Len(F) - 1
      /\ Len(F) > 1 => Tail(F)[Len(F) - 1] = F[Len(F)]
  BY <1>1, OnTail
<1>3. p.next \in [Node -> Node] /\ p.free \in Node /\ p.next[Taken(p)] \in Node /\ Len(F) \in Nat
  BY <1>1 DEF Pools
<1>4. CASE Taken(p) = p.free
  <2>1. Unlinked(p) = [p EXCEPT !.free = NoNode]
    BY <1>4 DEF Unlinked
  <2>2. Unlinked(p) \in Pools /\ Unlinked(p).next = p.next /\ Unlinked(p).free = NoNode
    BY <2>1 DEF Pools
  <2>3. Len(Tail(F)) = 0
    BY <1>1, <1>2, <1>3, <1>4
  <2>4. Ring(p.next, Tail(F))
    BY <1>2, <2>3, RingNone
  <2>5. QED BY <2>2, <2>3, <2>4
<1>5. CASE Taken(p) # p.free
  <2> DEFINE g == [p.next EXCEPT ![p.free] = p.next[Taken(p)]]
  <2>1. Unlinked(p) = [p EXCEPT !.next[p.free] = p.next[Taken(p)]]
    BY <1>5 DEF Unlinked
  <2>2. Unlinked(p).next = g /\ Unlinked(p).free = p.free /\ Unlinked(p) \in Pools
    BY <1>3, <2>1 DEF Pools
  <2>3. Len(F) > 1
    BY <1>1, <1>3, <1>5
  <2>4. g = [p.next EXCEPT ![F[Len(F)]] = p.next[F[1]]]
    BY <1>1
  <2>5. Ring(g, Tail(F))
    <3> HIDE DEF g
    <3>1. QED BY <1>3, <2>3, <2>4, RingTaken
  <2>6. F[Len(F)] \in On(F)
    BY <1>1, <1>3 DEF On
  <2>7. \A n \in Node \ On(F) : g[n] = p.next[n]
    BY <1>1, <1>3, <2>6
  <2>8. Len(Tail(F)) # 0 /\ Tail(F)[Len(Tail(F))] = p.free
    BY <1>1, <1>2, <1>3, <2>3
  <2> HIDE DEF g
  <2>9. QED BY <2>2, <2>5, <2>7, <2>8
<1>6. QED BY <1>4, <1>5

(* A free node joins a tape behind its last one. *)
LEMMA LinkedFields ==
    ASSUME NEW p \in Pools, NEW t, TapeFits(p.next, t), NEW key \in Node \ On(t.nodes)
    PROVE  /\ Linked(p, key, t) \in Pools /\ Linked(p, key, t).free = p.free
           /\ Ring(Linked(p, key, t).next, Append(t.nodes, key))
           /\ \A n \in Node \ (On(t.nodes) \cup {key}) : Linked(p, key, t).next[n] = p.next[n]
<1>1. t \in Tapes /\ t.len = Len(t.nodes) /\ Ring(p.next, t.nodes) /\ t.nodes \in Seq(Node) /\ t.len \in Nat
      /\ t.tail = IF t.len = 0 THEN NoNode ELSE t.nodes[t.len]
  BY DEF TapeFits, Tapes
<1>2. p.next \in [Node -> Node] /\ NoNode \notin Node
  BY NodesTyped DEF Pools
<1>3. CASE t.len = 0
  <2> DEFINE g == [p.next EXCEPT ![key] = key]
  <2>1. Linked(p, key, t) = [p EXCEPT !.next[key] = key]
    BY <1>1, <1>3 DEF Linked
  <2>2. /\ Linked(p, key, t).next = g /\ Linked(p, key, t).free = p.free /\ Linked(p, key, t) \in Pools
    BY <1>2, <2>1 DEF Pools
  <2>3. g[key] = key /\ \A n \in Node : n # key => g[n] = p.next[n]
    BY <1>2
  <2>4. Append(t.nodes, key) = <<key>>
    <3>1. t.nodes = <<>>
      BY <1>3, EmptyFields DEF TapeFits
    <3>2. QED BY <3>1, AppendedNone
  <2> HIDE DEF g
  <2>5. Ring(g, <<key>>)
    BY <2>3, RingOne
  <2>6. QED BY <2>2, <2>3, <2>4, <2>5
<1>4. CASE t.len # 0
  <2> DEFINE last == t.nodes[t.len]
             g == [p.next EXCEPT ![key] = p.next[last], ![last] = key]
  <2>1. last \in Node /\ last \in On(t.nodes) /\ last = t.tail /\ last # NoNode
    BY <1>1, <1>2, <1>4 DEF On
  <2> HIDE DEF last
  <2>2. Linked(p, key, t) = [p EXCEPT !.next[key] = p.next[last], !.next[last] = key]
    BY <2>1 DEF Linked
  <2>3. Linked(p, key, t).next = g /\ Linked(p, key, t).free = p.free /\ Linked(p, key, t) \in Pools
    <3> DEFINE one == [p EXCEPT !.next[key] = p.next[last]]
    <3>1. one.next = [p.next EXCEPT ![key] = p.next[last]] /\ one.free = p.free
          /\ one \in [next : [Node -> Node], free : Node \cup {NoNode}]
      BY <1>2, <2>1 DEF Pools
    <3>2. Linked(p, key, t) = [one EXCEPT !.next[last] = key]
      BY <2>2
    <3> HIDE DEF one
    <3>3. [one EXCEPT !.next[last] = key].next = [one.next EXCEPT ![last] = key]
      BY <3>1
    <3>4. [one.next EXCEPT ![last] = key] \in [Node -> Node]
      BY <3>1
    <3>5. [one EXCEPT !.next[last] = key].free = p.free
          /\ [one EXCEPT !.next[last] = key] \in [next : [Node -> Node], free : Node \cup {NoNode}]
      BY <3>1, <3>4
    <3>6. g = [one.next EXCEPT ![last] = key]
      BY <3>1
    <3>7. QED BY <3>2, <3>3, <3>5, <3>6 DEF Pools
  <2>4. \A n \in Node : n # key /\ n # last => g[n] = p.next[n]
    BY <1>2
  <2>5. g = [p.next EXCEPT ![key] = p.next[t.nodes[Len(t.nodes)]], ![t.nodes[Len(t.nodes)]] = key]
    BY <1>1 DEF last
  <2> HIDE DEF g
  <2>6. Ring(g, Append(t.nodes, key))
    BY <1>1, <1>2, <1>4, <2>5, RingAppended
  <2>7. QED BY <2>1, <2>3, <2>4, <2>6
<1>5. QED BY <1>3, <1>4

(* A tape with one more node.                                              *)
LEMMA LongerFields ==
    ASSUME NEW p \in Pools, NEW t \in Tapes, t.len = Len(t.nodes), Taken(p) \in Node
    PROVE  /\ Longer(p, t) \in Tapes /\ Longer(p, t).nodes = Append(t.nodes, Taken(p))
           /\ Longer(p, t).len = t.len + 1 /\ Longer(p, t).tail = Taken(p)
           /\ Longer(p, t).len = Len(Longer(p, t).nodes)
           /\ Longer(p, t).nodes[Longer(p, t).len] = Taken(p)
<1>1. t.nodes \in Seq(Node) /\ t.len \in Nat
  BY DEF Tapes
<1> DEFINE u == Append(t.nodes, Taken(p))
<1>2. u \in Seq(Node) /\ Len(u) = t.len + 1 /\ u[t.len + 1] = Taken(p)
  BY <1>1
<1> HIDE DEF u
<1>3. Longer(p, t) = [tail |-> Taken(p), len |-> t.len + 1, nodes |-> u]
  BY DEF Longer, u
<1>4. QED BY <1>1, <1>2, <1>3 DEF Tapes, u

(* append: the tape of x takes the first free node, and nothing else moves. *)
LEMMA GrownLaid ==
    ASSUME NEW p, NEW S, NEW T, NEW U, NEW F, Laid(p, S, T, F), NEW x \in S, p.free # NoNode,
           U[x] = Longer(p, T[x]), \A o \in S : o # x => U[o] = T[o]
    PROVE  Laid(Grown(p, T[x]), S, U, Tail(F))
<1> DEFINE t == T[x]
           key == Taken(p)
           v == Unlinked(p)
           w == Grown(p, t)
<1>1. p \in Pools /\ Ring(p.next, F) /\ p.free = (IF Len(F) = 0 THEN NoNode ELSE F[Len(F)])
  BY DEF Laid
<1>2. Len(F) > 0 /\ F \in Seq(Node) /\ key = F[1] /\ key \in On(F) /\ key \in Node
  BY <1>1, TakenFields
<1>3. /\ v \in Pools /\ Ring(v.next, Tail(F))
      /\ v.free = IF Len(Tail(F)) = 0 THEN NoNode ELSE Tail(F)[Len(Tail(F))]
      /\ \A n \in Node \ On(F) : v.next[n] = p.next[n]
  BY <1>1, UnlinkedFields
<1>4. On(Tail(F)) = On(F) \ {key} /\ Tail(F) \in Seq(Node)
  BY <1>1, <1>2, OnTail
<1>5. \A o \in S : TapeFits(p.next, T[o]) /\ T[o].nodes \in Seq(Node) /\ On(T[o].nodes) \subseteq Node
                   /\ On(T[o].nodes) \cap On(F) = {}
  <2> TAKE o \in S
  <2>1. TapeFits(p.next, T[o]) /\ On(T[o].nodes) \cap On(F) = {}
    BY DEF Laid
  <2>2. T[o].nodes \in Seq(Node)
    BY <2>1 DEF TapeFits, Tapes
  <2>3. QED BY <2>1, <2>2, NodesOn
<1>6. \A o \in S : TapeFits(v.next, T[o])
  <2> TAKE o \in S
  <2>1. Ring(v.next, T[o].nodes)
    <3>1. Ring(p.next, T[o].nodes)
      BY <1>5 DEF TapeFits
    <3>2. \A n \in On(T[o].nodes) : v.next[n] = p.next[n]
      BY <1>3, <1>5
    <3>3. QED BY <3>1, <3>2, RingStays
  <2>2. QED BY <1>5, <2>1 DEF TapeFits
<1>7. key \in Node \ On(t.nodes)
  BY <1>2, <1>5
<1>8. w = Linked(v, key, t)
  BY DEF Grown
<1>9. /\ w \in Pools /\ w.free = v.free /\ Ring(w.next, Append(t.nodes, key))
      /\ \A n \in Node \ (On(t.nodes) \cup {key}) : w.next[n] = v.next[n]
  <2> HIDE DEF v, w, t, key
  <2>1. TapeFits(v.next, t)
    BY <1>6 DEF t
  <2>2. QED BY <1>3, <1>7, <1>8, <2>1, LinkedFields
<1>10. /\ U[x] \in Tapes /\ U[x].nodes = Append(t.nodes, key) /\ U[x].len = t.len + 1 /\ U[x].tail = key
       /\ U[x].len = Len(U[x].nodes) /\ U[x].nodes[U[x].len] = key
       /\ t.len \in Nat
  <2>1. t \in Tapes /\ t.len = Len(t.nodes) /\ t.len \in Nat
    BY <1>5 DEF TapeFits, Tapes
  <2> HIDE DEF t, key
  <2>2. /\ Longer(p, t) \in Tapes /\ Longer(p, t).nodes = Append(t.nodes, Taken(p))
        /\ Longer(p, t).len = t.len + 1 /\ Longer(p, t).tail = Taken(p)
        /\ Longer(p, t).len = Len(Longer(p, t).nodes)
        /\ Longer(p, t).nodes[Longer(p, t).len] = Taken(p)
    BY <1>1, <1>2, <2>1, LongerFields DEF key
  <2>3. U[x] = Longer(p, t)
    BY DEF t
  <2>4. QED BY <2>1, <2>2, <2>3 DEF key
<1>11. On(U[x].nodes) = On(t.nodes) \cup {key}
  BY <1>2, <1>5, <1>10, OnAppended
<1> HIDE DEF v, w, t, key
<1>12. TapeFits(w.next, U[x])
  <2>1. Ring(w.next, U[x].nodes) /\ U[x].len # 0
    BY <1>9, <1>10
  <2>2. QED BY <1>10, <2>1 DEF TapeFits
<1>13. \A o \in S : o # x => On(T[o].nodes) \cap On(t.nodes) = {}
  BY DEF Laid, t
<1>14. \A o \in S : o # x => TapeFits(w.next, U[o])
  <2> SUFFICES ASSUME NEW o \in S, o # x PROVE TapeFits(w.next, U[o])
    OBVIOUS
  <2>1. Ring(v.next, T[o].nodes)
    BY <1>6 DEF TapeFits
  <2>2. \A n \in On(T[o].nodes) : w.next[n] = v.next[n]
    BY <1>2, <1>5, <1>9, <1>13
  <2>3. Ring(w.next, T[o].nodes)
    BY <2>1, <2>2, RingStays
  <2>4. QED BY <1>5, <2>3 DEF TapeFits
<1>15. Ring(w.next, Tail(F))
  <2>1. \A n \in On(Tail(F)) : n \in Node \ (On(t.nodes) \cup {key})
    BY <1>2, <1>4, <1>5, NodesOn DEF t
  <2>2. \A n \in On(Tail(F)) : w.next[n] = v.next[n]
    BY <1>9, <2>1
  <2>3. QED BY <1>3, <2>2, RingStays
<1>16. \A o, q \in S : o # q => On(U[o].nodes) \cap On(U[q].nodes) = {}
  <2>1. \A o, q \in S : o # q => On(T[o].nodes) \cap On(T[q].nodes) = {}
    BY DEF Laid
  <2>2. \A o \in S : o # x => U[o] = T[o] /\ key \notin On(T[o].nodes)
    BY <1>2, <1>5
  <2>3. QED BY <1>11, <1>13, <2>1, <2>2
<1>17. \A o \in S : On(U[o].nodes) \cap On(Tail(F)) = {}
  BY <1>4, <1>5, <1>11 DEF t
<1>18. \A n \in Node : n \in On(Tail(F)) \/ \E o \in S : n \in On(U[o].nodes)
  <2> SUFFICES ASSUME NEW n \in Node PROVE n \in On(Tail(F)) \/ \E o \in S : n \in On(U[o].nodes)
    OBVIOUS
  <2>1. CASE n \in On(F)
    BY <1>4, <1>11, <2>1
  <2>2. CASE \E o \in S : n \in On(T[o].nodes)
    <3>1. PICK o \in S : n \in On(T[o].nodes)
      BY <2>2
    <3>2. n \in On(U[o].nodes)
      BY <1>11, <3>1 DEF t
    <3>3. QED BY <3>2
  <2>3. QED BY <2>1, <2>2 DEF Laid
<1>19. QED BY <1>3, <1>9, <1>12, <1>14, <1>15, <1>16, <1>17, <1>18 DEF Laid, w, t

(* Nothing changes a sequence it is joined to.                             *)
LEMMA NoneJoined ==
    ASSUME NEW s \in Seq(Node), NEW t \in Seq(Node)
    PROVE  (Len(t) = 0 => s \o t = s) /\ (Len(s) = 0 => s \o t = t)
  OBVIOUS

(* An empty tape is a tape.                                                *)
LEMMA EmptyFits ==
    ASSUME NEW f
    PROVE  TapeFits(f, Empty)
<1>1. Empty.tail = NoNode /\ Empty.len = 0 /\ Empty.nodes = <<>>
  BY EmptyFields
<1>2. Empty \in Tapes
  BY DEF Empty, Tapes
<1>3. <<>> \in Seq(Node) /\ Len(<<>>) = 0
  OBVIOUS
<1>4. Ring(f, Empty.nodes)
  BY <1>1, <1>3, RingNone
<1>5. QED BY <1>1, <1>2, <1>3, <1>4 DEF TapeFits

(* Pool::release joins the rings of the free nodes and of the tape.        *)
LEMMA ReleasedFields ==
    ASSUME NEW p \in Pools, NEW F, Ring(p.next, F), p.free = (IF Len(F) = 0 THEN NoNode ELSE F[Len(F)]),
           NEW t, TapeFits(p.next, t), On(F) \cap On(t.nodes) = {}
    PROVE  /\ Released(p, t) \in Pools /\ Ring(Released(p, t).next, F \o t.nodes)
           /\ F \o t.nodes \in Seq(Node)
           /\ Released(p, t).free =
                 IF Len(F \o t.nodes) = 0 THEN NoNode ELSE (F \o t.nodes)[Len(F \o t.nodes)]
           /\ \A n \in Node \ (On(F) \cup On(t.nodes)) : Released(p, t).next[n] = p.next[n]
<1> DEFINE s == t.nodes
           k == Len(F)
           m == Len(s)
           u == F \o s
<1>1. t \in Tapes /\ t.len = m /\ Ring(p.next, s) /\ s \in Seq(Node) /\ m \in Nat
      /\ t.tail = (IF m = 0 THEN NoNode ELSE s[m]) /\ (m = 0 => s = <<>>)
  BY EmptyFields DEF TapeFits, Tapes
<1>2. F \in Seq(Node) /\ k \in Nat /\ NoNode \notin Node /\ p.next \in [Node -> Node]
      /\ p.free \in Node \cup {NoNode}
  BY NodesTyped DEF Ring, Pools
<1>3. /\ u \in Seq(Node) /\ Len(u) = k + m
      /\ \A i \in 1 .. k : u[i] = F[i]
      /\ \A i \in 1 .. m : u[k + i] = s[i]
  BY <1>1, <1>2
<1>4. /\ k > 0 => k \in 1 .. k /\ F[k] \in Node /\ F[k] \in On(F) /\ p.free = F[k]
      /\ m > 0 => m \in 1 .. m /\ s[m] \in Node /\ s[m] \in On(s) /\ t.tail = s[m]
  BY <1>1, <1>2, NodesOn
<1>5. CASE m = 0
  <2>1. Released(p, t) = p
    BY <1>1, <1>5 DEF Released
  <2>2. u = F
    BY <1>1, <1>2, <1>5, NoneJoined
  <2> HIDE DEF u, k, s
  <2>3. QED BY <1>2, <2>1, <2>2 DEF u, k, s
<1>6. CASE m > 0 /\ k = 0
  <2>1. t.tail # NoNode /\ p.free = NoNode
    BY <1>2, <1>4, <1>6
  <2>2. Released(p, t) = [p EXCEPT !.free = t.tail]
    BY <2>1 DEF Released
  <2>3. Released(p, t) \in Pools /\ Released(p, t).next = p.next /\ Released(p, t).free = s[m]
    BY <1>4, <1>6, <2>2 DEF Pools
  <2>4. u = s
    BY <1>1, <1>2, <1>6, NoneJoined
  <2> HIDE DEF u, k, s, m
  <2>5. m # 0
    BY <1>1, <1>6
  <2>6. QED BY <1>1, <2>3, <2>4, <2>5 DEF u, k, s, m
<1>7. CASE m > 0 /\ k > 0
  <2> DEFINE last == s[m]
             free == F[k]
             one == [p EXCEPT !.next[last] = p.next[free]]
             g == [p.next EXCEPT ![last] = p.next[free], ![free] = p.next[last]]
  <2>1. last \in Node /\ free \in Node /\ t.tail = last /\ p.free = free /\ last # NoNode /\ free # NoNode
        /\ last # free /\ last \in On(s) /\ free \in On(F)
    BY <1>2, <1>4, <1>7
  <2> HIDE DEF last, free
  <2>2. Released(p, t) =
          [p EXCEPT !.next[last] = p.next[free], !.next[free] = p.next[last], !.free = last]
    BY <2>1 DEF Released
  <2>3. one.next = [p.next EXCEPT ![last] = p.next[free]] /\ one.free = p.free
        /\ one \in [next : [Node -> Node], free : Node \cup {NoNode}]
    BY <1>2, <2>1 DEF Pools
  <2> DEFINE two == [one EXCEPT !.next[free] = p.next[last]]
  <2>4. Released(p, t) = [two EXCEPT !.free = last]
    BY <2>2
  <2>5. two.next = [one.next EXCEPT ![free] = p.next[last]]
        /\ two \in [next : [Node -> Node], free : Node \cup {NoNode}]
    <3> HIDE DEF one
    <3>1. [one.next EXCEPT ![free] = p.next[last]] \in [Node -> Node]
      BY <1>2, <2>1, <2>3
    <3>2. QED BY <2>3, <3>1
  <2>6. two.next = g /\ g \in [Node -> Node]
    BY <1>2, <2>1, <2>3, <2>5
  <2>7. Released(p, t).next = g /\ Released(p, t).free = last /\ Released(p, t) \in Pools
    <3> HIDE DEF two, g
    <3>1. QED BY <2>1, <2>4, <2>5, <2>6 DEF Pools
  <2>8. \A n \in Node : n # last /\ n # free => g[n] = p.next[n]
    BY <1>2
  <2>9. g = [p.next EXCEPT ![s[Len(s)]] = p.next[F[Len(F)]], ![F[Len(F)]] = p.next[s[Len(s)]]]
    BY DEF last, free
  <2> HIDE DEF g
  <2>10. Ring(g, u)
    <3> HIDE DEF s
    <3>1. Len(F) > 0 /\ Len(s) > 0 /\ On(F) \cap On(s) = {}
      BY <1>7 DEF s
    <3>2. QED BY <1>1, <1>2, <2>9, <3>1, RingJoined
  <2>11. m \in 1 .. m /\ Len(u) # 0
    BY <1>2, <1>3, <1>4, <1>7
  <2>12. u[Len(u)] = last
    BY <1>3, <2>11 DEF last
  <2> HIDE DEF u, s
  <2>13. QED BY <1>3, <2>1, <2>7, <2>8, <2>10, <2>11, <2>12 DEF u, s
<1>8. QED BY <1>1, <1>2, <1>5, <1>6, <1>7

(* release: the tape of x goes back into the free ring. *)
LEMMA ReleasedLaid ==
    ASSUME NEW p, NEW S, NEW T, NEW U, NEW F, Laid(p, S, T, F), NEW x \in S,
           U[x] = Empty, \A o \in S : o # x => U[o] = T[o]
    PROVE  Laid(Released(p, T[x]), S, U, F \o T[x].nodes)
<1> DEFINE t == T[x]
           w == Released(p, t)
           G == F \o t.nodes
<1>1. p \in Pools /\ Ring(p.next, F) /\ p.free = (IF Len(F) = 0 THEN NoNode ELSE F[Len(F)])
      /\ F \in Seq(Node)
  BY DEF Laid, Ring
<1>2. \A o \in S : TapeFits(p.next, T[o]) /\ T[o].nodes \in Seq(Node) /\ On(T[o].nodes) \subseteq Node
                   /\ On(T[o].nodes) \cap On(F) = {}
  <2> TAKE o \in S
  <2>1. TapeFits(p.next, T[o]) /\ On(T[o].nodes) \cap On(F) = {}
    BY DEF Laid
  <2>2. T[o].nodes \in Seq(Node)
    BY <2>1 DEF TapeFits, Tapes
  <2>3. QED BY <2>1, <2>2, NodesOn
<1>3. \A o, q \in S : o # q => On(T[o].nodes) \cap On(T[q].nodes) = {}
  BY DEF Laid
<1> HIDE DEF t
<1>4. TapeFits(p.next, t) /\ On(F) \cap On(t.nodes) = {} /\ t.nodes \in Seq(Node)
  BY <1>2 DEF t
<1>5. /\ w \in Pools /\ Ring(w.next, G) /\ G \in Seq(Node)
      /\ w.free = IF Len(G) = 0 THEN NoNode ELSE G[Len(G)]
      /\ \A n \in Node \ (On(F) \cup On(t.nodes)) : w.next[n] = p.next[n]
  BY <1>1, <1>4, ReleasedFields
<1>6. On(G) = On(F) \cup On(t.nodes)
  BY <1>1, <1>4, OnJoined
<1> HIDE DEF w, G
<1>7. On(U[x].nodes) = {} /\ TapeFits(w.next, U[x])
  BY EmptyFits, EmptyFields, OnNone
<1>8. \A o \in S : o # x => TapeFits(w.next, U[o])
  <2> SUFFICES ASSUME NEW o \in S, o # x PROVE TapeFits(w.next, U[o])
    OBVIOUS
  <2>1. Ring(p.next, T[o].nodes)
    BY <1>2 DEF TapeFits
  <2>2. \A n \in On(T[o].nodes) : w.next[n] = p.next[n]
    BY <1>2, <1>3, <1>5 DEF t
  <2>3. Ring(w.next, T[o].nodes)
    BY <2>1, <2>2, RingStays
  <2>4. QED BY <1>2, <2>3 DEF TapeFits
<1>9. \A o, q \in S : o # q => On(U[o].nodes) \cap On(U[q].nodes) = {}
  BY <1>3, <1>7
<1>10. \A o \in S : On(U[o].nodes) \cap On(G) = {}
  BY <1>2, <1>3, <1>6, <1>7 DEF t
<1>11. \A n \in Node : n \in On(G) \/ \E o \in S : n \in On(U[o].nodes)
  <2> SUFFICES ASSUME NEW n \in Node PROVE n \in On(G) \/ \E o \in S : n \in On(U[o].nodes)
    OBVIOUS
  <2>1. CASE n \in On(F)
    BY <1>6, <2>1
  <2>2. CASE \E o \in S : n \in On(T[o].nodes)
    <3>1. PICK o \in S : n \in On(T[o].nodes)
      BY <2>2
    <3>2. QED BY <1>6, <3>1 DEF t
  <2>3. QED BY <2>1, <2>2 DEF Laid
<1>12. \A o \in S : TapeFits(w.next, U[o])
  BY <1>7, <1>8
<1>13. QED BY <1>5, <1>9, <1>10, <1>11, <1>12 DEF Laid, w, G, t

(* A tape passes from one owner to another. *)
LEMMA MovedLaid ==
    ASSUME NEW p, NEW S, NEW T, NEW U, NEW F, Laid(p, S, T, F), NEW x \in S, NEW y \in S, x # y,
           T[y] = Empty, U[x] = Empty, U[y] = T[x], \A o \in S : o # x /\ o # y => U[o] = T[o]
    PROVE  Laid(p, S, U, F)
<1>1. On(T[y].nodes) = {} /\ On(U[x].nodes) = {} /\ TapeFits(p.next, U[x])
  BY EmptyFits, EmptyFields, OnNone
<1>2. \A o \in S : TapeFits(p.next, U[o])
  BY <1>1 DEF Laid
<1>3. \A o, q \in S : o # q => On(U[o].nodes) \cap On(U[q].nodes) = {}
  <2>1. \A o, q \in S : o # q => On(T[o].nodes) \cap On(T[q].nodes) = {}
    BY DEF Laid
  <2>2. QED BY <1>1, <2>1
<1>4. \A o \in S : On(U[o].nodes) \cap On(F) = {}
  <2>1. \A o \in S : On(T[o].nodes) \cap On(F) = {}
    BY DEF Laid
  <2>2. QED BY <1>1, <2>1
<1>5. \A n \in Node : n \in On(F) \/ \E o \in S : n \in On(U[o].nodes)
  <2> SUFFICES ASSUME NEW n \in Node, n \notin On(F) PROVE \E o \in S : n \in On(U[o].nodes)
    OBVIOUS
  <2>1. PICK o \in S : n \in On(T[o].nodes)
    BY DEF Laid
  <2>2. CASE o = x
    BY <2>1, <2>2
  <2>3. CASE o # x
    BY <1>1, <2>1, <2>3
  <2>4. QED BY <2>2, <2>3
<1>6. QED BY <1>2, <1>3, <1>4, <1>5 DEF Laid

(* try_new: all nodes are one free ring. *)
LEMMA NewLaid ==
    ASSUME NEW S, NEW T, \A o \in S : T[o] = Empty
    PROVE  Laid(NewPool, S, T, [i \in 1 .. Capacity |-> i])
<1> DEFINE F == [i \in 1 .. Capacity |-> i]
           f == [n \in Node |-> IF n = Capacity THEN 1 ELSE n + 1]
<1>1. Capacity \in Nat /\ Capacity > 0
  BY NodesTyped
<1>2. F \in Seq(Node) /\ Len(F) = Capacity /\ \A i \in 1 .. Capacity : F[i] = i
  BY <1>1 DEF Node
<1>3. f \in [Node -> Node] /\ \A n \in 1 .. Capacity : f[n] = IF n = Capacity THEN 1 ELSE n + 1
  BY <1>1 DEF Node
<1>4. NewPool.next = f /\ NewPool.free = Capacity /\ NewPool \in Pools
  BY <1>1, <1>3 DEF NewPool, Pools, Node
<1> HIDE DEF F, f
<1>5. Ring(f, F)
  <2>1. \A i \in 1 .. Capacity : i # Capacity => i + 1 \in 1 .. Capacity
    BY <1>1
  <2>2. \A i \in 1 .. Len(F) : f[F[i]] = IF i = Len(F) THEN F[1] ELSE F[i + 1]
    BY <1>1, <1>2, <1>3, <2>1
  <2>3. QED BY <1>2, <2>2 DEF Ring
<1>6. On(F) = Node
  BY <1>2 DEF On, Node
<1>7. F[Len(F)] = Capacity /\ Len(F) # 0
  BY <1>1, <1>2
<1>8. \A o \in S : TapeFits(f, T[o]) /\ On(T[o].nodes) = {}
  BY EmptyFits, EmptyFields, OnNone
<1>9. QED BY <1>4, <1>5, <1>6, <1>7, <1>8 DEF Laid, F

-----------------------------------------------------------------------------
(* Who has the tapes *)

(* Who may own a tape: a builder, a finished frame, a reply. *)
Owners == ({"building", "pending"} \X Conns) \cup ({"kept"} \X Tapes)

(* Their tapes. *)
Held(B, P, K) ==
    [o \in Owners |->
        IF o[1] = "building" THEN B[o[2]]
        ELSE IF o[1] = "pending" THEN P[o[2]]
        ELSE IF o[2] \in K THEN o[2] ELSE Empty]

(* The owners, and the tapes they have.                                    *)
LEMMA OwnersAre ==
    ASSUME NEW B, NEW P, NEW K
    PROVE  /\ \A c \in Conns : <<"building", c>> \in Owners /\ Held(B, P, K)[<<"building", c>>] = B[c]
           /\ \A c \in Conns : <<"pending", c>> \in Owners /\ Held(B, P, K)[<<"pending", c>>] = P[c]
           /\ \A t \in Tapes : /\ <<"kept", t>> \in Owners
                               /\ Held(B, P, K)[<<"kept", t>>] = IF t \in K THEN t ELSE Empty
           /\ \A o \in Owners : \/ \E c \in Conns : o = <<"building", c>>
                                \/ \E c \in Conns : o = <<"pending", c>>
                                \/ \E t \in Tapes : o = <<"kept", t>>
<1>1. \A c \in Conns : <<"building", c>> \in Owners /\ Held(B, P, K)[<<"building", c>>] = B[c]
  BY DEF Owners, Held
<1>2. \A c \in Conns : <<"pending", c>> \in Owners /\ Held(B, P, K)[<<"pending", c>>] = P[c]
  BY DEF Owners, Held
<1>3. \A t \in Tapes : /\ <<"kept", t>> \in Owners
                       /\ Held(B, P, K)[<<"kept", t>>] = IF t \in K THEN t ELSE Empty
  BY DEF Owners, Held
<1>4. \A o \in Owners : \/ \E c \in Conns : o = <<"building", c>>
                        \/ \E c \in Conns : o = <<"pending", c>>
                        \/ \E t \in Tapes : o = <<"kept", t>>
  BY DEF Owners
<1>5. QED BY <1>1, <1>2, <1>3, <1>4

(* A builder's tape changes, and no other.                                 *)
LEMMA BuildingHeld ==
    ASSUME NEW B, NEW P, NEW K, NEW c \in Conns, NEW C, NEW t,
           C[c] = t, \A d \in Conns : d # c => C[d] = B[d]
    PROVE  /\ Held(C, P, K)[<<"building", c>>] = t
           /\ \A o \in Owners : o # <<"building", c>> => Held(C, P, K)[o] = Held(B, P, K)[o]
<1>1. Held(C, P, K)[<<"building", c>>] = t
  BY OwnersAre
<1>2. ASSUME NEW o \in Owners, o # <<"building", c>> PROVE Held(C, P, K)[o] = Held(B, P, K)[o]
  <2>1. CASE \E d \in Conns : o = <<"building", d>>
    <3>1. PICK d \in Conns : o = <<"building", d>>
      BY <2>1
    <3>2. Held(C, P, K)[o] = C[d] /\ Held(B, P, K)[o] = B[d]
      BY <3>1, OwnersAre
    <3>3. QED BY <1>2, <3>1, <3>2
  <2>2. CASE \E d \in Conns : o = <<"pending", d>>
    <3>1. PICK d \in Conns : o = <<"pending", d>>
      BY <2>2
    <3>2. Held(C, P, K)[o] = P[d] /\ Held(B, P, K)[o] = P[d]
      BY <3>1, OwnersAre
    <3>3. QED BY <1>2, <3>1, <3>2
  <2>3. CASE \E u \in Tapes : o = <<"kept", u>>
    <3>1. PICK u \in Tapes : o = <<"kept", u>>
      BY <2>3
    <3>2. Held(C, P, K)[o] = Held(B, P, K)[o]
      BY <3>1, OwnersAre
    <3>3. QED BY <3>2
  <2>4. QED BY <2>1, <2>2, <2>3, OwnersAre
<1>3. QED BY <1>1, <1>2

(* A finished frame changes, and nothing else.                             *)
LEMMA PendingHeld ==
    ASSUME NEW B, NEW P, NEW K, NEW c \in Conns, NEW C, NEW t,
           C[c] = t, \A d \in Conns : d # c => C[d] = P[d]
    PROVE  /\ Held(B, C, K)[<<"pending", c>>] = t
           /\ \A o \in Owners : o # <<"pending", c>> => Held(B, C, K)[o] = Held(B, P, K)[o]
<1>1. Held(B, C, K)[<<"pending", c>>] = t
  BY OwnersAre
<1>2. ASSUME NEW o \in Owners, o # <<"pending", c>> PROVE Held(B, C, K)[o] = Held(B, P, K)[o]
  <2>1. CASE \E d \in Conns : o = <<"building", d>>
    <3>1. PICK d \in Conns : o = <<"building", d>>
      BY <2>1
    <3>2. Held(B, C, K)[o] = B[d] /\ Held(B, P, K)[o] = B[d]
      BY <3>1, OwnersAre
    <3>3. QED BY <1>2, <3>1, <3>2
  <2>2. CASE \E d \in Conns : o = <<"pending", d>>
    <3>1. PICK d \in Conns : o = <<"pending", d>>
      BY <2>2
    <3>2. Held(B, C, K)[o] = C[d] /\ Held(B, P, K)[o] = P[d]
      BY <3>1, OwnersAre
    <3>3. QED BY <1>2, <3>1, <3>2
  <2>3. CASE \E u \in Tapes : o = <<"kept", u>>
    <3>1. PICK u \in Tapes : o = <<"kept", u>>
      BY <2>3
    <3>2. Held(B, C, K)[o] = Held(B, P, K)[o]
      BY <3>1, OwnersAre
    <3>3. QED BY <3>2
  <2>4. QED BY <2>1, <2>2, <2>3, OwnersAre
<1>3. QED BY <1>1, <1>2

(* The owner of a kept tape, and the kept tapes with one more or one less. *)
Keeper(t) == <<"kept", t>>
More(K, t) == K \cup {t}
Less(K, t) == K \ {t}

(* A reply gets a tape that no reply had.                                  *)
LEMMA KeptMore ==
    ASSUME NEW B, NEW P, NEW K
    PROVE  \A t \in Tapes :
              /\ Held(B, P, More(K, t))[Keeper(t)] = t
              /\ \A o \in Owners : o # Keeper(t) => Held(B, P, More(K, t))[o] = Held(B, P, K)[o]
<1> TAKE t \in Tapes
<1> DEFINE L == K \cup {t}
<1>1. Held(B, P, L)[<<"kept", t>>] = t
  BY OwnersAre
<1>2. ASSUME NEW o \in Owners, o # <<"kept", t>> PROVE Held(B, P, L)[o] = Held(B, P, K)[o]
  <2>1. CASE \E c \in Conns : o = <<"building", c>>
    <3>1. PICK c \in Conns : o = <<"building", c>>
      BY <2>1
    <3> HIDE DEF L
    <3>2. Held(B, P, L)[o] = B[c] /\ Held(B, P, K)[o] = B[c]
      BY <3>1, OwnersAre
    <3>3. QED BY <3>2
  <2>2. CASE \E c \in Conns : o = <<"pending", c>>
    <3>1. PICK c \in Conns : o = <<"pending", c>>
      BY <2>2
    <3> HIDE DEF L
    <3>2. Held(B, P, L)[o] = P[c] /\ Held(B, P, K)[o] = P[c]
      BY <3>1, OwnersAre
    <3>3. QED BY <3>2
  <2>3. CASE \E u \in Tapes : o = <<"kept", u>>
    <3>1. PICK u \in Tapes : o = <<"kept", u>>
      BY <2>3
    <3>2. u # t
      BY <1>2, <3>1
    <3>3. u \in L <=> u \in K
      BY <3>2
    <3> HIDE DEF L
    <3>4. Held(B, P, L)[o] = (IF u \in L THEN u ELSE Empty) /\ Held(B, P, K)[o] = (IF u \in K THEN u ELSE Empty)
      BY <3>1, OwnersAre
    <3>5. QED BY <3>3, <3>4
  <2>4. QED BY <2>1, <2>2, <2>3, OwnersAre
<1>3. QED BY <1>1, <1>2 DEF Keeper, More

(* A reply is done with its tape.                                          *)
LEMMA KeptLess ==
    ASSUME NEW B, NEW P, NEW K
    PROVE  \A t \in Tapes :
              /\ Held(B, P, Less(K, t))[Keeper(t)] = Empty
              /\ \A o \in Owners : o # Keeper(t) => Held(B, P, Less(K, t))[o] = Held(B, P, K)[o]
<1> TAKE t \in Tapes
<1> DEFINE L == K \ {t}
<1>1. Held(B, P, L)[<<"kept", t>>] = Empty
  BY OwnersAre
<1>2. ASSUME NEW o \in Owners, o # <<"kept", t>> PROVE Held(B, P, L)[o] = Held(B, P, K)[o]
  <2>1. CASE \E c \in Conns : o = <<"building", c>>
    <3>1. PICK c \in Conns : o = <<"building", c>>
      BY <2>1
    <3> HIDE DEF L
    <3>2. Held(B, P, L)[o] = B[c] /\ Held(B, P, K)[o] = B[c]
      BY <3>1, OwnersAre
    <3>3. QED BY <3>2
  <2>2. CASE \E c \in Conns : o = <<"pending", c>>
    <3>1. PICK c \in Conns : o = <<"pending", c>>
      BY <2>2
    <3> HIDE DEF L
    <3>2. Held(B, P, L)[o] = P[c] /\ Held(B, P, K)[o] = P[c]
      BY <3>1, OwnersAre
    <3>3. QED BY <3>2
  <2>3. CASE \E u \in Tapes : o = <<"kept", u>>
    <3>1. PICK u \in Tapes : o = <<"kept", u>>
      BY <2>3
    <3>2. u # t
      BY <1>2, <3>1
    <3>3. u \in L <=> u \in K
      BY <3>2
    <3> HIDE DEF L
    <3>4. Held(B, P, L)[o] = (IF u \in L THEN u ELSE Empty) /\ Held(B, P, K)[o] = (IF u \in K THEN u ELSE Empty)
      BY <3>1, OwnersAre
    <3>5. QED BY <3>3, <3>4
  <2>4. QED BY <2>1, <2>2, <2>3, OwnersAre
<1>3. QED BY <1>1, <1>2 DEF Keeper, Less

(* The nodes are laid out for these tapes. *)
Stored(p, B, P, K) == \E F : Laid(p, Owners, Held(B, P, K), F)

TapeTyped(B, P, K) ==
    /\ B \in [Conns -> Tapes] /\ P \in [Conns -> Tapes]
    /\ K \subseteq Tapes /\ Empty \notin K

(* What is stored is a pool, and tapes that fit it.                        *)
LEMMA StoredTapes ==
    ASSUME NEW p, NEW B, NEW P, NEW K, TapeTyped(B, P, K), Stored(p, B, P, K)
    PROVE  /\ p \in Pools
           /\ \A c \in Conns : TapeFits(p.next, B[c]) /\ TapeFits(p.next, P[c])
           /\ \A t \in K : TapeFits(p.next, t) /\ t.len > 0
<1>1. PICK F : Laid(p, Owners, Held(B, P, K), F)
  BY DEF Stored
<1>2. \A o \in Owners : TapeFits(p.next, Held(B, P, K)[o])
  BY <1>1 DEF Laid
<1>3. \A c \in Conns : TapeFits(p.next, B[c]) /\ TapeFits(p.next, P[c])
  <2> TAKE c \in Conns
  <2>1. <<"building", c>> \in Owners /\ Held(B, P, K)[<<"building", c>>] = B[c]
    BY OwnersAre
  <2>2. <<"pending", c>> \in Owners /\ Held(B, P, K)[<<"pending", c>>] = P[c]
    BY OwnersAre
  <2>3. QED BY <1>2, <2>1, <2>2
<1>4. \A t \in K : TapeFits(p.next, t)
  <2> TAKE t \in K
  <2>1. <<"kept", t>> \in Owners /\ Held(B, P, K)[<<"kept", t>>] = t
    BY OwnersAre DEF TapeTyped
  <2>2. QED BY <1>2, <2>1
<1>5. \A t \in K : t.len > 0
  <2> TAKE t \in K
  <2>1. t # Empty /\ TapeFits(p.next, t) /\ t.len \in Nat
    BY <1>4 DEF TapeTyped, Tapes
  <2>2. QED BY <2>1 DEF TapeFits
<1>6. QED BY <1>1, <1>3, <1>4, <1>5 DEF Laid

(* A tape that another owner has is not kept by a reply. *)
LEMMA NotKept ==
    ASSUME NEW p, NEW B, NEW P, NEW K, TapeTyped(B, P, K), Stored(p, B, P, K), NEW c \in Conns, NEW t,
           t = B[c] \/ t = P[c], t # Empty
    PROVE  t \notin K
<1>1. SUFFICES ASSUME t \in K PROVE FALSE
  OBVIOUS
<1>2. PICK F : Laid(p, Owners, Held(B, P, K), F)
  BY DEF Stored
<1> DEFINE T == Held(B, P, K)
<1>3. t \in Tapes /\ <<"kept", t>> \in Owners /\ T[<<"kept", t>>] = t
  BY <1>1, OwnersAre DEF TapeTyped
<1>4. \E o \in Owners : o # <<"kept", t>> /\ T[o] = t
  <2>1. CASE t = B[c]
    <3>1. <<"building", c>> \in Owners /\ T[<<"building", c>>] = t /\ <<"building", c>> # <<"kept", t>>
      BY <2>1, OwnersAre
    <3>2. QED BY <3>1
  <2>2. CASE t = P[c]
    <3>1. <<"pending", c>> \in Owners /\ T[<<"pending", c>>] = t /\ <<"pending", c>> # <<"kept", t>>
      BY <2>2, OwnersAre
    <3>2. QED BY <3>1
  <2>3. QED BY <2>1, <2>2
<1> HIDE DEF T
<1>5. On(t.nodes) \cap On(t.nodes) = {}
  BY <1>2, <1>3, <1>4 DEF Laid, T
<1>6. t.len = Len(t.nodes) /\ t.len > 0
  BY <1>1, StoredTapes DEF TapeFits
<1>7. t.nodes \in Seq(Node)
  BY <1>3 DEF Tapes
<1>8. t.nodes[1] \in On(t.nodes)
  BY <1>6, <1>7, NodesOn
<1>9. QED BY <1>5, <1>8

(* A value is written to the first free node.                              *)
LEMMA PushStored ==
    ASSUME NEW p, NEW B, NEW P, NEW K, TapeTyped(B, P, K), Stored(p, B, P, K), NEW c \in Conns,
           p.free # NoNode
    PROVE  LET C == [B EXCEPT ![c] = Longer(p, B[c])]
           IN  TapeTyped(C, P, K) /\ Stored(Grown(p, B[c]), C, P, K)
<1> DEFINE C == [B EXCEPT ![c] = Longer(p, B[c])]
           x == <<"building", c>>
<1>1. PICK F : Laid(p, Owners, Held(B, P, K), F)
  BY DEF Stored
<1>2. x \in Owners /\ Held(B, P, K)[x] = B[c] /\ DOMAIN B = Conns
  BY OwnersAre DEF TapeTyped
<1>3. Held(C, P, K)[x] = Longer(p, B[c])
      /\ \A o \in Owners : o # x => Held(C, P, K)[o] = Held(B, P, K)[o]
  <2>1. C[c] = Longer(p, B[c]) /\ \A d \in Conns : d # c => C[d] = B[d]
    BY <1>2
  <2> HIDE DEF C
  <2>2. QED BY <2>1, BuildingHeld
<1>4. Taken(p) \in Node /\ B[c] \in Tapes /\ B[c].len = Len(B[c].nodes) /\ p \in Pools
  <2>1. B[c] \in Tapes /\ B[c].len = Len(B[c].nodes) /\ p \in Pools
    BY StoredTapes DEF TapeFits
  <2>2. Ring(p.next, F) /\ p.free = (IF Len(F) = 0 THEN NoNode ELSE F[Len(F)])
    BY <1>1 DEF Laid
  <2>3. Taken(p) \in Node
    BY <2>1, <2>2, TakenFields
  <2>4. QED BY <2>1, <2>3
<1>5. Longer(p, B[c]) \in Tapes
  BY <1>4, LongerFields
<1>6. TapeTyped(C, P, K)
  BY <1>5 DEF TapeTyped
<1> HIDE DEF C, x
<1>7. Laid(Grown(p, Held(B, P, K)[x]), Owners, Held(C, P, K), Tail(F))
  BY <1>1, <1>2, <1>3, GrownLaid
<1>8. Stored(Grown(p, B[c]), C, P, K)
  BY <1>2, <1>7 DEF Stored
<1>9. QED BY <1>6, <1>8 DEF C

(* Tapes that are handed on or dropped stay tapes.                         *)
LEMMA TypedEmpty ==
    ASSUME NEW B, NEW P, NEW K, TapeTyped(B, P, K), NEW c \in Conns
    PROVE  /\ TapeTyped([B EXCEPT ![c] = Empty], P, K)
           /\ TapeTyped(B, [P EXCEPT ![c] = Empty], K)
           /\ \A t \in Tapes \ {Empty} : TapeTyped(B, P, K \cup {t})
           /\ \A t \in Tapes : TapeTyped(B, [P EXCEPT ![c] = t], K)
           /\ \A t : TapeTyped(B, P, K \ {t})
<1>1. Empty \in Tapes
  BY EmptyFits DEF TapeFits
<1>2. QED BY <1>1 DEF TapeTyped

(* A frame under way or a finished one is dropped.                         *)
LEMMA DropStored ==
    ASSUME NEW p, NEW B, NEW P, NEW K, TapeTyped(B, P, K), Stored(p, B, P, K), NEW c \in Conns
    PROVE  /\ Stored(Released(p, B[c]), [B EXCEPT ![c] = Empty], P, K)
           /\ Stored(Released(p, P[c]), B, [P EXCEPT ![c] = Empty], K)
<1>1. PICK F : Laid(p, Owners, Held(B, P, K), F)
  BY DEF Stored
<1>2. DOMAIN B = Conns /\ DOMAIN P = Conns /\ K \subseteq Tapes
  BY DEF TapeTyped
<1>3. Stored(Released(p, B[c]), [B EXCEPT ![c] = Empty], P, K)
  <2> DEFINE x == <<"building", c>>
             C == [B EXCEPT ![c] = Empty]
  <2>1. x \in Owners /\ Held(B, P, K)[x] = B[c]
    BY OwnersAre
  <2>2. Held(C, P, K)[x] = Empty /\ \A o \in Owners : o # x => Held(C, P, K)[o] = Held(B, P, K)[o]
    <3>1. C[c] = Empty /\ \A d \in Conns : d # c => C[d] = B[d]
      BY <1>2
    <3> HIDE DEF C
    <3>2. QED BY <3>1, BuildingHeld
  <2> HIDE DEF x, C
  <2>3. Laid(Released(p, Held(B, P, K)[x]), Owners, Held(C, P, K), F \o Held(B, P, K)[x].nodes)
    BY <1>1, <2>1, <2>2, ReleasedLaid
  <2>4. QED BY <2>1, <2>3 DEF Stored, C
<1>4. Stored(Released(p, P[c]), B, [P EXCEPT ![c] = Empty], K)
  <2> DEFINE x == <<"pending", c>>
             C == [P EXCEPT ![c] = Empty]
  <2>1. x \in Owners /\ Held(B, P, K)[x] = P[c]
    BY OwnersAre
  <2>2. Held(B, C, K)[x] = Empty /\ \A o \in Owners : o # x => Held(B, C, K)[o] = Held(B, P, K)[o]
    <3>1. C[c] = Empty /\ \A d \in Conns : d # c => C[d] = P[d]
      BY <1>2
    <3> HIDE DEF C
    <3>2. QED BY <3>1, PendingHeld
  <2> HIDE DEF x, C
  <2>3. Laid(Released(p, Held(B, P, K)[x]), Owners, Held(B, C, K), F \o Held(B, P, K)[x].nodes)
    BY <1>1, <2>1, <2>2, ReleasedLaid
  <2>4. QED BY <2>1, <2>3 DEF Stored, C
<1>5. QED BY <1>3, <1>4

(* The owner of a reply is done with it. *)
LEMMA DropKept ==
    ASSUME NEW p, NEW B, NEW P, NEW K, TapeTyped(B, P, K), Stored(p, B, P, K), NEW t \in K
    PROVE  Stored(Released(p, t), B, P, K \ {t})
<1> DEFINE x == Keeper(t)
           C == Less(K, t)
<1>1. PICK F : Laid(p, Owners, Held(B, P, K), F)
  BY DEF Stored
<1>2. t \in Tapes
  BY DEF TapeTyped
<1>3. x \in Owners /\ Held(B, P, K)[x] = t
  BY <1>2, OwnersAre DEF Keeper
<1>4. Held(B, P, C)[x] = Empty /\ \A o \in Owners : o # x => Held(B, P, C)[o] = Held(B, P, K)[o]
  BY <1>2, KeptLess
<1> HIDE DEF C, x
<1>5. Laid(Released(p, Held(B, P, K)[x]), Owners, Held(B, P, C), F \o Held(B, P, K)[x].nodes)
  BY <1>1, <1>3, <1>4, ReleasedLaid
<1>6. Stored(Released(p, t), B, P, C)
  BY <1>3, <1>5 DEF Stored
<1>7. QED BY <1>6 DEF C, Less

(* A finished frame is kept by a reply. *)
LEMMA KeepStored ==
    ASSUME NEW p, NEW B, NEW P, NEW K, TapeTyped(B, P, K), Stored(p, B, P, K), NEW c \in Conns
    PROVE  /\ B[c] # Empty => Stored(p, [B EXCEPT ![c] = Empty], P, K \cup {B[c]})
           /\ P[c] # Empty => Stored(p, B, [P EXCEPT ![c] = Empty], K \cup {P[c]})
           /\ P[c] = Empty => Stored(p, [B EXCEPT ![c] = Empty], [P EXCEPT ![c] = B[c]], K)
<1>1. PICK F : Laid(p, Owners, Held(B, P, K), F)
  BY DEF Stored
<1>2. DOMAIN B = Conns /\ DOMAIN P = Conns /\ K \subseteq Tapes /\ B[c] \in Tapes /\ P[c] \in Tapes
  BY DEF TapeTyped
<1>3. ASSUME B[c] # Empty PROVE Stored(p, [B EXCEPT ![c] = Empty], P, K \cup {B[c]})
  <2> DEFINE t == B[c]
             x == <<"building", c>>
             y == Keeper(t)
             C == [B EXCEPT ![c] = Empty]
             L == More(K, t)
  <2>1. x \in Owners /\ y \in Owners /\ x # y /\ Held(B, P, K)[x] = t
    BY <1>2, OwnersAre DEF Keeper
  <2>2. t \notin K /\ t \in Tapes
    BY <1>2, <1>3, NotKept
  <2>3. Held(B, P, K)[y] = Empty
    BY <2>2, OwnersAre DEF Keeper
  <2>4. Held(C, P, K)[x] = Empty /\ \A o \in Owners : o # x => Held(C, P, K)[o] = Held(B, P, K)[o]
    <3>1. C[c] = Empty /\ \A d \in Conns : d # c => C[d] = B[d]
      BY <1>2
    <3> HIDE DEF C
    <3>2. QED BY <3>1, BuildingHeld
  <2> HIDE DEF C, t
  <2>5. Held(C, P, L)[y] = t /\ \A o \in Owners : o # y => Held(C, P, L)[o] = Held(C, P, K)[o]
    BY <2>2, KeptMore
  <2> HIDE DEF L, x, y
  <2>6. /\ Held(C, P, L)[x] = Empty /\ Held(C, P, L)[y] = Held(B, P, K)[x]
        /\ \A o \in Owners : o # x /\ o # y => Held(C, P, L)[o] = Held(B, P, K)[o]
    BY <2>1, <2>4, <2>5
  <2>7. Laid(p, Owners, Held(C, P, L), F)
    BY <1>1, <2>1, <2>3, <2>6, MovedLaid
  <2>8. QED BY <2>7 DEF Stored, C, L, t, More
<1>4. ASSUME P[c] # Empty PROVE Stored(p, B, [P EXCEPT ![c] = Empty], K \cup {P[c]})
  <2> DEFINE t == P[c]
             x == <<"pending", c>>
             y == Keeper(t)
             C == [P EXCEPT ![c] = Empty]
             L == More(K, t)
  <2>1. x \in Owners /\ y \in Owners /\ x # y /\ Held(B, P, K)[x] = t
    BY <1>2, OwnersAre DEF Keeper
  <2>2. t \notin K /\ t \in Tapes
    BY <1>2, <1>4, NotKept
  <2>3. Held(B, P, K)[y] = Empty
    BY <2>2, OwnersAre DEF Keeper
  <2>4. Held(B, C, K)[x] = Empty /\ \A o \in Owners : o # x => Held(B, C, K)[o] = Held(B, P, K)[o]
    <3>1. C[c] = Empty /\ \A d \in Conns : d # c => C[d] = P[d]
      BY <1>2
    <3> HIDE DEF C
    <3>2. QED BY <3>1, PendingHeld
  <2> HIDE DEF C, t
  <2>5. Held(B, C, L)[y] = t /\ \A o \in Owners : o # y => Held(B, C, L)[o] = Held(B, C, K)[o]
    BY <2>2, KeptMore
  <2> HIDE DEF L, x, y
  <2>6. /\ Held(B, C, L)[x] = Empty /\ Held(B, C, L)[y] = Held(B, P, K)[x]
        /\ \A o \in Owners : o # x /\ o # y => Held(B, C, L)[o] = Held(B, P, K)[o]
    BY <2>1, <2>4, <2>5
  <2>7. Laid(p, Owners, Held(B, C, L), F)
    BY <1>1, <2>1, <2>3, <2>6, MovedLaid
  <2>8. QED BY <2>7 DEF Stored, C, L, t, More
<1>5. ASSUME P[c] = Empty PROVE Stored(p, [B EXCEPT ![c] = Empty], [P EXCEPT ![c] = B[c]], K)
  <2> DEFINE t == B[c]
             x == <<"building", c>>
             y == <<"pending", c>>
             C == [B EXCEPT ![c] = Empty]
             Q == [P EXCEPT ![c] = t]
  <2>1. x \in Owners /\ y \in Owners /\ x # y /\ Held(B, P, K)[x] = t /\ Held(B, P, K)[y] = Empty
    BY <1>2, <1>5, OwnersAre
  <2>2. Held(C, P, K)[x] = Empty /\ \A o \in Owners : o # x => Held(C, P, K)[o] = Held(B, P, K)[o]
    <3>1. C[c] = Empty /\ \A d \in Conns : d # c => C[d] = B[d]
      BY <1>2
    <3> HIDE DEF C
    <3>2. QED BY <3>1, BuildingHeld
  <2> HIDE DEF C, t
  <2>3. Held(C, Q, K)[y] = t /\ \A o \in Owners : o # y => Held(C, Q, K)[o] = Held(C, P, K)[o]
    <3>1. Q[c] = t /\ \A d \in Conns : d # c => Q[d] = P[d]
      BY <1>2
    <3> HIDE DEF Q
    <3>2. QED BY <3>1, PendingHeld
  <2> HIDE DEF x, y, Q
  <2>4. /\ Held(C, Q, K)[x] = Empty /\ Held(C, Q, K)[y] = Held(B, P, K)[x]
        /\ \A o \in Owners : o # x /\ o # y => Held(C, Q, K)[o] = Held(B, P, K)[o]
    BY <2>1, <2>2, <2>3
  <2>5. Laid(p, Owners, Held(C, Q, K), F)
    BY <1>1, <2>1, <2>4, MovedLaid
  <2>6. QED BY <2>5 DEF Stored, C, Q, t
<1>6. QED BY <1>3, <1>4, <1>5

-----------------------------------------------------------------------------
(* The charge of the reply arena, and the invariant of the storage *)

(* The values of the tapes that replies own, one pair each. *)
Charge(K) == {x \in K \X (1 .. FrameValues) : x[2] <= Size(x[1])}

(* The charge of finitely many tapes is a number.                          *)
LEMMA ChargeFinite ==
    ASSUME NEW K, IsFiniteSet(K)
    PROVE  IsFiniteSet(Charge(K)) /\ Cardinality(Charge(K)) \in Nat
<1> DEFINE U == K \X (1 .. FrameValues)
<1>1. IsFiniteSet(1 .. FrameValues)
  BY StorageAssumption, FS_Interval
<1>2. IsFiniteSet(U)
  BY <1>1, FS_Product
<1>3. Charge(K) \subseteq U
  BY DEF Charge
<1>4. IsFiniteSet(Charge(K))
  BY <1>2, <1>3, FS_Subset
<1>5. QED BY <1>4, FS_CardinalityType

(* A new tape is charged with its values.                                  *)
LEMMA ChargeMore ==
    ASSUME NEW K, IsFiniteSet(K), K \subseteq Tapes, NEW t \in Tapes, t \notin K, t.len <= FrameValues
    PROVE  /\ IsFiniteSet(K \cup {t})
           /\ Cardinality(Charge(K \cup {t})) = Cardinality(Charge(K)) + t.len
<1> DEFINE V == {t} \X (1 .. t.len)
           A == Charge(K)
<1>1. t.len \in Nat /\ FrameValues \in Nat
  BY StorageAssumption DEF Tapes
<1>2. IsFiniteSet({t}) /\ Cardinality({t}) = 1
  BY FS_Singleton
<1>3. IsFiniteSet(1 .. t.len) /\ Cardinality(1 .. t.len) = t.len
  <2> DEFINE n == t.len
  <2>1. n \in Nat
    BY <1>1
  <2> HIDE DEF n
  <2>2. IsFiniteSet(1 .. n) /\ Cardinality(1 .. n) = IF 1 > n THEN 0 ELSE n - 1 + 1
    BY <2>1, FS_Interval
  <2>3. Cardinality(1 .. n) = n
    BY <2>1, <2>2
  <2>4. QED BY <2>2, <2>3 DEF n
<1>4. IsFiniteSet(V) /\ Cardinality(V) = t.len
  <2>1. IsFiniteSet(V) /\ Cardinality(V) = Cardinality({t}) * Cardinality(1 .. t.len)
    BY <1>2, <1>3, FS_Product
  <2>2. QED BY <1>1, <1>2, <1>3, <2>1
<1>5. IsFiniteSet(A)
  BY ChargeFinite
<1>6. A \cap V = {}
  BY DEF Charge
<1>7. Charge(K \cup {t}) = A \cup V
  BY <1>1 DEF Charge, Size
<1>8. IsFiniteSet(A \cap V) /\ Cardinality(A \cap V) = 0
  BY <1>6, FS_EmptySet
<1>9. Cardinality(A) \in Nat
  BY <1>5, FS_CardinalityType
<1> HIDE DEF A, V
<1>10. Cardinality(A \cup V) = Cardinality(A) + Cardinality(V) - Cardinality(A \cap V)
  BY <1>4, <1>5, FS_Union
<1>11. IsFiniteSet(K \cup {t})
  BY <1>2, FS_Union
<1>12. Cardinality(A \cup V) = Cardinality(A) + t.len
  BY <1>1, <1>4, <1>8, <1>9, <1>10
<1>13. QED BY <1>7, <1>11, <1>12 DEF A

(* A tape that is done with reduces the charge.                            *)
LEMMA ChargeLess ==
    ASSUME NEW K, IsFiniteSet(K), NEW t
    PROVE  /\ IsFiniteSet(K \ {t})
           /\ Cardinality(Charge(K \ {t})) <= Cardinality(Charge(K))
           /\ Cardinality(Charge(K \ {t})) \in Nat /\ Cardinality(Charge(K)) \in Nat
<1>1. IsFiniteSet(Charge(K)) /\ Cardinality(Charge(K)) \in Nat
  BY ChargeFinite
<1>2. Charge(K \ {t}) \subseteq Charge(K)
  BY DEF Charge
<1>3. IsFiniteSet(K \ {t})
  BY FS_Subset
<1>4. IsFiniteSet(Charge(K \ {t})) /\ Cardinality(Charge(K \ {t})) <= Cardinality(Charge(K))
  BY <1>1, <1>2, FS_Subset
<1>5. QED BY <1>1, <1>3, <1>4, FS_CardinalityType

(* The sizes of the tapes: of a frame under way, of a finished one, and of *)
(* those that replies own, alone and together.                             *)
Sized(B, P, K, ph) ==
    /\ \A c \in Conns : /\ B[c].len < FrameValues
                        /\ P[c].len <= FrameValues
                        /\ ph[c] # "Held" => B[c] = Empty
    /\ IsFiniteSet(K)
    /\ \A t \in K : t.len <= FrameValues
    /\ Cardinality(Charge(K)) <= Retained

StoreInv ==
    /\ TapeTyped(building, pending, kept)
    /\ Stored(pool, building, pending, kept)
    /\ Sized(building, pending, kept, phase)

(* The initial state satisfies the invariant.                              *)
LEMMA StoreInit == Init => StoreInv
<1> SUFFICES ASSUME Init PROVE StoreInv
  OBVIOUS
<1>1. TapeTyped(building, pending, kept)
  <2>1. Empty \in Tapes
    BY NewLaid, EmptyFields DEF Tapes, Empty
  <2>2. QED BY <2>1 DEF Init, TapeTyped
<1>2. Stored(pool, building, pending, kept)
  <2> DEFINE T == Held(building, pending, kept)
  <2>1. \A o \in Owners : T[o] = Empty
    BY DEF Init, Held, Owners
  <2> HIDE DEF T
  <2>2. \E F : Laid(NewPool, Owners, T, F)
    BY <2>1, NewLaid
  <2>3. QED BY <2>2 DEF Init, Stored, T
<1>3. Sized(building, pending, kept, phase)
  <2>1. Charge({}) = {}
    BY DEF Charge
  <2>2. IsFiniteSet({}) /\ Cardinality({}) = 0
    BY FS_EmptySet
  <2>3. Empty.len = 0 /\ FrameValues > 0 /\ Retained >= 0
    BY EmptyFields, StorageAssumption
  <2>4. \A c \in Conns : building[c] = Empty /\ pending[c] = Empty
    BY DEF Init
  <2>5. \A c \in Conns : building[c].len < FrameValues /\ pending[c].len <= FrameValues
    <3> TAKE c \in Conns
    <3>1. building[c].len = 0 /\ pending[c].len = 0
      BY <2>3, <2>4
    <3>2. QED BY <2>3, <3>1, StorageAssumption
  <2>6. kept = {}
    BY DEF Init
  <2>7. Cardinality(Charge(kept)) <= Retained
    BY <2>1, <2>2, <2>3, <2>6
  <2>8. QED BY <2>2, <2>4, <2>5, <2>6, <2>7 DEF Sized
<1>4. QED BY <1>1, <1>2, <1>3 DEF StoreInv

(* A longer tape. *)
LEMMA PushedTape ==
    ASSUME StoreInv, NEW c \in Conns
    PROVE  LET t == Longer(pool, building[c])
           IN  t.len = building[c].len + 1 /\ t.len \in Nat /\ t # Empty
<1>1. building[c].len \in Nat
  BY DEF StoreInv, TapeTyped, Tapes
<1>2. Empty.len = 0
  BY EmptyFields
<1>3. QED BY <1>1, <1>2 DEF Longer

(* The phases of a connection that takes a step, and of the others. *)
LEMMA PhaseMoves ==
    ASSUME IInv, NEW c \in Conns, NEW x, phase' = [phase EXCEPT ![c] = x]
    PROVE  phase'[c] = x /\ \A d \in Conns : d # c => phase'[d] = phase[d]
BY DEF IInv, Fit

(* try_push of a value that does not end the frame.                        *)
LEMMA PushStore == IInv /\ StoreInv /\ (\E c \in Conns : Push(c)) => StoreInv'
<1> SUFFICES ASSUME IInv, StoreInv, NEW c \in Conns, Push(c) PROVE StoreInv'
  OBVIOUS
<1>1. /\ TapeTyped(building, pending, kept) /\ Stored(pool, building, pending, kept)
      /\ Sized(building, pending, kept, phase)
  BY DEF StoreInv
<1>2. /\ pool.free # NoNode /\ pool' = Grown(pool, building[c])
      /\ building' = [building EXCEPT ![c] = Longer(pool, building[c])]
      /\ pending' = pending /\ kept' = kept /\ phase' = [phase EXCEPT ![c] = "Held"]
      /\ building[c].len + 1 < FrameValues
  BY DEF Push, Size
<1>3. TapeTyped(building', pending', kept') /\ Stored(pool', building', pending', kept')
  BY <1>1, <1>2, PushStored
<1>4. Sized(building', pending', kept', phase')
  <2>1. Longer(pool, building[c]).len < FrameValues
    BY <1>2, PushedTape
  <2>2. DOMAIN building = Conns
    BY <1>1 DEF TapeTyped
  <2>3. phase'[c] = "Held" /\ \A d \in Conns : d # c => phase'[d] = phase[d]
    BY <1>2, PhaseMoves
  <2>4. \A d \in Conns : d # c => building'[d] = building[d]
    BY <1>2
  <2>5. building'[c] = Longer(pool, building[c])
    BY <1>2, <2>2
  <2>6. \A d \in Conns : /\ building'[d].len < FrameValues /\ pending'[d].len <= FrameValues
                         /\ phase'[d] # "Held" => building'[d] = Empty
    <3> TAKE d \in Conns
    <3>1. CASE d = c
      BY <1>1, <1>2, <2>1, <2>3, <2>5, <3>1 DEF Sized
    <3>2. CASE d # c
      BY <1>1, <1>2, <2>3, <2>4, <3>2 DEF Sized
    <3>3. QED BY <3>1, <3>2
  <2>7. QED BY <1>1, <1>2, <2>6 DEF Sized
<1>5. QED BY <1>3, <1>4 DEF StoreInv

(* A connection's frame under way is over; its finished one may be new. *)
LEMMA SizedMoves ==
    ASSUME NEW B, NEW P, NEW K, NEW ph, Sized(B, P, K, ph), NEW c \in Conns,
           NEW C, NEW Q, NEW qh,
           C[c] = Empty, \A d \in Conns : d # c => C[d] = B[d],
           Q[c].len <= FrameValues, \A d \in Conns : d # c => Q[d] = P[d],
           \A d \in Conns : d # c => qh[d] = ph[d]
    PROVE  Sized(C, Q, K, qh)
<1>1. Empty.len < FrameValues
  BY EmptyFields, StorageAssumption
<1>2. ASSUME NEW d \in Conns
      PROVE  /\ C[d].len < FrameValues /\ Q[d].len <= FrameValues
             /\ qh[d] # "Held" => C[d] = Empty
  <2>1. CASE d = c
    BY <1>1, <2>1
  <2>2. CASE d # c
    BY <2>2 DEF Sized
  <2>3. QED BY <2>1, <2>2
<1>3. QED BY <1>2 DEF Sized

(* A frame that the reply arena admits stays within its limits.            *)
LEMMA SizedKept ==
    ASSUME NEW B, NEW P, NEW K, NEW ph, Sized(B, P, K, ph), K \subseteq Tapes,
           NEW t \in Tapes, t \notin K, t.len <= FrameValues,
           Cardinality(Charge(K)) + t.len <= Retained
    PROVE  Sized(B, P, K \cup {t}, ph)
<1> DEFINE L == K \cup {t}
<1>1. IsFiniteSet(K)
  BY DEF Sized
<1>2. IsFiniteSet(L) /\ Cardinality(Charge(L)) = Cardinality(Charge(K)) + t.len
  BY <1>1, ChargeMore
<1>3. \A u \in L : u.len <= FrameValues
  BY DEF Sized
<1> HIDE DEF L
<1>4. Sized(B, P, L, ph)
  BY <1>2, <1>3 DEF Sized
<1>5. QED BY <1>4 DEF L

(* So do those that remain when a reply is done with.                      *)
LEMMA SizedLess ==
    ASSUME NEW B, NEW P, NEW K, NEW ph, Sized(B, P, K, ph), NEW t
    PROVE  Sized(B, P, K \ {t}, ph)
<1> DEFINE L == K \ {t}
<1>1. IsFiniteSet(K)
  BY DEF Sized
<1>2. /\ IsFiniteSet(L) /\ Cardinality(Charge(L)) <= Cardinality(Charge(K))
      /\ Cardinality(Charge(L)) \in Nat /\ Cardinality(Charge(K)) \in Nat
  BY <1>1, ChargeLess
<1>3. \A u \in L : u.len <= FrameValues
  BY DEF Sized
<1> HIDE DEF L
<1>4. Cardinality(Charge(L)) <= Retained
  BY <1>2, StorageAssumption DEF Sized
<1>5. Sized(B, P, L, ph)
  BY <1>1, <1>2, <1>3, <1>4 DEF Sized
<1>6. QED BY <1>5 DEF L

(* A kept tape is charged with its values. *)
LEMMA FitsCharge ==
    ASSUME NEW t, Fits(t)
    PROVE  Cardinality(Charge(kept)) + t.len <= Retained
BY DEF Fits, Charged, Charge, Size

(* try_push of the last value, and the delivery of the frame.              *)
LEMMA CompleteStore ==
    IInv /\ StoreInv /\ (\E c \in Conns, o \in Outcomes : Complete(c, o)) => StoreInv'
<1> SUFFICES ASSUME IInv, StoreInv, NEW c \in Conns, NEW o \in Outcomes, Complete(c, o) PROVE StoreInv'
  OBVIOUS
<1> DEFINE t == Longer(pool, building[c])
           p == Grown(pool, building[c])
           C == [building EXCEPT ![c] = t]
<1>1. /\ TapeTyped(building, pending, kept) /\ Stored(pool, building, pending, kept)
      /\ Sized(building, pending, kept, phase)
  BY DEF StoreInv
<1>2. /\ pool.free # NoNode /\ pending[c] = Empty /\ building[c].len < FrameValues
      /\ building' = [building EXCEPT ![c] = Empty]
      /\ phase' = [phase EXCEPT ![c] = "Idle"]
      /\ Deliver(c, t, p, Acquired(c), o)
  BY DEF Complete, Size, Parses
<1>3. TapeTyped(C, pending, kept) /\ Stored(p, C, pending, kept)
  BY <1>1, <1>2, PushStored
<1>4. t.len \in Nat /\ t.len <= FrameValues /\ t # Empty
  <2>1. t.len = building[c].len + 1 /\ t.len \in Nat /\ t # Empty
    BY PushedTape
  <2>2. building[c].len \in Nat
    BY <1>1 DEF TapeTyped, Tapes
  <2> HIDE DEF t
  <2>3. QED BY <1>2, <2>1, <2>2, StorageAssumption
<1>5. DOMAIN building = Conns /\ pending \in [Conns -> Tapes]
  BY <1>1 DEF TapeTyped
<1>6. C[c] = t /\ building' = [C EXCEPT ![c] = Empty]
  BY <1>2, <1>5
<1>7. t \in Tapes /\ kept \subseteq Tapes
  BY <1>3, <1>6 DEF TapeTyped
<1> HIDE DEF t, p, C
<1>8. t \notin kept
  BY <1>3, <1>4, <1>6, NotKept
<1>9. TapeTyped(building', pending, kept)
  BY <1>3, <1>6, TypedEmpty
<1>10. /\ building'[c] = Empty /\ \A d \in Conns : d # c => building'[d] = building[d]
       /\ \A d \in Conns : d # c => phase'[d] = phase[d]
  BY <1>2, <1>5, PhaseMoves
<1>11. pending[c].len <= FrameValues /\ \A d \in Conns : d # c => pending[d] = pending[d]
  <2>1. Empty.len <= FrameValues
    BY EmptyFields, StorageAssumption
  <2>2. QED BY <1>2, <2>1
<1>12. CASE o = "store"
  <2>1. /\ Fits(t) /\ kept' = kept \cup {t} /\ pool' = p
        /\ pending' = [pending EXCEPT ![c] = Empty]
    BY <1>2, <1>12 DEF Deliver
  <2>2. pending' = pending
    BY <1>2, <1>5, <2>1
  <2>3. TapeTyped(building', pending', kept')
    BY <1>4, <1>7, <1>9, <2>1, <2>2, TypedEmpty
  <2>4. Stored(p, building', pending, kept \cup {t})
    BY <1>3, <1>4, <1>6, KeepStored
  <2>5. Stored(pool', building', pending', kept')
    BY <2>1, <2>2, <2>4
  <2>6. Sized(building', pending, kept, phase')
    BY <1>1, <1>10, <1>11, SizedMoves
  <2>7. Sized(building', pending, kept \cup {t}, phase')
    BY <1>4, <1>7, <1>8, <2>1, <2>6, FitsCharge, SizedKept
  <2>8. QED BY <2>1, <2>2, <2>3, <2>5, <2>7 DEF StoreInv
<1>13. CASE o = "keep"
  <2>1. kept' = kept /\ pool' = p /\ pending' = [pending EXCEPT ![c] = t]
    BY <1>2, <1>13 DEF Deliver
  <2>2. TapeTyped(building', pending', kept')
    BY <1>7, <1>9, <2>1, TypedEmpty
  <2>3. Stored(p, building', [pending EXCEPT ![c] = t], kept)
    <3>1. Stored(p, [C EXCEPT ![c] = Empty], [pending EXCEPT ![c] = C[c]], kept)
      BY <1>2, <1>3, KeepStored
    <3>2. QED BY <1>6, <3>1
  <2>4. Stored(pool', building', pending', kept')
    BY <2>1, <2>3
  <2>5. pending'[c].len <= FrameValues /\ \A d \in Conns : d # c => pending'[d] = pending[d]
    BY <1>4, <1>5, <2>1
  <2>6. Sized(building', pending', kept, phase')
    BY <1>1, <1>10, <2>5, SizedMoves
  <2>7. QED BY <2>1, <2>2, <2>4, <2>6 DEF StoreInv
<1>14. CASE o = "drop"
  <2>1. kept' = kept /\ pool' = Released(p, t) /\ pending' = [pending EXCEPT ![c] = Empty]
    BY <1>2, <1>14 DEF Deliver
  <2>2. pending' = pending
    BY <1>2, <1>5, <2>1
  <2>3. Stored(Released(p, t), building', pending, kept)
    BY <1>3, <1>6, DropStored
  <2>4. Sized(building', pending, kept, phase')
    BY <1>1, <1>10, <1>11, SizedMoves
  <2>5. QED BY <1>9, <2>1, <2>2, <2>3, <2>4 DEF StoreInv
<1>15. QED BY <1>12, <1>13, <1>14 DEF Outcomes

(* A frame that waited for room is delivered.                              *)
LEMMA SettleStore ==
    IInv /\ StoreInv /\ (\E c \in Conns, o \in Outcomes : Settle(c, o)) => StoreInv'
<1> SUFFICES ASSUME IInv, StoreInv, NEW c \in Conns, NEW o \in Outcomes, Settle(c, o) PROVE StoreInv'
  OBVIOUS
<1> DEFINE t == pending[c]
<1>1. /\ TapeTyped(building, pending, kept) /\ Stored(pool, building, pending, kept)
      /\ Sized(building, pending, kept, phase)
  BY DEF StoreInv
<1>2. /\ t # Empty /\ o \in {"store", "drop"}
      /\ building' = building /\ phase' = phase
      /\ Deliver(c, t, pool, gate, o)
  BY DEF Settle, Outcomes
<1>3. pending' = [pending EXCEPT ![c] = Empty] /\ DOMAIN pending = Conns
  BY <1>1, <1>2 DEF Deliver, TapeTyped
<1>4. t \in Tapes /\ kept \subseteq Tapes /\ t.len <= FrameValues
  BY <1>1 DEF TapeTyped, Sized
<1>5. t \notin kept
  BY <1>1, <1>2, NotKept
<1>6. TapeTyped(building, pending', kept)
  BY <1>1, <1>3, TypedEmpty
<1>7. Empty.len <= FrameValues
  BY EmptyFields, StorageAssumption
<1>8. Sized(building, pending', kept, phase)
  <2>1. \A d \in Conns : pending'[d] = pending[d] \/ pending'[d] = Empty
    BY <1>3
  <2>2. \A d \in Conns : pending'[d].len <= FrameValues
    BY <1>1, <1>7, <2>1 DEF Sized
  <2>3. QED BY <1>1, <2>2 DEF Sized
<1> HIDE DEF t
<1>9. CASE o = "store"
  <2>1. Fits(t) /\ kept' = kept \cup {t} /\ pool' = pool
    BY <1>2, <1>9 DEF Deliver
  <2>2. TapeTyped(building', pending', kept')
    BY <1>2, <1>4, <1>6, <2>1, TypedEmpty
  <2>3. Stored(pool', building', pending', kept')
    BY <1>1, <1>2, <1>3, <2>1, KeepStored DEF t
  <2>4. Sized(building, pending', kept \cup {t}, phase)
    BY <1>4, <1>5, <1>8, <2>1, FitsCharge, SizedKept
  <2>5. QED BY <1>2, <2>1, <2>2, <2>3, <2>4 DEF StoreInv
<1>10. CASE o = "drop"
  <2>1. kept' = kept /\ pool' = Released(pool, t)
    BY <1>2, <1>10 DEF Deliver
  <2>2. Stored(pool', building', pending', kept')
    BY <1>1, <1>2, <1>3, <2>1, DropStored DEF t
  <2>3. QED BY <1>2, <1>6, <1>8, <2>1, <2>2 DEF StoreInv
<1>11. QED BY <1>2, <1>9, <1>10

(* A rejected frame gives its nodes back.                                  *)
LEMMA ResetStore == IInv /\ StoreInv /\ (\E c \in Conns : Reset(c)) => StoreInv'
<1> SUFFICES ASSUME IInv, StoreInv, NEW c \in Conns, Reset(c) PROVE StoreInv'
  OBVIOUS
<1>1. /\ TapeTyped(building, pending, kept) /\ Stored(pool, building, pending, kept)
      /\ Sized(building, pending, kept, phase)
  BY DEF StoreInv
<1>2. /\ pool' = Released(pool, building[c])
      /\ building' = [building EXCEPT ![c] = Empty]
      /\ phase' = [phase EXCEPT ![c] = "Idle"]
      /\ pending' = pending /\ kept' = kept
  BY DEF Reset
<1>3. TapeTyped(building', pending, kept) /\ Stored(pool', building', pending, kept)
  BY <1>1, <1>2, TypedEmpty, DropStored
<1>4. /\ building'[c] = Empty /\ \A d \in Conns : d # c => building'[d] = building[d]
      /\ \A d \in Conns : d # c => phase'[d] = phase[d]
  BY <1>1, <1>2, PhaseMoves DEF TapeTyped
<1>5. pending[c].len <= FrameValues /\ \A d \in Conns : d # c => pending[d] = pending[d]
  BY <1>1 DEF Sized
<1>6. Sized(building', pending, kept, phase')
  BY <1>1, <1>4, <1>5, SizedMoves
<1>7. QED BY <1>2, <1>3, <1>6 DEF StoreInv

(* A connection that ends gives back what it was parsing and what waited.  *)
LEMMA CloseStore == IInv /\ StoreInv /\ (\E c \in Conns : Close(c)) => StoreInv'
<1> SUFFICES ASSUME IInv, StoreInv, NEW c \in Conns, Close(c) PROVE StoreInv'
  OBVIOUS
<1> DEFINE p == Released(pool, building[c])
<1>1. /\ TapeTyped(building, pending, kept) /\ Stored(pool, building, pending, kept)
      /\ Sized(building, pending, kept, phase)
  BY DEF StoreInv
<1>2. /\ pool' = Released(p, pending[c])
      /\ building' = [building EXCEPT ![c] = Empty]
      /\ pending' = [pending EXCEPT ![c] = Empty]
      /\ phase' = [phase EXCEPT ![c] = "Idle"]
      /\ kept' = kept
  BY DEF Close
<1>3. TapeTyped(building', pending, kept) /\ Stored(p, building', pending, kept)
  BY <1>1, <1>2, TypedEmpty, DropStored
<1> HIDE DEF p
<1>4. TapeTyped(building', pending', kept) /\ Stored(pool', building', pending', kept)
  BY <1>2, <1>3, TypedEmpty, DropStored
<1>5. /\ building'[c] = Empty /\ \A d \in Conns : d # c => building'[d] = building[d]
      /\ pending'[c] = Empty /\ \A d \in Conns : d # c => pending'[d] = pending[d]
      /\ \A d \in Conns : d # c => phase'[d] = phase[d]
  BY <1>1, <1>2, PhaseMoves DEF TapeTyped
<1>6. pending'[c].len <= FrameValues
  <2>1. Empty.len <= FrameValues
    BY EmptyFields, StorageAssumption
  <2>2. QED BY <1>5, <2>1
<1>7. Sized(building', pending', kept, phase')
  BY <1>1, <1>5, <1>6, SizedMoves
<1>8. QED BY <1>2, <1>4, <1>7 DEF StoreInv

(* A reply gives its nodes back.                                           *)
LEMMA ConsumeStore == StoreInv /\ (\E t \in kept : Consume(t)) => StoreInv'
<1> SUFFICES ASSUME StoreInv, NEW t \in kept, Consume(t) PROVE StoreInv'
  OBVIOUS
<1>1. /\ TapeTyped(building, pending, kept) /\ Stored(pool, building, pending, kept)
      /\ Sized(building, pending, kept, phase)
  BY DEF StoreInv
<1>2. /\ pool' = Released(pool, t) /\ kept' = kept \ {t}
      /\ building' = building /\ pending' = pending /\ phase' = phase
  BY DEF Consume
<1>3. Stored(Released(pool, t), building, pending, kept \ {t})
  BY <1>1, DropKept
<1>4. TapeTyped(building, pending, kept \ {t})
  BY <1>1 DEF TapeTyped
<1>5. Sized(building, pending, kept \ {t}, phase)
  BY <1>1, SizedLess
<1>6. QED BY <1>2, <1>3, <1>4, <1>5 DEF StoreInv

(* A connection without a lane has no tape.                                *)
LEMMA BlockedStore == IInv /\ StoreInv /\ (\E c \in Conns : Blocked(c)) => StoreInv'
<1> SUFFICES ASSUME IInv, StoreInv, NEW c \in Conns, Blocked(c) PROVE StoreInv'
  OBVIOUS
<1>1. /\ TapeTyped(building, pending, kept) /\ Stored(pool, building, pending, kept)
      /\ Sized(building, pending, kept, phase)
  BY DEF StoreInv
<1>2. /\ phase' = [phase EXCEPT ![c] = "Waiting"] /\ phase[c] # "Held"
      /\ pool' = pool /\ building' = building /\ pending' = pending /\ kept' = kept
  BY DEF Blocked, CanAcquire
<1>3. /\ building[c] = Empty /\ \A d \in Conns : d # c => building[d] = building[d]
      /\ pending[c].len <= FrameValues /\ \A d \in Conns : d # c => pending[d] = pending[d]
      /\ \A d \in Conns : d # c => phase'[d] = phase[d]
  BY <1>1, <1>2, PhaseMoves DEF Sized
<1>4. Sized(building, pending, kept, phase')
  BY <1>1, <1>3, SizedMoves
<1>5. QED BY <1>1, <1>2, <1>4 DEF StoreInv

(* Every step keeps the invariant.                                         *)
LEMMA NextStore == IInv /\ StoreInv /\ [Next]_vars => StoreInv'
<1> SUFFICES ASSUME IInv, StoreInv, [Next]_vars PROVE StoreInv'
  OBVIOUS
<1>1. CASE UNCHANGED <<pool, building, pending, kept, phase>>
  BY <1>1 DEF StoreInv
<1>2. CASE UNCHANGED vars
  BY <1>1, <1>2 DEF vars
<1>3. ASSUME NEW c \in Conns, Poll(c) PROVE StoreInv'
  BY <1>1, <1>3 DEF Poll
<1>4. QED
  BY <1>2, <1>3, BlockedStore, PushStore, CompleteStore, SettleStore, ResetStore, CloseStore,
     ConsumeStore DEF Next

(* The invariant holds in every state, with that of the lanes.             *)
LEMMA StoreInvariance == Spec => [](IInv /\ StoreInv)
<1>1. Spec => [] IInv
  BY Invariance
<1>2. Spec => [] StoreInv
  BY <1>1, StoreInit, NextStore, PTL DEF Spec
<1>3. QED BY <1>1, <1>2, PTL

-----------------------------------------------------------------------------
(* From the invariant to the properties *)

(* A set that a function has its values cover is no larger than its domain. *)
LEMMA Covered ==
    ASSUME NEW S, IsFiniteSet(S), NEW T, NEW f, T = {f[x] : x \in S}, f = [x \in S |-> f[x]]
    PROVE  IsFiniteSet(T) /\ Cardinality(T) <= Cardinality(S)
<1>1. f \in [S -> T] /\ \A t \in T : \E x \in S : f[x] = t
  OBVIOUS
<1>2. f \in Surjection(S, T)
  BY <1>1 DEF Surjection
<1>3. QED BY <1>2, FS_Surjection

(* There are n numbers from 1 to n.                                        *)
LEMMA CountTo ==
    ASSUME NEW n \in Nat
    PROVE  IsFiniteSet(1 .. n) /\ Cardinality(1 .. n) = n
<1>1. IsFiniteSet(1 .. n) /\ Cardinality(1 .. n) = IF 1 > n THEN 0 ELSE n - 1 + 1
  BY FS_Interval
<1>2. QED BY <1>1

(* A ring has as many nodes as its length says, at most the capacity.      *)
LEMMA CountOn ==
    ASSUME NEW f, NEW s, Ring(f, s)
    PROVE  /\ IsFiniteSet(On(s)) /\ Cardinality(On(s)) = Len(s)
           /\ Len(s) \in Nat /\ Len(s) <= Capacity
<1> DEFINE n == Len(s)
<1>1. n \in Nat /\ s \in Seq(Node) /\ \A i, j \in 1 .. n : s[i] = s[j] => i = j
  BY DEF Ring
<1>2. IsFiniteSet(1 .. n) /\ Cardinality(1 .. n) = n
  BY <1>1, CountTo
<1>3. s \in Bijection(1 .. n, On(s))
  <2>1. s \in [1 .. n -> On(s)]
    BY <1>1 DEF On
  <2>2. \A x \in On(s) : \E i \in 1 .. n : s[i] = x
    BY DEF On
  <2> HIDE DEF n
  <2>3. s \in Injection(1 .. n, On(s))
    <3>1. \A a, b \in 1 .. n : s[a] = s[b] => a = b
      BY <1>1
    <3>2. QED BY <3>1, <2>1 DEF Injection, IsInjective
  <2>4. s \in Surjection(1 .. n, On(s))
    BY <2>1, <2>2 DEF Surjection
  <2>5. QED BY <2>3, <2>4 DEF Bijection
<1>4. ExistsBijection(1 .. n, On(s))
  BY <1>3 DEF ExistsBijection
<1>5. IsFiniteSet(On(s)) /\ Cardinality(On(s)) = n
  BY <1>2, <1>4, FS_Bijection
<1>6. IsFiniteSet(Node) /\ Cardinality(Node) = Capacity
  BY NodesTyped, CountTo DEF Node
<1>7. On(s) \in SUBSET Node
  BY <1>1, NodesOn
<1>8. Cardinality(On(s)) <= Capacity
  BY <1>6, <1>7, FS_Subset
<1>9. QED BY <1>1, <1>5, <1>8

(* A ring is met in order from its last node on. *)
LEMMA RingWalk ==
    ASSUME NEW s, Ring(pool.next, s), Len(s) > 0
    PROVE  Walk(s[Len(s)], Len(s)) = s
<1> DEFINE n == Len(s)
           g == [i \in 0 .. n |-> IF i = 0 THEN s[n] ELSE s[i]]
<1>1. n \in Nat /\ n > 0 /\ s \in Seq(Node)
  BY DEF Ring
<1>2. \A i \in 1 .. n : g[i] = s[i]
  OBVIOUS
<1>3. \A i \in 1 .. n : pool.next[s[i]] = IF i = n THEN s[1] ELSE s[i + 1]
  BY DEF Ring
<1>4. Walks(pool.next, g, s[n], n)
  <2>1. DOMAIN g = 0 .. n /\ g[0] = s[n]
    BY <1>1
  <2>2. ASSUME NEW i \in 1 .. n PROVE g[i] = pool.next[g[i - 1]]
    <3>1. CASE i = 1
      <4>1. g[1 - 1] = s[n] /\ g[1] = s[1]
        BY <1>1
      <4>2. n \in 1 .. n
        BY <1>1
      <4>3. pool.next[s[n]] = s[1]
        BY <1>3, <4>2
      <4>4. QED BY <3>1, <4>1, <4>3
    <3>2. CASE i # 1
      <4>1. i - 1 \in 1 .. n /\ i - 1 # n /\ (i - 1) + 1 = i
        BY <1>1, <3>2
      <4>2. g[i - 1] = s[i - 1] /\ g[i] = s[i]
        BY <1>2, <4>1
      <4>3. pool.next[s[i - 1]] = s[i]
        BY <1>3, <4>1
      <4>4. QED BY <4>2, <4>3
    <3>3. QED BY <3>1, <3>2
  <2> HIDE DEF g
  <2>3. QED BY <2>1, <2>2 DEF Walks
<1>5. g = [i \in 0 .. n |-> g[i]]
  OBVIOUS
<1> HIDE DEF g, n
<1>6. Walk(s[n], n) = [i \in 1 .. n |-> g[i]]
  <2> DEFINE tail == s[n]
  <2>1. Walks(pool.next, g, tail, n)
    BY <1>4
  <2> HIDE DEF tail
  <2>2. Walk(tail, n) = [i \in 1 .. n |-> g[i]]
    BY <1>1, <1>5, <2>1, WalkIs
  <2>3. QED BY <2>2 DEF tail
<1>7. [i \in 1 .. n |-> g[i]] = [i \in 1 .. n |-> s[i]]
  BY <1>2
<1>8. [i \in 1 .. n |-> s[i]] = s
  BY <1>1 DEF n
<1>9. QED BY <1>6, <1>7, <1>8 DEF n

(* A tape is read in the order its values were written, from nodes of its  *)
(* own.                                                                    *)
LEMMA TapeExact ==
    ASSUME NEW t, TapeFits(pool.next, t)
    PROVE  /\ Walk(t.tail, Size(t)) = t.nodes
           /\ t # Empty => t.nodes[Size(t)] = t.tail
           /\ Cardinality(NodesOf(t)) = Size(t)
           /\ NodesOf(t) = On(t.nodes)
<1> DEFINE s == t.nodes
<1>1. /\ Ring(pool.next, s) /\ Size(t) = Len(s) /\ Len(s) \in Nat
      /\ t.tail = (IF Len(s) = 0 THEN NoNode ELSE s[Len(s)])
      /\ Len(s) = 0 => t = Empty
  BY DEF TapeFits, Size, Tapes
<1>2. NodesOf(t) = On(s)
  BY <1>1 DEF NodesOf, On
<1>3. Cardinality(On(s)) = Len(s)
  BY <1>1, CountOn
<1>4. CASE Len(s) = 0
  <2> DEFINE m == 0
             tail == NoNode
             g == [i \in 0 .. m |-> tail]
  <2>1. Walks(pool.next, g, tail, m) /\ m \in Nat
    BY DEF Walks
  <2>2. g = [i \in 0 .. m |-> g[i]]
    OBVIOUS
  <2> HIDE DEF g, tail, m
  <2>3. Walk(tail, m) = [i \in 1 .. m |-> g[i]]
    BY <2>1, <2>2, WalkIs
  <2>4. [i \in 1 .. m |-> g[i]] = <<>>
    BY DEF m
  <2>5. s = <<>>
    BY <1>1, <1>4 DEF Ring
  <2>6. Walk(NoNode, 0) = <<>>
    BY <2>3, <2>4 DEF tail, m
  <2>7. QED BY <1>1, <1>2, <1>3, <1>4, <2>5, <2>6
<1>5. CASE Len(s) > 0
  <2>1. Walk(s[Len(s)], Len(s)) = s
    BY <1>1, <1>5, RingWalk
  <2>2. QED BY <1>1, <1>2, <1>3, <1>5, <2>1
<1>6. QED BY <1>1, <1>4, <1>5

(* A walk of any length exists. *)
HasWalk(f, tail, n) == \E g : Walks(f, g, tail, n) /\ g = [i \in 0 .. n |-> g[i]]

(* It exists, of any length.                                               *)
LEMMA WalkExists ==
    ASSUME NEW f, NEW tail, NEW n \in Nat
    PROVE  HasWalk(f, tail, n)
<1> DEFINE W(m) == \E g : Walks(f, g, tail, m) /\ g = [i \in 0 .. m |-> g[i]]
           T == {m \in Nat : ~ W(m)}
<1>1. SUFFICES ASSUME T # {} PROVE FALSE
  BY DEF HasWalk
<1>2. T \subseteq Nat
  OBVIOUS
<1> HIDE DEF T
<1>3. PICK k \in T : \A j \in T : k <= j
  BY <1>1, <1>2, LeastNat
<1>4. k \in Nat /\ ~ W(k)
  BY <1>3 DEF T
<1>5. CASE k = 0
  <2> DEFINE g == [i \in 0 .. 0 |-> tail]
  <2>1. Walks(f, g, tail, 0) /\ g = [i \in 0 .. 0 |-> g[i]]
    BY DEF Walks
  <2>2. QED BY <1>4, <1>5, <2>1
<1>6. CASE k > 0
  <2>1. k - 1 \in Nat /\ k - 1 \notin T
    BY <1>3, <1>4, <1>6
  <2>2. W(k - 1)
    BY <2>1 DEF T
  <2>3. PICK h : Walks(f, h, tail, k - 1)
    BY <2>2
  <2> DEFINE g == [i \in 0 .. k |-> IF i = k THEN f[h[k - 1]] ELSE h[i]]
  <2>4. DOMAIN g = 0 .. k /\ g[0] = tail
    BY <1>4, <1>6, <2>3 DEF Walks
  <2>5. \A i \in 1 .. k - 1 : h[i] = f[h[i - 1]]
    BY <2>3 DEF Walks
  <2>6. ASSUME NEW i \in 1 .. k PROVE g[i] = f[g[i - 1]]
    <3>1. i - 1 \in 0 .. k /\ i - 1 # k
      BY <1>4
    <3>2. g[i - 1] = h[i - 1]
      BY <3>1
    <3>3. CASE i = k
      BY <1>4, <3>2, <3>3
    <3>4. CASE i # k
      <4>1. i \in 1 .. k - 1
        BY <1>4, <3>4
      <4>2. g[i] = h[i] /\ h[i] = f[h[i - 1]]
        BY <2>5, <3>4, <4>1
      <4>3. QED BY <3>2, <4>2
    <3>5. QED BY <3>3, <3>4
  <2>7. g = [i \in 0 .. k |-> g[i]]
    OBVIOUS
  <2> HIDE DEF g
  <2>8. Walks(f, g, tail, k)
    BY <2>4, <2>6 DEF Walks
  <2>9. QED BY <1>4, <2>7, <2>8
<1>7. QED BY <1>4, <1>5, <1>6

(* A walk along a ring meets its nodes in order, and no other. *)
LEMMA WalkOn ==
    ASSUME NEW f, NEW s, Ring(f, s), Len(s) > 0, NEW n \in Nat, NEW g, Walks(f, g, s[Len(s)], n)
    PROVE  /\ \A i \in 0 .. n : g[i] \in On(s)
           /\ \A i \in 1 .. n : i <= Len(s) => g[i] = s[i]
<1> DEFINE k == Len(s)
<1>1. k \in Nat /\ k > 0 /\ s \in Seq(Node)
  BY DEF Ring
<1>2. \A i \in 1 .. k : f[s[i]] = IF i = k THEN s[1] ELSE s[i + 1]
  BY DEF Ring
<1>3. \A i \in 1 .. k : s[i] \in On(s)
  BY <1>1, NodesOn
<1>4. \A x \in On(s) : f[x] \in On(s)
  <2> TAKE x \in On(s)
  <2>1. PICK i \in 1 .. k : x = s[i]
    BY DEF On
  <2>2. 1 \in 1 .. k /\ (i # k => i + 1 \in 1 .. k)
    BY <1>1
  <2>3. QED BY <1>2, <1>3, <2>1, <2>2
<1>5. g[0] = s[k] /\ \A i \in 1 .. n : g[i] = f[g[i - 1]]
  BY DEF Walks
<1>6. k \in 1 .. k /\ 1 \in 1 .. k
  BY <1>1
<1> HIDE DEF k
<1>7. \A i \in 0 .. n : g[i] \in On(s)
  <2> DEFINE T == {i \in 0 .. n : g[i] \notin On(s)}
  <2>1. SUFFICES ASSUME T # {} PROVE FALSE
    OBVIOUS
  <2>2. T \subseteq Nat
    OBVIOUS
  <2> HIDE DEF T
  <2>3. PICK i \in T : \A j \in T : i <= j
    BY <2>1, <2>2, LeastNat
  <2>4. i \in 0 .. n /\ g[i] \notin On(s)
    BY <2>3 DEF T
  <2>5. i # 0
    BY <1>3, <1>5, <1>6, <2>4
  <2>6. i \in 1 .. n /\ i - 1 \in 0 .. n /\ i - 1 \notin T
    BY <2>3, <2>4, <2>5
  <2>7. g[i - 1] \in On(s)
    BY <2>6 DEF T
  <2>8. QED BY <1>4, <1>5, <2>4, <2>6, <2>7
<1>8. \A i \in 1 .. n : i <= k => g[i] = s[i]
  <2> DEFINE T == {i \in 1 .. n : i <= k /\ g[i] # s[i]}
  <2>1. SUFFICES ASSUME T # {} PROVE FALSE
    OBVIOUS
  <2>2. T \subseteq Nat
    OBVIOUS
  <2> HIDE DEF T
  <2>3. PICK i \in T : \A j \in T : i <= j
    BY <2>1, <2>2, LeastNat
  <2>4. i \in 1 .. n /\ i <= k /\ g[i] # s[i]
    BY <2>3 DEF T
  <2>5. g[i] = f[g[i - 1]]
    BY <1>5, <2>4
  <2>6. CASE i = 1
    <3>1. f[s[k]] = s[1]
      BY <1>2, <1>6
    <3>2. QED BY <1>5, <2>4, <2>5, <2>6, <3>1
  <2>7. CASE i # 1
    <3>1. i - 1 \in 1 .. n /\ i - 1 <= k /\ i - 1 \notin T
      BY <1>1, <2>3, <2>4, <2>7
    <3>2. g[i - 1] = s[i - 1]
      BY <3>1 DEF T
    <3>3. i - 1 \in 1 .. k /\ i - 1 # k /\ (i - 1) + 1 = i
      BY <1>1, <2>4, <3>1
    <3>4. f[s[i - 1]] = s[i]
      BY <1>2, <3>3
    <3>5. QED BY <2>4, <2>5, <3>2, <3>4
  <2>8. QED BY <2>6, <2>7
<1>9. QED BY <1>7, <1>8 DEF k

(* The free nodes are those on their ring. *)
LEMMA FreeOn ==
    ASSUME NEW s, Ring(pool.next, s), pool.free = IF Len(s) = 0 THEN NoNode ELSE s[Len(s)]
    PROVE  FreeNodes = On(s)
<1> DEFINE k == Len(s)
<1>1. k \in Nat /\ s \in Seq(Node) /\ k <= Capacity
  BY CountOn DEF Ring
<1>2. CASE k = 0
  <2>1. On(s) = {}
    BY <1>2 DEF On
  <2>2. QED BY <1>2, <2>1 DEF FreeNodes
<1>3. CASE k > 0
  <2>1. pool.free = s[k] /\ s[k] \in Node
    BY <1>1, <1>3
  <2>2. pool.free # NoNode
    BY <2>1, NodesTyped
  <2>3. Capacity \in Nat
    BY NodesTyped
  <2>4. PICK g : Walks(pool.next, g, pool.free, Capacity) /\ g = [i \in 0 .. Capacity |-> g[i]]
    <3> DEFINE n == Capacity
               tail == pool.free
    <3>1. n \in Nat
      BY <2>3
    <3> HIDE DEF n, tail
    <3>2. HasWalk(pool.next, tail, n)
      BY <3>1, WalkExists
    <3>3. QED BY <3>2 DEF n, tail, HasWalk
  <2>5. Walk(pool.free, Capacity) = [i \in 1 .. Capacity |-> g[i]]
    <3> DEFINE tail == pool.free
               n == Capacity
    <3>1. n \in Nat /\ Walks(pool.next, g, tail, n) /\ g = [i \in 0 .. n |-> g[i]]
      BY <2>3, <2>4
    <3> HIDE DEF tail, n
    <3>2. Walk(tail, n) = [i \in 1 .. n |-> g[i]]
      BY <3>1, WalkIs
    <3>3. QED BY <3>2 DEF tail, n
  <2>6. /\ \A i \in 0 .. Capacity : g[i] \in On(s)
        /\ \A i \in 1 .. Capacity : i <= k => g[i] = s[i]
    BY <1>3, <2>1, <2>3, <2>4, WalkOn
  <2>7. FreeNodes = {g[i] : i \in 1 .. Capacity}
    <3>1. \A i \in 1 .. Capacity : Walk(pool.free, Capacity)[i] = g[i]
      BY <2>5
    <3>2. QED BY <2>2, <3>1 DEF FreeNodes
  <2>8. \A i \in 1 .. Capacity : g[i] \in On(s)
    BY <2>3, <2>6
  <2>9. \A x \in On(s) : \E i \in 1 .. Capacity : x = g[i]
    <3> TAKE x \in On(s)
    <3>1. PICK i \in 1 .. k : x = s[i]
      BY DEF On
    <3>2. i \in 1 .. Capacity /\ i <= k
      BY <1>1, <2>3
    <3>3. QED BY <2>6, <3>1, <3>2
  <2>10. QED BY <2>7, <2>8, <2>9
<1>4. QED BY <1>1, <1>2, <1>3

(* What Owned says of an owner. *)
Named(T, x) ==
    IF x[1] = "kept" THEN <<"kept", x[2].tail, x[2]>> ELSE <<x[1], x[2], T[x]>>

(* Each member of Owned is the tape of an owner. *)
LEMMA OwnedOwners ==
    ASSUME StoreInv
    PROVE  \A o \in Owned : \E x \in Owners :
              /\ o = Named(Held(building, pending, kept), x)
              /\ o[3] = Held(building, pending, kept)[x]
<1> DEFINE T == Held(building, pending, kept)
<1> SUFFICES ASSUME NEW o \in Owned
             PROVE  \E x \in Owners : o = Named(T, x) /\ o[3] = T[x]
  OBVIOUS
<1> HIDE DEF T
<1>1. ASSUME NEW c \in Conns, o = <<"building", c, building[c]>>
      PROVE  \E x \in Owners : o = Named(T, x) /\ o[3] = T[x]
  <2>1. <<"building", c>> \in Owners /\ T[<<"building", c>>] = building[c]
    BY OwnersAre DEF T
  <2>2. Named(T, <<"building", c>>) = <<"building", c, T[<<"building", c>>]>>
    BY DEF Named
  <2>3. QED BY <1>1, <2>1, <2>2
<1>2. ASSUME NEW c \in Conns, o = <<"pending", c, pending[c]>>
      PROVE  \E x \in Owners : o = Named(T, x) /\ o[3] = T[x]
  <2>1. <<"pending", c>> \in Owners /\ T[<<"pending", c>>] = pending[c]
    BY OwnersAre DEF T
  <2>2. Named(T, <<"pending", c>>) = <<"pending", c, T[<<"pending", c>>]>>
    BY DEF Named
  <2>3. QED BY <1>2, <2>1, <2>2
<1>3. ASSUME NEW t \in kept, o = <<"kept", t.tail, t>>
      PROVE  \E x \in Owners : o = Named(T, x) /\ o[3] = T[x]
  <2>1. t \in Tapes
    BY DEF StoreInv, TapeTyped
  <2>2. <<"kept", t>> \in Owners /\ T[<<"kept", t>>] = t
    BY <2>1, OwnersAre DEF T
  <2>3. Named(T, <<"kept", t>>) = <<"kept", t.tail, t>>
    BY DEF Named
  <2>4. QED BY <1>3, <2>2, <2>3
<1>4. QED BY <1>1, <1>2, <1>3 DEF Owned

(* The tape of an owner is empty or in Owned. *)
LEMMA OwnersOwned ==
    ASSUME StoreInv, NEW x \in Owners
    PROVE  \/ Held(building, pending, kept)[x] = Empty
           \/ \E o \in Owned : o[3] = Held(building, pending, kept)[x]
<1> DEFINE T == Held(building, pending, kept)
<1>1. CASE \E c \in Conns : x = <<"building", c>>
  <2>1. PICK c \in Conns : x = <<"building", c>>
    BY <1>1
  <2>2. T[x] = building[c]
    BY <2>1, OwnersAre
  <2>3. <<"building", c, building[c]>> \in Owned /\ <<"building", c, building[c]>>[3] = building[c]
    BY DEF Owned
  <2> HIDE DEF T
  <2>4. QED BY <2>2, <2>3 DEF T
<1>2. CASE \E c \in Conns : x = <<"pending", c>>
  <2>1. PICK c \in Conns : x = <<"pending", c>>
    BY <1>2
  <2>2. T[x] = pending[c]
    BY <2>1, OwnersAre
  <2>3. <<"pending", c, pending[c]>> \in Owned /\ <<"pending", c, pending[c]>>[3] = pending[c]
    BY DEF Owned
  <2> HIDE DEF T
  <2>4. QED BY <2>2, <2>3 DEF T
<1>3. CASE \E t \in Tapes : x = <<"kept", t>>
  <2>1. PICK t \in Tapes : x = <<"kept", t>>
    BY <1>3
  <2>2. T[x] = IF t \in kept THEN t ELSE Empty
    BY <2>1, OwnersAre
  <2>3. t \in kept => <<"kept", t.tail, t>> \in Owned /\ <<"kept", t.tail, t>>[3] = t
    BY DEF Owned
  <2> HIDE DEF T
  <2>4. QED BY <2>2, <2>3 DEF T
<1>4. QED BY <1>1, <1>2, <1>3, OwnersAre

(* The rings are exact: TapesExact of the runs.                            *)
LEMMA TapesHold == StoreInv => TapesExact
<1> SUFFICES ASSUME StoreInv PROVE TapesExact
  OBVIOUS
<1> DEFINE T == Held(building, pending, kept)
<1>1. PICK F : Laid(pool, Owners, T, F)
  BY DEF StoreInv, Stored
<1>2. \A o \in Owned : \E x \in Owners : o = Named(T, x) /\ o[3] = T[x]
  BY OwnedOwners
<1>3. \A x \in Owners : T[x] = Empty \/ \E o \in Owned : o[3] = T[x]
  BY OwnersOwned
<1> HIDE DEF T
<1>4. /\ \A x \in Owners : TapeFits(pool.next, T[x])
      /\ \A x, y \in Owners : x # y => On(T[x].nodes) \cap On(T[y].nodes) = {}
      /\ \A x \in Owners : On(T[x].nodes) \cap On(F) = {}
      /\ \A n \in Node : n \in On(F) \/ \E x \in Owners : n \in On(T[x].nodes)
      /\ Ring(pool.next, F)
      /\ pool.free = (IF Len(F) = 0 THEN NoNode ELSE F[Len(F)])
  BY <1>1 DEF Laid
<1>5. \A x \in Owners : /\ Walk(T[x].tail, Size(T[x])) = T[x].nodes
                        /\ T[x] # Empty => T[x].nodes[Size(T[x])] = T[x].tail
                        /\ Cardinality(NodesOf(T[x])) = Size(T[x])
                        /\ NodesOf(T[x]) = On(T[x].nodes)
  BY <1>4, TapeExact
<1>6. \A o \in Owned : LET t == o[3]
                       IN  /\ Walk(t.tail, Size(t)) = t.nodes
                           /\ t # Empty => t.nodes[Size(t)] = t.tail
                           /\ Cardinality(NodesOf(t)) = Size(t)
  <2> SUFFICES ASSUME NEW o \in Owned
               PROVE  /\ Walk(o[3].tail, Size(o[3])) = o[3].nodes
                      /\ o[3] # Empty => o[3].nodes[Size(o[3])] = o[3].tail
                      /\ Cardinality(NodesOf(o[3])) = Size(o[3])
    OBVIOUS
  <2>1. PICK x \in Owners : o[3] = T[x]
    BY <1>2
  <2>2. QED BY <1>5, <2>1
<1>7. \A o, q \in Owned : o # q => NodesOf(o[3]) \cap NodesOf(q[3]) = {}
  <2> SUFFICES ASSUME NEW o \in Owned, NEW q \in Owned, o # q
               PROVE  NodesOf(o[3]) \cap NodesOf(q[3]) = {}
    OBVIOUS
  <2>1. PICK x \in Owners : o = Named(T, x) /\ o[3] = T[x]
    BY <1>2
  <2>2. PICK y \in Owners : q = Named(T, y) /\ q[3] = T[y]
    BY <1>2
  <2>3. x # y
    BY <2>1, <2>2
  <2>4. On(T[x].nodes) \cap On(T[y].nodes) = {}
    BY <1>4, <2>3
  <2>5. NodesOf(T[x]) = On(T[x].nodes) /\ NodesOf(T[y]) = On(T[y].nodes)
    BY <1>5
  <2>6. QED BY <2>1, <2>2, <2>4, <2>5
<1>8. FreeNodes = On(F)
  BY <1>4, FreeOn
<1>9. On(F) = Node \ UNION {NodesOf(o[3]) : o \in Owned}
  <2> DEFINE U == UNION {NodesOf(o[3]) : o \in Owned}
  <2>1. \A n : n \in U <=> \E o \in Owned : n \in NodesOf(o[3])
    OBVIOUS
  <2> HIDE DEF U
  <2>2. \A n \in On(F) : n \in Node /\ n \notin U
    <3> TAKE n \in On(F)
    <3>1. n \in Node
      BY <1>4, NodesOn DEF Ring
    <3>2. ASSUME NEW o \in Owned, n \in NodesOf(o[3]) PROVE FALSE
      <4>1. PICK x \in Owners : o[3] = T[x]
        BY <1>2
      <4>2. n \in On(T[x].nodes)
        BY <1>5, <3>2, <4>1
      <4>3. QED BY <1>4, <4>2
    <3>3. QED BY <2>1, <3>1, <3>2
  <2>3. \A n \in Node : n \notin U => n \in On(F)
    <3> SUFFICES ASSUME NEW n \in Node, n \notin On(F) PROVE n \in U
      OBVIOUS
    <3>1. PICK x \in Owners : n \in On(T[x].nodes)
      BY <1>4
    <3>2. T[x] # Empty
      BY <3>1, EmptyFields, OnNone
    <3>3. PICK o \in Owned : o[3] = T[x]
      BY <1>3, <3>2
    <3>4. n \in NodesOf(o[3])
      BY <1>5, <3>1, <3>3
    <3>5. QED BY <2>1, <3>4
  <2>4. On(F) = Node \ U
    BY <2>2, <2>3
  <2>5. QED BY <2>4 DEF U
<1>10. QED BY <1>6, <1>7, <1>8, <1>9 DEF TapesExact

-----------------------------------------------------------------------------
(* There is room *)

(* The tape that a connection's lane is charged for. *)
LaneTape(c) == IF pending[c] # Empty THEN pending[c] ELSE building[c]

Owner == Own(gate, phase, Finishers)

(* The values it has, one pair each. *)
Filled == {x \in Owner \X (1 .. FrameValues) : x[2] <= LaneTape(x[1]).len}

(* A connection that may parse on has a lane, or there is one left. *)
LEMMA RoomLeft ==
    ASSUME IInv, StoreInv, NEW c \in Conns, CanAcquire(c), Size(building[c]) < FrameValues
    PROVE  \/ gate.active < Lanes
           \/ c \in Owner /\ LaneTape(c).len < FrameValues
<1>1. /\ phase[c] = "Held" => pending[c] = Empty
      /\ gate.granted[c] => phase[c] = "Waiting" /\ pending[c] = Empty
  BY DEF IInv, Fit, Finishers
<1>2. phase[c] = "Held" \/ gate.granted[c] => c \in Owner
  BY DEF Owner, Own
<1>3. building[c].len < FrameValues
  BY DEF Size
<1>4. pending[c] = Empty => LaneTape(c) = building[c]
  BY DEF LaneTape
<1>5. CASE gate.active < Lanes
  BY <1>5
<1>6. CASE phase[c] = "Held" \/ gate.granted[c]
  BY <1>1, <1>2, <1>3, <1>4, <1>6
<1>7. QED BY <1>5, <1>6 DEF CanAcquire

(* Every node is free, a lane's, or one of the reply arena. *)
LEMMA NodesUsed ==
    ASSUME IInv, StoreInv, pool.free = NoNode
    PROVE  Node \subseteq {LaneTape(x[1]).nodes[x[2]] : x \in Filled}
                          \cup {x[1].nodes[x[2]] : x \in Charge(kept)}
<1> DEFINE T == Held(building, pending, kept)
<1>1. PICK F : Laid(pool, Owners, T, F)
  BY DEF StoreInv, Stored
<1> HIDE DEF T
<1>2. On(F) = {}
  <2>1. F \in Seq(Node) /\ pool.free = (IF Len(F) = 0 THEN NoNode ELSE F[Len(F)])
    BY <1>1 DEF Laid, Ring
  <2>2. Len(F) = 0
    BY <2>1, NodesTyped
  <2>3. QED BY <2>2 DEF On
<1>3. SUFFICES ASSUME NEW n \in Node
               PROVE  \/ n \in {LaneTape(x[1]).nodes[x[2]] : x \in Filled}
                      \/ n \in {x[1].nodes[x[2]] : x \in Charge(kept)}
  OBVIOUS
<1>4. PICK o \in Owners : n \in On(T[o].nodes)
  BY <1>1, <1>2 DEF Laid
<1>5. TapeFits(pool.next, T[o])
  BY <1>1 DEF Laid
<1>6. PICK i \in 1 .. Len(T[o].nodes) : n = T[o].nodes[i]
  BY <1>4 DEF On
<1>7. i \in Nat /\ i >= 1 /\ i <= T[o].len
  BY <1>5, <1>6 DEF TapeFits, Tapes
<1>8. T[o].len > 0 /\ T[o] # Empty
  BY <1>5, <1>7, EmptyFields DEF TapeFits, Tapes
<1>9. ASSUME NEW c \in Conns, c \in Owner, T[o] = LaneTape(c), T[o].len <= FrameValues
      PROVE  n \in {LaneTape(x[1]).nodes[x[2]] : x \in Filled}
  <2> DEFINE x == <<c, i>>
  <2>1. i \in 1 .. FrameValues
    BY <1>5, <1>7, <1>9, StorageAssumption DEF TapeFits, Tapes
  <2>2. x \in Filled
    BY <1>7, <1>9, <2>1 DEF Filled
  <2>3. n = LaneTape(x[1]).nodes[x[2]]
    BY <1>6, <1>9
  <2> HIDE DEF x
  <2>4. QED BY <2>2, <2>3
<1>10. CASE \E c \in Conns : o = <<"building", c>>
  <2>1. PICK c \in Conns : o = <<"building", c>>
    BY <1>10
  <2>2. T[o] = building[c]
    BY <2>1, OwnersAre DEF T
  <2>3. phase[c] = "Held" /\ building[c].len <= FrameValues
    <3>1. /\ building[c].len < FrameValues
          /\ phase[c] # "Held" => building[c] = Empty
      BY DEF StoreInv, Sized
    <3>2. building[c].len \in Nat
      BY DEF StoreInv, TapeTyped, Tapes
    <3>3. QED BY <1>8, <2>2, <3>1, <3>2, StorageAssumption
  <2>4. pending[c] = Empty
    BY <2>3 DEF IInv, Fit, Finishers
  <2>5. LaneTape(c) = building[c] /\ c \in Owner
    BY <2>3, <2>4 DEF LaneTape, Owner, Own
  <2>6. QED BY <1>9, <2>2, <2>3, <2>5
<1>11. CASE \E c \in Conns : o = <<"pending", c>>
  <2>1. PICK c \in Conns : o = <<"pending", c>>
    BY <1>11
  <2>2. T[o] = pending[c]
    BY <2>1, OwnersAre DEF T
  <2>3. LaneTape(c) = pending[c] /\ c \in Owner
    BY <1>8, <2>2 DEF LaneTape, Owner, Own, Finishers
  <2>4. pending[c].len <= FrameValues
    BY DEF StoreInv, Sized
  <2>5. QED BY <1>9, <2>2, <2>3, <2>4
<1>12. CASE \E t \in Tapes : o = <<"kept", t>>
  <2>1. PICK t \in Tapes : o = <<"kept", t>>
    BY <1>12
  <2>2. T[o] = IF t \in kept THEN t ELSE Empty
    BY <2>1, OwnersAre DEF T
  <2>3. t \in kept /\ T[o] = t
    BY <1>8, <2>2
  <2>4. t.len <= FrameValues /\ t.len \in Nat
    BY <2>1, <2>3 DEF StoreInv, Sized, Tapes
  <2> DEFINE x == <<t, i>>
  <2>5. i \in 1 .. FrameValues /\ i <= t.len
    BY <1>7, <2>3, <2>4, StorageAssumption
  <2>6. x \in Charge(kept)
    BY <2>3, <2>5 DEF Charge, Size
  <2>7. n = x[1].nodes[x[2]]
    BY <1>6, <2>3
  <2> HIDE DEF x
  <2>8. QED BY <2>6, <2>7
<1>13. QED BY <1>10, <1>11, <1>12, OwnersAre

(* The lanes that are charged have room for so many values.                *)
LEMMA FilledFinite ==
    ASSUME IInv
    PROVE  /\ IsFiniteSet(Owner \X (1 .. FrameValues)) /\ IsFiniteSet(Filled)
           /\ Cardinality(Owner \X (1 .. FrameValues)) = gate.active * FrameValues
           /\ gate.active \in Nat /\ gate.active <= Lanes
<1>1. gate.active = Cardinality(Owner) + 0 /\ gate.active <= Lanes
  BY DEF IInv, Fit, Owner
<1>2. IsFiniteSet(Owner) /\ Cardinality(Owner) \in Nat
  BY OwnFinite DEF Owner
<1>3. FrameValues \in Nat
  BY StorageAssumption
<1>4. IsFiniteSet(1 .. FrameValues) /\ Cardinality(1 .. FrameValues) = FrameValues
  BY <1>3, CountTo
<1>5. /\ IsFiniteSet(Owner \X (1 .. FrameValues))
      /\ Cardinality(Owner \X (1 .. FrameValues)) = Cardinality(Owner) * Cardinality(1 .. FrameValues)
  BY <1>2, <1>4, FS_Product
<1>6. Filled \in SUBSET (Owner \X (1 .. FrameValues))
  BY DEF Filled
<1>7. IsFiniteSet(Filled)
  BY <1>5, <1>6, FS_Subset
<1>8. gate.active = Cardinality(Owner)
  BY <1>1, <1>2
<1>9. QED BY <1>1, <1>2, <1>4, <1>5, <1>7, <1>8

(* If no node were free, the lanes and the arena would be full: NeverFull  *)
(* of the runs.                                                            *)
LEMMA RoomHolds == IInv /\ StoreInv => NeverFull
<1> SUFFICES ASSUME IInv, StoreInv, NEW c \in Conns, CanAcquire(c), Size(building[c]) < FrameValues,
                    pool.free = NoNode
             PROVE  FALSE
  BY DEF NeverFull
<1> DEFINE A == {LaneTape(x[1]).nodes[x[2]] : x \in Filled}
           B == {x[1].nodes[x[2]] : x \in Charge(kept)}
           E == Owner \X (1 .. FrameValues)
<1>1. /\ IsFiniteSet(E) /\ IsFiniteSet(Filled)
      /\ Cardinality(E) = gate.active * FrameValues
      /\ gate.active \in Nat /\ gate.active <= Lanes
  BY FilledFinite
<1>2. IsFiniteSet(A) /\ Cardinality(A) <= Cardinality(Filled)
  <2> DEFINE f == [x \in Filled |-> LaneTape(x[1]).nodes[x[2]]]
  <2>1. A = {f[x] : x \in Filled} /\ f = [x \in Filled |-> f[x]]
    OBVIOUS
  <2> HIDE DEF A, f
  <2>2. QED BY <1>1, <2>1, Covered
<1>3. /\ IsFiniteSet(Charge(kept)) /\ Cardinality(Charge(kept)) \in Nat
      /\ Cardinality(Charge(kept)) <= Retained
  <2>1. IsFiniteSet(kept) /\ Cardinality(Charge(kept)) <= Retained
    BY DEF StoreInv, Sized
  <2>2. QED BY <2>1, ChargeFinite
<1>4. IsFiniteSet(B) /\ Cardinality(B) <= Cardinality(Charge(kept))
  <2> DEFINE f == [x \in Charge(kept) |-> x[1].nodes[x[2]]]
  <2>1. B = {f[x] : x \in Charge(kept)} /\ f = [x \in Charge(kept) |-> f[x]]
    OBVIOUS
  <2> HIDE DEF B, f
  <2>2. QED BY <1>3, <2>1, Covered
<1>5. Node \subseteq A \cup B
  BY NodesUsed
<1>6. Filled \in SUBSET E
  BY DEF Filled
<1>7. IsFiniteSet(Node) /\ Cardinality(Node) = Capacity
  BY NodesTyped, CountTo DEF Node
<1>8. Cardinality(Filled) < Lanes * FrameValues
  <2>1. Cardinality(Filled) <= Cardinality(E) /\ (Cardinality(E) = Cardinality(Filled) => E = Filled)
    BY <1>1, <1>6, FS_Subset
  <2>2. Cardinality(Filled) \in Nat /\ Cardinality(E) \in Nat
    BY <1>1, FS_CardinalityType
  <2>3. FrameValues \in Nat /\ FrameValues > 0 /\ Lanes \in Nat
    BY StorageAssumption
  <2>4. gate.active * FrameValues <= Lanes * FrameValues
    BY <1>1, <2>3
  <2>5. CASE gate.active < Lanes
    <3>1. gate.active * FrameValues < Lanes * FrameValues
      BY <1>1, <2>3, <2>5
    <3> HIDE DEF E
    <3>2. QED BY <1>1, <2>1, <2>2, <2>3, <3>1
  <2>6. CASE c \in Owner /\ LaneTape(c).len < FrameValues
    <3>1. <<c, FrameValues>> \in E
      BY <2>3, <2>6
    <3>2. LaneTape(c).len \in Nat
      BY DEF LaneTape, StoreInv, TapeTyped, Tapes
    <3>3. ~ (FrameValues <= LaneTape(c).len)
      BY <2>3, <2>6, <3>2
    <3>4. <<c, FrameValues>> \notin Filled
      BY <3>3 DEF Filled
    <3>5. E # Filled
      BY <3>1, <3>4
    <3> HIDE DEF E
    <3>6. Cardinality(Filled) < Cardinality(E)
      BY <2>1, <2>2, <3>5
    <3>7. QED BY <1>1, <2>2, <2>3, <2>4, <3>6
  <2>7. QED BY <2>5, <2>6, RoomLeft
<1> HIDE DEF A, B, E
<1>9. IsFiniteSet(A \cup B) /\ Cardinality(A \cup B) = Cardinality(A) + Cardinality(B) - Cardinality(A \cap B)
  BY <1>2, <1>4, FS_Union
<1>10. Cardinality(A \cap B) \in Nat /\ Cardinality(A) \in Nat /\ Cardinality(B) \in Nat
  <2>1. A \cap B \in SUBSET A
    OBVIOUS
  <2>2. IsFiniteSet(A \cap B)
    BY <1>2, <2>1, FS_Subset
  <2>3. QED BY <1>2, <1>4, <2>2, FS_CardinalityType
<1>11. Node \in SUBSET (A \cup B)
  BY <1>5
<1>12. Cardinality(Node) <= Cardinality(A \cup B)
  BY <1>9, <1>11, FS_Subset
<1>13. Cardinality(Filled) \in Nat
  BY <1>1, FS_CardinalityType
<1> DEFINE L == Lanes * FrameValues
<1>14. Capacity = L + Retained /\ L \in Nat /\ Retained \in Nat
  BY StorageAssumption DEF Capacity
<1>15. Cardinality(Filled) < L
  BY <1>8
<1> HIDE DEF L
<1>16. Cardinality(A \cup B) <= Cardinality(Filled) + Cardinality(Charge(kept))
  BY <1>2, <1>3, <1>4, <1>9, <1>10, <1>13
<1>17. QED BY <1>3, <1>7, <1>10, <1>12, <1>13, <1>14, <1>15, <1>16, <1>9, FS_CardinalityType

(* Every tape of the storage is read along its links in the order it was   *)
(* written; no two tapes share a node; the free ring is every other node;  *)
(* and a connection with a lane finds a free node for every value of its   *)
(* frame. So the unchecked indexing of the node pool stays within the      *)
(* rings and the RetainCapacity answer cannot occur, for any number of     *)
(* connections, lanes and values: Capacity::try_with computes enough.      *)
THEOREM NodesExactCorrect == Spec => []NodesExact
<1>1. IInv /\ StoreInv => NodesExact
  BY TapesHold, RoomHolds DEF NodesExact
<1>2. QED BY <1>1, StoreInvariance, PTL

-----------------------------------------------------------------------------
(* The failures table *)

USE FailuresAssumption

(* The search of clear finds the lowest occupied slot above s, if any.     *)
LEMMA NextOccupiedLowest ==
    ASSUME NEW s \in Slot
    PROVE  LET after == {t \in Occupied : t > s}
           IN /\ after = {} => NextOccupied(s) = Nowhere
              /\ after # {} => /\ NextOccupied(s) \in after
                               /\ \A u \in after : NextOccupied(s) <= u
<1> DEFINE after == {t \in Occupied : t > s}
<1>1. after \subseteq Nat
  BY DEF Occupied, Slot
<1>2. CASE after = {}
  BY <1>2 DEF NextOccupied
<1>3. CASE after # {}
  <2>1. \E t \in after : \A u \in after : t <= u
    <3> HIDE DEF after
    <3>1. QED
      BY <1>1, <1>3, LeastNat
  <2>2. QED
    BY <1>3, <2>1 DEF NextOccupied
<1>4. QED
  BY <1>2, <1>3

-----------------------------------------------------------------------------
(* The types that FirstLowest needs to be inductive.                       *)
FailuresType ==
    /\ lanes \in [Slot -> Failure \cup {NoFailure}]
    /\ first \in Slot \cup {Nowhere}

FailuresInv == FailuresType /\ FirstLowest

LEMMA FirstLowestInit == FailuresInit => FailuresInv
BY DEF FailuresInit, FailuresInv, FailuresType, FirstLowest, Occupied, Nowhere, Slot

LEMMA FirstLowestStep == FailuresInv /\ [FailuresNext]_failureVars => FailuresInv'
<1> SUFFICES ASSUME FailuresInv, [FailuresNext]_failureVars
             PROVE  FailuresInv'
  OBVIOUS
<1> USE DEF FailuresInv, FailuresType
<1>1. ASSUME NEW s \in Slot, NEW f \in Failure, Record(s, f)
      PROVE  FailuresInv'
  <2>1. FailuresType'
    BY <1>1 DEF Record, Lowest, Nowhere, Slot
  <2>2. Occupied' = Occupied \cup {s}
    BY <1>1 DEF Record, Occupied
  <2>3. first' \in Occupied' /\ \A t \in Occupied' : first' <= t
    BY <1>1, <2>2 DEF Record, Lowest, FirstLowest, Nowhere, Slot, Occupied
  <2>4. QED
    BY <2>1, <2>3 DEF FirstLowest, Occupied, Slot, Nowhere
<1>2. ASSUME NEW s \in Slot, Clear(s)
      PROVE  FailuresInv'
  <2>1. Occupied' = Occupied \ {s}
    BY <1>2 DEF Clear, Occupied
  <2>2. CASE first # s
    BY <1>2, <2>1, <2>2 DEF Clear, FirstLowest, Nowhere, Slot, Occupied
  <2>3. CASE first = s
    <3> DEFINE after == {t \in Occupied : t > s}
    <3>1. after = Occupied'
      BY <2>1, <2>3 DEF FirstLowest, Occupied, Slot, Nowhere
    <3>2. /\ after = {} => NextOccupied(s) = Nowhere
          /\ after # {} => /\ NextOccupied(s) \in after
                           /\ \A u \in after : NextOccupied(s) <= u
      BY NextOccupiedLowest
    <3>3. first' = NextOccupied(s)
      BY <1>2, <2>3 DEF Clear, FirstLowest, Occupied, Slot, Nowhere
    <3>4. after \subseteq Slot
      BY DEF Occupied
    <3>5. lanes' \in [Slot -> Failure \cup {NoFailure}]
      BY <1>2 DEF Clear
    <3> HIDE DEF after
    <3>6. FirstLowest'
      <4>1. CASE after = {}
        BY <3>1, <3>2, <3>3, <4>1 DEF FirstLowest, Nowhere
      <4>2. CASE after # {}
        <5>1. first' \in Occupied' /\ \A u \in Occupied' : first' <= u
          BY <3>1, <3>2, <3>3, <4>2
        <5>2. first' # Nowhere
          BY <3>1, <3>4, <5>1 DEF Slot, Nowhere
        <5>3. QED
          BY <5>1, <5>2 DEF FirstLowest, Nowhere
      <4>3. QED
        BY <4>1, <4>2
    <3>7. first' \in Slot \cup {Nowhere}
      BY <3>2, <3>3, <3>4
    <3>8. QED
      BY <3>5, <3>6, <3>7
  <2>4. QED
    BY <2>2, <2>3
<1>3. CASE UNCHANGED failureVars
  BY <1>3 DEF failureVars, FirstLowest, Occupied
<1>4. QED
  BY <1>1, <1>2, <1>3 DEF FailuresNext

(* The cached pointer of Failures always designates the lowest occupied    *)
(* lane, and is absent exactly when every lane is empty.                   *)
THEOREM FirstLowestCorrect == FailuresSpec => []FirstLowest
<1>1. FailuresInv => FirstLowest
  BY DEF FailuresInv
<1>2. QED
  BY <1>1, FirstLowestInit, FirstLowestStep, PTL DEF FailuresSpec
=============================================================================
