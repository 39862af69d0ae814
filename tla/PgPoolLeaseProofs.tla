-------------------------- MODULE PgPoolLeaseProofs --------------------------
(***************************************************************************)
(* Proofs about the transactions of the PostgreSQL pool, for every number  *)
(* of connections, commands and transactions.  Whatever the server sends,  *)
(* a connection that is off the index for a transaction has one holder.    *)
(* If the server answers what it was sent, as many Syncs are due as the    *)
(* pool counts, nobody's command enters the transaction of another, and    *)
(* the server is in the transaction the pool believes it is in, even when  *)
(* the text of a command opens or ends one.                                *)
(* If no text does, the session understands every such server: it finds    *)
(* each answer's reply in front, in its batch, and settles every batch.    *)
(***************************************************************************)
EXTENDS PgPoolProofs

-----------------------------------------------------------------------------
(* Leases *)

(* The lease of h is of a connection its slot has had, and of an access    *)
(* sequence that connection has reached.                                   *)
Past(h) ==
    target[h] # NoTarget =>
        LET s == target[h].slot
        IN /\ target[h].gen <= gen[s]
           /\ target[h].gen = gen[s] => phase[s] # "Handshaking" /\ target[h].seq <= seq[s]

(* A slot that is owned has a holder, and a holder is in a stage that fits *)
(* the access of its slot.                                                 *)
Held(s) ==
    /\ access[s] \in Owned => \E h \in Txs : target[h] = Id(s)
    /\ phase[s] = "Ready" => \A h \in Txs : target[h] = Id(s) =>
          /\ stage[h] = "Begin" => access[s] \in {"Reserved", "Held"}
          /\ stage[h] = "Open" => access[s] = "Held"
          /\ stage[h] = "Finish" => access[s] \in {"Finalizing", "Shared", "Draining"}

LeaseInv ==
    /\ \A h \in Txs : Past(h) /\ (stage[h] = "Idle" <=> target[h] = NoTarget)
    /\ \A g, h \in Txs : g # h /\ target[g] = target[h] => target[h] = NoTarget
    /\ \A s \in Slot : Held(s)

-----------------------------------------------------------------------------
(* Requests on their way, of a server that answers what it is sent *)

(* TxIsolation, of requests r and transaction t.                           *)
Isolated(r, t) ==
    \A j \in 1 .. Len(r) :
        /\ t \in Txs => r[j].by \in {t, Nobody}
        /\ \A i \in 1 .. j - 1 : r[i].does = "Begin" => r[j].by \in {r[i].by, Nobody}

Syncs(r) == {i \in 1 .. Len(r) : r[i].sync}
Ended(r) == Len(r) > 0 => r[Len(r)].sync
NoBegin(r) == \A j \in 1 .. Len(r) : r[j].does # "Begin"
Only(r, h) == \A j \in 1 .. Len(r) : r[j].by \in {h, Nobody} /\ r[j].does # "Begin"

(* The BEGIN of h is the last request, behind a batch of its own.          *)
Waiting(r, t, h) ==
    /\ Len(r) > 0 /\ r[Len(r)] = Frame(h, "Begin", TRUE)
    /\ \A j \in 1 .. Len(r) - 1 : r[j].does # "Begin"
    /\ IF Len(r) = 1 THEN t = Nobody ELSE r[Len(r) - 1].sync
    /\ t \notin Txs

(* It was taken: no more than its Sync is left of it.                      *)
Begun(r, t, h) ==
    /\ \A j \in 1 .. Len(r) : r[j].by = Nobody
    /\ t \in {h, Nobody}

(* What an access says of the requests r, the transaction t and the state  *)
(* sy of the pipeline: without a holder, and with holder h.                *)
Free(a, r, t, sy) ==
    a \in {"Shared", "Draining"} =>
        /\ t \notin Txs /\ NoBegin(r)
        /\ sy = "Synced" /\ Len(r) = 0 => t = Nobody
Taken(a, r, t, sy, h) ==
    /\ a = "Reserved" => Waiting(r, t, h) \/ Begun(r, t, h)
    /\ a \in {"Held", "Finalizing"} => Only(r, h) /\ t \in {h, Nobody}
    /\ a = "Held" /\ sy = "Synced" /\ Len(r) = 0 => t = h

(* The BEGIN's own batch is the one whose status is settled.               *)
Entering(s) ==
    access[s] = "Reserved" /\ settling[s] = "Transaction" =>
        /\ Len(Requests(s)) = 0
        /\ \/ Len(lane[s]) = 0
           \/ Len(lane[s]) = 1 /\ lane[s][1].kind = "Begin" /\ lane[s][1].batch = sbatch[s]

Settling(s) ==
    /\ settling[s] = "Idle" => txn[s] = Nobody /\ access[s] # "Held"
    /\ settling[s] = "Transaction" => txn[s] # Nobody /\ access[s] \in {"Reserved", "Held"}

Begins(s) ==
    \A i \in 1 .. Len(lane[s]) : lane[s][i].kind = "Begin" =>
        access[s] = "Reserved" /\ i = Len(lane[s])

ReadyInv(s) ==
    /\ pending[s] = Cardinality(Syncs(Requests(s))) + (IF settling[s] = "No" THEN 0 ELSE 1)
    /\ batch[s] = (sbatch[s] + pending[s]) % Batches
    /\ sync[s] = "Synced" => Ended(Requests(s))
    /\ access[s] \in {"Reserved", "Finalizing"} => sync[s] = "Synced"
    /\ access[s] = "Finalizing" => pending[s] = 1
    /\ Settling(s) /\ Begins(s) /\ Entering(s)
    /\ Free(access[s], Requests(s), txn[s], sync[s])
    /\ \A h \in Txs : target[h] = Id(s) => Taken(access[s], Requests(s), txn[s], sync[s], h)

WireInv(s) ==
    /\ session[s] # "Ready" => settling[s] = "No"
    /\ phase[s] \in {"Vacant", "Handshaking"} => Len(Requests(s)) = 0 /\ txn[s] = Nobody
    /\ phase[s] = "Closing" => Isolated(Requests(s), txn[s])
    /\ phase[s] = "Ready" => ReadyInv(s)

RequestsInv == ~Rogue => \A s \in Slot : WireInv(s)

-----------------------------------------------------------------------------
(* How the requests of a connection change *)

(* A request is added, the first one is gone, or the server has run it and *)
(* its Sync is left.                                                       *)
Gains(r, new, f) ==
    /\ Len(new) = Len(r) + 1 /\ new[Len(r) + 1] = f
    /\ \A i \in 1 .. Len(r) : new[i] = r[i]
Loses(r, new) ==
    /\ Len(r) > 0 /\ Len(new) = Len(r) - 1
    /\ \A i \in 1 .. Len(new) : new[i] = r[i + 1]
Runs(r, new) ==
    IF r[1].sync
    THEN /\ Len(r) > 0 /\ Len(new) = Len(r) /\ new[1] = SyncFrame
         /\ \A i \in 2 .. Len(r) : new[i] = r[i]
    ELSE Loses(r, new)

LEMMA SyncInFrames == SyncFrame \in Frames /\ SyncFrame.sync = TRUE /\ SyncFrame.by = Nobody
                      /\ SyncFrame.does = "Sync"
BY DEF SyncFrame, Frame, Frames

LEMMA ConcatGains ==
    ASSUME NEW w \in Seq(Frames), NEW q \in Seq(Frames), NEW f \in Frames
    PROVE  Gains(w \o q, w \o Append(q, f), f)
<1> DEFINE a == Append(q, f)
<1>1. /\ a \in Seq(Frames) /\ Len(a) = Len(q) + 1 /\ a[Len(q) + 1] = f
      /\ \A i \in 1 .. Len(q) : a[i] = q[i]
  BY AppendProperties
<1> HIDE DEF a
<1>2. /\ Len(w \o q) = Len(w) + Len(q) /\ Len(w \o a) = Len(w) + Len(a)
      /\ \A i \in 1 .. Len(w) + Len(q) :
             (w \o q)[i] = IF i <= Len(w) THEN w[i] ELSE q[i - Len(w)]
      /\ \A i \in 1 .. Len(w) + Len(a) :
             (w \o a)[i] = IF i <= Len(w) THEN w[i] ELSE a[i - Len(w)]
  BY <1>1, ConcatProperties
<1>3. Len(w) \in Nat /\ Len(q) \in Nat
  OBVIOUS
<1> DEFINE m == Len(w)
           n == Len(q)
           x == w \o q
           y == w \o a
<1>4. /\ Len(x) = m + n /\ Len(y) = m + (n + 1) /\ m \in Nat /\ n \in Nat
      /\ \A i \in 1 .. m + n : x[i] = IF i <= m THEN w[i] ELSE q[i - m]
      /\ \A i \in 1 .. m + (n + 1) : y[i] = IF i <= m THEN w[i] ELSE a[i - m]
      /\ a[n + 1] = f /\ \A i \in 1 .. n : a[i] = q[i]
  BY <1>1, <1>2, <1>3
<1> HIDE DEF m, n, x, y
<1>5. Len(y) = Len(x) + 1 /\ y[Len(x) + 1] = f
  <2>1. (m + n) + 1 \in 1 .. m + (n + 1) /\ ~ ((m + n) + 1 <= m) /\ ((m + n) + 1) - m = n + 1
    BY <1>4
  <2> QED
    BY <1>4, <2>1
<1>6. ASSUME NEW i \in 1 .. Len(x) PROVE y[i] = x[i]
  <2>1. i \in 1 .. m + n /\ i \in 1 .. m + (n + 1)
    BY <1>4
  <2>2. CASE i <= m
    BY <1>4, <2>1, <2>2
  <2>3. CASE ~ (i <= m)
    <3>1. i - m \in 1 .. n
      BY <1>4, <2>1, <2>3
    <3> QED
      BY <1>4, <2>1, <2>3, <3>1
  <2> QED
    BY <2>2, <2>3
<1>7. Gains(x, y, f)
  BY <1>5, <1>6 DEF Gains
<1> QED
  BY <1>7 DEF x, y, a

LEMMA ConcatDrain ==
    ASSUME NEW w \in Seq(Frames), NEW q \in Seq(Frames), q # <<>>
    PROVE  Append(w, Head(q)) \o Tail(q) = w \o q
<1>1. Head(q) \in Frames /\ Tail(q) \in Seq(Frames) /\ <<Head(q)>> \in Seq(Frames)
  BY HeadTailProperties
<1>2. Append(w, Head(q)) = w \o <<Head(q)>>
  BY <1>1, AppendIsConcat
<1>3. (w \o <<Head(q)>>) \o Tail(q) = w \o (<<Head(q)>> \o Tail(q))
  BY <1>1, ConcatAssociative
<1>4. <<Head(q)>> \o Tail(q) = q
  <2> DEFINE u == <<Head(q)>>
             t == Tail(q)
  <2>1. /\ u \in Seq(Frames) /\ Len(u) = 1 /\ u[1] = q[1]
        /\ Len(t) = Len(q) - 1 /\ t \in Seq(Frames) /\ Len(q) \in Nat \ {0}
        /\ \A i \in 1 .. Len(t) : t[i] = q[i + 1]
    BY <1>1, HeadTailProperties, EmptySeq
  <2> HIDE DEF u, t
  <2>2. /\ u \o t \in Seq(Frames) /\ Len(u \o t) = Len(u) + Len(t)
        /\ \A i \in 1 .. Len(u) + Len(t) :
               (u \o t)[i] = IF i <= Len(u) THEN u[i] ELSE t[i - Len(u)]
    BY <2>1, ConcatProperties
  <2>3. Len(u \o t) = Len(q)
    BY <2>1, <2>2
  <2>4. ASSUME NEW i \in 1 .. Len(u \o t) PROVE (u \o t)[i] = q[i]
    <3>1. i \in 1 .. Len(u) + Len(t)
      BY <2>2
    <3>2. CASE i = 1
      BY <2>1, <2>2, <3>1, <3>2
    <3>3. CASE i # 1
      <4>1. i - 1 \in 1 .. Len(t) /\ ~ (i <= 1) /\ (i - 1) + 1 = i
        BY <2>1, <3>1, <3>3
      <4> QED
        BY <2>1, <2>2, <3>1, <4>1
    <3> QED
      BY <3>2, <3>3
  <2>5. u \o t = q
    BY <2>2, <2>3, <2>4, SeqEqual
  <2> QED
    BY <2>5 DEF u, t
<1> QED
  BY <1>2, <1>3, <1>4

LEMMA ConcatLoses ==
    ASSUME NEW w \in Seq(Frames), NEW q \in Seq(Frames), w # <<>>
    PROVE  Loses(w \o q, Tail(w) \o q) /\ (w \o q)[1] = Head(w)
<1> DEFINE t == Tail(w)
           m == Len(w)
           n == Len(q)
           x == w \o q
           y == t \o q
<1>1. /\ t \in Seq(Frames) /\ Len(t) = m - 1 /\ m \in Nat \ {0} /\ n \in Nat
      /\ \A i \in 1 .. Len(t) : t[i] = w[i + 1]
      /\ Head(w) = w[1]
  BY HeadTailProperties, EmptySeq
<1> HIDE DEF t
<1>2. /\ Len(x) = m + n /\ Len(y) = Len(t) + n
      /\ \A i \in 1 .. m + n : x[i] = IF i <= m THEN w[i] ELSE q[i - m]
      /\ \A i \in 1 .. Len(t) + n : y[i] = IF i <= Len(t) THEN t[i] ELSE q[i - Len(t)]
  BY <1>1, ConcatProperties
<1> HIDE DEF m, n, x, y
<1>3. Len(x) > 0 /\ Len(y) = Len(x) - 1
  BY <1>1, <1>2
<1>4. ASSUME NEW i \in 1 .. Len(y) PROVE y[i] = x[i + 1]
  <2>1. i \in 1 .. Len(t) + n /\ i + 1 \in 1 .. m + n /\ i \in Int
    BY <1>1, <1>2
  <2>2. CASE i <= Len(t)
    <3>1. i + 1 <= m /\ i \in 1 .. Len(t)
      BY <1>1, <2>1, <2>2
    <3> QED
      BY <1>1, <1>2, <2>1, <2>2, <3>1
  <2>3. CASE ~ (i <= Len(t))
    <3>1. ~ (i + 1 <= m) /\ i - Len(t) = (i + 1) - m
      BY <1>1, <2>1, <2>3
    <3> QED
      BY <1>2, <2>1, <2>3, <3>1
  <2> QED
    BY <2>2, <2>3
<1>5. x[1] = Head(w)
  <2>1. 1 \in 1 .. m + n /\ 1 <= m
    BY <1>1
  <2> QED
    BY <1>1, <1>2, <2>1
<1>6. Loses(x, y)
  BY <1>3, <1>4 DEF Loses
<1> QED
  BY <1>5, <1>6 DEF x, y, t

LEMMA ConcatRuns ==
    ASSUME NEW w \in Seq(Frames), NEW q \in Seq(Frames), w # <<>>, Head(w).sync
    PROVE  Runs(w \o q, (<<SyncFrame>> \o Tail(w)) \o q)
<1> DEFINE t == Tail(w)
           u == <<SyncFrame>>
           v == u \o t
           m == Len(w)
           n == Len(q)
           x == w \o q
           y == v \o q
<1>1. /\ t \in Seq(Frames) /\ Len(t) = m - 1 /\ m \in Nat \ {0} /\ n \in Nat
      /\ \A i \in 1 .. Len(t) : t[i] = w[i + 1]
      /\ Head(w) = w[1] /\ u \in Seq(Frames) /\ Len(u) = 1 /\ u[1] = SyncFrame
  BY HeadTailProperties, EmptySeq, SyncInFrames
<1> HIDE DEF t, u
<1>0. u \in Seq(Frames) /\ t \in Seq(Frames)
  BY <1>1
<1>2. /\ v \in Seq(Frames) /\ Len(v) = Len(u) + Len(t)
      /\ \A i \in 1 .. Len(u) + Len(t) : v[i] = IF i <= Len(u) THEN u[i] ELSE t[i - Len(u)]
  BY ONLY <1>0, ConcatProperties
<1> HIDE DEF v
<1>3. Len(v) = m /\ v[1] = SyncFrame /\ \A i \in 2 .. m : v[i] = w[i]
  <2>1. Len(v) = m /\ 1 \in 1 .. Len(u) + Len(t)
    BY <1>1, <1>2
  <2>2. ASSUME NEW i \in 2 .. m PROVE v[i] = w[i]
    <3>1. i \in 1 .. Len(u) + Len(t) /\ ~ (i <= Len(u)) /\ i - 1 \in 1 .. Len(t)
          /\ (i - 1) + 1 = i
      BY <1>1
    <3> QED
      BY <1>1, <1>2, <3>1
  <2> QED
    BY <1>1, <1>2, <2>1, <2>2
<1>4. /\ Len(x) = m + n /\ Len(y) = Len(v) + n
      /\ \A i \in 1 .. m + n : x[i] = IF i <= m THEN w[i] ELSE q[i - m]
      /\ \A i \in 1 .. Len(v) + n : y[i] = IF i <= Len(v) THEN v[i] ELSE q[i - Len(v)]
  BY <1>2, ConcatProperties
<1> HIDE DEF m, n, x, y
<1>5. Len(x) > 0 /\ Len(y) = Len(x) /\ 1 \in 1 .. m + n /\ 1 <= m
  BY <1>1, <1>3, <1>4
<1>6. x[1] = Head(w) /\ y[1] = SyncFrame /\ x[1].sync
  BY <1>1, <1>3, <1>4, <1>5
<1>7. ASSUME NEW i \in 2 .. Len(x) PROVE y[i] = x[i]
  <2>1. i \in 1 .. m + n /\ (i <= m => i \in 2 .. m)
    BY <1>1, <1>4
  <2> QED
    BY <1>3, <1>4, <2>1
<1>8. Runs(x, y)
  BY <1>5, <1>6, <1>7 DEF Runs
<1> QED
  BY <1>8 DEF x, y, v, u, t

-----------------------------------------------------------------------------
(* How many Syncs they hold *)

LEMMA SyncsFinite ==
    ASSUME NEW r \in Seq(Frames)
    PROVE  /\ Syncs(r) \subseteq 1 .. Len(r) /\ IsFiniteSet(Syncs(r))
           /\ Cardinality(Syncs(r)) \in Nat /\ Len(r) \in Nat
           /\ Cardinality(Syncs(r)) = 0 => Syncs(r) = {}
<1>1. Syncs(r) \subseteq 1 .. Len(r) /\ Len(r) \in Nat
  BY DEF Syncs
<1>2. IsFiniteSet(1 .. Len(r))
  BY <1>1, FS_Interval
<1>3. IsFiniteSet(Syncs(r))
  BY <1>1, <1>2, FS_Subset
<1> QED
  BY <1>1, <1>3, FS_CardinalityType, FS_EmptySet

LEMMA SyncsGained ==
    ASSUME NEW r \in Seq(Frames), NEW new \in Seq(Frames), NEW f \in Frames, Gains(r, new, f)
    PROVE  Cardinality(Syncs(new)) = Cardinality(Syncs(r)) + (IF f.sync THEN 1 ELSE 0)
<1> DEFINE n == Len(r)
<1>1. n \in Nat /\ Len(new) = n + 1 /\ new[n + 1] = f /\ \A i \in 1 .. n : new[i] = r[i]
  BY DEF Gains
<1>2. IsFiniteSet(Syncs(r)) /\ Cardinality(Syncs(r)) \in Nat
  BY SyncsFinite
<1>3. \A i : i \in Syncs(r) <=> i \in 1 .. n /\ r[i].sync
  BY DEF Syncs
<1>4. \A i : i \in Syncs(new) <=> i \in 1 .. n + 1 /\ new[i].sync
  BY <1>1 DEF Syncs
<1> HIDE DEF n
<1>5. CASE f.sync
  <2>1. Syncs(new) = Syncs(r) \cup {n + 1}
    BY <1>1, <1>3, <1>4, <1>5
  <2>2. n + 1 \notin Syncs(r)
    BY <1>1, <1>3
  <2> QED
    BY <1>2, <1>5, <2>1, <2>2, FS_AddElement
<1>6. CASE ~ f.sync
  <2>1. \A i : i \in 1 .. n + 1 <=> i \in 1 .. n \/ i = n + 1
    BY <1>1
  <2>2. ~ new[n + 1].sync /\ \A i \in 1 .. n : new[i].sync <=> r[i].sync
    BY <1>1, <1>6
  <2>3. Syncs(new) = Syncs(r)
    BY <1>3, <1>4, <2>1, <2>2, Zenon
  <2>4. Cardinality(Syncs(r)) + 0 = Cardinality(Syncs(r))
    BY <1>2
  <2> QED
    BY <1>6, <2>3, <2>4
<1> QED
  BY <1>5, <1>6

LEMMA SyncsLost ==
    ASSUME NEW r \in Seq(Frames), NEW new \in Seq(Frames), Loses(r, new)
    PROVE  Cardinality(Syncs(new)) = Cardinality(Syncs(r)) - (IF r[1].sync THEN 1 ELSE 0)
<1> DEFINE n == Len(r)
           left == Syncs(r) \ {1}
           f == [i \in Syncs(new) |-> i + 1]
<1>1. /\ n \in Nat /\ n > 0 /\ Len(new) = n - 1
      /\ \A i \in 1 .. n - 1 : new[i] = r[i + 1]
  BY DEF Loses
<1>2. IsFiniteSet(Syncs(r)) /\ Cardinality(Syncs(r)) \in Nat /\ IsFiniteSet(Syncs(new))
  BY SyncsFinite
<1>3. \A i : i \in Syncs(r) <=> i \in 1 .. n /\ r[i].sync
  BY DEF Syncs
<1>4. \A i : i \in Syncs(new) <=> i \in 1 .. n - 1 /\ new[i].sync
  BY <1>1 DEF Syncs
<1> HIDE DEF n
<1>5. f \in Bijection(Syncs(new), left)
  <2>1. ASSUME NEW i \in Syncs(new) PROVE i \in Int /\ i + 1 \in left
    <3>1. i \in 1 .. n - 1 /\ new[i].sync
      BY <1>4
    <3>2. i \in Int /\ i + 1 \in 1 .. n /\ i + 1 # 1
      BY <1>1, <3>1
    <3>3. r[i + 1].sync
      BY <1>1, <3>1
    <3> QED
      BY <1>3, <3>2, <3>3
  <2>2. f \in [Syncs(new) -> left]
    BY <2>1
  <2>3. \A i, j \in Syncs(new) : f[i] = f[j] => i = j
    BY <2>1
  <2>4. ASSUME NEW k \in left PROVE \E i \in Syncs(new) : f[i] = k
    <3>1. k \in 1 .. n /\ k # 1 /\ r[k].sync
      BY <1>3
    <3>2. k - 1 \in 1 .. n - 1 /\ (k - 1) + 1 = k
      BY <1>1, <3>1
    <3>3. k - 1 \in Syncs(new)
      BY <1>1, <1>4, <3>1, <3>2
    <3> QED
      BY <3>2, <3>3
  <2> HIDE DEF f, left
  <2>5. f \in Injection(Syncs(new), left)
    BY <2>2, <2>3 DEF Injection, IsInjective
  <2>6. f \in Surjection(Syncs(new), left)
    BY <2>2, <2>4 DEF Surjection
  <2> QED
    BY <2>5, <2>6 DEF Bijection
<1>6. Cardinality(Syncs(new)) = Cardinality(left)
  <2>1. ExistsBijection(Syncs(new), left)
    BY <1>5 DEF ExistsBijection
  <2> QED
    BY <1>2, <2>1, FS_Bijection
<1>7. CASE r[1].sync
  <2>1. 1 \in Syncs(r)
    BY <1>1, <1>3, <1>7
  <2>2. Cardinality(left) = Cardinality(Syncs(r)) - 1
    BY <1>2, <2>1, FS_RemoveElement
  <2> QED
    BY <1>6, <1>7, <2>2
<1>8. CASE ~ r[1].sync
  <2>1. left = Syncs(r)
    BY <1>3, <1>8
  <2>2. Cardinality(Syncs(r)) - 0 = Cardinality(Syncs(r))
    BY <1>2
  <2> HIDE DEF left
  <2> QED
    BY <1>6, <1>8, <2>1, <2>2
<1> QED
  BY <1>7, <1>8

LEMMA SyncsRun ==
    ASSUME NEW r \in Seq(Frames), NEW new \in Seq(Frames), Runs(r, new)
    PROVE  Cardinality(Syncs(new)) = Cardinality(Syncs(r))
<1>1. CASE r[1].sync
  <2>1. /\ Len(new) = Len(r) /\ new[1] = SyncFrame /\ \A i \in 2 .. Len(r) : new[i] = r[i]
        /\ SyncFrame.sync /\ Len(r) \in Nat
    BY <1>1, SyncInFrames DEF Runs
  <2>2. \A i \in 1 .. Len(r) : new[i].sync <=> r[i].sync
    BY <1>1, <2>1
  <2>3. Syncs(new) = Syncs(r)
    BY <2>1, <2>2 DEF Syncs
  <2> QED
    BY <2>3
<1>2. CASE ~ r[1].sync
  <2>1. Loses(r, new)
    BY <1>2 DEF Runs
  <2>2. Cardinality(Syncs(new)) = Cardinality(Syncs(r)) - 0 /\ Cardinality(Syncs(r)) \in Nat
    BY <1>2, <2>1, SyncsLost, SyncsFinite
  <2> QED
    BY <2>2
<1> QED
  BY <1>1, <1>2

(* Without a Sync nothing is on its way behind a closed batch. *)
LEMMA NoSyncs ==
    ASSUME NEW r \in Seq(Frames), Ended(r), Cardinality(Syncs(r)) = 0
    PROVE  Len(r) = 0
<1>1. Syncs(r) = {} /\ Len(r) \in Nat
  BY SyncsFinite
<1> QED
  BY <1>1 DEF Syncs, Ended

(* Two of them are not one. *)
LEMMA TwoSyncs ==
    ASSUME NEW r \in Seq(Frames), Cardinality(Syncs(r)) = 1, Len(r) > 1, r[1].sync
    PROVE  ~ r[Len(r)].sync
<1> SUFFICES ASSUME r[Len(r)].sync PROVE FALSE
  OBVIOUS
<1>1. IsFiniteSet(Syncs(r)) /\ Len(r) \in Nat
  BY SyncsFinite
<1>2. 1 \in Syncs(r) /\ Len(r) \in Syncs(r)
  BY <1>1 DEF Syncs
<1>3. Cardinality(Syncs(r) \ {1}) = 0 /\ IsFiniteSet(Syncs(r) \ {1})
  BY <1>1, <1>2, FS_RemoveElement
<1>4. Syncs(r) \ {1} = {}
  BY <1>3, FS_EmptySet
<1> QED
  BY <1>1, <1>2, <1>4

-----------------------------------------------------------------------------
(* What the server and the pool do to them *)

(* Running request f, the server goes from transaction t to t2.            *)
Passes(f, t, t2) ==
    \/ t2 \in {t, Nobody}
    \/ t2 = "Stray" /\ f.by \in Calls
    \/ f.does = "Begin" /\ t = Nobody /\ t2 = f.by

LEMMA IsolatedServed ==
    ASSUME NEW r \in Seq(Frames), NEW new \in Seq(Frames), Runs(r, new) \/ Loses(r, new),
           NEW t, NEW t2, Isolated(r, t), Passes(r[1], t, t2)
    PROVE  Isolated(new, t2)
<1> USE NamesAssumption
<1>0. Len(r) \in Nat /\ Len(r) > 0 /\ 1 \in 1 .. Len(r) /\ Len(new) \in Nat
  BY DEF Runs, Loses
<1>1. ASSUME NEW j \in 1 .. Len(r)
      PROVE  t2 \in Txs /\ (j > 1 \/ t2 = t) => r[j].by \in {t2, Nobody}
  <2>1. t \in Txs => r[j].by \in {t, Nobody}
    BY DEF Isolated
  <2>2. j > 1 /\ r[1].does = "Begin" => r[j].by \in {r[1].by, Nobody}
    BY <1>0 DEF Isolated
  <2> QED
    BY <2>1, <2>2 DEF Passes
<1>2. CASE Loses(r, new)
  <2> SUFFICES ASSUME NEW j \in 1 .. Len(new)
               PROVE  /\ t2 \in Txs => new[j].by \in {t2, Nobody}
                      /\ \A i \in 1 .. j - 1 :
                             new[i].does = "Begin" => new[j].by \in {new[i].by, Nobody}
    BY DEF Isolated
  <2>1. j + 1 \in 1 .. Len(r) /\ j + 1 > 1 /\ new[j] = r[j + 1]
    BY <1>0, <1>2 DEF Loses
  <2>2. \A i \in 1 .. j - 1 : i + 1 \in 1 .. (j + 1) - 1 /\ new[i] = r[i + 1]
    BY <1>0, <1>2 DEF Loses
  <2>3. \A i \in 1 .. (j + 1) - 1 : r[i].does = "Begin" => r[j + 1].by \in {r[i].by, Nobody}
    BY <2>1 DEF Isolated
  <2>4. t2 \in Txs => r[j + 1].by \in {t2, Nobody}
    BY <1>1, <2>1
  <2> QED
    BY <2>1, <2>2, <2>3, <2>4
<1>3. CASE r[1].sync /\ Runs(r, new)
  <2> SUFFICES ASSUME NEW j \in 1 .. Len(new)
               PROVE  /\ t2 \in Txs => new[j].by \in {t2, Nobody}
                      /\ \A i \in 1 .. j - 1 :
                             new[i].does = "Begin" => new[j].by \in {new[i].by, Nobody}
    BY DEF Isolated
  <2>1. /\ j \in 1 .. Len(r) /\ new[1].by = Nobody /\ new[1].does # "Begin"
        /\ \A i \in 2 .. Len(r) : new[i] = r[i]
    BY <1>3, SyncInFrames DEF Runs
  <2>2. CASE j = 1
    BY <2>1, <2>2
  <2>3. CASE j # 1
    <3>1. j > 1 /\ j \in 2 .. Len(r) /\ new[j] = r[j]
      BY <2>1, <2>3
    <3>2. t2 \in Txs => new[j].by \in {t2, Nobody}
      BY <1>1, <2>1, <3>1
    <3>3. ASSUME NEW i \in 1 .. j - 1, new[i].does = "Begin"
          PROVE  new[j].by \in {new[i].by, Nobody}
      <4>1. i # 1
        BY <2>1, <3>3
      <4>2. new[i] = r[i]
        BY <1>0, <2>1, <4>1
      <4> QED
        BY <2>1, <3>1, <3>3, <4>2 DEF Isolated
    <3> QED
      BY <3>2, <3>3
  <2> QED
    BY <2>2, <2>3
<1> QED
  BY <1>2, <1>3 DEF Runs

(* A batch that is closed stays so, and is not used up before its Sync. *)
LEMMA EndedServed ==
    ASSUME NEW r \in Seq(Frames), NEW new \in Seq(Frames), Ended(r)
    PROVE  /\ Loses(r, new) => Ended(new)
           /\ Runs(r, new) => Ended(new) /\ Len(new) > 0
<1>0. Len(r) \in Nat /\ Len(new) \in Nat
  OBVIOUS
<1>1. ASSUME Loses(r, new) PROVE Ended(new) /\ (Len(new) > 0 \/ r[1].sync)
  <2>1. Len(r) > 0 /\ Len(new) = Len(r) - 1 /\ r[Len(r)].sync
    BY <1>0, <1>1 DEF Loses, Ended
  <2>2. CASE Len(new) > 0
    <3>1. new[Len(new)] = r[Len(new) + 1] /\ Len(new) + 1 = Len(r)
      BY <1>0, <1>1, <2>1, <2>2 DEF Loses
    <3> QED
      BY <2>1, <2>2, <3>1 DEF Ended
  <2>3. CASE ~ (Len(new) > 0)
    <3>1. Len(r) = 1
      BY <1>0, <2>1, <2>3
    <3> QED
      BY <2>1, <2>3, <3>1 DEF Ended
  <2> QED
    BY <2>2, <2>3
<1>2. ASSUME r[1].sync, Runs(r, new) PROVE Ended(new) /\ Len(new) > 0
  <2>1. /\ Len(r) > 0 /\ Len(new) = Len(r) /\ new[1].sync /\ r[Len(r)].sync
        /\ \A i \in 2 .. Len(r) : new[i] = r[i]
    BY <1>0, <1>2, SyncInFrames DEF Runs, Ended
  <2>2. Len(r) = 1 \/ Len(r) \in 2 .. Len(r)
    BY <1>0, <2>1
  <2> QED
    BY <2>1, <2>2 DEF Ended
<1> QED
  BY <1>1, <1>2 DEF Runs

LEMMA FreeServed ==
    ASSUME NEW r \in Seq(Frames), NEW new \in Seq(Frames), NEW t, NEW t2, NEW a, NEW sy,
           sy = "Synced" => Ended(r), Free(a, r, t, sy), Passes(r[1], t, t2), Runs(r, new)
    PROVE  Free(a, new, t2, sy)
<1> SUFFICES ASSUME a \in {"Shared", "Draining"}
             PROVE  /\ t2 \notin Txs /\ NoBegin(new)
                    /\ sy = "Synced" /\ Len(new) = 0 => t2 = Nobody
  BY DEF Free
<1>0. Len(r) \in Nat /\ Len(r) > 0 /\ 1 \in 1 .. Len(r) /\ Len(new) \in Nat
  BY DEF Runs, Loses
<1>1. t \notin Txs /\ \A j \in 1 .. Len(r) : r[j].does # "Begin"
  BY DEF Free, NoBegin
<1>2. t2 \notin Txs
  BY <1>0, <1>1, NamesAssumption DEF Passes
<1>3. NoBegin(new)
  <2>1. CASE r[1].sync
    <3>1. /\ Len(new) = Len(r) /\ new[1].does # "Begin" /\ \A i \in 2 .. Len(r) : new[i] = r[i]
      BY <2>1, SyncInFrames DEF Runs
    <3>2. \A i \in 1 .. Len(r) : i = 1 \/ i \in 2 .. Len(r)
      BY <1>0
    <3> QED
      BY <1>1, <3>1, <3>2 DEF NoBegin
  <2>2. CASE ~ r[1].sync
    <3>1. /\ Len(new) = Len(r) - 1 /\ \A i \in 1 .. Len(new) : new[i] = r[i + 1]
      BY <2>2 DEF Runs, Loses
    <3>2. \A i \in 1 .. Len(new) : i + 1 \in 1 .. Len(r)
      BY <1>0, <3>1
    <3> QED
      BY <1>1, <3>1, <3>2 DEF NoBegin
  <2> QED
    BY <2>1, <2>2
<1>4. sy = "Synced" => Len(new) > 0
  BY EndedServed
<1> QED
  BY <1>0, <1>2, <1>3, <1>4

LEMMA TakenServed ==
    ASSUME NEW r \in Seq(Frames), NEW new \in Seq(Frames), NEW t, NEW t2, NEW a, NEW sy,
           NEW h \in Txs, a \in {"Reserved", "Finalizing"} => sy = "Synced",
           sy = "Synced" => Ended(r), Taken(a, r, t, sy, h), Passes(r[1], t, t2), Runs(r, new)
    PROVE  Taken(a, new, t2, sy, h)
<1> USE NamesAssumption
<1>0. Len(r) \in Nat /\ Len(r) > 0 /\ 1 \in 1 .. Len(r) /\ Len(new) \in Nat
  BY DEF Runs, Loses
<1>s. /\ r[1].sync => /\ Len(new) = Len(r) /\ new[1] = SyncFrame
                      /\ \A i \in 2 .. Len(r) : new[i] = r[i]
      /\ ~ r[1].sync => Len(new) = Len(r) - 1 /\ \A i \in 1 .. Len(new) : new[i] = r[i + 1]
  BY DEF Runs, Loses
<1>e. \A j \in 1 .. Len(new) : new[j] = SyncFrame \/ \E i \in 1 .. Len(r) : new[j] = r[i]
  <2>1. CASE r[1].sync
    <3>1. \A i \in 1 .. Len(r) : i = 1 \/ i \in 2 .. Len(r)
      BY <1>0
    <3> QED
      BY <1>s, <2>1, <3>1
  <2>2. CASE ~ r[1].sync
    <3>1. \A i \in 1 .. Len(new) : i + 1 \in 1 .. Len(r)
      BY <1>0, <1>s, <2>2
    <3> QED
      BY <1>s, <2>2, <3>1
  <2> QED
    BY <2>1, <2>2
<1>f. SyncFrame.by = Nobody /\ SyncFrame.does # "Begin"
  BY SyncInFrames
<1>1. ASSUME a = "Reserved" PROVE Waiting(new, t2, h) \/ Begun(new, t2, h)
  <2>1. CASE Begun(r, t, h)
    <3>1. t2 \in {h, Nobody}
      BY <1>0, <2>1 DEF Begun, Passes
    <3>2. \A j \in 1 .. Len(new) : new[j].by = Nobody
      BY <1>e, <1>f, <2>1 DEF Begun
    <3> QED
      BY <3>1, <3>2 DEF Begun
  <2>2. CASE Waiting(r, t, h) /\ Len(r) = 1
    <3>1. r[1] = Frame(h, "Begin", TRUE) /\ t = Nobody
      BY <2>2 DEF Waiting
    <3>2. r[1].sync /\ r[1].by = h /\ r[1].does = "Begin"
      BY <3>1 DEF Frame
    <3>3. t2 \in {h, Nobody}
      BY <3>1, <3>2 DEF Passes
    <3>4. Len(new) = 1 /\ new[1].by = Nobody
      BY <1>f, <1>s, <2>2, <3>2
    <3>5. \A j \in 1 .. Len(new) : new[j].by = Nobody
      BY <3>4
    <3> QED
      BY <3>3, <3>5 DEF Begun
  <2>3. CASE Waiting(r, t, h) /\ Len(r) # 1
    <3>1. /\ r[Len(r)] = Frame(h, "Begin", TRUE) /\ t \notin Txs /\ r[Len(r) - 1].sync
          /\ \A j \in 1 .. Len(r) - 1 : r[j].does # "Begin"
      BY <2>3 DEF Waiting
    <3>n. Len(r) \in Nat /\ Len(r) > 0 /\ Len(r) # 1
      BY <1>0, <2>3
    <3> DEFINE n == Len(r)
    <3>0. n > 1 /\ 1 \in 1 .. n - 1
      <4>1. n \in Nat /\ n > 0 /\ n # 1
        BY <3>n
      <4> HIDE DEF n
      <4> QED
        BY ONLY <4>1
    <3>2. r[1].does # "Begin" /\ Len(r) > 1
      BY <3>0, <3>1
    <3>3. t2 \notin Txs
      BY <3>1, <3>2 DEF Passes
    <3>4. CASE r[1].sync
      <4>1. /\ Len(new) = Len(r) /\ new[Len(r)] = r[Len(r)]
            /\ Len(r) - 1 = 1 \/ new[Len(r) - 1] = r[Len(r) - 1]
            /\ new[1].sync /\ new[1].does # "Begin"
        BY <1>0, <1>s, <3>2, <3>4, SyncInFrames
      <4>2. ASSUME NEW j \in 1 .. Len(r) - 1 PROVE new[j].does # "Begin"
        <5>1. j = 1 \/ new[j] = r[j]
          BY <1>0, <1>s, <3>4
        <5> QED
          BY <3>1, <4>1, <5>1
      <4>3. new[Len(r) - 1].sync
        BY <3>1, <4>1
      <4> QED
        BY <3>1, <3>2, <3>3, <4>1, <4>2, <4>3 DEF Waiting
    <3>5. CASE ~ r[1].sync
      <4>0. Len(r) - 1 # 1
        BY <3>1, <3>5
      <4>1. n > 2
        <5>1. n \in Nat /\ n > 1 /\ n - 1 # 1
          BY <3>0, <3>n, <4>0
        <5> HIDE DEF n
        <5> QED
          BY ONLY <5>1
      <4>2. /\ Len(new) = Len(r) - 1 /\ new[Len(new)] = r[Len(r)]
            /\ new[Len(new) - 1] = r[Len(r) - 1]
            /\ \A j \in 1 .. Len(new) - 1 : new[j] = r[j + 1] /\ j + 1 \in 1 .. Len(r) - 1
        BY <1>0, <1>s, <3>5, <4>1
      <4>3. Len(new) > 1 /\ Len(new) # 1 /\ Len(new) > 0
        BY <1>0, <4>1, <4>2
      <4>4. \A j \in 1 .. Len(new) - 1 : new[j].does # "Begin"
        BY <3>1, <4>2
      <4>5. new[Len(new)] = Frame(h, "Begin", TRUE) /\ new[Len(new) - 1].sync
        BY <3>1, <4>2
      <4> QED
        BY <3>3, <4>3, <4>4, <4>5 DEF Waiting
    <3> QED
      BY <3>4, <3>5
  <2> QED
    BY <1>1, <2>1, <2>2, <2>3 DEF Taken
<1>2. ASSUME a \in {"Held", "Finalizing"} PROVE Only(new, h) /\ t2 \in {h, Nobody}
  <2>1. t \in {h, Nobody} /\ \A j \in 1 .. Len(r) : r[j].by \in {h, Nobody} /\ r[j].does # "Begin"
    BY <1>2 DEF Taken, Only
  <2>2. t2 \in {h, Nobody}
    BY <1>0, <2>1 DEF Passes
  <2>3. Only(new, h)
    BY <1>e, <1>f, <2>1 DEF Only
  <2> QED
    BY <2>2, <2>3
<1>3. ~ (sy = "Synced" /\ Len(new) = 0)
  BY <1>0, EndedServed
<1> QED
  BY <1>1, <1>2, <1>3 DEF Taken

LEMMA FreeAnswered ==
    ASSUME NEW r \in Seq(Frames), NEW new \in Seq(Frames), NEW t, NEW a, NEW sy,
           Free(a, r, t, sy), Loses(r, new), t = Nobody
    PROVE  Free(a, new, t, sy)
<1>1. \A i \in 1 .. Len(new) : i + 1 \in 1 .. Len(r) /\ new[i] = r[i + 1]
  BY DEF Loses
<1> QED
  BY <1>1 DEF Free, NoBegin

(* The status of a Sync is Idle, or that of the transaction its holder has *)
(* or is entering by this very Sync. *)
LEMMA TakenAnswered ==
    ASSUME NEW r \in Seq(Frames), NEW new \in Seq(Frames), NEW t, NEW a, NEW sy, NEW h \in Txs,
           Taken(a, r, t, sy, h), Loses(r, new), r[1] = SyncFrame,
           \/ t = Nobody /\ a # "Held"
           \/ t # Nobody /\ a = "Held"
           \/ t # Nobody /\ a = "Reserved" /\ Cardinality(Syncs(r)) = 1
    PROVE  /\ Taken(a, new, t, sy, h)
           /\ t # Nobody /\ a = "Reserved" => ~ Waiting(r, t, h)
<1>0. /\ Len(r) \in Nat /\ Len(r) > 0 /\ Len(new) = Len(r) - 1 /\ Len(new) \in Nat
      /\ \A i \in 1 .. Len(new) : i + 1 \in 1 .. Len(r) /\ new[i] = r[i + 1]
  BY DEF Loses
<1>1. ASSUME a = "Reserved", Waiting(r, t, h) PROVE t = Nobody /\ Waiting(new, t, h)
  <2>1. /\ r[Len(r)].does = "Begin" /\ r[Len(r)].sync /\ r[1].does # "Begin" /\ r[1].sync
    BY <1>1, SyncInFrames DEF Waiting, Frame
  <2>2. Len(r) # 1
    BY <2>1
  <2>3. Len(r) > 1 /\ Len(new) > 0 /\ (Len(new) # 1 => Len(new) - 1 \in 1 .. Len(new))
    BY <1>0, <2>2
  <2>4. Cardinality(Syncs(r)) # 1
    BY <2>1, <2>3, TwoSyncs
  <2>5. t = Nobody
    BY <1>1, <2>4
  <2>6. new[Len(new)] = r[Len(r)] /\ (Len(new) # 1 => new[Len(new) - 1] = r[Len(r) - 1])
    <3>1. Len(new) \in 1 .. Len(new) /\ Len(new) + 1 = Len(r) /\ (Len(new) - 1) + 1 = Len(r) - 1
      BY <1>0, <2>3
    <3> QED
      BY <1>0, <2>3, <3>1
  <2>7. ASSUME NEW j \in 1 .. Len(new) - 1 PROVE new[j].does # "Begin"
    <3>1. j \in 1 .. Len(new) /\ j + 1 \in 1 .. Len(r) - 1
      BY <1>0
    <3> QED
      BY <1>0, <1>1, <3>1 DEF Waiting
  <2> QED
    BY <1>1, <2>2, <2>3, <2>5, <2>6, <2>7 DEF Waiting
<1>2. ASSUME a = "Reserved", Begun(r, t, h) PROVE Begun(new, t, h)
  BY <1>0, <1>2 DEF Begun
<1>3. ASSUME a \in {"Held", "Finalizing"} PROVE Only(new, h) /\ t \in {h, Nobody}
  BY <1>0, <1>3 DEF Taken, Only
<1>4. a = "Held" => t = h
  BY <1>3
<1> QED
  BY <1>1, <1>2, <1>3, <1>4 DEF Taken

LEMMA OneSync ==
    ASSUME NEW r \in Seq(Frames), NEW new \in Seq(Frames), Loses(r, new), r[1].sync, Ended(r),
           Cardinality(Syncs(r)) = 1
    PROVE  Len(new) = 0
<1>0. Len(r) \in Nat /\ Len(r) > 0 /\ Len(new) = Len(r) - 1 /\ r[Len(r)].sync
  BY DEF Loses, Ended
<1>1. ~ (Len(r) > 1)
  BY <1>0, TwoSyncs
<1> QED
  BY <1>0, <1>1

LEMMA FreeGained ==
    ASSUME NEW r \in Seq(Frames), NEW new \in Seq(Frames), NEW f, NEW t, NEW a, NEW sy, NEW sy2,
           Free(a, r, t, sy), Gains(r, new, f), f.does # "Begin"
    PROVE  Free(a, new, t, sy2)
<1>1. Len(r) \in Nat /\ Len(new) = Len(r) + 1 /\ new[Len(r) + 1] = f
      /\ \A i \in 1 .. Len(r) : new[i] = r[i]
  BY DEF Gains
<1>2. Len(new) # 0 /\ \A i \in 1 .. Len(new) : i \in 1 .. Len(r) \/ i = Len(r) + 1
  BY <1>1
<1> QED
  BY <1>1, <1>2 DEF Free, NoBegin

LEMMA TakenGained ==
    ASSUME NEW r \in Seq(Frames), NEW new \in Seq(Frames), NEW f, NEW t, NEW sy, NEW sy2, NEW h,
           NEW a \in {"Held", "Finalizing"},
           Taken("Held", r, t, sy, h), Gains(r, new, f), f.does # "Begin", f.by \in {h, Nobody}
    PROVE  Taken(a, new, t, sy2, h)
<1>1. Len(r) \in Nat /\ Len(new) = Len(r) + 1 /\ new[Len(r) + 1] = f
      /\ \A i \in 1 .. Len(r) : new[i] = r[i]
  BY DEF Gains
<1>2. Len(new) # 0 /\ \A i \in 1 .. Len(new) : i \in 1 .. Len(r) \/ i = Len(r) + 1
  BY <1>1
<1> QED
  BY <1>1, <1>2 DEF Taken, Only

LEMMA BeginGained ==
    ASSUME NEW r \in Seq(Frames), NEW new \in Seq(Frames), NEW t, NEW h,
           Free("Shared", r, t, "Synced"), Ended(r), Gains(r, new, Frame(h, "Begin", TRUE))
    PROVE  Taken("Reserved", new, t, "Synced", h)
<1>1. Len(r) \in Nat /\ Len(new) = Len(r) + 1 /\ new[Len(r) + 1] = Frame(h, "Begin", TRUE)
      /\ \A i \in 1 .. Len(r) : new[i] = r[i]
  BY DEF Gains
<1>2. Len(new) > 0 /\ Len(new) - 1 = Len(r) /\ (Len(new) = 1 <=> Len(r) = 0)
  BY <1>1
<1>3. t \notin Txs /\ (Len(r) = 0 => t = Nobody) /\ \A j \in 1 .. Len(r) : r[j].does # "Begin"
  BY DEF Free, NoBegin
<1>4. Len(r) # 0 => r[Len(r)].sync /\ new[Len(r)] = r[Len(r)]
  BY <1>1 DEF Ended
<1>5. Waiting(new, t, h)
  BY <1>1, <1>2, <1>3, <1>4 DEF Waiting
<1> QED
  BY <1>5 DEF Taken

LEMMA EndedGained ==
    ASSUME NEW r \in Seq(Frames), NEW new \in Seq(Frames), NEW f, Gains(r, new, f), f.sync
    PROVE  Ended(new)
BY DEF Gains, Ended

LEMMA FreeIsolated ==
    ASSUME NEW r \in Seq(Frames), NEW t, NEW sy, NEW a \in {"Shared", "Draining"},
           Free(a, r, t, sy)
    PROVE  Isolated(r, t)
<1>1. t \notin Txs /\ \A j \in 1 .. Len(r) : r[j].does # "Begin"
  BY DEF Free, NoBegin
<1>2. \A j \in 1 .. Len(r) : \A i \in 1 .. j - 1 : i \in 1 .. Len(r)
  OBVIOUS
<1> QED
  BY <1>1, <1>2 DEF Isolated

LEMMA TakenIsolated ==
    ASSUME NEW r \in Seq(Frames), NEW t, NEW sy, NEW a \in Owned, NEW h \in Txs,
           Taken(a, r, t, sy, h)
    PROVE  Isolated(r, t)
<1>0. Len(r) \in Nat /\ \A j \in 1 .. Len(r) : r[j] \in Frames /\ \A i \in 1 .. j - 1 : i \in 1 .. Len(r) - 1
  OBVIOUS
<1>1. CASE a = "Reserved" /\ Waiting(r, t, h)
  BY <1>0, <1>1 DEF Waiting, Isolated
<1>2. CASE a = "Reserved" /\ Begun(r, t, h)
  BY <1>2 DEF Begun, Isolated
<1>3. CASE a \in {"Held", "Finalizing"}
  <2>1. t \in {h, Nobody} /\ \A j \in 1 .. Len(r) : r[j].by \in {h, Nobody} /\ r[j].does # "Begin"
    BY <1>3 DEF Taken, Only
  <2>2. \A j \in 1 .. Len(r) : \A i \in 1 .. j - 1 : i \in 1 .. Len(r)
    BY <1>0
  <2> QED
    BY <2>1, <2>2, NamesAssumption DEF Isolated
<1> QED
  BY <1>1, <1>2, <1>3 DEF Owned, Taken

-----------------------------------------------------------------------------
(* Batch numbers wrap *)

LEMMA Remainder ==
    ASSUME NEW n \in Nat, n > 0, NEW q \in Int, NEW r \in 0 .. n - 1
    PROVE  (q * n + r) % n = r
<1> DEFINE x == q * n + r
           d == x \div n
           m == x % n
<1>0. q * n \in Int /\ x \in Int
  OBVIOUS
<1>1. d \in Int /\ m \in 0 .. n - 1 /\ x = n * d + m
  BY <1>0
<1>2. x = n * q + r
  OBVIOUS
<1> HIDE DEF d, m, x
<1>3. n * (q - d) = m - r
  BY <1>1, <1>2
<1>4. CASE q - d >= 1
  <2>1. n * (q - d) >= n
    BY <1>1, <1>4
  <2> QED
    BY <1>1, <1>3, <2>1
<1>5. CASE q - d <= -1
  <2>1. n * (q - d) <= -n
    BY <1>1, <1>5
  <2> QED
    BY <1>1, <1>3, <2>1
<1>6. CASE q - d = 0
  <2>1. n * (q - d) = 0
    BY <1>6
  <2> QED
    BY <1>1, <1>3, <2>1 DEF m, x
<1> QED
  BY <1>1, <1>4, <1>5, <1>6

LEMMA BatchAhead ==
    ASSUME NEW x \in Nat
    PROVE  NextBatch(x % Batches) = (x + 1) % Batches
<1> DEFINE d == x \div Batches
           m == x % Batches
<1>0. Batches \in Nat /\ Batches > 2
  BY PoolAssumption
<1>1. d \in Int /\ m \in 0 .. Batches - 1 /\ x = Batches * d + m
  BY <1>0
<1> HIDE DEF d, m
<1>2. CASE m + 1 = Batches
  <2>1. x + 1 = (d + 1) * Batches + 0 /\ d + 1 \in Int /\ 0 \in 0 .. Batches - 1
    BY <1>0, <1>1, <1>2
  <2>2. ((d + 1) * Batches + 0) % Batches = 0
    BY <1>0, <2>1, Remainder
  <2>3. (m + 1) % Batches = 0
    BY <1>0, <1>2
  <2> QED
    BY <2>1, <2>2, <2>3 DEF NextBatch, m
<1>3. CASE m + 1 # Batches
  <2>1. x + 1 = d * Batches + (m + 1) /\ m + 1 \in 0 .. Batches - 1
    BY <1>0, <1>1, <1>3
  <2> DEFINE k == m + 1
  <2>2. k \in 0 .. Batches - 1
    BY <2>1
  <2> HIDE DEF k
  <2>3. (d * Batches + k) % Batches = k
    BY <1>0, <1>1, <2>2, Remainder
  <2>4. (m + 1) % Batches = m + 1
    BY <1>0, <2>1
  <2> QED
    BY <2>1, <2>3, <2>4 DEF NextBatch, m, k
<1> QED
  BY <1>1, <1>2, <1>3

LEMMA BatchBehind ==
    ASSUME NEW sb \in 0 .. Batches - 1, NEW p \in Nat, p > 0
    PROVE  (NextBatch(sb) + (p - 1)) % Batches = (sb + p) % Batches
<1>0. Batches \in Nat /\ Batches > 2
  BY PoolAssumption
<1>1. NextBatch(sb) = IF sb + 1 = Batches THEN 0 ELSE sb + 1
  BY <1>0 DEF NextBatch
<1>2. CASE sb + 1 # Batches
  <2>1. NextBatch(sb) + (p - 1) = sb + p
    BY <1>0, <1>1, <1>2
  <2> QED
    BY <2>1
<1>3. CASE sb + 1 = Batches
  <2> DEFINE x == p - 1
             d == x \div Batches
             m == x % Batches
  <2>1. x \in Nat /\ sb + p = Batches + x
    BY <1>0, <1>3
  <2> HIDE DEF x
  <2>2. d \in Int /\ m \in 0 .. Batches - 1 /\ x = Batches * d + m
    BY <1>0, <2>1
  <2> HIDE DEF d, m
  <2>3. Batches + x = (d + 1) * Batches + m /\ d + 1 \in Int
    BY <1>0, <2>2
  <2>4. ((d + 1) * Batches + m) % Batches = m
    BY <1>0, <2>2, <2>3, Remainder
  <2>5. NextBatch(sb) + (p - 1) = x
    BY <1>1, <1>3, <2>1 DEF x
  <2> QED
    BY <2>1, <2>3, <2>4, <2>5 DEF m
<1> QED
  BY <1>2, <1>3

-----------------------------------------------------------------------------
(* Who holds a connection *)

(* What WireInv and the leases say of slot r is as it was.                 *)
Apart(r) ==
    /\ phase'[r] = phase[r] /\ access'[r] = access[r] /\ sync'[r] = sync[r]
    /\ pending'[r] = pending[r] /\ batch'[r] = batch[r] /\ gen'[r] = gen[r] /\ seq'[r] = seq[r]

Quits(s) ==
    /\ phase'[s] \in {"Closing", "Vacant"} /\ access'[s] = "None"
    /\ gen'[s] = gen[s] /\ seq'[s] = seq[s]

(* The connection is reused, opened, refused to a BEGIN, or its access     *)
(* passes on.                                                              *)
Passing ==
    {<<"Reserved", "Held">>, <<"Finalizing", "Shared">>, <<"Shared", "Draining">>}
Moves(r) ==
    \/ /\ phase'[r] = phase[r] /\ gen'[r] = gen[r] /\ seq'[r] = seq[r]
       /\ access'[r] = access[r] \/ <<access[r], access'[r]>> \in Passing
    \/ Quits(r)
    \/ /\ phase'[r] = "Handshaking" /\ gen'[r] = gen[r] + 1 /\ access'[r] = "None"
    \/ /\ phase[r] = "Handshaking" /\ gen'[r] = gen[r] /\ access'[r] = "Shared"
    \/ /\ phase'[r] = phase[r] /\ gen'[r] = gen[r] /\ seq'[r] = seq[r] + 1
       /\ access[r] = "Shared" /\ access'[r] = "Shared"

LEMMA LeaseOf ==
    ASSUME TxTypes, NEW h \in Txs
    PROVE  /\ target[h] # NoTarget => /\ target[h].slot \in Slot /\ target[h].gen \in Nat
                                      /\ target[h].seq \in Nat
           /\ \A s \in Slot : Id(s) # NoTarget
           /\ \A s \in Slot : target[h] = Id(s) =>
                 target[h].slot = s /\ target[h].gen = gen[s] /\ target[h].seq = seq[s]
<1>1. target[h] \in Targets
  BY DEF TxTypes
<1>2. target[h] # NoTarget => target[h] \in [slot : Slot, gen : Nat, seq : Nat]
  BY <1>1 DEF Targets
<1>3. \A s \in Slot : Id(s) # NoTarget
  <2>1. \A s \in Slot : Id(s).slot = s /\ s \in 0 .. Conns - 1
    BY DEF Id, Slot
  <2>2. NoTarget.slot = -1
    BY DEF NoTarget
  <2> QED
    BY <2>1, <2>2, PoolAssumption
<1>4. \A s \in Slot : Id(s).slot = s /\ Id(s).gen = gen[s] /\ Id(s).seq = seq[s]
  BY DEF Id
<1> QED
  BY <1>2, <1>3, <1>4

(* No transaction has a lease of a sequence not reached yet, or of a       *)
(* connection still being opened.                                          *)
LEMMA NoLeaseAhead ==
    ASSUME PoolTypes, LeaseInv, NEW h \in Txs, NEW s \in Slot, target[h] # NoTarget,
           target[h].slot = s, target[h].gen = gen[s]
    PROVE  phase[s] # "Handshaking" /\ target[h].seq <= seq[s] /\ target[h].seq # seq[s] + 1
<1>1. Past(h) /\ TxTypes /\ seq[s] \in Nat
  BY DEF LeaseInv, PoolTypes, SlotTypes
<1>2. target[h].seq \in Nat
  BY <1>1, LeaseOf
<1> QED
  BY <1>1, <1>2 DEF Past

(* A step that takes no lease and gives none up. *)
LEMMA LeasesRest ==
    ASSUME PoolInv, PoolInv', LeaseInv, stage' = stage, target' = target,
           \A r \in Slot : Moves(r)
    PROVE  LeaseInv'
<1>0. PoolTypes /\ TxTypes /\ SlotTypes /\ SlotTypes' /\ \A r \in Slot : SlotInv(r) /\ SlotInv(r)'
  BY DEF PoolInv, PoolTypes, Core
<1>t. \A r \in Slot : gen[r] \in Nat /\ seq[r] \in Nat /\ gen'[r] \in Nat /\ seq'[r] \in Nat
  BY <1>0, PoolAssumption DEF SlotTypes
<1>1. ASSUME NEW h \in Txs PROVE Past(h)' /\ (stage'[h] = "Idle" <=> target'[h] = NoTarget)
  <2>1. stage'[h] = "Idle" <=> target'[h] = NoTarget
    BY DEF LeaseInv
  <2> DEFINE r == target[h].slot
  <2>2. ASSUME target[h] # NoTarget
        PROVE  /\ target[h].gen <= gen'[r]
               /\ target[h].gen = gen'[r] => phase'[r] # "Handshaking" /\ target[h].seq <= seq'[r]
    <3>1. r \in Slot /\ target[h].gen \in Nat /\ target[h].seq \in Nat
      BY <1>0, <2>2, LeaseOf
    <3>2. /\ target[h].gen <= gen[r]
          /\ target[h].gen = gen[r] => phase[r] # "Handshaking" /\ target[h].seq <= seq[r]
      BY <2>2 DEF LeaseInv, Past
    <3>3. Moves(r) /\ gen[r] \in Nat /\ seq[r] \in Nat
      BY <1>t, <3>1
    <3> HIDE DEF r
    <3> QED
      BY <3>1, <3>2, <3>3 DEF Moves, Quits
  <2>3. Past(h)'
    BY <2>2 DEF Past
  <2> QED
    BY <2>1, <2>3
<1>2. \A g, h \in Txs : g # h /\ target'[g] = target'[h] => target'[h] = NoTarget
  BY DEF LeaseInv
<1>3. ASSUME NEW r \in Slot PROVE Held(r)'
  <2>1. Held(r) /\ Moves(r) /\ gen[r] \in Nat /\ seq[r] \in Nat
        /\ (phase[r] = "Ready" <=> access[r] # "None") /\ (phase'[r] = "Ready" <=> access'[r] # "None")
    BY <1>0, <1>t DEF LeaseInv, SlotInv
  <2>2. gen'[r] = gen[r] /\ seq'[r] = seq[r] => Id(r)' = Id(r)
    BY DEF Id
  <2>3. ASSUME NEW h \in Txs, target'[h] = Id(r)', phase'[r] = "Ready"
        PROVE  target[h] = Id(r) /\ phase[r] = "Ready"
               /\ (access'[r] = access[r] \/ <<access[r], access'[r]>> \in Passing)
    <3>1. target[h].slot = r /\ target[h].gen = gen'[r] /\ target[h].seq = seq'[r]
      BY <2>3 DEF Id
    <3>2. target[h] # NoTarget
      <4>1. Id(r)'.slot = r /\ r \in 0 .. Conns - 1 /\ NoTarget.slot = -1
        BY DEF Id, Slot, NoTarget
      <4> QED
        BY <2>3, <4>1, PoolAssumption
    <3>3. gen'[r] = gen[r] => phase[r] # "Handshaking" /\ seq'[r] # seq[r] + 1
      BY <1>0, <3>1, <3>2, NoLeaseAhead
    <3>4. phase'[r] = phase[r] /\ gen'[r] = gen[r] /\ seq'[r] = seq[r]
          /\ (access'[r] = access[r] \/ <<access[r], access'[r]>> \in Passing)
      BY <2>1, <2>3, <3>3 DEF Moves, Quits
    <3> QED
      BY <2>2, <2>3, <3>4
  <2>4. ASSUME access'[r] \in Owned PROVE \E h \in Txs : target'[h] = Id(r)'
    <3>1. access[r] \in Owned /\ gen'[r] = gen[r] /\ seq'[r] = seq[r]
      BY <2>1, <2>4 DEF Moves, Quits, Owned, Passing
    <3> QED
      BY <2>1, <2>2, <3>1 DEF Held
  <2>5. ASSUME phase'[r] = "Ready", NEW h \in Txs, target'[h] = Id(r)'
        PROVE  /\ stage[h] = "Begin" => access'[r] \in {"Reserved", "Held"}
               /\ stage[h] = "Open" => access'[r] = "Held"
               /\ stage[h] = "Finish" => access'[r] \in {"Finalizing", "Shared", "Draining"}
    BY <2>1, <2>3, <2>5 DEF Held, Passing
  <2> QED
    BY <2>4, <2>5 DEF Held
<1> QED
  BY <1>1, <1>2, <1>3 DEF LeaseInv

LEMMA ApartMoves ==
    ASSUME NEW r, Apart(r)
    PROVE  Moves(r)
BY DEF Apart, Moves

LEMMA ClosesApart ==
    ASSUME SlotTypes, NEW s \in Slot, CloseSlot(s)
    PROVE  /\ \A r \in Slot \ {s} : Apart(r)
           /\ IF phase[s] \in {"Handshaking", "Ready"}
              THEN Quits(s) /\ phase'[s] = "Closing" ELSE Apart(s)
           /\ phase[s] # "Vacant" => phase'[s] = "Closing"
<1>1. CASE phase[s] \in {"Handshaking", "Ready"}
  <2>1. /\ phase' = [phase EXCEPT ![s] = "Closing"] /\ access' = [access EXCEPT ![s] = "None"]
        /\ sync' = [sync EXCEPT ![s] = "Synced"] /\ pending' = [pending EXCEPT ![s] = 0]
        /\ UNCHANGED <<gen, seq, batch>>
    BY <1>1 DEF CloseSlot
  <2>2. /\ DOMAIN phase = Slot /\ DOMAIN access = Slot /\ DOMAIN sync = Slot
        /\ DOMAIN pending = Slot
    BY DEF SlotTypes
  <2>3. \A r \in Slot \ {s} : Apart(r)
    BY <2>1, <2>2 DEF Apart
  <2>4. Quits(s) /\ phase'[s] = "Closing"
    BY <2>1, <2>2 DEF Quits
  <2> QED
    BY <1>1, <2>3, <2>4
<1>2. CASE phase[s] \notin {"Handshaking", "Ready"}
  <2>1. UNCHANGED slotVars
    BY <1>2 DEF CloseSlot
  <2>2. \A r \in Slot : Apart(r)
    BY <2>1 DEF Apart, slotVars
  <2>3. phase[s] \in {"Vacant", "Handshaking", "Ready", "Closing"} /\ phase' = phase
    BY <2>1 DEF SlotTypes, slotVars
  <2> QED
    BY <1>2, <2>2, <2>3
<1> QED
  BY <1>1, <1>2

(* All of Apart but the Syncs due.                                         *)
Counted(s, p) ==
    /\ phase'[s] = phase[s] /\ access'[s] = access[s] /\ sync'[s] = sync[s]
    /\ pending'[s] = p /\ batch'[s] = batch[s] /\ gen'[s] = gen[s] /\ seq'[s] = seq[s]

LEMMA ReindexApart ==
    ASSUME SlotTypes, NEW s \in Slot, NEW d, NEW p, Reindex(s, d, p), SlotInv(s)
    PROVE  /\ \A r \in Slot \ {s} : Apart(r)
           /\ \/ Quits(s) /\ phase'[s] = "Closing"
              \/ Counted(s, p)
<1>1. CASE access[s] = "Draining" /\ CloseSlot(s)
  <2>1. phase[s] = "Ready"
    BY <1>1 DEF SlotInv
  <2> QED
    BY <1>1, <2>1, ClosesApart
<1>2. CASE /\ pending' = [pending EXCEPT ![s] = p]
           /\ UNCHANGED <<phase, gen, access, seq, receiving, sync, batch, live, blockers>>
  <2>1. DOMAIN pending = Slot
    BY DEF SlotTypes
  <2> QED
    BY <1>2, <2>1 DEF Apart, Counted
<1> QED
  BY <1>1, <1>2 DEF Reindex

(* What the session does with an answer leaves the other slots alone, and  *)
(* its own either as it was or closed.                                     *)
Stays(s) ==
    /\ \A r \in Slot \ {s} : Apart(r)
    /\ \/ Quits(s) /\ phase'[s] = "Closing"
       \/ Apart(s)

LEMMA FailsApart ==
    ASSUME PoolInv, NEW s \in Slot, session[s] = "Ready", Fails(s)
    PROVE  Stays(s) /\ phase'[s] = "Closing"
<1>1. SlotTypes /\ phase[s] # "Vacant" /\ CloseSlot(s)
  BY ReadsOpen DEF PoolInv, Core, Fails
<1> QED
  BY <1>1, ClosesApart DEF Stays

LEMMA ReindexStays ==
    ASSUME PoolInv, NEW s \in Slot, NEW d, Reindex(s, d, pending[s])
    PROVE  Stays(s)
<1>1. SlotTypes /\ SlotInv(s)
  BY DEF PoolInv, Core
<1> QED
  BY <1>1, ReindexApart DEF Stays, Counted, Apart

LEMMA StaysMoves ==
    ASSUME NEW s \in Slot, Stays(s)
    PROVE  \A r \in Slot : Moves(r)
BY ApartMoves DEF Stays, Moves

(* The reply in front is gone, or the lane is as it was.                   *)
Shortens(s) == lane'[s] = lane[s] \/ (lane[s] # <<>> /\ lane'[s] = Tail(lane[s]))
Lanes(s) == Shortens(s) /\ \A r \in Slot \ {s} : lane'[r] = lane[r]

LEMMA PopLanes ==
    ASSUME PoolTypes, NEW s \in Slot, NEW how, Pop(s, how), Front(s) \notin {"None", "Stale"}
    PROVE  Lanes(s) /\ lane[s] # <<>> /\ lane'[s] = Tail(lane[s])
<1>1. lane' = [lane EXCEPT ![s] = Tail(@)] /\ DOMAIN lane = Slot /\ lane[s] # <<>>
  BY FrontKind DEF Pop, PoolTypes, LaneTypes
<1> QED
  BY <1>1 DEF Lanes, Shortens

(* The session of the other slots is as it was; here its batch is not      *)
(* changed, and it settles none.                                           *)
Sessions(s) ==
    /\ sbatch' = sbatch
    /\ settling'[s] = "No" \/ settling'[s] = settling[s]
    /\ session'[s] # "Ready" => settling'[s] = "No"
    /\ \A r \in Slot \ {s} : session'[r] = session[r] /\ settling'[r] = settling[r]

LEMMA FailsSessions ==
    ASSUME SessionTypes, NEW s \in Slot, Fails(s)
    PROVE  Sessions(s)
<1>1. /\ settling' = [settling EXCEPT ![s] = "No"] /\ session' = [session EXCEPT ![s] = "Failed"]
      /\ sbatch' = sbatch /\ DOMAIN settling = Slot /\ DOMAIN session = Slot
  BY DEF Fails, SessionTypes
<1> QED
  BY <1>1 DEF Sessions

LEMMA CompleteStays ==
    ASSUME PoolInv, NEW s \in Slot, session[s] = "Ready", NEW tag, OnComplete(s, tag)
    PROVE  Stays(s) /\ Lanes(s) /\ Sessions(s)
<1>0. PoolTypes /\ SessionTypes
  BY DEF PoolInv, PoolTypes
<1>1. CASE Fails(s) /\ UNCHANGED <<lane, reply>>
  BY <1>0, <1>1, FailsApart, FailsSessions DEF Lanes, Shortens
<1>2. CASE /\ Front(s) = "Command"
           /\ Pop(s, "Ok") /\ Reindex(s, Len(lane[s]) - 1, pending[s])
           /\ UNCHANGED sessionVars
  <2>1. Sessions(s)
    BY <1>2 DEF Sessions, sessionVars
  <2> QED
    BY <1>0, <1>2, <2>1, PopLanes, ReindexStays
<1>3. CASE /\ Front(s) = "Commit"
           /\ Pop(s, "Err") /\ Reindex(s, Len(lane[s]) - 1, pending[s])
           /\ UNCHANGED <<session, sbatch, settling>>
  <2>1. Sessions(s)
    BY <1>3 DEF Sessions
  <2> QED
    BY <1>0, <1>3, <2>1, PopLanes, ReindexStays
<1>4. CASE UNCHANGED <<slotVars, indexVars, session, sbatch, settling, lane, reply>>
  BY <1>4 DEF Stays, Apart, slotVars, Lanes, Shortens, Sessions
<1> QED
  BY <1>1, <1>2, <1>3, <1>4 DEF OnComplete

LEMMA ErrorStays ==
    ASSUME PoolInv, NEW s \in Slot, session[s] = "Ready", NEW scope, OnError(s, scope)
    PROVE  Stays(s) /\ Lanes(s) /\ Sessions(s)
<1>0. PoolTypes /\ SessionTypes
  BY DEF PoolInv, PoolTypes
<1>1. CASE Fails(s) /\ UNCHANGED <<lane, reply>>
  BY <1>0, <1>1, FailsApart, FailsSessions DEF Lanes, Shortens
<1>2. CASE Front(s) \notin {"None", "Stale"} /\ Pop(s, "Err") /\ Fails(s)
  BY <1>0, <1>2, FailsApart, FailsSessions, PopLanes
<1>3. CASE /\ Front(s) \notin {"None", "Stale"}
           /\ Pop(s, "Err") /\ Reindex(s, Len(lane[s]) - 1, pending[s])
           /\ UNCHANGED <<session, sbatch, settling>>
  <2>1. Sessions(s)
    BY <1>3 DEF Sessions
  <2> QED
    BY <1>0, <1>3, <2>1, PopLanes, ReindexStays
<1> QED
  BY <1>1, <1>2, <1>3 DEF OnError

LEMMA ReadyStays ==
    ASSUME PoolInv, NEW s \in Slot, session[s] = "Ready", NEW status, OnReady(s, status)
    PROVE  /\ Stays(s)
           /\ \/ phase'[s] = "Closing" /\ Sessions(s)
              \/ /\ Accepts(s, status) /\ Apart(s)
                 /\ settling' = [settling EXCEPT ![s] = status]
                 /\ session' = session /\ sbatch' = sbatch
<1>0. SessionTypes
  BY DEF PoolInv, PoolTypes
<1>1. CASE Fails(s)
  BY <1>0, <1>1, FailsApart, FailsSessions
<1>2. CASE /\ Accepts(s, status) /\ settling' = [settling EXCEPT ![s] = status]
           /\ UNCHANGED <<slotVars, indexVars, session, progress, sbatch>>
  BY <1>2 DEF Stays, Apart, slotVars
<1> QED
  BY <1>1, <1>2 DEF OnReady

(* The session goes on to the next batch.                                  *)
Turns(s) ==
    /\ sbatch' = [sbatch EXCEPT ![s] = NextBatch(@)]
    /\ settling' = [settling EXCEPT ![s] = "No"]
    /\ session' = session
Changes(s) ==
    \/ access[s] = "Reserved" /\ settling[s] = "Transaction"
    \/ access[s] = "Finalizing" /\ settling[s] = "Idle"

LEMMA SettleDoneApart ==
    ASSUME PoolInv, NEW s \in Slot, SettleDone(s)
    PROVE  /\ \A r \in Slot \ {s} : Apart(r)
           /\ \/ phase'[s] = "Closing" /\ Moves(s) /\ (Sessions(s) \/ Turns(s))
              \/ /\ phase[s] = "Ready" /\ pending[s] > 0 /\ Turns(s) /\ Changes(s)
                 /\ phase'[s] = "Ready" /\ gen'[s] = gen[s] /\ seq'[s] = seq[s]
                 /\ sync'[s] = sync[s] /\ batch'[s] = batch[s]
                 /\ pending'[s] = pending[s] - 1
                 /\ access'[s] = IF access[s] = "Reserved" THEN "Held" ELSE "Shared"
              \/ /\ phase[s] = "Ready" /\ pending[s] > 0 /\ Turns(s) /\ ~Changes(s)
                 /\ Counted(s, pending[s] - 1)
<1>0. SessionTypes /\ SlotTypes /\ SlotInv(s) /\ session[s] = "Ready"
  BY DEF PoolInv, PoolTypes, Core, SettleDone
<1>1. CASE /\ phase[s] = "Closing" /\ Turns(s) /\ UNCHANGED <<slotVars, indexVars>>
  <2>1. \A r \in Slot : Apart(r)
    BY <1>1 DEF Apart, slotVars
  <2> QED
    BY <1>1, <2>1, ApartMoves DEF Apart
<1>2. CASE Fails(s)
  <2>1. Stays(s) /\ phase'[s] = "Closing" /\ Sessions(s) /\ \A r \in Slot : Moves(r)
    BY <1>0, <1>2, FailsApart, FailsSessions, StaysMoves
  <2> QED
    BY <2>1 DEF Stays
<1>3. CASE \E load :
           /\ phase[s] = "Ready" /\ pending[s] > 0 /\ Changes(s) /\ Turns(s)
           /\ PollReady(s, settling[s], load)
           /\ pending' = [pending EXCEPT ![s] = Settled(s)]
           /\ UNCHANGED <<phase, gen, seq, receiving, sync, batch, live, blockers>>
  <2>1. /\ DOMAIN access = Slot /\ DOMAIN pending = Slot
        /\ \/ access[s] = "Reserved" /\ access' = [access EXCEPT ![s] = "Held"]
           \/ access[s] = "Finalizing" /\ access' = [access EXCEPT ![s] = "Shared"]
    BY <1>0, <1>3 DEF PollReady, SlotTypes
  <2>2. \A r \in Slot \ {s} : Apart(r)
    BY <1>3, <2>1 DEF Apart
  <2> QED
    BY <1>3, <2>1, <2>2 DEF Settled
<1>4. CASE \E depth :
           /\ phase[s] = "Ready" /\ pending[s] > 0 /\ ~Changes(s) /\ Turns(s)
           /\ Reindex(s, depth, Settled(s))
  <2>1. PICK depth : /\ phase[s] = "Ready" /\ pending[s] > 0 /\ ~Changes(s) /\ Turns(s)
                     /\ Reindex(s, depth, Settled(s))
    BY <1>4
  <2>2. /\ \A r \in Slot \ {s} : Apart(r)
        /\ \/ Quits(s) /\ phase'[s] = "Closing"
           \/ Counted(s, Settled(s))
    BY <1>0, <2>1, ReindexApart
  <2>3. Quits(s) => Moves(s)
    BY DEF Moves
  <2> QED
    BY <2>1, <2>2, <2>3 DEF Settled
<1> QED
  BY <1>1, <1>2, <1>3, <1>4 DEF SettleDone, Turns, Changes

LEMMA SettleDoneMoves ==
    ASSUME PoolInv, NEW s \in Slot, SettleDone(s)
    PROVE  \A r \in Slot : Moves(r)
<1>1. \A r \in Slot \ {s} : Moves(r)
  BY SettleDoneApart, ApartMoves
<1>2. Moves(s)
  BY SettleDoneApart DEF Moves, Counted, Changes, Passing
<1> QED
  BY <1>1, <1>2

(* Sequences do not wrap while they are given out. *)
LEMMA SequenceAhead ==
    ASSUME NEW n \in 0 .. Wrap - 1, NextSequence(n) # 0
    PROVE  NextSequence(n) = n + 1
<1>1. n + 1 = Wrap \/ n + 1 \in 0 .. Wrap - 1
  BY PoolAssumption
<1>2. n + 1 = Wrap => (n + 1) % Wrap = 0
  BY PoolAssumption
<1>3. n + 1 \in 0 .. Wrap - 1 => (n + 1) % Wrap = n + 1
  BY PoolAssumption
<1> QED
  BY <1>1, <1>2, <1>3 DEF NextSequence

(* What a listed slot is. *)
LEMMA ListedShared ==
    ASSUME PoolInv, NEW s \in Slot, Listed(s)
    PROVE  phase[s] = "Ready" /\ access[s] = "Shared"
<1>1. SlotInv(s)
  BY DEF PoolInv, Core
<1> QED
  BY <1>1 DEF SlotInv, Listed

(* The actions of slots give no lease and take none. *)
LEMMA SlotActionMoves ==
    ASSUME PoolInv, NEW s \in Slot,
           \/ Bind(s) \/ TryReady(s) \/ Quarantine(s) \/ Cut(s)
           \/ ClearRecv(s) \/ ClearSend(s) \/ Deactivate(s)
           \/ CopyFinish(s) \/ Drain(s) \/ \E input : Flush(s, input)
           \/ \E c, b : Call(c, s, b)
           \/ \E h : BeginRefused(h, s) \/ BeginDrains(h, s)
    PROVE  stage' = stage /\ target' = target /\ \A r \in Slot : Moves(r)
<1>0. SlotTypes /\ SlotInv(s) /\ DOMAIN phase = Slot /\ DOMAIN gen = Slot /\ DOMAIN seq = Slot
      /\ DOMAIN access = Slot
  BY DEF PoolInv, Core, SlotTypes
<1>1. CASE UNCHANGED <<phase, gen, access, seq, stage, target>>
  BY <1>1 DEF Moves
<1>2. CASE Bind(s)
  <2>1. /\ phase' = [phase EXCEPT ![s] = "Handshaking"] /\ gen' = [gen EXCEPT ![s] = @ + 1]
        /\ UNCHANGED <<access, seq, stage, target>> /\ access[s] = "None"
    BY <1>0, <1>2 DEF Bind, txVars, SlotInv
  <2> QED
    BY <1>0, <2>1 DEF Moves
<1>3. CASE TryReady(s)
  <2>1. /\ phase' = [phase EXCEPT ![s] = "Ready"] /\ access' = [access EXCEPT ![s] = "Shared"]
        /\ seq' = [seq EXCEPT ![s] = 0] /\ UNCHANGED <<gen, stage, target>>
        /\ phase[s] = "Handshaking"
    BY <1>3 DEF TryReady, txVars
  <2> QED
    BY <1>0, <2>1 DEF Moves
<1>4. ASSUME CloseSlot(s), UNCHANGED txVars
      PROVE  stage' = stage /\ target' = target /\ \A r \in Slot : Moves(r)
  <2>1. Quits(s) => Moves(s)
    BY DEF Moves
  <2> QED
    BY <1>0, <1>4, <2>1, ClosesApart, ApartMoves DEF txVars
<1>5. CASE Deactivate(s)
  <2>1. /\ phase' = [phase EXCEPT ![s] = "Vacant"] /\ access[s] = "None"
        /\ UNCHANGED <<access, gen, seq, stage, target>>
    BY <1>0, <1>5 DEF Deactivate, txVars, SlotInv
  <2> QED
    BY <1>0, <2>1 DEF Moves, Quits
<1>6. ASSUME NEW h, BeginRefused(h, s)
      PROVE  stage' = stage /\ target' = target /\ \A r \in Slot : Moves(r)
  <2>1. /\ seq' = [seq EXCEPT ![s] = NextSequence(@)] /\ NextSequence(seq[s]) # 0 /\ Listed(s)
        /\ UNCHANGED <<phase, gen, access, stage, target>> /\ seq[s] \in 0 .. Wrap - 1
    BY <1>0, <1>6 DEF BeginRefused, PicksBegin, txVars, SlotTypes
  <2>2. seq'[s] = seq[s] + 1 /\ access[s] = "Shared"
    BY <1>0, <2>1, SequenceAhead, ListedShared
  <2> QED
    BY <1>0, <2>1, <2>2 DEF Moves
<1>7. ASSUME NEW h, BeginDrains(h, s)
      PROVE  stage' = stage /\ target' = target /\ \A r \in Slot : Moves(r)
  <2>1. UNCHANGED txVars /\ Listed(s)
    BY <1>7 DEF BeginDrains, PicksBegin
  <2>2. CASE CloseSlot(s)
    BY <1>4, <2>1, <2>2
  <2>3. CASE access' = [access EXCEPT ![s] = "Draining"] /\ UNCHANGED <<phase, gen, seq>>
    <3>1. access[s] = "Shared"
      BY <2>1, ListedShared
    <3> QED
      BY <1>0, <2>1, <2>3, <3>1 DEF Moves, Passing, txVars
  <2> QED
    BY <1>7, <2>2, <2>3 DEF BeginDrains
<1>8. ASSUME Quarantine(s)
      PROVE  stage' = stage /\ target' = target /\ \A r \in Slot : Moves(r)
  BY <1>4, <1>8 DEF Quarantine
<1>9. ASSUME \/ Cut(s) \/ ClearRecv(s) \/ ClearSend(s) \/ CopyFinish(s) \/ Drain(s)
      PROVE  UNCHANGED <<phase, gen, access, seq, stage, target>>
  BY <1>9 DEF Cut, ClearRecv, ClearSend, CopyFinish, Drain, slotVars, txVars
<1>10. ASSUME NEW input, Flush(s, input)
       PROVE  UNCHANGED <<phase, gen, access, seq, stage, target>>
  BY <1>10 DEF Flush, txVars
<1>11. ASSUME NEW c, NEW b, Call(c, s, b)
       PROVE  UNCHANGED <<phase, gen, access, seq, stage, target>>
  BY <1>11 DEF Call, txVars
<1> QED
  BY <1>1, <1>2, <1>3, <1>5, <1>6, <1>7, <1>8, <1>9, <1>10, <1>11

LEMMA SessionActionMoves ==
    ASSUME PoolInv, NEW s \in Slot,
           \/ Discard(s) \/ ReadyForQuery(s)
           \/ SettleSkipped(s) \/ SettleDone(s) \/ SettleFails(s)
           \/ \E tag : CommandComplete(s, tag) \/ RogueComplete(s, tag)
           \/ \E scope : ErrorResponse(s, scope) \/ RogueError(s, scope)
           \/ \E status : RogueReady(s, status)
    PROVE  stage' = stage /\ target' = target /\ \A r \in Slot : Moves(r)
<1>1. CASE Discard(s)
  BY <1>1 DEF Discard, slotVars, txVars, Moves
<1>2. CASE ReadyForQuery(s)
  <2>1. session[s] = "Ready" /\ OnReady(s, Status(s)) /\ UNCHANGED txVars
    BY <1>2 DEF ReadyForQuery, Reads, Listens
  <2> QED
    BY <2>1, ReadyStays, StaysMoves DEF txVars
<1>3. CASE SettleSkipped(s)
  <2>1. Reindex(s, Len(lane[s]) - 1, pending[s]) /\ UNCHANGED <<stage, target>>
    BY <1>3 DEF SettleSkipped
  <2> QED
    BY <2>1, ReindexStays, StaysMoves
<1>4. CASE SettleDone(s)
  BY <1>4, SettleDoneMoves DEF SettleDone
<1>5. CASE SettleFails(s)
  <2>1. session[s] = "Ready" /\ Fails(s) /\ UNCHANGED txVars
    BY <1>5 DEF SettleFails
  <2> QED
    BY <2>1, FailsApart, StaysMoves DEF txVars
<1>6. ASSUME NEW tag, CommandComplete(s, tag) \/ RogueComplete(s, tag)
      PROVE  stage' = stage /\ target' = target /\ \A r \in Slot : Moves(r)
  <2>1. session[s] = "Ready" /\ OnComplete(s, tag) /\ UNCHANGED <<stage, target>>
    BY <1>6 DEF CommandComplete, RogueComplete, Reads, Listens
  <2> QED
    BY <2>1, CompleteStays, StaysMoves
<1>7. ASSUME NEW scope, ErrorResponse(s, scope) \/ RogueError(s, scope)
      PROVE  stage' = stage /\ target' = target /\ \A r \in Slot : Moves(r)
  <2>1. session[s] = "Ready" /\ OnError(s, scope) /\ UNCHANGED <<stage, target>>
    BY <1>7 DEF ErrorResponse, RogueError, Reads, Listens
  <2> QED
    BY <2>1, ErrorStays, StaysMoves
<1>8. ASSUME NEW status, RogueReady(s, status)
      PROVE  stage' = stage /\ target' = target /\ \A r \in Slot : Moves(r)
  <2>1. session[s] = "Ready" /\ OnReady(s, status) /\ UNCHANGED txVars
    BY <1>8 DEF RogueReady, Listens
  <2> QED
    BY <2>1, ReadyStays, StaysMoves DEF txVars
<1> QED
  BY <1>1, <1>2, <1>3, <1>4, <1>5, <1>6, <1>7, <1>8

(* What a BEGIN does: the slot passes to h, under a sequence not used yet. *)
LEMMA BeginTakes ==
    ASSUME PoolInv, LeaseInv, NEW h \in Txs, NEW s \in Slot, Begin(h, s)
    PROVE  /\ phase[s] = "Ready" /\ access[s] = "Shared" /\ target[h] = NoTarget
           /\ access' = [access EXCEPT ![s] = "Reserved"]
           /\ seq' = [seq EXCEPT ![s] = seq[s] + 1] /\ phase' = phase /\ gen' = gen
           /\ stage' = [stage EXCEPT ![h] = "Begin"]
           /\ target' = [target EXCEPT ![h] = Id(s)']
           /\ \A g \in Txs : target[g] # Id(s)'
<1>0. PoolTypes /\ TxTypes /\ SlotTypes
  BY DEF PoolInv, PoolTypes
<1>1. /\ stage[h] = "Idle" /\ Listed(s) /\ NextSequence(seq[s]) # 0
      /\ access' = [access EXCEPT ![s] = "Reserved"]
      /\ seq' = [seq EXCEPT ![s] = NextSequence(@)] /\ phase' = phase /\ gen' = gen
      /\ stage' = [stage EXCEPT ![h] = "Begin"]
      /\ target' = [target EXCEPT ![h] = [Id(s) EXCEPT !.seq = NextSequence(@)]]
  BY DEF Begin, PicksBegin
<1>2. phase[s] = "Ready" /\ access[s] = "Shared" /\ target[h] = NoTarget
  BY <1>1, ListedShared DEF LeaseInv
<1>3. NextSequence(seq[s]) = seq[s] + 1 /\ DOMAIN seq = Slot
  BY <1>0, <1>1, SequenceAhead DEF SlotTypes
<1>4. seq' = [seq EXCEPT ![s] = seq[s] + 1] /\ seq'[s] = seq[s] + 1
  BY <1>1, <1>3
<1>5. [Id(s) EXCEPT !.seq = NextSequence(@)] = Id(s)'
  BY <1>1, <1>3, <1>4 DEF Id
<1>6. ASSUME NEW g \in Txs, target[g] = Id(s)' PROVE FALSE
  <2>1. target[g].slot = s /\ target[g].gen = gen[s] /\ target[g].seq = seq[s] + 1
    BY <1>1, <1>4, <1>6 DEF Id
  <2>2. target[g] # NoTarget
    <3>1. s \in 0 .. Conns - 1 /\ NoTarget.slot = -1
      BY DEF Slot, NoTarget
    <3> QED
      BY <2>1, <3>1, PoolAssumption
  <2> QED
    BY <1>0, <2>1, <2>2, NoLeaseAhead
<1> QED
  BY <1>1, <1>2, <1>4, <1>5, <1>6

LEMMA BeginLease ==
    ASSUME PoolInv, LeaseInv, NEW h \in Txs, NEW s \in Slot, Begin(h, s)
    PROVE  LeaseInv'
<1>0. PoolTypes /\ TxTypes /\ SlotTypes /\ DOMAIN access = Slot /\ DOMAIN seq = Slot
      /\ DOMAIN stage = Txs /\ DOMAIN target = Txs
  BY DEF PoolInv, PoolTypes, SlotTypes, TxTypes
<1>1. /\ phase[s] = "Ready" /\ access[s] = "Shared" /\ target[h] = NoTarget
      /\ access' = [access EXCEPT ![s] = "Reserved"]
      /\ seq' = [seq EXCEPT ![s] = seq[s] + 1] /\ phase' = phase /\ gen' = gen
      /\ stage' = [stage EXCEPT ![h] = "Begin"]
      /\ target' = [target EXCEPT ![h] = Id(s)']
      /\ \A g \in Txs : target[g] # Id(s)'
  BY BeginTakes
<1>2. /\ target'[h] = Id(s)' /\ stage'[h] = "Begin"
      /\ \A g \in Txs \ {h} : target'[g] = target[g] /\ stage'[g] = stage[g]
      /\ access'[s] = "Reserved" /\ seq'[s] = seq[s] + 1
      /\ \A r \in Slot \ {s} : access'[r] = access[r] /\ seq'[r] = seq[r]
  BY <1>0, <1>1
<1>3. \A r \in Slot : seq[r] \in Nat /\ gen[r] \in Nat
  BY <1>0, PoolAssumption DEF SlotTypes
<1>4. /\ Id(s)'.slot = s /\ Id(s)'.gen = gen[s] /\ Id(s)'.seq = seq'[s]
      /\ \A r \in Slot : Id(r)'.slot = r /\ Id(r).slot = r
      /\ \A r \in Slot \ {s} : Id(r)' = Id(r)
  BY <1>1, <1>2 DEF Id
<1>5. Id(s)' # NoTarget
  <2>1. s \in 0 .. Conns - 1 /\ NoTarget.slot = -1
    BY DEF Slot, NoTarget
  <2> QED
    BY <1>4, <2>1, PoolAssumption
<1>6. ASSUME NEW g \in Txs PROVE Past(g)' /\ (stage'[g] = "Idle" <=> target'[g] = NoTarget)
  <2>1. CASE g = h
    <3>1. gen'[s] = gen[s] /\ gen[s] <= gen[s] /\ seq'[s] <= seq'[s] /\ phase'[s] # "Handshaking"
      BY <1>1, <1>2, <1>3
    <3> QED
      BY <1>2, <1>4, <1>5, <2>1, <3>1 DEF Past
  <2>2. CASE g # h
    <3>1. Past(g) /\ (stage[g] = "Idle" <=> target[g] = NoTarget)
      BY DEF LeaseInv
    <3>2. /\ target[g] # NoTarget => target[g].slot \in Slot /\ target[g].seq \in Nat
          /\ target'[g] = target[g] /\ stage'[g] = stage[g]
      BY <1>0, <1>2, <2>2, LeaseOf
    <3>3. ASSUME target[g] # NoTarget, target[g].seq <= seq[target[g].slot]
          PROVE  target[g].seq <= seq'[target[g].slot]
      BY <1>2, <1>3, <3>2, <3>3
    <3> QED
      BY <1>1, <3>1, <3>2, <3>3 DEF Past
  <2> QED
    BY <2>1, <2>2
<1>7. ASSUME NEW f \in Txs, NEW g \in Txs, f # g, target'[f] = target'[g]
      PROVE  target'[g] = NoTarget
  <2>1. f # h /\ g # h
    BY <1>1, <1>2, <1>7
  <2> QED
    BY <1>2, <1>7, <2>1 DEF LeaseInv
<1>8. ASSUME NEW r \in Slot PROVE Held(r)'
  <2>1. CASE r = s
    <3>1. \A g \in Txs : target'[g] = Id(s)' => g = h
      BY <1>1, <1>2
    <3> QED
      BY <1>2, <2>1, <3>1 DEF Held
  <2>2. CASE r # s
    <3>1. Held(r) /\ Id(r)' = Id(r) /\ access'[r] = access[r] /\ Id(r) # NoTarget /\ Id(s)' # Id(r)
      BY <1>0, <1>2, <1>4, <2>2, LeaseOf DEF LeaseInv
    <3>2. \A g \in Txs : target'[g] = Id(r)' <=> target[g] = Id(r)
      BY <1>1, <1>2, <3>1
    <3>3. \A g \in Txs : target'[g] = Id(r)' => stage'[g] = stage[g]
      BY <1>2, <3>1
    <3> QED
      BY <1>1, <3>1, <3>2, <3>3 DEF Held
  <2> QED
    BY <2>1, <2>2
<1> QED
  BY <1>6, <1>7, <1>8 DEF LeaseInv

(* A lease is given up, once its slot is not owned under it any more. *)
LEMMA LeaseDropped ==
    ASSUME PoolInv, PoolInv', LeaseInv, NEW h \in Txs,
           stage' = [stage EXCEPT ![h] = "Idle"], target' = [target EXCEPT ![h] = NoTarget],
           \A r \in Slot : Quits(r) \/ Apart(r),
           \A r \in Slot : target[h] = Id(r) => access'[r] \notin Owned
    PROVE  LeaseInv'
<1>0. PoolTypes /\ TxTypes /\ SlotTypes /\ DOMAIN stage = Txs /\ DOMAIN target = Txs
      /\ \A r \in Slot : SlotInv(r)'
  BY DEF PoolInv, PoolTypes, TxTypes, Core
<1>1. /\ target'[h] = NoTarget /\ stage'[h] = "Idle"
      /\ \A g \in Txs \ {h} : target'[g] = target[g] /\ stage'[g] = stage[g]
  BY <1>0
<1>2. \A r \in Slot : Id(r)' = Id(r) /\ gen'[r] = gen[r] /\ seq'[r] = seq[r]
                      /\ (phase'[r] = phase[r] \/ phase'[r] \in {"Closing", "Vacant"})
                      /\ ((access'[r] = access[r] /\ phase'[r] = phase[r]) \/ access'[r] = "None")
  BY DEF Id, Quits, Apart
<1>3. ASSUME NEW g \in Txs PROVE Past(g)' /\ (stage'[g] = "Idle" <=> target'[g] = NoTarget)
  <2>1. CASE g = h
    BY <1>1, <2>1 DEF Past
  <2>2. CASE g # h
    <3>1. Past(g) /\ (stage[g] = "Idle" <=> target[g] = NoTarget)
      BY DEF LeaseInv
    <3>2. /\ target[g] # NoTarget => target[g].slot \in Slot
          /\ target'[g] = target[g] /\ stage'[g] = stage[g]
      BY <1>0, <1>1, <2>2, LeaseOf
    <3> QED
      BY <1>2, <3>1, <3>2 DEF Past
  <2> QED
    BY <2>1, <2>2
<1>4. ASSUME NEW f \in Txs, NEW g \in Txs, f # g, target'[f] = target'[g]
      PROVE  target'[g] = NoTarget
  BY <1>1, <1>4 DEF LeaseInv
<1>5. ASSUME NEW r \in Slot PROVE Held(r)'
  <2>1. Held(r) /\ Id(r)' = Id(r) /\ Id(r) # NoTarget
        /\ (phase'[r] = "Ready" <=> access'[r] # "None")
    BY <1>0, <1>2, LeaseOf DEF LeaseInv, SlotInv
  <2>2. ASSUME access'[r] \in Owned PROVE \E g \in Txs : target'[g] = Id(r)'
    <3>1. access[r] \in Owned /\ target[h] # Id(r)
      BY <1>2, <2>2 DEF Owned
    <3> QED
      BY <1>1, <2>1, <3>1 DEF Held
  <2>3. ASSUME phase'[r] = "Ready", NEW g \in Txs, target'[g] = Id(r)'
        PROVE  /\ stage'[g] = "Begin" => access'[r] \in {"Reserved", "Held"}
               /\ stage'[g] = "Open" => access'[r] = "Held"
               /\ stage'[g] = "Finish" => access'[r] \in {"Finalizing", "Shared", "Draining"}
    <3>1. g # h
      BY <1>1, <2>1, <2>3
    <3>2. target[g] = Id(r) /\ stage'[g] = stage[g] /\ access'[r] = access[r] /\ phase[r] = "Ready"
      BY <1>1, <1>2, <2>1, <2>3, <3>1
    <3> QED
      BY <2>1, <3>2 DEF Held
  <2> QED
    BY <2>2, <2>3 DEF Held
<1> QED
  BY <1>3, <1>4, <1>5 DEF LeaseInv

(* Client::abort closes the slot if it is still leased. *)
LEMMA AbortApart ==
    ASSUME PoolInv, NEW h \in Txs, NEW states, Abort(h, states)
    PROVE  /\ \A r \in Slot : (Quits(r) /\ phase'[r] = "Closing") \/ Apart(r)
           /\ Current(h, states) => access'[target[h].slot] = "None"
<1>0. SlotTypes /\ TxTypes
  BY DEF PoolInv, PoolTypes
<1>1. CASE Current(h, states)
  <2> DEFINE s == target[h].slot
  <2>1. s \in Slot /\ phase[s] = "Ready" /\ CloseSlot(s)
    BY <1>0, <1>1, LeaseSlot DEF Abort, Recovers
  <2> HIDE DEF s
  <2>2. /\ \A r \in Slot \ {s} : Apart(r)
        /\ Quits(s) /\ phase'[s] = "Closing"
    BY <1>0, <2>1, ClosesApart
  <2>3. access'[s] = "None"
    BY <2>2 DEF Quits
  <2> QED
    BY <2>2, <2>3 DEF s
<1>2. CASE ~ Current(h, states)
  BY <1>2 DEF Abort, Recovers, Apart, slotVars
<1> QED
  BY <1>1, <1>2

LEMMA AbortLease ==
    ASSUME PoolInv, PoolInv', LeaseInv, NEW h \in Txs,
           \/ stage[h] \in {"Begin", "Open"} /\ Abort(h, {"Reserved", "Held"})
           \/ stage[h] = "Finish" /\ Abort(h, {"Finalizing"})
    PROVE  LeaseInv'
<1> DEFINE states == IF stage[h] = "Finish" THEN {"Finalizing"} ELSE {"Reserved", "Held"}
<1>0. TxTypes /\ \A r \in Slot : SlotInv(r)
  BY DEF PoolInv, PoolTypes, Core
<1>1. Abort(h, states)
  OBVIOUS
<1>2. \A x : x \in states <=> IF stage[h] = "Finish" THEN x = "Finalizing" ELSE x \in {"Reserved", "Held"}
  OBVIOUS
<1> HIDE DEF states
<1>3. stage' = [stage EXCEPT ![h] = "Idle"] /\ target' = [target EXCEPT ![h] = NoTarget]
  BY <1>1 DEF Abort
<1>4. /\ \A r \in Slot : Quits(r) \/ Apart(r)
      /\ Current(h, states) => access'[target[h].slot] = "None"
  BY <1>1, AbortApart
<1>5. ASSUME NEW r \in Slot, target[h] = Id(r), access'[r] \in Owned PROVE FALSE
  <2>1. access[r] = access'[r] /\ Held(r) /\ target[h].slot = r /\ target[h] # NoTarget
    BY <1>0, <1>4, <1>5, LeaseOf DEF Quits, Apart, Owned, LeaseInv
  <2>2. phase[r] = "Ready"
    BY <1>0, <1>5, <2>1 DEF SlotInv, Owned
  <2>3. access[r] \in states
    BY <1>2, <1>5, <2>1, <2>2 DEF Held, Owned
  <2>4. Current(h, states)
    BY <1>5, <2>1, <2>2, <2>3 DEF Current
  <2> QED
    BY <1>4, <1>5, <2>1, <2>4 DEF Owned
<1> QED
  BY <1>3, <1>4, <1>5, LeaseDropped

LEMMA FinishDoneLease ==
    ASSUME PoolInv, PoolInv', LeaseInv, NEW h \in Txs, FinishDone(h)
    PROVE  LeaseInv'
<1>0. TxTypes /\ \A r \in Slot : SlotInv(r)
  BY DEF PoolInv, PoolTypes, Core
<1>1. /\ stage' = [stage EXCEPT ![h] = "Idle"] /\ target' = [target EXCEPT ![h] = NoTarget]
      /\ ~ Current(h, Owned) /\ UNCHANGED slotVars
  BY DEF FinishDone
<1>2. \A r \in Slot : Apart(r)
  BY <1>1 DEF Apart, slotVars
<1>3. ASSUME NEW r \in Slot, target[h] = Id(r), access'[r] \in Owned PROVE FALSE
  <2>1. access[r] = access'[r] /\ target[h].slot = r /\ target[h] # NoTarget
    BY <1>0, <1>2, <1>3, LeaseOf DEF Apart
  <2>2. phase[r] = "Ready"
    BY <1>0, <1>3, <2>1 DEF SlotInv, Owned
  <2> QED
    BY <1>1, <1>3, <2>1, <2>2 DEF Current
<1> QED
  BY <1>1, <1>2, <1>3, LeaseDropped

(* The holder h moves on, and the access of its slot with it. *)
LEMMA LeaseAdvanced ==
    ASSUME PoolInv, LeaseInv, NEW h \in Txs, NEW s \in Slot, target[h] = Id(s), access[s] = "Held",
           target' = target, gen' = gen, seq' = seq, phase' = phase,
           \/ stage' = [stage EXCEPT ![h] = "Open"] /\ access' = access
           \/ /\ stage' = [stage EXCEPT ![h] = "Finish"]
              /\ access' = [access EXCEPT ![s] = "Finalizing"]
    PROVE  LeaseInv'
<1>0. TxTypes /\ SlotTypes /\ DOMAIN stage = Txs /\ DOMAIN access = Slot
  BY DEF PoolInv, PoolTypes, TxTypes, SlotTypes
<1>1. /\ stage'[h] \in {"Open", "Finish"} /\ \A g \in Txs \ {h} : stage'[g] = stage[g]
      /\ \A r \in Slot \ {s} : access'[r] = access[r]
      /\ access'[s] = (IF stage'[h] = "Open" THEN "Held" ELSE "Finalizing")
  BY <1>0
<1>2. \A r \in Slot : Id(r)' = Id(r) /\ Id(r).slot = r
  BY DEF Id
<1>3. target[h] # NoTarget
  BY <1>0, LeaseOf
<1>4. ASSUME NEW g \in Txs PROVE Past(g)' /\ (stage'[g] = "Idle" <=> target'[g] = NoTarget)
  BY <1>1, <1>3 DEF LeaseInv, Past
<1>5. \A f, g \in Txs : f # g /\ target'[f] = target'[g] => target'[g] = NoTarget
  BY DEF LeaseInv
<1>6. ASSUME NEW r \in Slot PROVE Held(r)'
  <2>1. CASE r = s
    <3>1. \A g \in Txs : target[g] = Id(s) => g = h
      BY <1>3 DEF LeaseInv
    <3> QED
      BY <1>1, <1>2, <2>1, <3>1 DEF Held
  <2>2. CASE r # s
    <3>1. Held(r) /\ target[h] # Id(r)
      BY <1>2, <2>2 DEF LeaseInv
    <3> QED
      BY <1>1, <1>2, <2>2, <3>1 DEF Held
  <2> QED
    BY <2>1, <2>2
<1> QED
  BY <1>4, <1>5, <1>6 DEF LeaseInv

LEMMA CurrentSlot ==
    ASSUME PoolInv, NEW h \in Txs, NEW states, Current(h, states)
    PROVE  \E s \in Slot : /\ target[h] = Id(s) /\ target[h].slot = s
                           /\ phase[s] = "Ready" /\ access[s] \in states
<1>1. TxTypes
  BY DEF PoolInv, PoolTypes
<1> QED
  BY <1>1, LeaseSlot DEF Current

LEMMA StepLease ==
    ASSUME PoolInv, PoolInv', LeaseInv, [Next]_vars
    PROVE  LeaseInv'
<1>1. CASE UNCHANGED vars
  <2>1. stage' = stage /\ target' = target /\ \A r \in Slot : Moves(r)
    BY <1>1 DEF vars, slotVars, txVars, Moves
  <2> QED
    BY <2>1, LeasesRest
<1>2. ASSUME NEW s \in Slot,
             \/ Bind(s) \/ TryReady(s) \/ Quarantine(s) \/ Cut(s)
             \/ ClearRecv(s) \/ ClearSend(s) \/ Deactivate(s)
             \/ CopyFinish(s) \/ Drain(s)
             \/ \E input \in {"Empty", "Partial", "Yield"} : Flush(s, input)
             \/ \E c \in Calls, b \in Boundaries : Call(c, s, b)
             \/ \E h \in Txs : BeginRefused(h, s) \/ BeginDrains(h, s)
      PROVE  LeaseInv'
  <2>1. stage' = stage /\ target' = target /\ \A r \in Slot : Moves(r)
    BY <1>2, SlotActionMoves
  <2> QED
    BY <2>1, LeasesRest
<1>3. ASSUME NEW s \in Slot,
             \/ Discard(s) \/ ReadyForQuery(s)
             \/ SettleSkipped(s) \/ SettleDone(s) \/ SettleFails(s)
             \/ \E tag \in {"Done", "ROLLBACK"} : CommandComplete(s, tag) \/ RogueComplete(s, tag)
             \/ \E scope \in {"Command", "Connection"} :
                   ErrorResponse(s, scope) \/ RogueError(s, scope)
             \/ \E status \in {"Idle", "Transaction"} : RogueReady(s, status)
      PROVE  LeaseInv'
  <2>1. stage' = stage /\ target' = target /\ \A r \in Slot : Moves(r)
    BY <1>3, SessionActionMoves
  <2> QED
    BY <2>1, LeasesRest
<1>4. ASSUME NEW h \in Txs, NEW s \in Slot, Begin(h, s) PROVE LeaseInv'
  BY <1>4, BeginLease
<1>5. ASSUME NEW h \in Txs, BeginDone(h) PROVE LeaseInv'
  <2>1. CASE stage[h] = "Begin" /\ Abort(h, {"Reserved", "Held"})
    BY <2>1, AbortLease
  <2>2. CASE /\ Current(h, {"Held"}) /\ stage' = [stage EXCEPT ![h] = "Open"]
             /\ UNCHANGED <<slotVars, target>>
    <3>1. PICK s \in Slot : target[h] = Id(s) /\ access[s] \in {"Held"}
      BY <2>2, CurrentSlot
    <3> QED
      BY <2>2, <3>1, LeaseAdvanced DEF slotVars
  <2> QED
    BY <1>5, <2>1, <2>2 DEF BeginDone
<1>6. ASSUME NEW h \in Txs, FinishDone(h) \/ DropTx(h) PROVE LeaseInv'
  BY <1>6, FinishDoneLease, AbortLease DEF DropTx
<1>7. ASSUME NEW h \in Txs, NEW b, TxCall(h, b) PROVE LeaseInv'
  <2>1. stage' = stage /\ target' = target /\ \A r \in Slot : Moves(r)
    BY <1>7 DEF TxCall, txVars, Moves
  <2> QED
    BY <2>1, LeasesRest
<1>8. ASSUME NEW h \in Txs, NEW end, Finish(h, end) PROVE LeaseInv'
  <2>1. /\ Current(h, {"Held"}) /\ stage' = [stage EXCEPT ![h] = "Finish"]
        /\ access' = [access EXCEPT ![target[h].slot] = "Finalizing"]
        /\ UNCHANGED <<phase, gen, seq, target>>
    BY <1>8 DEF Finish
  <2>2. PICK s \in Slot : target[h] = Id(s) /\ target[h].slot = s /\ access[s] \in {"Held"}
    BY <2>1, CurrentSlot
  <2> QED
    BY <2>1, <2>2, LeaseAdvanced
<1> QED
  BY <1>1, <1>2, <1>3, <1>4, <1>5, <1>6, <1>7, <1>8 DEF Next

LEMMA InitLease == Init => LeaseInv
<1> SUFFICES ASSUME Init PROVE LeaseInv
  OBVIOUS
<1>1. \A h \in Txs : stage[h] = "Idle" /\ target[h] = NoTarget
  BY DEF Init
<1>2. \A s \in Slot : access[s] = "None" /\ phase[s] = "Vacant"
  BY DEF Init
<1> QED
  BY <1>1, <1>2 DEF LeaseInv, Past, Held, Owned

LEMMA LeaseIsBacked ==
    ASSUME PoolInv, LeaseInv
    PROVE  LeaseBacked
<1> SUFFICES ASSUME NEW s \in Slot, access[s] \in Owned
             PROVE  \E h \in Txs :
                        /\ target[h] = Id(s)
                        /\ stage[h] \in (CASE access[s] = "Reserved" -> {"Begin"}
                                           [] access[s] = "Held" -> {"Begin", "Open"}
                                           [] OTHER -> {"Finish"})
                        /\ \A g \in Txs \ {h} : target[g] # Id(s)
  BY DEF LeaseBacked
<1>0. TxTypes /\ SlotInv(s) /\ Held(s)
  BY DEF PoolInv, PoolTypes, Core, LeaseInv
<1>1. PICK h \in Txs : target[h] = Id(s)
  BY <1>0 DEF Held
<1>2. target[h] # NoTarget /\ stage[h] \in {"Idle", "Begin", "Open", "Finish"}
  BY <1>0, <1>1, LeaseOf DEF TxTypes
<1>3. stage[h] # "Idle" /\ \A g \in Txs \ {h} : target[g] # Id(s)
  BY <1>1, <1>2 DEF LeaseInv
<1>4. phase[s] = "Ready"
  BY <1>0 DEF SlotInv, Owned
<1>5. /\ access[s] = "Reserved" => stage[h] = "Begin"
      /\ access[s] = "Held" => stage[h] \in {"Begin", "Open"}
      /\ access[s] = "Finalizing" => stage[h] = "Finish"
  BY <1>0, <1>1, <1>2, <1>3, <1>4 DEF Held
<1> QED
  BY <1>1, <1>3, <1>5 DEF Owned

(* The invariant of the leases: whatever the server answers.               *)
THEOREM LeaseInvariant == Spec => [](PoolInv /\ LeaseInv)
<1>1. Init => PoolInv /\ LeaseInv
  BY InitPool, InitLease
<1>2. PoolInv /\ LeaseInv /\ [Next]_vars => (PoolInv /\ LeaseInv)'
  BY StepPool, StepLease
<1> QED
  BY <1>1, <1>2, PTL DEF Spec

(* LeaseBacked, for any number of connections and transactions, and        *)
(* whatever the server answers: a connection that is off the index for a   *)
(* transaction has exactly one holder, in the stage that will give it back *)
(* or close it.                                                            *)
THEOREM LeaseBackedCorrect == Spec => []LeaseBacked
<1>1. PoolInv /\ LeaseInv => LeaseBacked
  BY LeaseIsBacked
<1> QED
  BY <1>1, LeaseInvariant, PTL

-----------------------------------------------------------------------------
(* Requests of a server that answers what it was sent *)

Wires == \A r \in Slot : WireInv(r)

(* All that WireInv speaks of is as it was, but for the lease.             *)
Wired(r) ==
    /\ wire'[r] = wire[r] /\ queue'[r] = queue[r] /\ txn'[r] = txn[r]
Quiet(r) ==
    /\ Apart(r) /\ Wired(r) /\ lane'[r] = lane[r]
    /\ session'[r] = session[r] /\ settling'[r] = settling[r] /\ sbatch'[r] = sbatch[r]

LEMMA RequestsType ==
    ASSUME PoolTypes, NEW s \in Slot
    PROVE  Requests(s) \in Seq(Frames) /\ wire[s] \in Seq(Frames) /\ queue[s] \in Seq(Frames)
           /\ Len(Requests(s)) \in Nat /\ lane[s] \in Seq(Replies) /\ Len(lane[s]) \in Nat
<1>1. wire[s] \in Seq(Frames) /\ queue[s] \in Seq(Frames) /\ lane[s] \in Seq(Replies)
  BY DEF PoolTypes, WireTypes, LaneTypes
<1>2. Requests(s) \in Seq(Frames)
  BY <1>1, ConcatProperties DEF Requests
<1>3. Len(Requests(s)) \in Nat /\ Len(lane[s]) \in Nat
  BY <1>1, <1>2
<1> QED
  BY <1>1, <1>2, <1>3

LEMMA RequestsNext ==
    ASSUME PoolTypes', NEW s \in Slot
    PROVE  Requests(s)' \in Seq(Frames) /\ Len(Requests(s)') \in Nat
<1>1. wire'[s] \in Seq(Frames) /\ queue'[s] \in Seq(Frames)
  BY DEF PoolTypes, WireTypes
<1>2. Requests(s)' \in Seq(Frames)
  BY <1>1, ConcatProperties DEF Requests
<1> QED
  BY <1>2

LEMMA SameRequests ==
    ASSUME NEW r, Wired(r)
    PROVE  Requests(r)' = Requests(r)
BY DEF Wired, Requests

(* A slot that is left alone keeps its invariant. *)
LEMMA ReadyKept ==
    ASSUME NEW r \in Slot, ReadyInv(r), access'[r] = access[r], sync'[r] = sync[r],
           pending'[r] = pending[r], batch'[r] = batch[r], Requests(r)' = Requests(r),
           txn'[r] = txn[r], settling'[r] = settling[r], sbatch'[r] = sbatch[r],
           lane'[r] = lane[r] \/ (Begins(r)' /\ Entering(r)'),
           \A h \in Txs : target'[h] = Id(r)' => target[h] = Id(r)
    PROVE  ReadyInv(r)'
<1>1. Settling(r)' /\ Begins(r)' /\ Entering(r)'
  BY DEF ReadyInv, Settling, Begins, Entering
<1> DEFINE q == Requests(r)
<1>2. q' = q
  OBVIOUS
<1>3. /\ pending[r] = Cardinality(Syncs(q)) + (IF settling[r] = "No" THEN 0 ELSE 1)
      /\ batch[r] = (sbatch[r] + pending[r]) % Batches
      /\ sync[r] = "Synced" => Ended(q)
      /\ access[r] \in {"Reserved", "Finalizing"} => sync[r] = "Synced"
      /\ access[r] = "Finalizing" => pending[r] = 1
      /\ Free(access[r], q, txn[r], sync[r])
      /\ \A h \in Txs : target[h] = Id(r) => Taken(access[r], q, txn[r], sync[r], h)
  BY DEF ReadyInv
<1> HIDE DEF q
<1>4. \A h \in Txs : target'[h] = Id(r)' => Taken(access[r], q, txn[r], sync[r], h)
  BY <1>3
<1>5. /\ pending'[r] = Cardinality(Syncs(q)) + (IF settling'[r] = "No" THEN 0 ELSE 1)
      /\ batch'[r] = (sbatch'[r] + pending'[r]) % Batches
      /\ sync'[r] = "Synced" => Ended(q)
      /\ access'[r] \in {"Reserved", "Finalizing"} => sync'[r] = "Synced"
      /\ access'[r] = "Finalizing" => pending'[r] = 1
      /\ Free(access'[r], q, txn'[r], sync'[r])
      /\ \A h \in Txs : target'[h] = Id(r)' => Taken(access'[r], q, txn'[r], sync'[r], h)
  BY <1>3, <1>4
<1> QED
  BY <1>1, <1>2, <1>5 DEF ReadyInv, q

LEMMA QuietWire ==
    ASSUME NEW r \in Slot, WireInv(r), Quiet(r),
           \A h \in Txs : target'[h] = Id(r)' => target[h] = Id(r)
    PROVE  WireInv(r)'
<1>1. Requests(r)' = Requests(r) /\ phase'[r] = phase[r] /\ txn'[r] = txn[r]
  BY SameRequests DEF Quiet, Apart, Wired
<1>2. ReadyInv(r) => ReadyInv(r)'
  BY <1>1, ReadyKept DEF Quiet, Apart
<1>3. Isolated(Requests(r), txn[r]) => Isolated(Requests(r)', txn'[r])
  BY <1>1
<1> QED
  BY <1>1, <1>2, <1>3 DEF WireInv, Quiet, Isolated

LEMMA QuietOthers ==
    ASSUME Wires, NEW s \in Slot, WireInv(s)', target' = target,
           \A r \in Slot \ {s} : Quiet(r)
    PROVE  Wires'
<1>1. \A r \in Slot \ {s} : Id(r)' = Id(r)
  BY DEF Quiet, Apart, Id
<1>2. ASSUME NEW r \in Slot \ {s} PROVE WireInv(r)'
  BY <1>1, QuietWire DEF Wires
<1> QED
  BY <1>2 DEF Wires

(* TxIsolation, of one slot. *)
LEMMA WireIsolated ==
    ASSUME PoolInv, LeaseInv, NEW s \in Slot, WireInv(s)
    PROVE  Isolated(Requests(s), txn[s])
<1>0. PoolTypes /\ SlotTypes /\ SlotInv(s) /\ Requests(s) \in Seq(Frames) /\ Held(s)
  BY RequestsType DEF PoolInv, PoolTypes, Core, LeaseInv
<1>1. CASE phase[s] = "Closing"
  BY <1>1 DEF WireInv
<1>2. CASE phase[s] \in {"Vacant", "Handshaking"}
  <2>1. Len(Requests(s)) = 0
    BY <1>2 DEF WireInv
  <2> QED
    BY <2>1 DEF Isolated
<1>3. CASE phase[s] = "Ready"
  <2> DEFINE r == Requests(s)
             t == txn[s]
             a == access[s]
  <2>1. /\ Free(a, r, t, sync[s])
        /\ \A h \in Txs : target[h] = Id(s) => Taken(a, r, t, sync[s], h)
    BY <1>3 DEF WireInv, ReadyInv
  <2>2. a \in {"Shared", "Draining"} \/ a \in Owned
    BY <1>0, <1>3 DEF SlotTypes, SlotInv, Accesses, Owned
  <2>3. a \in Owned => \E h \in Txs : target[h] = Id(s)
    BY <1>0 DEF Held
  <2>4. r \in Seq(Frames)
    BY <1>0
  <2> HIDE DEF r, t, a
  <2>5. CASE a \in {"Shared", "Draining"}
    BY <2>1, <2>4, <2>5, FreeIsolated DEF r, t
  <2>6. CASE a \in Owned
    <3>1. PICK h \in Txs : target[h] = Id(s)
      BY <2>3, <2>6
    <3> QED
      BY <2>1, <2>4, <2>6, <3>1, TakenIsolated DEF r, t
  <2> QED
    BY <2>2, <2>5, <2>6
<1> QED
  BY <1>0, <1>1, <1>2, <1>3 DEF SlotTypes

LEMMA ClosingWire ==
    ASSUME NEW s \in Slot, phase'[s] = "Closing", Isolated(Requests(s)', txn'[s]),
           session'[s] # "Ready" => settling'[s] = "No"
    PROVE  WireInv(s)'
BY DEF WireInv, Isolated

(* Whoever gives up a slot leaves its requests isolated. *)
LEMMA QuitWire ==
    ASSUME PoolInv, LeaseInv, NEW s \in Slot, WireInv(s), phase'[s] = "Closing", Wired(s),
           session'[s] # "Ready" => settling'[s] = "No"
    PROVE  WireInv(s)'
<1>1. Isolated(Requests(s), txn[s]) /\ Requests(s)' = Requests(s) /\ txn'[s] = txn[s]
  BY WireIsolated, SameRequests DEF Wired
<1>2. Isolated(Requests(s)', txn'[s])
  BY <1>1
<1> QED
  BY <1>2, ClosingWire

(* The lane lost its first reply at most. *)
LEMMA ShortenedBegins ==
    ASSUME PoolTypes, NEW s \in Slot, Begins(s), Shortens(s), access'[s] = access[s]
    PROVE  Begins(s)'
<1>0. lane[s] \in Seq(Replies) /\ Len(lane[s]) \in Nat
  BY RequestsType
<1>1. CASE lane'[s] = lane[s]
  BY <1>1 DEF Begins
<1>2. CASE lane[s] # <<>> /\ lane'[s] = Tail(lane[s])
  <2>1. Len(lane'[s]) = Len(lane[s]) - 1 /\ \A i \in 1 .. Len(lane'[s]) : lane'[s][i] = lane[s][i + 1]
    BY <1>0, <1>2, LaneTail
  <2>2. \A i \in 1 .. Len(lane'[s]) : i + 1 \in 1 .. Len(lane[s]) /\ (i + 1 = Len(lane[s]) => i = Len(lane'[s]))
    BY <1>0, <2>1
  <2> QED
    BY <2>1, <2>2 DEF Begins
<1> QED
  BY <1>1, <1>2 DEF Shortens

(* The server has run the first request. *)
LEMMA ServedWire ==
    ASSUME PoolInv, PoolInv', LeaseInv, NEW s \in Slot, WireInv(s), session[s] = "Ready",
           settling[s] = "No", Runs(Requests(s), Requests(s)'),
           Passes(Requests(s)[1], txn[s], txn'[s]),
           Stays(s), Shortens(s), Sessions(s), target' = target
    PROVE  WireInv(s)'
<1> DEFINE r == Requests(s)
           new == Requests(s)'
           t == txn[s]
           t2 == txn'[s]
           a == access[s]
           sy == sync[s]
<1>0. PoolTypes /\ PoolTypes' /\ SlotTypes /\ phase[s] \in {"Ready", "Closing"}
  BY ReadsOpen DEF PoolInv, PoolTypes
<1>1. r \in Seq(Frames) /\ new \in Seq(Frames) /\ Runs(r, new) /\ Passes(r[1], t, t2)
  BY <1>0, RequestsType, RequestsNext
<1>2. settling'[s] = "No" /\ sbatch' = sbatch
  BY DEF Sessions
<1>3. Isolated(r, t)
  BY WireIsolated
<1>4. CASE phase'[s] = "Closing"
  <2> HIDE DEF r, new, t, t2
  <2>1. Isolated(new, t2)
    BY <1>1, <1>3, IsolatedServed
  <2> QED
    BY <1>2, <1>4, <2>1, ClosingWire DEF new, t2
<1>5. CASE phase'[s] # "Closing"
  <2>1. Apart(s) /\ phase'[s] = "Ready" /\ phase[s] = "Ready"
    BY <1>0, <1>5 DEF Stays, Apart
  <2>2. /\ pending[s] = Cardinality(Syncs(r)) + 0
        /\ batch[s] = (sbatch[s] + pending[s]) % Batches
        /\ sy = "Synced" => Ended(r)
        /\ a \in {"Reserved", "Finalizing"} => sy = "Synced"
        /\ a = "Finalizing" => pending[s] = 1
        /\ Free(a, r, t, sy)
        /\ \A h \in Txs : target[h] = Id(s) => Taken(a, r, t, sy, h)
        /\ Begins(s)
    BY <2>1 DEF WireInv, ReadyInv
  <2>3. /\ access'[s] = a /\ sync'[s] = sy /\ pending'[s] = pending[s] /\ batch'[s] = batch[s]
        /\ Id(s)' = Id(s)
    BY <2>1 DEF Apart, Id
  <2>4. Begins(s)' /\ Settling(s)' /\ Entering(s)'
    BY <1>0, <1>2, <2>2, <2>3, ShortenedBegins DEF Settling, Entering
  <2> HIDE DEF r, new, t, t2, a, sy
  <2>5. Cardinality(Syncs(new)) = Cardinality(Syncs(r))
    BY <1>1, SyncsRun
  <2>6. sy = "Synced" => Ended(new)
    BY <1>1, <2>2, EndedServed
  <2>7. Free(a, new, t2, sy)
    BY <1>1, <2>2, FreeServed
  <2>8. ASSUME NEW h \in Txs, target[h] = Id(s) PROVE Taken(a, new, t2, sy, h)
    BY <1>1, <2>2, <2>8, TakenServed
  <2>9. /\ pending'[s] = Cardinality(Syncs(new)) + (IF settling'[s] = "No" THEN 0 ELSE 1)
        /\ batch'[s] = (sbatch'[s] + pending'[s]) % Batches
        /\ sync'[s] = "Synced" => Ended(new)
        /\ access'[s] \in {"Reserved", "Finalizing"} => sync'[s] = "Synced"
        /\ access'[s] = "Finalizing" => pending'[s] = 1
        /\ Free(access'[s], new, t2, sync'[s])
        /\ \A h \in Txs : target'[h] = Id(s)' => Taken(access'[s], new, t2, sync'[s], h)
    BY <1>2, <2>2, <2>3, <2>5, <2>6, <2>7, <2>8
  <2>10. ReadyInv(s)'
    BY <2>4, <2>9 DEF ReadyInv, new, t2
  <2> QED
    BY <1>2, <2>1, <2>10 DEF WireInv
<1> QED
  BY <1>4, <1>5

(* What the server's answers do to the requests. *)
LEMMA RanRequests ==
    ASSUME PoolTypes, NEW s \in Slot, wire[s] # <<>>, queue' = queue
    PROVE  /\ Requests(s)[1] = At(s) /\ At(s) \in Frames
           /\ Ran(s) => /\ Runs(Requests(s), Requests(s)')
                        /\ \A r \in Slot \ {s} : wire'[r] = wire[r]
           /\ wire' = [wire EXCEPT ![s] = Tail(@)] =>
                 /\ Loses(Requests(s), Requests(s)')
                 /\ \A r \in Slot \ {s} : wire'[r] = wire[r]
<1> DEFINE w == wire[s]
           q == queue[s]
<1>0. w \in Seq(Frames) /\ q \in Seq(Frames) /\ w # <<>> /\ DOMAIN wire = Slot
      /\ Head(w) \in Frames
  BY RequestsType, RanTypes DEF PoolTypes, WireTypes
<1>1. Requests(s) = w \o q /\ Requests(s)' = wire'[s] \o q /\ At(s) = Head(w)
  BY DEF Requests, At
<1>2. ASSUME Ran(s)
      PROVE  /\ wire'[s] = IF Head(w).sync THEN <<SyncFrame>> \o Tail(w) ELSE Tail(w)
             /\ \A r \in Slot \ {s} : wire'[r] = wire[r]
  BY <1>0, <1>2 DEF Ran
<1>3. ASSUME wire' = [wire EXCEPT ![s] = Tail(@)]
      PROVE  wire'[s] = Tail(w) /\ \A r \in Slot \ {s} : wire'[r] = wire[r]
  BY <1>0, <1>3
<1> HIDE DEF w, q
<1>4. Loses(w \o q, Tail(w) \o q) /\ (w \o q)[1] = Head(w)
  BY <1>0, ConcatLoses
<1>5. Head(w).sync => Runs(w \o q, (<<SyncFrame>> \o Tail(w)) \o q)
  BY <1>0, ConcatRuns
<1>6. ~ Head(w).sync => Runs(w \o q, Tail(w) \o q)
  BY <1>4 DEF Runs
<1>7. ASSUME Ran(s) PROVE Runs(Requests(s), Requests(s)')
  <2>1. CASE Head(w).sync
    BY <1>1, <1>2, <1>5, <1>7, <2>1
  <2>2. CASE ~ Head(w).sync
    BY <1>1, <1>2, <1>6, <1>7, <2>2
  <2> QED
    BY <2>1, <2>2
<1> QED
  BY <1>0, <1>1, <1>2, <1>3, <1>4, <1>7

LEMMA EffectsPass ==
    ASSUME NEW s, NEW f, NEW t \in Effects(s, f)
    PROVE  Passes(f, txn[s], t)
BY DEF Effects, Passes

(* What a step of the session leaves alone, for the others. *)
LEMMA SessionQuiet ==
    ASSUME NEW s \in Slot, Stays(s), Lanes(s), Sessions(s),
           \A r \in Slot \ {s} : Wired(r)
    PROVE  \A r \in Slot \ {s} : Quiet(r)
BY DEF Stays, Lanes, Sessions, Quiet

LEMMA CommandCompleteWire ==
    ASSUME PoolInv, PoolInv', LeaseInv, Wires, NEW s \in Slot, NEW tag, CommandComplete(s, tag)
    PROVE  Wires'
<1>0. PoolTypes /\ WireTypes /\ WireInv(s)
  BY DEF PoolInv, PoolTypes, Wires
<1>1. /\ session[s] = "Ready" /\ settling[s] = "No" /\ wire[s] # <<>> /\ Ran(s)
      /\ OnComplete(s, tag)
      /\ UNCHANGED <<queue, skip, stage, target>>
  BY DEF CommandComplete, Reads, Listens
<1>2. PICK t \in Effects(s, At(s)) : txn' = [txn EXCEPT ![s] = t]
  BY DEF CommandComplete
<1>3. txn'[s] = t /\ \A r \in Slot \ {s} : txn'[r] = txn[r]
  BY <1>0, <1>2 DEF WireTypes
<1>4. Stays(s) /\ Lanes(s) /\ Sessions(s)
  BY <1>1, CompleteStays
<1>5. /\ Requests(s)[1] = At(s) /\ Runs(Requests(s), Requests(s)')
      /\ \A r \in Slot \ {s} : wire'[r] = wire[r]
  BY <1>0, <1>1, RanRequests
<1>6. Passes(Requests(s)[1], txn[s], txn'[s])
  BY <1>3, <1>5, EffectsPass
<1>7. WireInv(s)'
  BY <1>0, <1>1, <1>4, <1>5, <1>6, ServedWire DEF Lanes
<1>8. \A r \in Slot \ {s} : Quiet(r)
  BY <1>1, <1>3, <1>4, <1>5, SessionQuiet DEF Wired
<1> QED
  BY <1>1, <1>7, <1>8, QuietOthers

LEMMA ErrorResponseWire ==
    ASSUME PoolInv, PoolInv', LeaseInv, Wires, NEW s \in Slot, NEW scope, ErrorResponse(s, scope)
    PROVE  Wires'
<1>0. PoolTypes /\ WireTypes /\ WireInv(s)
  BY DEF PoolInv, PoolTypes, Wires
<1>1. /\ session[s] = "Ready" /\ settling[s] = "No" /\ wire[s] # <<>> /\ Ran(s)
      /\ OnError(s, scope) /\ txn' \in {txn, [txn EXCEPT ![s] = Nobody]}
      /\ UNCHANGED <<queue, stage, target>>
  BY DEF ErrorResponse, Reads, Listens
<1>2. txn'[s] \in {txn[s], Nobody} /\ \A r \in Slot \ {s} : txn'[r] = txn[r]
  BY <1>0, <1>1 DEF WireTypes
<1>3. Stays(s) /\ Lanes(s) /\ Sessions(s)
  BY <1>1, ErrorStays
<1>4. /\ Runs(Requests(s), Requests(s)') /\ \A r \in Slot \ {s} : wire'[r] = wire[r]
  BY <1>0, <1>1, RanRequests
<1>5. Passes(Requests(s)[1], txn[s], txn'[s])
  BY <1>2 DEF Passes
<1>6. WireInv(s)'
  BY <1>0, <1>1, <1>3, <1>4, <1>5, ServedWire DEF Lanes
<1>7. \A r \in Slot \ {s} : Quiet(r)
  BY <1>1, <1>2, <1>3, <1>4, SessionQuiet DEF Wired
<1> QED
  BY <1>1, <1>6, <1>7, QuietOthers

LEMMA DiscardWire ==
    ASSUME PoolInv, PoolInv', LeaseInv, Wires, NEW s \in Slot, Discard(s)
    PROVE  Wires'
<1>0. PoolTypes /\ WireInv(s)
  BY DEF PoolInv, Wires
<1>1. /\ session[s] = "Ready" /\ settling[s] = "No" /\ wire[s] # <<>> /\ Ran(s)
      /\ UNCHANGED <<slotVars, indexVars, sessionVars, lane, queue, txn, txVars>>
  BY DEF Discard, Reads, Listens
<1>2. Stays(s) /\ Lanes(s) /\ Sessions(s) /\ target' = target
  BY <1>0, <1>1 DEF Stays, Lanes, Shortens, Sessions, Apart, slotVars, sessionVars, txVars
<1>3. /\ Runs(Requests(s), Requests(s)') /\ \A r \in Slot \ {s} : wire'[r] = wire[r]
  BY <1>0, <1>1, RanRequests
<1>4. Passes(Requests(s)[1], txn[s], txn'[s])
  BY <1>1 DEF Passes
<1>5. WireInv(s)'
  BY <1>0, <1>1, <1>2, <1>3, <1>4, ServedWire DEF Lanes
<1>6. \A r \in Slot \ {s} : Quiet(r)
  BY <1>1, <1>2, <1>3, SessionQuiet DEF Wired
<1> QED
  BY <1>2, <1>5, <1>6, QuietOthers

(* A BEGIN in front of the lane is all that is due. *)
LEMMA BeginInFront ==
    ASSUME PoolInv, NEW s \in Slot, phase[s] = "Ready", sync[s] = "Synced", Begins(s),
           Front(s) = "Begin"
    PROVE  /\ Len(lane[s]) = 1 /\ lane[s][1].kind = "Begin" /\ lane[s][1].batch = sbatch[s]
           /\ pending[s] = 1
<1> DEFINE p == pending[s]
           ln == lane[s]
           sb == sbatch[s]
           b == batch[s]
<1>0. PoolTypes /\ SlotInv(s) /\ p \in Nat /\ sb \in 0 .. Batches - 1
  BY DEF PoolInv, PoolTypes, Core, SlotTypes, SessionTypes
<1>1. ln # <<>> /\ ln[1].batch = sb /\ ln[1].kind = "Begin"
  BY <1>0, FrontKind
<1>2. ln \in Seq(Replies) /\ Len(ln) \in Nat /\ Len(ln) > 0
  BY <1>0, <1>1, RequestsType, LaneTail
<1>3. Len(ln) = 1
  <2>1. 1 \in 1 .. Len(ln)
    BY <1>2
  <2> QED
    BY <1>1, <2>1 DEF Begins
<1>4. Chain(p, sb, b, "Synced", 1, ln)
  BY <1>0, <1>3 DEF SlotInv
<1>r. /\ Len(lane[s]) = 1 /\ lane[s][1].kind = "Begin" /\ lane[s][1].batch = sbatch[s]
  BY <1>1, <1>3
<1> HIDE DEF p, ln, sb, b
<1>5. PICK at \in [1 .. p + 1 -> 0 .. Batches - 1], off \in [1 .. 1 -> 1 .. p + 1] :
          Chained(p, sb, b, "Synced", 1, ln, at, off)
  BY <1>4 DEF Chain
<1>6. /\ at[1] = sb /\ (\A k \in 1 .. p : at[k + 1] = NextBatch(at[k]))
      /\ ln[1].batch = at[off[1]] /\ off[1] <= 2 /\ off[1] = p /\ off[1] \in 1 .. p + 1
  BY <1>5 DEF Chained
<1>7. p \in 1 .. 2
  BY <1>0, <1>6
<1>8. p # 2
  <2> SUFFICES ASSUME p = 2 PROVE FALSE
    OBVIOUS
  <2>1. at[2] = NextBatch(at[1])
    <3>1. 1 \in 1 .. p /\ 1 + 1 = 2
      BY <1>7
    <3> QED
      BY <1>6, <3>1
  <2> QED
    BY <1>0, <1>1, <1>6, <2>1, NextBatchStep
<1>9. p = 1
  BY <1>7, <1>8
<1> QED
  BY <1>r, <1>9 DEF p

(* The server's ReadyForQuery, and what its status says. *)
LEMMA AnsweredWire ==
    ASSUME PoolInv, PoolInv', LeaseInv, NEW s \in Slot, WireInv(s), settling[s] = "No",
           phase[s] = "Ready", session'[s] = "Ready",
           Requests(s)[1] = SyncFrame, Loses(Requests(s), Requests(s)'),
           Accepts(s, Status(s)), Apart(s), settling'[s] = Status(s),
           sbatch'[s] = sbatch[s], lane'[s] = lane[s], txn'[s] = txn[s], target' = target
    PROVE  WireInv(s)'
<1> DEFINE r == Requests(s)
           new == Requests(s)'
           t == txn[s]
           a == access[s]
           sy == sync[s]
<1>0. PoolTypes /\ PoolTypes'
  BY DEF PoolInv
<1>1. /\ r \in Seq(Frames) /\ new \in Seq(Frames) /\ Loses(r, new) /\ r[1] = SyncFrame
      /\ r[1].sync = TRUE
  BY <1>0, RequestsType, RequestsNext, SyncInFrames
<1>2. /\ pending[s] = Cardinality(Syncs(r)) + 0
      /\ batch[s] = (sbatch[s] + pending[s]) % Batches
      /\ sy = "Synced" => Ended(r)
      /\ a \in {"Reserved", "Finalizing"} => sy = "Synced"
      /\ a = "Finalizing" => pending[s] = 1
      /\ Free(a, r, t, sy)
      /\ \A h \in Txs : target[h] = Id(s) => Taken(a, r, t, sy, h)
      /\ Begins(s)
  BY DEF WireInv, ReadyInv
<1>3. /\ access'[s] = a /\ sync'[s] = sy /\ pending'[s] = pending[s] /\ batch'[s] = batch[s]
      /\ Id(s)' = Id(s) /\ phase'[s] = "Ready"
  BY DEF Apart, Id
<1>4. Status(s) = (IF t = Nobody THEN "Idle" ELSE "Transaction")
  BY DEF Status
<1>5. /\ t = Nobody => a # "Held"
      /\ t # Nobody => a = "Held" \/ (a = "Reserved" /\ Front(s) = "Begin")
  BY <1>4 DEF Accepts
<1>6. t # Nobody /\ a = "Reserved" =>
          /\ Len(lane[s]) = 1 /\ lane[s][1].kind = "Begin" /\ lane[s][1].batch = sbatch[s]
          /\ pending[s] = 1
  BY <1>2, <1>5, BeginInFront
<1>b. Begins(s)'
  BY <1>2, <1>3 DEF Begins
<1>g. Settling(s)'
  BY <1>3, <1>4, <1>5 DEF Settling
<1> HIDE DEF r, new, t, a, sy
<1>7. Cardinality(Syncs(r)) \in Nat /\ Cardinality(Syncs(new)) \in Nat
      /\ Cardinality(Syncs(new)) = Cardinality(Syncs(r)) - 1
  BY <1>1, SyncsFinite, SyncsLost
<1>8. pending[s] = Cardinality(Syncs(r)) /\ pending[s] = Cardinality(Syncs(new)) + 1
  BY <1>2, <1>7
<1>9. t # Nobody /\ a = "Reserved" => Cardinality(Syncs(r)) = 1 /\ Len(new) = 0
  BY <1>1, <1>2, <1>6, <1>8, OneSync
<1>10. sy = "Synced" => Ended(new)
  BY <1>1, <1>2, EndedServed
<1>11. Free(a, new, t, sy)
  <2>1. CASE t = Nobody
    BY <1>1, <1>2, <2>1, FreeAnswered
  <2>2. CASE t # Nobody
    BY <1>5, <2>2 DEF Free
  <2> QED
    BY <2>1, <2>2
<1>12. ASSUME NEW h \in Txs, target[h] = Id(s) PROVE Taken(a, new, t, sy, h)
  <2>1. \/ t = Nobody /\ a # "Held"
        \/ t # Nobody /\ a = "Held"
        \/ t # Nobody /\ a = "Reserved" /\ Cardinality(Syncs(r)) = 1
    BY <1>5, <1>9
  <2> QED
    BY <1>1, <1>2, <1>12, <2>1, TakenAnswered
<1>13. Entering(s)'
  BY <1>3, <1>4, <1>6, <1>9 DEF Entering, new, a, t
<1>14. /\ pending'[s] = Cardinality(Syncs(new)) + (IF settling'[s] = "No" THEN 0 ELSE 1)
       /\ batch'[s] = (sbatch'[s] + pending'[s]) % Batches
       /\ sync'[s] = "Synced" => Ended(new)
       /\ access'[s] \in {"Reserved", "Finalizing"} => sync'[s] = "Synced"
       /\ access'[s] = "Finalizing" => pending'[s] = 1
       /\ Free(access'[s], new, txn'[s], sync'[s])
       /\ \A h \in Txs : target'[h] = Id(s)' => Taken(access'[s], new, txn'[s], sync'[s], h)
  BY <1>2, <1>3, <1>4, <1>8, <1>10, <1>11, <1>12 DEF t
<1>15. ReadyInv(s)'
  BY <1>b, <1>g, <1>13, <1>14 DEF ReadyInv, new
<1> QED
  BY <1>3, <1>15 DEF WireInv

LEMMA ReadyForQueryWire ==
    ASSUME PoolInv, PoolInv', LeaseInv, Wires, NEW s \in Slot, ReadyForQuery(s)
    PROVE  Wires'
<1>0. PoolTypes /\ PoolTypes' /\ SessionTypes /\ WireInv(s)
  BY DEF PoolInv, PoolTypes, Wires
<1>1. /\ session[s] = "Ready" /\ settling[s] = "No" /\ wire[s] # <<>> /\ At(s).does = "Sync"
      /\ wire' = [wire EXCEPT ![s] = Tail(@)]
      /\ OnReady(s, Status(s)) /\ lane' = lane /\ queue' = queue /\ txn' = txn /\ target' = target
  BY DEF ReadyForQuery, Reads, Listens, txVars
<1>2. /\ Requests(s)[1] = At(s) /\ At(s) \in Frames /\ Loses(Requests(s), Requests(s)')
      /\ \A r \in Slot \ {s} : wire'[r] = wire[r]
  BY <1>0, <1>1, RanRequests
<1>3. Requests(s)[1] = SyncFrame
  BY <1>1, <1>2 DEF Frames
<1>4. /\ Stays(s)
      /\ \/ phase'[s] = "Closing" /\ Sessions(s)
         \/ /\ Accepts(s, Status(s)) /\ Apart(s)
            /\ settling' = [settling EXCEPT ![s] = Status(s)]
            /\ session' = session /\ sbatch' = sbatch
  BY <1>1, ReadyStays
<1>5. /\ \A r \in Slot \ {s} : session'[r] = session[r] /\ settling'[r] = settling[r]
      /\ sbatch' = sbatch /\ (session'[s] # "Ready" => settling'[s] = "No")
  BY <1>0, <1>1, <1>4 DEF Sessions, SessionTypes
<1>6. \A r \in Slot \ {s} : Quiet(r)
  BY <1>1, <1>2, <1>4, <1>5 DEF Quiet, Wired, Stays
<1>7. CASE phase'[s] = "Closing"
  <2> DEFINE q == Requests(s)
             new == Requests(s)'
             t == txn[s]
  <2>1. Isolated(q, t) /\ q \in Seq(Frames) /\ new \in Seq(Frames) /\ Loses(q, new)
    BY <1>0, <1>2, WireIsolated, RequestsType, RequestsNext
  <2>2. Passes(q[1], t, t)
    BY DEF Passes
  <2> HIDE DEF q, new, t
  <2>3. Isolated(new, t)
    BY <2>1, <2>2, IsolatedServed
  <2>4. WireInv(s)'
    BY <1>1, <1>5, <1>7, <2>3, ClosingWire DEF new, t
  <2> QED
    BY <1>1, <1>6, <2>4, QuietOthers
<1>8. CASE phase'[s] # "Closing"
  <2>1. /\ Accepts(s, Status(s)) /\ Apart(s) /\ settling' = [settling EXCEPT ![s] = Status(s)]
        /\ session' = session
    BY <1>4, <1>8
  <2>2. phase[s] = "Ready" /\ settling'[s] = Status(s)
    BY <1>0, <1>1, <1>8, <2>1, ReadsOpen DEF Apart, SessionTypes
  <2>3. WireInv(s)'
    BY <1>0, <1>1, <1>2, <1>3, <1>5, <2>1, <2>2, AnsweredWire
  <2> QED
    BY <1>1, <1>6, <2>3, QuietOthers
<1> QED
  BY <1>7, <1>8

LEMMA UnansweredWired ==
    ASSUME queue' = queue, UNCHANGED serverVars
    PROVE  \A r \in Slot : Wired(r)
BY DEF Wired, serverVars

LEMMA SettleFailsWire ==
    ASSUME PoolInv, PoolInv', LeaseInv, Wires, NEW s \in Slot, SettleFails(s)
    PROVE  Wires'
<1>0. SessionTypes /\ WireInv(s)
  BY DEF PoolInv, PoolTypes, Wires
<1>1. session[s] = "Ready" /\ Fails(s) /\ UNCHANGED <<lane, queue, serverVars, txVars>>
  BY DEF SettleFails
<1>2. Stays(s) /\ phase'[s] = "Closing" /\ Sessions(s) /\ \A r \in Slot : Wired(r)
  BY <1>0, <1>1, FailsApart, FailsSessions, UnansweredWired
<1>3. Lanes(s) /\ target' = target
  BY <1>1 DEF Lanes, Shortens, txVars
<1>4. WireInv(s)'
  BY <1>0, <1>2, QuitWire DEF Sessions
<1> QED
  BY <1>2, <1>3, <1>4, SessionQuiet, QuietOthers

LEMMA SettleSkippedWire ==
    ASSUME PoolInv, PoolInv', LeaseInv, Wires, NEW s \in Slot, SettleSkipped(s)
    PROVE  Wires'
<1>0. PoolTypes /\ WireInv(s)
  BY DEF PoolInv, Wires
<1>1. /\ session[s] = "Ready" /\ Front(s) \notin {"None", "Stale"} /\ Pop(s, "Err")
      /\ Reindex(s, Len(lane[s]) - 1, pending[s])
      /\ UNCHANGED <<sessionVars, queue, serverVars, stage, target>>
  BY DEF SettleSkipped
<1>2. Stays(s) /\ Lanes(s) /\ lane[s] # <<>> /\ lane'[s] = Tail(lane[s])
  BY <1>0, <1>1, ReindexStays, PopLanes
<1>3. /\ \A r \in Slot : Wired(r)
      /\ session' = session /\ settling' = settling /\ sbatch' = sbatch /\ target' = target
  BY <1>1, UnansweredWired DEF sessionVars
<1>4. \A r \in Slot \ {s} : Quiet(r)
  BY <1>2, <1>3 DEF Quiet, Stays, Lanes
<1>5. CASE phase'[s] = "Closing"
  <2>1. WireInv(s)'
    BY <1>0, <1>1, <1>3, <1>5, QuitWire
  <2> QED
    BY <1>3, <1>4, <2>1, QuietOthers
<1>6. CASE phase'[s] # "Closing"
  <2>1. Apart(s) /\ phase[s] = "Ready" /\ phase'[s] = "Ready" /\ Id(s)' = Id(s)
    BY <1>1, <1>2, <1>6, ReadsOpen DEF Stays, Apart, Id
  <2>2. ReadyInv(s) /\ Begins(s) /\ Entering(s)
    BY <1>0, <2>1 DEF WireInv, ReadyInv
  <2>3. Begins(s)'
    BY <1>0, <1>2, <2>1, <2>2, ShortenedBegins DEF Apart, Lanes
  <2>4. Requests(s)' = Requests(s)
    BY <1>3, SameRequests
  <2>5. Len(lane[s]) = 1 => Len(lane'[s]) = 0
    BY <1>0, <1>2, RequestsType, LaneTail
  <2>6. Len(lane[s]) # 0
    BY <1>0, <1>2, RequestsType, LaneTail
  <2>7. Entering(s)'
    BY <1>3, <2>1, <2>2, <2>4, <2>5, <2>6 DEF Entering, Apart
  <2>8. ReadyInv(s)'
    BY <1>3, <2>1, <2>2, <2>3, <2>4, <2>7, ReadyKept DEF Apart, Wired
  <2>9. WireInv(s)'
    BY <1>1, <1>3, <2>1, <2>8 DEF WireInv
  <2> QED
    BY <1>3, <1>4, <2>9, QuietOthers
<1> QED
  BY <1>5, <1>6

(* The batch of a BEGIN settles with nothing else due, that of an end with *)
(* nothing on its way. *)
LEMMA ChangedWire ==
    ASSUME PoolInv, PoolInv', LeaseInv, NEW s \in Slot, WireInv(s),
           phase[s] = "Ready", phase'[s] = "Ready", session[s] = "Ready", session'[s] = "Ready",
           pending[s] > 0, Changes(s), settling'[s] = "No", sbatch'[s] = NextBatch(sbatch[s]),
           gen'[s] = gen[s], seq'[s] = seq[s], sync'[s] = sync[s], batch'[s] = batch[s],
           pending'[s] = pending[s] - 1,
           access'[s] = IF access[s] = "Reserved" THEN "Held" ELSE "Shared",
           Settles(s), IF Retained(s) THEN lane'[s] = Tail(lane[s]) ELSE lane'[s] = lane[s],
           Wired(s), target' = target
    PROVE  WireInv(s)'
<1> DEFINE r == Requests(s)
           t == txn[s]
           n == Cardinality(Syncs(r))
<1>0. PoolTypes /\ SlotTypes /\ SessionTypes /\ pending[s] \in Nat /\ sbatch[s] \in 0 .. Batches - 1
  BY DEF PoolInv, PoolTypes, SlotTypes, SessionTypes
<1>1. /\ pending[s] = n + (IF settling[s] = "No" THEN 0 ELSE 1)
      /\ batch[s] = (sbatch[s] + pending[s]) % Batches
      /\ sync[s] = "Synced" => Ended(r)
      /\ access[s] \in {"Reserved", "Finalizing"} => sync[s] = "Synced"
      /\ access[s] = "Finalizing" => pending[s] = 1
      /\ \A h \in Txs : target[h] = Id(s) => Taken(access[s], r, t, sync[s], h)
      /\ Begins(s) /\ Settling(s) /\ Entering(s)
  BY DEF WireInv, ReadyInv
<1>2. settling[s] # "No" /\ access[s] \in {"Reserved", "Finalizing"}
  BY DEF Changes
<1>3. r \in Seq(Frames) /\ n \in Nat
  BY <1>0, RequestsType, SyncsFinite
<1>4. pending[s] = n + 1 /\ pending'[s] = n
  BY <1>1, <1>2, <1>3
<1>5. Requests(s)' = r /\ txn'[s] = t /\ Id(s)' = Id(s)
  BY SameRequests DEF Wired, Id
<1>6. batch'[s] = (sbatch'[s] + pending'[s]) % Batches
  BY <1>0, <1>1, BatchBehind
<1>l. lane[s] \in Seq(Replies) /\ Len(lane[s]) \in Nat
  BY <1>0, RequestsType
<1>7. CASE access[s] = "Reserved"
  <2>1. settling[s] = "Transaction" /\ access'[s] = "Held"
    BY <1>7 DEF Changes
  <2>2. /\ Len(r) = 0 /\ t # Nobody
        /\ \/ Len(lane[s]) = 0
           \/ Len(lane[s]) = 1 /\ lane[s][1].kind = "Begin" /\ lane[s][1].batch = sbatch[s]
    BY <1>1, <1>7, <2>1 DEF Entering, Settling
  <2>3. Len(lane'[s]) = 0
    <3>1. CASE Len(lane[s]) = 0
      <4>1. lane[s] = <<>>
        BY <1>l, <3>1
      <4>2. Front(s) = "None"
        BY <4>1 DEF Front
      <4>3. ~ Retained(s)
        BY <4>2 DEF Retained
      <4> QED
        BY <3>1, <4>3
    <3>2. CASE Len(lane[s]) = 1 /\ lane[s][1].kind = "Begin" /\ lane[s][1].batch = sbatch[s]
      <4>1. lane[s] # <<>>
        BY <3>2
      <4>2. Front(s) # "None"
        BY <1>0, <3>2, <4>1, FrontKind
      <4>3. lane'[s] = Tail(lane[s])
        BY <4>2 DEF Settles
      <4> QED
        BY <1>l, <3>2, <4>1, <4>3, LaneTail
    <3> QED
      BY <2>2, <3>1, <3>2
  <2>4. Begins(s)' /\ Settling(s)' /\ Entering(s)'
    BY <2>1, <2>3 DEF Begins, Settling, Entering
  <2>5. Syncs(r) = {} /\ Ended(r)
    BY <2>2 DEF Syncs, Ended
  <2>6. ASSUME NEW h \in Txs, target[h] = Id(s) PROVE Taken("Held", r, t, sync[s], h)
    <3>1. Begun(r, t, h)
      BY <1>1, <1>7, <2>2, <2>6 DEF Taken, Waiting
    <3>2. t = h
      BY <2>2, <3>1 DEF Begun
    <3> QED
      BY <2>2, <3>2 DEF Taken, Only
  <2>7. Free("Held", r, t, sync[s])
    BY DEF Free
  <2>8. n + 0 = n
    BY <1>3
  <2>9. ReadyInv(s)'
    BY <1>4, <1>5, <1>6, <2>1, <2>4, <2>5, <2>6, <2>7, <2>8 DEF ReadyInv
  <2> QED
    BY <2>9 DEF WireInv
<1>8. CASE access[s] = "Finalizing"
  <2>1. settling[s] = "Idle" /\ access'[s] = "Shared" /\ t = Nobody
    BY <1>1, <1>8 DEF Changes, Settling
  <2>2. n = 0 /\ Ended(r)
    BY <1>1, <1>3, <1>4, <1>8
  <2>3. Len(r) = 0
    BY <1>3, <2>2, NoSyncs
  <2>4. Begins(s)'
    <3>1. \A i \in 1 .. Len(lane[s]) : lane[s][i].kind # "Begin"
      BY <1>1, <1>8 DEF Begins
    <3>2. CASE Retained(s)
      <4>1. lane[s] # <<>>
        BY <1>0, <3>2, FrontKind DEF Retained
      <4>2. /\ Len(lane'[s]) = Len(lane[s]) - 1
            /\ \A i \in 1 .. Len(lane[s]) - 1 : lane'[s][i] = lane[s][i + 1]
        <5>1. lane'[s] = Tail(lane[s])
          BY <3>2
        <5>2. /\ Len(Tail(lane[s])) = Len(lane[s]) - 1
              /\ Shorter(Len(lane[s]), lane[s], Tail(lane[s]))
          BY <1>l, <4>1, LaneTail
        <5> QED
          BY <5>1, <5>2 DEF Shorter
      <4>3. \A i \in 1 .. Len(lane[s]) - 1 : i + 1 \in 1 .. Len(lane[s])
        BY <1>l
      <4> QED
        BY <3>1, <4>2, <4>3 DEF Begins
    <3>3. CASE ~ Retained(s)
      BY <3>1, <3>3 DEF Begins
    <3> QED
      BY <3>2, <3>3
  <2>5. Settling(s)' /\ Entering(s)'
    BY <2>1 DEF Settling, Entering
  <2>6. Free("Shared", r, t, sync[s])
    BY <2>1, <2>3, NamesAssumption DEF Free, NoBegin
  <2>7. \A h \in Txs : Taken("Shared", r, t, sync[s], h)
    BY DEF Taken
  <2>8. n + 0 = n
    BY <1>3
  <2>9. ReadyInv(s)'
    BY <1>4, <1>5, <1>6, <2>1, <2>2, <2>4, <2>5, <2>6, <2>7, <2>8 DEF ReadyInv
  <2> QED
    BY <2>9 DEF WireInv
<1> QED
  BY <1>2, <1>7, <1>8

(* A batch that leaves the access as it is. *)
LEMMA TurnedWire ==
    ASSUME PoolInv, PoolInv', LeaseInv, NEW s \in Slot, WireInv(s),
           phase[s] = "Ready", session[s] = "Ready", session'[s] = "Ready", settling[s] # "No",
           pending[s] > 0, ~Changes(s), settling'[s] = "No", sbatch'[s] = NextBatch(sbatch[s]),
           Counted(s, pending[s] - 1), Shortens(s), Wired(s), target' = target
    PROVE  WireInv(s)'
<1> DEFINE r == Requests(s)
           n == Cardinality(Syncs(r))
<1>0. PoolTypes /\ SlotTypes /\ SessionTypes /\ pending[s] \in Nat /\ sbatch[s] \in 0 .. Batches - 1
      /\ settling[s] \in {"No", "Idle", "Transaction"}
  BY DEF PoolInv, PoolTypes, SlotTypes, SessionTypes
<1>1. /\ pending[s] = n + (IF settling[s] = "No" THEN 0 ELSE 1)
      /\ batch[s] = (sbatch[s] + pending[s]) % Batches
      /\ sync[s] = "Synced" => Ended(r)
      /\ access[s] \in {"Reserved", "Finalizing"} => sync[s] = "Synced"
      /\ Free(access[s], r, txn[s], sync[s])
      /\ \A h \in Txs : target[h] = Id(s) => Taken(access[s], r, txn[s], sync[s], h)
      /\ Begins(s) /\ Settling(s) /\ Entering(s)
  BY DEF WireInv, ReadyInv
<1>2. r \in Seq(Frames) /\ n \in Nat
  BY <1>0, RequestsType, SyncsFinite
<1>3. pending'[s] = n /\ n + 0 = n
  BY <1>1, <1>2 DEF Counted
<1>4. Requests(s)' = r /\ txn'[s] = txn[s] /\ Id(s)' = Id(s)
  BY SameRequests DEF Wired, Id, Counted
<1>5. batch'[s] = (sbatch'[s] + pending'[s]) % Batches
  BY <1>0, <1>1, BatchBehind DEF Counted
<1>6. access[s] # "Finalizing"
  BY <1>0, <1>1 DEF Settling, Changes
<1>7. Begins(s)' /\ Settling(s)' /\ Entering(s)'
  BY <1>0, <1>1, ShortenedBegins DEF Counted, Settling, Entering
<1>8. access'[s] = access[s] /\ sync'[s] = sync[s] /\ phase'[s] = "Ready"
  BY DEF Counted
<1>9. /\ pending'[s] = Cardinality(Syncs(r)) + (IF settling'[s] = "No" THEN 0 ELSE 1)
      /\ batch'[s] = (sbatch'[s] + pending'[s]) % Batches
      /\ sync'[s] = "Synced" => Ended(r)
      /\ access'[s] \in {"Reserved", "Finalizing"} => sync'[s] = "Synced"
      /\ access'[s] = "Finalizing" => pending'[s] = 1
      /\ Free(access'[s], r, txn'[s], sync'[s])
      /\ \A h \in Txs : target'[h] = Id(s)' => Taken(access'[s], r, txn'[s], sync'[s], h)
  BY <1>1, <1>3, <1>4, <1>5, <1>6, <1>8
<1>10. ReadyInv(s)'
  BY <1>4, <1>7, <1>9 DEF ReadyInv
<1> QED
  BY <1>8, <1>10 DEF WireInv

LEMMA SettleDoneWire ==
    ASSUME PoolInv, PoolInv', LeaseInv, Wires, NEW s \in Slot, SettleDone(s)
    PROVE  Wires'
<1>0. PoolTypes /\ SessionTypes /\ LaneTypes /\ WireInv(s)
  BY DEF PoolInv, PoolTypes, Wires
<1>1. /\ session[s] = "Ready" /\ settling[s] # "No" /\ Settles(s)
      /\ IF Retained(s) THEN Pop(s, "Ok") ELSE UNCHANGED <<lane, reply>>
      /\ queue' = queue /\ UNCHANGED serverVars /\ target' = target
  BY DEF SettleDone
<1>2. /\ IF Retained(s) THEN lane'[s] = Tail(lane[s]) ELSE lane'[s] = lane[s]
      /\ Lanes(s)
  <2>1. CASE Retained(s)
    <3>1. Front(s) \notin {"None", "Stale"}
      BY <2>1 DEF Retained
    <3> QED
      BY <1>0, <1>1, <2>1, <3>1, PopLanes
  <2>2. CASE ~ Retained(s)
    BY <1>1, <2>2 DEF Lanes, Shortens
  <2> QED
    BY <2>1, <2>2
<1>3. \A r \in Slot : Wired(r)
  BY <1>1, UnansweredWired
<1>4. Turns(s) => /\ sbatch'[s] = NextBatch(sbatch[s]) /\ settling'[s] = "No" /\ session' = session
                  /\ \A r \in Slot \ {s} : sbatch'[r] = sbatch[r] /\ settling'[r] = settling[r]
  BY <1>0 DEF Turns, SessionTypes
<1>5. (Turns(s) \/ Sessions(s)) /\ \A r \in Slot \ {s} : Apart(r)
  BY SettleDoneApart
<1>6. \A r \in Slot \ {s} : Quiet(r)
  BY <1>2, <1>3, <1>4, <1>5 DEF Quiet, Sessions, Lanes
<1>7. CASE phase'[s] = "Closing"
  <2>1. session'[s] # "Ready" => settling'[s] = "No"
    BY <1>4, <1>5 DEF Sessions
  <2>2. WireInv(s)'
    BY <1>0, <1>3, <1>7, <2>1, QuitWire
  <2> QED
    BY <1>1, <1>6, <2>2, QuietOthers
<1>8. CASE /\ phase[s] = "Ready" /\ pending[s] > 0 /\ Turns(s) /\ Changes(s)
           /\ phase'[s] = "Ready" /\ gen'[s] = gen[s] /\ seq'[s] = seq[s]
           /\ sync'[s] = sync[s] /\ batch'[s] = batch[s]
           /\ pending'[s] = pending[s] - 1
           /\ access'[s] = IF access[s] = "Reserved" THEN "Held" ELSE "Shared"
  <2>1. session'[s] = "Ready" /\ settling'[s] = "No" /\ sbatch'[s] = NextBatch(sbatch[s])
    BY <1>1, <1>4, <1>8
  <2>2. WireInv(s)'
    BY <1>0, <1>1, <1>2, <1>3, <1>8, <2>1, ChangedWire
  <2> QED
    BY <1>1, <1>6, <2>2, QuietOthers
<1>9. CASE /\ phase[s] = "Ready" /\ pending[s] > 0 /\ Turns(s) /\ ~Changes(s)
           /\ Counted(s, pending[s] - 1)
  <2>1. session'[s] = "Ready" /\ settling'[s] = "No" /\ sbatch'[s] = NextBatch(sbatch[s])
        /\ Shortens(s)
    BY <1>1, <1>2, <1>4, <1>9 DEF Lanes
  <2>2. WireInv(s)'
    BY <1>0, <1>1, <1>3, <1>9, <2>1, TurnedWire
  <2> QED
    BY <1>1, <1>6, <2>2, QuietOthers
<1> QED
  BY <1>7, <1>8, <1>9, SettleDoneApart

-----------------------------------------------------------------------------
(* Requests that are added *)

(* The lane has one more reply, of some kind.                              *)
Replied(s, kind) ==
    /\ Len(lane'[s]) = Len(lane[s]) + 1 /\ lane'[s][Len(lane[s]) + 1].kind = kind
    /\ \A i \in 1 .. Len(lane[s]) : lane'[s][i] = lane[s][i]

(* Request f is added, and its Sync counted.                               *)
Adds(s, f) ==
    /\ f \in Frames /\ Gains(Requests(s), Requests(s)', f)
    /\ sync'[s] = "Synced" => f.sync
    /\ pending'[s] = pending[s] + (IF f.sync THEN 1 ELSE 0)
    /\ batch'[s] = IF f.sync THEN NextBatch(batch[s]) ELSE batch[s]
    /\ session'[s] = session[s] /\ settling'[s] = settling[s] /\ sbatch'[s] = sbatch[s]
    /\ txn'[s] = txn[s]

(* Another slot, whose access may still change.                            *)
Aside(r) ==
    /\ Wired(r) /\ lane'[r] = lane[r] /\ sync'[r] = sync[r] /\ pending'[r] = pending[r]
    /\ batch'[r] = batch[r] /\ session'[r] = session[r]
    /\ settling'[r] = settling[r] /\ sbatch'[r] = sbatch[r]

LEMMA PublishAdds ==
    ASSUME PoolInv, NEW s \in Slot, NEW by \in Calls \cup Txs,
           NEW does \in {"Begin", "Stmt", "Copy", "Commit", "Rollback"},
           does = "Begin" => by \in Txs,
           NEW boundary \in {"Close", "Open", "External", "Begin", "Commit"}, NEW ends, NEW ix,
           Publish(s, by, does, boundary, ends, ix), UNCHANGED <<serverVars, sessionVars>>
    PROVE  /\ Adds(s, Frame(by, does, Closes(boundary))) /\ Replied(s, Kind(boundary))
           /\ sync'[s] = NextSync(sync[s], boundary) /\ sync'[s] # "None"
           /\ \A r \in Slot \ {s} : Aside(r)
<1> DEFINE f == Frame(by, does, Closes(boundary))
           e == [batch |-> batch[s], kind |-> Kind(boundary), by |-> by, ends |-> ends]
<1>0. PoolTypes /\ DOMAIN sync = Slot /\ DOMAIN pending = Slot /\ DOMAIN batch = Slot
      /\ DOMAIN lane = Slot /\ DOMAIN queue = Slot /\ lane[s] \in Seq(Replies)
      /\ Len(lane[s]) \in Nat /\ pending[s] \in Nat
  BY RequestsType DEF PoolInv, PoolTypes, SlotTypes, LaneTypes, WireTypes
<1>1. /\ lane' = [lane EXCEPT ![s] = Append(@, e)]
      /\ queue' = [queue EXCEPT ![s] = Append(@, f)]
      /\ sync' = [sync EXCEPT ![s] = NextSync(sync[s], boundary)]
      /\ NextSync(sync[s], boundary) # "None"
      /\ pending' = [pending EXCEPT ![s] = pending[s] + (IF Closes(boundary) THEN 1 ELSE 0)]
      /\ batch' = [batch EXCEPT ![s] = IF Closes(boundary) THEN NextBatch(@) ELSE @]
      /\ UNCHANGED <<serverVars, sessionVars>>
  BY DEF Publish
<1>2. f \in Frames /\ f.sync = Closes(boundary)
  BY DEF Frame, Frames, Closes, SyncFrame
<1>3. /\ lane'[s] = Append(lane[s], e) /\ queue'[s] = Append(queue[s], f)
      /\ sync'[s] = NextSync(sync[s], boundary)
      /\ pending'[s] = pending[s] + (IF Closes(boundary) THEN 1 ELSE 0)
      /\ batch'[s] = IF Closes(boundary) THEN NextBatch(batch[s]) ELSE batch[s]
      /\ wire'[s] = wire[s] /\ txn'[s] = txn[s] /\ session'[s] = session[s]
      /\ settling'[s] = settling[s] /\ sbatch'[s] = sbatch[s]
  BY <1>0, <1>1 DEF serverVars, sessionVars
<1>4. sync'[s] = "Synced" => Closes(boundary)
  BY <1>3 DEF NextSync, Closes
<1>5. Replied(s, Kind(boundary))
  <2> DEFINE ln == lane[s]
  <2>1. Len(Append(ln, e)) = Len(ln) + 1 /\ Append(ln, e)[Len(ln) + 1] = e
        /\ \A i \in 1 .. Len(ln) : Append(ln, e)[i] = ln[i]
    BY <1>0
  <2>2. e.kind = Kind(boundary)
    OBVIOUS
  <2> HIDE DEF e
  <2> QED
    BY <1>3, <2>1, <2>2 DEF Replied
<1> HIDE DEF f, e
<1>6. Gains(Requests(s), Requests(s)', f)
  <2>1. wire[s] \in Seq(Frames) /\ queue[s] \in Seq(Frames)
    BY <1>0, RequestsType
  <2>2. Gains(wire[s] \o queue[s], wire[s] \o Append(queue[s], f), f)
    BY <1>2, <2>1, ConcatGains
  <2> QED
    BY <1>3, <2>2 DEF Requests
<1>7. Adds(s, f)
  BY <1>2, <1>3, <1>4, <1>6 DEF Adds
<1>8. ASSUME NEW r \in Slot \ {s}
      PROVE  Aside(r)
  BY <1>0, <1>1 DEF Aside, Wired, serverVars, sessionVars
<1> QED
  BY <1>1, <1>3, <1>5, <1>7, <1>8 DEF f

LEMMA AddedWire ==
    ASSUME PoolInv, PoolInv', NEW s \in Slot, WireInv(s), NEW f, Adds(s, f),
           phase[s] = "Ready", phase'[s] = "Ready",
           Begins(s)', Settling(s)', Entering(s)',
           access'[s] \in {"Reserved", "Finalizing"} => sync'[s] = "Synced",
           access'[s] = "Finalizing" => pending'[s] = 1,
           Free(access'[s], Requests(s)', txn[s], sync'[s]),
           \A h \in Txs : target'[h] = Id(s)' =>
               Taken(access'[s], Requests(s)', txn[s], sync'[s], h)
    PROVE  WireInv(s)'
<1> DEFINE r == Requests(s)
           new == Requests(s)'
           n == Cardinality(Syncs(r))
           m == Cardinality(Syncs(new))
           k == IF settling[s] = "No" THEN 0 ELSE 1
<1>0. PoolTypes /\ PoolTypes' /\ pending[s] \in Nat /\ sbatch[s] \in 0 .. Batches - 1
  BY DEF PoolInv, PoolTypes, SlotTypes, SessionTypes
<1>1. r \in Seq(Frames) /\ new \in Seq(Frames) /\ f \in Frames /\ Gains(r, new, f)
  BY <1>0, RequestsType, RequestsNext DEF Adds
<1>2. pending[s] = n + k /\ batch[s] = (sbatch[s] + pending[s]) % Batches /\ k \in Nat
  BY DEF WireInv, ReadyInv
<1>3. /\ pending'[s] = pending[s] + (IF f.sync THEN 1 ELSE 0)
      /\ batch'[s] = IF f.sync THEN NextBatch(batch[s]) ELSE batch[s]
      /\ settling'[s] = settling[s] /\ sbatch'[s] = sbatch[s] /\ session'[s] = session[s]
      /\ txn'[s] = txn[s] /\ (sync'[s] = "Synced" => f.sync)
  BY DEF Adds
<1> HIDE DEF r, new, k
<1>4. n \in Nat /\ m = n + (IF f.sync THEN 1 ELSE 0)
  BY <1>1, SyncsFinite, SyncsGained
<1> HIDE DEF n, m
<1>5. pending'[s] = m + k
  BY <1>2, <1>3, <1>4
<1>6. batch'[s] = (sbatch'[s] + pending'[s]) % Batches
  <2>1. CASE f.sync
    <3> DEFINE x == sbatch[s] + pending[s]
    <3>1. x \in Nat /\ sbatch'[s] + pending'[s] = x + 1
      BY <1>0, <1>3, <2>1, PoolAssumption
    <3>2. batch'[s] = NextBatch(x % Batches)
      BY <1>2, <1>3, <2>1
    <3> HIDE DEF x
    <3>3. NextBatch(x % Batches) = (x + 1) % Batches
      BY <3>1, BatchAhead
    <3> QED
      BY <3>1, <3>2, <3>3
  <2>2. CASE ~ f.sync
    <3>1. pending'[s] = pending[s]
      BY <1>0, <1>3, <2>2
    <3> QED
      BY <1>2, <1>3, <2>2, <3>1
  <2> QED
    BY <2>1, <2>2
<1>7. sync'[s] = "Synced" => Ended(new)
  BY <1>1, <1>3, EndedGained
<1>8. ReadyInv(s)'
  BY <1>3, <1>5, <1>6, <1>7 DEF ReadyInv, new, m, k
<1>9. session'[s] # "Ready" => settling'[s] = "No"
  BY <1>3 DEF WireInv
<1> QED
  BY <1>8, <1>9 DEF WireInv

LEMMA RepliedBegins ==
    ASSUME PoolTypes, NEW s \in Slot, Begins(s), access[s] # "Reserved", NEW kind, Replied(s, kind),
           kind = "Begin" => access'[s] = "Reserved"
    PROVE  Begins(s)'
<1>1. Len(lane[s]) \in Nat /\ \A i \in 1 .. Len(lane[s]) : lane[s][i].kind # "Begin"
  BY RequestsType DEF Begins
<1>2. \A i \in 1 .. Len(lane[s]) + 1 : i \in 1 .. Len(lane[s]) \/ i = Len(lane[s]) + 1
  BY <1>1
<1> QED
  BY <1>1, <1>2 DEF Begins, Replied

(* One more request of a slot that keeps its access. *)
LEMMA CommandWire ==
    ASSUME PoolInv, PoolInv', LeaseInv, Wires, NEW s \in Slot, phase[s] = "Ready",
           access[s] \in {"Shared", "Held", "Draining"}, NEW f, Adds(s, f), f.does # "Begin",
           access[s] = "Held" => \A h \in Txs : target[h] = Id(s) => f.by \in {h, Nobody},
           Begins(s)', phase' = phase, access' = access, gen' = gen, seq' = seq, target' = target
    PROVE  WireInv(s)'
<1> DEFINE r == Requests(s)
           new == Requests(s)'
           t == txn[s]
<1>0. PoolTypes /\ PoolTypes' /\ WireInv(s) /\ Id(s)' = Id(s)
  BY DEF PoolInv, Wires, Id
<1>1. r \in Seq(Frames) /\ new \in Seq(Frames) /\ f \in Frames /\ Gains(r, new, f)
  BY <1>0, RequestsType, RequestsNext DEF Adds
<1>2. /\ Free(access[s], r, t, sync[s]) /\ Settling(s)
      /\ \A h \in Txs : target[h] = Id(s) => Taken(access[s], r, t, sync[s], h)
  BY <1>0 DEF WireInv, ReadyInv
<1>3. Settling(s)' /\ Entering(s)'
  BY <1>2 DEF Settling, Entering, Adds
<1> HIDE DEF r, new, t
<1>4. Free(access[s], new, t, sync'[s])
  BY <1>1, <1>2, FreeGained
<1>5. ASSUME NEW h \in Txs, target[h] = Id(s) PROVE Taken(access[s], new, t, sync'[s], h)
  <2>1. CASE access[s] \in {"Shared", "Draining"}
    BY <2>1 DEF Taken
  <2>2. CASE access[s] = "Held"
    <3>1. Taken("Held", r, t, sync[s], h) /\ f.by \in {h, Nobody} /\ "Held" \in {"Held", "Finalizing"}
      BY <1>2, <1>5, <2>2
    <3>2. Taken("Held", new, t, sync'[s], h)
      BY <1>1, <3>1, TakenGained
    <3> QED
      BY <2>2, <3>2
  <2> QED
    BY <2>1, <2>2
<1> QED
  BY <1>0, <1>3, <1>4, <1>5, AddedWire DEF new, t

LEMMA CallWire ==
    ASSUME PoolInv, PoolInv', LeaseInv, Wires, NEW s \in Slot, NEW c \in Calls,
           NEW b \in Boundaries, Call(c, s, b)
    PROVE  Wires'
<1>0. PoolTypes /\ WireInv(s)
  BY DEF PoolInv, Wires
<1>1. /\ Listed(s) /\ Publish(s, c, Does(b), b, FALSE, index)
      /\ UNCHANGED <<phase, gen, access, seq, sessionVars, serverVars>> /\ target' = target
  BY DEF Call, Picks, txVars
<1>2. phase[s] = "Ready" /\ access[s] = "Shared"
  BY <1>1, ListedShared
<1>3. Does(b) \in {"Stmt", "Copy"} /\ b \in {"Close", "Open", "External"}
  BY DEF Does, Boundaries
<1> DEFINE d == Does(b)
           ends == FALSE
           f == Frame(c, d, Closes(b))
<1>d. /\ PoolInv /\ s \in Slot /\ c \in Calls \cup Txs /\ d # "Begin"
      /\ (d = "Begin" => c \in Txs) /\ d \in {"Begin", "Stmt", "Copy", "Commit", "Rollback"}
      /\ b \in {"Close", "Open", "External", "Begin", "Commit"}
      /\ Publish(s, c, d, b, ends, index) /\ UNCHANGED <<serverVars, sessionVars>>
  BY <1>1, <1>3
<1> HIDE DEF d, ends
<1>4. /\ Adds(s, Frame(c, d, Closes(b))) /\ Replied(s, Kind(b))
      /\ \A r \in Slot \ {s} : Aside(r)
  BY ONLY <1>d, PublishAdds
<1>5. f.does # "Begin" /\ Kind(b) # "Begin"
  BY <1>3, <1>d DEF Frame, Kind
<1>6. Begins(s)'
  BY <1>0, <1>2, <1>4, <1>5, RepliedBegins DEF WireInv, ReadyInv
<1>7. WireInv(s)'
  BY <1>1, <1>2, <1>4, <1>5, <1>6, CommandWire
<1>8. \A r \in Slot \ {s} : Quiet(r)
  BY <1>1, <1>4 DEF Quiet, Apart, Aside
<1> QED
  BY <1>1, <1>7, <1>8, QuietOthers

LEMMA TxCallWire ==
    ASSUME PoolInv, PoolInv', LeaseInv, Wires, NEW h \in Txs, NEW b \in Boundaries, TxCall(h, b)
    PROVE  Wires'
<1>1. /\ Current(h, {"Held"}) /\ Publish(target[h].slot, h, Does(b), b, FALSE, index)
      /\ UNCHANGED <<phase, gen, access, seq, sessionVars, serverVars>> /\ target' = target
  BY DEF TxCall, txVars
<1>2. PICK s \in Slot : /\ target[h] = Id(s) /\ target[h].slot = s
                        /\ phase[s] = "Ready" /\ access[s] \in {"Held"}
  BY <1>1, CurrentSlot
<1>3. Does(b) \in {"Stmt", "Copy"} /\ b \in {"Close", "Open", "External"}
  BY DEF Does, Boundaries
<1> DEFINE d == Does(b)
           ends == FALSE
           f == Frame(h, d, Closes(b))
<1>d. /\ PoolInv /\ s \in Slot /\ h \in Calls \cup Txs /\ d # "Begin"
      /\ (d = "Begin" => h \in Txs) /\ d \in {"Begin", "Stmt", "Copy", "Commit", "Rollback"}
      /\ b \in {"Close", "Open", "External", "Begin", "Commit"}
      /\ Publish(s, h, d, b, ends, index) /\ UNCHANGED <<serverVars, sessionVars>>
  BY <1>1, <1>2, <1>3
<1> HIDE DEF d, ends
<1>4. /\ Adds(s, Frame(h, d, Closes(b))) /\ Replied(s, Kind(b))
      /\ \A r \in Slot \ {s} : Aside(r)
  BY ONLY <1>d, PublishAdds
<1>5. f.does # "Begin" /\ Kind(b) # "Begin" /\ f.by = h
  BY <1>3, <1>d DEF Frame, Kind
<1>6. PoolTypes /\ TxTypes /\ WireInv(s)
  BY DEF PoolInv, PoolTypes, Wires
<1>7. Begins(s)'
  BY <1>2, <1>4, <1>5, <1>6, RepliedBegins DEF WireInv, ReadyInv
<1>8. \A g \in Txs : target[g] = Id(s) => g = h
  BY <1>2, <1>6, LeaseOf DEF LeaseInv
<1>9. WireInv(s)'
  BY <1>1, <1>2, <1>4, <1>5, <1>7, <1>8, CommandWire
<1>10. \A r \in Slot \ {s} : Quiet(r)
  BY <1>1, <1>4 DEF Quiet, Apart, Aside
<1> QED
  BY <1>1, <1>9, <1>10, QuietOthers

LEMMA CopyFinishWire ==
    ASSUME PoolInv, PoolInv', LeaseInv, Wires, NEW s \in Slot, CopyFinish(s)
    PROVE  Wires'
<1>0. /\ PoolTypes /\ SlotInv(s) /\ WireInv(s) /\ DOMAIN sync = Slot /\ DOMAIN pending = Slot
      /\ DOMAIN batch = Slot /\ DOMAIN queue = Slot /\ access[s] \in Accesses
  BY DEF PoolInv, PoolTypes, Core, Wires, SlotTypes, WireTypes
<1>1. /\ phase[s] = "Ready" /\ access[s] # "Draining" /\ sync[s] = "Explicit"
      /\ queue' = [queue EXCEPT ![s] = Append(@, SyncFrame)]
      /\ sync' = [sync EXCEPT ![s] = "Synced"]
      /\ pending' = [pending EXCEPT ![s] = @ + 1]
      /\ batch' = [batch EXCEPT ![s] = NextBatch(@)]
      /\ UNCHANGED <<phase, gen, access, seq, sessionVars, lane, serverVars>> /\ target' = target
  BY DEF CopyFinish, txVars
<1>2. access[s] \in {"Shared", "Held", "Draining"} /\ Begins(s)
  BY <1>0, <1>1 DEF SlotInv, WireInv, ReadyInv, Accesses
<1>3. Adds(s, SyncFrame)
  <2>1. wire[s] \in Seq(Frames) /\ queue[s] \in Seq(Frames)
    BY <1>0, RequestsType
  <2>2. Gains(wire[s] \o queue[s], wire[s] \o Append(queue[s], SyncFrame), SyncFrame)
    BY <2>1, SyncInFrames, ConcatGains
  <2>3. Gains(Requests(s), Requests(s)', SyncFrame)
    BY <1>0, <1>1, <2>2 DEF Requests, serverVars
  <2> QED
    BY <1>0, <1>1, <2>3, SyncInFrames DEF Adds, serverVars, sessionVars
<1>4. Begins(s)'
  BY <1>1, <1>2 DEF Begins
<1>5. WireInv(s)'
  BY <1>1, <1>2, <1>3, <1>4, SyncInFrames, CommandWire
<1>6. \A r \in Slot \ {s} : Quiet(r)
  BY <1>0, <1>1 DEF Quiet, Apart, Wired, serverVars, sessionVars
<1> QED
  BY <1>1, <1>5, <1>6, QuietOthers

LEMMA FlushWire ==
    ASSUME PoolInv, PoolInv', LeaseInv, Wires, ~Rogue, NEW s \in Slot, NEW input, Flush(s, input)
    PROVE  Wires'
<1>0. /\ PoolTypes /\ SlotInv(s) /\ WireInv(s) /\ DOMAIN sync = Slot /\ DOMAIN pending = Slot
      /\ DOMAIN batch = Slot /\ DOMAIN wire = Slot /\ access[s] \in Accesses
  BY DEF PoolInv, PoolTypes, Core, Wires, SlotTypes, WireTypes
<1>1. /\ phase[s] = "Ready" /\ target' = target
      /\ UNCHANGED <<phase, gen, access, seq, sessionVars, lane, queue, txn>>
  BY DEF Flush, txVars
<1>2. CASE UNCHANGED <<wire, sync, pending, batch>>
  <2>1. \A r \in Slot : Quiet(r) /\ Id(r)' = Id(r)
    BY <1>1, <1>2 DEF Quiet, Apart, Wired, sessionVars, Id
  <2>2. WireInv(s)'
    BY <1>0, <1>1, <2>1, QuietWire
  <2> QED
    BY <1>1, <2>1, <2>2, QuietOthers
<1>3. CASE /\ sync[s] = "Automatic" /\ queue[s] = <<>>
           /\ wire' = Sent(s, SyncFrame)
           /\ sync' = [sync EXCEPT ![s] = "Synced"]
           /\ pending' = [pending EXCEPT ![s] = @ + 1]
           /\ batch' = [batch EXCEPT ![s] = NextBatch(@)]
  <2>1. wire'[s] = Append(wire[s], SyncFrame) /\ \A r \in Slot \ {s} : wire'[r] = wire[r]
    BY <1>0, <1>3 DEF Sent
  <2>2. access[s] \in {"Shared", "Held", "Draining"} /\ Begins(s)
    BY <1>0, <1>1, <1>3 DEF SlotInv, WireInv, ReadyInv, Accesses
  <2>3. Gains(Requests(s), Requests(s)', SyncFrame)
    <3> DEFINE w == wire[s]
               x == Append(w, SyncFrame)
    <3>1. w \in Seq(Frames)
      BY <1>0, RequestsType
    <3>2. /\ x \in Seq(Frames) /\ Len(x) = Len(w) + 1 /\ x[Len(w) + 1] = SyncFrame
          /\ \A i \in 1 .. Len(w) : x[i] = w[i]
      BY <3>1, SyncInFrames, AppendProperties
    <3>3. Requests(s) = w \o <<>> /\ Requests(s)' = x \o <<>>
      BY <1>1, <1>3, <2>1 DEF Requests
    <3> HIDE DEF w, x
    <3>4. w \o <<>> = w /\ x \o <<>> = x
      BY <3>1, <3>2, ConcatEmptySeq
    <3> QED
      BY <3>2, <3>3, <3>4 DEF Gains
  <2>4. Adds(s, SyncFrame)
    BY <1>0, <1>1, <1>3, <2>3, SyncInFrames DEF Adds, sessionVars
  <2>5. Begins(s)'
    BY <1>1, <2>2 DEF Begins
  <2>6. WireInv(s)'
    BY <1>1, <2>2, <2>4, <2>5, SyncInFrames, CommandWire
  <2>7. \A r \in Slot \ {s} : Quiet(r)
    BY <1>0, <1>1, <1>3, <2>1 DEF Quiet, Apart, Wired, sessionVars
  <2> QED
    BY <1>1, <2>6, <2>7, QuietOthers
<1> QED
  BY <1>2, <1>3 DEF Flush

(* A request handed to the link is as much on its way as before. *)
LEMMA DrainWire ==
    ASSUME PoolInv, LeaseInv, Wires, ~Rogue, NEW s \in Slot, Drain(s)
    PROVE  Wires'
<1>0. PoolTypes /\ WireInv(s) /\ DOMAIN wire = Slot /\ DOMAIN queue = Slot
  BY DEF PoolInv, PoolTypes, Wires, WireTypes
<1>1. /\ phase[s] = "Ready" /\ queue[s] # <<>>
      /\ wire' = [wire EXCEPT ![s] = Append(@, Head(queue[s]))]
      /\ queue' = [queue EXCEPT ![s] = Tail(@)]
      /\ UNCHANGED <<slotVars, sessionVars, lane, txn>> /\ target' = target
  BY DEF Drain, Sent, txVars
<1>2. Requests(s)' = Requests(s)
  <2>1. wire[s] \in Seq(Frames) /\ queue[s] \in Seq(Frames)
    BY <1>0, RequestsType
  <2>2. Append(wire[s], Head(queue[s])) \o Tail(queue[s]) = wire[s] \o queue[s]
    BY <1>1, <2>1, ConcatDrain
  <2> QED
    BY <1>0, <1>1, <2>2 DEF Requests
<1>3. ReadyInv(s) /\ Id(s)' = Id(s)
  BY <1>0, <1>1 DEF WireInv, Id, slotVars
<1>4. ReadyInv(s)'
  BY <1>1, <1>2, <1>3, ReadyKept DEF slotVars, sessionVars
<1>5. WireInv(s)'
  BY <1>0, <1>1, <1>4 DEF WireInv, slotVars, sessionVars
<1>6. \A r \in Slot \ {s} : Quiet(r)
  BY <1>0, <1>1 DEF Quiet, Apart, Wired, slotVars, sessionVars
<1> QED
  BY <1>1, <1>5, <1>6, QuietOthers

-----------------------------------------------------------------------------
(* Connections that come and go *)

LEMMA BindWire ==
    ASSUME PoolInv, LeaseInv, Wires, NEW s \in Slot, Bind(s)
    PROVE  Wires'
<1>0. /\ SlotInv(s) /\ WireInv(s) /\ DOMAIN phase = Slot /\ DOMAIN gen = Slot
      /\ DOMAIN batch = Slot /\ DOMAIN session = Slot /\ DOMAIN sbatch = Slot
  BY DEF PoolInv, PoolTypes, Core, Wires, SlotTypes, SessionTypes
<1>1. /\ phase[s] = "Vacant" /\ phase' = [phase EXCEPT ![s] = "Handshaking"]
      /\ gen' = [gen EXCEPT ![s] = @ + 1]
      /\ batch' = [batch EXCEPT ![s] = 0] /\ sbatch' = [sbatch EXCEPT ![s] = 0]
      /\ session' = [session EXCEPT ![s] = "Startup"]
      /\ UNCHANGED <<access, seq, sync, pending, settling, lane, queue, wire, txn>>
      /\ target' = target
  BY DEF Bind, serverVars, txVars
<1>2. settling[s] = "No" /\ Len(Requests(s)) = 0 /\ txn[s] = Nobody
  BY <1>0, <1>1 DEF SlotInv, WireInv
<1>3. phase'[s] = "Handshaking" /\ Requests(s)' = Requests(s)
  BY <1>0, <1>1 DEF Requests
<1>4. WireInv(s)'
  BY <1>1, <1>2, <1>3 DEF WireInv
<1>5. \A r \in Slot \ {s} : Quiet(r)
  BY <1>0, <1>1 DEF Quiet, Apart, Wired
<1> QED
  BY <1>1, <1>4, <1>5, QuietOthers

LEMMA TryReadyWire ==
    ASSUME PoolInv, LeaseInv, Wires, NEW s \in Slot, TryReady(s)
    PROVE  Wires'
<1>0. /\ PoolTypes /\ SlotInv(s) /\ WireInv(s) /\ DOMAIN phase = Slot /\ DOMAIN access = Slot
      /\ DOMAIN seq = Slot /\ DOMAIN session = Slot /\ sbatch[s] \in 0 .. Batches - 1
  BY DEF PoolInv, PoolTypes, Core, Wires, SlotTypes, SessionTypes
<1>1. /\ phase[s] = "Handshaking" /\ session[s] = "Startup"
      /\ phase' = [phase EXCEPT ![s] = "Ready"] /\ access' = [access EXCEPT ![s] = "Shared"]
      /\ seq' = [seq EXCEPT ![s] = 0] /\ session' = [session EXCEPT ![s] = "Ready"]
      /\ UNCHANGED <<gen, sync, pending, batch, sbatch, settling, lane, queue, wire, txn>>
      /\ target' = target
  BY DEF TryReady, serverVars, txVars
<1> DEFINE r == Requests(s)
<1>2. /\ settling[s] = "No" /\ Len(r) = 0 /\ txn[s] = Nobody /\ pending[s] = 0
      /\ lane[s] = <<>> /\ batch[s] = sbatch[s] /\ r \in Seq(Frames)
  BY <1>0, <1>1, RequestsType DEF SlotInv, WireInv
<1>3. Requests(s)' = r
  BY <1>1 DEF Requests
<1> HIDE DEF r
<1>4. Cardinality(Syncs(r)) = 0 /\ Ended(r)
  <2>1. Syncs(r) = {}
    BY <1>2 DEF Syncs
  <2> QED
    BY <1>2, <2>1, FS_EmptySet DEF Ended
<1>5. (sbatch[s] + 0) % Batches = sbatch[s]
  <2>1. sbatch[s] + 0 = 0 * Batches + sbatch[s] /\ Batches \in Nat /\ Batches > 0
    BY <1>0, PoolAssumption
  <2> QED
    BY <1>0, <2>1, Remainder
<1>6. /\ access'[s] = "Shared" /\ settling'[s] = "No" /\ pending'[s] = 0 /\ txn'[s] = Nobody
      /\ batch'[s] = sbatch[s] /\ sbatch'[s] = sbatch[s] /\ lane'[s] = <<>>
      /\ phase'[s] = "Ready"
  BY <1>0, <1>1, <1>2
<1>7. Free("Shared", r, Nobody, sync'[s])
  BY <1>2, NamesAssumption DEF Free, NoBegin
<1>8. \A h \in Txs : Taken("Shared", r, Nobody, sync'[s], h)
  BY DEF Taken
<1>9. Settling(s)' /\ Begins(s)' /\ Entering(s)'
  BY <1>6 DEF Settling, Begins, Entering
<1>10. ReadyInv(s)'
  <2>1. /\ pending'[s] = Cardinality(Syncs(r)) + (IF settling'[s] = "No" THEN 0 ELSE 1)
        /\ batch'[s] = (sbatch'[s] + pending'[s]) % Batches
    BY <1>4, <1>5, <1>6
  <2> QED
    BY <1>3, <1>4, <1>6, <1>7, <1>8, <1>9, <2>1 DEF ReadyInv
<1>11. WireInv(s)'
  BY <1>6, <1>10 DEF WireInv
<1>12. \A q \in Slot \ {s} : Quiet(q)
  BY <1>0, <1>1 DEF Quiet, Apart, Wired
<1> QED
  BY <1>1, <1>11, <1>12, QuietOthers

LEMMA QuarantineWire ==
    ASSUME PoolInv, LeaseInv, Wires, NEW s \in Slot, Quarantine(s)
    PROVE  Wires'
<1>0. SlotTypes /\ WireInv(s)
  BY DEF PoolInv, PoolTypes, Wires
<1>1. /\ phase[s] \in {"Handshaking", "Ready"} /\ CloseSlot(s)
      /\ UNCHANGED <<sessionVars, lane, queue, serverVars>> /\ target' = target
  BY DEF Quarantine, txVars
<1>2. phase'[s] = "Closing" /\ \A r \in Slot \ {s} : Apart(r)
  BY <1>0, <1>1, ClosesApart
<1>3. \A r \in Slot : Wired(r) /\ session'[r] = session[r] /\ settling'[r] = settling[r]
  BY <1>1 DEF Wired, serverVars, sessionVars
<1>4. WireInv(s)'
  BY <1>0, <1>2, <1>3, QuitWire DEF WireInv
<1>5. \A r \in Slot \ {s} : Quiet(r)
  BY <1>1, <1>2, <1>3 DEF Quiet, sessionVars
<1> QED
  BY <1>1, <1>4, <1>5, QuietOthers

LEMMA ClosingStepWire ==
    ASSUME PoolInv, LeaseInv, Wires, NEW s \in Slot, Cut(s) \/ ClearRecv(s)
    PROVE  Wires'
<1>0. WireInv(s) /\ DOMAIN session = Slot /\ DOMAIN settling = Slot /\ DOMAIN lane = Slot
  BY DEF PoolInv, PoolTypes, SessionTypes, LaneTypes, Wires
<1>1. /\ phase[s] = "Closing" /\ UNCHANGED <<slotVars, sbatch, queue, serverVars>>
      /\ target' = target
      /\ \/ lane' = lane /\ session' = [session EXCEPT ![s] = "Failed"]
            /\ settling' = [settling EXCEPT ![s] = "No"]
         \/ lane' = [lane EXCEPT ![s] = Tail(@)] /\ session' = session /\ settling' = settling
  BY DEF Cut, ClearRecv, txVars, sessionVars
<1>2. \A r \in Slot : Apart(r) /\ Wired(r)
  BY <1>1 DEF Apart, Wired, slotVars, serverVars
<1>3. phase'[s] = "Closing" /\ (session'[s] # "Ready" => settling'[s] = "No")
  BY <1>0, <1>1 DEF slotVars, WireInv
<1>4. WireInv(s)'
  BY <1>0, <1>2, <1>3, QuitWire
<1>5. \A r \in Slot \ {s} : Quiet(r)
  BY <1>0, <1>1, <1>2 DEF Quiet
<1> QED
  BY <1>1, <1>4, <1>5, QuietOthers

LEMMA IsolatedPrefix ==
    ASSUME NEW w \in Seq(Frames), NEW q \in Seq(Frames), NEW t, Isolated(w \o q, t)
    PROVE  Isolated(w \o <<>>, t)
<1> DEFINE x == w \o q
<1>1. /\ Len(x) = Len(w) + Len(q) /\ Len(w) \in Nat /\ Len(q) \in Nat
      /\ \A i \in 1 .. Len(w) + Len(q) : x[i] = IF i <= Len(w) THEN w[i] ELSE q[i - Len(w)]
  BY ConcatProperties
<1>2. w \o <<>> = w
  BY ConcatEmptySeq
<1>3. Isolated(x, t)
  OBVIOUS
<1> HIDE DEF x
<1>4. \A i \in 1 .. Len(w) : i \in 1 .. Len(x) /\ w[i] = x[i]
  BY <1>1
<1>5. \A j \in 1 .. Len(w) : \A i \in 1 .. j - 1 : i \in 1 .. Len(w)
  BY <1>1
<1>6. Isolated(w, t)
  BY <1>3, <1>4, <1>5 DEF Isolated
<1> QED
  BY <1>2, <1>6

LEMMA ClearSendWire ==
    ASSUME PoolInv, LeaseInv, Wires, NEW s \in Slot, ClearSend(s)
    PROVE  Wires'
<1>0. PoolTypes /\ WireInv(s) /\ DOMAIN queue = Slot
  BY DEF PoolInv, PoolTypes, WireTypes, Wires
<1>1. /\ phase[s] = "Closing" /\ queue' = [queue EXCEPT ![s] = <<>>]
      /\ UNCHANGED <<slotVars, sessionVars, lane, serverVars>> /\ target' = target
  BY DEF ClearSend, txVars
<1>2. Isolated(wire[s] \o queue[s], txn[s]) /\ wire[s] \in Seq(Frames) /\ queue[s] \in Seq(Frames)
  BY <1>0, RequestsType, WireIsolated DEF Requests
<1>3. Isolated(wire[s] \o <<>>, txn[s])
  BY <1>2, IsolatedPrefix
<1>4. Requests(s)' = wire[s] \o <<>> /\ txn'[s] = txn[s] /\ phase'[s] = "Closing"
  BY <1>0, <1>1 DEF Requests, slotVars, serverVars
<1>5. Isolated(Requests(s)', txn'[s])
  BY <1>3, <1>4
<1>6. WireInv(s)'
  BY <1>0, <1>1, <1>4, <1>5, ClosingWire DEF sessionVars, WireInv
<1>7. \A r \in Slot \ {s} : Quiet(r)
  BY <1>0, <1>1 DEF Quiet, Apart, Wired, slotVars, sessionVars, serverVars
<1> QED
  BY <1>1, <1>6, <1>7, QuietOthers

LEMMA DeactivateWire ==
    ASSUME PoolInv, LeaseInv, Wires, NEW s \in Slot, Deactivate(s)
    PROVE  Wires'
<1>0. WireInv(s) /\ DOMAIN phase = Slot /\ DOMAIN wire = Slot /\ DOMAIN txn = Slot
  BY DEF PoolInv, PoolTypes, SlotTypes, WireTypes, Wires
<1>1. /\ session[s] = "Failed" /\ queue[s] = <<>> /\ phase' = [phase EXCEPT ![s] = "Vacant"]
      /\ wire' = [wire EXCEPT ![s] = <<>>] /\ txn' = [txn EXCEPT ![s] = Nobody]
      /\ UNCHANGED <<gen, access, seq, sync, pending, batch, sessionVars, lane, queue>>
      /\ target' = target
  BY DEF Deactivate, txVars
<1>2. Requests(s)' = <<>> \o <<>> /\ txn'[s] = Nobody /\ phase'[s] = "Vacant"
  BY <1>0, <1>1 DEF Requests
<1>3. Len(<<>> \o <<>>) = 0
  BY EmptySeq, ConcatEmptySeq
<1>4. WireInv(s)'
  BY <1>0, <1>1, <1>2, <1>3 DEF WireInv, sessionVars
<1>5. \A r \in Slot \ {s} : Quiet(r)
  BY <1>0, <1>1 DEF Quiet, Apart, Wired, sessionVars
<1> QED
  BY <1>1, <1>4, <1>5, QuietOthers

-----------------------------------------------------------------------------
(* Transactions that begin and end *)

LEMMA BeginRefusedWire ==
    ASSUME PoolInv, LeaseInv, Wires, NEW h, NEW s \in Slot, BeginRefused(h, s)
    PROVE  Wires'
<1>0. PoolTypes /\ TxTypes /\ SlotTypes /\ WireInv(s) /\ DOMAIN seq = Slot
  BY DEF PoolInv, PoolTypes, SlotTypes, Wires
<1>1. /\ Listed(s) /\ NextSequence(seq[s]) # 0 /\ seq' = [seq EXCEPT ![s] = NextSequence(@)]
      /\ UNCHANGED <<phase, gen, access, sync, pending, batch, sessionVars, lane, queue, serverVars>>
      /\ target' = target
  BY DEF BeginRefused, PicksBegin, txVars
<1>2. phase[s] = "Ready" /\ seq'[s] = seq[s] + 1
  BY <1>0, <1>1, ListedShared, SequenceAhead DEF SlotTypes
<1>3. ASSUME NEW g \in Txs, target[g] = Id(s)' PROVE FALSE
  <2>1. target[g].slot = s /\ target[g].gen = gen[s] /\ target[g].seq = seq[s] + 1
    BY <1>1, <1>2, <1>3 DEF Id
  <2>2. target[g] # NoTarget
    <3>1. s \in 0 .. Conns - 1 /\ NoTarget.slot = -1
      BY DEF Slot, NoTarget
    <3> QED
      BY <2>1, <3>1, PoolAssumption
  <2> QED
    BY <1>0, <2>1, <2>2, NoLeaseAhead
<1>4. ReadyInv(s) /\ Requests(s)' = Requests(s)
  BY <1>0, <1>1, <1>2 DEF WireInv, Requests, serverVars
<1>5. ReadyInv(s)'
  BY <1>1, <1>3, <1>4, ReadyKept DEF sessionVars, serverVars
<1>6. WireInv(s)'
  BY <1>0, <1>1, <1>2, <1>5 DEF WireInv, sessionVars
<1>7. \A r \in Slot \ {s} : Quiet(r)
  BY <1>0, <1>1 DEF Quiet, Apart, Wired, sessionVars, serverVars
<1> QED
  BY <1>1, <1>6, <1>7, QuietOthers

LEMMA BeginDrainsWire ==
    ASSUME PoolInv, LeaseInv, Wires, NEW h, NEW s \in Slot, BeginDrains(h, s)
    PROVE  Wires'
<1>0. PoolTypes /\ SlotTypes /\ WireInv(s) /\ DOMAIN access = Slot
  BY DEF PoolInv, PoolTypes, SlotTypes, Wires
<1>1. Listed(s) /\ UNCHANGED <<sessionVars, lane, queue, serverVars>> /\ target' = target
  BY DEF BeginDrains, PicksBegin, txVars
<1>2. phase[s] = "Ready" /\ access[s] = "Shared"
  BY <1>1, ListedShared
<1>3. \A r \in Slot : Wired(r) /\ session'[r] = session[r] /\ settling'[r] = settling[r]
  BY <1>1 DEF Wired, serverVars, sessionVars
<1>4. CASE CloseSlot(s)
  <2>1. phase'[s] = "Closing" /\ \A r \in Slot \ {s} : Apart(r)
    BY <1>0, <1>2, <1>4, ClosesApart
  <2>2. WireInv(s)'
    BY <1>0, <1>3, <2>1, QuitWire DEF WireInv
  <2>3. \A r \in Slot \ {s} : Quiet(r)
    BY <1>1, <1>3, <2>1 DEF Quiet, sessionVars
  <2> QED
    BY <1>1, <2>2, <2>3, QuietOthers
<1>5. CASE /\ access' = [access EXCEPT ![s] = "Draining"]
           /\ UNCHANGED <<phase, gen, seq, sync, pending, batch>>
  <2> DEFINE r == Requests(s)
             t == txn[s]
  <2>1. /\ pending[s] = Cardinality(Syncs(r)) + (IF settling[s] = "No" THEN 0 ELSE 1)
        /\ batch[s] = (sbatch[s] + pending[s]) % Batches
        /\ sync[s] = "Synced" => Ended(r)
        /\ Settling(s) /\ Begins(s) /\ Free("Shared", r, t, sync[s])
    BY <1>0, <1>2 DEF WireInv, ReadyInv
  <2>2. access'[s] = "Draining" /\ Requests(s)' = r /\ txn'[s] = t /\ sbatch'[s] = sbatch[s]
    BY <1>0, <1>1, <1>3, <1>5, SameRequests DEF Wired, sessionVars
  <2>3. Settling(s)' /\ Begins(s)' /\ Entering(s)'
    BY <1>1, <1>2, <1>3, <2>1, <2>2 DEF Settling, Begins, Entering
  <2> HIDE DEF r, t
  <2>4. Free("Draining", r, t, sync[s]) /\ \A g \in Txs : Taken("Draining", r, t, sync[s], g)
    BY <2>1 DEF Free, Taken
  <2>5. ReadyInv(s)'
    <3>1. sync'[s] = sync[s] /\ pending'[s] = pending[s] /\ batch'[s] = batch[s]
          /\ settling'[s] = settling[s]
      BY <1>3, <1>5
    <3> QED
      BY <2>1, <2>2, <2>3, <2>4, <3>1 DEF ReadyInv
  <2>6. WireInv(s)'
    BY <1>0, <1>2, <1>3, <1>5, <2>5 DEF WireInv
  <2>7. \A q \in Slot \ {s} : Quiet(q)
    BY <1>0, <1>1, <1>3, <1>5 DEF Quiet, Apart, sessionVars
  <2> QED
    BY <1>1, <2>6, <2>7, QuietOthers
<1> QED
  BY <1>4, <1>5 DEF BeginDrains

(* A lease is given up. *)
LEMMA LeftWire ==
    ASSUME PoolInv, Wires, NEW h \in Txs, target' = [target EXCEPT ![h] = NoTarget],
           \A r \in Slot : Quiet(r) \/ WireInv(r)'
    PROVE  Wires'
<1>0. TxTypes /\ DOMAIN target = Txs
  BY DEF PoolInv, PoolTypes, TxTypes
<1>1. ASSUME NEW r \in Slot, Quiet(r) PROVE WireInv(r)'
  <2>1. Id(r)' = Id(r) /\ Id(r) # NoTarget
    BY <1>0, <1>1, LeaseOf DEF Quiet, Apart, Id
  <2>2. \A g \in Txs : target'[g] = Id(r)' => target[g] = Id(r)
    BY <1>0, <2>1
  <2> QED
    BY <1>1, <2>2, QuietWire DEF Wires
<1> QED
  BY <1>1 DEF Wires

LEMMA AbortWire ==
    ASSUME PoolInv, LeaseInv, Wires, NEW h \in Txs, NEW states, Abort(h, states)
    PROVE  Wires'
<1>1. /\ target' = [target EXCEPT ![h] = NoTarget]
      /\ UNCHANGED <<sessionVars, lane, queue, serverVars>>
  BY DEF Abort
<1>2. \A r \in Slot : phase'[r] = "Closing" \/ Apart(r)
  BY AbortApart
<1>3. \A r \in Slot : Wired(r) /\ session'[r] = session[r] /\ settling'[r] = settling[r]
  BY <1>1 DEF Wired, serverVars, sessionVars
<1>4. ASSUME NEW r \in Slot, phase'[r] = "Closing" PROVE WireInv(r)'
  <2>1. WireInv(r)
    BY DEF Wires
  <2> QED
    BY <1>3, <1>4, <2>1, QuitWire DEF WireInv
<1>5. ASSUME NEW r \in Slot, Apart(r) PROVE Quiet(r)
  BY <1>1, <1>3, <1>5 DEF Quiet, sessionVars
<1> QED
  BY <1>1, <1>2, <1>4, <1>5, LeftWire

LEMMA FinishDoneWire ==
    ASSUME PoolInv, LeaseInv, Wires, NEW h \in Txs, FinishDone(h)
    PROVE  Wires'
<1>1. /\ target' = [target EXCEPT ![h] = NoTarget]
      /\ UNCHANGED <<slotVars, sessionVars, lane, queue, serverVars>>
  BY DEF FinishDone
<1>2. \A r \in Slot : Quiet(r)
  BY <1>1 DEF Quiet, Apart, Wired, slotVars, sessionVars, serverVars
<1> QED
  BY <1>1, <1>2, LeftWire

LEMMA RestWire ==
    ASSUME Wires, UNCHANGED <<slotVars, sessionVars, lane, queue, serverVars, target>>
    PROVE  Wires'
<1>1. \A r \in Slot : Quiet(r) /\ Id(r)' = Id(r) /\ target' = target
  BY DEF Quiet, Apart, Wired, Id, slotVars, sessionVars, serverVars
<1>2. ASSUME NEW r \in Slot PROVE WireInv(r)'
  BY <1>1, QuietWire DEF Wires
<1> QED
  BY <1>2 DEF Wires

LEMMA BeginDoneWire ==
    ASSUME PoolInv, LeaseInv, Wires, NEW h \in Txs, BeginDone(h)
    PROVE  Wires'
<1>1. CASE UNCHANGED <<slotVars, sessionVars, lane, queue, serverVars, target>>
  BY <1>1, RestWire
<1>2. CASE Abort(h, {"Reserved", "Held"})
  BY <1>2, AbortWire
<1> QED
  BY <1>1, <1>2 DEF BeginDone

LEMMA BeginWire ==
    ASSUME PoolInv, PoolInv', LeaseInv, Wires, NEW h \in Txs, NEW s \in Slot, Begin(h, s)
    PROVE  Wires'
<1>0. /\ PoolTypes /\ PoolTypes' /\ TxTypes /\ WireInv(s) /\ DOMAIN access = Slot
      /\ DOMAIN seq = Slot /\ DOMAIN target = Txs
      /\ sync[s] \in {"Synced", "Automatic", "Explicit"}
  BY DEF PoolInv, PoolTypes, SlotTypes, TxTypes, Wires
<1>1. /\ sync[s] # "Automatic" /\ Publish(s, h, "Begin", "Begin", TRUE, Detach(index, s))
      /\ UNCHANGED <<serverVars, sessionVars>>
  BY DEF Begin, PicksBegin
<1>2. /\ phase[s] = "Ready" /\ access[s] = "Shared"
      /\ access' = [access EXCEPT ![s] = "Reserved"]
      /\ seq' = [seq EXCEPT ![s] = seq[s] + 1] /\ phase' = phase /\ gen' = gen
      /\ target' = [target EXCEPT ![h] = Id(s)']
      /\ \A g \in Txs : target[g] # Id(s)'
  BY BeginTakes
<1> DEFINE f == Frame(h, "Begin", TRUE)
           ix == Detach(index, s)
<1>3. Closes("Begin") = TRUE /\ Kind("Begin") = "Begin"
  BY DEF Closes, Kind
<1>4. /\ Publish(s, h, "Begin", "Begin", TRUE, ix)
      /\ h \in Calls \cup Txs /\ "Begin" \in {"Begin", "Stmt", "Copy", "Commit", "Rollback"}
      /\ "Begin" \in {"Close", "Open", "External", "Begin", "Commit"}
  BY <1>1
<1> HIDE DEF ix
<1>5. /\ Adds(s, Frame(h, "Begin", Closes("Begin"))) /\ Replied(s, Kind("Begin"))
      /\ sync'[s] = NextSync(sync[s], "Begin") /\ sync'[s] # "None"
      /\ \A r \in Slot \ {s} : Aside(r)
  BY <1>1, <1>4, PublishAdds
<1>6. Adds(s, f) /\ Replied(s, "Begin") /\ sync[s] = "Synced" /\ sync'[s] = "Synced"
  BY <1>0, <1>1, <1>3, <1>5 DEF NextSync
<1> DEFINE r == Requests(s)
           new == Requests(s)'
           t == txn[s]
<1>7. /\ Free("Shared", r, t, "Synced") /\ Ended(r) /\ Settling(s) /\ Begins(s)
      /\ settling[s] # "Transaction"
  BY <1>0, <1>2, <1>6 DEF WireInv, ReadyInv, Settling
<1>8. r \in Seq(Frames) /\ new \in Seq(Frames) /\ Gains(r, new, f)
  BY <1>0, <1>6, RequestsType, RequestsNext DEF Adds
<1>9. access'[s] = "Reserved" /\ settling'[s] = settling[s] /\ txn'[s] = t
  BY <1>0, <1>2, <1>6 DEF Adds
<1>10. Begins(s)' /\ Settling(s)' /\ Entering(s)'
  <2>1. Begins(s)'
    BY <1>0, <1>2, <1>6, <1>7, <1>9, RepliedBegins
  <2> QED
    BY <1>7, <1>9, <2>1 DEF Settling, Entering
<1> HIDE DEF f, r, new, t
<1>11. Taken("Reserved", new, t, "Synced", h)
  BY <1>7, <1>8, BeginGained DEF f
<1>12. \A g \in Txs : target'[g] = Id(s)' => g = h
  BY <1>0, <1>2
<1>13. Free("Reserved", new, t, "Synced")
  BY DEF Free
<1>14. /\ Free(access'[s], Requests(s)', txn[s], sync'[s])
       /\ \A g \in Txs : target'[g] = Id(s)' => Taken(access'[s], Requests(s)', txn[s], sync'[s], g)
  BY <1>6, <1>9, <1>11, <1>12, <1>13 DEF new, t
<1>15. WireInv(s)'
  BY <1>0, <1>2, <1>6, <1>9, <1>10, <1>14, AddedWire
<1>16. ASSUME NEW q \in Slot \ {s} PROVE WireInv(q)'
  <2>1. Quiet(q) /\ Id(q)' = Id(q)
    BY <1>0, <1>2, <1>5 DEF Quiet, Apart, Aside, Id
  <2>2. Id(s)' # Id(q)
    <3>1. Id(s)'.slot = s /\ Id(q).slot = q
      BY DEF Id
    <3> QED
      BY <3>1
  <2>3. \A g \in Txs : target'[g] = Id(q)' => target[g] = Id(q)
    BY <1>0, <1>2, <2>1, <2>2
  <2> QED
    BY <2>1, <2>3, QuietWire DEF Wires
<1> QED
  BY <1>15, <1>16 DEF Wires

LEMMA FinishWire ==
    ASSUME PoolInv, PoolInv', LeaseInv, Wires, NEW h \in Txs, NEW end \in {"Commit", "Rollback"},
           Finish(h, end)
    PROVE  Wires'
<1> DEFINE b == IF end = "Commit" THEN "Commit" ELSE "Close"
<1>1. /\ Current(h, {"Held"}) /\ Load(target[h].slot) = 0
      /\ access' = [access EXCEPT ![target[h].slot] = "Finalizing"]
      /\ Publish(target[h].slot, h, end, b, TRUE, index)
      /\ UNCHANGED <<phase, gen, seq, sessionVars, serverVars, target>>
  BY DEF Finish
<1>2. PICK s \in Slot : /\ target[h] = Id(s) /\ target[h].slot = s
                        /\ phase[s] = "Ready" /\ access[s] \in {"Held"}
  BY <1>1, CurrentSlot
<1>3. /\ PoolTypes /\ PoolTypes' /\ TxTypes /\ WireInv(s) /\ DOMAIN access = Slot
      /\ sync[s] \in {"Synced", "Automatic", "Explicit"} /\ pending[s] \in Nat
      /\ Len(lane[s]) \in Nat
  BY RequestsType DEF PoolInv, PoolTypes, SlotTypes, Wires
<1>4. /\ b \in {"Close", "Open", "External", "Begin", "Commit"} /\ b # "Begin" /\ h \in Calls \cup Txs
      /\ end \in {"Begin", "Stmt", "Copy", "Commit", "Rollback"} /\ end # "Begin"
      /\ Publish(s, h, end, b, TRUE, index) /\ Closes(b) = TRUE /\ Kind(b) # "Begin"
      /\ NextSync(sync[s], b) \in {"Synced", "None"} /\ UNCHANGED <<serverVars, sessionVars>>
  BY <1>1, <1>2 DEF Closes, Kind, NextSync
<1>5. pending[s] = 0 /\ Len(lane[s]) = 0 /\ sync[s] = "Synced"
  BY <1>1, <1>2, <1>3 DEF Load, Barriers
<1> DEFINE ends == TRUE
<1>p. /\ PoolInv /\ s \in Slot /\ h \in Calls \cup Txs /\ (end = "Begin" => h \in Txs)
      /\ end \in {"Begin", "Stmt", "Copy", "Commit", "Rollback"}
      /\ b \in {"Close", "Open", "External", "Begin", "Commit"}
      /\ Publish(s, h, end, b, ends, index) /\ UNCHANGED <<serverVars, sessionVars>>
  BY <1>4
<1> HIDE DEF b, ends
<1> DEFINE f == Frame(h, end, TRUE)
           r == Requests(s)
           new == Requests(s)'
           t == txn[s]
<1>6. /\ Adds(s, Frame(h, end, Closes(b))) /\ Replied(s, Kind(b))
      /\ sync'[s] = NextSync(sync[s], b) /\ sync'[s] # "None"
      /\ \A q \in Slot \ {s} : Aside(q)
  BY ONLY <1>p, PublishAdds
<1>7. Adds(s, f) /\ f.sync = TRUE /\ f.does # "Begin" /\ f.by = h /\ sync'[s] = "Synced"
  BY <1>4, <1>6 DEF Frame
<1> HIDE DEF f
<1>8. pending'[s] = 1 /\ settling'[s] = settling[s] /\ txn'[s] = t
  BY <1>5, <1>7 DEF Adds
<1>9. r \in Seq(Frames) /\ new \in Seq(Frames) /\ Gains(r, new, f)
  BY <1>3, <1>7, RequestsType, RequestsNext DEF Adds
<1>10. /\ Taken("Held", r, t, "Synced", h) /\ Begins(s) /\ settling[s] = "No"
  <2>1. /\ pending[s] = Cardinality(Syncs(r)) + (IF settling[s] = "No" THEN 0 ELSE 1)
        /\ Taken("Held", r, t, "Synced", h) /\ Begins(s)
    BY <1>2, <1>3, <1>5 DEF WireInv, ReadyInv
  <2>2. Cardinality(Syncs(r)) \in Nat
    BY <1>9, SyncsFinite
  <2> QED
    BY <1>5, <2>1, <2>2
<1>11. access'[s] = "Finalizing" /\ phase'[s] = "Ready" /\ Id(s)' = Id(s) /\ target' = target
  BY <1>1, <1>2, <1>3 DEF Id
<1>12. Begins(s)' /\ Settling(s)' /\ Entering(s)'
  <2>1. Begins(s)'
    BY <1>2, <1>3, <1>4, <1>6, <1>10, RepliedBegins
  <2> QED
    BY <1>8, <1>10, <1>11, <2>1 DEF Settling, Entering
<1> HIDE DEF r, new, t
<1>13. "Finalizing" \in {"Held", "Finalizing"} /\ f.by \in {h, Nobody}
  BY <1>7
<1>14. Taken("Finalizing", new, t, "Synced", h) /\ Free("Finalizing", new, t, "Synced")
  <2>1. Taken("Finalizing", new, t, "Synced", h)
    BY <1>7, <1>9, <1>10, <1>13, TakenGained
  <2> QED
    BY <2>1 DEF Free
<1>15. \A g \in Txs : target[g] = Id(s) => g = h
  BY <1>2, <1>3, LeaseOf DEF LeaseInv
<1>16. /\ Free(access'[s], Requests(s)', txn[s], sync'[s])
       /\ \A g \in Txs : target'[g] = Id(s)' => Taken(access'[s], Requests(s)', txn[s], sync'[s], g)
  BY <1>7, <1>11, <1>14, <1>15 DEF new, t
<1>17. WireInv(s)'
  BY <1>2, <1>3, <1>7, <1>8, <1>11, <1>12, <1>16, AddedWire
<1>18. \A q \in Slot \ {s} : Quiet(q)
  BY <1>1, <1>2, <1>3, <1>6 DEF Quiet, Apart, Aside
<1> QED
  BY <1>11, <1>17, <1>18, QuietOthers

-----------------------------------------------------------------------------
(* The theorems *)

LEMMA InitWires == Init => Wires
<1> SUFFICES ASSUME Init, NEW s \in Slot PROVE WireInv(s)
  BY DEF Wires
<1>1. /\ settling[s] = "No" /\ phase[s] = "Vacant" /\ txn[s] = Nobody
      /\ wire[s] = <<>> /\ queue[s] = <<>>
  BY DEF Init
<1>2. Len(<<>> \o <<>>) = 0
  BY EmptySeq, ConcatEmptySeq
<1> QED
  BY <1>1, <1>2 DEF WireInv, Requests

LEMMA StepWires ==
    ASSUME PoolInv, PoolInv', LeaseInv, Wires, ~Rogue, [Next]_vars
    PROVE  Wires'
<1>1. CASE UNCHANGED vars
  BY <1>1, RestWire DEF vars, txVars
<1>2. ASSUME NEW s \in Slot, Bind(s) \/ TryReady(s) \/ Quarantine(s) \/ Cut(s) PROVE Wires'
  BY <1>2, BindWire, TryReadyWire, QuarantineWire, ClosingStepWire
<1>3. ASSUME NEW s \in Slot, ClearRecv(s) \/ ClearSend(s) \/ Deactivate(s) PROVE Wires'
  BY <1>3, ClosingStepWire, ClearSendWire, DeactivateWire
<1>4. ASSUME NEW s \in Slot, CopyFinish(s) \/ Drain(s) PROVE Wires'
  BY <1>4, CopyFinishWire, DrainWire
<1>5. ASSUME NEW s \in Slot, NEW input, Flush(s, input) PROVE Wires'
  BY <1>5, FlushWire
<1>6. ASSUME NEW s \in Slot, Discard(s) \/ ReadyForQuery(s) PROVE Wires'
  BY <1>6, DiscardWire, ReadyForQueryWire
<1>7. ASSUME NEW s \in Slot, SettleSkipped(s) \/ SettleDone(s) \/ SettleFails(s) PROVE Wires'
  BY <1>7, SettleSkippedWire, SettleDoneWire, SettleFailsWire
<1>8. ASSUME NEW s \in Slot, NEW tag, CommandComplete(s, tag) \/ RogueComplete(s, tag) PROVE Wires'
  BY <1>8, CommandCompleteWire DEF RogueComplete
<1>9. ASSUME NEW s \in Slot, NEW scope, ErrorResponse(s, scope) \/ RogueError(s, scope) PROVE Wires'
  BY <1>9, ErrorResponseWire DEF RogueError
<1>10. ASSUME NEW s \in Slot, NEW status, RogueReady(s, status) PROVE Wires'
  BY <1>10 DEF RogueReady
<1>11. ASSUME NEW s \in Slot, NEW c \in Calls, NEW b \in Boundaries, Call(c, s, b) PROVE Wires'
  BY <1>11, CallWire
<1>12. ASSUME NEW s \in Slot, NEW h \in Txs,
              Begin(h, s) \/ BeginRefused(h, s) \/ BeginDrains(h, s)
       PROVE  Wires'
  BY <1>12, BeginWire, BeginRefusedWire, BeginDrainsWire
<1>13. ASSUME NEW h \in Txs, BeginDone(h) \/ FinishDone(h) \/ DropTx(h) PROVE Wires'
  BY <1>13, BeginDoneWire, FinishDoneWire, AbortWire DEF DropTx
<1>14. ASSUME NEW h \in Txs, NEW b \in Boundaries, TxCall(h, b) PROVE Wires'
  BY <1>14, TxCallWire
<1>15. ASSUME NEW h \in Txs, NEW end \in {"Commit", "Rollback"}, Finish(h, end) PROVE Wires'
  BY <1>15, FinishWire
<1> QED
  BY <1>1, <1>2, <1>3, <1>4, <1>5, <1>6, <1>7, <1>8, <1>9, <1>10, <1>11, <1>12, <1>13, <1>14,
     <1>15 DEF Next

(* The invariant of the requests: of a server that answers what it was     *)
(* sent, whatever the text of the commands does to its transaction.        *)
THEOREM RequestsInvariant == Spec => [](PoolInv /\ LeaseInv /\ RequestsInv)
<1>1. Init => PoolInv /\ LeaseInv /\ RequestsInv
  BY InitPool, InitLease, InitWires DEF RequestsInv, Wires
<1>2. PoolInv /\ LeaseInv /\ RequestsInv /\ [Next]_vars => (PoolInv /\ LeaseInv /\ RequestsInv)'
  <2> SUFFICES ASSUME PoolInv, LeaseInv, RequestsInv, [Next]_vars
               PROVE  (PoolInv /\ LeaseInv /\ RequestsInv)'
    OBVIOUS
  <2>1. PoolInv'
    BY StepPool
  <2>2. LeaseInv'
    BY <2>1, StepLease
  <2>3. ASSUME ~Rogue PROVE Wires'
    BY <2>1, <2>3, StepWires DEF RequestsInv, Wires
  <2>4. RequestsInv'
    BY <2>3 DEF RequestsInv, Wires
  <2> QED
    BY <2>1, <2>2, <2>4
<1> QED
  BY <1>1, <1>2, PTL DEF Spec

LEMMA SyncsAreCounted ==
    ASSUME PoolInv, Wires
    PROVE  SyncsCounted
<1> SUFFICES ASSUME NEW s \in Slot, phase[s] = "Ready"
             PROVE  /\ pending[s] = Cardinality({i \in DOMAIN Requests(s) : Requests(s)[i].sync})
                                        + (IF settling[s] = "No" THEN 0 ELSE 1)
                    /\ batch[s] = (sbatch[s] + pending[s]) % Batches
  BY DEF SyncsCounted
<1> DEFINE r == Requests(s)
<1>1. r \in Seq(Frames) /\ ReadyInv(s)
  BY RequestsType DEF PoolInv, Wires, WireInv
<1>2. DOMAIN r = 1 .. Len(r)
  BY <1>1
<1>3. {i \in DOMAIN r : r[i].sync} = Syncs(r)
  BY <1>2 DEF Syncs
<1> QED
  BY <1>1, <1>3 DEF ReadyInv

(* SyncsCounted, for any number of connections, commands and transactions, *)
(* if the server answers what it was sent: the Syncs the pool waits for    *)
(* are those queued, sent or being settled, and the batches of the slot    *)
(* and of its session are that far apart, through every wrap.              *)
THEOREM SyncsCountedCorrect == ~Rogue => (Spec => []SyncsCounted)
<1>1. ASSUME ~Rogue PROVE PoolInv /\ LeaseInv /\ RequestsInv => SyncsCounted
  BY <1>1, SyncsAreCounted DEF RequestsInv, Wires
<1>2. ASSUME ~Rogue PROVE Spec => []SyncsCounted
  <2>1. PoolInv /\ LeaseInv /\ RequestsInv => SyncsCounted
    BY <1>1, <1>2
  <2> QED
    BY <2>1, RequestsInvariant, PTL
<1> QED
  BY <1>2

LEMMA TxsAreIsolated ==
    ASSUME PoolInv, LeaseInv, Wires
    PROVE  TxIsolation
<1> SUFFICES ASSUME NEW s \in Slot, NEW j \in DOMAIN Requests(s)
             PROVE  /\ txn[s] \in Txs => Requests(s)[j].by \in {txn[s], Nobody}
                    /\ \A i \in 1 .. j - 1 : Requests(s)[i].does = "Begin" =>
                           Requests(s)[j].by \in {Requests(s)[i].by, Nobody}
  BY DEF TxIsolation
<1> DEFINE r == Requests(s)
<1>1. r \in Seq(Frames) /\ Isolated(r, txn[s])
  BY RequestsType, WireIsolated DEF PoolInv, Wires
<1>2. j \in 1 .. Len(r)
  BY <1>1
<1> QED
  BY <1>1, <1>2 DEF Isolated

(* TxIsolation, if the server answers what it was sent: while it is in the *)
(* transaction of h, or will be once it reads a BEGIN on its way, every    *)
(* request that follows is of h; even if the text of a command ends the    *)
(* transaction or opens one.                                               *)
THEOREM TxIsolationCorrect == ~Rogue => (Spec => []TxIsolation)
<1>1. ASSUME ~Rogue PROVE PoolInv /\ LeaseInv /\ RequestsInv => TxIsolation
  BY <1>1, TxsAreIsolated DEF RequestsInv, Wires
<1>2. ASSUME ~Rogue PROVE Spec => []TxIsolation
  <2>1. PoolInv /\ LeaseInv /\ RequestsInv => TxIsolation
    BY <1>1, <1>2
  <2> QED
    BY <2>1, RequestsInvariant, PTL
<1> QED
  BY <1>2

LEMMA StatusesAgree ==
    ASSUME PoolInv, LeaseInv, Wires
    PROVE  StatusAgrees
<1> SUFFICES ASSUME NEW s \in Slot, phase[s] = "Ready", Load(s) = 0
             PROVE  /\ access[s] = "Shared" => txn[s] = Nobody
                    /\ \A h \in Txs : stage[h] = "Open" /\ target[h] = Id(s) => txn[s] = h
  BY DEF StatusAgrees
<1> DEFINE r == Requests(s)
           t == txn[s]
<1>0. /\ r \in Seq(Frames) /\ ReadyInv(s) /\ Held(s) /\ pending[s] \in Nat /\ Len(lane[s]) \in Nat
      /\ sync[s] \in {"Synced", "Automatic", "Explicit"}
  BY RequestsType DEF PoolInv, PoolTypes, SlotTypes, Wires, WireInv, LeaseInv
<1>1. pending[s] = 0 /\ sync[s] = "Synced"
  BY <1>0 DEF Load, Barriers
<1>2. /\ pending[s] = Cardinality(Syncs(r)) + (IF settling[s] = "No" THEN 0 ELSE 1) /\ Ended(r)
      /\ Free(access[s], r, t, "Synced")
      /\ \A h \in Txs : target[h] = Id(s) => Taken(access[s], r, t, "Synced", h)
  BY <1>0, <1>1 DEF ReadyInv
<1> HIDE DEF r, t
<1>3. Cardinality(Syncs(r)) \in Nat
  BY <1>0, SyncsFinite
<1>4. Cardinality(Syncs(r)) = 0
  BY <1>1, <1>2, <1>3
<1>5. Len(r) = 0
  BY <1>0, <1>2, <1>4, NoSyncs
<1>6. access[s] = "Shared" => t = Nobody
  BY <1>2, <1>5 DEF Free
<1>7. ASSUME NEW h \in Txs, stage[h] = "Open", target[h] = Id(s) PROVE t = h
  <2>1. access[s] = "Held"
    BY <1>0, <1>7 DEF Held
  <2> QED
    BY <1>2, <1>5, <1>7, <2>1 DEF Taken
<1> QED
  BY <1>6, <1>7 DEF t

(* HoldersAgree, if the server answers what it was sent: a connection off  *)
(* the index has exactly one holder, and once nothing is due on it the     *)
(* server is in that holder's transaction, or in none if the connection is *)
(* shared; whatever the text of the commands before did.                   *)
THEOREM HoldersAgreeCorrect == ~Rogue => (Spec => []HoldersAgree)
<1>1. ASSUME ~Rogue PROVE PoolInv /\ LeaseInv /\ RequestsInv => HoldersAgree
  BY <1>1, StatusesAgree, LeaseIsBacked DEF RequestsInv, Wires, HoldersAgree
<1>2. ASSUME ~Rogue PROVE Spec => []HoldersAgree
  <2>1. PoolInv /\ LeaseInv /\ RequestsInv => HoldersAgree
    BY <1>1, <1>2
  <2> QED
    BY <2>1, RequestsInvariant, PTL
<1> QED
  BY <1>2

-----------------------------------------------------------------------------
(* What a server that keeps to the protocol is understood by: the replies  *)
(* in the lane are those of the requests on their way                      *)

(* What the server has still to answer, with the Sync being settled.       *)
Due(s) == (IF settling[s] = "No" THEN <<>> ELSE <<SyncFrame>>) \o Requests(s)

(* Reply e is due for request f.                                           *)
Suits(e, f) ==
    /\ e.by = f.by
    /\ e.kind = "Command" <=> ~f.sync /\ f.does # "Copy"
    /\ e.kind = "Begin" <=> f.does = "Begin"

(* at numbers the batches along the requests r, from a to b; up counts the *)
(* replies, from the k that are left of requests already run to all n.     *)
Number(b, f) == IF f.sync THEN NextBatch(b) ELSE b
Numbered(r, at, a, b) ==
    /\ at \in [1 .. Len(r) + 1 -> 0 .. Batches - 1] /\ at[1] = a /\ at[Len(r) + 1] = b
    /\ \A j \in 1 .. Len(r) : at[j + 1] = Number(at[j], r[j])
Count(c, f) == IF f.does = "Sync" THEN c ELSE c + 1
Upto(r, up, k, n) ==
    /\ up \in [1 .. Len(r) + 1 -> Nat] /\ up[1] = k /\ up[Len(r) + 1] = n
    /\ \A j \in 1 .. Len(r) : up[j + 1] = Count(up[j], r[j])
    /\ \A i, j \in 1 .. Len(r) + 1 : i <= j => up[i] <= up[j]

(* Request j is met by the reply after the first up[j], of its batch.      *)
Met(r, at, up, ln) ==
    \A j \in 1 .. Len(r) : r[j].does # "Sync" =>
        Suits(ln[up[j] + 1], r[j]) /\ ln[up[j] + 1].batch = at[j]
Left(ln, k, a) == \A i \in 1 .. k : ln[i].batch = a

Matched(r, ln, n, k, a, b) ==
    /\ Left(ln, k, a)
    /\ \E at, up : Numbered(r, at, a, b) /\ Upto(r, up, k, n) /\ Met(r, at, up, ln)

(* A Sync of its own closes a batch that has requests, and a COPY is       *)
(* followed by nothing else; also for what will be added to a pipeline in  *)
(* state sy.                                                               *)
Shaped(r) ==
    \A j \in 1 .. Len(r) - 1 :
        /\ r[j].sync => r[j + 1].does # "Sync"
        /\ r[j].does = "Copy" => r[j + 1].does = "Sync"
Open(r, sy, sk) ==
    /\ Len(r) > 0 /\ r[Len(r)].sync => sy = "Synced"
    /\ Len(r) > 0 /\ r[Len(r)].does = "Copy" => sy = "Explicit"
    /\ Len(r) = 0 /\ sk => sy # "Synced"

(* What the session has made of the answers so far: k replies are of       *)
(* requests the server has run.                                            *)
AtSync(r) == Len(r) > 0 /\ r[1] = SyncFrame
Reading(r, ln, k, pr, sk, st) ==
    /\ pr = "Running" => k = 0
    /\ pr = "Complete" => k = 1 /\ ln[1].kind # "Command" /\ AtSync(r)
    /\ pr = "Skipping" => sk \/ AtSync(r)
    /\ sk => pr = "Skipping" /\ st = "No"

Followed(r, ln, a, b, pr, sk, st) ==
    /\ Shaped(r)
    /\ \E k \in 0 .. Len(ln) :
          Matched(r, ln, Len(ln), k, a, b) /\ Reading(r, ln, k, pr, sk, st)

(* The transaction of the server, when no text of a command changes it.    *)
Ends(r) == \E j \in 1 .. Len(r) : r[j].does \in {"Commit", "Rollback"}
Final(r, t) ==
    /\ Len(r) = 1 /\ r[1].sync
    /\ r[1].does \in {"Commit", "Rollback"} \/ (r[1] = SyncFrame /\ t = Nobody)
Inside(a, r, t, pr, ln) ==
    /\ a = "Held" => t # Nobody
    /\ a = "Finalizing" => Final(r, t)
    /\ a # "Finalizing" => ~Ends(r)
    /\ a = "Reserved" /\ t # Nobody => pr = "Complete" /\ ln[1].kind = "Begin"

Follows(s) ==
    /\ session[s] = "Startup" => progress[s] = "Running"
    /\ phase[s] \in {"Vacant", "Handshaking"} => skip[s] = FALSE
    /\ txn[s] # "Stray"
    /\ session[s] = "Ready" =>
          \E b \in 0 .. Batches - 1 :
              /\ Followed(Due(s), lane[s], sbatch[s], b, progress[s], skip[s], settling[s])
              /\ phase[s] = "Ready" => b = batch[s]
    /\ phase[s] = "Ready" =>
          /\ session[s] = "Ready"
          /\ Open(Due(s), sync[s], skip[s])
          /\ access[s] = "Finalizing" => skip[s] = FALSE
          /\ Inside(access[s], Due(s), txn[s], progress[s], lane[s])

FollowsInv == ~Rogue /\ ~Stray => \A s \in Slot : Follows(s)

-----------------------------------------------------------------------------
(* How the match goes on *)

LEMMA NumberType ==
    ASSUME NEW b \in 0 .. Batches - 1, NEW f
    PROVE  Number(b, f) \in 0 .. Batches - 1
BY NextBatchStep DEF Number

(* Nothing is due.                                                         *)
LEMMA MatchedNone ==
    ASSUME NEW r, Len(r) = 0, NEW ln, NEW a \in 0 .. Batches - 1
    PROVE  Matched(r, ln, 0, 0, a, a)
<1> DEFINE at == [j \in 1 .. 1 |-> a]
           up == [j \in 1 .. 1 |-> 0]
<1>1. Numbered(r, at, a, a)
  BY DEF Numbered
<1>2. Upto(r, up, 0, 0)
  BY DEF Upto
<1>3. Met(r, at, up, ln) /\ Left(ln, 0, a)
  BY DEF Met, Left
<1> QED
  BY <1>1, <1>2, <1>3 DEF Matched

(* A request is added, with its reply.                                     *)
LEMMA MatchedGains ==
    ASSUME NEW r \in Seq(Frames), NEW new, NEW f, Gains(r, new, f), NEW ln, NEW lnew,
           NEW n \in Nat, NEW k \in 0 .. n, NEW a, NEW b \in 0 .. Batches - 1,
           \A i \in 1 .. n : lnew[i] = ln[i],
           f.does # "Sync" => Suits(lnew[n + 1], f) /\ lnew[n + 1].batch = b,
           Matched(r, ln, n, k, a, b)
    PROVE  Matched(new, lnew, Count(n, f), k, a, Number(b, f))
<1> DEFINE m == Len(r)
<1>0. m \in Nat /\ Len(new) = m + 1 /\ new[m + 1] = f /\ \A j \in 1 .. m : new[j] = r[j]
  BY DEF Gains
<1>1. PICK at, up : Numbered(r, at, a, b) /\ Upto(r, up, k, n) /\ Met(r, at, up, ln)
  BY DEF Matched
<1> DEFINE z == Number(b, f)
           c == Count(n, f)
<1>2. z \in 0 .. Batches - 1 /\ c \in Nat /\ c >= n
  BY NumberType DEF Count
<1> DEFINE at2 == [j \in 1 .. (m + 1) + 1 |-> IF j = m + 2 THEN z ELSE at[j]]
           up2 == [j \in 1 .. (m + 1) + 1 |-> IF j = m + 2 THEN c ELSE up[j]]
<1>n. /\ at \in [1 .. m + 1 -> 0 .. Batches - 1] /\ at[1] = a /\ at[m + 1] = b
      /\ \A j \in 1 .. m : at[j + 1] = Number(at[j], r[j])
  BY <1>1 DEF Numbered
<1>u. /\ up \in [1 .. m + 1 -> Nat] /\ up[1] = k /\ up[m + 1] = n
      /\ \A j \in 1 .. m : up[j + 1] = Count(up[j], r[j])
      /\ \A i, j \in 1 .. m + 1 : i <= j => up[i] <= up[j]
  BY <1>1 DEF Upto
<1>m. \A j \in 1 .. m : r[j].does # "Sync" =>
          Suits(ln[up[j] + 1], r[j]) /\ ln[up[j] + 1].batch = at[j]
  BY <1>1 DEF Met
<1> HIDE DEF m, z, c
<1>3. /\ \A j \in 1 .. m + 1 : at2[j] = at[j] /\ up2[j] = up[j]
      /\ at2[m + 2] = z /\ up2[m + 2] = c
  BY <1>0
<1>4. Numbered(new, at2, a, z)
  <2>1. at2 \in [1 .. (m + 1) + 1 -> 0 .. Batches - 1]
    BY <1>0, <1>2, <1>n
  <2>2. at2[1] = a /\ at2[(m + 1) + 1] = z
    BY <1>0, <1>3, <1>n
  <2>3. ASSUME NEW j \in 1 .. m + 1 PROVE at2[j + 1] = Number(at2[j], new[j])
    <3>1. CASE j = m + 1
      BY <1>0, <1>3, <1>n, <3>1 DEF z
    <3>2. CASE j # m + 1
      <4>1. j \in 1 .. m /\ j + 1 \in 1 .. m + 1
        BY <1>0, <3>2
      <4> QED
        BY <1>0, <1>3, <1>n, <4>1
    <3> QED
      BY <3>1, <3>2
  <2> HIDE DEF at2
  <2> QED
    BY <1>0, <2>1, <2>2, <2>3 DEF Numbered
<1>5. Upto(new, up2, k, c)
  <2>1. up2 \in [1 .. (m + 1) + 1 -> Nat]
    BY <1>0, <1>2, <1>u
  <2>2. up2[1] = k /\ up2[(m + 1) + 1] = c
    BY <1>0, <1>3, <1>u
  <2>3. ASSUME NEW j \in 1 .. m + 1 PROVE up2[j + 1] = Count(up2[j], new[j])
    <3>1. CASE j = m + 1
      BY <1>0, <1>3, <1>u, <3>1 DEF c
    <3>2. CASE j # m + 1
      <4>1. j \in 1 .. m /\ j + 1 \in 1 .. m + 1
        BY <1>0, <3>2
      <4> QED
        BY <1>0, <1>3, <1>u, <4>1
    <3> QED
      BY <3>1, <3>2
  <2>4. ASSUME NEW i \in 1 .. (m + 1) + 1, NEW j \in 1 .. (m + 1) + 1, i <= j
        PROVE  up2[i] <= up2[j]
    <3>1. CASE j = m + 2
      <4>1. CASE i = m + 2
        BY <1>2, <1>3, <3>1, <4>1
      <4>2. CASE i # m + 2
        <5>1. i \in 1 .. m + 1 /\ i <= m + 1 /\ m + 1 \in 1 .. m + 1
          BY <1>0, <4>2
        <5>2. up[i] <= n /\ up[i] \in Nat
          BY <1>u, <5>1
        <5> QED
          BY <1>2, <1>3, <3>1, <5>1, <5>2
      <4> QED
        BY <4>1, <4>2
    <3>2. CASE j # m + 2
      <4>1. i \in 1 .. m + 1 /\ j \in 1 .. m + 1
        BY <1>0, <2>4, <3>2
      <4> QED
        BY <1>3, <1>u, <2>4, <4>1
    <3> QED
      BY <3>1, <3>2
  <2> HIDE DEF up2
  <2> QED
    BY <1>0, <2>1, <2>2, <2>3, <2>4 DEF Upto
<1>6. Met(new, at2, up2, lnew)
  <2> SUFFICES ASSUME NEW j \in 1 .. m + 1, new[j].does # "Sync"
               PROVE  Suits(lnew[up2[j] + 1], new[j]) /\ lnew[up2[j] + 1].batch = at2[j]
    BY <1>0 DEF Met
  <2> HIDE DEF at2, up2
  <2>1. CASE j = m + 1
    BY <1>0, <1>3, <1>n, <1>u, <2>1
  <2>2. CASE j # m + 1
    <3>1. j \in 1 .. m /\ j + 1 \in 1 .. m + 1
      BY <1>0, <2>2
    <3>2. r[j].does # "Sync" /\ new[j] = r[j] /\ up2[j] = up[j] /\ at2[j] = at[j]
      BY <1>0, <1>3, <3>1
    <3>3. up[j + 1] = up[j] + 1 /\ up[j + 1] <= n /\ up[j] \in Nat
      <4>1. m + 1 \in 1 .. m + 1 /\ j + 1 <= m + 1 /\ j \in 1 .. m + 1
        BY <1>0, <3>1
      <4> QED
        BY <1>u, <3>1, <3>2, <4>1 DEF Count
    <3>4. up[j] + 1 \in 1 .. n
      BY <3>3
    <3> QED
      BY <1>m, <3>1, <3>2, <3>4
  <2> QED
    BY <2>1, <2>2
<1>7. Left(lnew, k, a)
  BY DEF Matched, Left
<1> HIDE DEF at2, up2
<1> QED
  BY <1>4, <1>5, <1>6, <1>7 DEF Matched, z, c

(* The reply of a request the server has run leaves the lane.              *)
LEMMA MatchedPopped ==
    ASSUME NEW r \in Seq(Frames), NEW ln, NEW lnew, NEW n \in Nat, NEW k \in 1 .. n,
           NEW a, NEW b, Shorter(n, ln, lnew), Matched(r, ln, n, k, a, b)
    PROVE  Matched(r, lnew, n - 1, k - 1, a, b)
<1> DEFINE m == Len(r)
<1>0. m \in Nat /\ \A i \in 1 .. n - 1 : lnew[i] = ln[i + 1]
  BY DEF Shorter
<1>1. PICK at, up : Numbered(r, at, a, b) /\ Upto(r, up, k, n) /\ Met(r, at, up, ln)
  BY DEF Matched
<1> DEFINE up2 == [j \in 1 .. m + 1 |-> up[j] - 1]
<1>u. /\ up \in [1 .. m + 1 -> Nat] /\ up[1] = k /\ up[m + 1] = n
      /\ \A j \in 1 .. m : up[j + 1] = Count(up[j], r[j])
      /\ \A i, j \in 1 .. m + 1 : i <= j => up[i] <= up[j]
  BY <1>1 DEF Upto
<1>m. \A j \in 1 .. m : r[j].does # "Sync" =>
          Suits(ln[up[j] + 1], r[j]) /\ ln[up[j] + 1].batch = at[j]
  BY <1>1 DEF Met
<1> HIDE DEF m
<1>2. \A j \in 1 .. m + 1 : /\ up2[j] = up[j] - 1 /\ up[j] \in Nat /\ up[j] - 1 \in Nat
                            /\ k <= up[j] /\ up[j] <= n
  <2>1. 1 \in 1 .. m + 1 /\ m + 1 \in 1 .. m + 1
    BY <1>0
  <2>2. ASSUME NEW j \in 1 .. m + 1 PROVE k <= up[j] /\ up[j] <= n /\ up[j] \in Nat
    BY <1>u, <2>1
  <2>3. k >= 1 /\ k \in Nat
    OBVIOUS
  <2> QED
    BY <2>2, <2>3
<1>3. \A j \in 1 .. m : j \in 1 .. m + 1 /\ j + 1 \in 1 .. m + 1
  BY <1>0
<1>4. Upto(r, up2, k - 1, n - 1)
  <2>1. up2 \in [1 .. m + 1 -> Nat]
    BY <1>2
  <2>2. up2[1] = k - 1 /\ up2[m + 1] = n - 1
    BY <1>0, <1>2, <1>u
  <2>3. ASSUME NEW j \in 1 .. m PROVE up2[j + 1] = Count(up2[j], r[j])
    <3>1. up2[j] = up[j] - 1 /\ up2[j + 1] = up[j + 1] - 1 /\ up[j] \in Nat
      BY <1>2, <1>3
    <3>2. up[j + 1] = IF r[j].does = "Sync" THEN up[j] ELSE up[j] + 1
      BY <1>u DEF Count
    <3> HIDE DEF up2
    <3> QED
      BY <3>1, <3>2 DEF Count
  <2>4. ASSUME NEW i \in 1 .. m + 1, NEW j \in 1 .. m + 1, i <= j PROVE up2[i] <= up2[j]
    BY <1>2, <1>u, <2>4
  <2> HIDE DEF up2
  <2> QED
    BY <2>1, <2>2, <2>3, <2>4 DEF Upto, m
<1>5. Met(r, at, up2, lnew)
  <2> SUFFICES ASSUME NEW j \in 1 .. m, r[j].does # "Sync"
               PROVE  Suits(lnew[up2[j] + 1], r[j]) /\ lnew[up2[j] + 1].batch = at[j]
    BY DEF Met, m
  <2>1. up[j + 1] = up[j] + 1 /\ up[j + 1] <= n
    BY <1>2, <1>3, <1>u DEF Count
  <2>2. up2[j] + 1 = up[j] /\ up[j] \in 1 .. n - 1
    BY <1>2, <1>3, <2>1
  <2>3. lnew[up2[j] + 1] = ln[up[j] + 1]
    BY <1>0, <2>2
  <2> QED
    BY <1>m, <2>3
<1>6. Left(lnew, k - 1, a)
  <2>1. \A i \in 1 .. k : ln[i].batch = a
    BY DEF Matched, Left
  <2>2. ASSUME NEW i \in 1 .. k - 1 PROVE lnew[i].batch = a
    <3>1. i \in 1 .. n - 1 /\ i + 1 \in 1 .. k
      OBVIOUS
    <3> QED
      BY <1>0, <2>1, <3>1
  <2> QED
    BY <2>2 DEF Left
<1> HIDE DEF up2
<1> QED
  BY <1>1, <1>4, <1>5, <1>6 DEF Matched

(* The first request is met by the first reply that is left.               *)
LEMMA MatchedFirst ==
    ASSUME NEW r \in Seq(Frames), Len(r) > 0, NEW ln, NEW n \in Nat, NEW k \in 0 .. n,
           NEW a, NEW b, Matched(r, ln, n, k, a, b)
    PROVE  /\ Count(k, r[1]) \in 0 .. n
           /\ r[1].does # "Sync" => Suits(ln[k + 1], r[1]) /\ ln[k + 1].batch = a /\ k < n
<1> DEFINE m == Len(r)
<1>0. m \in Nat /\ 1 \in 1 .. m /\ 1 + 1 \in 1 .. m + 1 /\ m + 1 \in 1 .. m + 1 /\ 1 + 1 <= m + 1
  OBVIOUS
<1>1. PICK at, up : Numbered(r, at, a, b) /\ Upto(r, up, k, n) /\ Met(r, at, up, ln)
  BY DEF Matched
<1>2. at[1] = a
  BY <1>1 DEF Numbered
<1>3. up[1] = k /\ up[1 + 1] = Count(k, r[1]) /\ up[1 + 1] <= n
  BY <1>0, <1>1 DEF Upto
<1>4. r[1].does # "Sync" => Suits(ln[k + 1], r[1]) /\ ln[k + 1].batch = a
  BY <1>0, <1>1, <1>2, <1>3 DEF Met
<1> QED
  BY <1>3, <1>4 DEF Count

(* The requests lose their first.                                          *)
LEMMA MatchedShifts ==
    ASSUME NEW r \in Seq(Frames), NEW new, Loses(r, new), NEW ln, NEW n \in Nat,
           NEW k \in 0 .. n, NEW a, NEW b, NEW k2, k2 = Count(k, r[1]),
           Left(ln, k2, Number(a, r[1])), Matched(r, ln, n, k, a, b)
    PROVE  Matched(new, ln, n, k2, Number(a, r[1]), b)
<1> DEFINE m == Len(r)
           z == Number(a, r[1])
<1>0. /\ m \in Nat /\ m > 0 /\ Len(new) = m - 1 /\ Len(new) \in Nat
      /\ \A j \in 1 .. m - 1 : new[j] = r[j + 1]
  BY DEF Loses
<1>1. PICK at, up : Numbered(r, at, a, b) /\ Upto(r, up, k, n) /\ Met(r, at, up, ln)
  BY DEF Matched
<1> DEFINE at2 == [j \in 1 .. (m - 1) + 1 |-> at[j + 1]]
           up2 == [j \in 1 .. (m - 1) + 1 |-> up[j + 1]]
<1>n. /\ at \in [1 .. m + 1 -> 0 .. Batches - 1] /\ at[1] = a /\ at[m + 1] = b
      /\ \A j \in 1 .. m : at[j + 1] = Number(at[j], r[j])
  BY <1>1 DEF Numbered
<1>u. /\ up \in [1 .. m + 1 -> Nat] /\ up[1] = k /\ up[m + 1] = n
      /\ \A j \in 1 .. m : up[j + 1] = Count(up[j], r[j])
      /\ \A i, j \in 1 .. m + 1 : i <= j => up[i] <= up[j]
  BY <1>1 DEF Upto
<1>m. \A j \in 1 .. m : r[j].does # "Sync" =>
          Suits(ln[up[j] + 1], r[j]) /\ ln[up[j] + 1].batch = at[j]
  BY <1>1 DEF Met
<1> HIDE DEF m, z
<1>j. \A j \in 1 .. m : j + 1 \in 1 .. m + 1 /\ j \in 1 .. (m - 1) + 1
  BY <1>0
<1>2. \A j \in 1 .. m : /\ j + 1 \in 1 .. m + 1 /\ at2[j] = at[j + 1] /\ up2[j] = up[j + 1]
                        /\ j \in 1 .. (m - 1) + 1
  BY <1>j
<1>3. \A j \in 1 .. m - 1 : j \in 1 .. m /\ j + 1 \in 1 .. m
  BY <1>0
<1>4. at2[1] = z /\ up2[1] = k2 /\ 1 \in 1 .. m /\ m \in 1 .. m /\ (m - 1) + 1 = m
  BY <1>0, <1>2, <1>n, <1>u DEF z
<1>5. Numbered(new, at2, z, b)
  <2>1. at2 \in [1 .. (m - 1) + 1 -> 0 .. Batches - 1]
    BY <1>0, <1>n
  <2>2. at2[(m - 1) + 1] = b
    BY <1>0, <1>2, <1>4, <1>n
  <2>3. ASSUME NEW j \in 1 .. m - 1 PROVE at2[j + 1] = Number(at2[j], new[j])
    <3>1. j \in 1 .. m /\ j + 1 \in 1 .. m
      BY <1>0
    <3> QED
      BY <1>0, <1>2, <1>n, <3>1
  <2> HIDE DEF at2
  <2> QED
    BY <1>0, <1>4, <2>1, <2>2, <2>3 DEF Numbered
<1>6. Upto(new, up2, k2, n)
  <2>1. up2 \in [1 .. (m - 1) + 1 -> Nat]
    BY <1>0, <1>u
  <2>2. up2[(m - 1) + 1] = n
    BY <1>0, <1>2, <1>4, <1>u
  <2>3. ASSUME NEW j \in 1 .. m - 1 PROVE up2[j + 1] = Count(up2[j], new[j])
    <3>1. j \in 1 .. m /\ j + 1 \in 1 .. m
      BY <1>0
    <3> QED
      BY <1>0, <1>2, <1>u, <3>1
  <2>4. ASSUME NEW i \in 1 .. (m - 1) + 1, NEW j \in 1 .. (m - 1) + 1, i <= j
        PROVE  up2[i] <= up2[j]
    <3>1. i \in 1 .. m /\ j \in 1 .. m /\ i + 1 <= j + 1
      BY <1>0, <2>4
    <3> QED
      BY <1>2, <1>u, <3>1
  <2> HIDE DEF up2
  <2> QED
    BY <1>0, <1>4, <2>1, <2>2, <2>3, <2>4 DEF Upto
<1>7. Met(new, at2, up2, ln)
  <2> SUFFICES ASSUME NEW j \in 1 .. m - 1, new[j].does # "Sync"
               PROVE  Suits(ln[up2[j] + 1], new[j]) /\ ln[up2[j] + 1].batch = at2[j]
    BY <1>0 DEF Met
  <2>1. j \in 1 .. m /\ j + 1 \in 1 .. m
    BY <1>3
  <2>2. new[j] = r[j + 1] /\ up2[j] = up[j + 1] /\ at2[j] = at[j + 1]
    BY <1>0, <1>2, <2>1
  <2> HIDE DEF at2, up2
  <2> QED
    BY <1>m, <2>1, <2>2
<1> HIDE DEF at2, up2
<1> QED
  BY <1>5, <1>6, <1>7 DEF Matched, z

(* Only their first is another, of the same kind for the match.            *)
LEMMA MatchedSame ==
    ASSUME NEW r \in Seq(Frames), NEW new, Len(new) = Len(r), new[1] = r[1],
           \A i \in 2 .. Len(r) : new[i] = r[i],
           NEW ln, NEW n \in Nat, NEW k \in 0 .. n, NEW a, NEW b, Matched(r, ln, n, k, a, b)
    PROVE  Matched(new, ln, n, k, a, b)
<1>1. \A j \in 1 .. Len(r) : new[j] = r[j]
  <2>1. \A j \in 1 .. Len(r) : j = 1 \/ j \in 2 .. Len(r)
    OBVIOUS
  <2> QED
    BY <2>1
<1>2. PICK at, up : Numbered(r, at, a, b) /\ Upto(r, up, k, n) /\ Met(r, at, up, ln)
  BY DEF Matched
<1>3. Numbered(new, at, a, b)
  BY <1>1, <1>2 DEF Numbered
<1>4. Upto(new, up, k, n)
  BY <1>1, <1>2 DEF Upto
<1>5. Met(new, at, up, ln)
  BY <1>1, <1>2 DEF Met
<1> QED
  BY <1>3, <1>4, <1>5 DEF Matched

(* The first is a request of which the Sync is left.                       *)
LEMMA MatchedLeaves ==
    ASSUME NEW r \in Seq(Frames), NEW new, Len(r) > 0, r[1].sync, Runs(r, new),
           r[1].does # "Sync", NEW ln, NEW n \in Nat, NEW k \in 0 .. n, NEW a, NEW b,
           Matched(r, ln, n, k, a, b)
    PROVE  Matched(new, ln, n, k + 1, a, b)
<1> DEFINE m == Len(r)
<1>0. /\ m \in Nat /\ m > 0 /\ Len(new) = m /\ new[1] = SyncFrame
      /\ \A j \in 2 .. m : new[j] = r[j]
  BY DEF Runs
<1>1. PICK at, up : Numbered(r, at, a, b) /\ Upto(r, up, k, n) /\ Met(r, at, up, ln)
  BY DEF Matched
<1>2. SyncFrame.does = "Sync" /\ SyncFrame.sync
  BY SyncInFrames
<1> DEFINE up2 == [j \in 1 .. m + 1 |-> IF j = 1 THEN k + 1 ELSE up[j]]
<1>n. /\ at \in [1 .. m + 1 -> 0 .. Batches - 1] /\ at[1] = a /\ at[m + 1] = b
      /\ \A j \in 1 .. m : at[j + 1] = Number(at[j], r[j])
  BY <1>1 DEF Numbered
<1>u. /\ up \in [1 .. m + 1 -> Nat] /\ up[1] = k /\ up[m + 1] = n
      /\ \A j \in 1 .. m : up[j + 1] = Count(up[j], r[j])
      /\ \A i, j \in 1 .. m + 1 : i <= j => up[i] <= up[j]
  BY <1>1 DEF Upto
<1>m. \A j \in 1 .. m : r[j].does # "Sync" =>
          Suits(ln[up[j] + 1], r[j]) /\ ln[up[j] + 1].batch = at[j]
  BY <1>1 DEF Met
<1>l. \A i \in 1 .. k : ln[i].batch = a
  BY DEF Matched, Left
<1> HIDE DEF m
<1>3. /\ 1 \in 1 .. m /\ 1 \in 1 .. m + 1 /\ 1 + 1 \in 1 .. m + 1 /\ up2[1] = k + 1
      /\ \A j \in 2 .. m + 1 : up2[j] = up[j] /\ j \in 1 .. m + 1
      /\ \A j \in 1 .. m : j = 1 \/ j \in 2 .. m
      /\ \A j \in 1 .. m + 1 : j = 1 \/ j \in 2 .. m + 1
  BY <1>0
<1>4. up[1 + 1] = k + 1
  BY <1>u, <1>3 DEF Count, m
<1>5. Numbered(new, at, a, b)
  <2>1. ASSUME NEW j \in 1 .. m PROVE at[j + 1] = Number(at[j], new[j])
    <3>1. CASE j = 1
      BY <1>0, <1>2, <1>3, <1>n, <3>1 DEF Number
    <3>2. CASE j \in 2 .. m
      BY <1>0, <1>n, <3>2
    <3> QED
      BY <1>3, <3>1, <3>2
  <2> QED
    BY <1>0, <1>n, <2>1 DEF Numbered
<1>6. Upto(new, up2, k + 1, n)
  <2>1. up2 \in [1 .. m + 1 -> Nat]
    BY <1>0, <1>u
  <2>2. up2[m + 1] = n
    BY <1>0, <1>3, <1>u
  <2>3. ASSUME NEW j \in 1 .. m PROVE up2[j + 1] = Count(up2[j], new[j])
    <3>1. CASE j = 1
      <4>1. up2[1 + 1] = k + 1
        BY <1>3, <1>4
      <4> QED
        BY <1>0, <1>2, <1>3, <3>1, <4>1 DEF Count
    <3>2. CASE j \in 2 .. m
      <4>1. j + 1 \in 2 .. m + 1 /\ j \in 2 .. m + 1
        BY <1>0, <3>2
      <4> QED
        BY <1>0, <1>3, <1>u, <3>2, <4>1
    <3> QED
      BY <1>3, <3>1, <3>2
  <2>4. ASSUME NEW i \in 1 .. m + 1, NEW j \in 1 .. m + 1, i <= j PROVE up2[i] <= up2[j]
    <3>1. CASE j = 1
      BY <1>3, <2>4, <3>1
    <3>2. CASE i = 1 /\ j \in 2 .. m + 1
      BY <1>3, <1>4, <1>u, <3>2
    <3>3. CASE i \in 2 .. m + 1 /\ j \in 2 .. m + 1
      BY <1>3, <1>u, <2>4, <3>3
    <3> QED
      BY <1>3, <2>4, <3>1, <3>2, <3>3
  <2> HIDE DEF up2
  <2> QED
    BY <1>0, <1>3, <2>1, <2>2, <2>3, <2>4 DEF Upto
<1>7. Met(new, at, up2, ln)
  <2> SUFFICES ASSUME NEW j \in 1 .. m, new[j].does # "Sync"
               PROVE  Suits(ln[up2[j] + 1], new[j]) /\ ln[up2[j] + 1].batch = at[j]
    BY <1>0 DEF Met
  <2>1. j \in 2 .. m /\ j \in 2 .. m + 1
    BY <1>0, <1>2, <1>3
  <2>2. new[j] = r[j] /\ up2[j] = up[j]
    BY <1>0, <1>3, <2>1
  <2> HIDE DEF up2
  <2> QED
    BY <1>m, <2>1, <2>2
<1>8. Left(ln, k + 1, a)
  <2>1. ln[k + 1].batch = a
    BY MatchedFirst, <1>0 DEF m
  <2>2. \A i \in 1 .. k + 1 : i \in 1 .. k \/ i = k + 1
    OBVIOUS
  <2> QED
    BY <1>l, <2>1, <2>2 DEF Left
<1> HIDE DEF up2
<1> QED
  BY <1>5, <1>6, <1>7, <1>8 DEF Matched

(* The server runs the first request: its reply is left, but for a Sync.   *)
LEMMA MatchedRan ==
    ASSUME NEW r \in Seq(Frames), NEW new, Runs(r, new), Len(r) > 0, NEW ln, NEW n \in Nat,
           NEW k \in 0 .. n, NEW a, NEW b, Matched(r, ln, n, k, a, b)
    PROVE  Matched(new, ln, n, Count(k, r[1]), a, b)
<1> DEFINE k2 == Count(k, r[1])
<1>0. r[1] \in Frames /\ Len(r) \in Nat
  OBVIOUS
<1>1. CASE r[1].does = "Sync"
  <2>1. r[1] = SyncFrame /\ r[1].sync
    BY <1>0, <1>1, SyncInFrames DEF Frames
  <2>2. Len(new) = Len(r) /\ new[1] = r[1] /\ \A i \in 2 .. Len(r) : new[i] = r[i]
    BY <2>1 DEF Runs
  <2>3. Matched(new, ln, n, k, a, b)
    BY <2>2, MatchedSame
  <2> QED
    BY <1>1, <2>3 DEF Count
<1>2. CASE r[1].does # "Sync" /\ r[1].sync
  <2>1. Matched(new, ln, n, k + 1, a, b)
    BY <1>2, MatchedLeaves
  <2> QED
    BY <1>2, <2>1 DEF Count
<1>3. CASE r[1].does # "Sync" /\ ~ r[1].sync
  <2>1. Loses(r, new) /\ Number(a, r[1]) = a /\ k2 = k + 1
    BY <1>3 DEF Runs, Number, Count
  <2>2. Left(ln, k + 1, a)
    <3>1. ln[k + 1].batch = a /\ \A i \in 1 .. k : ln[i].batch = a
      BY <1>3, MatchedFirst DEF Matched, Left
    <3>2. \A i \in 1 .. k + 1 : i \in 1 .. k \/ i = k + 1
      OBVIOUS
    <3> QED
      BY <3>1, <3>2 DEF Left
  <2>3. Left(ln, k2, Number(a, r[1]))
    BY <2>1, <2>2
  <2>4. Matched(new, ln, n, k2, Number(a, r[1]), b)
    BY <2>1, <2>3, MatchedShifts
  <2> QED
    BY <2>1, <2>4
<1> QED
  BY <1>1, <1>2, <1>3

(* The Sync of a batch is answered, and no reply of it is left.            *)
LEMMA MatchedTurned ==
    ASSUME NEW r \in Seq(Frames), NEW new, Loses(r, new), AtSync(r), NEW ln, NEW n \in Nat,
           NEW a, NEW b, Matched(r, ln, n, 0, a, b)
    PROVE  Matched(new, ln, n, 0, NextBatch(a), b)
<1>1. r[1].does = "Sync" /\ r[1].sync
  BY SyncInFrames DEF AtSync
<1> DEFINE k2 == Count(0, r[1])
<1>2. k2 = 0 /\ Number(a, r[1]) = NextBatch(a)
  BY <1>1 DEF Count, Number
<1>3. Left(ln, k2, Number(a, r[1])) /\ 0 \in 0 .. n
  BY <1>2 DEF Left
<1>4. Matched(new, ln, n, k2, Number(a, r[1]), b)
  BY <1>3, MatchedShifts
<1> QED
  BY <1>2, <1>4

(* Behind a Sync comes the reply of a request of the next batch.           *)
LEMMA MatchedBehind ==
    ASSUME NEW r \in Seq(Frames), AtSync(r), Shaped(r), NEW ln, NEW n \in Nat, n > 0,
           NEW a, NEW b, Matched(r, ln, n, 0, a, b)
    PROVE  ln[1].batch = NextBatch(a)
<1> DEFINE m == Len(r)
<1>0. m \in Nat /\ m > 0 /\ r[1].does = "Sync" /\ r[1].sync
  BY SyncInFrames DEF AtSync
<1>1. PICK at, up : Numbered(r, at, a, b) /\ Upto(r, up, 0, n) /\ Met(r, at, up, ln)
  BY DEF Matched
<1>2. 1 \in 1 .. m
  BY <1>0
<1>3. at[1] = a /\ at[1 + 1] = NextBatch(a)
  BY <1>0, <1>1, <1>2 DEF Numbered, Number
<1>4. up[1] = 0 /\ up[1 + 1] = 0 /\ up[m + 1] = n
  BY <1>0, <1>1, <1>2 DEF Upto, Count
<1>5. m # 1
  <2> HIDE DEF m
  <2>1. m = 1 => up[m + 1] = 0
    BY <1>4
  <2> QED
    BY <1>4, <2>1
<1>6. 1 \in 1 .. m - 1 /\ 1 + 1 \in 1 .. m
  <2> HIDE DEF m
  <2> QED
    BY <1>0, <1>5
<1>7. r[1 + 1].does # "Sync"
  BY <1>0, <1>6 DEF Shaped
<1> QED
  BY <1>1, <1>3, <1>4, <1>6, <1>7 DEF Met

-----------------------------------------------------------------------------
(* How the shape of the requests goes on *)

LEMMA ShapedGains ==
    ASSUME NEW r \in Seq(Frames), NEW new, NEW f, Gains(r, new, f), Shaped(r),
           Len(r) > 0 /\ r[Len(r)].sync => f.does # "Sync",
           Len(r) > 0 /\ r[Len(r)].does = "Copy" => f.does = "Sync"
    PROVE  Shaped(new)
<1> DEFINE m == Len(r)
<1>0. m \in Nat /\ Len(new) = m + 1 /\ new[m + 1] = f /\ \A j \in 1 .. m : new[j] = r[j]
  BY DEF Gains
<1>1. \A j \in 1 .. m - 1 : /\ r[j].sync => r[j + 1].does # "Sync"
                            /\ r[j].does = "Copy" => r[j + 1].does = "Sync"
  BY DEF Shaped
<1>2. m > 0 => /\ r[m].sync => f.does # "Sync"
               /\ r[m].does = "Copy" => f.does = "Sync"
  OBVIOUS
<1> HIDE DEF m
<1>3. ASSUME NEW j \in 1 .. (m + 1) - 1
      PROVE  /\ new[j].sync => new[j + 1].does # "Sync"
             /\ new[j].does = "Copy" => new[j + 1].does = "Sync"
  <2>1. j \in 1 .. m /\ m > 0 /\ new[j] = r[j]
    BY <1>0
  <2>2. CASE j = m
    BY <1>0, <1>2, <2>1, <2>2
  <2>3. CASE j # m
    <3>1. j \in 1 .. m - 1 /\ j + 1 \in 1 .. m
      BY <1>0, <2>1, <2>3
    <3> QED
      BY <1>0, <1>1, <2>1, <3>1
  <2> QED
    BY <2>2, <2>3
<1> QED
  BY <1>0, <1>3 DEF Shaped

LEMMA ShapedLoses ==
    ASSUME NEW r \in Seq(Frames), NEW new, Loses(r, new), Shaped(r)
    PROVE  Shaped(new)
<1> DEFINE m == Len(r)
<1>0. m \in Nat /\ m > 0 /\ Len(new) = m - 1 /\ \A i \in 1 .. m - 1 : new[i] = r[i + 1]
  BY DEF Loses
<1>1. \A j \in 1 .. m - 1 : /\ r[j].sync => r[j + 1].does # "Sync"
                            /\ r[j].does = "Copy" => r[j + 1].does = "Sync"
  BY DEF Shaped
<1> HIDE DEF m
<1>2. ASSUME NEW j \in 1 .. (m - 1) - 1
      PROVE  /\ new[j].sync => new[j + 1].does # "Sync"
             /\ new[j].does = "Copy" => new[j + 1].does = "Sync"
  <2>1. j \in 1 .. m - 1 /\ j + 1 \in 1 .. m - 1
    BY <1>0
  <2>2. new[j] = r[j + 1] /\ new[j + 1] = r[(j + 1) + 1]
    BY <1>0, <2>1
  <2> QED
    BY <1>1, <2>1, <2>2
<1> QED
  BY <1>0, <1>2 DEF Shaped

LEMMA ShapedRuns ==
    ASSUME NEW r \in Seq(Frames), NEW new, Runs(r, new), Shaped(r)
    PROVE  Shaped(new)
<1>1. CASE r[1].sync
  <2>1. /\ Len(new) = Len(r) /\ new[1] = SyncFrame /\ Len(r) \in Nat
        /\ \A i \in 2 .. Len(r) : new[i] = r[i]
    BY <1>1 DEF Runs
  <2>2. SyncFrame.does # "Copy"
    BY SyncInFrames
  <2>3. ASSUME NEW j \in 1 .. Len(r) - 1
        PROVE  /\ new[j].sync => new[j + 1].does # "Sync"
               /\ new[j].does = "Copy" => new[j + 1].does = "Sync"
    <3>1. j + 1 \in 2 .. Len(r) /\ (j = 1 \/ j \in 2 .. Len(r))
      BY <2>1
    <3>2. /\ r[j].sync => r[j + 1].does # "Sync"
          /\ r[j].does = "Copy" => r[j + 1].does = "Sync"
      BY DEF Shaped
    <3> QED
      BY <1>1, <2>1, <2>2, <3>1, <3>2
  <2> QED
    BY <2>1, <2>3 DEF Shaped
<1>2. CASE ~ r[1].sync
  <2>1. Loses(r, new)
    BY <1>2 DEF Runs
  <2> QED
    BY <2>1, ShapedLoses
<1> QED
  BY <1>1, <1>2

LEMMA OpenGains ==
    ASSUME NEW r \in Seq(Frames), NEW new, NEW f, Gains(r, new, f), NEW sy, NEW sk,
           f.sync => sy = "Synced", f.does = "Copy" => sy = "Explicit"
    PROVE  Open(new, sy, sk)
<1>1. Len(new) = Len(r) + 1 /\ new[Len(new)] = f /\ Len(new) # 0
  BY DEF Gains
<1> QED
  BY <1>1 DEF Open

LEMMA OpenLoses ==
    ASSUME NEW r \in Seq(Frames), NEW new, Loses(r, new), NEW sy, NEW sk, Open(r, sy, sk)
    PROVE  Open(new, sy, FALSE)
<1>0. Len(r) \in Nat /\ Len(r) > 0 /\ Len(new) = Len(r) - 1
      /\ \A i \in 1 .. Len(new) : new[i] = r[i + 1]
  BY DEF Loses
<1>1. ASSUME Len(new) > 0 PROVE new[Len(new)] = r[Len(r)]
  <2>1. Len(new) \in 1 .. Len(new) /\ Len(new) + 1 = Len(r)
    BY <1>0, <1>1
  <2> QED
    BY <1>0, <2>1
<1> QED
  BY <1>0, <1>1 DEF Open

LEMMA OpenRuns ==
    ASSUME NEW r \in Seq(Frames), NEW new \in Seq(Frames), Runs(r, new), NEW sy, NEW sk, NEW sk2,
           Open(r, sy, sk), sy = "Synced" => Ended(r)
    PROVE  Open(new, sy, sk2)
<1>1. sy = "Synced" => Len(new) > 0
  BY EndedServed
<1>2. CASE r[1].sync
  <2>1. /\ Len(new) = Len(r) /\ Len(r) > 0 /\ new[1] = SyncFrame /\ Len(r) \in Nat
        /\ \A i \in 2 .. Len(r) : new[i] = r[i]
    BY <1>2 DEF Runs
  <2>2. SyncFrame.does # "Copy" /\ (Len(r) = 1 \/ Len(r) \in 2 .. Len(r))
    BY <2>1, SyncInFrames
  <2> QED
    BY <1>1, <1>2, <2>1, <2>2 DEF Open
<1>3. CASE ~ r[1].sync
  <2>1. Open(new, sy, FALSE)
    BY <1>3, OpenLoses DEF Runs
  <2> QED
    BY <1>1, <2>1 DEF Open
<1> QED
  BY <1>2, <1>3

LEMMA AtSyncFirst ==
    ASSUME NEW r \in Seq(Frames), Len(r) > 0
    PROVE  r[1].does = "Sync" <=> AtSync(r)
<1>1. r[1] \in Frames
  OBVIOUS
<1> QED
  BY <1>1, SyncInFrames DEF Frames, AtSync

-----------------------------------------------------------------------------
(* How the session follows the answers *)

LEMMA FollowedGains ==
    ASSUME NEW r \in Seq(Frames), NEW new, NEW f, Gains(r, new, f), Shaped(new),
           NEW ln, NEW lnew, Len(ln) \in Nat, Len(lnew) = Count(Len(ln), f),
           \A i \in 1 .. Len(ln) : lnew[i] = ln[i],
           NEW a, NEW b \in 0 .. Batches - 1,
           f.does # "Sync" => Suits(lnew[Len(ln) + 1], f) /\ lnew[Len(ln) + 1].batch = b,
           NEW pr, NEW sk, NEW st, Followed(r, ln, a, b, pr, sk, st)
    PROVE  Followed(new, lnew, a, Number(b, f), pr, sk, st)
<1> DEFINE n == Len(ln)
           c == Len(lnew)
<1>1. PICK k \in 0 .. n : Matched(r, ln, n, k, a, b) /\ Reading(r, ln, k, pr, sk, st)
  BY DEF Followed
<1>2. n \in Nat /\ k \in 0 .. n /\ c = Count(n, f) /\ k \in 0 .. c
  BY DEF Count
<1>3. AtSync(r) => AtSync(new)
  <2>1. Len(r) \in Nat /\ (Len(r) > 0 => Len(new) > 0 /\ new[1] = r[1])
    BY DEF Gains
  <2> QED
    BY <2>1 DEF AtSync
<1>4. k = 1 => lnew[1] = ln[1]
  BY <1>2
<1>5. Reading(new, lnew, k, pr, sk, st)
  BY <1>1, <1>3, <1>4 DEF Reading
<1>6. /\ \A i \in 1 .. n : lnew[i] = ln[i]
      /\ f.does # "Sync" => Suits(lnew[n + 1], f) /\ lnew[n + 1].batch = b
  OBVIOUS
<1> HIDE DEF n, c
<1>7. Matched(new, lnew, Count(n, f), k, a, Number(b, f))
  BY <1>1, <1>2, <1>6, MatchedGains
<1>8. Matched(new, lnew, c, k, a, Number(b, f))
  BY <1>2, <1>7
<1> QED
  BY <1>2, <1>5, <1>8 DEF Followed, c

(* The server answers a command: its reply is in front, of the batch that  *)
(* is answered.                                                            *)
LEMMA FollowedCommand ==
    ASSUME NEW r \in Seq(Frames), Len(r) > 0, r[1].does # "Sync", NEW ln, Len(ln) \in Nat,
           NEW a, NEW b, NEW pr \in {"Running", "Complete", "Skipping"}, NEW sk, ~ sk, NEW st,
           Followed(r, ln, a, b, pr, sk, st)
    PROVE  /\ pr = "Running" /\ Len(ln) > 0 /\ Suits(ln[1], r[1]) /\ ln[1].batch = a
           /\ Matched(r, ln, Len(ln), 0, a, b)
<1> DEFINE n == Len(ln)
<1>1. PICK k \in 0 .. n : Matched(r, ln, n, k, a, b) /\ Reading(r, ln, k, pr, sk, st)
  BY DEF Followed
<1>2. ~ AtSync(r)
  BY AtSyncFirst
<1>3. pr = "Running" /\ k = 0
  BY <1>1, <1>2 DEF Reading
<1>4. n \in Nat /\ 0 \in 0 .. n /\ Matched(r, ln, n, 0, a, b)
  BY <1>1, <1>3
<1> HIDE DEF n
<1>5. Suits(ln[0 + 1], r[1]) /\ ln[0 + 1].batch = a /\ 0 < n
  BY <1>4, MatchedFirst
<1> QED
  BY <1>3, <1>4, <1>5 DEF n

(* It is run: its reply stays for the ReadyForQuery, or is taken.          *)
LEMMA FollowedRan ==
    ASSUME NEW r \in Seq(Frames), NEW new \in Seq(Frames), Runs(r, new), Len(r) > 0,
           r[1].does # "Sync",
           Shaped(r), NEW ln, Len(ln) > 0, Len(ln) \in Nat, NEW a, NEW b,
           Matched(r, ln, Len(ln), 0, a, b)
    PROVE  /\ ln[1].kind # "Command" /\ AtSync(new) =>
                 Followed(new, ln, a, b, "Complete", FALSE, "No")
           /\ \A lnew : Len(lnew) = Len(ln) - 1 /\ Shorter(Len(ln), ln, lnew) =>
                 /\ Followed(new, lnew, a, b, "Running", FALSE, "No")
                 /\ \A sk \in BOOLEAN : sk \/ AtSync(new) =>
                       Followed(new, lnew, a, b, "Skipping", sk, "No")
<1> DEFINE n == Len(ln)
<1>0. n \in Nat /\ n > 0 /\ 0 \in 0 .. n /\ 1 \in 0 .. n /\ 1 \in 1 .. n
  OBVIOUS
<1>1. Count(0, r[1]) = 1
  BY DEF Count
<1>2. Matched(r, ln, n, 0, a, b)
  OBVIOUS
<1>3. Shaped(new)
  BY ShapedRuns
<1> HIDE DEF n
<1>4. Matched(new, ln, n, 1, a, b)
  <2>1. Matched(new, ln, n, Count(0, r[1]), a, b)
    BY <1>0, <1>2, MatchedRan
  <2> QED
    BY <1>1, <2>1
<1>5. ASSUME ln[1].kind # "Command", AtSync(new)
      PROVE  Followed(new, ln, a, b, "Complete", FALSE, "No")
  <2>1. Reading(new, ln, 1, "Complete", FALSE, "No")
    BY <1>5 DEF Reading
  <2> QED
    BY <1>0, <1>3, <1>4, <2>1 DEF Followed, n
<1>6. ASSUME NEW lnew, Len(lnew) = n - 1, Shorter(n, ln, lnew)
      PROVE  /\ Followed(new, lnew, a, b, "Running", FALSE, "No")
             /\ \A sk \in BOOLEAN : sk \/ AtSync(new) =>
                    Followed(new, lnew, a, b, "Skipping", sk, "No")
  <2>2. Matched(new, lnew, n - 1, 0, a, b)
    <3>1. Matched(new, lnew, n - 1, 1 - 1, a, b)
      BY <1>0, <1>4, <1>6, MatchedPopped
    <3> QED
      BY <3>1
  <2>3. Reading(new, lnew, 0, "Running", FALSE, "No")
    BY DEF Reading
  <2>4. ASSUME NEW sk \in BOOLEAN, sk \/ AtSync(new)
        PROVE  Reading(new, lnew, 0, "Skipping", sk, "No")
    BY <2>4 DEF Reading
  <2>5. Len(lnew) = n - 1 /\ 0 \in 0 .. Len(lnew)
    BY <1>0, <1>6
  <2>6. Matched(new, lnew, Len(lnew), 0, a, b)
    BY <2>2, <2>5
  <2> QED
    BY <1>3, <2>3, <2>4, <2>5, <2>6 DEF Followed
<1> QED
  BY <1>5, <1>6 DEF n

(* An error at the Sync takes the reply that stayed.                       *)
LEMMA FollowedFails ==
    ASSUME NEW r \in Seq(Frames), NEW new, Runs(r, new), AtSync(r),
           NEW ln, Len(ln) \in Nat, Len(ln) > 0, NEW a \in 0 .. Batches - 1, ln[1].batch = a,
           NEW b, NEW pr \in {"Running", "Complete"}, NEW sk, NEW st,
           Followed(r, ln, a, b, pr, sk, st),
           NEW lnew, Len(lnew) = Len(ln) - 1, Shorter(Len(ln), ln, lnew)
    PROVE  Followed(new, lnew, a, b, "Skipping", FALSE, "No")
<1> DEFINE n == Len(ln)
<1>0. n \in Nat /\ n > 0 /\ Shorter(n, ln, lnew) /\ Len(lnew) = n - 1
  OBVIOUS
<1>1. PICK k \in 0 .. n : Matched(r, ln, n, k, a, b) /\ Reading(r, ln, k, pr, sk, st)
  BY DEF Followed
<1>2. Shaped(r) /\ Shaped(new)
  BY ShapedRuns DEF Followed
<1>3. Len(new) = Len(r) /\ new[1] = r[1] /\ (\A i \in 2 .. Len(r) : new[i] = r[i]) /\ AtSync(new)
  BY SyncInFrames DEF AtSync, Runs
<1> HIDE DEF n
<1>4. k # 0
  <2>1. Matched(r, ln, n, 0, a, b) => ln[1].batch = NextBatch(a)
    BY <1>0, <1>2, MatchedBehind
  <2>2. NextBatch(a) # a
    BY NextBatchStep
  <2> QED
    BY <1>1, <2>1, <2>2
<1>5. k = 1 /\ Matched(r, ln, n, 1, a, b) /\ 1 \in 1 .. n /\ 1 \in 0 .. n
  BY <1>0, <1>1, <1>4 DEF Reading
<1>6. Matched(new, ln, n, 1, a, b)
  BY <1>0, <1>3, <1>5, MatchedSame
<1>7. Matched(new, lnew, n - 1, 0, a, b)
  <2>2. Matched(r, lnew, n - 1, 1 - 1, a, b)
    BY <1>0, <1>5, MatchedPopped
  <2>3. 1 - 1 = 0 /\ n - 1 \in Nat /\ 0 \in 0 .. n - 1
    BY <1>0
  <2>4. Matched(r, lnew, n - 1, 0, a, b)
    BY <2>2, <2>3
  <2> DEFINE m == n - 1
  <2>5. m \in Nat /\ 0 \in 0 .. m /\ Matched(r, lnew, m, 0, a, b)
    BY <2>3, <2>4
  <2> HIDE DEF m
  <2>6. Matched(new, lnew, m, 0, a, b)
    BY <1>3, <2>5, MatchedSame
  <2> QED
    BY <2>6 DEF m
<1>8. Reading(new, lnew, 0, "Skipping", FALSE, "No")
  BY <1>3 DEF Reading
<1>9. 0 \in 0 .. Len(lnew) /\ Matched(new, lnew, Len(lnew), 0, a, b)
  BY <1>0, <1>7
<1> QED
  BY <1>2, <1>8, <1>9 DEF Followed

(* The server discards a request.                                          *)
LEMMA FollowedDiscards ==
    ASSUME NEW r \in Seq(Frames), NEW new, Runs(r, new), Len(r) > 0,
           NEW ln, Len(ln) \in Nat, NEW a, NEW b, NEW pr, NEW sk, sk, NEW st,
           Followed(r, ln, a, b, pr, sk, st)
    PROVE  Followed(new, ln, a, b, pr, ~ r[1].sync, st)
<1> DEFINE n == Len(ln)
<1>1. PICK k \in 0 .. n : Matched(r, ln, n, k, a, b) /\ Reading(r, ln, k, pr, sk, st)
  BY DEF Followed
<1>2. pr = "Skipping" /\ st = "No"
  BY <1>1 DEF Reading
<1>3. r[1].sync => AtSync(new)
  BY DEF Runs, AtSync
<1>4. Shaped(new)
  BY ShapedRuns DEF Followed
<1>5. n \in Nat
  OBVIOUS
<1> DEFINE k2 == Count(k, r[1])
<1> HIDE DEF n
<1>6. k2 \in 0 .. n /\ Matched(new, ln, n, k2, a, b)
  BY <1>1, <1>5, MatchedFirst, MatchedRan
<1> HIDE DEF k2
<1>7. Reading(new, ln, k2, pr, ~ r[1].sync, st)
  BY <1>2, <1>3 DEF Reading
<1> QED
  BY <1>4, <1>6, <1>7 DEF Followed, n

(* A reply the server has skipped is failed as the batch settles.          *)
LEMMA FollowedSkips ==
    ASSUME NEW r \in Seq(Frames), AtSync(r),
           NEW ln, Len(ln) \in Nat, Len(ln) > 0, NEW a \in 0 .. Batches - 1, ln[1].batch = a,
           NEW b, NEW sk, NEW st, Followed(r, ln, a, b, "Skipping", sk, st),
           NEW lnew, Len(lnew) = Len(ln) - 1, Shorter(Len(ln), ln, lnew)
    PROVE  Followed(r, lnew, a, b, "Skipping", sk, st)
<1> DEFINE n == Len(ln)
<1>0. n \in Nat /\ n > 0 /\ Shorter(n, ln, lnew) /\ Len(lnew) = n - 1 /\ Shaped(r)
  BY DEF Followed
<1>1. PICK k \in 0 .. n : Matched(r, ln, n, k, a, b) /\ Reading(r, ln, k, "Skipping", sk, st)
  BY DEF Followed
<1> HIDE DEF n
<1>4. k # 0
  <2>1. Matched(r, ln, n, 0, a, b) => ln[1].batch = NextBatch(a)
    BY <1>0, MatchedBehind
  <2>2. NextBatch(a) # a
    BY NextBatchStep
  <2> QED
    BY <1>1, <2>1, <2>2
<1>5. k \in 1 .. n /\ k - 1 \in 0 .. n - 1
  BY <1>0, <1>1, <1>4
<1>6. Matched(r, lnew, n - 1, k - 1, a, b)
  BY <1>0, <1>1, <1>5, MatchedPopped
<1>7. Reading(r, lnew, k - 1, "Skipping", sk, st)
  BY <1>1 DEF Reading
<1> QED
  BY <1>0, <1>5, <1>6, <1>7 DEF Followed

(* The batch is closed, with the reply that stayed or with none.           *)
LEMMA FollowedTurns ==
    ASSUME NEW r \in Seq(Frames), NEW new, Loses(r, new), AtSync(r), NEW ln, Len(ln) \in Nat,
           NEW a, NEW b, NEW pr \in {"Running", "Complete", "Skipping"}, NEW sk, NEW st,
           Followed(r, ln, a, b, pr, sk, st), NEW lnew,
           \/ /\ pr = "Complete" /\ Len(lnew) = Len(ln) - 1 /\ Shorter(Len(ln), ln, lnew)
           \/ /\ pr # "Complete" /\ lnew = ln /\ (Len(ln) = 0 \/ ln[1].batch # a)
    PROVE  Followed(new, lnew, NextBatch(a), b, "Running", FALSE, "No")
<1> DEFINE n == Len(ln)
           c == Len(lnew)
<1>1. PICK k \in 0 .. n : Matched(r, ln, n, k, a, b) /\ Reading(r, ln, k, pr, sk, st)
  BY DEF Followed
<1>2. Shaped(new) /\ n \in Nat
  BY ShapedLoses DEF Followed
<1>3. c \in Nat /\ 0 \in 0 .. c /\ Matched(r, lnew, c, 0, a, b)
  <2>1. CASE pr = "Complete"
    <3>1. k = 1 /\ c = n - 1 /\ Shorter(n, ln, lnew)
      BY <1>1, <2>1 DEF Reading
    <3> HIDE DEF n, c
    <3>2. 1 \in 1 .. n /\ n - 1 \in Nat /\ Matched(r, ln, n, 1, a, b) /\ 1 - 1 = 0
      BY <1>1, <1>2, <3>1
    <3>3. Matched(r, lnew, n - 1, 1 - 1, a, b)
      BY <1>2, <3>1, <3>2, MatchedPopped
    <3> QED
      BY <1>2, <3>1, <3>2, <3>3
  <2>2. CASE pr # "Complete"
    <3>1. lnew = ln /\ (n = 0 \/ ln[1].batch # a) /\ c = n
      BY <2>2
    <3>2. k = 0
      <4>1. \A i \in 1 .. k : ln[i].batch = a
        BY <1>1 DEF Matched, Left
      <4> HIDE DEF n
      <4>2. k # 0 => 1 \in 1 .. k /\ n # 0
        BY <1>1, <1>2
      <4> QED
        BY <3>1, <4>1, <4>2
    <3> QED
      BY <1>1, <1>2, <3>1, <3>2
  <2> QED
    BY <2>1, <2>2
<1> HIDE DEF n, c
<1>4. Matched(new, lnew, c, 0, NextBatch(a), b)
  BY <1>3, MatchedTurned
<1>5. Reading(new, lnew, 0, "Running", FALSE, "No")
  BY DEF Reading
<1> QED
  BY <1>2, <1>3, <1>4, <1>5 DEF Followed, c

(* What is understood: the batch settles.                                  *)
LEMMA FollowedSettles ==
    ASSUME NEW r \in Seq(Frames), AtSync(r), NEW ln, Len(ln) \in Nat, NEW a, NEW b,
           NEW pr \in {"Running", "Complete", "Skipping"}, NEW sk, NEW st,
           Followed(r, ln, a, b, pr, sk, st)
    PROVE  /\ pr = "Complete" => Len(ln) > 0 /\ ln[1].batch = a /\ ln[1].kind # "Command"
           /\ pr = "Running" /\ Len(ln) > 0 => ln[1].batch = NextBatch(a)
           /\ pr = "Skipping" /\ Len(ln) > 0 => ln[1].batch \in {a, NextBatch(a)}
<1> DEFINE n == Len(ln)
<1>1. PICK k \in 0 .. n : Matched(r, ln, n, k, a, b) /\ Reading(r, ln, k, pr, sk, st)
  BY DEF Followed
<1>2. Shaped(r) /\ n \in Nat
  BY DEF Followed
<1>3. \A i \in 1 .. k : ln[i].batch = a
  BY <1>1 DEF Matched, Left
<1> HIDE DEF n
<1>4. ASSUME k = 0, n > 0 PROVE ln[1].batch = NextBatch(a)
  <2>1. Matched(r, ln, n, 0, a, b)
    BY <1>1, <1>4
  <2> QED
    BY <1>2, <1>4, <2>1, MatchedBehind
<1>5. k # 0 => ln[1].batch = a /\ n > 0
  <2>1. k # 0 => 1 \in 1 .. k /\ n > 0
    BY <1>1, <1>2
  <2> QED
    BY <1>3, <2>1
<1>6. pr = "Running" => k = 0
  BY <1>1 DEF Reading
<1>7. pr = "Complete" => k = 1 /\ ln[1].kind # "Command"
  BY <1>1 DEF Reading
<1> QED
  BY <1>4, <1>5, <1>6, <1>7 DEF n

-----------------------------------------------------------------------------
(* What is due, and what its transaction is, as the requests change        *)

After(st, r) == (IF st = "No" THEN <<>> ELSE <<SyncFrame>>) \o r

LEMMA AfterType ==
    ASSUME NEW st, NEW r \in Seq(Frames)
    PROVE  /\ After(st, r) \in Seq(Frames) /\ Len(After(st, r)) \in Nat
           /\ st = "No" => After(st, r) = r
           /\ st # "No" => /\ Len(After(st, r)) = Len(r) + 1 /\ After(st, r)[1] = SyncFrame
                           /\ \A i \in 1 .. Len(r) : After(st, r)[i + 1] = r[i]
<1>1. CASE st = "No"
  <2>1. After(st, r) = <<>> \o r
    BY <1>1 DEF After
  <2>2. <<>> \o r = r
    BY ConcatEmptySeq
  <2> QED
    BY <1>1, <2>1, <2>2
<1>2. CASE st # "No"
  <2> DEFINE w == <<SyncFrame>>
  <2>1. w \in Seq(Frames) /\ Len(w) = 1 /\ w[1] = SyncFrame
    BY SyncInFrames
  <2>2. After(st, r) = w \o r
    BY <1>2 DEF After
  <2> HIDE DEF w
  <2>3. /\ Len(r) \in Nat
        /\ w \o r \in Seq(Frames) /\ Len(w \o r) = Len(w) + Len(r)
        /\ \A i \in 1 .. Len(w) + Len(r) :
              (w \o r)[i] = IF i <= Len(w) THEN w[i] ELSE r[i - Len(w)]
    <3>1. w \in Seq(Frames) /\ r \in Seq(Frames)
      BY <2>1
    <3> QED
      BY <3>1, ConcatProperties
  <2>4. \A i \in 1 .. Len(r) : i + 1 \in 1 .. 1 + Len(r) /\ ~ (i + 1 <= 1) /\ (i + 1) - 1 = i
    BY <2>3
  <2>5. \A i \in 1 .. Len(r) : (w \o r)[i + 1] = r[i]
    BY <2>1, <2>3, <2>4
  <2>6. (w \o r)[1] = SyncFrame /\ Len(w \o r) = Len(r) + 1
    BY <2>1, <2>3
  <2> QED
    BY <1>2, <2>2, <2>3, <2>5, <2>6
<1> QED
  BY <1>1, <1>2

LEMMA AfterSettles ==
    ASSUME NEW st, st # "No", NEW r \in Seq(Frames)
    PROVE  AtSync(After(st, r)) /\ Loses(After(st, r), r)
<1>1. /\ Len(After(st, r)) = Len(r) + 1 /\ After(st, r)[1] = SyncFrame /\ Len(r) \in Nat
      /\ \A i \in 1 .. Len(r) : After(st, r)[i + 1] = r[i]
  BY AfterType
<1> QED
  BY <1>1 DEF AtSync, Loses

LEMMA AfterGains ==
    ASSUME NEW st, NEW r \in Seq(Frames), NEW new \in Seq(Frames), NEW f, Gains(r, new, f)
    PROVE  Gains(After(st, r), After(st, new), f)
<1> DEFINE m == Len(r)
           x == After(st, r)
           y == After(st, new)
<1>0. m \in Nat /\ Len(new) = m + 1 /\ new[m + 1] = f /\ \A i \in 1 .. m : new[i] = r[i]
  BY DEF Gains
<1>1. CASE st = "No"
  BY <1>1, AfterType
<1>2. CASE st # "No"
  <2>1. /\ Len(x) = m + 1 /\ x[1] = SyncFrame /\ \A i \in 1 .. m : x[i + 1] = r[i]
        /\ Len(y) = Len(new) + 1 /\ y[1] = SyncFrame
        /\ \A i \in 1 .. Len(new) : y[i + 1] = new[i]
    BY <1>2, AfterType
  <2> HIDE DEF m, x, y
  <2>2. y[(m + 1) + 1] = f /\ Len(y) = (m + 1) + 1
    BY <1>0, <2>1
  <2>3. ASSUME NEW i \in 1 .. m + 1 PROVE y[i] = x[i]
    <3>1. CASE i = 1
      BY <2>1, <3>1
    <3>2. CASE i # 1
      <4>1. i - 1 \in 1 .. m /\ i - 1 \in 1 .. m + 1 /\ (i - 1) + 1 = i
        BY <1>0, <3>2
      <4> QED
        BY <1>0, <2>1, <4>1
    <3> QED
      BY <3>1, <3>2
  <2> QED
    BY <2>1, <2>2, <2>3 DEF Gains, x, y
<1> QED
  BY <1>1, <1>2

(* A Sync that is answered is one that is settled.                         *)
LEMMA AfterSync ==
    ASSUME NEW st, st # "No", NEW r \in Seq(Frames), NEW new \in Seq(Frames), Loses(r, new),
           r[1] = SyncFrame
    PROVE  After(st, new) = r
<1> DEFINE x == After(st, new)
<1>1. /\ Len(x) = Len(new) + 1 /\ x[1] = SyncFrame /\ x \in Seq(Frames)
      /\ \A i \in 1 .. Len(new) : x[i + 1] = new[i]
  BY AfterType
<1>2. /\ Len(new) = Len(r) - 1 /\ Len(r) \in Nat /\ Len(r) > 0
      /\ \A i \in 1 .. Len(new) : new[i] = r[i + 1]
  BY DEF Loses
<1> HIDE DEF x
<1>3. ASSUME NEW i \in 1 .. Len(r) PROVE x[i] = r[i]
  <2>1. CASE i = 1
    BY <1>1, <2>1
  <2>2. CASE i # 1
    <3>1. i - 1 \in 1 .. Len(new) /\ (i - 1) + 1 = i
      BY <1>2, <2>2
    <3> QED
      BY <1>1, <1>2, <3>1
  <2> QED
    BY <2>1, <2>2
<1>4. Len(x) = Len(r)
  BY <1>1, <1>2
<1> QED
  BY <1>1, <1>3, <1>4, SeqEqual DEF x

LEMMA DueNow ==
    ASSUME PoolTypes, NEW s \in Slot
    PROVE  /\ Due(s) = After(settling[s], Requests(s)) /\ Requests(s) \in Seq(Frames)
           /\ Due(s) \in Seq(Frames) /\ Len(Due(s)) \in Nat
           /\ settling[s] = "No" => Due(s) = Requests(s)
           /\ settling[s] # "No" => AtSync(Due(s)) /\ Loses(Due(s), Requests(s))
<1>1. Requests(s) \in Seq(Frames) /\ Due(s) = After(settling[s], Requests(s))
  BY RequestsType DEF Due, After
<1> QED
  BY <1>1, AfterType, AfterSettles

LEMMA DueNext ==
    ASSUME PoolTypes', NEW s \in Slot
    PROVE  /\ Due(s)' = After(settling'[s], Requests(s)') /\ Requests(s)' \in Seq(Frames)
           /\ Due(s)' \in Seq(Frames) /\ Len(Due(s)') \in Nat
           /\ settling'[s] = "No" => Due(s)' = Requests(s)'
<1>1. Requests(s)' \in Seq(Frames) /\ Due(s)' = After(settling'[s], Requests(s)')
  BY RequestsNext DEF Due, After
<1> DEFINE x == settling'[s]
           y == Requests(s)'
<1>2. y \in Seq(Frames) /\ Due(s)' = After(x, y)
  BY <1>1
<1> HIDE DEF x, y
<1>3. After(x, y) \in Seq(Frames) /\ Len(After(x, y)) \in Nat /\ (x = "No" => After(x, y) = y)
  BY <1>2, AfterType
<1> QED
  BY <1>2, <1>3 DEF x, y

LEMMA DueSame ==
    ASSUME NEW s, Wired(s), settling'[s] = settling[s]
    PROVE  Due(s)' = Due(s)
BY SameRequests DEF Due

-----------------------------------------------------------------------------
(* What is due says what transaction the server is in                      *)

LEMMA LosesEnds ==
    ASSUME NEW r \in Seq(Frames), NEW new, Loses(r, new)
    PROVE  /\ ~ Ends(r) => ~ Ends(new)
           /\ Len(r) = 1 => ~ Ends(new)
<1>1. /\ Len(r) \in Nat /\ Len(new) = Len(r) - 1
      /\ \A i \in 1 .. Len(new) : new[i] = r[i + 1] /\ i + 1 \in 1 .. Len(r)
  BY DEF Loses
<1>2. ASSUME ~ Ends(r) PROVE ~ Ends(new)
  <2>1. \A j \in 1 .. Len(r) : r[j].does \notin {"Commit", "Rollback"}
    BY <1>2 DEF Ends
  <2>2. \A i \in 1 .. Len(new) : new[i].does \notin {"Commit", "Rollback"}
    BY <1>1, <2>1
  <2> QED
    BY <2>2 DEF Ends
<1>3. ASSUME Len(r) = 1 PROVE ~ Ends(new)
  <2>1. Len(new) = 0
    BY <1>1, <1>3
  <2> QED
    BY <2>1 DEF Ends
<1> QED
  BY <1>2, <1>3

(* The server runs the first request, and goes to transaction t2.          *)
LEMMA InsideServed ==
    ASSUME NEW r \in Seq(Frames), NEW new, Runs(r, new), NEW a, NEW t, NEW pr, NEW ln,
           Inside(a, r, t, pr, ln), NEW t2, NEW pr2, NEW ln2,
           a = "Held" => t2 # Nobody, a = "Finalizing" => t2 = Nobody,
           a = "Reserved" /\ t2 # Nobody => pr2 = "Complete" /\ ln2[1].kind = "Begin"
    PROVE  Inside(a, new, t2, pr2, ln2)
<1>1. ASSUME ~ Ends(r) PROVE ~ Ends(new)
  <2>1. CASE r[1].sync
    <3>1. /\ Len(new) = Len(r) /\ new[1] = SyncFrame /\ Len(r) \in Nat
          /\ \A i \in 2 .. Len(r) : new[i] = r[i]
      BY <2>1 DEF Runs
    <3>2. \A i \in 1 .. Len(r) : i = 1 \/ i \in 2 .. Len(r)
      BY <3>1
    <3> QED
      BY <1>1, <3>1, <3>2, SyncInFrames DEF Ends
  <2>2. CASE ~ r[1].sync
    BY <1>1, <2>2, LosesEnds DEF Runs
  <2> QED
    BY <2>1, <2>2
<1>2. ASSUME Final(r, t), t2 = Nobody PROVE Final(new, t2)
  <2>1. Len(new) = 1 /\ new[1] = SyncFrame
    BY <1>2 DEF Final, Runs
  <2> QED
    BY <1>2, <2>1, SyncInFrames DEF Final
<1> QED
  BY <1>1, <1>2 DEF Inside

(* A request is added that ends no transaction.                            *)
LEMMA InsideGains ==
    ASSUME NEW r \in Seq(Frames), NEW new, NEW f, Gains(r, new, f),
           f.does \notin {"Commit", "Rollback"}, ~ Ends(r), NEW a, a # "Finalizing", NEW t,
           a = "Held" => t # Nobody, a = "Reserved" => t = Nobody, NEW pr, NEW ln
    PROVE  Inside(a, new, t, pr, ln)
<1>1. /\ Len(r) \in Nat /\ Len(new) = Len(r) + 1 /\ new[Len(r) + 1] = f
      /\ \A i \in 1 .. Len(r) : new[i] = r[i]
  BY DEF Gains
<1>2. \A i \in 1 .. Len(new) : i \in 1 .. Len(r) \/ i = Len(r) + 1
  BY <1>1
<1>3. ~ Ends(new)
  BY <1>1, <1>2 DEF Ends
<1> QED
  BY <1>3 DEF Inside

(* The end of the transaction is the only request.                         *)
LEMMA InsideFinishes ==
    ASSUME NEW r \in Seq(Frames), Len(r) = 0, NEW new, NEW f, Gains(r, new, f), f.sync,
           f.does \in {"Commit", "Rollback"}, NEW t, NEW pr, NEW ln
    PROVE  Inside("Finalizing", new, t, pr, ln)
<1>1. Len(new) = 1 /\ new[1] = f
  BY DEF Gains
<1> QED
  BY <1>1 DEF Inside, Final

(* The batch is settled, and the access passes on from a to a2.            *)
LEMMA InsideTurned ==
    ASSUME NEW r \in Seq(Frames), NEW new, Loses(r, new), NEW a, NEW t, NEW pr, NEW ln,
           Inside(a, r, t, pr, ln), NEW a2, NEW pr2, NEW ln2,
           a2 # "Finalizing", a2 = "Held" => t # Nobody, a2 = "Reserved" => t = Nobody
    PROVE  Inside(a2, new, t, pr2, ln2)
<1>1. ~ Ends(new)
  BY LosesEnds DEF Inside, Final
<1> QED
  BY <1>1 DEF Inside

-----------------------------------------------------------------------------
(* The reply in front *)

LEMMA FrontMet ==
    ASSUME PoolTypes, NEW s \in Slot, Len(lane[s]) > 0, lane[s][1].batch = sbatch[s]
    PROVE  Front(s) = lane[s][1].kind /\ Front(s) \notin {"None", "Stale"}
           /\ lane[s] # <<>> /\ Head(lane[s]) = lane[s][1]
<1>1. /\ lane[s] \in Seq(Replies) /\ sbatch[s] \in 0 .. Batches - 1 /\ lane[s] # <<>>
  BY DEF PoolTypes, LaneTypes, SessionTypes
<1>2. Head(lane[s]) = lane[s][1] /\ lane[s][1] \in Replies
  BY <1>1, LaneTail
<1> DEFINE a == lane[s][1].batch
           k == lane[s][1].kind
           ahead == (a - sbatch[s]) % Batches
<1>3. a \in 0 .. Batches - 1 /\ k \in {"Command", "Ready", "Begin", "Commit"}
  BY <1>2 DEF Replies
<1>4. Front(s) = IF ahead = 0 THEN k
                 ELSE IF ahead <= (Batches - 1) \div 2 THEN "None" ELSE "Stale"
  BY <1>1, <1>2 DEF Front
<1>5. ahead = 0 <=> a = sbatch[s]
  BY <1>1, <1>3, ModZero
<1> HIDE DEF ahead
<1>6. Front(s) = k
  BY <1>4, <1>5
<1> QED
  BY <1>1, <1>2, <1>3, <1>6

(* Every reply of the batch is taken: the next is not stale.               *)
LEMMA FrontBehind ==
    ASSUME PoolTypes, NEW s \in Slot,
           Len(lane[s]) = 0 \/ lane[s][1].batch = NextBatch(sbatch[s])
    PROVE  Front(s) = "None"
<1>1. lane[s] \in Seq(Replies) /\ sbatch[s] \in 0 .. Batches - 1
  BY DEF PoolTypes, LaneTypes, SessionTypes
<1>2. CASE lane[s] = <<>>
  BY <1>2 DEF Front
<1>3. CASE lane[s] # <<>>
  <2>1. Head(lane[s]) = lane[s][1] /\ Len(lane[s]) > 0
    BY <1>1, <1>3, LaneTail
  <2> DEFINE a == sbatch[s]
             b == NextBatch(a)
             ahead == (b - a) % Batches
  <2>2. Front(s) = IF ahead = 0 THEN lane[s][1].kind
                   ELSE IF ahead <= (Batches - 1) \div 2 THEN "None" ELSE "Stale"
    BY <1>3, <2>1 DEF Front
  <2>3. a \in 0 .. Batches - 1 /\ b = NextBatch(a)
    BY <1>1
  <2>4. Batches \in Nat /\ Batches > 2
    BY PoolAssumption
  <2> HIDE DEF a, b
  <2>n. b = IF a + 1 = Batches THEN 0 ELSE a + 1
    BY <2>3, <2>4 DEF NextBatch
  <2>5. ahead = 1
    <3>1. CASE b = a + 1
      <4>1. b - a = 1
        BY <2>3, <3>1
      <4>2. 1 % Batches = 1
        BY <2>4
      <4> QED
        BY <4>1, <4>2
    <3>2. CASE b = 0 /\ a + 1 = Batches
      <4>1. b - a = 1 - Batches
        BY <2>3, <2>4, <3>2
      <4>2. (1 - Batches) % Batches = 1
        BY <2>4
      <4> QED
        BY <4>1, <4>2
    <3> QED
      BY <2>n, <3>1, <3>2
  <2>6. 1 <= (Batches - 1) \div 2
    BY <2>4
  <2> HIDE DEF ahead
  <2> QED
    BY <2>2, <2>5, <2>6
<1> QED
  BY <1>2, <1>3

-----------------------------------------------------------------------------
(* What leaves a connection as it was, or closes it *)

Followings == \A s \in Slot : Follows(s)

(* All that Follows speaks of is as it was.                                *)
Still(r) ==
    /\ Wired(r) /\ lane'[r] = lane[r] /\ phase'[r] = phase[r] /\ access'[r] = access[r]
    /\ sync'[r] = sync[r] /\ batch'[r] = batch[r] /\ session'[r] = session[r]
    /\ settling'[r] = settling[r] /\ sbatch'[r] = sbatch[r]
    /\ progress'[r] = progress[r] /\ skip'[r] = skip[r]

LEMMA FollowsKept ==
    ASSUME NEW r \in Slot, Follows(r), Still(r)
    PROVE  Follows(r)'
<1>1. Due(r)' = Due(r) /\ txn'[r] = txn[r]
  BY DueSame DEF Still, Wired
<1> DEFINE d == Due(r)
<1>2. /\ phase'[r] = phase[r] /\ access'[r] = access[r] /\ sync'[r] = sync[r]
      /\ batch'[r] = batch[r] /\ lane'[r] = lane[r] /\ session'[r] = session[r]
      /\ settling'[r] = settling[r] /\ sbatch'[r] = sbatch[r]
      /\ progress'[r] = progress[r] /\ skip'[r] = skip[r] /\ d' = d
  BY <1>1 DEF Still
<1>3. /\ session[r] = "Startup" => progress[r] = "Running"
      /\ phase[r] \in {"Vacant", "Handshaking"} => skip[r] = FALSE
      /\ txn[r] # "Stray"
      /\ session[r] = "Ready" =>
            \E b \in 0 .. Batches - 1 :
                /\ Followed(d, lane[r], sbatch[r], b, progress[r], skip[r], settling[r])
                /\ phase[r] = "Ready" => b = batch[r]
      /\ phase[r] = "Ready" =>
            /\ session[r] = "Ready" /\ Open(d, sync[r], skip[r])
            /\ access[r] = "Finalizing" => skip[r] = FALSE
            /\ Inside(access[r], d, txn[r], progress[r], lane[r])
  BY DEF Follows
<1> HIDE DEF d
<1>4. /\ session'[r] = "Startup" => progress'[r] = "Running"
      /\ phase'[r] \in {"Vacant", "Handshaking"} => skip'[r] = FALSE
      /\ txn'[r] # "Stray"
      /\ session'[r] = "Ready" =>
            \E b \in 0 .. Batches - 1 :
                /\ Followed(d', lane'[r], sbatch'[r], b, progress'[r], skip'[r], settling'[r])
                /\ phase'[r] = "Ready" => b = batch'[r]
      /\ phase'[r] = "Ready" =>
            /\ session'[r] = "Ready" /\ Open(d', sync'[r], skip'[r])
            /\ access'[r] = "Finalizing" => skip'[r] = FALSE
            /\ Inside(access'[r], d', txn'[r], progress'[r], lane'[r])
  BY <1>1, <1>2, <1>3
<1> QED
  BY <1>4 DEF Follows, d

LEMMA OthersFollow ==
    ASSUME Followings, NEW s \in Slot, Follows(s)', \A r \in Slot \ {s} : Still(r)
    PROVE  Followings'
<1>1. ASSUME NEW r \in Slot \ {s} PROVE Follows(r)'
  BY <1>1, FollowsKept DEF Followings
<1> QED
  BY <1>1 DEF Followings

LEMMA ReadyFollows ==
    ASSUME NEW s \in Slot, session'[s] = "Ready", txn'[s] # "Stray",
           phase'[s] \in {"Ready", "Closing"}, NEW b \in 0 .. Batches - 1,
           Followed(Due(s)', lane'[s], sbatch'[s], b, progress'[s], skip'[s], settling'[s]),
           phase'[s] = "Ready" =>
               /\ b = batch'[s] /\ Open(Due(s)', sync'[s], skip'[s])
               /\ access'[s] = "Finalizing" => skip'[s] = FALSE
               /\ Inside(access'[s], Due(s)', txn'[s], progress'[s], lane'[s])
    PROVE  Follows(s)'
BY DEF Follows

LEMMA FailedFollows ==
    ASSUME NEW s \in Slot, phase'[s] = "Closing", session'[s] = "Failed", txn'[s] # "Stray"
    PROVE  Follows(s)'
BY DEF Follows

LEMMA QuitFollows ==
    ASSUME NEW s \in Slot, Follows(s), phase'[s] = "Closing", Wired(s), lane'[s] = lane[s],
           session'[s] = session[s], settling'[s] = settling[s], sbatch'[s] = sbatch[s],
           progress'[s] = progress[s], skip'[s] = skip[s]
    PROVE  Follows(s)'
<1>1. Due(s)' = Due(s) /\ txn'[s] = txn[s]
  BY DueSame DEF Wired
<1> DEFINE d == Due(s)
<1>2. d' = d
  BY <1>1
<1>3. /\ session[s] = "Startup" => progress[s] = "Running"
      /\ txn[s] # "Stray"
      /\ session[s] = "Ready" =>
            \E b \in 0 .. Batches - 1 :
                Followed(d, lane[s], sbatch[s], b, progress[s], skip[s], settling[s])
  BY DEF Follows
<1> HIDE DEF d
<1>4. /\ session'[s] = "Startup" => progress'[s] = "Running"
      /\ txn'[s] # "Stray"
      /\ session'[s] = "Ready" =>
            \E b \in 0 .. Batches - 1 :
                Followed(d', lane'[s], sbatch'[s], b, progress'[s], skip'[s], settling'[s])
  BY <1>1, <1>2, <1>3
<1> QED
  BY <1>4 DEF Follows, d

(* The session fails, which no lemma needs to say more of.                 *)
LEMMA FailsFollows ==
    ASSUME PoolInv, NEW s \in Slot, session[s] = "Ready", Fails(s), txn'[s] # "Stray"
    PROVE  Follows(s)'
<1>1. phase'[s] = "Closing" /\ DOMAIN session = Slot
  BY FailsApart DEF PoolInv, PoolTypes, SessionTypes
<1>2. session'[s] = "Failed"
  BY <1>1 DEF Fails
<1> QED
  BY <1>1, <1>2, FailedFollows

-----------------------------------------------------------------------------
(* Connections that come and go *)

LEMMA BindFollows ==
    ASSUME PoolInv, Followings, NEW s \in Slot, Bind(s)
    PROVE  Followings'
<1>0. /\ DOMAIN phase = Slot /\ DOMAIN gen = Slot /\ DOMAIN progress = Slot
      /\ DOMAIN batch = Slot /\ DOMAIN session = Slot /\ DOMAIN sbatch = Slot
  BY DEF PoolInv, PoolTypes, SlotTypes, SessionTypes
<1>1. /\ phase[s] = "Vacant" /\ phase' = [phase EXCEPT ![s] = "Handshaking"]
      /\ gen' = [gen EXCEPT ![s] = @ + 1]
      /\ batch' = [batch EXCEPT ![s] = 0] /\ sbatch' = [sbatch EXCEPT ![s] = 0]
      /\ session' = [session EXCEPT ![s] = "Startup"]
      /\ progress' = [progress EXCEPT ![s] = "Running"]
      /\ UNCHANGED <<access, seq, sync, pending, settling, lane, queue, wire, txn, skip>>
  BY DEF Bind, serverVars
<1>2. skip[s] = FALSE /\ txn[s] # "Stray"
  BY <1>1 DEF Followings, Follows
<1>3. Follows(s)'
  BY <1>0, <1>1, <1>2 DEF Follows
<1>4. \A r \in Slot \ {s} : Still(r)
  BY <1>0, <1>1 DEF Still, Wired
<1> QED
  BY <1>3, <1>4, OthersFollow

LEMMA TryReadyFollows ==
    ASSUME PoolInv, PoolInv', Wires, Followings, NEW s \in Slot, TryReady(s)
    PROVE  Followings'
<1>0. /\ PoolTypes /\ PoolTypes' /\ SlotInv(s) /\ WireInv(s) /\ DOMAIN phase = Slot
      /\ DOMAIN access = Slot /\ DOMAIN seq = Slot /\ DOMAIN session = Slot
      /\ sbatch[s] \in 0 .. Batches - 1
  BY DEF PoolInv, PoolTypes, Core, Wires, SlotTypes, SessionTypes
<1>1. /\ phase[s] = "Handshaking" /\ session[s] = "Startup"
      /\ phase' = [phase EXCEPT ![s] = "Ready"] /\ access' = [access EXCEPT ![s] = "Shared"]
      /\ seq' = [seq EXCEPT ![s] = 0] /\ session' = [session EXCEPT ![s] = "Ready"]
      /\ UNCHANGED <<gen, sync, pending, batch, sbatch, settling, lane, queue, wire, txn, skip,
                     progress>>
  BY DEF TryReady, serverVars
<1>2. /\ settling[s] = "No" /\ Len(Requests(s)) = 0 /\ txn[s] = Nobody
      /\ lane[s] = <<>> /\ batch[s] = sbatch[s] /\ progress[s] = "Running" /\ skip[s] = FALSE
  BY <1>0, <1>1 DEF SlotInv, WireInv, Followings, Follows
<1>3. /\ phase'[s] = "Ready" /\ access'[s] = "Shared" /\ session'[s] = "Ready"
      /\ settling'[s] = "No" /\ txn'[s] = Nobody /\ lane'[s] = <<>> /\ batch'[s] = sbatch'[s]
      /\ sbatch'[s] = sbatch[s] /\ progress'[s] = "Running" /\ skip'[s] = FALSE
      /\ Requests(s)' = Requests(s)
  BY <1>0, <1>1, <1>2 DEF Requests
<1> DEFINE d == Due(s)'
           a == sbatch[s]
<1>4. Len(d) = 0 /\ a \in 0 .. Batches - 1
  BY <1>0, <1>2, <1>3, DueNext
<1>5. txn'[s] # "Stray"
  BY <1>0, <1>1, <1>2, NamesAssumption DEF Followings, Follows
<1> HIDE DEF d
<1> DEFINE ln == <<>>
<1>6. Len(ln) = 0
  OBVIOUS
<1> HIDE DEF ln
<1>7. Matched(d, ln, 0, 0, a, a)
  BY <1>4, MatchedNone
<1>8. Followed(d, ln, a, a, "Running", FALSE, "No")
  <2>1. Shaped(d)
    BY <1>4 DEF Shaped
  <2>2. Reading(d, ln, 0, "Running", FALSE, "No")
    BY DEF Reading
  <2>3. 0 \in 0 .. Len(ln)
    BY <1>6
  <2> QED
    BY <1>6, <1>7, <2>1, <2>2, <2>3 DEF Followed
<1>9. Open(d, sync'[s], FALSE) /\ Inside("Shared", d, Nobody, "Running", ln)
  BY <1>4 DEF Open, Inside, Ends
<1>10. Follows(s)'
  <2>1. Followed(Due(s)', lane'[s], sbatch'[s], a, progress'[s], skip'[s], settling'[s])
    BY <1>3, <1>8 DEF d, ln
  <2>2. /\ a = batch'[s] /\ Open(Due(s)', sync'[s], skip'[s])
        /\ Inside(access'[s], Due(s)', txn'[s], progress'[s], lane'[s])
    BY <1>3, <1>9 DEF d, ln
  <2>3. a \in 0 .. Batches - 1 /\ phase'[s] \in {"Ready", "Closing"} /\ access'[s] # "Finalizing"
    BY <1>3, <1>4
  <2> HIDE DEF a
  <2> QED
    BY <1>3, <1>5, <2>1, <2>2, <2>3, ReadyFollows
<1>11. \A q \in Slot \ {s} : Still(q)
  BY <1>0, <1>1 DEF Still, Wired
<1> QED
  BY <1>10, <1>11, OthersFollow

LEMMA RestFollow ==
    ASSUME Followings, \A r \in Slot : Still(r) \/ Follows(r)'
    PROVE  Followings'
<1>1. ASSUME NEW r \in Slot PROVE Follows(r)'
  BY <1>1, FollowsKept DEF Followings
<1> QED
  BY <1>1 DEF Followings

LEMMA UnchangedFollow ==
    ASSUME Followings,
           UNCHANGED <<phase, access, sync, batch, sessionVars, lane, queue, serverVars>>
    PROVE  Followings'
<1>1. \A r \in Slot : Still(r)
  BY DEF Still, Wired, sessionVars, serverVars
<1> QED
  BY <1>1, RestFollow

(* Slots are closed, and all else is as it was.                            *)
LEMMA ClosedFollow ==
    ASSUME Followings, \A r \in Slot : phase'[r] = "Closing" \/ Apart(r),
           UNCHANGED <<sessionVars, lane, queue, serverVars>>
    PROVE  Followings'
<1>1. ASSUME NEW r \in Slot, phase'[r] = "Closing" PROVE Follows(r)'
  <2>1. /\ Wired(r) /\ lane'[r] = lane[r] /\ session'[r] = session[r] /\ settling'[r] = settling[r]
        /\ sbatch'[r] = sbatch[r] /\ progress'[r] = progress[r] /\ skip'[r] = skip[r]
    BY DEF Wired, sessionVars, serverVars
  <2>2. Follows(r)
    BY DEF Followings
  <2> QED
    BY <1>1, <2>1, <2>2, QuitFollows
<1>2. ASSUME NEW r \in Slot, Apart(r) PROVE Still(r)
  BY <1>2 DEF Still, Apart, Wired, sessionVars, serverVars
<1> QED
  BY <1>1, <1>2, RestFollow

LEMMA QuarantineFollows ==
    ASSUME PoolInv, Followings, NEW s \in Slot, Quarantine(s)
    PROVE  Followings'
<1>1. SlotTypes /\ phase[s] \in {"Handshaking", "Ready"} /\ CloseSlot(s)
      /\ UNCHANGED <<sessionVars, lane, queue, serverVars>>
  BY DEF PoolInv, PoolTypes, Quarantine
<1>2. phase'[s] = "Closing" /\ \A r \in Slot \ {s} : Apart(r)
  BY <1>1, ClosesApart
<1> QED
  BY <1>1, <1>2, ClosedFollow

LEMMA ClosingStepFollows ==
    ASSUME PoolInv, Followings, NEW s \in Slot, Cut(s) \/ ClearRecv(s) \/ ClearSend(s)
    PROVE  Followings'
<1>0. /\ DOMAIN session = Slot /\ DOMAIN settling = Slot /\ DOMAIN lane = Slot
      /\ DOMAIN queue = Slot
  BY DEF PoolInv, PoolTypes, SessionTypes, LaneTypes, WireTypes
<1>1. /\ phase[s] = "Closing" /\ UNCHANGED <<slotVars, progress, sbatch, serverVars>>
      /\ session'[s] = "Failed" /\ txn'[s] = txn[s]
      /\ \A r \in Slot \ {s} : /\ session'[r] = session[r] /\ settling'[r] = settling[r]
                               /\ lane'[r] = lane[r] /\ queue'[r] = queue[r]
  BY <1>0 DEF Cut, ClearRecv, ClearSend, sessionVars, serverVars
<1>2. \A r \in Slot \ {s} : Still(r)
  BY <1>1 DEF Still, Wired, slotVars, serverVars
<1>3. phase'[s] = "Closing" /\ txn'[s] # "Stray"
  BY <1>1 DEF slotVars, Followings, Follows
<1>4. Follows(s)'
  BY <1>1, <1>3, FailedFollows
<1> QED
  BY <1>2, <1>4, OthersFollow

LEMMA DeactivateFollows ==
    ASSUME PoolInv, Followings, NEW s \in Slot, Deactivate(s)
    PROVE  Followings'
<1>0. DOMAIN phase = Slot /\ DOMAIN wire = Slot /\ DOMAIN txn = Slot /\ DOMAIN skip = Slot
  BY DEF PoolInv, PoolTypes, SlotTypes, WireTypes
<1>1. /\ session[s] = "Failed" /\ phase' = [phase EXCEPT ![s] = "Vacant"]
      /\ wire' = [wire EXCEPT ![s] = <<>>] /\ txn' = [txn EXCEPT ![s] = Nobody]
      /\ skip' = [skip EXCEPT ![s] = FALSE]
      /\ UNCHANGED <<access, sync, batch, sessionVars, lane, queue>>
  BY DEF Deactivate
<1>2. /\ session'[s] = "Failed" /\ phase'[s] = "Vacant" /\ skip'[s] = FALSE
      /\ txn'[s] = Nobody
  BY <1>0, <1>1 DEF sessionVars
<1>3. Follows(s)'
  BY <1>2 DEF Follows, Nobody
<1>4. \A r \in Slot \ {s} : Still(r)
  BY <1>0, <1>1 DEF Still, Wired, sessionVars
<1> QED
  BY <1>3, <1>4, OthersFollow

-----------------------------------------------------------------------------
(* Leases that are refused or given up *)

LEMMA BeginRefusedFollows ==
    ASSUME Followings, NEW h, NEW s \in Slot, BeginRefused(h, s)
    PROVE  Followings'
BY UnchangedFollow DEF BeginRefused

LEMMA BeginDrainsFollows ==
    ASSUME PoolInv, Followings, NEW h, NEW s \in Slot, BeginDrains(h, s)
    PROVE  Followings'
<1>0. SlotTypes /\ DOMAIN access = Slot
  BY DEF PoolInv, PoolTypes, SlotTypes
<1>1. Listed(s) /\ UNCHANGED <<sessionVars, lane, queue, serverVars>>
  BY DEF BeginDrains, PicksBegin
<1>2. phase[s] = "Ready" /\ access[s] = "Shared"
  BY <1>1, ListedShared
<1>3. CASE CloseSlot(s)
  <2>1. phase'[s] = "Closing" /\ \A r \in Slot \ {s} : Apart(r)
    BY <1>0, <1>2, <1>3, ClosesApart
  <2> QED
    BY <1>1, <2>1, ClosedFollow
<1>4. CASE /\ access' = [access EXCEPT ![s] = "Draining"]
           /\ UNCHANGED <<phase, gen, seq, sync, pending, batch>>
  <2>1. \A r \in Slot \ {s} : Still(r)
    BY <1>0, <1>1, <1>4 DEF Still, Wired, sessionVars, serverVars
  <2>2. /\ access'[s] = "Draining" /\ Wired(s) /\ phase'[s] = "Ready" /\ lane'[s] = lane[s]
        /\ sync'[s] = sync[s] /\ batch'[s] = batch[s] /\ session'[s] = session[s]
        /\ settling'[s] = settling[s] /\ sbatch'[s] = sbatch[s] /\ txn'[s] = txn[s]
        /\ progress'[s] = progress[s] /\ skip'[s] = skip[s]
    BY <1>0, <1>1, <1>2, <1>4 DEF Wired, sessionVars, serverVars
  <2>3. Due(s)' = Due(s)
    BY <2>2, DueSame
  <2> DEFINE d == Due(s)
  <2>4. d' = d
    BY <2>3
  <2>5. Follows(s)
    BY DEF Followings
  <2>6. PICK b \in 0 .. Batches - 1 :
           /\ Followed(d, lane[s], sbatch[s], b, progress[s], skip[s], settling[s])
           /\ b = batch[s]
    BY <1>2, <2>5 DEF Follows
  <2>7. /\ session[s] = "Ready" /\ txn[s] # "Stray" /\ Open(d, sync[s], skip[s])
        /\ Inside("Shared", d, txn[s], progress[s], lane[s])
    BY <1>2, <2>5 DEF Follows
  <2>8. Inside("Draining", d, txn[s], progress[s], lane[s])
    BY <2>7 DEF Inside
  <2> HIDE DEF d
  <2>9. /\ Followed(d', lane'[s], sbatch'[s], b, progress'[s], skip'[s], settling'[s])
        /\ b = batch'[s] /\ Open(d', sync'[s], skip'[s]) /\ access'[s] # "Finalizing"
        /\ Inside(access'[s], d', txn'[s], progress'[s], lane'[s])
    BY <2>2, <2>4, <2>6, <2>7, <2>8
  <2>10. Follows(s)'
    BY <2>2, <2>7, <2>9, ReadyFollows DEF d
  <2> QED
    BY <2>1, <2>10, OthersFollow
<1> QED
  BY <1>3, <1>4 DEF BeginDrains

LEMMA AbortFollows ==
    ASSUME PoolInv, LeaseInv, Followings, NEW h \in Txs, NEW states, Abort(h, states)
    PROVE  Followings'
<1>1. UNCHANGED <<sessionVars, lane, queue, serverVars>>
  BY DEF Abort
<1>2. \A r \in Slot : phase'[r] = "Closing" \/ Apart(r)
  BY AbortApart
<1> QED
  BY <1>1, <1>2, ClosedFollow

LEMMA FinishDoneFollows ==
    ASSUME Followings, NEW h \in Txs, FinishDone(h)
    PROVE  Followings'
BY UnchangedFollow DEF FinishDone, slotVars

LEMMA BeginDoneFollows ==
    ASSUME PoolInv, LeaseInv, Followings, NEW h \in Txs, BeginDone(h)
    PROVE  Followings'
<1>1. CASE UNCHANGED <<slotVars, sessionVars, lane, queue, serverVars>>
  BY <1>1, UnchangedFollow DEF slotVars
<1>2. CASE Abort(h, {"Reserved", "Held"})
  BY <1>2, AbortFollows
<1> QED
  BY <1>1, <1>2 DEF BeginDone

LEMMA DrainFollows ==
    ASSUME PoolInv, Followings, ~Rogue, NEW s \in Slot, Drain(s)
    PROVE  Followings'
<1>0. PoolTypes /\ DOMAIN wire = Slot /\ DOMAIN queue = Slot
  BY DEF PoolInv, PoolTypes, WireTypes
<1>1. /\ phase[s] = "Ready" /\ queue[s] # <<>>
      /\ wire' = [wire EXCEPT ![s] = Append(@, Head(queue[s]))]
      /\ queue' = [queue EXCEPT ![s] = Tail(@)]
      /\ UNCHANGED <<phase, access, sync, batch, sessionVars, lane, skip, txn>>
  BY DEF Drain, Sent, slotVars
<1>2. Requests(s)' = Requests(s)
  <2>1. wire[s] \in Seq(Frames) /\ queue[s] \in Seq(Frames)
    BY <1>0, RequestsType
  <2>2. Append(wire[s], Head(queue[s])) \o Tail(queue[s]) = wire[s] \o queue[s]
    BY <1>1, <2>1, ConcatDrain
  <2> QED
    BY <1>0, <1>1, <2>2 DEF Requests
<1> DEFINE d == Due(s)
<1>3. d' = d
  BY <1>1, <1>2 DEF Due, sessionVars
<1>4. Follows(s)
  BY DEF Followings
<1>5. PICK b \in 0 .. Batches - 1 :
         /\ Followed(d, lane[s], sbatch[s], b, progress[s], skip[s], settling[s])
         /\ b = batch[s]
  BY <1>1, <1>4 DEF Follows
<1>6. /\ session[s] = "Ready" /\ txn[s] # "Stray" /\ Open(d, sync[s], skip[s])
      /\ access[s] = "Finalizing" => skip[s] = FALSE
      /\ Inside(access[s], d, txn[s], progress[s], lane[s])
  BY <1>1, <1>4 DEF Follows
<1> HIDE DEF d
<1>7. /\ session'[s] = "Ready" /\ txn'[s] # "Stray" /\ phase'[s] \in {"Ready", "Closing"}
      /\ Followed(d', lane'[s], sbatch'[s], b, progress'[s], skip'[s], settling'[s])
      /\ b = batch'[s] /\ Open(d', sync'[s], skip'[s])
      /\ access'[s] = "Finalizing" => skip'[s] = FALSE
      /\ Inside(access'[s], d', txn'[s], progress'[s], lane'[s])
  BY <1>1, <1>3, <1>5, <1>6 DEF sessionVars
<1>8. Follows(s)'
  BY <1>7, ReadyFollows DEF d
<1>9. \A r \in Slot \ {s} : Still(r)
  BY <1>0, <1>1 DEF Still, Wired, sessionVars
<1> QED
  BY <1>8, <1>9, OthersFollow

-----------------------------------------------------------------------------
(* Requests that are added, with the replies that are due for them *)

Joins(s, f) ==
    /\ Len(lane'[s]) = Count(Len(lane[s]), f)
    /\ \A i \in 1 .. Len(lane[s]) : lane'[s][i] = lane[s][i]
    /\ f.does # "Sync" => /\ Suits(lane'[s][Len(lane[s]) + 1], f)
                          /\ lane'[s][Len(lane[s]) + 1].batch = batch[s]

LEMMA PublishJoins ==
    ASSUME PoolTypes, NEW s \in Slot, NEW by, NEW does, does # "Sync", NEW boundary,
           boundary \in {"Close", "Open", "External", "Begin", "Commit"},
           boundary = "External" <=> does = "Copy", does = "Begin" <=> boundary = "Begin",
           NEW ends, NEW ix, Publish(s, by, does, boundary, ends, ix)
    PROVE  Joins(s, Frame(by, does, Closes(boundary)))
<1> DEFINE f == Frame(by, does, Closes(boundary))
           e == [batch |-> batch[s], kind |-> Kind(boundary), by |-> by, ends |-> ends]
           ln == lane[s]
<1>1. ln \in Seq(Replies) /\ Len(ln) \in Nat /\ DOMAIN lane = Slot
  BY RequestsType DEF PoolTypes, LaneTypes
<1>2. lane' = [lane EXCEPT ![s] = Append(@, e)]
  BY DEF Publish
<1>3. lane'[s] = Append(ln, e)
  BY <1>1, <1>2
<1>4. f.does = does /\ f.sync = Closes(boundary) /\ f.by = by
  BY DEF Frame
<1>5. e.by = f.by /\ e.batch = batch[s] /\ e.kind = Kind(boundary)
  BY <1>4
<1>6. /\ e.kind = "Command" <=> ~f.sync /\ f.does # "Copy"
      /\ e.kind = "Begin" <=> f.does = "Begin"
  BY <1>4, <1>5 DEF Kind, Closes
<1> HIDE DEF e, f
<1>7. Suits(e, f)
  BY <1>5, <1>6 DEF Suits
<1>8. Count(Len(ln), f) = Len(ln) + 1
  BY <1>4 DEF Count
<1>9. Len(Append(ln, e)) = Len(ln) + 1 /\ Append(ln, e)[Len(ln) + 1] = e
      /\ \A i \in 1 .. Len(ln) : Append(ln, e)[i] = ln[i]
  BY <1>1
<1>10. Joins(s, f)
  BY <1>3, <1>5, <1>7, <1>8, <1>9 DEF Joins
<1> QED
  BY <1>10 DEF f

(* A request of its own, behind an open one only a Sync.                   *)
LEMMA AddedFollows ==
    ASSUME PoolInv, PoolInv', NEW s \in Slot, Follows(s), phase[s] = "Ready", phase'[s] = "Ready",
           NEW f, Adds(s, f), Joins(s, f), progress'[s] = progress[s], skip'[s] = skip[s],
           sync[s] = "Synced" => f.does # "Sync", sync[s] = "Explicit" => f.does = "Sync",
           f.sync => sync'[s] = "Synced", f.does = "Copy" => sync'[s] = "Explicit",
           access'[s] = "Finalizing" => skip[s] = FALSE,
           Inside(access'[s], Due(s)', txn[s], progress[s], lane'[s])
    PROVE  Follows(s)'
<1> DEFINE r == Due(s)
           new == Due(s)'
           ln == lane[s]
           lnew == lane'[s]
           a == sbatch[s]
           b == batch[s]
           pr == progress[s]
           sk == skip[s]
           st == settling[s]
<1>0. PoolTypes /\ PoolTypes' /\ b \in 0 .. Batches - 1 /\ Len(ln) \in Nat
  BY RequestsType DEF PoolInv, PoolTypes, SlotTypes
<1>1. /\ Gains(Requests(s), Requests(s)', f) /\ settling'[s] = st /\ session'[s] = session[s]
      /\ sbatch'[s] = a /\ txn'[s] = txn[s]
      /\ batch'[s] = IF f.sync THEN NextBatch(b) ELSE b
  BY DEF Adds
<1>2. r \in Seq(Frames) /\ new \in Seq(Frames) /\ Gains(r, new, f)
  <2>1. /\ r = After(st, Requests(s)) /\ new = After(st, Requests(s)')
        /\ Requests(s) \in Seq(Frames) /\ Requests(s)' \in Seq(Frames)
        /\ r \in Seq(Frames) /\ new \in Seq(Frames)
    BY <1>0, <1>1, DueNow, DueNext
  <2> DEFINE x == Requests(s)
             y == Requests(s)'
  <2>2. x \in Seq(Frames) /\ y \in Seq(Frames) /\ Gains(x, y, f)
    BY <1>1, <2>1
  <2> HIDE DEF x, y
  <2>3. Gains(After(st, x), After(st, y), f)
    BY <2>2, AfterGains
  <2> QED
    BY <2>1, <2>3 DEF x, y
<1>3. /\ Followed(r, ln, a, b, pr, sk, st) /\ Open(r, sync[s], sk) /\ session[s] = "Ready"
      /\ txn[s] # "Stray"
  BY DEF Follows
<1>4. /\ Len(lnew) = Count(Len(ln), f)
      /\ \A i \in 1 .. Len(ln) : lnew[i] = ln[i]
      /\ f.does # "Sync" => Suits(lnew[Len(ln) + 1], f) /\ lnew[Len(ln) + 1].batch = b
  BY DEF Joins
<1>5. Inside(access'[s], new, txn[s], pr, lnew)
  OBVIOUS
<1> HIDE DEF r, new, ln, lnew, a, b, pr, sk, st
<1>6. Shaped(new)
  <2>1. Shaped(r)
    BY <1>3 DEF Followed
  <2>2. /\ Len(r) > 0 /\ r[Len(r)].sync => f.does # "Sync"
        /\ Len(r) > 0 /\ r[Len(r)].does = "Copy" => f.does = "Sync"
    BY <1>3 DEF Open
  <2> QED
    BY <1>2, <2>1, <2>2, ShapedGains
<1>7. Followed(new, lnew, a, Number(b, f), pr, sk, st)
  BY <1>0, <1>2, <1>3, <1>4, <1>6, FollowedGains
<1>8. Number(b, f) = batch'[s] /\ Number(b, f) \in 0 .. Batches - 1
  BY <1>0, <1>1, NumberType DEF Number, b
<1>9. Open(new, sync'[s], sk)
  BY <1>2, OpenGains
<1> DEFINE n == Number(b, f)
<1> HIDE DEF n
<1>10. /\ Followed(Due(s)', lane'[s], sbatch'[s], n, progress'[s], skip'[s], settling'[s])
       /\ Open(Due(s)', sync'[s], skip'[s]) /\ n = batch'[s] /\ n \in 0 .. Batches - 1
       /\ access'[s] = "Finalizing" => skip'[s] = FALSE
       /\ Inside(access'[s], Due(s)', txn'[s], progress'[s], lane'[s])
       /\ txn'[s] # "Stray" /\ session'[s] = "Ready"
  BY <1>1, <1>3, <1>5, <1>7, <1>8, <1>9 DEF r, new, ln, lnew, a, b, pr, sk, st, n
<1> QED
  BY <1>10, ReadyFollows

(* What it means for the transaction, unless it ends it.                   *)
LEMMA AddedInside ==
    ASSUME PoolInv, PoolInv', NEW s \in Slot, Follows(s), phase[s] = "Ready",
           NEW f, Adds(s, f), f.does \notin {"Commit", "Rollback"},
           access[s] \in {"Shared", "Held", "Draining"},
           access'[s] = access[s] \/ (access'[s] = "Reserved" /\ txn[s] = Nobody)
    PROVE  Inside(access'[s], Due(s)', txn[s], progress[s], lane'[s])
<1> DEFINE r == Due(s)
           new == Due(s)'
           x == Requests(s)
           y == Requests(s)'
           t == txn[s]
           st == settling[s]
<1>0. PoolTypes /\ PoolTypes'
  BY DEF PoolInv
<1>1. Gains(x, y, f) /\ settling'[s] = st
  BY DEF Adds
<1>2. /\ r = After(st, x) /\ new = After(st, y) /\ r \in Seq(Frames)
      /\ x \in Seq(Frames) /\ y \in Seq(Frames)
  BY <1>0, <1>1, DueNow, DueNext
<1>3. Inside(access[s], r, t, progress[s], lane[s])
  BY DEF Follows
<1> HIDE DEF r, new, x, y, t, st
<1>4. Gains(r, new, f)
  BY <1>1, <1>2, AfterGains
<1>5. ~ Ends(r) /\ (access[s] = "Held" => t # Nobody)
  BY <1>3 DEF Inside
<1> DEFINE a == access'[s]
           pr == progress[s]
           ln == lane'[s]
<1>6. a # "Finalizing" /\ (a = "Held" => t # Nobody) /\ (a = "Reserved" => t = Nobody)
  BY <1>5 DEF t
<1> HIDE DEF a, pr, ln
<1>7. Inside(a, new, t, pr, ln)
  BY <1>2, <1>4, <1>5, <1>6, InsideGains
<1> QED
  BY <1>7 DEF a, pr, ln, new, t

LEMMA AsideStill ==
    ASSUME NEW r, Aside(r), phase'[r] = phase[r], access'[r] = access[r],
           progress' = progress, skip' = skip
    PROVE  Still(r)
BY DEF Aside, Still

LEMMA CallFollows ==
    ASSUME PoolInv, PoolInv', Followings, NEW s \in Slot, NEW c \in Calls, NEW b \in Boundaries,
           Call(c, s, b)
    PROVE  Followings'
<1>0. PoolTypes /\ Follows(s) /\ sync[s] \in {"Synced", "Automatic", "Explicit"}
  BY DEF PoolInv, PoolTypes, SlotTypes, Followings
<1>1. /\ Listed(s) /\ Publish(s, c, Does(b), b, FALSE, index)
      /\ UNCHANGED <<phase, access, sessionVars, serverVars>>
  BY DEF Call, Picks
<1>2. phase[s] = "Ready" /\ access[s] = "Shared"
  BY <1>1, ListedShared
<1>3. /\ Does(b) \in {"Stmt", "Copy"} /\ b \in {"Close", "Open", "External"}
      /\ b = "External" <=> Does(b) = "Copy"
  BY DEF Does, Boundaries
<1> DEFINE d == Does(b)
           ends == FALSE
           f == Frame(c, d, Closes(b))
<1>d. /\ PoolInv /\ s \in Slot /\ c \in Calls \cup Txs /\ d \in {"Stmt", "Copy"} /\ d # "Begin"
      /\ (d = "Begin" => c \in Txs) /\ d \in {"Begin", "Stmt", "Copy", "Commit", "Rollback"}
      /\ b \in {"Close", "Open", "External", "Begin", "Commit"}
      /\ d # "Sync" /\ (b = "External" <=> d = "Copy") /\ (d = "Begin" <=> b = "Begin")
      /\ Publish(s, c, d, b, ends, index) /\ UNCHANGED <<serverVars, sessionVars>>
  BY <1>1, <1>3
<1> HIDE DEF d, ends
<1>4. /\ Adds(s, Frame(c, d, Closes(b)))
      /\ sync'[s] = NextSync(sync[s], b) /\ sync'[s] # "None"
      /\ \A r \in Slot \ {s} : Aside(r)
  BY ONLY <1>d, PublishAdds
<1>5. Joins(s, Frame(c, d, Closes(b)))
  BY ONLY <1>0, <1>d, PublishJoins
<1>6. f.does = d /\ f.sync = Closes(b)
  BY DEF Frame
<1>7. /\ sync[s] # "Explicit" /\ f.does \notin {"Sync", "Commit", "Rollback"}
      /\ f.sync => sync'[s] = "Synced"
      /\ f.does = "Copy" => sync'[s] = "Explicit"
  BY <1>0, <1>3, <1>4, <1>6, <1>d DEF NextSync, Closes
<1>8. /\ progress' = progress /\ skip' = skip /\ phase'[s] = "Ready" /\ access'[s] = access[s]
      /\ access'[s] # "Finalizing"
  BY <1>1, <1>2 DEF sessionVars, serverVars
<1> HIDE DEF f
<1>9. Adds(s, f) /\ Joins(s, f)
  BY <1>4, <1>5 DEF f
<1>10. Inside(access'[s], Due(s)', txn[s], progress[s], lane'[s])
  BY <1>0, <1>2, <1>7, <1>8, <1>9, AddedInside
<1>11. Follows(s)'
  BY <1>0, <1>2, <1>7, <1>8, <1>9, <1>10, AddedFollows
<1>12. \A r \in Slot \ {s} : Still(r)
  BY <1>1, <1>4, <1>8, AsideStill
<1> QED
  BY <1>11, <1>12, OthersFollow

LEMMA TxCallFollows ==
    ASSUME PoolInv, PoolInv', Followings, NEW h \in Txs, NEW b \in Boundaries, TxCall(h, b)
    PROVE  Followings'
<1>1. /\ Current(h, {"Held"}) /\ Publish(target[h].slot, h, Does(b), b, FALSE, index)
      /\ UNCHANGED <<phase, access, sessionVars, serverVars>>
  BY DEF TxCall
<1>2. PICK s \in Slot : target[h].slot = s /\ phase[s] = "Ready" /\ access[s] \in {"Held"}
  BY <1>1, CurrentSlot
<1>0. PoolTypes /\ Follows(s) /\ sync[s] \in {"Synced", "Automatic", "Explicit"}
  BY DEF PoolInv, PoolTypes, SlotTypes, Followings
<1>3. /\ Does(b) \in {"Stmt", "Copy"} /\ b \in {"Close", "Open", "External"}
      /\ b = "External" <=> Does(b) = "Copy"
  BY DEF Does, Boundaries
<1> DEFINE d == Does(b)
           ends == FALSE
           f == Frame(h, d, Closes(b))
<1>d. /\ PoolInv /\ s \in Slot /\ h \in Calls \cup Txs /\ d \in {"Stmt", "Copy"} /\ d # "Begin"
      /\ (d = "Begin" => h \in Txs) /\ d \in {"Begin", "Stmt", "Copy", "Commit", "Rollback"}
      /\ b \in {"Close", "Open", "External", "Begin", "Commit"}
      /\ d # "Sync" /\ (b = "External" <=> d = "Copy") /\ (d = "Begin" <=> b = "Begin")
      /\ Publish(s, h, d, b, ends, index) /\ UNCHANGED <<serverVars, sessionVars>>
  BY <1>1, <1>2, <1>3
<1> HIDE DEF d, ends
<1>4. /\ Adds(s, Frame(h, d, Closes(b)))
      /\ sync'[s] = NextSync(sync[s], b) /\ sync'[s] # "None"
      /\ \A r \in Slot \ {s} : Aside(r)
  BY ONLY <1>d, PublishAdds
<1>5. Joins(s, Frame(h, d, Closes(b)))
  BY ONLY <1>0, <1>d, PublishJoins
<1>6. f.does = d /\ f.sync = Closes(b)
  BY DEF Frame
<1>7. /\ sync[s] # "Explicit" /\ f.does \notin {"Sync", "Commit", "Rollback"}
      /\ f.sync => sync'[s] = "Synced"
      /\ f.does = "Copy" => sync'[s] = "Explicit"
  BY <1>0, <1>3, <1>4, <1>6, <1>d DEF NextSync, Closes
<1>8. /\ progress' = progress /\ skip' = skip /\ phase'[s] = "Ready" /\ access'[s] = access[s]
      /\ access'[s] # "Finalizing"
  BY <1>1, <1>2 DEF sessionVars, serverVars
<1> HIDE DEF f
<1>9. Adds(s, f) /\ Joins(s, f)
  BY <1>4, <1>5 DEF f
<1>10. Inside(access'[s], Due(s)', txn[s], progress[s], lane'[s])
  BY <1>0, <1>2, <1>7, <1>8, <1>9, AddedInside
<1>11. Follows(s)'
  BY <1>0, <1>2, <1>7, <1>8, <1>9, <1>10, AddedFollows
<1>12. \A r \in Slot \ {s} : Still(r)
  BY <1>1, <1>4, <1>8, AsideStill
<1> QED
  BY <1>11, <1>12, OthersFollow

(* A Sync of its own closes an open pipeline.                              *)
LEMMA SyncFollows ==
    ASSUME PoolInv, PoolInv', Followings, Wires, NEW s \in Slot, phase[s] = "Ready",
           sync[s] # "Synced", Adds(s, SyncFrame), sync'[s] = "Synced",
           UNCHANGED <<phase, access, lane, progress, skip>>,
           \A r \in Slot \ {s} : Wired(r) /\ sync'[r] = sync[r] /\ batch'[r] = batch[r],
           UNCHANGED <<session, settling, sbatch>>
    PROVE  Followings'
<1>0. /\ PoolTypes /\ Follows(s) /\ SlotInv(s) /\ ReadyInv(s) /\ access[s] \in Accesses
      /\ sync[s] \in {"Synced", "Automatic", "Explicit"} /\ Len(lane[s]) \in Nat
  BY RequestsType DEF PoolInv, PoolTypes, SlotTypes, Followings, Core, Wires, WireInv
<1>1. access[s] \in {"Shared", "Held", "Draining"}
  BY <1>0 DEF SlotInv, ReadyInv, Accesses
<1> DEFINE f == SyncFrame
<1>2. f.does = "Sync" /\ f.sync = TRUE /\ Adds(s, f)
  BY DEF SyncFrame, Frame
<1> HIDE DEF f
<1>3. Joins(s, f)
  BY <1>0, <1>2 DEF Joins, Count
<1>4. Inside(access'[s], Due(s)', txn[s], progress[s], lane'[s])
  BY <1>0, <1>1, <1>2, AddedInside
<1>5. Follows(s)'
  BY <1>0, <1>1, <1>2, <1>3, <1>4, AddedFollows
<1>6. \A r \in Slot \ {s} : Still(r)
  BY DEF Still
<1> QED
  BY <1>5, <1>6, OthersFollow

LEMMA CopyFinishFollows ==
    ASSUME PoolInv, PoolInv', Followings, Wires, NEW s \in Slot, CopyFinish(s)
    PROVE  Followings'
<1>0. /\ PoolTypes /\ DOMAIN sync = Slot /\ DOMAIN pending = Slot
      /\ DOMAIN batch = Slot /\ DOMAIN queue = Slot
  BY DEF PoolInv, PoolTypes, SlotTypes, WireTypes
<1>1. /\ phase[s] = "Ready" /\ sync[s] = "Explicit"
      /\ queue' = [queue EXCEPT ![s] = Append(@, SyncFrame)]
      /\ sync' = [sync EXCEPT ![s] = "Synced"]
      /\ pending' = [pending EXCEPT ![s] = @ + 1]
      /\ batch' = [batch EXCEPT ![s] = NextBatch(@)]
      /\ UNCHANGED <<phase, access, sessionVars, lane, serverVars>>
  BY DEF CopyFinish
<1>2. Adds(s, SyncFrame)
  <2>1. wire[s] \in Seq(Frames) /\ queue[s] \in Seq(Frames)
    BY <1>0, RequestsType
  <2>2. Gains(wire[s] \o queue[s], wire[s] \o Append(queue[s], SyncFrame), SyncFrame)
    BY <2>1, SyncInFrames, ConcatGains
  <2>3. Gains(Requests(s), Requests(s)', SyncFrame)
    BY <1>0, <1>1, <2>2 DEF Requests, serverVars
  <2> QED
    BY <1>0, <1>1, <2>3, SyncInFrames DEF Adds, serverVars, sessionVars
<1>3. \A r \in Slot \ {s} : Wired(r) /\ sync'[r] = sync[r] /\ batch'[r] = batch[r]
  BY <1>0, <1>1 DEF Wired, serverVars
<1>4. UNCHANGED <<phase, access, lane, progress, skip>> /\ UNCHANGED <<session, settling, sbatch>>
      /\ sync'[s] = "Synced"
  BY <1>0, <1>1 DEF sessionVars, serverVars
<1> QED
  BY <1>1, <1>2, <1>3, <1>4, SyncFollows

LEMMA FlushFollows ==
    ASSUME PoolInv, PoolInv', Followings, Wires, ~Rogue, NEW s \in Slot, NEW input, Flush(s, input)
    PROVE  Followings'
<1>0. /\ PoolTypes /\ DOMAIN sync = Slot /\ DOMAIN pending = Slot
      /\ DOMAIN batch = Slot /\ DOMAIN wire = Slot
  BY DEF PoolInv, PoolTypes, SlotTypes, WireTypes
<1>1. phase[s] = "Ready" /\ UNCHANGED <<phase, access, sessionVars, lane, queue, txn, skip>>
  BY DEF Flush
<1>2. CASE UNCHANGED <<wire, sync, pending, batch>>
  BY <1>1, <1>2, UnchangedFollow DEF serverVars
<1>3. CASE /\ sync[s] = "Automatic" /\ queue[s] = <<>>
           /\ wire' = Sent(s, SyncFrame)
           /\ sync' = [sync EXCEPT ![s] = "Synced"]
           /\ pending' = [pending EXCEPT ![s] = @ + 1]
           /\ batch' = [batch EXCEPT ![s] = NextBatch(@)]
  <2>1. wire'[s] = Append(wire[s], SyncFrame) /\ \A r \in Slot \ {s} : wire'[r] = wire[r]
    BY <1>0, <1>3 DEF Sent
  <2>2. Gains(Requests(s), Requests(s)', SyncFrame)
    <3> DEFINE w == wire[s]
               x == Append(w, SyncFrame)
    <3>1. w \in Seq(Frames)
      BY <1>0, RequestsType
    <3>2. /\ x \in Seq(Frames) /\ Len(x) = Len(w) + 1 /\ x[Len(w) + 1] = SyncFrame
          /\ \A i \in 1 .. Len(w) : x[i] = w[i]
      BY <3>1, SyncInFrames, AppendProperties
    <3>3. Requests(s) = w \o <<>> /\ Requests(s)' = x \o <<>>
      BY <1>1, <1>3, <2>1 DEF Requests
    <3> HIDE DEF w, x
    <3>4. w \o <<>> = w /\ x \o <<>> = x
      BY <3>1, <3>2, ConcatEmptySeq
    <3> QED
      BY <3>2, <3>3, <3>4 DEF Gains
  <2>3. Adds(s, SyncFrame)
    BY <1>0, <1>1, <1>3, <2>2, SyncInFrames DEF Adds, sessionVars
  <2>4. \A r \in Slot \ {s} : Wired(r) /\ sync'[r] = sync[r] /\ batch'[r] = batch[r]
    BY <1>0, <1>1, <1>3, <2>1 DEF Wired
  <2>5. UNCHANGED <<phase, access, lane, progress, skip>> /\ UNCHANGED <<session, settling, sbatch>>
        /\ sync'[s] = "Synced" /\ sync[s] # "Synced"
    BY <1>0, <1>1, <1>3 DEF sessionVars
  <2> QED
    BY <1>1, <2>3, <2>4, <2>5, SyncFollows
<1> QED
  BY <1>2, <1>3 DEF Flush

LEMMA BeginFollows ==
    ASSUME PoolInv, PoolInv', Followings, Wires, LeaseInv, NEW h \in Txs, NEW s \in Slot,
           Begin(h, s)
    PROVE  Followings'
<1>0. /\ PoolTypes /\ Follows(s) /\ WireInv(s) /\ DOMAIN access = Slot
      /\ sync[s] \in {"Synced", "Automatic", "Explicit"}
      /\ txn[s] \in Txs \cup {Nobody, "Stray"}
  BY DEF PoolInv, PoolTypes, SlotTypes, WireTypes, Followings, Wires
<1>1. /\ sync[s] # "Automatic" /\ Publish(s, h, "Begin", "Begin", TRUE, Detach(index, s))
      /\ UNCHANGED <<serverVars, sessionVars>>
  BY DEF Begin, PicksBegin
<1>2. /\ phase[s] = "Ready" /\ access[s] = "Shared"
      /\ access' = [access EXCEPT ![s] = "Reserved"] /\ phase' = phase
  BY BeginTakes
<1> DEFINE d == "Begin"
           b == "Begin"
           ends == TRUE
           ix == Detach(index, s)
           f == Frame(h, d, Closes(b))
<1>d. /\ PoolInv /\ s \in Slot /\ h \in Calls \cup Txs
      /\ (d = "Begin" => h \in Txs) /\ d \in {"Begin", "Stmt", "Copy", "Commit", "Rollback"}
      /\ b \in {"Close", "Open", "External", "Begin", "Commit"}
      /\ d # "Sync" /\ (b = "External" <=> d = "Copy") /\ (d = "Begin" <=> b = "Begin")
      /\ Publish(s, h, d, b, ends, ix) /\ UNCHANGED <<serverVars, sessionVars>>
      /\ d = "Begin" /\ b = "Begin"
  BY <1>1
<1> HIDE DEF d, b, ends, ix
<1>4. /\ Adds(s, Frame(h, d, Closes(b)))
      /\ sync'[s] = NextSync(sync[s], b) /\ sync'[s] # "None"
      /\ \A r \in Slot \ {s} : Aside(r)
  BY ONLY <1>d, PublishAdds
<1>5. Joins(s, Frame(h, d, Closes(b)))
  BY ONLY <1>0, <1>d, PublishJoins
<1>6. f.does = "Begin" /\ f.sync = TRUE
  BY <1>d DEF Frame, Closes
<1>7. sync[s] = "Synced" /\ sync'[s] = "Synced"
  BY <1>0, <1>1, <1>4, <1>d DEF NextSync
<1>8. /\ progress' = progress /\ skip' = skip /\ phase'[s] = "Ready" /\ access'[s] = "Reserved"
  BY <1>0, <1>1, <1>2 DEF sessionVars, serverVars
<1>9. txn[s] = Nobody
  <2>1. Free("Shared", Requests(s), txn[s], sync[s])
    BY <1>0, <1>2 DEF WireInv, ReadyInv
  <2>2. txn[s] \notin Txs /\ txn[s] # "Stray"
    BY <1>0, <2>1 DEF Free, Follows
  <2> QED
    BY <1>0, <2>2
<1> HIDE DEF f
<1>10. Adds(s, f) /\ Joins(s, f) /\ f.does \notin {"Sync", "Copy", "Commit", "Rollback"}
  BY <1>4, <1>5, <1>6 DEF f
<1>11. Inside(access'[s], Due(s)', txn[s], progress[s], lane'[s])
  BY <1>0, <1>2, <1>8, <1>9, <1>10, AddedInside
<1>12. Follows(s)'
  BY <1>0, <1>2, <1>6, <1>7, <1>8, <1>10, <1>11, AddedFollows
<1>13. \A r \in Slot \ {s} : Still(r)
  BY <1>0, <1>2, <1>4, <1>8, AsideStill
<1> QED
  BY <1>12, <1>13, OthersFollow

LEMMA FinishFollows ==
    ASSUME PoolInv, PoolInv', Followings, Wires, NEW h \in Txs, NEW end \in {"Commit", "Rollback"},
           Finish(h, end)
    PROVE  Followings'
<1> DEFINE b == IF end = "Commit" THEN "Commit" ELSE "Close"
<1>1. /\ Current(h, {"Held"}) /\ Load(target[h].slot) = 0
      /\ access' = [access EXCEPT ![target[h].slot] = "Finalizing"]
      /\ Publish(target[h].slot, h, end, b, TRUE, index)
      /\ UNCHANGED <<phase, sessionVars, serverVars>>
  BY DEF Finish
<1>2. PICK s \in Slot : target[h].slot = s /\ phase[s] = "Ready" /\ access[s] \in {"Held"}
  BY <1>1, CurrentSlot
<1>3. /\ PoolTypes /\ PoolTypes' /\ Follows(s) /\ ReadyInv(s) /\ DOMAIN access = Slot
      /\ sync[s] \in {"Synced", "Automatic", "Explicit"} /\ pending[s] \in Nat
      /\ Len(lane[s]) \in Nat /\ Requests(s) \in Seq(Frames) /\ skip[s] \in BOOLEAN
      /\ Requests(s)' \in Seq(Frames)
  BY <1>2, RequestsType, RequestsNext
     DEF PoolInv, PoolTypes, SlotTypes, WireTypes, Followings, Wires, WireInv
<1>4. pending[s] = 0 /\ sync[s] = "Synced"
  BY <1>1, <1>2, <1>3 DEF Load, Barriers
<1>5. settling[s] = "No" /\ Len(Requests(s)) = 0
  <2> DEFINE r == Requests(s)
  <2>1. /\ pending[s] = Cardinality(Syncs(r)) + (IF settling[s] = "No" THEN 0 ELSE 1) /\ Ended(r)
        /\ r \in Seq(Frames)
    BY <1>3, <1>4 DEF ReadyInv
  <2> HIDE DEF r
  <2>2. Cardinality(Syncs(r)) \in Nat
    BY <2>1, SyncsFinite
  <2>3. Cardinality(Syncs(r)) = 0 /\ settling[s] = "No"
    BY <1>4, <2>1, <2>2
  <2>4. Len(r) = 0
    BY <2>1, <2>3, NoSyncs
  <2> QED
    BY <2>3, <2>4 DEF r
<1>6. skip[s] = FALSE
  <2>1. Open(Due(s), sync[s], skip[s]) /\ Due(s) = Requests(s)
    BY <1>2, <1>3, <1>5, DueNow DEF Follows
  <2> QED
    BY <1>3, <1>4, <1>5, <2>1 DEF Open
<1> DEFINE ends == TRUE
           f == Frame(h, end, Closes(b))
<1>d. /\ PoolInv /\ s \in Slot /\ h \in Calls \cup Txs /\ (end = "Begin" => h \in Txs)
      /\ end \in {"Begin", "Stmt", "Copy", "Commit", "Rollback"}
      /\ b \in {"Close", "Open", "External", "Begin", "Commit"} /\ b \in {"Commit", "Close"}
      /\ end # "Sync" /\ (b = "External" <=> end = "Copy") /\ (end = "Begin" <=> b = "Begin")
      /\ Publish(s, h, end, b, ends, index) /\ UNCHANGED <<serverVars, sessionVars>>
  BY <1>1, <1>2
<1> HIDE DEF b, ends
<1>7. /\ Adds(s, Frame(h, end, Closes(b)))
      /\ sync'[s] = NextSync(sync[s], b) /\ sync'[s] # "None"
      /\ \A r \in Slot \ {s} : Aside(r)
  BY ONLY <1>d, PublishAdds
<1>8. Joins(s, Frame(h, end, Closes(b)))
  BY ONLY <1>3, <1>d, PublishJoins
<1>9. f.does = end /\ f.sync = TRUE /\ sync'[s] = "Synced"
  BY <1>4, <1>7, <1>d DEF Frame, Closes, NextSync
<1>10. /\ progress' = progress /\ skip' = skip /\ phase'[s] = "Ready" /\ access'[s] = "Finalizing"
       /\ \A r \in Slot \ {s} : phase'[r] = phase[r] /\ access'[r] = access[r]
  BY <1>1, <1>2, <1>3 DEF sessionVars, serverVars
<1> HIDE DEF f
<1>11. Adds(s, f) /\ Joins(s, f)
  BY <1>7, <1>8 DEF f
<1>12. Inside(access'[s], Due(s)', txn[s], progress[s], lane'[s])
  <2>1. Due(s)' = Requests(s)'
    BY <1>3, <1>5, <1>11, DueNext DEF Adds
  <2> DEFINE r == Requests(s)
             new == Requests(s)'
             t == txn[s]
             pr == progress[s]
             ln == lane'[s]
  <2>2. r \in Seq(Frames) /\ Len(r) = 0 /\ Gains(r, new, f)
    BY <1>3, <1>5, <1>11 DEF Adds
  <2> HIDE DEF r, new, t, pr, ln
  <2>3. Inside("Finalizing", new, t, pr, ln)
    BY <1>9, <2>2, InsideFinishes
  <2> QED
    BY <1>10, <2>1, <2>3 DEF new, t, pr, ln
<1>13. Follows(s)'
  BY <1>2, <1>3, <1>4, <1>6, <1>9, <1>10, <1>11, <1>12, AddedFollows
<1>14. \A r \in Slot \ {s} : Still(r)
  BY <1>7, <1>10, AsideStill
<1> QED
  BY <1>13, <1>14, OthersFollow

-----------------------------------------------------------------------------
(* Requests the server has run or discarded *)

LEMMA ServedFollows ==
    ASSUME PoolInv, PoolInv', NEW s \in Slot, Follows(s), WireInv(s), session[s] = "Ready",
           settling[s] = "No", Runs(Requests(s), Requests(s)'), Stays(s), session'[s] = "Ready",
           settling'[s] = "No", sbatch'[s] = sbatch[s], NEW b \in 0 .. Batches - 1,
           phase[s] = "Ready" => b = batch[s],
           Followed(Requests(s)', lane'[s], sbatch[s], b, progress'[s], skip'[s], "No"),
           txn'[s] # "Stray",
           phase[s] = "Ready" =>
               /\ access[s] = "Finalizing" => skip'[s] = FALSE /\ txn'[s] = Nobody
               /\ access[s] = "Held" => txn'[s] # Nobody
               /\ access[s] = "Reserved" /\ txn'[s] # Nobody =>
                      progress'[s] = "Complete" /\ lane'[s][1].kind = "Begin"
    PROVE  Follows(s)'
<1>0. PoolTypes /\ PoolTypes' /\ phase[s] \in {"Ready", "Closing"}
  BY ReadsOpen DEF PoolInv
<1>1. /\ Due(s) = Requests(s) /\ Due(s)' = Requests(s)'
      /\ Requests(s) \in Seq(Frames) /\ Requests(s)' \in Seq(Frames)
  BY <1>0, DueNow, DueNext
<1>2. Followed(Due(s)', lane'[s], sbatch'[s], b, progress'[s], skip'[s], settling'[s])
  BY <1>1
<1>3. CASE phase'[s] = "Closing"
  BY <1>2, <1>3, ReadyFollows
<1>4. CASE phase'[s] # "Closing"
  <2>1. /\ phase[s] = "Ready" /\ phase'[s] = "Ready" /\ access'[s] = access[s]
        /\ sync'[s] = sync[s] /\ batch'[s] = batch[s]
    BY <1>0, <1>4 DEF Stays, Apart
  <2> DEFINE r == Requests(s)
             new == Requests(s)'
             a == access[s]
             t == txn[s]
             pr == progress[s]
             ln == lane[s]
             t2 == txn'[s]
             pr2 == progress'[s]
             ln2 == lane'[s]
             sy == sync[s]
             sk == skip[s]
             sk2 == skip'[s]
  <2>2. /\ Open(r, sy, sk) /\ Inside(a, r, t, pr, ln) /\ (sy = "Synced" => Ended(r))
        /\ r \in Seq(Frames) /\ new \in Seq(Frames) /\ Runs(r, new)
    BY <1>1, <2>1 DEF Follows, WireInv, ReadyInv
  <2>3. /\ a = "Finalizing" => t2 = Nobody
        /\ a = "Held" => t2 # Nobody
        /\ a = "Reserved" /\ t2 # Nobody => pr2 = "Complete" /\ ln2[1].kind = "Begin"
    BY <2>1
  <2> HIDE DEF r, new, a, t, pr, ln, t2, pr2, ln2, sy, sk, sk2
  <2>4. Open(new, sy, sk2)
    BY <2>2, OpenRuns
  <2>5. Inside(a, new, t2, pr2, ln2)
    BY <2>2, <2>3, InsideServed
  <2>6. /\ Open(Due(s)', sync'[s], skip'[s]) /\ b = batch'[s]
        /\ access'[s] = "Finalizing" => skip'[s] = FALSE
        /\ Inside(access'[s], Due(s)', txn'[s], progress'[s], lane'[s])
    BY <1>1, <2>1, <2>4, <2>5 DEF new, a, t2, pr2, ln2, sy, sk2
  <2> QED
    BY <1>2, <2>1, <2>6, ReadyFollows
<1> QED
  BY <1>3, <1>4

(* A command that leaves transactions alone.                               *)
LEMMA EffectsKept ==
    ASSUME NEW s, NEW f \in Frames, ~Stray, NEW t \in Effects(s, f), txn[s] # "Stray"
    PROVE  /\ t # "Stray" /\ (t # txn[s] /\ t # Nobody => f.does = "Begin")
           /\ f.does \in {"Commit", "Rollback"} => t = Nobody
           /\ f.does \notin {"Commit", "Rollback"} /\ txn[s] # Nobody => t # Nobody
<1>1. "Stray" \notin Txs /\ Nobody # "Stray" /\ Nobody \notin Txs
  BY NamesAssumption DEF Nobody
<1>2. f.does = "Begin" => f.by \in Txs
  BY DEF Frames
<1>3. CASE f.does = "Begin" /\ txn[s] = Nobody
  BY <1>1, <1>2, <1>3 DEF Effects
<1>4. CASE f.does \in {"Commit", "Rollback"}
  BY <1>1, <1>4 DEF Effects
<1>5. CASE ~ (f.does = "Begin" /\ txn[s] = Nobody) /\ f.does \notin {"Commit", "Rollback"}
  BY <1>1, <1>5 DEF Effects
<1> QED
  BY <1>3, <1>4, <1>5

(* The request in front is met by the reply in front.                      *)
LEMMA Answerable ==
    ASSUME PoolInv, NEW s \in Slot, Follows(s), Reads(s), ~skip[s], At(s).does # "Sync"
    PROVE  /\ progress[s] = "Running" /\ Front(s) = lane[s][1].kind
           /\ Front(s) \notin {"None", "Stale"} /\ lane[s] # <<>> /\ Head(lane[s]) = lane[s][1]
           /\ Suits(lane[s][1], At(s)) /\ Len(lane[s]) > 0 /\ Len(lane[s]) \in Nat
           /\ Requests(s)[1] = At(s) /\ At(s) \in Frames /\ Len(Requests(s)) > 0
           /\ Shaped(Requests(s))
           /\ \E b \in 0 .. Batches - 1 :
                 /\ phase[s] = "Ready" => b = batch[s]
                 /\ Matched(Requests(s), lane[s], Len(lane[s]), 0, sbatch[s], b)
<1>0. PoolTypes /\ session[s] = "Ready" /\ settling[s] = "No" /\ wire[s] # <<>>
  BY DEF PoolInv, Reads, Listens
<1> DEFINE r == Requests(s)
           ln == lane[s]
           a == sbatch[s]
           pr == progress[s]
           sk == skip[s]
           st == settling[s]
<1>1. /\ r \in Seq(Frames) /\ Due(s) = r /\ Len(ln) \in Nat
      /\ pr \in {"Running", "Complete", "Skipping"}
  BY <1>0, RequestsType, DueNow DEF PoolTypes, SessionTypes
<1>2. r[1] = At(s) /\ At(s) \in Frames /\ Len(r) > 0
  <2>1. wire[s] \in Seq(Frames) /\ queue[s] \in Seq(Frames) /\ Head(wire[s]) \in Frames
    BY <1>0, RequestsType, RanTypes
  <2>2. Loses(wire[s] \o queue[s], Tail(wire[s]) \o queue[s])
        /\ (wire[s] \o queue[s])[1] = Head(wire[s])
    BY <1>0, <2>1, ConcatLoses
  <2> QED
    BY <2>1, <2>2 DEF Requests, At, Loses
<1>3. PICK b \in 0 .. Batches - 1 :
         Followed(r, ln, a, b, pr, sk, st) /\ (phase[s] = "Ready" => b = batch[s])
  BY <1>0, <1>1 DEF Follows
<1>4. r[1].does # "Sync"
  BY <1>2
<1>5. ~ sk
  OBVIOUS
<1> HIDE DEF r, ln, a, pr, sk, st
<1>6. pr = "Running" /\ Len(ln) > 0 /\ Suits(ln[1], r[1]) /\ ln[1].batch = a
      /\ Matched(r, ln, Len(ln), 0, a, b)
  <2>1. /\ r \in Seq(Frames) /\ Len(r) > 0 /\ r[1].does # "Sync" /\ Len(ln) \in Nat
        /\ pr \in {"Running", "Complete", "Skipping"} /\ ~ sk
        /\ Followed(r, ln, a, b, pr, sk, st)
    BY <1>1, <1>2, <1>3, <1>4, <1>5
  <2> QED
    BY ONLY <2>1, FollowedCommand
<1>7. Front(s) = lane[s][1].kind /\ Front(s) \notin {"None", "Stale"}
      /\ lane[s] # <<>> /\ Head(lane[s]) = lane[s][1]
  BY <1>0, <1>6, FrontMet DEF ln, a
<1>8. Shaped(r)
  BY <1>3 DEF Followed
<1>9. phase[s] = "Ready" => b = batch[s]
  BY <1>3
<1>10. \E c \in 0 .. Batches - 1 :
          (phase[s] = "Ready" => c = batch[s]) /\ Matched(r, ln, Len(ln), 0, a, c)
  BY <1>6, <1>9
<1> QED
  BY <1>1, <1>2, <1>6, <1>7, <1>8, <1>10 DEF r, ln, a, pr

(* Once a request is run whose reply stays, its Sync is next.              *)
LEMMA RanToSync ==
    ASSUME NEW r \in Seq(Frames), NEW new \in Seq(Frames), Runs(r, new), Shaped(r), Len(r) > 0,
           r[1].sync \/ (r[1].does = "Copy" /\ Len(r) > 1)
    PROVE  AtSync(new)
<1>1. CASE r[1].sync
  BY <1>1 DEF Runs, AtSync
<1>2. CASE ~ r[1].sync /\ r[1].does = "Copy" /\ Len(r) > 1
  <2>1. r[2].does = "Sync"
    BY <1>2 DEF Shaped
  <2>2. new[1] = r[2] /\ Len(new) > 0 /\ r[2] \in Frames
    BY <1>2 DEF Runs, Loses
  <2> QED
    BY <2>1, <2>2 DEF Frames, AtSync
<1> QED
  BY <1>1, <1>2

LEMMA RequestsLonger ==
    ASSUME PoolTypes, NEW s \in Slot
    PROVE  Len(Requests(s)) >= Len(wire[s]) /\ Len(wire[s]) \in Nat
<1> DEFINE w == wire[s]
           q == queue[s]
<1>1. w \in Seq(Frames) /\ q \in Seq(Frames) /\ Requests(s) = w \o q
  BY RequestsType DEF Requests
<1>2. Len(w) \in Nat /\ Len(q) \in Nat
  BY <1>1
<1> HIDE DEF w, q
<1>3. Len(w \o q) = Len(w) + Len(q)
  BY <1>1, ConcatProperties
<1> QED
  BY <1>1, <1>2, <1>3 DEF w

LEMMA CommandCompleteFollows ==
    ASSUME PoolInv, PoolInv', Followings, Wires, ~Stray, NEW s \in Slot,
           NEW tag, CommandComplete(s, tag)
    PROVE  Followings'
<1>0. /\ PoolTypes /\ PoolTypes' /\ SessionTypes /\ WireTypes /\ LaneTypes /\ WireInv(s)
      /\ Follows(s) /\ SlotInv(s)
  BY DEF PoolInv, PoolTypes, Core, Wires, Followings
<1>1. /\ Reads(s) /\ session[s] = "Ready" /\ settling[s] = "No" /\ wire[s] # <<>> /\ Ran(s)
      /\ OnComplete(s, tag) /\ UNCHANGED <<queue, skip>> /\ ~skip[s] /\ At(s).does # "Sync"
      /\ At(s).does = "Copy" => Len(wire[s]) > 1
      /\ tag = "ROLLBACK" => At(s).does = "Commit"
  BY DEF CommandComplete, Reads, Listens
<1>2. PICK t \in Effects(s, At(s)) : txn' = [txn EXCEPT ![s] = t]
  BY DEF CommandComplete
<1>3. txn'[s] = t /\ \A r \in Slot \ {s} : txn'[r] = txn[r]
  BY <1>0, <1>2 DEF WireTypes
<1>4. Stays(s) /\ Lanes(s) /\ Sessions(s)
  BY <1>1, CompleteStays
<1>5. /\ Runs(Requests(s), Requests(s)') /\ \A r \in Slot \ {s} : wire'[r] = wire[r]
  BY <1>0, <1>1, RanRequests
<1> DEFINE r == Requests(s)
           new == Requests(s)'
           ln == lane[s]
           ln2 == lane'[s]
           a == sbatch[s]
           e == lane[s][1]
<1>6. /\ progress[s] = "Running" /\ Front(s) = e.kind
      /\ Front(s) \notin {"None", "Stale"} /\ ln # <<>> /\ Suits(e, At(s))
      /\ Len(ln) > 0 /\ Len(ln) \in Nat /\ r[1] = At(s) /\ At(s) \in Frames /\ Len(r) > 0
      /\ Shaped(r)
  BY <1>0, <1>1, Answerable
<1>7. PICK b \in 0 .. Batches - 1 :
         (phase[s] = "Ready" => b = batch[s]) /\ Matched(r, ln, Len(ln), 0, a, b)
  BY <1>0, <1>1, Answerable
<1>8. /\ r \in Seq(Frames) /\ new \in Seq(Frames) /\ Runs(r, new) /\ r[1].does # "Sync"
      /\ Len(wire[s]) > 1 => Len(r) > 1
  BY <1>0, <1>1, <1>5, <1>6, RequestsLonger, RequestsType, RequestsNext
<1>9. Front(s) # "Command" => AtSync(new)
  <2>1. e.kind = "Command" <=> ~r[1].sync /\ r[1].does # "Copy"
    BY <1>6 DEF Suits
  <2>2. Front(s) # "Command" => r[1].sync \/ (r[1].does = "Copy" /\ Len(r) > 1)
    BY <1>1, <1>6, <1>8, <2>1
  <2> HIDE DEF r, new
  <2> QED
    BY <1>6, <1>8, <2>2, RanToSync
<1>10. /\ e.kind # "Command" /\ AtSync(new) => Followed(new, ln, a, b, "Complete", FALSE, "No")
       /\ Len(ln2) = Len(ln) - 1 /\ Shorter(Len(ln), ln, ln2) =>
             /\ Followed(new, ln2, a, b, "Running", FALSE, "No")
             /\ AtSync(new) => Followed(new, ln2, a, b, "Skipping", FALSE, "No")
  <2> HIDE DEF r, new, ln, ln2, a, e
  <2>1. /\ ln[1].kind # "Command" /\ AtSync(new) =>
                 Followed(new, ln, a, b, "Complete", FALSE, "No")
        /\ \A lnew : Len(lnew) = Len(ln) - 1 /\ Shorter(Len(ln), ln, lnew) =>
                 /\ Followed(new, lnew, a, b, "Running", FALSE, "No")
                 /\ \A sk \in BOOLEAN : sk \/ AtSync(new) =>
                       Followed(new, lnew, a, b, "Skipping", sk, "No")
    BY <1>6, <1>7, <1>8, FollowedRan
  <2>2. e = ln[1] /\ FALSE \in BOOLEAN
    BY DEF e, ln
  <2> QED
    BY <2>1, <2>2
<1>11. ln2 = Tail(ln) => Len(ln2) = Len(ln) - 1 /\ Shorter(Len(ln), ln, ln2)
  BY <1>0, <1>6, RequestsType, LaneTail
<1>12. /\ Followed(new, ln2, a, b, progress'[s], FALSE, "No") /\ session'[s] = "Ready"
       /\ \A q \in Slot \ {s} : progress'[q] = progress[q]
       /\ Front(s) = "Begin" => progress'[s] = "Complete" /\ ln2 = ln
  <2>0. DOMAIN progress = Slot /\ DOMAIN lane = Slot
    BY <1>0 DEF SessionTypes, LaneTypes
  <2>1. CASE progress[s] # "Running" \/ Front(s) \in {"None", "Stale"}
    BY <1>6, <2>1
  <2>2. CASE Front(s) = "Command" /\ Pop(s, "Ok") /\ UNCHANGED sessionVars
    <3>1. ln2 = Tail(ln) /\ progress' = progress /\ session' = session
      BY <2>0, <2>2 DEF Pop, sessionVars
    <3> QED
      BY <1>1, <1>6, <1>10, <1>11, <2>2, <3>1
  <2>3. CASE /\ Front(s) = "Commit" /\ Pop(s, "Err")
             /\ progress' = [progress EXCEPT ![s] = "Skipping"]
             /\ UNCHANGED <<session, sbatch, settling>>
    <3>1. ln2 = Tail(ln) /\ progress'[s] = "Skipping" /\ session' = session
          /\ \A q \in Slot \ {s} : progress'[q] = progress[q]
      BY <2>0, <2>3 DEF Pop
    <3> QED
      BY <1>1, <1>9, <1>10, <1>11, <2>3, <3>1
  <2>4. CASE /\ Front(s) \in {"Ready", "Begin", "Commit"}
             /\ progress' = [progress EXCEPT ![s] = "Complete"]
             /\ UNCHANGED <<session, sbatch, settling, lane>>
    <3>1. ln2 = ln /\ progress'[s] = "Complete" /\ session' = session
          /\ \A q \in Slot \ {s} : progress'[q] = progress[q]
      BY <2>0, <2>4
    <3> QED
      BY <1>1, <1>6, <1>9, <1>10, <2>4, <3>1
  <2> QED
    BY <1>1, <2>1, <2>2, <2>3, <2>4 DEF OnComplete
<1>13. /\ t # "Stray" /\ (t # txn[s] /\ t # Nobody => At(s).does = "Begin")
       /\ At(s).does \in {"Commit", "Rollback"} => t = Nobody
       /\ At(s).does \notin {"Commit", "Rollback"} /\ txn[s] # Nobody => t # Nobody
  BY <1>0, <1>6, EffectsKept DEF Follows
<1>14. phase[s] = "Ready" =>
           /\ access[s] = "Finalizing" => skip'[s] = FALSE /\ txn'[s] = Nobody
           /\ access[s] = "Held" => txn'[s] # Nobody
           /\ access[s] = "Reserved" /\ txn'[s] # Nobody =>
                  progress'[s] = "Complete" /\ lane'[s][1].kind = "Begin"
  <2> SUFFICES ASSUME phase[s] = "Ready"
               PROVE  /\ access[s] = "Finalizing" => skip'[s] = FALSE /\ txn'[s] = Nobody
                      /\ access[s] = "Held" => txn'[s] # Nobody
                      /\ access[s] = "Reserved" /\ txn'[s] # Nobody =>
                             progress'[s] = "Complete" /\ lane'[s][1].kind = "Begin"
    OBVIOUS
  <2>1. Due(s) = r /\ skip[s] = FALSE
    BY <1>0, <1>1, DueNow DEF WireTypes
  <2>2. Inside(access[s], r, txn[s], progress[s], ln)
    BY <1>0, <2>1 DEF Follows
  <2>3. CASE access[s] = "Finalizing"
    <3>1. Final(r, txn[s])
      BY <2>2, <2>3 DEF Inside
    <3>2. r[1].does \in {"Commit", "Rollback"}
      BY <1>8, <3>1 DEF Final, SyncFrame, Frame
    <3> QED
      BY <1>1, <1>3, <1>6, <1>13, <2>1, <2>3, <3>2
  <2>4. CASE access[s] = "Held"
    <3>1. ~ Ends(r) /\ txn[s] # Nobody
      BY <2>2, <2>4 DEF Inside
    <3>2. r[1].does \notin {"Commit", "Rollback"}
      BY <1>6, <1>8, <3>1 DEF Ends
    <3> QED
      BY <1>3, <1>6, <1>13, <2>4, <3>1, <3>2
  <2>5. CASE access[s] = "Reserved" /\ txn'[s] # Nobody
    <3>1. txn[s] = Nobody
      BY <1>6, <2>2, <2>5 DEF Inside
    <3>2. Front(s) = "Begin"
      BY <1>3, <1>6, <1>13, <2>5, <3>1 DEF Suits
    <3> QED
      BY <1>6, <1>12, <2>5, <3>2
  <2> QED
    BY <2>3, <2>4, <2>5
<1>15. Follows(s)'
  <2>1. skip'[s] = FALSE /\ settling'[s] = "No" /\ sbatch'[s] = sbatch[s] /\ txn'[s] # "Stray"
    BY <1>0, <1>1, <1>3, <1>4, <1>13 DEF WireTypes, Sessions
  <2>2. Followed(Requests(s)', lane'[s], sbatch[s], b, progress'[s], skip'[s], "No")
    BY <1>12, <2>1
  <2> QED
    BY <1>0, <1>1, <1>4, <1>5, <1>7, <1>12, <1>14, <2>1, <2>2, ServedFollows
<1>16. \A q \in Slot \ {s} : Still(q)
  <2>1. \A q \in Slot \ {s} : Quiet(q)
    BY <1>1, <1>3, <1>4, <1>5, SessionQuiet DEF Wired
  <2> QED
    BY <1>1, <1>12, <2>1 DEF Still, Quiet, Apart
<1> QED
  BY <1>15, <1>16, OthersFollow

LEMMA DiscardFollows ==
    ASSUME PoolInv, PoolInv', Followings, Wires, NEW s \in Slot, Discard(s)
    PROVE  Followings'
<1>0. /\ PoolTypes /\ PoolTypes' /\ WireTypes /\ WireInv(s) /\ Follows(s)
  BY DEF PoolInv, PoolTypes, Wires, Followings
<1>1. /\ session[s] = "Ready" /\ settling[s] = "No" /\ wire[s] # <<>> /\ Ran(s) /\ skip[s]
      /\ skip' = [skip EXCEPT ![s] = ~At(s).sync]
      /\ UNCHANGED <<slotVars, sessionVars, lane, queue, txn>>
  BY DEF Discard, Reads, Listens
<1>2. Stays(s) /\ \A r \in Slot : Apart(r)
  BY <1>0, <1>1 DEF Stays, Apart, slotVars
<1>3. /\ Requests(s)[1] = At(s) /\ Runs(Requests(s), Requests(s)')
      /\ \A r \in Slot \ {s} : wire'[r] = wire[r]
  BY <1>0, <1>1, RanRequests
<1>4. skip'[s] = ~At(s).sync /\ \A r \in Slot \ {s} : skip'[r] = skip[r]
  BY <1>0, <1>1 DEF WireTypes
<1> DEFINE r == Requests(s)
           new == Requests(s)'
           ln == lane[s]
           a == sbatch[s]
           pr == progress[s]
           sk == skip[s]
           st == settling[s]
<1>5. /\ r \in Seq(Frames) /\ Due(s) = r /\ Len(ln) \in Nat /\ Runs(r, new) /\ sk
      /\ Len(r) > 0
  <2>1. wire[s] \in Seq(Frames) /\ Len(wire[s]) > 0
    BY <1>0, <1>1, RequestsType
  <2>2. Len(r) > 0
    BY <1>0, <2>1, RequestsLonger
  <2> QED
    BY <1>0, <1>1, <1>3, <2>2, RequestsType, DueNow
<1>6. PICK b \in 0 .. Batches - 1 :
         Followed(r, ln, a, b, pr, sk, st) /\ (phase[s] = "Ready" => b = batch[s])
  BY <1>0, <1>1, <1>5 DEF Follows
<1>7. phase[s] = "Ready" =>
          /\ access[s] # "Finalizing" /\ (access[s] = "Held" => txn[s] # Nobody)
          /\ access[s] = "Reserved" => txn[s] = Nobody
  <2>1. pr = "Skipping"
    BY <1>1, <1>6 DEF Followed, Reading
  <2> QED
    BY <1>0, <1>1, <2>1 DEF Follows, Inside
<1>8. Followed(new, ln, a, b, pr, ~ r[1].sync, st)
  <2> HIDE DEF r, new, ln, a, pr, sk, st
  <2> QED
    BY <1>5, <1>6, FollowedDiscards
<1>9. /\ Followed(Requests(s)', lane'[s], sbatch[s], b, progress'[s], skip'[s], "No")
      /\ session'[s] = "Ready" /\ settling'[s] = "No" /\ sbatch'[s] = sbatch[s]
      /\ txn'[s] # "Stray" /\ txn'[s] = txn[s]
  BY <1>0, <1>1, <1>3, <1>4, <1>8 DEF sessionVars, Follows
<1>10. Follows(s)'
  BY <1>0, <1>1, <1>2, <1>3, <1>6, <1>7, <1>9, ServedFollows
<1>11. \A q \in Slot \ {s} : Still(q)
  BY <1>1, <1>2, <1>3, <1>4 DEF Still, Apart, Wired, sessionVars
<1> QED
  BY <1>10, <1>11, OthersFollow

(* The reply an error takes is that of the request, or one that stayed for *)
(* its Sync.                                                               *)
LEMMA ErrorTakes ==
    ASSUME PoolInv, PoolInv', NEW s \in Slot, Follows(s), Reads(s), ~skip[s],
           At(s).does = "Sync" => progress[s] # "Skipping",
           Runs(Requests(s), Requests(s)'), Front(s) \notin {"None", "Stale"},
           lane'[s] = Tail(lane[s]), queue' = queue
    PROVE  \E b \in 0 .. Batches - 1 :
              /\ phase[s] = "Ready" => b = batch[s]
              /\ Followed(Requests(s)', lane'[s], sbatch[s], b, "Skipping", ~At(s).sync, "No")
<1> DEFINE r == Requests(s)
           new == Requests(s)'
           ln == lane[s]
           ln2 == lane'[s]
           a == sbatch[s]
           pr == progress[s]
           sk == skip[s]
           st == settling[s]
           sk2 == ~At(s).sync
<1>0. /\ PoolTypes /\ PoolTypes' /\ session[s] = "Ready" /\ settling[s] = "No" /\ wire[s] # <<>>
      /\ pr \in {"Running", "Complete", "Skipping"} /\ a \in 0 .. Batches - 1
  BY DEF PoolInv, PoolTypes, SessionTypes, Reads, Listens
<1>1. /\ r \in Seq(Frames) /\ new \in Seq(Frames) /\ Runs(r, new) /\ Due(s) = r
      /\ Len(ln) \in Nat /\ ln \in Seq(Replies)
  BY <1>0, RequestsType, RequestsNext, DueNow
<1>2. r[1] = At(s) /\ At(s) \in Frames /\ Len(r) > 0
  <2>1. r[1] = At(s) /\ At(s) \in Frames
    BY <1>0, RanRequests
  <2>2. Len(wire[s]) > 0
    BY <1>0, RequestsType
  <2> QED
    BY <1>0, <1>1, <2>1, <2>2, RequestsLonger
<1>3. ln # <<>> /\ ln[1].batch = a
  BY <1>0, FrontKind
<1>4. Len(ln2) = Len(ln) - 1 /\ Shorter(Len(ln), ln, ln2) /\ Len(ln) > 0
  BY <1>1, <1>3, LaneTail
<1>5. sk2 \in BOOLEAN /\ (sk2 <=> ~r[1].sync)
  BY <1>2 DEF Frames
<1>6. CASE At(s).does # "Sync"
  <2>1. Shaped(r)
    BY <1>0, <1>6, Answerable
  <2>2. PICK b \in 0 .. Batches - 1 :
           (phase[s] = "Ready" => b = batch[s]) /\ Matched(r, ln, Len(ln), 0, a, b)
    BY <1>0, <1>6, Answerable
  <2>3. r[1].does # "Sync" /\ (~sk2 => AtSync(new))
    BY <1>1, <1>2, <1>5, <1>6 DEF Runs, AtSync
  <2> HIDE DEF r, new, ln, ln2, a, pr, sk, st, sk2
  <2>4. \A lnew : Len(lnew) = Len(ln) - 1 /\ Shorter(Len(ln), ln, lnew) =>
            \A x \in BOOLEAN : x \/ AtSync(new) => Followed(new, lnew, a, b, "Skipping", x, "No")
    BY <1>1, <1>2, <1>4, <2>1, <2>2, <2>3, FollowedRan
  <2>5. Followed(new, ln2, a, b, "Skipping", sk2, "No")
    BY <1>4, <1>5, <2>3, <2>4
  <2> QED
    BY <2>2, <2>5 DEF new, ln2, a, sk2
<1>7. CASE At(s).does = "Sync"
  <2>1. r[1] = SyncFrame /\ AtSync(r) /\ sk2 = FALSE /\ pr \in {"Running", "Complete"}
    BY <1>0, <1>2, <1>7 DEF Frames, AtSync, SyncFrame, Frame
  <2>2. PICK b \in 0 .. Batches - 1 :
           (phase[s] = "Ready" => b = batch[s]) /\ Followed(r, ln, a, b, pr, sk, st)
    BY <1>0, <1>1 DEF Follows
  <2> HIDE DEF r, new, ln, ln2, a, pr, sk, st, sk2
  <2>3. Followed(new, ln2, a, b, "Skipping", FALSE, "No")
    BY <1>0, <1>1, <1>3, <1>4, <2>1, <2>2, FollowedFails
  <2>4. Followed(new, ln2, a, b, "Skipping", sk2, "No")
    BY <2>1, <2>3
  <2> QED
    BY <2>2, <2>4 DEF new, ln2, a, sk2
<1> QED
  BY <1>6, <1>7

LEMMA ErrorResponseFollows ==
    ASSUME PoolInv, PoolInv', Followings, Wires, ~Stray, NEW s \in Slot,
           NEW scope, ErrorResponse(s, scope)
    PROVE  Followings'
<1>0. /\ PoolTypes /\ PoolTypes' /\ SessionTypes /\ WireTypes /\ LaneTypes /\ WireInv(s)
      /\ Follows(s)
  BY DEF PoolInv, PoolTypes, Wires, Followings
<1>1. /\ Reads(s) /\ session[s] = "Ready" /\ settling[s] = "No" /\ wire[s] # <<>> /\ Ran(s)
      /\ OnError(s, scope) /\ queue' = queue /\ ~skip[s]
      /\ At(s).does = "Sync" => progress[s] # "Skipping" /\ txn[s] = Nobody
      /\ skip' = [skip EXCEPT ![s] = ~At(s).sync]
      /\ txn' \in {txn, [txn EXCEPT ![s] = Nobody]}
      /\ IF At(s).does \in {"Commit", "Rollback"} THEN txn'[s] = Nobody ELSE txn' = txn
  BY DEF ErrorResponse, Reads, Listens
<1>2. /\ txn'[s] \in {txn[s], Nobody} /\ \A r \in Slot \ {s} : txn'[r] = txn[r]
      /\ skip'[s] = ~At(s).sync /\ \A r \in Slot \ {s} : skip'[r] = skip[r]
  BY <1>0, <1>1 DEF WireTypes
<1>3. Stays(s) /\ Lanes(s) /\ Sessions(s)
  BY <1>1, ErrorStays
<1>4. /\ Runs(Requests(s), Requests(s)') /\ \A r \in Slot \ {s} : wire'[r] = wire[r]
      /\ Requests(s)[1] = At(s) /\ At(s) \in Frames
  BY <1>0, <1>1, RanRequests
<1>5. txn'[s] # "Stray"
  BY <1>0, <1>2 DEF Follows, Nobody
<1>6. \A q \in Slot \ {s} : progress'[q] = progress[q]
  BY <1>0, <1>1 DEF OnError, Fails, SessionTypes
<1>7. ASSUME Fails(s)
      PROVE  Follows(s)'
  BY <1>1, <1>5, <1>7, FailsFollows
<1>8. ASSUME Front(s) \notin {"None", "Stale"}, Pop(s, "Err"),
             progress' = [progress EXCEPT ![s] = "Skipping"],
             UNCHANGED <<session, sbatch, settling>>
      PROVE  Follows(s)'
  <2>1. /\ lane'[s] = Tail(lane[s]) /\ progress'[s] = "Skipping" /\ session'[s] = "Ready"
        /\ settling'[s] = "No" /\ sbatch'[s] = sbatch[s]
    BY <1>0, <1>1, <1>8 DEF Pop, LaneTypes, SessionTypes
  <2>2. PICK b \in 0 .. Batches - 1 :
           /\ phase[s] = "Ready" => b = batch[s]
           /\ Followed(Requests(s)', lane'[s], sbatch[s], b, "Skipping", ~At(s).sync, "No")
    BY <1>0, <1>1, <1>4, <1>8, <2>1, ErrorTakes
  <2>3. Followed(Requests(s)', lane'[s], sbatch[s], b, progress'[s], skip'[s], "No")
    BY <1>2, <2>1, <2>2
  <2>4. phase[s] = "Ready" =>
            /\ access[s] = "Finalizing" => skip'[s] = FALSE /\ txn'[s] = Nobody
            /\ access[s] = "Held" => txn'[s] # Nobody
            /\ access[s] = "Reserved" /\ txn'[s] # Nobody =>
                   progress'[s] = "Complete" /\ lane'[s][1].kind = "Begin"
    <3> SUFFICES ASSUME phase[s] = "Ready"
                 PROVE  /\ access[s] = "Finalizing" => skip'[s] = FALSE /\ txn'[s] = Nobody
                        /\ access[s] = "Held" => txn'[s] # Nobody
                        /\ access[s] = "Reserved" => txn'[s] = Nobody
      OBVIOUS
    <3> DEFINE r == Requests(s)
               f == At(s)
    <3>1. Inside(access[s], r, txn[s], progress[s], lane[s]) /\ Len(r) > 0 /\ Len(r) \in Nat
      <4>1. Due(s) = r /\ Len(wire[s]) > 0 /\ Len(r) \in Nat
        BY <1>0, <1>1, DueNow, RequestsType
      <4> QED
        BY <1>0, <4>1, RequestsLonger DEF Follows
    <3>2. r[1] = f /\ (f.does = "Sync" => f.sync /\ txn[s] = Nobody)
      BY <1>1, <1>4 DEF Frames, SyncFrame, Frame
    <3>3. f.does # "Sync" => progress[s] = "Running"
      BY <1>0, <1>1, Answerable
    <3> HIDE DEF r, f
    <3>4. CASE access[s] = "Finalizing"
      <4>1. f.sync /\ (f.does \in {"Commit", "Rollback"} \/ txn[s] = Nobody)
        BY <3>1, <3>2, <3>4 DEF Inside, Final
      <4> QED
        BY <1>1, <1>2, <3>4, <4>1 DEF f
    <3>5. CASE access[s] = "Held"
      <4>1. ~ Ends(r) /\ txn[s] # Nobody
        BY <3>1, <3>5 DEF Inside
      <4>2. f.does \notin {"Commit", "Rollback"}
        BY <3>1, <3>2, <4>1 DEF Ends
      <4> QED
        BY <1>1, <3>5, <4>1, <4>2 DEF f
    <3>6. CASE access[s] = "Reserved"
      <4>1. txn[s] = Nobody
        BY <3>1, <3>2, <3>3, <3>6 DEF Inside
      <4> QED
        BY <1>2, <3>6, <4>1
    <3> QED
      BY <3>4, <3>5, <3>6
  <2>5. Follows(s)'
    BY <1>0, <1>1, <1>3, <1>4, <1>5, <2>1, <2>2, <2>3, <2>4, ServedFollows
  <2> QED
    BY <2>5
<1>9. Follows(s)'
  BY <1>1, <1>7, <1>8 DEF OnError
<1>10. \A q \in Slot \ {s} : Still(q)
  <2>1. \A q \in Slot \ {s} : Quiet(q)
    BY <1>1, <1>2, <1>3, <1>4, SessionQuiet DEF Wired
  <2> QED
    BY <1>2, <1>6, <2>1 DEF Still, Quiet, Apart
<1> QED
  BY <1>9, <1>10, OthersFollow

-----------------------------------------------------------------------------
(* A batch that is answered, and settled *)

LEMMA ReadyForQueryFollows ==
    ASSUME PoolInv, PoolInv', Followings, Wires, NEW s \in Slot, ReadyForQuery(s)
    PROVE  Followings'
<1>0. /\ PoolTypes /\ PoolTypes' /\ SessionTypes /\ phase[s] \in {"Ready", "Closing"}
      /\ Follows(s) /\ session[s] = "Ready"
  BY ReadsOpen DEF PoolInv, PoolTypes, Followings, ReadyForQuery, Reads, Listens
<1>1. /\ settling[s] = "No" /\ wire[s] # <<>> /\ At(s).does = "Sync" /\ ~skip[s]
      /\ wire' = [wire EXCEPT ![s] = Tail(@)] /\ OnReady(s, Status(s))
      /\ lane' = lane /\ queue' = queue /\ txn' = txn /\ skip' = skip
  BY DEF ReadyForQuery, Reads, Listens
<1>2. /\ Requests(s)[1] = At(s) /\ At(s) \in Frames /\ Loses(Requests(s), Requests(s)')
      /\ \A r \in Slot \ {s} : wire'[r] = wire[r]
  BY <1>0, <1>1, RanRequests
<1>3. Requests(s)[1] = SyncFrame
  BY <1>1, <1>2 DEF Frames
<1>4. Stays(s)
  BY <1>0, <1>1, ReadyStays
<1>5. /\ sbatch' = sbatch
      /\ \A q \in Slot \ {s} : /\ session'[q] = session[q] /\ settling'[q] = settling[q]
                               /\ progress'[q] = progress[q]
  BY <1>0, <1>1 DEF OnReady, Fails, SessionTypes
<1>6. \A q \in Slot \ {s} : Still(q)
  BY <1>1, <1>2, <1>4, <1>5 DEF Still, Wired, Stays, Apart
<1>7. ASSUME Fails(s) PROVE Follows(s)'
  BY <1>0, <1>1, <1>7, FailsFollows DEF Follows
<1>8. ASSUME settling' = [settling EXCEPT ![s] = Status(s)],
             UNCHANGED <<slotVars, indexVars, session, progress, sbatch>>
      PROVE  Follows(s)'
  <2>1. /\ settling'[s] = Status(s) /\ Status(s) # "No" /\ phase'[s] = phase[s]
        /\ access'[s] = access[s] /\ sync'[s] = sync[s] /\ batch'[s] = batch[s]
        /\ session'[s] = "Ready" /\ progress'[s] = progress[s] /\ sbatch'[s] = sbatch[s]
        /\ lane'[s] = lane[s] /\ txn'[s] = txn[s] /\ skip'[s] = skip[s]
    BY <1>0, <1>1, <1>8 DEF SessionTypes, slotVars, Status
  <2>2. Due(s)' = Due(s)
    <3> DEFINE r == Requests(s)
               new == Requests(s)'
               st == settling'[s]
    <3>1. /\ st # "No" /\ r \in Seq(Frames) /\ new \in Seq(Frames) /\ Loses(r, new)
          /\ r[1] = SyncFrame /\ Due(s) = r /\ Due(s)' = After(st, new)
      BY <1>0, <1>1, <1>2, <1>3, <2>1, DueNow, DueNext
    <3> HIDE DEF r, new, st
    <3> QED
      BY <3>1, AfterSync
  <2> DEFINE d == Due(s)
             ln == lane[s]
             a == sbatch[s]
             pr == progress[s]
             st == settling[s]
             st2 == settling'[s]
             sk == skip[s]
  <2>3. PICK b \in 0 .. Batches - 1 :
           Followed(d, ln, a, b, pr, sk, st) /\ (phase[s] = "Ready" => b = batch[s])
    BY <1>0 DEF Follows
  <2>4. ~sk
    BY <1>1
  <2>5. phase[s] = "Ready" =>
            /\ Open(Due(s)', sync'[s], skip'[s])
            /\ access'[s] = "Finalizing" => skip'[s] = FALSE
            /\ Inside(access'[s], Due(s)', txn'[s], progress'[s], lane'[s])
    BY <1>0, <2>1, <2>2 DEF Follows
  <2> HIDE DEF d, ln, a, pr, st, st2, sk
  <2>6. Followed(d, ln, a, b, pr, sk, st2)
    BY <2>3, <2>4 DEF Followed, Reading
  <2>7. Followed(Due(s)', lane'[s], sbatch'[s], b, progress'[s], skip'[s], settling'[s])
    BY <2>1, <2>2, <2>6 DEF d, ln, a, pr, st2, sk
  <2>8. txn'[s] # "Stray" /\ (phase'[s] = "Ready" => b = batch'[s])
    BY <1>0, <2>1, <2>3 DEF Follows
  <2> QED
    BY <1>0, <2>1, <2>5, <2>7, <2>8, ReadyFollows
<1>9. Follows(s)'
  BY <1>1, <1>7, <1>8 DEF OnReady
<1> QED
  BY <1>6, <1>9, OthersFollow

LEMMA SettleFailsFollows ==
    ASSUME PoolInv, Followings, NEW s \in Slot, SettleFails(s)
    PROVE  Followings'
<1>0. SessionTypes /\ Follows(s) /\ session[s] = "Ready"
  BY DEF PoolInv, PoolTypes, Followings, SettleFails
<1>1. Fails(s) /\ UNCHANGED <<lane, queue, serverVars, txVars>>
  BY DEF SettleFails
<1>2. txn' = txn /\ skip' = skip /\ lane' = lane /\ \A r \in Slot : Wired(r)
  BY <1>1, UnansweredWired DEF serverVars
<1>3. Follows(s)'
  BY <1>0, <1>1, <1>2, FailsFollows DEF Follows
<1>4. Stays(s)
  BY <1>0, <1>1, FailsApart
<1>5. /\ sbatch' = sbatch
      /\ \A q \in Slot \ {s} : /\ session'[q] = session[q] /\ settling'[q] = settling[q]
                               /\ progress'[q] = progress[q]
  BY <1>0, <1>1 DEF Fails, SessionTypes
<1>6. \A q \in Slot \ {s} : Still(q)
  BY <1>2, <1>4, <1>5 DEF Still, Stays, Apart
<1> QED
  BY <1>3, <1>6, OthersFollow

LEMMA SettleSkippedFollows ==
    ASSUME PoolInv, PoolInv', Followings, Wires, NEW s \in Slot, SettleSkipped(s)
    PROVE  Followings'
<1>0. /\ PoolTypes /\ WireInv(s) /\ Follows(s) /\ session[s] = "Ready" /\ settling[s] # "No"
      /\ phase[s] \in {"Ready", "Closing"} /\ progress[s] = "Skipping"
      /\ Front(s) \notin {"None", "Stale"} /\ sbatch[s] \in 0 .. Batches - 1
  BY ReadsOpen DEF PoolInv, PoolTypes, SessionTypes, Wires, Followings, SettleSkipped
<1>1. /\ Pop(s, "Err") /\ Reindex(s, Len(lane[s]) - 1, pending[s])
      /\ UNCHANGED <<sessionVars, queue, serverVars, stage, target>>
  BY DEF SettleSkipped
<1>2. /\ Stays(s) /\ Lanes(s) /\ lane[s] # <<>> /\ lane'[s] = Tail(lane[s])
      /\ lane[s][1].batch = sbatch[s]
  BY <1>0, <1>1, ReindexStays, PopLanes, FrontKind
<1>3. /\ \A r \in Slot : Wired(r)
      /\ session' = session /\ settling' = settling /\ sbatch' = sbatch /\ progress' = progress
      /\ skip' = skip /\ txn' = txn
  BY <1>1, UnansweredWired DEF sessionVars, serverVars
<1>4. \A q \in Slot \ {s} : Still(q)
  BY <1>2, <1>3 DEF Still, Stays, Apart, Lanes
<1>5. Due(s)' = Due(s)
  BY <1>3, DueSame
<1> DEFINE d == Due(s)
           ln == lane[s]
           ln2 == lane'[s]
           a == sbatch[s]
           st == settling[s]
           sk == skip[s]
<1>6. PICK b \in 0 .. Batches - 1 :
         Followed(d, ln, a, b, "Skipping", sk, st) /\ (phase[s] = "Ready" => b = batch[s])
  BY <1>0 DEF Follows
<1>7. /\ d \in Seq(Frames) /\ AtSync(d) /\ Len(ln) \in Nat /\ Len(ln) > 0
      /\ ln[1].batch = a /\ a \in 0 .. Batches - 1
      /\ Len(ln2) = Len(ln) - 1 /\ Shorter(Len(ln), ln, ln2)
  BY <1>0, <1>2, DueNow, RequestsType, LaneTail
<1>8. Followed(Due(s)', lane'[s], sbatch'[s], b, progress'[s], skip'[s], settling'[s])
  <2> HIDE DEF d, ln, ln2, a, st, sk
  <2>1. Followed(d, ln2, a, b, "Skipping", sk, st)
    BY <1>6, <1>7, FollowedSkips
  <2> QED
    BY <1>0, <1>3, <1>5, <2>1 DEF d, ln2, a, st, sk
<1> HIDE DEF d, ln, ln2, a, st, sk
<1>9. phase'[s] = "Ready" =>
          /\ b = batch'[s] /\ Open(Due(s)', sync'[s], skip'[s])
          /\ access'[s] = "Finalizing" => skip'[s] = FALSE
          /\ Inside(access'[s], Due(s)', txn'[s], progress'[s], lane'[s])
  <2> SUFFICES ASSUME phase'[s] = "Ready"
               PROVE  /\ b = batch'[s] /\ Open(Due(s)', sync'[s], skip'[s])
                      /\ access'[s] = "Finalizing" => skip'[s] = FALSE
                      /\ Inside(access'[s], Due(s)', txn'[s], progress'[s], lane'[s])
    OBVIOUS
  <2>1. /\ phase[s] = "Ready" /\ access'[s] = access[s] /\ sync'[s] = sync[s]
        /\ batch'[s] = batch[s]
    BY <1>2 DEF Stays, Apart
  <2>2. /\ Open(d, sync[s], skip[s]) /\ (access[s] = "Finalizing" => skip[s] = FALSE)
        /\ Inside(access[s], d, txn[s], "Skipping", ln)
    BY <1>0, <2>1 DEF Follows, d, ln
  <2>3. Inside(access[s], d, txn[s], "Skipping", ln2)
    BY <2>2 DEF Inside
  <2> QED
    BY <1>0, <1>3, <1>5, <1>6, <2>1, <2>2, <2>3 DEF d, ln2
<1>10. txn'[s] # "Stray" /\ phase'[s] \in {"Ready", "Closing"} /\ session'[s] = "Ready"
  BY <1>0, <1>2, <1>3 DEF Follows, Stays, Apart
<1>11. Follows(s)'
  BY <1>8, <1>9, <1>10, ReadyFollows
<1> QED
  BY <1>4, <1>11, OthersFollow

LEMMA SettleDoneFollows ==
    ASSUME PoolInv, PoolInv', Followings, Wires, NEW s \in Slot, SettleDone(s)
    PROVE  Followings'
<1>0. /\ PoolTypes /\ PoolTypes' /\ SessionTypes /\ WireInv(s) /\ Follows(s)
      /\ session[s] = "Ready" /\ settling[s] # "No" /\ phase[s] \in {"Ready", "Closing"}
      /\ sbatch[s] \in 0 .. Batches - 1
      /\ progress[s] \in {"Running", "Complete", "Skipping"} /\ txn[s] # "Stray"
  BY ReadsOpen DEF PoolInv, PoolTypes, SessionTypes, Wires, Followings, Follows, SettleDone
<1>1. /\ Settles(s) /\ IF Retained(s) THEN Pop(s, "Ok") ELSE UNCHANGED <<lane, reply>>
      /\ UNCHANGED <<queue, serverVars, stage, target>>
  BY DEF SettleDone
<1>2. /\ IF Retained(s)
         THEN lane'[s] = Tail(lane[s]) /\ lane[s] # <<>> /\ lane[s][1].batch = sbatch[s]
         ELSE lane'[s] = lane[s]
      /\ Lanes(s)
  <2>1. CASE Retained(s)
    <3>1. Front(s) \notin {"None", "Stale"}
      BY <2>1 DEF Retained
    <3> QED
      BY <1>0, <1>1, <2>1, <3>1, PopLanes, FrontKind
  <2>2. CASE ~ Retained(s)
    BY <1>1, <2>2 DEF Lanes, Shortens
  <2> QED
    BY <2>1, <2>2
<1>3. /\ \A r \in Slot : Wired(r)
      /\ skip' = skip /\ txn' = txn
  BY <1>1, UnansweredWired DEF serverVars
<1> DEFINE Next2 == /\ progress' = [progress EXCEPT ![s] = "Running"]
                    /\ sbatch' = [sbatch EXCEPT ![s] = NextBatch(@)]
                    /\ settling' = [settling EXCEPT ![s] = "No"]
                    /\ session' = session
<1>4. Fails(s) \/ Next2
  BY DEF SettleDone
<1>5. \A q \in Slot \ {s} : Still(q)
  <2>1. \A q \in Slot \ {s} : Apart(q)
    BY SettleDoneApart
  <2>2. \A q \in Slot \ {s} : /\ session'[q] = session[q] /\ settling'[q] = settling[q]
                              /\ progress'[q] = progress[q] /\ sbatch'[q] = sbatch[q]
    BY <1>0, <1>4 DEF Fails, SessionTypes
  <2> QED
    BY <1>2, <1>3, <2>1, <2>2 DEF Still, Apart, Lanes
<1>6. ASSUME Fails(s) PROVE Follows(s)'
  BY <1>0, <1>3, <1>6, FailsFollows
<1>7. ASSUME Next2 PROVE Follows(s)'
  <2>1. /\ progress'[s] = "Running" /\ sbatch'[s] = NextBatch(sbatch[s])
        /\ settling'[s] = "No" /\ session'[s] = "Ready"
    BY <1>0, <1>7 DEF SessionTypes
  <2> DEFINE r == Due(s)
             new == Requests(s)
             ln == lane[s]
             ln2 == lane'[s]
             a == sbatch[s]
             pr == progress[s]
             st == settling[s]
             sk == skip[s]
  <2>2. /\ r \in Seq(Frames) /\ AtSync(r) /\ Loses(r, new) /\ Len(ln) \in Nat
        /\ Due(s)' = new
    <3>1. Due(s)' = Requests(s)' /\ Requests(s)' = Requests(s)
      BY <1>0, <1>3, <2>1, DueNext, SameRequests
    <3> QED
      BY <1>0, <3>1, DueNow, RequestsType
  <2>3. PICK b \in 0 .. Batches - 1 :
           Followed(r, ln, a, b, pr, sk, st) /\ (phase[s] = "Ready" => b = batch[s])
    BY <1>0 DEF Follows
  <2>4. \/ /\ pr = "Complete" /\ Len(ln2) = Len(ln) - 1 /\ Shorter(Len(ln), ln, ln2)
        \/ /\ pr # "Complete" /\ ln2 = ln /\ (Len(ln) = 0 \/ ln[1].batch # a)
    <3>1. CASE Retained(s)
      <4>1. pr = "Complete" /\ ln2 = Tail(ln) /\ ln # <<>> /\ ln \in Seq(Replies)
        BY <1>0, <1>2, <3>1, RequestsType DEF Retained
      <4> HIDE DEF ln, ln2, pr
      <4> QED
        BY <4>1, LaneTail
    <3>2. CASE ~ Retained(s)
      <4>1. pr # "Complete" /\ Front(s) = "None" /\ ln2 = ln
        BY <1>1, <1>2, <3>2 DEF Settles
      <4>2. ln = <<>> \/ ln[1].batch # a
        BY <1>0, <4>1, FrontKind
      <4>3. ln = <<>> => Len(ln) = 0
        OBVIOUS
      <4> QED
        BY <4>1, <4>2, <4>3
    <3> QED
      BY <3>1, <3>2
  <2>5. sk = FALSE
    BY <1>0, <2>3 DEF Followed, Reading, PoolTypes, WireTypes
  <2> HIDE DEF r, new, ln, ln2, a, pr, st, sk
  <2>6. Followed(new, ln2, NextBatch(a), b, "Running", FALSE, "No")
    <3>1. pr \in {"Running", "Complete", "Skipping"}
      BY <1>0 DEF pr
    <3> QED
      BY <2>2, <2>3, <2>4, <3>1, FollowedTurns
  <2>7. Followed(Due(s)', lane'[s], sbatch'[s], b, progress'[s], skip'[s], settling'[s])
    BY <1>3, <2>1, <2>2, <2>5, <2>6 DEF ln2, a, sk
  <2>8. phase'[s] = "Ready" =>
            /\ b = batch'[s] /\ Open(Due(s)', sync'[s], skip'[s])
            /\ access'[s] = "Finalizing" => skip'[s] = FALSE
            /\ Inside(access'[s], Due(s)', txn'[s], progress'[s], lane'[s])
    <3> SUFFICES ASSUME phase'[s] = "Ready"
                 PROVE  /\ b = batch'[s] /\ Open(Due(s)', sync'[s], skip'[s])
                        /\ access'[s] = "Finalizing" => skip'[s] = FALSE
                        /\ Inside(access'[s], Due(s)', txn'[s], progress'[s], lane'[s])
      OBVIOUS
    <3>1. /\ phase[s] = "Ready" /\ sync'[s] = sync[s] /\ batch'[s] = batch[s]
          /\ \/ /\ Changes(s) /\ access'[s] = IF access[s] = "Reserved" THEN "Held" ELSE "Shared"
             \/ ~Changes(s) /\ access'[s] = access[s]
      BY SettleDoneApart DEF Counted
    <3> DEFINE x == access[s]
               x2 == access'[s]
               t == txn[s]
               sy == sync[s]
               pr2 == progress'[s]
    <3>2. /\ Open(r, sy, sk) /\ Inside(x, r, t, pr, ln)
      BY <1>0, <3>1 DEF Follows, r, sk, pr, ln
    <3>3. Settling(s) /\ st \in {"Idle", "Transaction"}
      BY <1>0, <3>1 DEF WireInv, ReadyInv, SessionTypes, st
    <3>4. x2 # "Finalizing" /\ (x2 = "Held" => t # Nobody) /\ (x2 = "Reserved" => t = Nobody)
      BY <3>1, <3>2, <3>3 DEF Changes, Settling, st, Inside
    <3> HIDE DEF x, x2, t, sy, pr2
    <3>5. Open(new, sy, FALSE)
      BY <2>2, <3>2, OpenLoses
    <3>6. Inside(x2, new, t, pr2, ln2)
      BY <2>2, <3>2, <3>4, InsideTurned
    <3> QED
      BY <1>3, <2>2, <2>3, <2>5, <3>1, <3>4, <3>5, <3>6 DEF x2, t, sy, pr2, ln2, sk
  <2>9. phase'[s] \in {"Ready", "Closing"}
    BY SettleDoneApart DEF Counted
  <2> QED
    BY <1>0, <1>3, <2>1, <2>7, <2>8, <2>9, ReadyFollows
<1> HIDE DEF Next2
<1>8. Follows(s)'
  BY <1>4, <1>6, <1>7
<1> QED
  BY <1>5, <1>8, OthersFollow

-----------------------------------------------------------------------------
(* A server that keeps to the protocol is understood *)

LEMMA SyncAccepted ==
    ASSUME PoolInv, NEW s \in Slot, WireInv(s), Follows(s), Reads(s), At(s).does = "Sync",
           phase[s] = "Ready"
    PROVE  Accepts(s, Status(s))
<1>0. /\ PoolTypes /\ ReadyInv(s) /\ session[s] = "Ready" /\ settling[s] = "No" /\ wire[s] # <<>>
      /\ progress[s] \in {"Running", "Complete", "Skipping"} /\ sbatch[s] \in 0 .. Batches - 1
      /\ access[s] \in {"Shared", "Reserved", "Held", "Finalizing", "Draining"}
      /\ txn[s] \in Txs \cup {Nobody}
  BY DEF PoolInv, PoolTypes, SlotTypes, SessionTypes, WireTypes, Core, SlotInv, WireInv, Reads,
         Listens, Accesses, Follows
<1> DEFINE r == Requests(s)
           ln == lane[s]
           a == sbatch[s]
           pr == progress[s]
           t == txn[s]
<1>1. /\ r \in Seq(Frames) /\ Due(s) = r /\ Len(ln) \in Nat /\ Len(r) > 0
      /\ r[1] = SyncFrame /\ AtSync(r)
  <2>1. r \in Seq(Frames) /\ Due(s) = r /\ Len(ln) \in Nat /\ r[1] = At(s) /\ At(s) \in Frames
    <3> DEFINE w == wire[s]
               q == queue[s]
    <3>1. w \in Seq(Frames) /\ q \in Seq(Frames) /\ w # <<>> /\ Head(w) \in Frames
      BY <1>0, RequestsType, RanTypes
    <3>2. r \in Seq(Frames) /\ Due(s) = r /\ Len(ln) \in Nat /\ r = w \o q /\ At(s) = Head(w)
      BY <1>0, DueNow, RequestsType DEF Requests, At
    <3> HIDE DEF w, q, r, ln
    <3>3. (w \o q)[1] = Head(w)
      BY <3>1, ConcatLoses
    <3> QED
      BY <3>1, <3>2, <3>3
  <2>2. Len(wire[s]) > 0 /\ Len(r) >= Len(wire[s]) /\ Len(r) \in Nat /\ Len(wire[s]) \in Nat
    BY <1>0, RequestsType, RequestsLonger
  <2>3. r[1] = SyncFrame
    BY <2>1 DEF Frames
  <2> HIDE DEF r, ln
  <2> QED
    BY <2>1, <2>2, <2>3 DEF AtSync
<1>2. Inside(access[s], r, t, pr, ln)
  BY <1>0, <1>1 DEF Follows
<1>3. PICK b \in 0 .. Batches - 1 : Followed(r, ln, a, b, pr, skip[s], settling[s])
  BY <1>0, <1>1 DEF Follows
<1> HIDE DEF r, ln, a, pr, t
<1>4. ASSUME access[s] = "Held" PROVE t # Nobody
  BY <1>2, <1>4 DEF Inside
<1>5. ASSUME access[s] = "Finalizing" PROVE t = Nobody
  <2>1. r[1].does = "Sync"
    BY <1>1 DEF SyncFrame, Frame
  <2> QED
    BY <1>2, <1>5, <2>1 DEF Inside, Final
<1>6. ASSUME access[s] \in {"Shared", "Draining"} PROVE t = Nobody
  BY <1>0, <1>6 DEF ReadyInv, Free, t
<1>7. ASSUME access[s] = "Reserved", t # Nobody PROVE Front(s) = "Begin"
  <2>1. pr = "Complete" /\ ln[1].kind = "Begin"
    BY <1>2, <1>7 DEF Inside
  <2>2. pr \in {"Running", "Complete", "Skipping"}
    BY <1>0 DEF pr
  <2>3. Len(ln) > 0 /\ ln[1].batch = a
    BY <1>1, <1>3, <2>1, <2>2, FollowedSettles
  <2> QED
    BY <1>0, <2>1, <2>3, FrontMet DEF ln, a
<1> QED
  BY <1>0, <1>4, <1>5, <1>6, <1>7 DEF Accepts, Status, t

LEMMA BatchSettles ==
    ASSUME PoolInv, NEW s \in Slot, Follows(s), session[s] = "Ready", settling[s] # "No"
    PROVE  Settles(s) \/ (progress[s] = "Skipping" /\ Front(s) # "Stale")
<1> DEFINE r == Due(s)
           ln == lane[s]
           a == sbatch[s]
           pr == progress[s]
           sk == skip[s]
           st == settling[s]
<1>0. /\ PoolTypes /\ r \in Seq(Frames) /\ AtSync(r) /\ ln \in Seq(Replies) /\ Len(ln) \in Nat
      /\ pr \in {"Running", "Complete", "Skipping"}
  BY DueNow, RequestsType DEF PoolInv, PoolTypes, SessionTypes
<1>1. PICK b \in 0 .. Batches - 1 : Followed(r, ln, a, b, pr, sk, st)
  BY DEF Follows
<1>2. Len(ln) > 0 => ln[1] \in Replies
  BY <1>0
<1> HIDE DEF r, ln, a, pr, sk, st
<1>3. /\ pr = "Complete" => Len(ln) > 0 /\ ln[1].batch = a /\ ln[1].kind # "Command"
      /\ pr = "Running" /\ Len(ln) > 0 => ln[1].batch = NextBatch(a)
      /\ pr = "Skipping" /\ Len(ln) > 0 => ln[1].batch = a \/ ln[1].batch = NextBatch(a)
  BY <1>0, <1>1, FollowedSettles
<1>4. Len(ln) > 0 /\ ln[1].batch = a => Front(s) = ln[1].kind /\ Front(s) \notin {"None", "Stale"}
  BY <1>0, FrontMet DEF ln, a
<1>5. Len(ln) = 0 \/ ln[1].batch = NextBatch(a) => Front(s) = "None"
  BY <1>0, FrontBehind DEF ln, a
<1>6. CASE pr = "Complete"
  <2>1. Front(s) \in {"Ready", "Begin", "Commit"}
    BY <1>2, <1>3, <1>4, <1>6 DEF Replies
  <2> QED
    BY <1>6, <2>1 DEF Settles, Retained, pr
<1>7. CASE pr = "Running"
  <2>1. Front(s) = "None"
    BY <1>0, <1>3, <1>5, <1>7
  <2> QED
    BY <1>7, <2>1 DEF Settles, pr
<1>8. CASE pr = "Skipping"
  <2>1. Front(s) # "Stale"
    BY <1>0, <1>3, <1>4, <1>5, <1>8
  <2> QED
    BY <1>8, <2>1 DEF pr
<1> QED
  BY <1>0, <1>6, <1>7, <1>8

LEMMA ServerIsUnderstood ==
    ASSUME PoolInv, Wires, Followings
    PROVE  Understood
<1> SUFFICES ASSUME NEW s \in Slot, session[s] = "Ready"
             PROVE  /\ Reads(s) /\ ~skip[s] /\ At(s).does # "Sync" =>
                           /\ progress[s] = "Running" /\ Front(s) \notin {"None", "Stale"}
                           /\ Head(lane[s]).by = At(s).by
                    /\ Reads(s) /\ ~skip[s] /\ At(s).does = "Sync" /\ phase[s] = "Ready" =>
                           Accepts(s, Status(s))
                    /\ settling[s] # "No" =>
                           /\ Settles(s) \/ (progress[s] = "Skipping" /\ Front(s) # "Stale")
                           /\ phase[s] = "Ready" => pending[s] > 0
  BY DEF Understood
<1>0. PoolTypes /\ WireInv(s) /\ Follows(s)
  BY DEF PoolInv, Wires, Followings
<1>1. ASSUME Reads(s), ~skip[s], At(s).does # "Sync"
      PROVE  /\ progress[s] = "Running" /\ Front(s) \notin {"None", "Stale"}
             /\ Head(lane[s]).by = At(s).by
  BY <1>0, <1>1, Answerable DEF Suits
<1>2. ASSUME settling[s] # "No", phase[s] = "Ready" PROVE pending[s] > 0
  <2> DEFINE r == Requests(s)
             n == Cardinality(Syncs(r))
  <2>1. r \in Seq(Frames) /\ pending[s] = n + 1
    BY <1>0, <1>2, RequestsType DEF WireInv, ReadyInv
  <2> HIDE DEF r
  <2>2. n \in Nat
    BY <2>1, SyncsFinite
  <2> HIDE DEF n
  <2> QED
    BY <2>1, <2>2
<1> QED
  BY <1>0, <1>1, <1>2, SyncAccepted, BatchSettles

LEMMA InitFollows == Init => Followings
<1> SUFFICES ASSUME Init, NEW s \in Slot PROVE Follows(s)
  BY DEF Followings
<1>1. /\ session[s] = "Failed" /\ phase[s] = "Vacant" /\ skip[s] = FALSE /\ txn[s] = Nobody
  BY DEF Init
<1> QED
  BY <1>1 DEF Follows, Nobody

LEMMA StepFollows ==
    ASSUME PoolInv, PoolInv', LeaseInv, Wires, Followings, ~Rogue, ~Stray, [Next]_vars
    PROVE  Followings'
<1>1. CASE UNCHANGED vars
  BY <1>1, UnchangedFollow DEF vars, slotVars
<1>2. ASSUME NEW s \in Slot, Bind(s) \/ TryReady(s) \/ Quarantine(s) \/ Cut(s)
      PROVE  Followings'
  BY <1>2, BindFollows, TryReadyFollows, QuarantineFollows, ClosingStepFollows
<1>3. ASSUME NEW s \in Slot, ClearRecv(s) \/ ClearSend(s) \/ Deactivate(s) PROVE Followings'
  BY <1>3, ClosingStepFollows, DeactivateFollows
<1>4. ASSUME NEW s \in Slot, CopyFinish(s) \/ Drain(s) PROVE Followings'
  BY <1>4, CopyFinishFollows, DrainFollows
<1>5. ASSUME NEW s \in Slot, NEW input, Flush(s, input) PROVE Followings'
  BY <1>5, FlushFollows
<1>6. ASSUME NEW s \in Slot, Discard(s) \/ ReadyForQuery(s) PROVE Followings'
  BY <1>6, DiscardFollows, ReadyForQueryFollows
<1>7. ASSUME NEW s \in Slot, SettleSkipped(s) \/ SettleDone(s) \/ SettleFails(s)
      PROVE  Followings'
  BY <1>7, SettleSkippedFollows, SettleDoneFollows, SettleFailsFollows
<1>8. ASSUME NEW s \in Slot, NEW tag, CommandComplete(s, tag) \/ RogueComplete(s, tag)
      PROVE  Followings'
  BY <1>8, CommandCompleteFollows DEF RogueComplete
<1>9. ASSUME NEW s \in Slot, NEW scope, ErrorResponse(s, scope) \/ RogueError(s, scope)
      PROVE  Followings'
  BY <1>9, ErrorResponseFollows DEF RogueError
<1>10. ASSUME NEW s \in Slot, NEW status, RogueReady(s, status) PROVE Followings'
  BY <1>10 DEF RogueReady
<1>11. ASSUME NEW s \in Slot, NEW c \in Calls, NEW b \in Boundaries, Call(c, s, b)
       PROVE  Followings'
  BY <1>11, CallFollows
<1>12. ASSUME NEW s \in Slot, NEW h \in Txs,
              Begin(h, s) \/ BeginRefused(h, s) \/ BeginDrains(h, s)
       PROVE  Followings'
  BY <1>12, BeginFollows, BeginRefusedFollows, BeginDrainsFollows
<1>13. ASSUME NEW h \in Txs, BeginDone(h) \/ FinishDone(h) \/ DropTx(h) PROVE Followings'
  BY <1>13, BeginDoneFollows, FinishDoneFollows, AbortFollows DEF DropTx
<1>14. ASSUME NEW h \in Txs, NEW b \in Boundaries, TxCall(h, b) PROVE Followings'
  BY <1>14, TxCallFollows
<1>15. ASSUME NEW h \in Txs, NEW end \in {"Commit", "Rollback"}, Finish(h, end)
       PROVE  Followings'
  BY <1>15, FinishFollows
<1> QED
  BY <1>1, <1>2, <1>3, <1>4, <1>5, <1>6, <1>7, <1>8, <1>9, <1>10, <1>11, <1>12, <1>13, <1>14,
     <1>15 DEF Next

(* The invariant of the replies: of a server that answers what it was sent *)
(* and of commands that leave transactions alone, the lane of every        *)
(* session holds the replies of what is due, in its order and its batches, *)
(* and the session has read as far as the server has come.                 *)
THEOREM FollowsInvariant == Spec => [](PoolInv /\ LeaseInv /\ RequestsInv /\ FollowsInv)
<1>1. Init => PoolInv /\ LeaseInv /\ RequestsInv /\ FollowsInv
  BY InitPool, InitLease, InitWires, InitFollows DEF RequestsInv, Wires, FollowsInv, Followings
<1>2. /\ PoolInv /\ LeaseInv /\ RequestsInv /\ FollowsInv
      /\ [Next]_vars
      => (PoolInv /\ LeaseInv /\ RequestsInv /\ FollowsInv)'
  <2> SUFFICES ASSUME PoolInv, LeaseInv, RequestsInv, FollowsInv, [Next]_vars
               PROVE  (PoolInv /\ LeaseInv /\ RequestsInv /\ FollowsInv)'
    OBVIOUS
  <2>1. PoolInv'
    BY StepPool
  <2>2. LeaseInv'
    BY <2>1, StepLease
  <2>3. ASSUME ~Rogue PROVE Wires'
    BY <2>1, <2>3, StepWires DEF RequestsInv, Wires
  <2>4. RequestsInv'
    BY <2>3 DEF RequestsInv, Wires
  <2>5. ASSUME ~Rogue, ~Stray PROVE Followings'
    <3>1. Wires /\ Followings
      BY <2>5 DEF RequestsInv, Wires, FollowsInv, Followings
    <3> QED
      BY <2>1, <2>5, <3>1, StepFollows
  <2>6. FollowsInv'
    BY <2>5 DEF FollowsInv, Followings
  <2> QED
    BY <2>1, <2>2, <2>4, <2>6
<1> QED
  BY <1>1, <1>2, PTL DEF Spec

(* Understood, for any number of connections, commands and transactions,   *)
(* if the server answers what it was sent and no command's text opens or   *)
(* ends a transaction: the answer to a request finds the reply of that     *)
(* request in front, of the batch being answered; the status of its Sync   *)
(* agrees with the holder of the connection; and the batch settles.  No    *)
(* order of commands, errors, Syncs and wraps of the batch number makes    *)
(* the session fail such a server.                                         *)
THEOREM UnderstoodCorrect == ~Rogue /\ ~Stray => (Spec => []Understood)
<1>1. ASSUME ~Rogue, ~Stray
      PROVE  PoolInv /\ LeaseInv /\ RequestsInv /\ FollowsInv => Understood
  BY <1>1, ServerIsUnderstood DEF RequestsInv, Wires, FollowsInv, Followings
<1>2. ASSUME ~Rogue, ~Stray PROVE Spec => []Understood
  <2>1. PoolInv /\ LeaseInv /\ RequestsInv /\ FollowsInv => Understood
    BY <1>1, <1>2
  <2> QED
    BY <2>1, FollowsInvariant, PTL
<1> QED
  BY <1>2

=============================================================================
