---------------------------- MODULE PgPoolProofs ----------------------------
(***************************************************************************)
(* Proofs about the PostgreSQL pool, for every number of connections,      *)
(* buckets, generations, commands and transactions, and any server: the    *)
(* ready index is exact, its counters count what they are said to count,   *)
(* its cached minimum is the least rank and the counter of Syncs is        *)
(* bounded by the replies that are due.                                    *)
(***************************************************************************)
EXTENDS PgPool, FiniteSetTheorems, SequenceTheorems, WellFoundedInduction, TLAPS

-----------------------------------------------------------------------------
(* The ready index *)

IndexType == [rank : [Slot -> Unlisted .. Buckets - 1], min : Unlisted .. Buckets - 1]

(* MinimumExact, of any index.                                             *)
MinOf(ix) ==
    /\ ix.min = Unlisted => \A r \in Slot : ix.rank[r] = Unlisted
    /\ ix.min # Unlisted =>
          /\ \E r \in Slot : ix.rank[r] = ix.min
          /\ \A r \in Slot : ix.rank[r] # Unlisted => ix.min <= ix.rank[r]

(* A nonempty set of natural numbers has a least one. *)
LEMMA Least ==
    ASSUME NEW T, T \subseteq Nat, T # {}
    PROVE  \E x \in T : \A y \in T : x <= y
<1> DEFINE R == OpToRel(<, Nat)
<1>1. \A x, y \in Nat : <<y, x>> \in R <=> y < x
  BY DEF OpToRel
<1>2. IsWellFoundedOn(R, Nat)
  BY NatLessThanWellFounded
<1> HIDE DEF R
<1>3. PICK x \in T : \A y \in T : ~ (<<y, x>> \in R)
  BY <1>2, WFMin
<1>4. \A y \in T : y \in Nat /\ x \in Nat /\ ~ (y < x)
  BY <1>1, <1>3, Zenon
<1>5. \A y \in T : x <= y
  BY <1>4
<1> QED
  BY <1>5

(* The row that find returns is the first occupied one. *)
LEMMA FindFromFirst ==
    ASSUME NEW ix \in IndexType, NEW r \in 0 .. Buckets
    PROVE  \/ /\ FindFrom(ix, r) = Unlisted
              /\ \A s \in Slot : ix.rank[s] < r
           \/ /\ FindFrom(ix, r) \in r .. Buckets - 1
              /\ \E s \in Slot : ix.rank[s] = FindFrom(ix, r)
              /\ \A s \in Slot : ix.rank[s] >= r => FindFrom(ix, r) <= ix.rank[s]
<1> DEFINE rows == {q \in r .. Buckets - 1 : Bucket(ix, q) # {}}
<1>0. FindFrom(ix, r) = IF rows = {} THEN Unlisted ELSE CHOOSE q \in rows : \A p \in rows : q <= p
  BY DEF FindFrom
<1>1. /\ rows \subseteq Nat
      /\ \A q \in rows : q \in r .. Buckets - 1 /\ \E s \in Slot : ix.rank[s] = q
  BY PoolAssumption DEF Bucket
<1>2. \A s \in Slot : ix.rank[s] >= r => ix.rank[s] \in rows
  BY PoolAssumption DEF Bucket, IndexType, Unlisted
<1>3. \A s \in Slot : ix.rank[s] \in Int
  BY PoolAssumption DEF IndexType, Unlisted
<1> HIDE DEF rows
<1>4. CASE rows = {}
  BY <1>0, <1>2, <1>3, <1>4, PoolAssumption
<1>5. CASE rows # {}
  <2>1. \E q \in rows : \A p \in rows : q <= p
    BY <1>1, <1>5, Least
  <2>2. FindFrom(ix, r) \in rows /\ \A p \in rows : FindFrom(ix, r) <= p
    BY <1>0, <1>5, <2>1
  <2> QED
    BY <1>1, <1>2, <2>2
<1> QED
  BY <1>4, <1>5

LEMMA AttachIndex ==
    ASSUME NEW ix \in IndexType, NEW s \in Slot, NEW r \in 0 .. Buckets - 1
    PROVE  /\ Attach(ix, s, r) \in IndexType
           /\ Attach(ix, s, r).rank = [ix.rank EXCEPT ![s] = r]
           /\ MinOf(ix) /\ ix.rank[s] = Unlisted => MinOf(Attach(ix, s, r))
<1> DEFINE at == Attach(ix, s, r)
<1>1. at.rank = [ix.rank EXCEPT ![s] = r]
  BY DEF Attach
<1>2. at.min = IF Bucket(ix, r) = {} /\ (ix.min = Unlisted \/ r < ix.min) THEN r ELSE ix.min
  BY DEF Attach
<1>3. at \in IndexType
  BY PoolAssumption DEF Attach, IndexType, Unlisted
<1>4. ASSUME MinOf(ix), ix.rank[s] = Unlisted PROVE MinOf(at)
  <2>1. \A t \in Slot : at.rank[t] = IF t = s THEN r ELSE ix.rank[t]
    BY <1>1 DEF IndexType
  <2>2. Bucket(ix, r) # {} => \E t \in Slot : ix.rank[t] = r
    BY DEF Bucket
  <2> HIDE DEF at
  <2> QED
    BY <1>2, <1>4, <2>1, <2>2, PoolAssumption DEF MinOf, IndexType, Unlisted, Bucket
<1> QED
  BY <1>1, <1>3, <1>4

LEMMA DetachIndex ==
    ASSUME NEW ix \in IndexType, NEW s \in Slot, ix.rank[s] # Unlisted
    PROVE  /\ Detach(ix, s) \in IndexType
           /\ Detach(ix, s).rank = [ix.rank EXCEPT ![s] = Unlisted]
           /\ MinOf(ix) => MinOf(Detach(ix, s))
<1> DEFINE left == [ix EXCEPT !.rank[s] = Unlisted]
           r == ix.rank[s]
<1>0. r \in 0 .. Buckets - 1
  BY PoolAssumption DEF IndexType, Unlisted
<1>1. left \in IndexType /\ left.rank = [ix.rank EXCEPT ![s] = Unlisted] /\ left.min = ix.min
  BY PoolAssumption DEF IndexType, Unlisted
<1>2. \A t \in Slot : left.rank[t] = IF t = s THEN Unlisted ELSE ix.rank[t]
  BY <1>1 DEF IndexType
<1> HIDE DEF left
<1>3. Detach(ix, s) = IF Bucket(left, r) = {} /\ ix.min = r
                      THEN [left EXCEPT !.min = FindFrom(left, r + 1)] ELSE left
  BY DEF Detach, left
<1>4. CASE ~ (Bucket(left, r) = {} /\ ix.min = r)
  <2>1. ASSUME MinOf(ix) PROVE MinOf(left)
    <3>1. ix.min = r => \E t \in Slot : left.rank[t] = r
      BY <1>4 DEF Bucket
    <3> QED
      BY <1>0, <1>1, <1>2, <2>1, <3>1, PoolAssumption DEF MinOf, IndexType, Unlisted
  <2> QED
    BY <1>1, <1>3, <1>4, <2>1
<1>5. CASE Bucket(left, r) = {} /\ ix.min = r
  <2> DEFINE f == FindFrom(left, r + 1)
  <2>0. r + 1 \in 0 .. Buckets
    BY <1>0, PoolAssumption
  <2>1. \/ f = Unlisted /\ \A t \in Slot : left.rank[t] < r + 1
        \/ /\ f \in r + 1 .. Buckets - 1
           /\ \E t \in Slot : left.rank[t] = f
           /\ \A t \in Slot : left.rank[t] >= r + 1 => f <= left.rank[t]
    BY <1>1, <2>0, FindFromFirst
  <2> HIDE DEF f
  <2> DEFINE new == [left EXCEPT !.min = f]
  <2>2. f \in Unlisted .. Buckets - 1
    BY <1>0, <2>1, PoolAssumption DEF Unlisted
  <2>3. new \in IndexType /\ new.rank = left.rank /\ new.min = f
    BY <1>1, <2>2 DEF IndexType
  <2>4. \A t \in Slot : left.rank[t] # r
    BY <1>5 DEF Bucket
  <2>5. ASSUME MinOf(ix) PROVE MinOf(new)
    <3>1. \A t \in Slot : left.rank[t] = Unlisted \/ left.rank[t] >= r + 1
      BY <1>0, <1>1, <1>2, <1>5, <2>4, <2>5, PoolAssumption DEF MinOf, IndexType, Unlisted
    <3> HIDE DEF new
    <3> QED
      BY <1>0, <1>1, <2>1, <2>3, <3>1, PoolAssumption DEF MinOf, Unlisted, IndexType
  <2>6. Detach(ix, s) = new
    BY <1>3, <1>5 DEF f
  <2> HIDE DEF new
  <2> QED
    BY <1>1, <2>3, <2>5, <2>6
<1> QED
  BY <1>4, <1>5

LEMMA ClampRange ==
    ASSUME NEW load \in Nat
    PROVE  Clamp(load) \in 0 .. Buckets - 1
BY PoolAssumption DEF Clamp

LEMMA ReprioritizeIndex ==
    ASSUME NEW ix \in IndexType, NEW s \in Slot, NEW load \in Nat
    PROVE  /\ Reprioritize(ix, s, load) \in IndexType
           /\ Reprioritize(ix, s, load).rank =
                 IF ix.rank[s] = Unlisted THEN ix.rank ELSE [ix.rank EXCEPT ![s] = Clamp(load)]
           /\ MinOf(ix) => MinOf(Reprioritize(ix, s, load))
<1>1. Clamp(load) \in 0 .. Buckets - 1 /\ Clamp(load) # Unlisted
  BY ClampRange, PoolAssumption DEF Unlisted
<1>2. CASE ix.rank[s] \in {Unlisted, Clamp(load)}
  <2>1. Reprioritize(ix, s, load) = ix
    BY <1>2 DEF Reprioritize
  <2>2. ix.rank = [ix.rank EXCEPT ![s] = ix.rank[s]]
    BY DEF IndexType
  <2> QED
    BY <1>2, <2>1, <2>2
<1>3. CASE ix.rank[s] \notin {Unlisted, Clamp(load)}
  <2> DEFINE out == Detach(ix, s)
  <2>1. out \in IndexType /\ out.rank = [ix.rank EXCEPT ![s] = Unlisted] /\ (MinOf(ix) => MinOf(out))
    BY <1>3, DetachIndex
  <2>2. out.rank[s] = Unlisted
    BY <2>1 DEF IndexType
  <2>3. Reprioritize(ix, s, load) = Attach(out, s, Clamp(load))
    BY <1>3 DEF Reprioritize
  <2> HIDE DEF out
  <2>4. /\ Attach(out, s, Clamp(load)) \in IndexType
        /\ Attach(out, s, Clamp(load)).rank = [out.rank EXCEPT ![s] = Clamp(load)]
        /\ MinOf(out) => MinOf(Attach(out, s, Clamp(load)))
    <3> DEFINE k == Clamp(load)
    <3>1. k \in 0 .. Buckets - 1
      BY <1>1
    <3> HIDE DEF k
    <3>2. /\ Attach(out, s, k) \in IndexType
          /\ Attach(out, s, k).rank = [out.rank EXCEPT ![s] = k]
          /\ MinOf(out) /\ out.rank[s] = Unlisted => MinOf(Attach(out, s, k))
      BY <2>1, <3>1, AttachIndex, Zenon
    <3> QED
      BY <2>2, <3>2 DEF k
  <2>5. [out.rank EXCEPT ![s] = Clamp(load)] = [ix.rank EXCEPT ![s] = Clamp(load)]
    BY <2>1 DEF IndexType
  <2> QED
    BY <1>3, <2>1, <2>3, <2>4, <2>5
<1> QED
  BY <1>2, <1>3

-----------------------------------------------------------------------------
(* The batches of a connection.  Between the batch the session answers and *)
(* the batch of the next command lie as many as Syncs are due; the replies *)
(* in the lane go through them in order, and none but the first batch, of  *)
(* which replies have been taken already, is without one.                  *)

Replies ==
    [batch : 0 .. Batches - 1, kind : {"Command", "Ready", "Begin", "Commit"},
     by : Calls \cup Txs, ends : BOOLEAN]

(* For p Syncs due, session batch sb, next batch b, Sync state sy and a    *)
(* lane ln of n replies: at numbers the batches, and off says which of     *)
(* them a reply is of.                                                     *)
Chained(p, sb, b, sy, n, ln, at, off) ==
    /\ at[1] = sb /\ at[p + 1] = b
    /\ \A k \in 1 .. p : at[k + 1] = NextBatch(at[k])
    /\ \A i \in 1 .. n : ln[i].batch = at[off[i]]
    /\ \A i, j \in 1 .. n : i < j =>
          /\ off[i] <= off[j] /\ off[j] - off[i] <= j - i
          /\ ln[i].kind # "Command" => off[i] < off[j]
    /\ n > 0 => off[1] <= 2
    /\ sy = "Synced" => IF n = 0 THEN p <= 1 ELSE off[n] = p
    /\ sy # "Synced" =>
          IF n = 0 THEN p = 0
          ELSE /\ off[n] = p + 1
               /\ ln[n].kind = "Command" <=> sy = "Automatic"

Chain(p, sb, b, sy, n, ln) ==
    \E at \in [1 .. p + 1 -> 0 .. Batches - 1], off \in [1 .. n -> 1 .. p + 1] :
        Chained(p, sb, b, sy, n, ln, at, off)

Links(p, sb, b, sy, n, ln, at, off) ==
    /\ at \in [1 .. p + 1 -> 0 .. Batches - 1] /\ off \in [1 .. n -> 1 .. p + 1]
    /\ Chained(p, sb, b, sy, n, ln, at, off)

(* A reply behind those of the lane, of the batch that is open.            *)
Behind(p, n, off, to) == to = [i \in 1 .. n + 1 |-> IF i = n + 1 THEN p + 1 ELSE off[i]]

(* One more batch.                                                         *)
Further(p, b, at, up) ==
    up = [k \in 1 .. (p + 1) + 1 |-> IF k = p + 2 THEN NextBatch(b) ELSE at[k]]

(* The lane with one more reply, of batch b.                               *)
Longer(n, ln, new, b) == (\A i \in 1 .. n : new[i] = ln[i]) /\ new[n + 1].batch = b

(* How it goes on.                                                         *)
Lengthened(p, n, new, at, to) ==
    /\ to \in [1 .. n + 1 -> 1 .. p + 1] /\ to[1] <= 2 /\ to[n + 1] = p + 1
    /\ \A i \in 1 .. n + 1 : new[i].batch = at[to[i]]
    /\ \A i, j \in 1 .. n + 1 : i < j =>
          /\ to[i] <= to[j] /\ to[j] - to[i] <= j - i
          /\ new[i].kind # "Command" => to[i] < to[j]

(* The lane without its first reply.                                       *)
Shorter(n, ln, new) == \A i \in 1 .. n - 1 : new[i] = ln[i + 1]

LEMMA NextBatchStep ==
    ASSUME NEW b \in 0 .. Batches - 1
    PROVE  /\ NextBatch(b) \in 0 .. Batches - 1
           /\ NextBatch(b) # b
<1>1. NextBatch(b) = IF b + 1 = Batches THEN 0 ELSE b + 1
  BY PoolAssumption DEF NextBatch
<1> QED
  BY <1>1, PoolAssumption

LEMMA ChainStart ==
    ASSUME NEW b \in 0 .. Batches - 1, NEW ln
    PROVE  Chain(0, b, b, "Synced", 0, ln)
<1> DEFINE at == [k \in 1 .. 0 + 1 |-> b]
           off == [i \in 1 .. 0 |-> 1]
<1>1. at \in [1 .. 0 + 1 -> 0 .. Batches - 1] /\ off \in [1 .. 0 -> 1 .. 0 + 1]
  OBVIOUS
<1>2. Chained(0, b, b, "Synced", 0, ln, at, off)
  BY DEF Chained
<1> QED
  BY <1>1, <1>2 DEF Chain

(* Each Sync that is due but the one being answered has a reply before it. *)
LEMMA ChainBound ==
    ASSUME NEW p \in Nat, NEW sb, NEW b, NEW sy, NEW n \in Nat, NEW ln,
           Chain(p, sb, b, sy, n, ln)
    PROVE  p <= n + 1
<1>1. PICK at \in [1 .. p + 1 -> 0 .. Batches - 1], off \in [1 .. n -> 1 .. p + 1] :
           Chained(p, sb, b, sy, n, ln, at, off)
  BY DEF Chain
<1>3. CASE n = 0
  BY <1>1, <1>3 DEF Chained
<1>4. CASE n > 0
  <2>1. 1 \in 1 .. n /\ n \in 1 .. n
    BY <1>4
  <2>2. off[1] \in Int /\ off[n] \in Int
    BY <2>1
  <2>3. off[1] <= 2 /\ off[n] >= p
    BY <1>1, <1>4, <2>2 DEF Chained
  <2>4. n > 1 => off[n] - off[1] <= n - 1
    <3>1. \A i, j \in 1 .. n : i < j => off[j] - off[i] <= j - i
      BY <1>1 DEF Chained
    <3> QED
      BY <2>1, <3>1
  <2> DEFINE x == off[1]
             y == off[n]
  <2>5. /\ n \in Nat /\ p \in Nat /\ n > 0 /\ x \in Int /\ y \in Int /\ x <= 2 /\ y >= p
        /\ n > 1 => y - x <= n - 1
        /\ n = 1 => y = x
    BY <1>4, <2>2, <2>3, <2>4
  <2> HIDE DEF x, y
  <2> QED
    BY ONLY <2>5
<1> QED
  BY <1>3, <1>4

(* One more reply behind those of the lane, of the batch that is open. *)
LEMMA ChainAppend ==
    ASSUME NEW p \in Nat, NEW sb, NEW b, NEW sy \in {"Synced", "Automatic"},
           NEW n \in Nat, NEW ln, NEW new,
           NEW at, NEW off, NEW to,
           Links(p, sb, b, sy, n, ln, at, off), Behind(p, n, off, to), Longer(n, ln, new, b)
    PROVE  Lengthened(p, n, new, at, to)
<1>c. Chained(p, sb, b, sy, n, ln, at, off) /\ off \in [1 .. n -> 1 .. p + 1]
  BY DEF Links
<1>1. to \in [1 .. n + 1 -> 1 .. p + 1]
  BY <1>c DEF Behind
<1>2. to[n + 1] = p + 1 /\ \A i \in 1 .. n : to[i] = off[i]
  BY DEF Behind
<1>3. \A i \in 1 .. n : off[i] \in Int
  BY <1>c
<1>4. /\ n > 0 => off[1] <= 2
      /\ sy = "Synced" => IF n = 0 THEN p <= 1 ELSE off[n] = p
      /\ sy # "Synced" => IF n = 0 THEN p = 0
                          ELSE off[n] = p + 1 /\ ln[n].kind = "Command"
  BY <1>c DEF Chained
<1>5. to[1] <= 2
  BY <1>2, <1>4
<1>6. ASSUME NEW i \in 1 .. n + 1 PROVE new[i].batch = at[to[i]]
  <2>1. CASE i = n + 1
    BY <1>c, <1>2, <2>1 DEF Chained, Longer
  <2>2. CASE i \in 1 .. n
    BY <1>c, <1>2, <2>2 DEF Chained, Longer
  <2> QED
    BY <2>1, <2>2
<1>7. ASSUME NEW i \in 1 .. n + 1, NEW j \in 1 .. n + 1, i < j
      PROVE  /\ to[i] <= to[j] /\ to[j] - to[i] <= j - i
             /\ new[i].kind # "Command" => to[i] < to[j]
  <2>0. i \in 1 .. n /\ to[i] = off[i] /\ new[i] = ln[i]
    BY <1>2, <1>7 DEF Longer
  <2>1. CASE j = n + 1
    <3>1. CASE i = n
      BY <1>2, <1>4, <2>0, <2>1, <3>1
    <3>2. CASE i # n
      <4>1. i < n /\ n \in 1 .. n
        BY <2>0, <3>2
      <4>2. /\ off[i] <= off[n] /\ off[n] - off[i] <= n - i
            /\ ln[i].kind # "Command" => off[i] < off[n]
        BY <1>c, <2>0, <4>1 DEF Chained
      <4>3. off[n] = p \/ off[n] = p + 1
        BY <1>4, <4>1
      <4> QED
        <5>1. off[i] \in Int /\ to[j] = p + 1
          BY <1>2, <1>3, <2>0, <2>1
        <5>2. off[i] <= p + 1 /\ (p + 1) - off[i] <= (n + 1) - i
          <6>1. CASE off[n] = p
            BY <4>2, <5>1, <6>1
          <6>2. CASE off[n] = p + 1
            BY <4>2, <5>1, <6>2
          <6> QED
            BY <4>3, <6>1, <6>2
        <5>3. ln[i].kind # "Command" => off[i] < p + 1
          BY <4>2, <4>3, <5>1
        <5> QED
          BY <2>0, <2>1, <5>1, <5>2, <5>3
    <3> QED
      BY <3>1, <3>2
  <2>2. CASE j # n + 1
    <3>1. j \in 1 .. n /\ to[j] = off[j]
      BY <1>2, <2>2
    <3> QED
      BY <1>c, <1>7, <2>0, <3>1 DEF Chained
  <2> QED
    BY <2>1, <2>2
<1> QED
  BY <1>1, <1>2, <1>5, <1>6, <1>7 DEF Lengthened

(* A command that leaves its batch open. *)
LEMMA ChainOpen ==
    ASSUME NEW p \in Nat, NEW sb, NEW b, NEW sy \in {"Synced", "Automatic"},
           NEW n \in Nat, NEW ln, NEW new, NEW sn \in {"Automatic", "Explicit"},
           Chain(p, sb, b, sy, n, ln), Longer(n, ln, new, b), new[n + 1].kind = "Command" <=> sn = "Automatic"
    PROVE  Chain(p, sb, b, sn, n + 1, new)
<1>l. PICK at, off : Links(p, sb, b, sy, n, ln, at, off)
  BY DEF Chain, Links
<1>1. /\ at \in [1 .. p + 1 -> 0 .. Batches - 1] /\ off \in [1 .. n -> 1 .. p + 1]
      /\ Chained(p, sb, b, sy, n, ln, at, off)
  BY <1>l DEF Links
<1> DEFINE to == [i \in 1 .. n + 1 |-> IF i = n + 1 THEN p + 1 ELSE off[i]]
<1>0. Behind(p, n, off, to)
  BY DEF Behind
<1> HIDE DEF to
<1>2. /\ to \in [1 .. n + 1 -> 1 .. p + 1] /\ to[1] <= 2 /\ to[n + 1] = p + 1
      /\ \A i \in 1 .. n + 1 : new[i].batch = at[to[i]]
      /\ \A i, j \in 1 .. n + 1 : i < j =>
            /\ to[i] <= to[j] /\ to[j] - to[i] <= j - i
            /\ new[i].kind # "Command" => to[i] < to[j]
  <2>1. Lengthened(p, n, new, at, to)
    BY <1>0, <1>l, ChainAppend
  <2> QED
    BY <2>1 DEF Lengthened
<1>3. Chained(p, sb, b, sn, n + 1, new, at, to)
  BY <1>1, <1>2 DEF Chained
<1> QED
  BY <1>1, <1>2, <1>3 DEF Chain

(* The batches with one more behind them. *)
LEMMA ChainExtend ==
    ASSUME NEW p \in Nat, NEW b \in 0 .. Batches - 1,
           NEW sb, NEW sy, NEW n, NEW ln, NEW at, NEW off, NEW up,
           Links(p, sb, b, sy, n, ln, at, off), Further(p, b, at, up)
    PROVE  /\ up \in [1 .. (p + 1) + 1 -> 0 .. Batches - 1]
           /\ up[(p + 1) + 1] = NextBatch(b)
           /\ \A k \in 1 .. p + 1 : up[k] = at[k] /\ up[k + 1] = NextBatch(up[k])
<1>0. /\ at \in [1 .. p + 1 -> 0 .. Batches - 1] /\ at[p + 1] = b
      /\ \A k \in 1 .. p : at[k + 1] = NextBatch(at[k])
  BY DEF Links, Chained
<1>1. up \in [1 .. (p + 1) + 1 -> 0 .. Batches - 1]
  BY <1>0, NextBatchStep DEF Further
<1>2. up[p + 2] = NextBatch(b) /\ \A k \in 1 .. p + 1 : up[k] = at[k]
  BY DEF Further
<1>3. ASSUME NEW k \in 1 .. p + 1 PROVE up[k + 1] = NextBatch(up[k])
  <2>1. CASE k = p + 1
    BY <1>0, <1>2, <2>1
  <2>2. CASE k # p + 1
    BY <1>0, <1>2, <2>2
  <2> QED
    BY <2>1, <2>2
<1> QED
  BY <1>1, <1>2, <1>3

(* A command that ends its batch. *)
LEMMA ChainClose ==
    ASSUME NEW p \in Nat, NEW sb, NEW b \in 0 .. Batches - 1, NEW sy \in {"Synced", "Automatic"},
           NEW n \in Nat, NEW ln, NEW new,
           Chain(p, sb, b, sy, n, ln), Longer(n, ln, new, b)
    PROVE  Chain(p + 1, sb, NextBatch(b), "Synced", n + 1, new)
<1>l. PICK at, off : Links(p, sb, b, sy, n, ln, at, off)
  BY DEF Chain, Links
<1>1. /\ at \in [1 .. p + 1 -> 0 .. Batches - 1] /\ off \in [1 .. n -> 1 .. p + 1]
      /\ Chained(p, sb, b, sy, n, ln, at, off)
  BY <1>l DEF Links
<1> DEFINE to == [i \in 1 .. n + 1 |-> IF i = n + 1 THEN p + 1 ELSE off[i]]
           up == [k \in 1 .. (p + 1) + 1 |-> IF k = p + 2 THEN NextBatch(b) ELSE at[k]]
<1>0. Behind(p, n, off, to)
  BY DEF Behind
<1>u. Further(p, b, at, up)
  BY DEF Further
<1> HIDE DEF to, up
<1>2. /\ to \in [1 .. n + 1 -> 1 .. p + 1] /\ to[1] <= 2 /\ to[n + 1] = p + 1
      /\ \A i \in 1 .. n + 1 : new[i].batch = at[to[i]]
      /\ \A i, j \in 1 .. n + 1 : i < j =>
            /\ to[i] <= to[j] /\ to[j] - to[i] <= j - i
            /\ new[i].kind # "Command" => to[i] < to[j]
  <2>1. Lengthened(p, n, new, at, to)
    BY <1>0, <1>l, ChainAppend
  <2> QED
    BY <2>1 DEF Lengthened
<1>3. /\ at[1] = sb /\ at[p + 1] = b /\ \A k \in 1 .. p : at[k + 1] = NextBatch(at[k])
  BY <1>1 DEF Chained
<1>4. /\ up \in [1 .. (p + 1) + 1 -> 0 .. Batches - 1]
      /\ up[(p + 1) + 1] = NextBatch(b)
      /\ \A k \in 1 .. p + 1 : up[k] = at[k] /\ up[k + 1] = NextBatch(up[k])
  BY <1>l, <1>u, ChainExtend
<1>5. \A i \in 1 .. n + 1 : to[i] \in 1 .. p + 1 /\ new[i].batch = up[to[i]]
  BY <1>2, <1>4
<1>6. up[1] = sb
  BY <1>3, <1>4
<1>7. Chained(p + 1, sb, NextBatch(b), "Synced", n + 1, new, up, to)
  <2>1. /\ up[1] = sb /\ up[(p + 1) + 1] = NextBatch(b)
        /\ \A k \in 1 .. p + 1 : up[k + 1] = NextBatch(up[k])
    BY <1>4, <1>6
  <2>2. /\ \A i \in 1 .. n + 1 : new[i].batch = up[to[i]]
        /\ \A i, j \in 1 .. n + 1 : i < j =>
              /\ to[i] <= to[j] /\ to[j] - to[i] <= j - i
              /\ new[i].kind # "Command" => to[i] < to[j]
        /\ to[1] <= 2 /\ to[n + 1] = p + 1 /\ n + 1 # 0
    <3>1. \A i \in 1 .. n + 1 : new[i].batch = up[to[i]]
      BY ONLY <1>5
    <3>2. n + 1 # 0
      OBVIOUS
    <3> QED
      BY ONLY <1>2, <3>1, <3>2
  <2> QED
    BY ONLY <2>1, <2>2 DEF Chained
<1>8. to \in [1 .. n + 1 -> 1 .. (p + 1) + 1]
  BY <1>2
<1> QED
  BY <1>4, <1>7, <1>8 DEF Chain

(* A Sync that ends an open batch. *)
LEMMA ChainSync ==
    ASSUME NEW p \in Nat, NEW sb, NEW b \in 0 .. Batches - 1, NEW sy, sy # "Synced",
           NEW n \in Nat, NEW ln, Chain(p, sb, b, sy, n, ln)
    PROVE  Chain(p + 1, sb, NextBatch(b), "Synced", n, ln)
<1>l. PICK at, off : Links(p, sb, b, sy, n, ln, at, off)
  BY DEF Chain, Links
<1>1. /\ at \in [1 .. p + 1 -> 0 .. Batches - 1] /\ off \in [1 .. n -> 1 .. p + 1]
      /\ Chained(p, sb, b, sy, n, ln, at, off)
  BY <1>l DEF Links
<1> DEFINE up == [k \in 1 .. (p + 1) + 1 |-> IF k = p + 2 THEN NextBatch(b) ELSE at[k]]
<1>u. Further(p, b, at, up)
  BY DEF Further
<1> HIDE DEF up
<1>3. /\ at[1] = sb /\ at[p + 1] = b /\ \A k \in 1 .. p : at[k + 1] = NextBatch(at[k])
  BY <1>1 DEF Chained
<1>4. /\ up \in [1 .. (p + 1) + 1 -> 0 .. Batches - 1]
      /\ up[(p + 1) + 1] = NextBatch(b)
      /\ \A k \in 1 .. p + 1 : up[k] = at[k] /\ up[k + 1] = NextBatch(up[k])
  BY <1>l, <1>u, ChainExtend
<1>5. \A i \in 1 .. n : off[i] \in 1 .. p + 1 /\ ln[i].batch = up[off[i]]
  BY <1>1, <1>4 DEF Chained
<1>6. up[1] = sb
  BY <1>3, <1>4
<1>7. Chained(p + 1, sb, NextBatch(b), "Synced", n, ln, up, off)
  <2>1. /\ n > 0 => off[1] <= 2
        /\ IF n = 0 THEN p + 1 <= 1 ELSE off[n] = p + 1
    BY <1>1 DEF Chained
  <2>2. \A i, j \in 1 .. n : i < j =>
           /\ off[i] <= off[j] /\ off[j] - off[i] <= j - i
           /\ ln[i].kind # "Command" => off[i] < off[j]
    BY <1>1 DEF Chained
  <2> QED
    BY <1>4, <1>5, <1>6, <2>1, <2>2 DEF Chained
<1>8. off \in [1 .. n -> 1 .. (p + 1) + 1]
  BY <1>1
<1> QED
  BY <1>4, <1>7, <1>8 DEF Chain

(* Which batch the reply in front is of. *)
LEMMA ChainFront ==
    ASSUME NEW p \in Nat, NEW sb, NEW b, NEW sy, NEW n \in Nat, n > 0, NEW ln,
           NEW at, NEW off, Links(p, sb, b, sy, n, ln, at, off)
    PROVE  off[1] = IF ln[1].batch = sb THEN 1 ELSE 2
<1>1. 1 \in 1 .. n
  OBVIOUS
<1>2. off[1] \in 1 .. p + 1 /\ off[1] <= 2 /\ ln[1].batch = at[off[1]] /\ at[1] = sb
  BY <1>1 DEF Chained, Links
<1>3. off[1] = 2 => at[2] = NextBatch(at[1]) /\ at[1] \in 0 .. Batches - 1
  BY <1>2 DEF Chained, Links
<1>4. off[1] = 1 \/ off[1] = 2
  BY <1>2
<1> QED
  BY <1>2, <1>3, <1>4, NextBatchStep

(* The reply in front, of the batch that is answered, is taken. *)
LEMMA ChainPop ==
    ASSUME NEW p \in Nat, NEW sb, NEW b, NEW sy, NEW n \in Nat, n > 0, NEW ln, NEW new,
           Chain(p, sb, b, sy, n, ln), ln[1].batch = sb,
           Shorter(n, ln, new)
    PROVE  Chain(p, sb, b, sy, n - 1, new)
<1>l. PICK at, off : Links(p, sb, b, sy, n, ln, at, off)
  BY DEF Chain, Links
<1>1. /\ at \in [1 .. p + 1 -> 0 .. Batches - 1] /\ off \in [1 .. n -> 1 .. p + 1]
      /\ Chained(p, sb, b, sy, n, ln, at, off)
  BY <1>l DEF Links
<1> DEFINE to == [i \in 1 .. n - 1 |-> off[i + 1]]
<1>2. to \in [1 .. n - 1 -> 1 .. p + 1] /\ \A i \in 1 .. n - 1 : to[i] = off[i + 1]
  BY <1>1
<1> HIDE DEF to
<1>3. off[1] = 1
  <2>1. off[1] = IF ln[1].batch = sb THEN 1 ELSE 2
    BY <1>l, ChainFront
  <2> QED
    BY <2>1
<1>4. ASSUME NEW i \in 1 .. n - 1, NEW j \in 1 .. n - 1, i < j
      PROVE  /\ to[i] <= to[j] /\ to[j] - to[i] <= j - i
             /\ new[i].kind # "Command" => to[i] < to[j]
  <2>1. i + 1 \in 1 .. n /\ j + 1 \in 1 .. n /\ i + 1 < j + 1
    BY <1>4
  <2>2. /\ off[i + 1] <= off[j + 1] /\ off[j + 1] - off[i + 1] <= (j + 1) - (i + 1)
        /\ ln[i + 1].kind # "Command" => off[i + 1] < off[j + 1]
    BY <1>1, <2>1 DEF Chained
  <2>3. (j + 1) - (i + 1) = j - i
    OBVIOUS
  <2> QED
    BY <1>2, <2>2, <2>3 DEF Shorter
<1>5. n - 1 > 0 => to[1] <= 2
  <2>1. SUFFICES ASSUME n - 1 > 0 PROVE to[1] <= 2
    OBVIOUS
  <2>2. 1 \in 1 .. n /\ 2 \in 1 .. n /\ 1 \in 1 .. n - 1
    BY <2>1
  <2>3. off[2] - off[1] <= 2 - 1 /\ off[2] \in Int /\ to[1] = off[2]
    BY <1>1, <1>2, <2>2 DEF Chained
  <2> QED
    BY <1>3, <2>3
<1>6. \A i \in 1 .. n - 1 : new[i].batch = at[to[i]]
  <2> SUFFICES ASSUME NEW i \in 1 .. n - 1 PROVE new[i].batch = at[to[i]]
    OBVIOUS
  <2>1. i + 1 \in 1 .. n
    OBVIOUS
  <2> QED
    BY <1>1, <1>2, <2>1 DEF Chained, Shorter
<1>7. n - 1 # 0 => to[n - 1] = off[n] /\ new[n - 1] = ln[n]
  <2>1. n - 1 # 0 => n - 1 \in 1 .. n - 1
    OBVIOUS
  <2>2. (n - 1) + 1 = n
    OBVIOUS
  <2> QED
    BY <1>2, <2>1, <2>2 DEF Shorter
<1>8. /\ sy = "Synced" => off[n] = p
      /\ sy # "Synced" => off[n] = p + 1 /\ (ln[n].kind = "Command" <=> sy = "Automatic")
      /\ at[1] = sb /\ at[p + 1] = b /\ \A k \in 1 .. p : at[k + 1] = NextBatch(at[k])
  BY <1>1 DEF Chained
<1>9. Chained(p, sb, b, sy, n - 1, new, at, to)
  <2>1. CASE n - 1 = 0
    <3>1. off[n] = 1
      BY <1>3, <2>1
    <3> QED
      BY <1>4, <1>6, <1>8, <2>1, <3>1 DEF Chained
  <2>2. CASE n - 1 # 0
    BY <1>4, <1>5, <1>6, <1>7, <1>8, <2>2 DEF Chained
  <2> QED
    BY <2>1, <2>2
<1> QED
  BY <1>1, <1>2, <1>9 DEF Chain

(* The last reply of a batch is followed by one of the next. *)
LEMMA ChainTurn ==
    ASSUME NEW p \in Nat, NEW sb, NEW b, NEW sy, NEW n \in Nat, n > 1, NEW ln,
           Chain(p, sb, b, sy, n, ln), ln[1].batch = sb, ln[1].kind # "Command"
    PROVE  ln[2].batch # sb
<1>l. PICK at, off : Links(p, sb, b, sy, n, ln, at, off)
  BY DEF Chain, Links
<1>1. /\ at \in [1 .. p + 1 -> 0 .. Batches - 1] /\ off \in [1 .. n -> 1 .. p + 1]
      /\ Chained(p, sb, b, sy, n, ln, at, off)
  BY <1>l DEF Links
<1>2. off[1] = 1
  <2>1. off[1] = IF ln[1].batch = sb THEN 1 ELSE 2
    BY <1>l, ChainFront
  <2> QED
    BY <2>1
<1>3. 1 \in 1 .. n /\ 2 \in 1 .. n
  OBVIOUS
<1>4. off[1] < off[2] /\ off[2] - off[1] <= 2 - 1 /\ off[2] \in 1 .. p + 1
  <2>1. \A i, j \in 1 .. n : i < j =>
           off[j] - off[i] <= j - i /\ (ln[i].kind # "Command" => off[i] < off[j])
    BY <1>1 DEF Chained
  <2>2. off[2] \in 1 .. p + 1
    BY <1>1, <1>3
  <2>3. 1 < 2
    OBVIOUS
  <2>4. off[2] - off[1] <= 2 - 1 /\ off[1] < off[2]
    BY <1>3, <2>1, <2>3, Zenon
  <2> QED
    BY <2>2, <2>4
<1>5. off[2] = 2 /\ p >= 1
  BY <1>2, <1>4
<1>6. ln[2].batch = at[2] /\ at[2] = NextBatch(at[1]) /\ at[1] = sb /\ at[1] \in 0 .. Batches - 1
  BY <1>1, <1>3, <1>5 DEF Chained
<1> QED
  BY <1>6, NextBatchStep

(* The batch that is answered is closed. *)
LEMMA ChainSettle ==
    ASSUME NEW p \in Nat, p > 0, NEW sb, NEW b, NEW sy, NEW n \in Nat, NEW ln,
           Chain(p, sb, b, sy, n, ln), n > 0 => ln[1].batch # sb
    PROVE  Chain(p - 1, NextBatch(sb), b, sy, n, ln)
<1>l. PICK at, off : Links(p, sb, b, sy, n, ln, at, off)
  BY DEF Chain, Links
<1>1. /\ at \in [1 .. p + 1 -> 0 .. Batches - 1] /\ off \in [1 .. n -> 1 .. p + 1]
      /\ Chained(p, sb, b, sy, n, ln, at, off)
  BY <1>l DEF Links
<1> DEFINE to == [i \in 1 .. n |-> off[i] - 1]
           up == [k \in 1 .. (p - 1) + 1 |-> at[k + 1]]
<1>2. \A i \in 1 .. n : to[i] = off[i] - 1
  OBVIOUS
<1>3. \A k \in 1 .. (p - 1) + 1 : up[k] = at[k + 1]
  OBVIOUS
<1>4. up \in [1 .. (p - 1) + 1 -> 0 .. Batches - 1]
  BY <1>1
<1>5. \A i \in 1 .. n : off[i] \in 2 .. p + 1
  <2> SUFFICES ASSUME NEW i \in 1 .. n PROVE off[i] \in 2 .. p + 1
    OBVIOUS
  <2>1. n > 0 /\ 1 \in 1 .. n
    OBVIOUS
  <2>2. off[1] = IF ln[1].batch = sb THEN 1 ELSE 2
    BY <1>l, <2>1, ChainFront
  <2>3. off[1] = 2
    BY <2>1, <2>2
  <2>4. i > 1 => off[1] <= off[i]
    BY <1>1, <2>1 DEF Chained
  <2> QED
    BY <1>1, <2>3, <2>4
<1>6. to \in [1 .. n -> 1 .. (p - 1) + 1]
  BY <1>5
<1> HIDE DEF to, up
<1>7. ASSUME NEW i \in 1 .. n, NEW j \in 1 .. n, i < j
      PROVE  /\ to[i] <= to[j] /\ to[j] - to[i] <= j - i
             /\ ln[i].kind # "Command" => to[i] < to[j]
  <2>1. /\ off[i] <= off[j] /\ off[j] - off[i] <= j - i
        /\ ln[i].kind # "Command" => off[i] < off[j]
    BY <1>1, <1>7 DEF Chained
  <2> QED
    BY <1>2, <1>5, <2>1
<1>8. ASSUME NEW i \in 1 .. n PROVE ln[i].batch = up[to[i]]
  <2>1. ln[i].batch = at[off[i]]
    BY <1>1 DEF Chained
  <2>2. to[i] = off[i] - 1 /\ off[i] \in 2 .. p + 1
    BY <1>2, <1>5
  <2>3. to[i] \in 1 .. (p - 1) + 1 /\ to[i] + 1 = off[i]
    BY <2>2
  <2> QED
    BY <1>3, <2>1, <2>3
<1>9. up[1] = NextBatch(sb) /\ up[(p - 1) + 1] = b
  BY <1>1, <1>3 DEF Chained
<1>10. ASSUME NEW k \in 1 .. p - 1 PROVE up[k + 1] = NextBatch(up[k])
  <2>1. k + 1 \in 1 .. p /\ k + 1 \in 1 .. (p - 1) + 1 /\ k \in 1 .. (p - 1) + 1
    OBVIOUS
  <2>2. at[(k + 1) + 1] = NextBatch(at[k + 1])
    BY <1>1, <2>1 DEF Chained
  <2> QED
    BY <1>3, <2>1, <2>2
<1>11. n > 0 => to[1] <= 2
  <2>1. n > 0 => 1 \in 1 .. n /\ off[1] <= 2
    BY <1>1 DEF Chained
  <2> QED
    BY <1>2, <1>5, <2>1
<1>12. /\ sy = "Synced" => IF n = 0 THEN p - 1 <= 1 ELSE to[n] = p - 1
       /\ sy # "Synced" =>
             IF n = 0 THEN p - 1 = 0
             ELSE /\ to[n] = (p - 1) + 1
                  /\ ln[n].kind = "Command" <=> sy = "Automatic"
  <2>1. n # 0 => n \in 1 .. n /\ to[n] = off[n] - 1
    BY <1>2
  <2>2. /\ sy = "Synced" => IF n = 0 THEN p <= 1 ELSE off[n] = p
        /\ sy # "Synced" => IF n = 0 THEN p = 0
                            ELSE off[n] = p + 1 /\ (ln[n].kind = "Command" <=> sy = "Automatic")
    BY <1>1 DEF Chained
  <2>3. CASE n = 0
    BY <2>2, <2>3
  <2>4. CASE n # 0
    BY <2>1, <2>2, <2>4
  <2> QED
    BY <2>3, <2>4
<1>13. Chained(p - 1, NextBatch(sb), b, sy, n, ln, up, to)
  BY <1>7, <1>8, <1>9, <1>10, <1>11, <1>12 DEF Chained
<1>14. p - 1 \in Nat
  OBVIOUS
<1> QED
  BY <1>4, <1>6, <1>13 DEF Chain

-----------------------------------------------------------------------------
(* The inductive invariant *)

Frames ==
    {f \in [by : Calls \cup Txs \cup {Nobody},
            does : {"Begin", "Stmt", "Copy", "Commit", "Rollback", "Sync"}, sync : BOOLEAN] :
        /\ f.does = "Begin" => f.by \in Txs
        /\ f.does = "Sync" => f = SyncFrame}
Targets == [slot : Slot, gen : Nat, seq : Nat] \cup {NoTarget}

SlotTypes ==
    /\ phase \in [Slot -> {"Vacant", "Handshaking", "Ready", "Closing"}]
    /\ gen \in [Slot -> 0 .. MaxGen]
    /\ access \in [Slot -> Accesses]
    /\ seq \in [Slot -> 0 .. Wrap - 1]
    /\ receiving \in [Slot -> BOOLEAN]
    /\ sync \in [Slot -> {"Synced", "Automatic", "Explicit"}]
    /\ pending \in [Slot -> Nat]
    /\ batch \in [Slot -> 0 .. Batches - 1]
    /\ index \in IndexType
    /\ live \in Int /\ blockers \in Int
SessionTypes ==
    /\ session \in [Slot -> {"Startup", "Ready", "Failed"}]
    /\ progress \in [Slot -> {"Running", "Complete", "Skipping"}]
    /\ sbatch \in [Slot -> 0 .. Batches - 1]
    /\ settling \in [Slot -> {"No", "Idle", "Transaction"}]
LaneTypes == lane \in [Slot -> Seq(Replies)]
WireTypes ==
    /\ queue \in [Slot -> Seq(Frames)] /\ wire \in [Slot -> Seq(Frames)]
    /\ skip \in [Slot -> BOOLEAN]
    /\ txn \in [Slot -> Txs \cup {Nobody, "Stray"}]
TxTypes ==
    /\ stage \in [Txs -> {"Idle", "Begin", "Open", "Finish"}]
    /\ target \in [Txs -> Targets]
    /\ reply \in [Txs -> {"Due", "Ok", "Err"}]
PoolTypes == SlotTypes /\ SessionTypes /\ LaneTypes /\ WireTypes /\ TxTypes

(* Of one slot: a connection that is not ready has nothing due, one that   *)
(* is not open yet no replies, and a ready one is listed as it should be,  *)
(* at its load, with its replies and batches in order.                     *)
SlotInv(s) ==
    /\ phase[s] = "Ready" <=> access[s] # "None"
    /\ phase[s] # "Ready" => pending[s] = 0 /\ sync[s] = "Synced" /\ receiving[s] = FALSE
    /\ phase[s] \in {"Vacant", "Handshaking"} => session[s] # "Ready" /\ lane[s] = <<>>
    /\ phase[s] = "Handshaking" => batch[s] = sbatch[s]
    /\ index.rank[s] # Unlisted <=>
          phase[s] = "Ready" /\ access[s] = "Shared" /\ receiving[s] = FALSE
    /\ index.rank[s] # Unlisted => index.rank[s] = Clamp(Load(s))
    /\ phase[s] = "Ready" =>
          Chain(pending[s], sbatch[s], batch[s], sync[s], Len(lane[s]), lane[s])

Readies == {s \in Slot : phase[s] = "Ready"}
Blocking == {s \in Slot : access[s] \in {"Reserved", "Held"}}

(* The slots, their index and its counters.                                *)
Core ==
    /\ SlotTypes
    /\ \A s \in Slot : SlotInv(s)
    /\ MinOf(index)
    /\ live = Cardinality(Readies) /\ blockers = Cardinality(Blocking)

PoolInv == PoolTypes /\ Core

(* What SlotInv is about is as it was.                                     *)
Same(r) ==
    /\ phase'[r] = phase[r] /\ access'[r] = access[r] /\ receiving'[r] = receiving[r]
    /\ sync'[r] = sync[r] /\ pending'[r] = pending[r] /\ batch'[r] = batch[r]
    /\ session'[r] = session[r] /\ sbatch'[r] = sbatch[r] /\ lane'[r] = lane[r]
    /\ index'.rank[r] = index.rank[r]

LEMMA SameSlot ==
    ASSUME NEW r \in Slot, SlotInv(r), Same(r)
    PROVE  SlotInv(r)'
BY DEF SlotInv, Same, Load, Barriers

LEMMA SlotsFinite == IsFiniteSet(Slot)
<1>1. 0 \in Int /\ Conns - 1 \in Int
  BY PoolAssumption
<1> QED
  BY <1>1, FS_Interval DEF Slot

(* A set of slots that gains or loses at most slot s. *)
LEMMA CountMoves ==
    ASSUME NEW A \in SUBSET Slot, NEW B \in SUBSET Slot, NEW s \in Slot,
           \A r \in Slot \ {s} : r \in A <=> r \in B
    PROVE  /\ Cardinality(A) \in Nat
           /\ Cardinality(B) = Cardinality(A) + (IF s \in B THEN 1 ELSE 0) - (IF s \in A THEN 1 ELSE 0)
<1>1. IsFiniteSet(A) /\ IsFiniteSet(B) /\ Cardinality(A) \in Nat /\ Cardinality(B) \in Nat
  BY SlotsFinite, FS_Subset, FS_CardinalityType
<1>2. CASE s \in A /\ s \in B
  <2>1. A = B
    BY <1>2
  <2> QED
    BY <1>1, <1>2, <2>1
<1>3. CASE s \in A /\ s \notin B
  <2>1. B = A \ {s}
    BY <1>3
  <2>2. Cardinality(B) = Cardinality(A) - 1
    BY <1>1, <1>3, <2>1, FS_RemoveElement
  <2> QED
    BY <1>1, <1>3, <2>2
<1>4. CASE s \notin A /\ s \in B
  <2>1. B = A \cup {s}
    BY <1>4
  <2>2. Cardinality(B) = Cardinality(A) + 1
    BY <1>1, <1>4, <2>1, FS_AddElement
  <2> QED
    BY <1>1, <1>4, <2>2
<1>5. CASE s \notin A /\ s \notin B
  <2>1. A = B
    BY <1>5
  <2> QED
    BY <1>1, <1>5, <2>1
<1> QED
  BY <1>2, <1>3, <1>4, <1>5

(* A step that touches one slot keeps the invariant if it keeps it there   *)
(* and moves the counters with the phase and the access of that slot.      *)
Counts(x, P) == IF x \in P THEN 1 ELSE 0
LEMMA OneSlot ==
    ASSUME Core, SlotTypes', NEW s \in Slot,
           \A r \in Slot \ {s} : Same(r),
           SlotInv(s)', MinOf(index'),
           live' = live + Counts(phase'[s], {"Ready"}) - Counts(phase[s], {"Ready"}),
           blockers' = blockers + Counts(access'[s], {"Reserved", "Held"})
                                - Counts(access[s], {"Reserved", "Held"})
    PROVE  Core'
<1>1. ASSUME NEW r \in Slot PROVE SlotInv(r)'
  <2>1. CASE r = s
    BY <2>1
  <2>2. CASE r # s
    BY <2>2, SameSlot DEF Core
  <2> QED
    BY <2>1, <2>2
<1>2. live' = Cardinality(Readies')
  <2>1. Readies \in SUBSET Slot /\ Readies' \in SUBSET Slot
    BY DEF Readies
  <2>2. \A r \in Slot \ {s} : r \in Readies <=> r \in Readies'
    BY DEF Readies, Same
  <2>3. /\ Cardinality(Readies) \in Nat
        /\ Cardinality(Readies') = Cardinality(Readies) + (IF s \in Readies' THEN 1 ELSE 0)
                                       - (IF s \in Readies THEN 1 ELSE 0)
    BY <2>1, <2>2, CountMoves
  <2>4. (s \in Readies <=> phase[s] = "Ready") /\ (s \in Readies' <=> phase'[s] = "Ready")
    BY DEF Readies
  <2>5. live = Cardinality(Readies)
    BY DEF Core
  <2> QED
    BY <2>3, <2>4, <2>5 DEF Counts
<1>3. blockers' = Cardinality(Blocking')
  <2>1. Blocking \in SUBSET Slot /\ Blocking' \in SUBSET Slot
    BY DEF Blocking
  <2>2. \A r \in Slot \ {s} : r \in Blocking <=> r \in Blocking'
    BY DEF Blocking, Same
  <2>3. /\ Cardinality(Blocking) \in Nat
        /\ Cardinality(Blocking') = Cardinality(Blocking) + (IF s \in Blocking' THEN 1 ELSE 0)
                                        - (IF s \in Blocking THEN 1 ELSE 0)
    BY <2>1, <2>2, CountMoves
  <2>4. /\ s \in Blocking <=> access[s] \in {"Reserved", "Held"}
        /\ s \in Blocking' <=> access'[s] \in {"Reserved", "Held"}
    BY DEF Blocking
  <2>5. blockers = Cardinality(Blocking)
    BY DEF Core
  <2> QED
    BY <2>3, <2>4, <2>5 DEF Counts
<1> QED
  BY <1>1, <1>2, <1>3 DEF Core, MinOf

(* A step that touches nothing of it. *)
LEMMA NoSlot ==
    ASSUME Core, UNCHANGED <<slotVars, indexVars>>, \A r \in Slot : Same(r)
    PROVE  Core'
<1>1. \A r \in Slot : SlotInv(r)'
  BY SameSlot DEF Core
<1>2. SlotTypes' /\ MinOf(index)'
  BY DEF Core, SlotTypes, MinOf, slotVars, indexVars
<1>3. live' = Cardinality(Readies') /\ blockers' = Cardinality(Blocking')
  BY DEF Core, Readies, Blocking, slotVars, indexVars
<1> QED
  BY <1>1, <1>2, <1>3 DEF Core

LEMMA LaneAppend ==
    ASSUME NEW ln \in Seq(Replies), NEW e \in Replies
    PROVE  /\ Append(ln, e) \in Seq(Replies) /\ Len(ln) \in Nat
           /\ Len(Append(ln, e)) = Len(ln) + 1
           /\ Longer(Len(ln), ln, Append(ln, e), e.batch)
           /\ Append(ln, e)[Len(ln) + 1] = e
BY DEF Longer

LEMMA LaneTail ==
    ASSUME NEW ln \in Seq(Replies), ln # <<>>
    PROVE  /\ Tail(ln) \in Seq(Replies) /\ Len(ln) \in Nat /\ Len(ln) > 0
           /\ Len(Tail(ln)) = Len(ln) - 1
           /\ Shorter(Len(ln), ln, Tail(ln))
           /\ Head(ln) = ln[1] /\ ln[1] \in Replies
BY DEF Shorter

-----------------------------------------------------------------------------
(* What the actions are made of *)

LEMMA ModZero ==
    ASSUME NEW a \in 0 .. Batches - 1, NEW b \in 0 .. Batches - 1
    PROVE  (a - b) % Batches = 0 <=> a = b
<1>1. Batches \in Nat /\ Batches > 2
  BY PoolAssumption
<1>2. CASE a >= b
  <2>1. a - b \in 0 .. Batches - 1
    BY <1>1, <1>2
  <2>2. (a - b) % Batches = a - b
    BY <1>1, <2>1
  <2> QED
    BY <2>2
<1>3. CASE a < b
  <2>1. (a - b) + Batches \in 1 .. Batches - 1
    BY <1>1, <1>3
  <2>2. (a - b) % Batches = (a - b) + Batches
    BY <1>1, <2>1
  <2> QED
    BY <1>3, <2>1, <2>2
<1> QED
  BY <1>2, <1>3

(* The reply that Front names is the first of the lane, and of the batch   *)
(* that is answered; without one, no reply of that batch is first.         *)
LEMMA FrontKind ==
    ASSUME PoolTypes, NEW s \in Slot
    PROVE  /\ Front(s) \notin {"None", "Stale"} =>
                 /\ lane[s] # <<>> /\ lane[s][1].batch = sbatch[s]
                 /\ Front(s) = lane[s][1].kind
           /\ Front(s) = "None" /\ lane[s] # <<>> => lane[s][1].batch # sbatch[s]
<1>1. CASE lane[s] = <<>>
  BY <1>1 DEF Front
<1>2. CASE lane[s] # <<>>
  <2>1. lane[s] \in Seq(Replies) /\ sbatch[s] \in 0 .. Batches - 1
    BY DEF PoolTypes, LaneTypes, SessionTypes
  <2>2. Head(lane[s]) = lane[s][1] /\ lane[s][1] \in Replies
    BY <1>2, <2>1, LaneTail
  <2> DEFINE a == lane[s][1].batch
             k == lane[s][1].kind
             ahead == (a - sbatch[s]) % Batches
  <2>3. a \in 0 .. Batches - 1 /\ k \in {"Command", "Ready", "Begin", "Commit"}
    BY <2>2 DEF Replies
  <2>4. Front(s) = IF ahead = 0 THEN k
                   ELSE IF ahead <= (Batches - 1) \div 2 THEN "None" ELSE "Stale"
    BY <1>2, <2>2 DEF Front
  <2>5. ahead = 0 <=> a = sbatch[s]
    BY <2>1, <2>3, ModZero
  <2> HIDE DEF a, k, ahead
  <2>6. CASE a = sbatch[s]
    <3>1. Front(s) = k
      BY <2>4, <2>5, <2>6
    <3> QED
      BY <1>2, <2>3, <2>6, <3>1 DEF a, k
  <2>7. CASE a # sbatch[s]
    <3>1. Front(s) = "None" \/ Front(s) = "Stale"
      BY <2>4, <2>5, <2>7
    <3> QED
      BY <2>7, <3>1 DEF a
  <2> QED
    BY <2>6, <2>7
<1> QED
  BY <1>1, <1>2

(* The lane, the session and the batches of the other slots stand still.   *)
Elsewhere(s) ==
    \A r \in Slot \ {s} :
        lane'[r] = lane[r] /\ session'[r] = session[r] /\ sbatch'[r] = sbatch[r]

LEMMA Closed ==
    ASSUME Core, NEW s \in Slot, CloseSlot(s), phase[s] # "Vacant", Elsewhere(s)
    PROVE  Core'
<1>0. SlotTypes /\ SlotInv(s) /\ MinOf(index) /\ index \in IndexType
  BY DEF Core, SlotTypes
<1>1. CASE phase[s] \in {"Handshaking", "Ready"}
  <2>1. /\ phase' = [phase EXCEPT ![s] = "Closing"]
        /\ access' = [access EXCEPT ![s] = "None"]
        /\ receiving' = [receiving EXCEPT ![s] = FALSE]
        /\ sync' = [sync EXCEPT ![s] = "Synced"]
        /\ pending' = [pending EXCEPT ![s] = 0]
        /\ index' = IF Listed(s) THEN Detach(index, s) ELSE index
        /\ live' = IF phase[s] = "Ready" THEN live - 1 ELSE live
        /\ blockers' = IF Blocks(s) THEN blockers - 1 ELSE blockers
        /\ gen' = gen /\ seq' = seq /\ batch' = batch
    BY <1>1 DEF CloseSlot
  <2>2. index' \in IndexType /\ MinOf(index') /\ index'.rank = [index.rank EXCEPT ![s] = Unlisted]
    <3>1. CASE Listed(s)
      BY <1>0, <2>1, <3>1, DetachIndex DEF Listed
    <3>2. CASE ~ Listed(s)
      <4>1. index.rank = [index.rank EXCEPT ![s] = Unlisted]
        BY <1>0, <3>2 DEF Listed, IndexType
      <4> QED
        BY <1>0, <2>1, <3>2, <4>1
    <3> QED
      BY <3>1, <3>2
  <2>3. /\ phase'[s] = "Closing" /\ access'[s] = "None" /\ receiving'[s] = FALSE
        /\ sync'[s] = "Synced" /\ pending'[s] = 0 /\ index'.rank[s] = Unlisted
    BY <1>0, <2>1, <2>2 DEF SlotTypes, IndexType
  <2>4. \A r \in Slot \ {s} : Same(r)
    BY <1>0, <2>1, <2>2 DEF SlotTypes, IndexType, Same, Elsewhere
  <2>5. SlotTypes'
    BY <1>0, <2>1, <2>2 DEF SlotTypes, Accesses
  <2>6. SlotInv(s)'
    BY <2>3 DEF SlotInv
  <2>7. /\ live' = live + Counts(phase'[s], {"Ready"}) - Counts(phase[s], {"Ready"})
        /\ blockers' = blockers + Counts(access'[s], {"Reserved", "Held"})
                                - Counts(access[s], {"Reserved", "Held"})
    BY <1>0, <2>1, <2>3 DEF Counts, Blocks, SlotTypes
  <2> QED
    BY <2>2, <2>4, <2>5, <2>6, <2>7, OneSlot
<1>2. CASE phase[s] = "Closing"
  <2>1. UNCHANGED <<slotVars, indexVars>>
    BY <1>2 DEF CloseSlot
  <2>2. SlotTypes' /\ MinOf(index')
    BY <1>0, <2>1 DEF SlotTypes, slotVars, indexVars
  <2>3. \A r \in Slot \ {s} : Same(r)
    BY <2>1 DEF Same, Elsewhere, slotVars, indexVars
  <2>4. SlotInv(s)'
    BY <1>0, <1>2, <2>1 DEF SlotInv, slotVars, indexVars
  <2>5. /\ live' = live + Counts(phase'[s], {"Ready"}) - Counts(phase[s], {"Ready"})
        /\ blockers' = blockers + Counts(access'[s], {"Reserved", "Held"})
                                - Counts(access[s], {"Reserved", "Held"})
    BY <1>0, <2>1 DEF Counts, SlotTypes, slotVars, indexVars
  <2> QED
    BY <2>2, <2>3, <2>4, <2>5, OneSlot
<1> QED
  BY <1>0, <1>1, <1>2 DEF SlotTypes

(* A slot that stays ready, or closing, is at its new load in the index. *)
LEMMA Reindexed ==
    ASSUME Core, NEW s \in Slot, NEW p \in Nat, Len(lane'[s]) \in Nat,
           Reindex(s, Len(lane'[s]), p), phase[s] \in {"Ready", "Closing"}, Elsewhere(s),
           phase[s] = "Closing" => p = 0,
           phase[s] = "Ready" =>
               Chain(p, sbatch'[s], batch[s], sync[s], Len(lane'[s]), lane'[s])
    PROVE  Core'
<1>0. SlotTypes /\ SlotInv(s) /\ MinOf(index) /\ index \in IndexType
  BY DEF Core, SlotTypes
<1> DEFINE load == Len(lane'[s]) + p + (IF sync[s] = "Synced" THEN 0 ELSE 1)
<1>1. CASE access[s] = "Draining" /\ load = 0
  <2>1. CloseSlot(s)
    BY <1>1 DEF Reindex
  <2> QED
    BY <2>1, Closed
<1>2. CASE ~ (access[s] = "Draining" /\ load = 0)
  <2>1. /\ index' = IF access[s] = "Shared" THEN Reprioritize(index, s, load) ELSE index
        /\ pending' = [pending EXCEPT ![s] = p]
        /\ phase' = phase /\ gen' = gen /\ access' = access /\ seq' = seq
        /\ receiving' = receiving /\ sync' = sync /\ batch' = batch
        /\ live' = live /\ blockers' = blockers
    BY <1>2 DEF Reindex
  <2>2. load \in Nat
    OBVIOUS
  <2>3. pending'[s] = p /\ pending' \in [Slot -> Nat] /\ \A r \in Slot \ {s} : pending'[r] = pending[r]
    BY <1>0, <2>1 DEF SlotTypes
  <2>4. load = Load(s)'
    <3> DEFINE d == Len(lane'[s])
               x == IF sync[s] = "Synced" THEN 0 ELSE 1
    <3>1. Load(s)' = d + (p + x) /\ load = d + p + x
      BY <2>1, <2>3 DEF Load, Barriers
    <3>2. d \in Nat /\ x \in Nat
      OBVIOUS
    <3> HIDE DEF d, x, load
    <3> QED
      BY <3>1, <3>2
  <2> HIDE DEF load
  <2>5. /\ index' \in IndexType /\ MinOf(index')
        /\ index'.rank = IF access[s] = "Shared" /\ index.rank[s] # Unlisted
                         THEN [index.rank EXCEPT ![s] = Clamp(load)] ELSE index.rank
    <3>1. CASE access[s] = "Shared"
      <4>1. /\ Reprioritize(index, s, load) \in IndexType
            /\ Reprioritize(index, s, load).rank =
                  IF index.rank[s] = Unlisted THEN index.rank ELSE [index.rank EXCEPT ![s] = Clamp(load)]
            /\ MinOf(index) => MinOf(Reprioritize(index, s, load))
        BY <1>0, <2>2, ReprioritizeIndex
      <4> QED
        BY <1>0, <2>1, <3>1, <4>1
    <3>2. CASE access[s] # "Shared"
      BY <1>0, <2>1, <3>2
    <3> QED
      BY <3>1, <3>2
  <2>6. Clamp(load) # Unlisted
    BY <2>2, ClampRange DEF Unlisted
  <2>7. \A r \in Slot \ {s} : Same(r)
    BY <1>0, <2>1, <2>3, <2>5 DEF Same, Elsewhere, IndexType
  <2>8. SlotTypes'
    BY <1>0, <2>1, <2>3, <2>5 DEF SlotTypes
  <2>9. SlotInv(s)'
    <3>1. /\ index'.rank[s] # Unlisted <=> index.rank[s] # Unlisted
          /\ index'.rank[s] # Unlisted => index'.rank[s] = Clamp(load)
      BY <1>0, <2>5, <2>6 DEF IndexType, SlotInv
    <3>2. phase[s] = "Ready" =>
               Chain(pending'[s], sbatch'[s], batch'[s], sync'[s], Len(lane'[s]), lane'[s])
      BY <2>1, <2>3
    <3> HIDE DEF load
    <3>3. /\ phase'[s] = phase[s] /\ access'[s] = access[s] /\ sync'[s] = sync[s]
          /\ receiving'[s] = receiving[s]
      BY <2>1
    <3> QED
      BY <1>0, <2>3, <2>4, <3>1, <3>2, <3>3 DEF SlotInv
  <2>10. /\ live' = live + Counts(phase'[s], {"Ready"}) - Counts(phase[s], {"Ready"})
         /\ blockers' = blockers + Counts(access'[s], {"Reserved", "Held"})
                                 - Counts(access[s], {"Reserved", "Held"})
    BY <1>0, <2>1 DEF Counts, SlotTypes
  <2> QED
    BY <2>5, <2>7, <2>8, <2>9, <2>10, OneSlot
<1> QED
  BY <1>1, <1>2

(* The reply in front leaves the lane. *)
LEMMA Popped ==
    ASSUME PoolTypes, NEW s \in Slot, NEW how \in {"Ok", "Err"}, Pop(s, how), lane[s] # <<>>
    PROVE  /\ LaneTypes' /\ reply' \in [Txs -> {"Due", "Ok", "Err"}]
           /\ \A r \in Slot \ {s} : lane'[r] = lane[r]
           /\ Len(lane'[s]) \in Nat /\ Len(lane'[s]) = Len(lane[s]) - 1
           /\ Shorter(Len(lane[s]), lane[s], lane'[s])
<1>1. lane \in [Slot -> Seq(Replies)] /\ reply \in [Txs -> {"Due", "Ok", "Err"}]
  BY DEF PoolTypes, LaneTypes, TxTypes
<1>2. lane' = [lane EXCEPT ![s] = Tail(lane[s])] /\ lane'[s] = Tail(lane[s])
  BY <1>1 DEF Pop
<1>3. /\ Tail(lane[s]) \in Seq(Replies) /\ Len(lane[s]) \in Nat /\ Len(lane[s]) > 0
      /\ Len(Tail(lane[s])) = Len(lane[s]) - 1
      /\ Shorter(Len(lane[s]), lane[s], Tail(lane[s]))
  BY <1>1, LaneTail
<1>4. LaneTypes' /\ \A r \in Slot \ {s} : lane'[r] = lane[r]
  BY <1>1, <1>2, <1>3 DEF LaneTypes
<1>5. reply' \in [Txs -> {"Due", "Ok", "Err"}]
  BY <1>1 DEF Pop, Answer
<1>6. /\ Len(lane'[s]) \in Nat /\ Len(lane'[s]) = Len(lane[s]) - 1
      /\ Shorter(Len(lane[s]), lane[s], lane'[s])
  <2>1. Len(Tail(lane[s])) \in Nat
    BY <1>3
  <2> QED
    BY <1>2, <1>3, <2>1
<1> QED
  BY <1>4, <1>5, <1>6

(* A request is published on a slot whose listing is ix. *)
LEMMA Published ==
    ASSUME PoolTypes, NEW s \in Slot, NEW by \in Calls \cup Txs,
           NEW does \in {"Begin", "Stmt", "Copy", "Commit", "Rollback"}, does = "Begin" => by \in Txs,
           NEW boundary \in Boundaries \cup {"Begin", "Commit"}, NEW ends \in BOOLEAN,
           NEW ix \in IndexType, Publish(s, by, does, boundary, ends, ix),
           Chain(pending[s], sbatch[s], batch[s], sync[s], Len(lane[s]), lane[s])
    PROVE  /\ LaneTypes' /\ queue' \in [Slot -> Seq(Frames)]
           /\ sync' \in [Slot -> {"Synced", "Automatic", "Explicit"}]
           /\ pending' \in [Slot -> Nat] /\ batch' \in [Slot -> 0 .. Batches - 1]
           /\ index' \in IndexType /\ (MinOf(ix) => MinOf(index'))
           /\ index'.rank = IF ix.rank[s] = Unlisted THEN ix.rank
                            ELSE [ix.rank EXCEPT ![s] = Clamp(Load(s)')]
           /\ Load(s)' \in Nat
           /\ \A r \in Slot \ {s} :
                 /\ lane'[r] = lane[r] /\ sync'[r] = sync[r]
                 /\ pending'[r] = pending[r] /\ batch'[r] = batch[r]
           /\ Chain(pending'[s], sbatch[s], batch'[s], sync'[s], Len(lane'[s]), lane'[s])
<1> DEFINE next == NextSync(sync[s], boundary)
           due == pending[s] + (IF Closes(boundary) THEN 1 ELSE 0)
           to == IF Closes(boundary) THEN NextBatch(batch[s]) ELSE batch[s]
           e == [batch |-> batch[s], kind |-> Kind(boundary), by |-> by, ends |-> ends]
           f == Frame(by, does, Closes(boundary))
<1>0. /\ lane \in [Slot -> Seq(Replies)] /\ queue \in [Slot -> Seq(Frames)]
      /\ sync \in [Slot -> {"Synced", "Automatic", "Explicit"}]
      /\ pending \in [Slot -> Nat] /\ batch \in [Slot -> 0 .. Batches - 1]
      /\ sbatch \in [Slot -> 0 .. Batches - 1]
  BY DEF PoolTypes, LaneTypes, WireTypes, SlotTypes, SessionTypes
<1>1. /\ next # "None"
      /\ lane' = [lane EXCEPT ![s] = Append(lane[s], e)]
      /\ queue' = [queue EXCEPT ![s] = Append(queue[s], f)]
      /\ sync' = [sync EXCEPT ![s] = next]
      /\ pending' = [pending EXCEPT ![s] = due]
      /\ batch' = [batch EXCEPT ![s] = to]
      /\ index' = Reprioritize(ix, s, LoadAfter(s, boundary))
  BY <1>0 DEF Publish
<1>2. /\ boundary \in {"Open", "External", "Close", "Begin", "Commit"}
      /\ boundary = "Open" => /\ sync[s] \in {"Synced", "Automatic"} /\ next = "Automatic"
                              /\ Kind(boundary) = "Command" /\ ~ Closes(boundary)
      /\ boundary = "External" => /\ sync[s] = "Synced" /\ next = "Explicit"
                                  /\ Kind(boundary) = "Ready" /\ ~ Closes(boundary)
      /\ boundary \in {"Close", "Begin", "Commit"} =>
             /\ sync[s] \in {"Synced", "Automatic"} /\ next = "Synced"
             /\ Kind(boundary) \in {"Ready", "Begin", "Commit"} /\ Closes(boundary)
  <2>1. sync[s] \in {"Synced", "Automatic", "Explicit"}
    BY <1>0
  <2>2. boundary \in {"Open", "External", "Close", "Begin", "Commit"}
    BY DEF Boundaries
  <2>3. next # "None"
    BY <1>1
  <2> QED
    BY <2>1, <2>2, <2>3 DEF NextSync, Kind, Closes
<1>3. e \in Replies /\ e.batch = batch[s] /\ e.kind = Kind(boundary)
  <2>1. Kind(boundary) \in {"Command", "Ready", "Begin", "Commit"}
    BY <1>2
  <2> QED
    BY <1>0, <2>1 DEF Replies
<1>4. f \in Frames
  BY DEF Frames, Frame, Closes
<1>5. /\ due \in Nat /\ to \in 0 .. Batches - 1 /\ next \in {"Synced", "Automatic", "Explicit"}
  BY <1>0, <1>2, NextBatchStep
<1> DEFINE ln == lane[s]
           new == Append(lane[s], e)
           n == Len(lane[s])
<1>6. /\ new \in Seq(Replies) /\ n \in Nat /\ Len(new) = n + 1
      /\ Longer(n, ln, new, batch[s]) /\ new[n + 1] = e
  BY <1>0, <1>3, LaneAppend
<1>7. /\ lane' = [lane EXCEPT ![s] = new] /\ lane'[s] = new
      /\ sync'[s] = next /\ pending'[s] = due /\ batch'[s] = to
  BY <1>0, <1>1
<1>n. n = Len(lane[s])
  OBVIOUS
<1>8. Append(queue[s], f) \in Seq(Frames)
  BY <1>0, <1>4
<1>9. new[n + 1].kind = Kind(boundary)
  BY <1>3, <1>6
<1> HIDE DEF e, f, new, next, to, ln, n
<1>10. LaneTypes' /\ queue' \in [Slot -> Seq(Frames)]
  BY <1>0, <1>1, <1>6, <1>7, <1>8 DEF LaneTypes
<1>11. /\ sync' \in [Slot -> {"Synced", "Automatic", "Explicit"}]
       /\ pending' \in [Slot -> Nat] /\ batch' \in [Slot -> 0 .. Batches - 1]
  BY <1>0, <1>1, <1>5
<1>12. \A r \in Slot \ {s} :
          /\ lane'[r] = lane[r] /\ sync'[r] = sync[r]
          /\ pending'[r] = pending[r] /\ batch'[r] = batch[r]
  BY <1>0, <1>1
<1>13. Load(s)' = LoadAfter(s, boundary) /\ LoadAfter(s, boundary) \in Nat
  <2>1. Load(s)' = (n + 1) + (due + (IF next = "Synced" THEN 0 ELSE 1))
    BY <1>6, <1>7 DEF Load, Barriers
  <2>2. LoadAfter(s, boundary) = n + 1 + pending[s]
            + (IF Closes(boundary) \/ next # "Synced" THEN 1 ELSE 0)
    BY <1>n DEF LoadAfter, next
  <2>3. pending[s] \in Nat
    BY <1>0
  <2>4. CASE Closes(boundary)
    BY <1>2, <1>6, <2>1, <2>2, <2>3, <2>4
  <2>5. CASE ~ Closes(boundary)
    BY <1>2, <1>6, <2>1, <2>2, <2>3, <2>5
  <2> QED
    BY <2>4, <2>5
<1>14. /\ index' \in IndexType /\ (MinOf(ix) => MinOf(index'))
       /\ index'.rank = IF ix.rank[s] = Unlisted THEN ix.rank
                        ELSE [ix.rank EXCEPT ![s] = Clamp(Load(s)')]
  <2> DEFINE load == LoadAfter(s, boundary)
  <2>1. load \in Nat /\ load = Load(s)' /\ index' = Reprioritize(ix, s, load)
    BY <1>1, <1>13
  <2> HIDE DEF load
  <2>2. /\ Reprioritize(ix, s, load) \in IndexType
        /\ Reprioritize(ix, s, load).rank =
              IF ix.rank[s] = Unlisted THEN ix.rank ELSE [ix.rank EXCEPT ![s] = Clamp(load)]
        /\ MinOf(ix) => MinOf(Reprioritize(ix, s, load))
    BY <2>1, ReprioritizeIndex
  <2> QED
    BY <2>1, <2>2
<1>15. Chain(pending'[s], sbatch[s], batch'[s], sync'[s], Len(lane'[s]), lane'[s])
  <2>0. Chain(pending[s], sbatch[s], batch[s], sync[s], n, ln)
    BY DEF n, ln
  <2>p. pending[s] \in Nat /\ batch[s] \in 0 .. Batches - 1 /\ n \in Nat
    BY <1>0, <1>6
  <2>1. CASE boundary = "Open"
    <3>1. sync[s] \in {"Synced", "Automatic"} /\ next = "Automatic"
          /\ (new[n + 1].kind = "Command" <=> "Automatic" = "Automatic")
      BY <1>2, <1>9, <2>1
    <3>2. Chain(pending[s], sbatch[s], batch[s], "Automatic", n + 1, new)
      BY <1>6, <2>0, <2>p, <3>1, ChainOpen
    <3>3. due = pending[s] /\ to = batch[s]
      BY <1>2, <2>1, <2>p DEF to
    <3> QED
      BY <1>6, <1>7, <3>1, <3>2, <3>3
  <2>2. CASE boundary = "External"
    <3>1. sync[s] \in {"Synced", "Automatic"} /\ next = "Explicit"
          /\ (new[n + 1].kind = "Command" <=> "Explicit" = "Automatic")
      BY <1>2, <1>9, <2>2
    <3>2. Chain(pending[s], sbatch[s], batch[s], "Explicit", n + 1, new)
      BY <1>6, <2>0, <2>p, <3>1, ChainOpen
    <3>3. due = pending[s] /\ to = batch[s]
      BY <1>2, <2>2, <2>p DEF to
    <3> QED
      BY <1>6, <1>7, <3>1, <3>2, <3>3
  <2>3. CASE boundary \in {"Close", "Begin", "Commit"}
    <3>1. sync[s] \in {"Synced", "Automatic"} /\ next = "Synced"
      BY <1>2, <2>3
    <3>2. Chain(pending[s] + 1, sbatch[s], NextBatch(batch[s]), "Synced", n + 1, new)
      BY <1>6, <2>0, <2>p, <3>1, ChainClose
    <3>3. due = pending[s] + 1 /\ to = NextBatch(batch[s])
      BY <1>2, <2>3 DEF to
    <3> QED
      BY <1>6, <1>7, <3>1, <3>2, <3>3
  <2> QED
    BY <1>2, <2>1, <2>2, <2>3
<1> QED
  BY <1>10, <1>11, <1>12, <1>13, <1>14, <1>15

-----------------------------------------------------------------------------
(* The answers of the server *)

(* A connection whose session reads is open: ready, or closing. *)
LEMMA ReadsOpen ==
    ASSUME PoolInv, NEW s \in Slot, session[s] = "Ready"
    PROVE  /\ phase[s] \in {"Ready", "Closing"} /\ pending[s] \in Nat
           /\ phase[s] = "Closing" => pending[s] = 0
           /\ phase[s] = "Ready" =>
                 Chain(pending[s], sbatch[s], batch[s], sync[s], Len(lane[s]), lane[s])
<1>1. SlotInv(s) /\ SlotTypes
  BY DEF PoolInv, Core
<1>2. phase[s] \in {"Vacant", "Handshaking", "Ready", "Closing"} /\ pending[s] \in Nat
  BY <1>1 DEF SlotTypes
<1> QED
  BY <1>1, <1>2 DEF SlotInv

LEMMA FrontPopped ==
    ASSUME PoolInv, NEW s \in Slot, session[s] = "Ready", NEW how \in {"Ok", "Err"},
           Front(s) \notin {"None", "Stale"}, Pop(s, how)
    PROVE  /\ LaneTypes' /\ reply' \in [Txs -> {"Due", "Ok", "Err"}]
           /\ \A r \in Slot \ {s} : lane'[r] = lane[r]
           /\ Len(lane'[s]) \in Nat /\ Len(lane'[s]) = Len(lane[s]) - 1
           /\ phase[s] = "Ready" =>
                 Chain(pending[s], sbatch[s], batch[s], sync[s], Len(lane'[s]), lane'[s])
<1>1. PoolTypes /\ lane[s] # <<>> /\ lane[s][1].batch = sbatch[s]
  BY FrontKind DEF PoolInv
<1>2. /\ LaneTypes' /\ reply' \in [Txs -> {"Due", "Ok", "Err"}]
      /\ \A r \in Slot \ {s} : lane'[r] = lane[r]
      /\ Len(lane'[s]) \in Nat /\ Len(lane'[s]) = Len(lane[s]) - 1
      /\ Shorter(Len(lane[s]), lane[s], lane'[s])
  BY <1>1, Popped
<1>3. ASSUME phase[s] = "Ready"
      PROVE  Chain(pending[s], sbatch[s], batch[s], sync[s], Len(lane'[s]), lane'[s])
  <2>1. Chain(pending[s], sbatch[s], batch[s], sync[s], Len(lane[s]), lane[s]) /\ pending[s] \in Nat
    BY <1>3, ReadsOpen
  <2>2. lane[s] \in Seq(Replies)
    BY <1>1 DEF PoolTypes, LaneTypes
  <2>3. Len(lane[s]) \in Nat /\ Len(lane[s]) > 0
    BY <1>1, <2>2, LaneTail
  <2>4. Chain(pending[s], sbatch[s], batch[s], sync[s], Len(lane[s]) - 1, lane'[s])
    BY <1>1, <1>2, <2>1, <2>3, ChainPop
  <2> QED
    BY <1>2, <2>4
<1> QED
  BY <1>2, <1>3

(* The reply in front is answered, and the slot moves to its new load. *)
LEMMA FrontAnswered ==
    ASSUME PoolInv, NEW s \in Slot, session[s] = "Ready", NEW how \in {"Ok", "Err"},
           Front(s) \notin {"None", "Stale"}, Pop(s, how),
           Reindex(s, Len(lane[s]) - 1, pending[s]), session' = session, sbatch' = sbatch
    PROVE  LaneTypes' /\ reply' \in [Txs -> {"Due", "Ok", "Err"}] /\ Core'
<1>1. /\ LaneTypes' /\ reply' \in [Txs -> {"Due", "Ok", "Err"}]
      /\ \A r \in Slot \ {s} : lane'[r] = lane[r]
      /\ Len(lane'[s]) \in Nat /\ Len(lane'[s]) = Len(lane[s]) - 1
      /\ phase[s] = "Ready" =>
            Chain(pending[s], sbatch[s], batch[s], sync[s], Len(lane'[s]), lane'[s])
  BY FrontPopped
<1>2. /\ phase[s] \in {"Ready", "Closing"} /\ pending[s] \in Nat
      /\ phase[s] = "Closing" => pending[s] = 0
  BY ReadsOpen
<1>3. Reindex(s, Len(lane'[s]), pending[s]) /\ Elsewhere(s) /\ sbatch'[s] = sbatch[s]
  BY <1>1 DEF Elsewhere
<1>4. Core
  BY DEF PoolInv
<1>5. phase[s] = "Ready" =>
          Chain(pending[s], sbatch'[s], batch[s], sync[s], Len(lane'[s]), lane'[s])
  BY <1>1, <1>3
<1>6. Core'
  BY <1>1, <1>2, <1>3, <1>4, <1>5, Reindexed
<1> QED
  BY <1>1, <1>6

(* The session stops. *)
LEMMA Failed ==
    ASSUME PoolInv, NEW s \in Slot, session[s] = "Ready", Fails(s),
           \A r \in Slot \ {s} : lane'[r] = lane[r]
    PROVE  SessionTypes' /\ Core'
<1>1. SessionTypes /\ Core /\ phase[s] # "Vacant"
  BY ReadsOpen DEF PoolInv, PoolTypes
<1>2. SessionTypes'
  BY <1>1 DEF SessionTypes, Fails
<1>3. Elsewhere(s) /\ CloseSlot(s)
  BY <1>1 DEF Fails, Elsewhere, SessionTypes
<1> QED
  BY <1>1, <1>2, <1>3, Closed

(* Nothing of the slots moves. *)
LEMMA Rests ==
    ASSUME Core, UNCHANGED <<slotVars, indexVars, session, sbatch, lane>>
    PROVE  Core'
<1>1. \A r \in Slot : Same(r)
  BY DEF Same, slotVars, indexVars
<1>2. UNCHANGED <<slotVars, indexVars>>
  OBVIOUS
<1> QED
  BY <1>1, <1>2, NoSlot

LEMMA Completes ==
    ASSUME PoolInv, NEW s \in Slot, session[s] = "Ready", NEW tag, OnComplete(s, tag)
    PROVE  SessionTypes' /\ LaneTypes' /\ reply' \in [Txs -> {"Due", "Ok", "Err"}] /\ Core'
<1>0. SessionTypes /\ LaneTypes /\ Core /\ reply \in [Txs -> {"Due", "Ok", "Err"}]
  BY DEF PoolInv, PoolTypes, TxTypes
<1>1. CASE Fails(s) /\ UNCHANGED <<lane, reply>>
  <2>1. SessionTypes' /\ Core'
    BY <1>1, Failed
  <2> QED
    BY <1>0, <1>1, <2>1 DEF LaneTypes
<1>2. CASE /\ Front(s) = "Command" /\ Pop(s, "Ok") /\ Reindex(s, Len(lane[s]) - 1, pending[s])
           /\ UNCHANGED sessionVars
  <2>1. LaneTypes' /\ reply' \in [Txs -> {"Due", "Ok", "Err"}] /\ Core'
    BY <1>2, FrontAnswered DEF sessionVars
  <2> QED
    BY <1>0, <1>2, <2>1 DEF SessionTypes, sessionVars
<1>3. CASE /\ Front(s) = "Commit" /\ Pop(s, "Err") /\ Reindex(s, Len(lane[s]) - 1, pending[s])
           /\ progress' = [progress EXCEPT ![s] = "Skipping"]
           /\ UNCHANGED <<session, sbatch, settling>>
  <2>1. LaneTypes' /\ reply' \in [Txs -> {"Due", "Ok", "Err"}] /\ Core'
    BY <1>3, FrontAnswered
  <2> QED
    BY <1>0, <1>3, <2>1 DEF SessionTypes
<1>4. CASE /\ progress' = [progress EXCEPT ![s] = "Complete"]
           /\ UNCHANGED <<slotVars, indexVars, session, sbatch, settling, lane, reply>>
  <2>1. Core'
    BY <1>0, <1>4, Rests
  <2> QED
    BY <1>0, <1>4, <2>1 DEF SessionTypes, LaneTypes
<1> QED
  BY <1>1, <1>2, <1>3, <1>4 DEF OnComplete

LEMMA Errs ==
    ASSUME PoolInv, NEW s \in Slot, session[s] = "Ready", NEW scope, OnError(s, scope)
    PROVE  SessionTypes' /\ LaneTypes' /\ reply' \in [Txs -> {"Due", "Ok", "Err"}] /\ Core'
<1>0. SessionTypes /\ LaneTypes /\ Core /\ reply \in [Txs -> {"Due", "Ok", "Err"}]
  BY DEF PoolInv, PoolTypes, TxTypes
<1>1. CASE Fails(s) /\ UNCHANGED <<lane, reply>>
  <2>1. SessionTypes' /\ Core'
    BY <1>1, Failed
  <2> QED
    BY <1>0, <1>1, <2>1 DEF LaneTypes
<1>2. CASE Front(s) \notin {"None", "Stale"} /\ Pop(s, "Err") /\ Fails(s)
  <2>1. /\ LaneTypes' /\ reply' \in [Txs -> {"Due", "Ok", "Err"}]
        /\ \A r \in Slot \ {s} : lane'[r] = lane[r]
    BY <1>2, FrontPopped
  <2>2. SessionTypes' /\ Core'
    BY <1>2, <2>1, Failed
  <2> QED
    BY <2>1, <2>2
<1>3. CASE /\ Front(s) \notin {"None", "Stale"} /\ Pop(s, "Err")
           /\ Reindex(s, Len(lane[s]) - 1, pending[s])
           /\ progress' = [progress EXCEPT ![s] = "Skipping"]
           /\ UNCHANGED <<session, sbatch, settling>>
  <2>1. LaneTypes' /\ reply' \in [Txs -> {"Due", "Ok", "Err"}] /\ Core'
    BY <1>3, FrontAnswered
  <2> QED
    BY <1>0, <1>3, <2>1 DEF SessionTypes
<1> QED
  BY <1>1, <1>2, <1>3 DEF OnError

LEMMA Readied ==
    ASSUME PoolInv, NEW s \in Slot, session[s] = "Ready", NEW status \in {"Idle", "Transaction"},
           OnReady(s, status), lane' = lane
    PROVE  SessionTypes' /\ Core'
<1>0. SessionTypes /\ Core
  BY DEF PoolInv, PoolTypes
<1>1. CASE Fails(s)
  BY <1>1, Failed
<1>2. CASE /\ settling' = [settling EXCEPT ![s] = status]
           /\ UNCHANGED <<slotVars, indexVars, session, progress, sbatch>>
  <2>1. Core'
    BY <1>0, <1>2, Rests
  <2> QED
    BY <1>0, <1>2, <2>1 DEF SessionTypes
<1> QED
  BY <1>1, <1>2 DEF OnReady

-----------------------------------------------------------------------------
(* The end of a batch *)

(* The lane once the batch has settled: its retained reply has left. *)
LEMMA SettledLane ==
    ASSUME PoolInv, NEW s \in Slot, session[s] = "Ready", Settles(s),
           IF Retained(s) THEN Pop(s, "Ok") ELSE UNCHANGED <<lane, reply>>
    PROVE  /\ LaneTypes' /\ reply' \in [Txs -> {"Due", "Ok", "Err"}]
           /\ \A r \in Slot \ {s} : lane'[r] = lane[r]
           /\ Len(lane'[s]) \in Nat
           /\ Len(lane'[s]) = Len(lane[s]) - (IF Retained(s) THEN 1 ELSE 0)
           /\ phase[s] = "Ready" /\ pending[s] > 0 =>
                 Chain(pending[s] - 1, NextBatch(sbatch[s]), batch[s], sync[s],
                       Len(lane'[s]), lane'[s])
<1>0. PoolTypes /\ lane[s] \in Seq(Replies) /\ Len(lane[s]) \in Nat
  BY DEF PoolInv, PoolTypes, LaneTypes
<1>1. CASE Retained(s)
  <2>1. Front(s) \notin {"None", "Stale"} /\ Front(s) # "Command" /\ Pop(s, "Ok")
    BY <1>1 DEF Retained
  <2>2. /\ lane[s] # <<>> /\ lane[s][1].batch = sbatch[s] /\ lane[s][1].kind # "Command"
    BY <1>0, <2>1, FrontKind
  <2>3. /\ LaneTypes' /\ reply' \in [Txs -> {"Due", "Ok", "Err"}]
        /\ \A r \in Slot \ {s} : lane'[r] = lane[r]
        /\ Len(lane'[s]) \in Nat /\ Len(lane'[s]) = Len(lane[s]) - 1
        /\ phase[s] = "Ready" =>
              Chain(pending[s], sbatch[s], batch[s], sync[s], Len(lane'[s]), lane'[s])
    BY <2>1, FrontPopped
  <2>4. ASSUME phase[s] = "Ready", pending[s] > 0
        PROVE  Chain(pending[s] - 1, NextBatch(sbatch[s]), batch[s], sync[s],
                     Len(lane'[s]), lane'[s])
    <3>1. Chain(pending[s], sbatch[s], batch[s], sync[s], Len(lane[s]), lane[s]) /\ pending[s] \in Nat
      BY <2>4, ReadsOpen
    <3>2. Shorter(Len(lane[s]), lane[s], lane'[s])
      BY <1>0, <2>1, <2>2, Popped
    <3>3. ASSUME Len(lane'[s]) > 0 PROVE lane'[s][1].batch # sbatch[s]
      <4>1. Len(lane[s]) > 1
        BY <1>0, <2>3, <3>3
      <4>2. lane[s][2].batch # sbatch[s]
        BY <1>0, <2>2, <3>1, <4>1, ChainTurn
      <4>3. lane'[s][1] = lane[s][2]
        <5>1. 1 \in 1 .. Len(lane[s]) - 1 /\ 1 + 1 = 2
          BY <1>0, <4>1
        <5> QED
          BY <3>2, <5>1 DEF Shorter
      <4> QED
        BY <4>2, <4>3
    <3>4. Chain(pending[s], sbatch[s], batch[s], sync[s], Len(lane'[s]), lane'[s])
      BY <2>3, <2>4
    <3> QED
      BY <2>3, <2>4, <3>1, <3>3, <3>4, ChainSettle
  <2>5. Len(lane'[s]) = Len(lane[s]) - (IF Retained(s) THEN 1 ELSE 0)
    BY <1>1, <2>3
  <2> QED
    BY <2>3, <2>4, <2>5
<1>2. CASE ~ Retained(s)
  <2>1. Front(s) = "None" /\ lane' = lane /\ reply' = reply
    BY <1>2 DEF Settles
  <2>2. lane[s] # <<>> => lane[s][1].batch # sbatch[s]
    BY <1>0, <2>1, FrontKind
  <2>3. LaneTypes' /\ reply' \in [Txs -> {"Due", "Ok", "Err"}]
    BY <1>0, <2>1 DEF PoolTypes, LaneTypes, TxTypes
  <2>4. ASSUME phase[s] = "Ready", pending[s] > 0
        PROVE  Chain(pending[s] - 1, NextBatch(sbatch[s]), batch[s], sync[s],
                     Len(lane[s]), lane[s])
    <3>1. Chain(pending[s], sbatch[s], batch[s], sync[s], Len(lane[s]), lane[s]) /\ pending[s] \in Nat
      BY <2>4, ReadsOpen
    <3>2. Len(lane[s]) > 0 => lane[s][1].batch # sbatch[s]
      BY <1>0, <2>2
    <3> QED
      BY <1>0, <2>4, <3>1, <3>2, ChainSettle
  <2>5. Len(lane[s]) = Len(lane[s]) - (IF Retained(s) THEN 1 ELSE 0)
    BY <1>0, <1>2
  <2> QED
    BY <1>0, <2>1, <2>3, <2>4, <2>5
<1> QED
  BY <1>1, <1>2

(* The batch of a ready connection changes who holds it: the BEGIN has     *)
(* been answered, or the end, and then the connection is shared again.     *)
LEMMA Polled ==
    ASSUME Core, NEW s \in Slot, NEW depth \in Nat, NEW status,
           phase[s] = "Ready", pending[s] > 0,
           PollReady(s, status, depth + Barriers(s) - 1),
           depth = Len(lane'[s]), Elsewhere(s), session'[s] = session[s],
           pending' = [pending EXCEPT ![s] = Settled(s)],
           UNCHANGED <<phase, gen, seq, receiving, sync, batch, live, blockers>>,
           Chain(pending[s] - 1, sbatch'[s], batch[s], sync[s], Len(lane'[s]), lane'[s])
    PROVE  Core'
<1>0. SlotTypes /\ SlotInv(s) /\ MinOf(index) /\ index \in IndexType
  BY DEF Core, SlotTypes
<1>1. /\ pending' = [pending EXCEPT ![s] = pending[s] - 1]
      /\ pending[s] \in Nat /\ pending[s] - 1 \in Nat
  BY <1>0 DEF SlotTypes, Settled
<1>2. pending'[s] = pending[s] - 1 /\ pending' \in [Slot -> Nat]
      /\ \A r \in Slot \ {s} : pending'[r] = pending[r]
  BY <1>0, <1>1 DEF SlotTypes
<1> DEFINE load == depth + Barriers(s) - 1
<1>3. load = Load(s)' /\ load \in Nat
  <2> DEFINE x == IF sync[s] = "Synced" THEN 0 ELSE 1
  <2>1. Load(s)' = depth + ((pending[s] - 1) + x) /\ Barriers(s) = pending[s] + x /\ x \in Nat
    BY <1>2 DEF Load, Barriers
  <2>2. depth \in Nat /\ load = depth + Barriers(s) - 1
    OBVIOUS
  <2> HIDE DEF x, load
  <2> QED
    BY ONLY <1>1, <2>1, <2>2
<1> HIDE DEF load
<1>4. Chain(pending'[s], sbatch'[s], batch'[s], sync'[s], Len(lane'[s]), lane'[s])
  BY <1>2
<1>5. CASE access[s] = "Reserved" /\ access' = [access EXCEPT ![s] = "Held"] /\ index' = index
  <2>1. \A r \in Slot \ {s} : Same(r)
    BY <1>0, <1>2, <1>5 DEF Same, Elsewhere, SlotTypes
  <2>2. SlotTypes' /\ access'[s] = "Held"
    BY <1>0, <1>2, <1>5 DEF SlotTypes, Accesses
  <2>3. SlotInv(s)'
    BY <1>0, <1>4, <1>5, <2>2 DEF SlotInv
  <2>4. /\ live' = live + Counts(phase'[s], {"Ready"}) - Counts(phase[s], {"Ready"})
        /\ blockers' = blockers + Counts(access'[s], {"Reserved", "Held"})
                                - Counts(access[s], {"Reserved", "Held"})
    BY <1>0, <1>5, <2>2 DEF Counts, SlotTypes
  <2>5. MinOf(index')
    BY <1>0, <1>5
  <2> QED
    BY <2>1, <2>2, <2>3, <2>4, <2>5, OneSlot
<1>6. CASE /\ access[s] = "Finalizing" /\ access' = [access EXCEPT ![s] = "Shared"]
           /\ index' = IF Relists(s) THEN Attach(index, s, Clamp(load)) ELSE index
  <2>0. index.rank[s] = Unlisted /\ receiving[s] \in BOOLEAN
    BY <1>0, <1>6 DEF SlotInv, SlotTypes
  <2>1. Clamp(load) \in 0 .. Buckets - 1 /\ Clamp(load) # Unlisted
    BY <1>3, ClampRange DEF Unlisted
  <2>2. /\ index' \in IndexType /\ MinOf(index')
        /\ index'.rank = IF receiving[s] = FALSE THEN [index.rank EXCEPT ![s] = Clamp(load)]
                         ELSE index.rank
    <3>1. CASE Relists(s)
      <4> DEFINE k == Clamp(load)
      <4>1. k \in 0 .. Buckets - 1 /\ index' = Attach(index, s, k)
        BY <1>6, <2>1, <3>1
      <4> HIDE DEF k
      <4>2. /\ Attach(index, s, k) \in IndexType
            /\ Attach(index, s, k).rank = [index.rank EXCEPT ![s] = k]
            /\ MinOf(Attach(index, s, k))
        BY <1>0, <2>0, <4>1, AttachIndex
      <4>3. receiving[s] = FALSE
        BY <2>0, <3>1 DEF Relists
      <4> QED
        BY <4>1, <4>2, <4>3 DEF k
    <3>2. CASE ~ Relists(s)
      BY <1>0, <1>6, <2>0, <3>2 DEF Relists
    <3> QED
      BY <3>1, <3>2
  <2>3. \A r \in Slot \ {s} : Same(r)
    <3>1. \A r \in Slot \ {s} : index'.rank[r] = index.rank[r] /\ access'[r] = access[r]
      BY <1>0, <1>6, <2>2 DEF SlotTypes, IndexType
    <3> QED
      BY <1>2, <3>1 DEF Same, Elsewhere
  <2>4. SlotTypes' /\ access'[s] = "Shared"
    BY <1>0, <1>2, <1>6, <2>2 DEF SlotTypes, Accesses
  <2>5. /\ index'.rank[s] # Unlisted <=> receiving[s] = FALSE
        /\ index'.rank[s] # Unlisted => index'.rank[s] = Clamp(load)
    BY <1>0, <2>0, <2>1, <2>2 DEF IndexType
  <2>6. SlotInv(s)'
    BY <1>3, <1>4, <2>4, <2>5 DEF SlotInv
  <2>7. /\ live' = live + Counts(phase'[s], {"Ready"}) - Counts(phase[s], {"Ready"})
        /\ blockers' = blockers + Counts(access'[s], {"Reserved", "Held"})
                                - Counts(access[s], {"Reserved", "Held"})
    BY <1>0, <1>6, <2>4 DEF Counts, SlotTypes
  <2> QED
    BY <2>2, <2>3, <2>4, <2>6, <2>7, OneSlot
<1> QED
  BY <1>5, <1>6 DEF PollReady, load

LEMMA SettleDoneStep ==
    ASSUME PoolInv, NEW s \in Slot, SettleDone(s)
    PROVE  PoolInv'
<1>0. PoolTypes /\ Core /\ session[s] = "Ready" /\ Settles(s)
      /\ (IF Retained(s) THEN Pop(s, "Ok") ELSE UNCHANGED <<lane, reply>>)
      /\ UNCHANGED <<queue, serverVars, stage, target>>
  BY DEF PoolInv, SettleDone
<1>1. /\ LaneTypes' /\ reply' \in [Txs -> {"Due", "Ok", "Err"}]
      /\ \A r \in Slot \ {s} : lane'[r] = lane[r]
      /\ Len(lane'[s]) \in Nat
      /\ Len(lane'[s]) = Len(lane[s]) - (IF Retained(s) THEN 1 ELSE 0)
      /\ phase[s] = "Ready" /\ pending[s] > 0 =>
            Chain(pending[s] - 1, NextBatch(sbatch[s]), batch[s], sync[s],
                  Len(lane'[s]), lane'[s])
  BY <1>0, SettledLane
<1>2. WireTypes' /\ TxTypes'
  BY <1>0, <1>1 DEF PoolTypes, WireTypes, TxTypes, serverVars
<1> DEFINE next == /\ progress' = [progress EXCEPT ![s] = "Running"]
                   /\ sbatch' = [sbatch EXCEPT ![s] = NextBatch(sbatch[s])]
                   /\ settling' = [settling EXCEPT ![s] = "No"]
                   /\ UNCHANGED session
           depth == Len(lane'[s])
<1>3. \/ phase[s] = "Closing" /\ next /\ UNCHANGED <<slotVars, indexVars>>
      \/ phase[s] = "Ready" /\ Fails(s)
      \/ /\ phase[s] = "Ready" /\ pending[s] > 0 /\ next
         /\ PollReady(s, settling[s], depth + Barriers(s) - 1)
         /\ pending' = [pending EXCEPT ![s] = Settled(s)]
         /\ UNCHANGED <<phase, gen, seq, receiving, sync, batch, live, blockers>>
      \/ phase[s] = "Ready" /\ pending[s] > 0 /\ next /\ Reindex(s, depth, Settled(s))
  BY <1>0, <1>1 DEF SettleDone, PoolTypes, SessionTypes
<1>4. ASSUME next
      PROVE  SessionTypes' /\ Elsewhere(s) /\ session'[s] = session[s] /\ sbatch'[s] = NextBatch(sbatch[s])
  <2>1. SessionTypes /\ sbatch[s] \in 0 .. Batches - 1
    BY <1>0 DEF PoolTypes, SessionTypes
  <2>2. NextBatch(sbatch[s]) \in 0 .. Batches - 1
    BY <2>1, NextBatchStep
  <2> QED
    BY <1>1, <1>4, <2>1, <2>2 DEF SessionTypes, Elsewhere
<1> HIDE DEF next
<1>5. SessionTypes' /\ Core'
  <2>1. CASE phase[s] = "Closing" /\ next /\ UNCHANGED <<slotVars, indexVars>>
    <3>1. CloseSlot(s)
      BY <2>1 DEF CloseSlot
    <3> QED
      BY <1>0, <1>4, <2>1, <3>1, Closed
  <2>2. CASE phase[s] = "Ready" /\ Fails(s)
    BY <1>0, <1>1, <2>2, Failed
  <2>3. CASE /\ phase[s] = "Ready" /\ pending[s] > 0 /\ next
             /\ PollReady(s, settling[s], depth + Barriers(s) - 1)
             /\ pending' = [pending EXCEPT ![s] = Settled(s)]
             /\ UNCHANGED <<phase, gen, seq, receiving, sync, batch, live, blockers>>
    <3>1. Chain(pending[s] - 1, sbatch'[s], batch[s], sync[s], Len(lane'[s]), lane'[s])
      BY <1>1, <1>4, <2>3
    <3>2. Core'
      BY <1>0, <1>1, <1>4, <2>3, <3>1, Polled
    <3> QED
      BY <1>4, <2>3, <3>2
  <2>4. CASE phase[s] = "Ready" /\ pending[s] > 0 /\ next /\ Reindex(s, depth, Settled(s))
    <3> DEFINE p == pending[s] - 1
    <3>1. Chain(p, sbatch'[s], batch[s], sync[s], Len(lane'[s]), lane'[s])
      BY <1>1, <1>4, <2>4
    <3>2. p \in Nat
      BY <1>0, <2>4 DEF PoolTypes, SlotTypes
    <3>3. Reindex(s, Len(lane'[s]), p)
      BY <2>4 DEF Settled
    <3> HIDE DEF p
    <3>4. Core'
      BY <1>0, <1>1, <1>4, <2>4, <3>1, <3>2, <3>3, Reindexed
    <3> QED
      BY <1>4, <2>4, <3>4
  <2> QED
    BY <1>3, <2>1, <2>2, <2>3, <2>4
<1> QED
  BY <1>1, <1>2, <1>5 DEF PoolInv, PoolTypes, Core

-----------------------------------------------------------------------------
(* Requests *)

(* A request of by is published on a ready slot, which becomes or stays a; *)
(* ix is its listing as the slot does.                                     *)
Orders(s, by, does, boundary, ends, ix, a) ==
    /\ phase[s] = "Ready" /\ by \in Calls \cup Txs /\ ends \in BOOLEAN
    /\ does \in {"Begin", "Stmt", "Copy", "Commit", "Rollback"} /\ (does = "Begin" => by \in Txs)
    /\ boundary \in Boundaries \cup {"Begin", "Commit"}
    /\ Publish(s, by, does, boundary, ends, ix)
    /\ ix \in IndexType /\ MinOf(ix) /\ \A r \in Slot \ {s} : ix.rank[r] = index.rank[r]
    /\ a \in Accesses /\ a # "None" /\ access' = [access EXCEPT ![s] = a]
    /\ ix.rank[s] # Unlisted <=> a = "Shared" /\ receiving[s] = FALSE
    /\ blockers' = blockers + Counts(a, {"Reserved", "Held"})
                            - Counts(access[s], {"Reserved", "Held"})
    /\ seq' \in [Slot -> 0 .. Wrap - 1]
    /\ UNCHANGED <<phase, gen, receiving, live, session, sbatch>>

LEMMA Ordered ==
    ASSUME PoolInv, NEW s \in Slot, NEW by, NEW does, NEW boundary, NEW ends, NEW ix, NEW a,
           Orders(s, by, does, boundary, ends, ix, a)
    PROVE  Core' /\ LaneTypes' /\ queue' \in [Slot -> Seq(Frames)]
<1>q. /\ phase[s] = "Ready" /\ by \in Calls \cup Txs /\ ends \in BOOLEAN
      /\ does \in {"Begin", "Stmt", "Copy", "Commit", "Rollback"} /\ (does = "Begin" => by \in Txs)
      /\ boundary \in Boundaries \cup {"Begin", "Commit"}
      /\ Publish(s, by, does, boundary, ends, ix)
      /\ ix \in IndexType /\ MinOf(ix) /\ \A r \in Slot \ {s} : ix.rank[r] = index.rank[r]
  BY DEF Orders
<1>r. /\ a \in Accesses /\ a # "None" /\ access' = [access EXCEPT ![s] = a]
      /\ blockers' = blockers + Counts(a, {"Reserved", "Held"})
                              - Counts(access[s], {"Reserved", "Held"})
      /\ seq' \in [Slot -> 0 .. Wrap - 1]
  BY DEF Orders
<1>v. ix.rank[s] # Unlisted <=> a = "Shared" /\ receiving[s] = FALSE
  BY DEF Orders
<1>u. UNCHANGED <<phase, gen, receiving, live, session, sbatch>>
  BY DEF Orders
<1>0. PoolTypes /\ Core /\ SlotTypes /\ SlotInv(s)
  BY DEF PoolInv, Core
<1>1. Chain(pending[s], sbatch[s], batch[s], sync[s], Len(lane[s]), lane[s])
  BY <1>0, <1>q DEF SlotInv
<1>2. /\ LaneTypes' /\ queue' \in [Slot -> Seq(Frames)]
      /\ sync' \in [Slot -> {"Synced", "Automatic", "Explicit"}]
      /\ pending' \in [Slot -> Nat] /\ batch' \in [Slot -> 0 .. Batches - 1]
      /\ index' \in IndexType /\ (MinOf(ix) => MinOf(index'))
      /\ index'.rank = IF ix.rank[s] = Unlisted THEN ix.rank
                       ELSE [ix.rank EXCEPT ![s] = Clamp(Load(s)')]
      /\ Load(s)' \in Nat
      /\ \A r \in Slot \ {s} :
            /\ lane'[r] = lane[r] /\ sync'[r] = sync[r]
            /\ pending'[r] = pending[r] /\ batch'[r] = batch[r]
      /\ Chain(pending'[s], sbatch[s], batch'[s], sync'[s], Len(lane'[s]), lane'[s])
  BY <1>0, <1>1, <1>q, <1>r, <1>u, <1>v, Published
<1>3. access'[s] = a /\ access' \in [Slot -> Accesses] /\ \A r \in Slot \ {s} : access'[r] = access[r]
  BY <1>0, <1>q, <1>r, <1>u, <1>v DEF SlotTypes
<1>4. SlotTypes'
  <2>1. blockers' \in Int
    BY <1>0, <1>q, <1>r, <1>u, <1>v DEF SlotTypes, Counts
  <2> QED
    BY <1>0, <1>q, <1>r, <1>u, <1>v, <1>2, <1>3, <2>1 DEF SlotTypes
<1>5. \A r \in Slot \ {s} : Same(r)
  <2>1. \A r \in Slot \ {s} : index'.rank[r] = index.rank[r]
    BY <1>q, <1>r, <1>u, <1>v, <1>2 DEF IndexType
  <2> QED
    BY <1>q, <1>r, <1>u, <1>v, <1>2, <1>3, <2>1 DEF Same
<1>6. SlotInv(s)'
  <2> DEFINE load == Load(s)'
  <2>1. load \in Nat /\ load = Load(s)'
    BY <1>2
  <2> HIDE DEF load
  <2>2. Clamp(load) # Unlisted
    BY <2>1, ClampRange DEF Unlisted
  <2>3. /\ index'.rank[s] # Unlisted <=> ix.rank[s] # Unlisted
        /\ index'.rank[s] # Unlisted => index'.rank[s] = Clamp(load)
    BY <1>q, <1>r, <1>u, <1>v, <1>2, <2>1, <2>2 DEF IndexType
  <2>4. phase'[s] = "Ready" /\ receiving'[s] = receiving[s] /\ sbatch'[s] = sbatch[s]
    BY <1>q, <1>r, <1>u, <1>v
  <2> QED
    BY <1>q, <1>r, <1>u, <1>v, <1>2, <1>3, <2>1, <2>3, <2>4 DEF SlotInv
<1>7. live' = live + Counts(phase'[s], {"Ready"}) - Counts(phase[s], {"Ready"})
  BY <1>0, <1>q, <1>r, <1>u, <1>v DEF Counts, SlotTypes
<1>8. blockers' = blockers + Counts(access'[s], {"Reserved", "Held"})
                           - Counts(access[s], {"Reserved", "Held"})
  BY <1>q, <1>r, <1>u, <1>v, <1>3
<1>9. Core'
  BY <1>0, <1>q, <1>r, <1>u, <1>v, <1>2, <1>4, <1>5, <1>6, <1>7, <1>8, OneSlot
<1> QED
  BY <1>2, <1>9

LEMMA DoesRange ==
    ASSUME NEW boundary \in Boundaries
    PROVE  Does(boundary) \in {"Stmt", "Copy"}
BY DEF Does

LEMMA CallStep ==
    ASSUME PoolInv, NEW c \in Calls, NEW s \in Slot, NEW boundary \in Boundaries,
           Call(c, s, boundary)
    PROVE  PoolInv'
<1>0. PoolTypes /\ SlotTypes /\ SlotInv(s) /\ index \in IndexType /\ MinOf(index)
  BY DEF PoolInv, Core, SlotTypes
<1>1. phase[s] = "Ready" /\ access[s] = "Shared" /\ receiving[s] = FALSE /\ index.rank[s] # Unlisted
  BY <1>0 DEF Call, Picks, Listed, SlotInv
<1>2. Publish(s, c, Does(boundary), boundary, FALSE, index)
  BY DEF Call
<1>3. Does(boundary) \in {"Stmt", "Copy"}
  BY DoesRange
<1>4. /\ UNCHANGED <<phase, gen, receiving, live, session, sbatch>>
      /\ access' = access /\ blockers' = blockers /\ seq' = seq
      /\ UNCHANGED <<sessionVars, serverVars, txVars>>
  BY DEF Call, sessionVars
<1>5. /\ access' = [access EXCEPT ![s] = "Shared"]
      /\ blockers' = blockers + Counts("Shared", {"Reserved", "Held"})
                              - Counts(access[s], {"Reserved", "Held"})
      /\ seq' \in [Slot -> 0 .. Wrap - 1]
  BY <1>0, <1>1, <1>4 DEF Counts, SlotTypes
<1>6. Core' /\ LaneTypes' /\ queue' \in [Slot -> Seq(Frames)]
  <2> DEFINE does == Does(boundary)
  <2>1. /\ does \in {"Begin", "Stmt", "Copy", "Commit", "Rollback"} /\ does # "Begin"
        /\ Publish(s, c, does, boundary, FALSE, index)
        /\ c \in Calls \cup Txs /\ boundary \in Boundaries \cup {"Begin", "Commit"}
        /\ FALSE \in BOOLEAN /\ "Shared" \in Accesses /\ "Shared" # "None"
        /\ index.rank[s] # Unlisted <=> "Shared" = "Shared" /\ receiving[s] = FALSE
    BY <1>1, <1>2, <1>3 DEF Accesses
  <2> HIDE DEF does
  <2>2. Orders(s, c, does, boundary, FALSE, index, "Shared")
    BY <1>0, <1>1, <1>4, <1>5, <2>1 DEF Orders
  <2> QED
    BY <2>2, Ordered
<1>7. SessionTypes' /\ TxTypes' /\ WireTypes'
  BY <1>0, <1>4, <1>6 DEF PoolTypes, SessionTypes, TxTypes, WireTypes,
                          sessionVars, txVars, serverVars
<1> QED
  BY <1>6, <1>7 DEF PoolInv, PoolTypes, Core

(* The slot a lease is on. *)
LEMMA LeaseSlot ==
    ASSUME TxTypes, NEW h \in Txs, NEW states, Current(h, states)
    PROVE  /\ target[h].slot \in Slot
           /\ phase[target[h].slot] = "Ready" /\ access[target[h].slot] \in states
<1>1. target[h] \in [slot : Slot, gen : Nat, seq : Nat]
  BY DEF Current, TxTypes, Targets
<1> QED
  BY <1>1 DEF Current

LEMMA TxCallStep ==
    ASSUME PoolInv, NEW h \in Txs, NEW boundary \in Boundaries, TxCall(h, boundary)
    PROVE  PoolInv'
<1> DEFINE s == target[h].slot
<1>0. PoolTypes /\ SlotTypes /\ TxTypes /\ index \in IndexType /\ MinOf(index)
  BY DEF PoolInv, Core, SlotTypes, PoolTypes
<1>1. s \in Slot /\ phase[s] = "Ready" /\ access[s] = "Held"
  BY <1>0, LeaseSlot DEF TxCall
<1>2. Publish(s, h, Does(boundary), boundary, FALSE, index)
  BY DEF TxCall
<1>3. Does(boundary) \in {"Stmt", "Copy"}
  BY DoesRange
<1>4. /\ UNCHANGED <<phase, gen, receiving, live, session, sbatch>>
      /\ access' = access /\ blockers' = blockers /\ seq' = seq
      /\ UNCHANGED <<sessionVars, serverVars, txVars>>
  BY DEF TxCall, sessionVars
<1> HIDE DEF s
<1>5. /\ access' = [access EXCEPT ![s] = "Held"]
      /\ blockers' = blockers + Counts("Held", {"Reserved", "Held"})
                              - Counts(access[s], {"Reserved", "Held"})
      /\ seq' \in [Slot -> 0 .. Wrap - 1]
  BY <1>0, <1>1, <1>4 DEF Counts, SlotTypes
<1>6. index.rank[s] = Unlisted
  BY <1>1 DEF PoolInv, Core, SlotInv
<1>7. Core' /\ LaneTypes' /\ queue' \in [Slot -> Seq(Frames)]
  <2> DEFINE does == Does(boundary)
  <2>1. /\ does \in {"Begin", "Stmt", "Copy", "Commit", "Rollback"} /\ does # "Begin"
        /\ Publish(s, h, does, boundary, FALSE, index)
        /\ h \in Calls \cup Txs /\ boundary \in Boundaries \cup {"Begin", "Commit"}
        /\ FALSE \in BOOLEAN /\ "Held" \in Accesses /\ "Held" # "None"
        /\ index.rank[s] # Unlisted <=> "Held" = "Shared" /\ receiving[s] = FALSE
    BY <1>1, <1>2, <1>3, <1>6 DEF Accesses
  <2> HIDE DEF does
  <2>2. Orders(s, h, does, boundary, FALSE, index, "Held")
    BY <1>0, <1>1, <1>4, <1>5, <2>1 DEF Orders
  <2> QED
    BY <1>1, <2>2, Ordered
<1>8. SessionTypes' /\ TxTypes' /\ WireTypes'
  BY <1>0, <1>4, <1>7 DEF PoolTypes, SessionTypes, TxTypes, WireTypes,
                          sessionVars, txVars, serverVars
<1> QED
  BY <1>7, <1>8 DEF PoolInv, PoolTypes, Core

LEMMA FinishStep ==
    ASSUME PoolInv, NEW h \in Txs, NEW end \in {"Commit", "Rollback"}, Finish(h, end)
    PROVE  PoolInv'
<1> DEFINE s == target[h].slot
           boundary == IF end = "Commit" THEN "Commit" ELSE "Close"
<1>0. PoolTypes /\ SlotTypes /\ TxTypes /\ index \in IndexType /\ MinOf(index)
  BY DEF PoolInv, Core, SlotTypes, PoolTypes
<1>1. s \in Slot /\ phase[s] = "Ready" /\ access[s] = "Held"
  BY <1>0, LeaseSlot DEF Finish
<1>2. /\ Publish(s, h, end, boundary, TRUE, index)
      /\ access' = [access EXCEPT ![s] = "Finalizing"]
  BY DEF Finish
<1>3. boundary \in Boundaries \cup {"Begin", "Commit"}
  BY DEF Boundaries
<1>4. /\ UNCHANGED <<phase, gen, receiving, live, session, sbatch>>
      /\ blockers' = blockers - 1 /\ seq' = seq
      /\ stage' = [stage EXCEPT ![h] = "Finish"] /\ reply' = [reply EXCEPT ![h] = "Due"]
      /\ UNCHANGED <<sessionVars, serverVars, target>>
  BY DEF Finish, sessionVars
<1> HIDE DEF s, boundary
<1>5. /\ blockers' = blockers + Counts("Finalizing", {"Reserved", "Held"})
                              - Counts(access[s], {"Reserved", "Held"})
      /\ seq' \in [Slot -> 0 .. Wrap - 1]
  BY <1>0, <1>1, <1>4 DEF Counts, SlotTypes
<1>6. index.rank[s] = Unlisted
  BY <1>1 DEF PoolInv, Core, SlotInv
<1>7. Core' /\ LaneTypes' /\ queue' \in [Slot -> Seq(Frames)]
  <2>1. /\ end \in {"Begin", "Stmt", "Copy", "Commit", "Rollback"} /\ end # "Begin"
        /\ h \in Calls \cup Txs
        /\ TRUE \in BOOLEAN /\ "Finalizing" \in Accesses /\ "Finalizing" # "None"
        /\ index.rank[s] # Unlisted <=> "Finalizing" = "Shared" /\ receiving[s] = FALSE
    BY <1>6 DEF Accesses
  <2>2. Orders(s, h, end, boundary, TRUE, index, "Finalizing")
    BY <1>0, <1>1, <1>2, <1>3, <1>4, <1>5, <2>1 DEF Orders
  <2> QED
    BY <1>1, <2>2, Ordered
<1>8. SessionTypes' /\ TxTypes' /\ WireTypes'
  BY <1>0, <1>4, <1>7 DEF PoolTypes, SessionTypes, TxTypes, WireTypes, sessionVars, serverVars
<1> QED
  BY <1>7, <1>8 DEF PoolInv, PoolTypes, Core

LEMMA SequenceRange ==
    ASSUME NEW n \in 0 .. Wrap - 1
    PROVE  NextSequence(n) \in 0 .. Wrap - 1
BY PoolAssumption DEF NextSequence

LEMMA BeginStep ==
    ASSUME PoolInv, NEW h \in Txs, NEW s \in Slot, Begin(h, s)
    PROVE  PoolInv'
<1>0. PoolTypes /\ SlotTypes /\ SlotInv(s) /\ TxTypes /\ index \in IndexType /\ MinOf(index)
  BY DEF PoolInv, Core, SlotTypes, PoolTypes
<1>1. phase[s] = "Ready" /\ access[s] = "Shared" /\ receiving[s] = FALSE /\ index.rank[s] # Unlisted
  BY <1>0 DEF Begin, PicksBegin, Listed, SlotInv
<1> DEFINE ix == Detach(index, s)
           lease == [Id(s) EXCEPT !.seq = NextSequence(@)]
<1>2. /\ Publish(s, h, "Begin", "Begin", TRUE, ix)
      /\ access' = [access EXCEPT ![s] = "Reserved"]
      /\ seq' = [seq EXCEPT ![s] = NextSequence(@)]
      /\ blockers' = blockers + 1
      /\ stage' = [stage EXCEPT ![h] = "Begin"] /\ reply' = [reply EXCEPT ![h] = "Due"]
      /\ target' = [target EXCEPT ![h] = lease]
      /\ UNCHANGED <<phase, gen, receiving, live, session, sbatch>>
      /\ UNCHANGED <<sessionVars, serverVars>>
  BY DEF Begin, sessionVars
<1>3. ix \in IndexType /\ MinOf(ix) /\ ix.rank = [index.rank EXCEPT ![s] = Unlisted]
  BY <1>0, <1>1, DetachIndex
<1>4. seq[s] \in 0 .. Wrap - 1 /\ gen[s] \in Nat
  BY <1>0, PoolAssumption DEF SlotTypes
<1>5. NextSequence(seq[s]) \in 0 .. Wrap - 1 /\ NextSequence(seq[s]) \in Nat
  <2>1. NextSequence(seq[s]) \in 0 .. Wrap - 1
    BY <1>4, SequenceRange
  <2> QED
    BY <2>1, PoolAssumption
<1>6. lease \in Targets
  BY <1>4, <1>5 DEF Targets, Id
<1> HIDE DEF ix, lease
<1>7. seq' \in [Slot -> 0 .. Wrap - 1]
  BY <1>0, <1>2, <1>5 DEF SlotTypes
<1>8. blockers' = blockers + Counts("Reserved", {"Reserved", "Held"})
                           - Counts(access[s], {"Reserved", "Held"})
  BY <1>0, <1>1, <1>2 DEF Counts, SlotTypes
<1>9. Core' /\ LaneTypes' /\ queue' \in [Slot -> Seq(Frames)]
  <2>1. /\ "Begin" \in {"Begin", "Stmt", "Copy", "Commit", "Rollback"}
        /\ "Begin" \in Boundaries \cup {"Begin", "Commit"}
        /\ h \in Calls \cup Txs /\ h \in Txs
        /\ TRUE \in BOOLEAN /\ "Reserved" \in Accesses /\ "Reserved" # "None"
    BY DEF Accesses
  <2>2. /\ \A r \in Slot \ {s} : ix.rank[r] = index.rank[r]
        /\ ix.rank[s] # Unlisted <=> "Reserved" = "Shared" /\ receiving[s] = FALSE
    BY <1>0, <1>3 DEF IndexType
  <2>3. Orders(s, h, "Begin", "Begin", TRUE, ix, "Reserved")
    BY <1>1, <1>2, <1>3, <1>7, <1>8, <2>1, <2>2 DEF Orders
  <2> QED
    BY <2>3, Ordered
<1>10. SessionTypes' /\ TxTypes' /\ WireTypes'
  BY <1>0, <1>2, <1>6, <1>9 DEF PoolTypes, SessionTypes, TxTypes, WireTypes, sessionVars, serverVars
<1> QED
  BY <1>9, <1>10 DEF PoolInv, PoolTypes, Core

-----------------------------------------------------------------------------
(* The other steps of a connection *)

(* A Sync closes the open batch: one barrier becomes another. *)
LEMMA Barred ==
    ASSUME PoolInv, NEW s \in Slot, phase[s] = "Ready", sync[s] # "Synced", lane' = lane,
           sync' = [sync EXCEPT ![s] = "Synced"],
           pending' = [pending EXCEPT ![s] = @ + 1],
           batch' = [batch EXCEPT ![s] = NextBatch(@)]
    PROVE  /\ sync' \in [Slot -> {"Synced", "Automatic", "Explicit"}]
           /\ pending' \in [Slot -> Nat] /\ batch' \in [Slot -> 0 .. Batches - 1]
           /\ \A r \in Slot \ {s} :
                 sync'[r] = sync[r] /\ pending'[r] = pending[r] /\ batch'[r] = batch[r]
           /\ Load(s)' = Load(s)
           /\ Chain(pending'[s], sbatch[s], batch'[s], sync'[s], Len(lane'[s]), lane'[s])
<1>0. SlotTypes /\ SlotInv(s) /\ lane[s] \in Seq(Replies) /\ Len(lane[s]) \in Nat
  BY DEF PoolInv, Core, PoolTypes, LaneTypes
<1>1. batch[s] \in 0 .. Batches - 1 /\ pending[s] \in Nat
  BY <1>0 DEF SlotTypes
<1>2. NextBatch(batch[s]) \in 0 .. Batches - 1
  BY <1>1, NextBatchStep
<1>3. sync'[s] = "Synced" /\ pending'[s] = pending[s] + 1 /\ batch'[s] = NextBatch(batch[s])
  BY <1>0 DEF SlotTypes
<1>4. /\ sync' \in [Slot -> {"Synced", "Automatic", "Explicit"}]
      /\ pending' \in [Slot -> Nat] /\ batch' \in [Slot -> 0 .. Batches - 1]
      /\ \A r \in Slot \ {s} :
            sync'[r] = sync[r] /\ pending'[r] = pending[r] /\ batch'[r] = batch[r]
  BY <1>0, <1>1, <1>2 DEF SlotTypes
<1>5. Load(s)' = Load(s)
  <2> DEFINE d == Len(lane[s])
  <2>1. Load(s)' = d + ((pending[s] + 1) + 0) /\ Load(s) = d + (pending[s] + 1)
    BY <1>3 DEF Load, Barriers
  <2>2. d \in Nat
    BY <1>0
  <2> HIDE DEF d
  <2> QED
    BY <1>1, <2>1, <2>2
<1>6. Chain(pending'[s], sbatch[s], batch'[s], sync'[s], Len(lane'[s]), lane'[s])
  <2>1. Chain(pending[s], sbatch[s], batch[s], sync[s], Len(lane[s]), lane[s])
    BY <1>0 DEF SlotInv
  <2>2. Chain(pending[s] + 1, sbatch[s], NextBatch(batch[s]), "Synced", Len(lane[s]), lane[s])
    BY <1>0, <1>1, <2>1, ChainSync
  <2> QED
    BY <1>3, <2>2
<1> QED
  BY <1>4, <1>5, <1>6

LEMMA CopyFinishStep ==
    ASSUME PoolInv, NEW s \in Slot, CopyFinish(s)
    PROVE  PoolInv'
<1>0. PoolTypes /\ Core /\ SlotTypes /\ SlotInv(s) /\ MinOf(index)
  BY DEF PoolInv, Core
<1>1. /\ phase[s] = "Ready" /\ sync[s] = "Explicit" /\ sync[s] # "Synced" /\ lane' = lane
      /\ queue' = [queue EXCEPT ![s] = Append(@, SyncFrame)]
      /\ sync' = [sync EXCEPT ![s] = "Synced"]
      /\ pending' = [pending EXCEPT ![s] = @ + 1]
      /\ batch' = [batch EXCEPT ![s] = NextBatch(@)]
      /\ UNCHANGED <<phase, gen, access, seq, receiving, indexVars, sessionVars,
                     lane, serverVars, txVars>>
  BY DEF CopyFinish
<1>2. /\ sync' \in [Slot -> {"Synced", "Automatic", "Explicit"}]
      /\ pending' \in [Slot -> Nat] /\ batch' \in [Slot -> 0 .. Batches - 1]
      /\ \A r \in Slot \ {s} :
            sync'[r] = sync[r] /\ pending'[r] = pending[r] /\ batch'[r] = batch[r]
      /\ Load(s)' = Load(s)
      /\ Chain(pending'[s], sbatch[s], batch'[s], sync'[s], Len(lane'[s]), lane'[s])
  BY <1>1, Barred
<1>3. SyncFrame \in Frames
  BY DEF SyncFrame, Frame, Frames
<1>4. queue' \in [Slot -> Seq(Frames)]
  <2>1. queue \in [Slot -> Seq(Frames)]
    BY <1>0 DEF PoolTypes, WireTypes
  <2>2. Append(queue[s], SyncFrame) \in Seq(Frames)
    BY <1>3, <2>1
  <2> QED
    BY <1>1, <2>1, <2>2
<1>5. SessionTypes' /\ LaneTypes' /\ WireTypes' /\ TxTypes'
  BY <1>0, <1>1, <1>4 DEF PoolTypes, SessionTypes, LaneTypes, WireTypes, TxTypes,
                          sessionVars, serverVars, txVars
<1>6. SlotTypes' /\ MinOf(index')
  BY <1>0, <1>1, <1>2 DEF SlotTypes, indexVars
<1>7. \A r \in Slot \ {s} : Same(r)
  BY <1>1, <1>2 DEF Same, indexVars, sessionVars
<1>8. SlotInv(s)'
  <2>1. /\ phase'[s] = phase[s] /\ access'[s] = access[s] /\ receiving'[s] = receiving[s]
        /\ index' = index /\ sbatch'[s] = sbatch[s]
    BY <1>1 DEF indexVars, sessionVars
  <2> QED
    BY <1>0, <1>1, <1>2, <2>1 DEF SlotInv
<1>9. /\ live' = live + Counts(phase'[s], {"Ready"}) - Counts(phase[s], {"Ready"})
      /\ blockers' = blockers + Counts(access'[s], {"Reserved", "Held"})
                              - Counts(access[s], {"Reserved", "Held"})
  BY <1>0, <1>1 DEF Counts, SlotTypes, indexVars
<1>10. Core'
  BY <1>0, <1>6, <1>7, <1>8, <1>9, OneSlot
<1> QED
  BY <1>5, <1>6, <1>10 DEF PoolInv, PoolTypes

(* What is left unread takes the slot off the index, or puts it back. *)
LEMMA AdmittedIndex ==
    ASSUME PoolInv, NEW s \in Slot, phase[s] = "Ready", NEW unread \in BOOLEAN
    PROVE  /\ Admitted(s, unread) \in IndexType /\ MinOf(Admitted(s, unread))
           /\ \A r \in Slot \ {s} : Admitted(s, unread).rank[r] = index.rank[r]
           /\ Admitted(s, unread).rank[s] # Unlisted <=> access[s] = "Shared" /\ unread = FALSE
           /\ Admitted(s, unread).rank[s] # Unlisted =>
                  Admitted(s, unread).rank[s] = Clamp(Load(s))
<1>0. /\ SlotTypes /\ SlotInv(s) /\ MinOf(index) /\ index \in IndexType
      /\ receiving[s] \in BOOLEAN
  BY DEF PoolInv, Core, SlotTypes
<1>1. /\ index.rank[s] # Unlisted <=> access[s] = "Shared" /\ receiving[s] = FALSE
      /\ index.rank[s] # Unlisted => index.rank[s] = Clamp(Load(s))
  BY <1>0 DEF SlotInv
<1> DEFINE ad == Admitted(s, unread)
<1>2. CASE unread /\ Listed(s)
  <2>1. ad = Detach(index, s)
    BY <1>2 DEF Admitted
  <2>2. index.rank[s] # Unlisted
    BY <1>2 DEF Listed
  <2>3. ad \in IndexType /\ MinOf(ad) /\ ad.rank = [index.rank EXCEPT ![s] = Unlisted]
    BY <1>0, <2>1, <2>2, DetachIndex
  <2> HIDE DEF ad
  <2>4. ad.rank[s] = Unlisted /\ \A r \in Slot \ {s} : ad.rank[r] = index.rank[r]
    BY <1>0, <2>3 DEF IndexType
  <2> QED
    BY <1>2, <2>3, <2>4 DEF ad
<1>3. CASE ~ unread /\ receiving[s] /\ access[s] = "Shared"
  <2> DEFINE k == Clamp(Load(s))
  <2>1. ad = Attach(index, s, k)
    BY <1>3 DEF Admitted
  <2>2. Load(s) \in Nat
    <3>1. lane[s] \in Seq(Replies) /\ pending[s] \in Nat
      BY <1>0 DEF PoolInv, PoolTypes, LaneTypes, SlotTypes
    <3> QED
      BY <3>1 DEF Load, Barriers
  <2>3. k \in 0 .. Buckets - 1 /\ k # Unlisted
    BY <2>2, ClampRange DEF Unlisted
  <2>4. index.rank[s] = Unlisted
    BY <1>1, <1>3
  <2> HIDE DEF k
  <2>5. ad \in IndexType /\ MinOf(ad) /\ ad.rank = [index.rank EXCEPT ![s] = k]
    BY <1>0, <2>1, <2>3, <2>4, AttachIndex
  <2> HIDE DEF ad
  <2>6. ad.rank[s] = k /\ \A r \in Slot \ {s} : ad.rank[r] = index.rank[r]
    BY <1>0, <2>5 DEF IndexType
  <2> QED
    BY <1>3, <2>3, <2>5, <2>6 DEF ad, k
<1>4. CASE ~ (unread /\ Listed(s)) /\ ~ (~ unread /\ receiving[s] /\ access[s] = "Shared")
  <2>1. ad = index
    BY <1>4 DEF Admitted
  <2> HIDE DEF ad
  <2>2. index.rank[s] # Unlisted <=> access[s] = "Shared" /\ unread = FALSE
    BY <1>0, <1>1, <1>4 DEF Listed
  <2> QED
    BY <1>0, <1>1, <2>1, <2>2 DEF ad
<1> QED
  BY <1>2, <1>3, <1>4

LEMMA SentTypes ==
    ASSUME WireTypes, NEW s \in Slot, NEW f \in Frames
    PROVE  Sent(s, f) \in [Slot -> Seq(Frames)]
<1>1. wire \in [Slot -> Seq(Frames)]
  BY DEF WireTypes
<1>2. Append(wire[s], f) \in Seq(Frames)
  BY <1>1
<1> QED
  BY <1>1, <1>2 DEF Sent

LEMMA FlushStep ==
    ASSUME PoolInv, NEW s \in Slot, NEW input \in {"Empty", "Partial", "Yield"}, Flush(s, input)
    PROVE  PoolInv'
<1> DEFINE unread == Unread(s, input)
<1>0. PoolTypes /\ Core /\ SlotTypes /\ SlotInv(s) /\ unread \in BOOLEAN
  BY DEF PoolInv, Core, Unread
<1>1. /\ phase[s] = "Ready"
      /\ receiving' = [receiving EXCEPT ![s] = unread]
      /\ index' = Admitted(s, unread)
      /\ IF sync[s] = "Automatic" /\ queue[s] = <<>>
         THEN /\ wire' = Sent(s, SyncFrame)
              /\ sync' = [sync EXCEPT ![s] = "Synced"]
              /\ pending' = [pending EXCEPT ![s] = @ + 1]
              /\ batch' = [batch EXCEPT ![s] = NextBatch(@)]
         ELSE UNCHANGED <<wire, sync, pending, batch>>
      /\ UNCHANGED <<phase, gen, access, seq, live, blockers, sessionVars, lane,
                     queue, skip, txn, txVars>>
  BY DEF Flush
<1> HIDE DEF unread
<1>2. /\ index' \in IndexType /\ MinOf(index')
      /\ \A r \in Slot \ {s} : index'.rank[r] = index.rank[r]
      /\ index'.rank[s] # Unlisted <=> access[s] = "Shared" /\ unread = FALSE
      /\ index'.rank[s] # Unlisted => index'.rank[s] = Clamp(Load(s))
  BY <1>0, <1>1, AdmittedIndex
<1>3. /\ sync' \in [Slot -> {"Synced", "Automatic", "Explicit"}]
      /\ pending' \in [Slot -> Nat] /\ batch' \in [Slot -> 0 .. Batches - 1]
      /\ \A r \in Slot \ {s} :
            sync'[r] = sync[r] /\ pending'[r] = pending[r] /\ batch'[r] = batch[r]
      /\ Load(s)' = Load(s)
      /\ Chain(pending'[s], sbatch[s], batch'[s], sync'[s], Len(lane'[s]), lane'[s])
  <2>1. CASE sync[s] = "Automatic" /\ queue[s] = <<>>
    <3>1. /\ sync[s] # "Synced" /\ lane' = lane
          /\ sync' = [sync EXCEPT ![s] = "Synced"]
          /\ pending' = [pending EXCEPT ![s] = @ + 1]
          /\ batch' = [batch EXCEPT ![s] = NextBatch(@)]
      BY <1>1, <2>1
    <3> QED
      BY <1>1, <3>1, Barred
  <2>2. CASE ~ (sync[s] = "Automatic" /\ queue[s] = <<>>)
    <3>1. sync' = sync /\ pending' = pending /\ batch' = batch /\ lane' = lane
      BY <1>1, <2>2
    <3>2. Load(s)' = Load(s)
      BY <3>1 DEF Load, Barriers
    <3>3. Chain(pending[s], sbatch[s], batch[s], sync[s], Len(lane[s]), lane[s])
      BY <1>0, <1>1 DEF SlotInv
    <3> QED
      BY <1>0, <3>1, <3>2, <3>3 DEF SlotTypes
  <2> QED
    BY <2>1, <2>2
<1>4. wire' \in [Slot -> Seq(Frames)]
  <2>1. SyncFrame \in Frames
    BY DEF SyncFrame, Frame, Frames
  <2>2. WireTypes
    BY <1>0 DEF PoolTypes
  <2>3. Sent(s, SyncFrame) \in [Slot -> Seq(Frames)]
    BY <2>1, <2>2, SentTypes
  <2>4. wire' = Sent(s, SyncFrame) \/ wire' = wire
    BY <1>1
  <2> QED
    BY <2>2, <2>3, <2>4 DEF WireTypes
<1>5. SessionTypes' /\ LaneTypes' /\ WireTypes' /\ TxTypes'
  BY <1>0, <1>1, <1>4 DEF PoolTypes, SessionTypes, LaneTypes, WireTypes, TxTypes,
                          sessionVars, txVars
<1>6. /\ receiving' \in [Slot -> BOOLEAN] /\ receiving'[s] = unread
      /\ \A r \in Slot \ {s} : receiving'[r] = receiving[r]
  BY <1>0, <1>1 DEF SlotTypes
<1>7. SlotTypes'
  BY <1>0, <1>1, <1>2, <1>3, <1>6 DEF SlotTypes
<1>8. \A r \in Slot \ {s} : Same(r)
  BY <1>1, <1>2, <1>3, <1>6 DEF Same, sessionVars
<1>9. SlotInv(s)'
  <2>1. phase'[s] = "Ready" /\ access'[s] = access[s] /\ access[s] # "None" /\ sbatch'[s] = sbatch[s]
    BY <1>0, <1>1 DEF sessionVars, SlotInv
  <2> QED
    BY <1>2, <1>3, <1>6, <2>1 DEF SlotInv
<1>10. /\ live' = live + Counts(phase'[s], {"Ready"}) - Counts(phase[s], {"Ready"})
       /\ blockers' = blockers + Counts(access'[s], {"Reserved", "Held"})
                               - Counts(access[s], {"Reserved", "Held"})
  BY <1>0, <1>1 DEF Counts, SlotTypes
<1>11. Core'
  BY <1>0, <1>2, <1>7, <1>8, <1>9, <1>10, OneSlot
<1> QED
  BY <1>5, <1>7, <1>11 DEF PoolInv, PoolTypes

LEMMA BindStep ==
    ASSUME PoolInv, NEW s \in Slot, Bind(s)
    PROVE  PoolInv'
<1>0. PoolTypes /\ Core /\ SlotTypes /\ SessionTypes /\ SlotInv(s) /\ MinOf(index)
  BY DEF PoolInv, Core, PoolTypes
<1>1. /\ phase[s] = "Vacant" /\ gen[s] < MaxGen
      /\ phase' = [phase EXCEPT ![s] = "Handshaking"]
      /\ gen' = [gen EXCEPT ![s] = @ + 1]
      /\ batch' = [batch EXCEPT ![s] = 0]
      /\ session' = [session EXCEPT ![s] = "Startup"]
      /\ progress' = [progress EXCEPT ![s] = "Running"]
      /\ sbatch' = [sbatch EXCEPT ![s] = 0]
      /\ UNCHANGED <<access, seq, receiving, sync, pending, indexVars, settling,
                     lane, queue, serverVars, txVars>>
  BY DEF Bind
<1>2. 0 \in 0 .. Batches - 1
  BY PoolAssumption
<1>3. gen' \in [Slot -> 0 .. MaxGen]
  <2>1. gen[s] + 1 \in 0 .. MaxGen
    BY <1>0, <1>1, PoolAssumption DEF SlotTypes
  <2> QED
    BY <1>0, <1>1, <2>1 DEF SlotTypes
<1>4. SlotTypes' /\ SessionTypes'
  BY <1>0, <1>1, <1>2, <1>3 DEF SlotTypes, SessionTypes, indexVars
<1>5. LaneTypes' /\ WireTypes' /\ TxTypes'
  BY <1>0, <1>1 DEF PoolTypes, LaneTypes, WireTypes, TxTypes, serverVars, txVars
<1>6. \A r \in Slot \ {s} : Same(r)
  BY <1>0, <1>1 DEF Same, SlotTypes, SessionTypes, indexVars
<1>7. SlotInv(s)'
  <2>1. /\ phase'[s] = "Handshaking" /\ session'[s] = "Startup" /\ batch'[s] = 0 /\ sbatch'[s] = 0
        /\ access' = access /\ sync' = sync /\ pending' = pending /\ receiving' = receiving
        /\ lane' = lane /\ index' = index
    BY <1>0, <1>1 DEF SlotTypes, SessionTypes, indexVars
  <2> QED
    BY <1>0, <1>1, <2>1 DEF SlotInv
<1>8. /\ live' = live + Counts(phase'[s], {"Ready"}) - Counts(phase[s], {"Ready"})
      /\ blockers' = blockers + Counts(access'[s], {"Reserved", "Held"})
                              - Counts(access[s], {"Reserved", "Held"})
  BY <1>0, <1>1 DEF Counts, SlotTypes, indexVars
<1>9. MinOf(index')
  BY <1>0, <1>1 DEF indexVars
<1>10. Core'
  BY <1>0, <1>4, <1>6, <1>7, <1>8, <1>9, OneSlot
<1> QED
  BY <1>4, <1>5, <1>10 DEF PoolInv, PoolTypes

LEMMA TryReadyStep ==
    ASSUME PoolInv, NEW s \in Slot, TryReady(s)
    PROVE  PoolInv'
<1>0. PoolTypes /\ Core /\ SlotTypes /\ SessionTypes /\ SlotInv(s) /\ MinOf(index) /\ index \in IndexType
  BY DEF PoolInv, Core, PoolTypes, SlotTypes
<1>1. /\ phase[s] = "Handshaking"
      /\ phase' = [phase EXCEPT ![s] = "Ready"]
      /\ access' = [access EXCEPT ![s] = "Shared"]
      /\ seq' = [seq EXCEPT ![s] = 0]
      /\ index' = Attach(index, s, 0)
      /\ live' = live + 1
      /\ session' = [session EXCEPT ![s] = "Ready"]
      /\ UNCHANGED <<gen, receiving, sync, pending, batch, blockers, progress,
                     sbatch, settling, lane, queue, serverVars, txVars>>
  BY DEF TryReady
<1>2. /\ access[s] = "None" /\ index.rank[s] = Unlisted /\ lane[s] = <<>> /\ batch[s] = sbatch[s]
      /\ pending[s] = 0 /\ sync[s] = "Synced" /\ receiving[s] = FALSE
  BY <1>0, <1>1 DEF SlotInv
<1>3. 0 \in 0 .. Buckets - 1 /\ 0 \in 0 .. Wrap - 1 /\ 0 # Unlisted /\ Clamp(0) = 0
  BY PoolAssumption DEF Unlisted, Clamp
<1>4. index' \in IndexType /\ MinOf(index') /\ index'.rank = [index.rank EXCEPT ![s] = 0]
  BY <1>0, <1>1, <1>2, <1>3, AttachIndex
<1>5. SlotTypes' /\ SessionTypes'
  BY <1>0, <1>1, <1>3, <1>4 DEF SlotTypes, SessionTypes, Accesses
<1>6. LaneTypes' /\ WireTypes' /\ TxTypes'
  BY <1>0, <1>1 DEF PoolTypes, LaneTypes, WireTypes, TxTypes, serverVars, txVars
<1>7. \A r \in Slot \ {s} : Same(r)
  BY <1>0, <1>1, <1>4 DEF Same, SlotTypes, SessionTypes, IndexType
<1>8. /\ phase'[s] = "Ready" /\ access'[s] = "Shared" /\ index'.rank[s] = 0
      /\ session'[s] = "Ready" /\ lane'[s] = <<>> /\ batch'[s] = batch[s] /\ sbatch'[s] = batch[s]
      /\ pending'[s] = 0 /\ sync'[s] = "Synced" /\ receiving'[s] = FALSE
  BY <1>0, <1>1, <1>2, <1>4 DEF SlotTypes, SessionTypes, IndexType
<1>9. SlotInv(s)'
  <2>1. Len(lane'[s]) = 0
    BY <1>8
  <2>2. Load(s)' = 0
    BY <1>8, <2>1 DEF Load, Barriers
  <2>3. Chain(pending'[s], sbatch'[s], batch'[s], sync'[s], Len(lane'[s]), lane'[s])
    <3>1. batch[s] \in 0 .. Batches - 1
      BY <1>0 DEF SlotTypes
    <3>2. Chain(0, batch[s], batch[s], "Synced", 0, lane'[s])
      BY <3>1, ChainStart
    <3> QED
      BY <1>8, <2>1, <3>2
  <2> QED
    BY <1>3, <1>8, <2>2, <2>3 DEF SlotInv
<1>10. /\ live' = live + Counts(phase'[s], {"Ready"}) - Counts(phase[s], {"Ready"})
       /\ blockers' = blockers + Counts(access'[s], {"Reserved", "Held"})
                               - Counts(access[s], {"Reserved", "Held"})
  BY <1>0, <1>1, <1>2, <1>8 DEF Counts, SlotTypes
<1>11. Core'
  BY <1>0, <1>4, <1>5, <1>7, <1>9, <1>10, OneSlot
<1> QED
  BY <1>5, <1>6, <1>11 DEF PoolInv, PoolTypes

(* Steps that close a connection, or leave a closing one its slot. *)
LEMMA QuarantineStep ==
    ASSUME PoolInv, NEW s \in Slot, Quarantine(s)
    PROVE  PoolInv'
<1>1. PoolTypes /\ Core /\ phase[s] # "Vacant" /\ CloseSlot(s)
      /\ UNCHANGED <<sessionVars, lane, queue, serverVars, txVars>>
  BY DEF PoolInv, Quarantine
<1>2. Elsewhere(s)
  BY <1>1 DEF Elsewhere, sessionVars
<1>3. Core'
  BY <1>1, <1>2, Closed
<1> QED
  BY <1>1, <1>3 DEF PoolInv, PoolTypes, Core, SessionTypes, LaneTypes, WireTypes, TxTypes,
                    sessionVars, serverVars, txVars

LEMMA CutStep ==
    ASSUME PoolInv, NEW s \in Slot, Cut(s)
    PROVE  PoolInv'
<1>1. /\ PoolTypes /\ Core /\ SessionTypes /\ phase[s] = "Closing"
      /\ session' = [session EXCEPT ![s] = "Failed"]
      /\ settling' = [settling EXCEPT ![s] = "No"]
      /\ UNCHANGED <<slotVars, indexVars, progress, sbatch, lane, queue, serverVars, txVars>>
  BY DEF PoolInv, PoolTypes, Cut
<1>2. Elsewhere(s) /\ CloseSlot(s) /\ SessionTypes'
  BY <1>1 DEF Elsewhere, CloseSlot, SessionTypes
<1>3. Core'
  BY <1>1, <1>2, Closed
<1> QED
  BY <1>1, <1>2, <1>3 DEF PoolInv, PoolTypes, Core, LaneTypes, WireTypes, TxTypes, serverVars, txVars

LEMMA ClearRecvStep ==
    ASSUME PoolInv, NEW s \in Slot, ClearRecv(s)
    PROVE  PoolInv'
<1>1. /\ PoolTypes /\ Core /\ phase[s] = "Closing" /\ lane[s] # <<>> /\ Pop(s, "Err")
      /\ UNCHANGED <<slotVars, indexVars, sessionVars, queue, serverVars, stage, target>>
  BY DEF PoolInv, ClearRecv, Pop
<1>2. /\ LaneTypes' /\ reply' \in [Txs -> {"Due", "Ok", "Err"}]
      /\ \A r \in Slot \ {s} : lane'[r] = lane[r]
  BY <1>1, Popped
<1>3. Elsewhere(s) /\ CloseSlot(s)
  BY <1>1, <1>2 DEF Elsewhere, CloseSlot, sessionVars
<1>4. Core'
  BY <1>1, <1>3, Closed
<1> QED
  BY <1>1, <1>2, <1>4 DEF PoolInv, PoolTypes, Core, SessionTypes, WireTypes, TxTypes,
                          sessionVars, serverVars

LEMMA ClearSendStep ==
    ASSUME PoolInv, NEW s \in Slot, ClearSend(s)
    PROVE  PoolInv'
<1>1. /\ PoolTypes /\ Core /\ queue' = [queue EXCEPT ![s] = <<>>]
      /\ UNCHANGED <<slotVars, indexVars, sessionVars, lane, serverVars, txVars>>
  BY DEF PoolInv, ClearSend
<1>2. UNCHANGED <<slotVars, indexVars, session, sbatch, lane>>
  BY <1>1 DEF sessionVars
<1>3. Core'
  BY <1>1, <1>2, Rests
<1>4. queue' \in [Slot -> Seq(Frames)]
  <2>1. <<>> \in Seq(Frames)
    OBVIOUS
  <2> QED
    BY <1>1, <2>1 DEF PoolTypes, WireTypes
<1> QED
  BY <1>1, <1>3, <1>4 DEF PoolInv, PoolTypes, Core, SessionTypes, LaneTypes, WireTypes, TxTypes,
                          sessionVars, serverVars, txVars

LEMMA DeactivateStep ==
    ASSUME PoolInv, NEW s \in Slot, Deactivate(s)
    PROVE  PoolInv'
<1>0. PoolTypes /\ Core /\ SlotTypes /\ SlotInv(s) /\ MinOf(index)
  BY DEF PoolInv, Core
<1>1. /\ phase[s] = "Closing" /\ session[s] = "Failed" /\ lane[s] = <<>>
      /\ phase' = [phase EXCEPT ![s] = "Vacant"]
      /\ wire' = [wire EXCEPT ![s] = <<>>]
      /\ skip' = [skip EXCEPT ![s] = FALSE]
      /\ txn' = [txn EXCEPT ![s] = Nobody]
      /\ UNCHANGED <<gen, access, seq, receiving, sync, pending, batch, indexVars,
                     sessionVars, lane, queue, txVars>>
  BY DEF Deactivate
<1>2. WireTypes'
  <2>1. <<>> \in Seq(Frames)
    OBVIOUS
  <2> QED
    BY <1>0, <1>1, <2>1 DEF PoolTypes, WireTypes
<1>3. SessionTypes' /\ LaneTypes' /\ TxTypes'
  BY <1>0, <1>1 DEF PoolTypes, SessionTypes, LaneTypes, TxTypes, sessionVars, txVars
<1>4. SlotTypes' /\ MinOf(index')
  BY <1>0, <1>1 DEF SlotTypes, indexVars
<1>5. \A r \in Slot \ {s} : Same(r)
  BY <1>0, <1>1 DEF Same, SlotTypes, indexVars, sessionVars
<1>6. phase'[s] = "Vacant"
  BY <1>0, <1>1 DEF SlotTypes
<1>7. SlotInv(s)'
  <2>1. /\ access' = access /\ sync' = sync /\ pending' = pending /\ receiving' = receiving
        /\ session' = session /\ lane' = lane /\ index' = index
    BY <1>1 DEF indexVars, sessionVars
  <2> QED
    BY <1>0, <1>1, <1>6, <2>1 DEF SlotInv
<1>8. /\ live' = live + Counts(phase'[s], {"Ready"}) - Counts(phase[s], {"Ready"})
      /\ blockers' = blockers + Counts(access'[s], {"Reserved", "Held"})
                              - Counts(access[s], {"Reserved", "Held"})
  BY <1>0, <1>1, <1>6 DEF Counts, SlotTypes, indexVars
<1>9. Core'
  BY <1>0, <1>4, <1>5, <1>7, <1>8, OneSlot
<1> QED
  BY <1>2, <1>3, <1>4, <1>9 DEF PoolInv, PoolTypes

LEMMA DrainStep ==
    ASSUME PoolInv, NEW s \in Slot, Drain(s)
    PROVE  PoolInv'
<1>1. /\ PoolTypes /\ Core /\ WireTypes /\ queue[s] # <<>>
      /\ wire' = Sent(s, Head(queue[s]))
      /\ queue' = [queue EXCEPT ![s] = Tail(@)]
      /\ UNCHANGED <<slotVars, indexVars, sessionVars, lane, skip, txn, txVars>>
  BY DEF PoolInv, PoolTypes, Drain
<1>2. UNCHANGED <<slotVars, indexVars, session, sbatch, lane>>
  BY <1>1 DEF sessionVars
<1>3. Core'
  BY <1>1, <1>2, Rests
<1>4. queue[s] \in Seq(Frames)
  BY <1>1 DEF WireTypes
<1>5. Head(queue[s]) \in Frames /\ Tail(queue[s]) \in Seq(Frames)
  <2> DEFINE q == queue[s]
             F == Frames
  <2>1. q \in Seq(F) /\ q # <<>>
    BY <1>1, <1>4
  <2> HIDE DEF q, F
  <2>2. Head(q) \in F /\ Tail(q) \in Seq(F)
    BY <2>1
  <2> QED
    BY <2>2 DEF q, F
<1>6. Sent(s, Head(queue[s])) \in [Slot -> Seq(Frames)]
  BY <1>1, <1>5, SentTypes
<1>7. WireTypes'
  BY <1>1, <1>5, <1>6 DEF WireTypes
<1> QED
  BY <1>1, <1>3, <1>7 DEF PoolInv, PoolTypes, Core, SessionTypes, LaneTypes, TxTypes,
                          sessionVars, txVars

-----------------------------------------------------------------------------
(* The server runs what it was sent *)

LEMMA RanTypes ==
    ASSUME WireTypes, NEW s \in Slot, wire[s] # <<>>
    PROVE  /\ Head(wire[s]) \in Frames /\ Tail(wire[s]) \in Seq(Frames)
           /\ Ran(s) => wire' \in [Slot -> Seq(Frames)]
<1>1. wire \in [Slot -> Seq(Frames)]
  BY DEF WireTypes
<1>2. Head(wire[s]) \in Frames /\ Tail(wire[s]) \in Seq(Frames)
  <2> DEFINE q == wire[s]
             F == Frames
  <2>1. q \in Seq(F) /\ q # <<>>
    BY <1>1
  <2> HIDE DEF q, F
  <2>2. Head(q) \in F /\ Tail(q) \in Seq(F)
    BY <2>1
  <2> QED
    BY <2>2 DEF q, F
<1>3. <<SyncFrame>> \o Tail(wire[s]) \in Seq(Frames)
  <2> DEFINE t == Tail(wire[s])
             f == SyncFrame
             F == Frames
  <2>1. f \in F /\ t \in Seq(F)
    BY <1>2 DEF SyncFrame, Frame, Frames
  <2> HIDE DEF t, f, F
  <2>2. <<f>> \o t \in Seq(F)
    BY <2>1
  <2> QED
    BY <2>2 DEF t, f, F
<1>4. ASSUME Ran(s) PROVE wire' \in [Slot -> Seq(Frames)]
  <2> DEFINE q == IF Head(wire[s]).sync THEN <<SyncFrame>> \o Tail(wire[s]) ELSE Tail(wire[s])
  <2>1. wire' = [wire EXCEPT ![s] = q]
    BY <1>1, <1>4 DEF Ran
  <2>2. q \in Seq(Frames)
    BY <1>2, <1>3
  <2> HIDE DEF q
  <2> QED
    BY <1>1, <2>1, <2>2
<1> QED
  BY <1>2, <1>4

LEMMA EffectsTypes ==
    ASSUME WireTypes, NEW s \in Slot, NEW f \in Frames, NEW t \in Effects(s, f)
    PROVE  t \in Txs \cup {Nobody, "Stray"}
<1>1. txn[s] \in Txs \cup {Nobody, "Stray"} /\ (f.does = "Begin" => f.by \in Txs)
  BY DEF WireTypes, Frames
<1> QED
  BY <1>1 DEF Effects

LEMMA CommandCompleteStep ==
    ASSUME PoolInv, NEW s \in Slot, NEW tag, CommandComplete(s, tag)
    PROVE  PoolInv'
<1>1. /\ session[s] = "Ready" /\ wire[s] # <<>> /\ Ran(s) /\ OnComplete(s, tag)
      /\ \E t \in Effects(s, At(s)) : txn' = [txn EXCEPT ![s] = t]
      /\ UNCHANGED <<queue, skip, stage, target>>
  BY DEF CommandComplete, Reads, Listens
<1>2. SessionTypes' /\ LaneTypes' /\ reply' \in [Txs -> {"Due", "Ok", "Err"}] /\ Core'
  BY <1>1, Completes
<1>3. WireTypes /\ TxTypes
  BY DEF PoolInv, PoolTypes
<1>4. At(s) \in Frames /\ wire' \in [Slot -> Seq(Frames)]
  BY <1>1, <1>3, RanTypes DEF At
<1>5. txn' \in [Slot -> Txs \cup {Nobody, "Stray"}]
  <2>1. PICK t \in Effects(s, At(s)) : txn' = [txn EXCEPT ![s] = t]
    BY <1>1
  <2>2. t \in Txs \cup {Nobody, "Stray"}
    BY <1>3, <1>4, EffectsTypes
  <2> QED
    BY <1>3, <2>1, <2>2 DEF WireTypes
<1>6. WireTypes' /\ TxTypes'
  BY <1>1, <1>2, <1>3, <1>4, <1>5 DEF WireTypes, TxTypes
<1> QED
  BY <1>2, <1>6 DEF PoolInv, PoolTypes, Core

LEMMA ErrorResponseStep ==
    ASSUME PoolInv, NEW s \in Slot, NEW scope, ErrorResponse(s, scope)
    PROVE  PoolInv'
<1>1. /\ session[s] = "Ready" /\ wire[s] # <<>> /\ Ran(s) /\ OnError(s, scope)
      /\ skip' = [skip EXCEPT ![s] = ~At(s).sync]
      /\ txn' \in {txn, [txn EXCEPT ![s] = Nobody]}
      /\ UNCHANGED <<queue, stage, target>>
  BY DEF ErrorResponse, Reads, Listens
<1>2. SessionTypes' /\ LaneTypes' /\ reply' \in [Txs -> {"Due", "Ok", "Err"}] /\ Core'
  BY <1>1, Errs
<1>3. WireTypes /\ TxTypes
  BY DEF PoolInv, PoolTypes
<1>4. At(s) \in Frames /\ wire' \in [Slot -> Seq(Frames)]
  BY <1>1, <1>3, RanTypes DEF At
<1>5. WireTypes' /\ TxTypes'
  BY <1>1, <1>2, <1>3, <1>4 DEF WireTypes, TxTypes
<1> QED
  BY <1>2, <1>5 DEF PoolInv, PoolTypes, Core

LEMMA DiscardStep ==
    ASSUME PoolInv, NEW s \in Slot, Discard(s)
    PROVE  PoolInv'
<1>1. /\ PoolTypes /\ Core /\ WireTypes /\ wire[s] # <<>> /\ Ran(s)
      /\ skip' = [skip EXCEPT ![s] = ~At(s).sync]
      /\ UNCHANGED <<slotVars, indexVars, sessionVars, lane, queue, txn, txVars>>
  BY DEF PoolInv, PoolTypes, Discard, Reads
<1>2. UNCHANGED <<slotVars, indexVars, session, sbatch, lane>>
  BY <1>1 DEF sessionVars
<1>3. Core'
  BY <1>1, <1>2, Rests
<1>4. wire' \in [Slot -> Seq(Frames)]
  BY <1>1, RanTypes
<1>5. WireTypes'
  BY <1>1, <1>4 DEF WireTypes
<1> QED
  BY <1>1, <1>3, <1>5 DEF PoolInv, PoolTypes, Core, SessionTypes, LaneTypes, TxTypes,
                          sessionVars, txVars

LEMMA ReadyForQueryStep ==
    ASSUME PoolInv, NEW s \in Slot, ReadyForQuery(s)
    PROVE  PoolInv'
<1>1. /\ PoolTypes /\ WireTypes /\ session[s] = "Ready" /\ wire[s] # <<>>
      /\ wire' = [wire EXCEPT ![s] = Tail(@)] /\ OnReady(s, Status(s))
      /\ UNCHANGED <<lane, queue, skip, txn, txVars>>
  BY DEF PoolInv, PoolTypes, ReadyForQuery, Reads, Listens
<1>2. Status(s) \in {"Idle", "Transaction"} /\ lane' = lane
  BY <1>1 DEF Status
<1>3. SessionTypes' /\ Core'
  BY <1>1, <1>2, Readied
<1>4. Tail(wire[s]) \in Seq(Frames)
  BY <1>1, RanTypes
<1>5. WireTypes'
  BY <1>1, <1>4 DEF WireTypes
<1> QED
  BY <1>1, <1>3, <1>5 DEF PoolInv, PoolTypes, Core, LaneTypes, TxTypes, txVars

(* What a server answers that does not keep to the protocol. *)
LEMMA RogueStep ==
    ASSUME PoolInv, NEW s \in Slot,
           \/ \E tag \in {"Done", "ROLLBACK"} : RogueComplete(s, tag)
           \/ \E scope \in {"Command", "Connection"} : RogueError(s, scope)
           \/ \E status \in {"Idle", "Transaction"} : RogueReady(s, status)
    PROVE  PoolInv'
<1>0. PoolTypes
  BY DEF PoolInv
<1>1. ASSUME NEW tag, RogueComplete(s, tag) PROVE PoolInv'
  <2>1. /\ session[s] = "Ready" /\ OnComplete(s, tag)
        /\ UNCHANGED <<queue, serverVars, stage, target>>
    BY <1>1 DEF RogueComplete, Listens
  <2>2. SessionTypes' /\ LaneTypes' /\ reply' \in [Txs -> {"Due", "Ok", "Err"}] /\ Core'
    BY <2>1, Completes
  <2> QED
    BY <1>0, <2>1, <2>2 DEF PoolInv, PoolTypes, Core, WireTypes, TxTypes, serverVars
<1>2. ASSUME NEW scope, RogueError(s, scope) PROVE PoolInv'
  <2>1. /\ session[s] = "Ready" /\ OnError(s, scope)
        /\ UNCHANGED <<queue, serverVars, stage, target>>
    BY <1>2 DEF RogueError, Listens
  <2>2. SessionTypes' /\ LaneTypes' /\ reply' \in [Txs -> {"Due", "Ok", "Err"}] /\ Core'
    BY <2>1, Errs
  <2> QED
    BY <1>0, <2>1, <2>2 DEF PoolInv, PoolTypes, Core, WireTypes, TxTypes, serverVars
<1>3. ASSUME NEW status \in {"Idle", "Transaction"}, RogueReady(s, status) PROVE PoolInv'
  <2>1. /\ session[s] = "Ready" /\ OnReady(s, status) /\ lane' = lane
        /\ UNCHANGED <<lane, queue, serverVars, txVars>>
    BY <1>3 DEF RogueReady, Listens
  <2>2. SessionTypes' /\ Core'
    BY <2>1, Readied
  <2> QED
    BY <1>0, <2>1, <2>2 DEF PoolInv, PoolTypes, Core, LaneTypes, WireTypes, TxTypes, serverVars, txVars
<1> QED
  BY <1>1, <1>2, <1>3

LEMMA SettleSkippedStep ==
    ASSUME PoolInv, NEW s \in Slot, SettleSkipped(s)
    PROVE  PoolInv'
<1>1. /\ PoolTypes /\ session[s] = "Ready" /\ Front(s) \notin {"None", "Stale"} /\ Pop(s, "Err")
      /\ Reindex(s, Len(lane[s]) - 1, pending[s])
      /\ UNCHANGED <<sessionVars, queue, serverVars, stage, target>>
  BY DEF PoolInv, SettleSkipped
<1>2. session' = session /\ sbatch' = sbatch
  BY <1>1 DEF sessionVars
<1>3. LaneTypes' /\ reply' \in [Txs -> {"Due", "Ok", "Err"}] /\ Core'
  BY <1>1, <1>2, FrontAnswered
<1> QED
  BY <1>1, <1>3 DEF PoolInv, PoolTypes, Core, SessionTypes, WireTypes, TxTypes,
                    sessionVars, serverVars

LEMMA SettleFailsStep ==
    ASSUME PoolInv, NEW s \in Slot, SettleFails(s)
    PROVE  PoolInv'
<1>1. /\ PoolTypes /\ session[s] = "Ready" /\ Fails(s)
      /\ UNCHANGED <<lane, queue, serverVars, txVars>>
  BY DEF PoolInv, SettleFails
<1>2. SessionTypes' /\ Core'
  BY <1>1, Failed
<1> QED
  BY <1>1, <1>2 DEF PoolInv, PoolTypes, Core, LaneTypes, WireTypes, TxTypes, serverVars, txVars

-----------------------------------------------------------------------------
(* Transactions *)

LEMMA BeginRefusedStep ==
    ASSUME PoolInv, NEW h \in Txs, NEW s \in Slot, BeginRefused(h, s)
    PROVE  PoolInv'
<1>0. PoolTypes /\ Core /\ SlotTypes /\ SlotInv(s) /\ MinOf(index)
  BY DEF PoolInv, Core
<1>1. /\ seq' = [seq EXCEPT ![s] = NextSequence(@)]
      /\ UNCHANGED <<phase, gen, access, receiving, sync, pending, batch,
                     indexVars, sessionVars, lane, queue, serverVars, txVars>>
  BY DEF BeginRefused
<1>2. seq' \in [Slot -> 0 .. Wrap - 1]
  <2>1. NextSequence(seq[s]) \in 0 .. Wrap - 1
    BY <1>0, SequenceRange DEF SlotTypes
  <2> QED
    BY <1>0, <1>1, <2>1 DEF SlotTypes
<1>3. SlotTypes' /\ MinOf(index')
  BY <1>0, <1>1, <1>2 DEF SlotTypes, indexVars
<1>4. \A r \in Slot : Same(r)
  BY <1>1 DEF Same, indexVars, sessionVars
<1>5. SlotInv(s)'
  BY <1>0, <1>4, SameSlot
<1>6. /\ live' = live + Counts(phase'[s], {"Ready"}) - Counts(phase[s], {"Ready"})
      /\ blockers' = blockers + Counts(access'[s], {"Reserved", "Held"})
                              - Counts(access[s], {"Reserved", "Held"})
  BY <1>0, <1>1 DEF Counts, SlotTypes, indexVars
<1>7. Core'
  BY <1>0, <1>3, <1>4, <1>5, <1>6, OneSlot
<1> QED
  BY <1>0, <1>1, <1>3, <1>7 DEF PoolInv, PoolTypes, SessionTypes, LaneTypes, WireTypes, TxTypes,
                                sessionVars, serverVars, txVars

LEMMA BeginDrainsStep ==
    ASSUME PoolInv, NEW h \in Txs, NEW s \in Slot, BeginDrains(h, s)
    PROVE  PoolInv'
<1>0. PoolTypes /\ Core /\ SlotTypes /\ SlotInv(s) /\ MinOf(index) /\ index \in IndexType
  BY DEF PoolInv, Core, SlotTypes
<1>1. phase[s] = "Ready" /\ access[s] = "Shared" /\ receiving[s] = FALSE /\ index.rank[s] # Unlisted
  BY <1>0 DEF BeginDrains, PicksBegin, Listed, SlotInv
<1>2. UNCHANGED <<sessionVars, lane, queue, serverVars, txVars>>
  BY DEF BeginDrains
<1>3. SessionTypes' /\ LaneTypes' /\ WireTypes' /\ TxTypes' /\ Elsewhere(s)
  BY <1>0, <1>2 DEF PoolTypes, SessionTypes, LaneTypes, WireTypes, TxTypes, Elsewhere,
                    sessionVars, serverVars, txVars
<1>4. Core'
  <2>1. CASE CloseSlot(s)
    BY <1>0, <1>1, <1>3, <2>1, Closed
  <2>2. CASE /\ access' = [access EXCEPT ![s] = "Draining"]
             /\ index' = Detach(index, s)
             /\ UNCHANGED <<phase, gen, seq, receiving, sync, pending, batch, live, blockers>>
    <3>1. index' \in IndexType /\ MinOf(index') /\ index'.rank = [index.rank EXCEPT ![s] = Unlisted]
      BY <1>0, <1>1, <2>2, DetachIndex
    <3>2. SlotTypes'
      BY <1>0, <2>2, <3>1 DEF SlotTypes, Accesses
    <3>3. \A r \in Slot \ {s} : Same(r)
      BY <1>0, <1>2, <2>2, <3>1 DEF Same, SlotTypes, IndexType, sessionVars
    <3>4. access'[s] = "Draining" /\ index'.rank[s] = Unlisted
      BY <1>0, <2>2, <3>1 DEF SlotTypes, IndexType
    <3>5. SlotInv(s)'
      <4>1. /\ phase'[s] = "Ready" /\ session' = session /\ sbatch' = sbatch /\ lane' = lane
            /\ sync' = sync /\ pending' = pending /\ batch' = batch
        BY <1>1, <1>2, <2>2 DEF sessionVars
      <4> QED
        BY <1>0, <1>1, <3>4, <4>1 DEF SlotInv
    <3>6. /\ live' = live + Counts(phase'[s], {"Ready"}) - Counts(phase[s], {"Ready"})
          /\ blockers' = blockers + Counts(access'[s], {"Reserved", "Held"})
                                  - Counts(access[s], {"Reserved", "Held"})
      BY <1>0, <1>1, <2>2, <3>4 DEF Counts, SlotTypes
    <3> QED
      BY <1>0, <3>1, <3>2, <3>3, <3>5, <3>6, OneSlot
  <2> QED
    BY <2>1, <2>2 DEF BeginDrains
<1> QED
  BY <1>3, <1>4 DEF PoolInv, PoolTypes, Core

(* A lease is given up: its connection is closed, or was lost already. *)
LEMMA AbortStep ==
    ASSUME PoolInv, NEW h \in Txs, NEW states, Abort(h, states)
    PROVE  PoolInv'
<1>0. PoolTypes /\ Core /\ TxTypes
  BY DEF PoolInv, PoolTypes
<1>1. /\ stage' = [stage EXCEPT ![h] = "Idle"] /\ target' = [target EXCEPT ![h] = NoTarget]
      /\ UNCHANGED <<sessionVars, lane, queue, serverVars, reply>>
  BY DEF Abort
<1>2. SessionTypes' /\ LaneTypes' /\ WireTypes' /\ TxTypes'
  BY <1>0, <1>1 DEF PoolTypes, SessionTypes, LaneTypes, WireTypes, TxTypes, Targets,
                    sessionVars, serverVars
<1>3. CASE Current(h, states)
  <2> DEFINE s == target[h].slot
  <2>1. s \in Slot /\ phase[s] = "Ready"
    BY <1>0, <1>3, LeaseSlot
  <2>2. CloseSlot(s)
    BY <1>3 DEF Abort, Recovers
  <2> HIDE DEF s
  <2>3. Elsewhere(s)
    BY <1>1 DEF Elsewhere, sessionVars
  <2>4. Core'
    BY <1>0, <2>1, <2>2, <2>3, Closed
  <2> QED
    BY <1>2, <2>4 DEF PoolInv, PoolTypes, Core
<1>4. CASE ~ Current(h, states)
  <2>1. UNCHANGED <<slotVars, indexVars, session, sbatch, lane>>
    BY <1>1, <1>4 DEF Abort, Recovers, sessionVars
  <2>2. Core'
    BY <1>0, <2>1, Rests
  <2> QED
    BY <1>2, <2>2 DEF PoolInv, PoolTypes, Core
<1> QED
  BY <1>3, <1>4

LEMMA LeaseStep ==
    ASSUME PoolInv, NEW h \in Txs, BeginDone(h) \/ FinishDone(h)
    PROVE  PoolInv'
<1>0. PoolTypes /\ Core
  BY DEF PoolInv
<1>1. ASSUME UNCHANGED <<slotVars, indexVars, sessionVars, lane, queue, serverVars>>, TxTypes'
      PROVE  PoolInv'
  <2>1. UNCHANGED <<slotVars, indexVars, session, sbatch, lane>>
    BY <1>1 DEF sessionVars
  <2>2. Core'
    BY <1>0, <2>1, Rests
  <2> QED
    BY <1>0, <1>1, <2>2 DEF PoolInv, PoolTypes, Core, SessionTypes, LaneTypes, WireTypes,
                            sessionVars, serverVars
<1>2. CASE BeginDone(h)
  <2>1. CASE Abort(h, {"Reserved", "Held"})
    BY <2>1, AbortStep
  <2>2. CASE /\ stage' = [stage EXCEPT ![h] = "Open"]
             /\ UNCHANGED <<slotVars, indexVars, sessionVars, lane, queue,
                            serverVars, target, reply>>
    <3>1. TxTypes'
      BY <1>0, <2>2 DEF PoolTypes, TxTypes
    <3> QED
      BY <1>1, <2>2, <3>1
  <2> QED
    BY <1>2, <2>1, <2>2 DEF BeginDone
<1>3. CASE FinishDone(h)
  <2>1. /\ UNCHANGED <<slotVars, indexVars, sessionVars, lane, queue, serverVars>>
        /\ stage' = [stage EXCEPT ![h] = "Idle"] /\ target' = [target EXCEPT ![h] = NoTarget]
        /\ reply' = reply
    BY <1>3 DEF FinishDone
  <2>2. TxTypes'
    BY <1>0, <2>1 DEF PoolTypes, TxTypes, Targets
  <2> QED
    BY <1>1, <2>1, <2>2
<1> QED
  BY <1>2, <1>3

-----------------------------------------------------------------------------
(* The theorems *)

(* The pool starts empty, and no step breaks the invariant.                *)
LEMMA InitPool == Init => PoolInv
<1> SUFFICES ASSUME Init PROVE PoolInv
  OBVIOUS
<1> USE DEF Init
<1>1. /\ 0 \in 0 .. Batches - 1 /\ 0 \in 0 .. MaxGen /\ 0 \in 0 .. Wrap - 1
      /\ Unlisted \in Unlisted .. Buckets - 1 /\ <<>> \in Seq(Replies) /\ <<>> \in Seq(Frames)
  BY PoolAssumption DEF Unlisted
<1>2. index \in IndexType /\ index.rank = [s \in Slot |-> Unlisted] /\ index.min = Unlisted
  BY <1>1 DEF IndexType
<1>3. SlotTypes
  BY <1>1, <1>2 DEF SlotTypes, Accesses
<1>4. SessionTypes /\ LaneTypes /\ WireTypes /\ TxTypes
  BY <1>1 DEF SessionTypes, LaneTypes, WireTypes, TxTypes, Targets
<1>5. ASSUME NEW s \in Slot PROVE SlotInv(s)
  <2>1. index.rank[s] = Unlisted
    BY <1>2
  <2> QED
    BY <2>1 DEF SlotInv
<1>6. MinOf(index)
  BY <1>2 DEF MinOf
<1>7. live = Cardinality(Readies) /\ blockers = Cardinality(Blocking)
  <2>1. Readies = {} /\ Blocking = {}
    BY DEF Readies, Blocking
  <2> QED
    BY <2>1, FS_EmptySet
<1> QED
  BY <1>3, <1>4, <1>5, <1>6, <1>7 DEF PoolInv, PoolTypes, Core

LEMMA StepPool == PoolInv /\ [Next]_vars => PoolInv'
<1> SUFFICES ASSUME PoolInv, [Next]_vars PROVE PoolInv'
  OBVIOUS
<1>1. CASE UNCHANGED vars
  <2>1. /\ UNCHANGED <<slotVars, indexVars, session, sbatch, lane>> /\ PoolTypes /\ Core
        /\ UNCHANGED <<slotVars, indexVars, sessionVars, lane, queue, serverVars, txVars>>
    BY <1>1 DEF vars, sessionVars, PoolInv
  <2>2. Core'
    BY <2>1, Rests
  <2> QED
    BY <2>1, <2>2 DEF PoolInv, PoolTypes, Core, SessionTypes, LaneTypes, WireTypes, TxTypes,
                      sessionVars, serverVars, txVars
<1>2. ASSUME NEW s \in Slot,
             \/ Bind(s) \/ TryReady(s) \/ Quarantine(s) \/ Cut(s)
             \/ ClearRecv(s) \/ ClearSend(s) \/ Deactivate(s)
             \/ CopyFinish(s) \/ Drain(s)
             \/ Discard(s) \/ ReadyForQuery(s)
             \/ SettleSkipped(s) \/ SettleDone(s) \/ SettleFails(s)
      PROVE  PoolInv'
  BY <1>2, BindStep, TryReadyStep, QuarantineStep, CutStep, ClearRecvStep, ClearSendStep,
     DeactivateStep, CopyFinishStep, DrainStep, DiscardStep, ReadyForQueryStep,
     SettleSkippedStep, SettleDoneStep, SettleFailsStep
<1>3. ASSUME NEW s \in Slot, NEW tag \in {"Done", "ROLLBACK"},
             CommandComplete(s, tag) \/ RogueComplete(s, tag)
      PROVE  PoolInv'
  BY <1>3, CommandCompleteStep, RogueStep
<1>4. ASSUME NEW s \in Slot, NEW scope \in {"Command", "Connection"},
             ErrorResponse(s, scope) \/ RogueError(s, scope)
      PROVE  PoolInv'
  BY <1>4, ErrorResponseStep, RogueStep
<1>5. ASSUME NEW s \in Slot, NEW status \in {"Idle", "Transaction"}, RogueReady(s, status)
      PROVE  PoolInv'
  BY <1>5, RogueStep
<1>6. ASSUME NEW s \in Slot, NEW input \in {"Empty", "Partial", "Yield"}, Flush(s, input)
      PROVE  PoolInv'
  BY <1>6, FlushStep
<1>7. ASSUME NEW s \in Slot, NEW c \in Calls, NEW b \in Boundaries, Call(c, s, b)
      PROVE  PoolInv'
  BY <1>7, CallStep
<1>8. ASSUME NEW s \in Slot, NEW h \in Txs,
             Begin(h, s) \/ BeginRefused(h, s) \/ BeginDrains(h, s)
      PROVE  PoolInv'
  BY <1>8, BeginStep, BeginRefusedStep, BeginDrainsStep
<1>9. ASSUME NEW h \in Txs, BeginDone(h) \/ FinishDone(h) \/ DropTx(h)
      PROVE  PoolInv'
  BY <1>9, LeaseStep, AbortStep DEF DropTx
<1>10. ASSUME NEW h \in Txs, NEW b \in Boundaries, TxCall(h, b)
       PROVE  PoolInv'
  BY <1>10, TxCallStep
<1>11. ASSUME NEW h \in Txs, NEW end \in {"Commit", "Rollback"}, Finish(h, end)
       PROVE  PoolInv'
  BY <1>11, FinishStep
<1> QED
  BY <1>1, <1>2, <1>3, <1>4, <1>5, <1>6, <1>7, <1>8, <1>9, <1>10, <1>11 DEF Next

(* The invariant the theorems below rest on: every variable has its type,  *)
(* and each slot its listing, its rank and its batches in order.           *)
THEOREM PoolInvariant == Spec => []PoolInv
<1>1. Init => PoolInv
  BY InitPool
<1>2. PoolInv /\ [Next]_vars => PoolInv'
  BY StepPool
<1> QED
  BY <1>1, <1>2, PTL DEF Spec

(* Each Sync that is due but the one being answered has a reply. *)
LEMMA PoolBounded == PoolInv => SyncsBounded
<1> SUFFICES ASSUME PoolInv, NEW s \in Slot PROVE pending[s] <= Len(lane[s]) + 1
  BY DEF SyncsBounded
<1>1. SlotInv(s) /\ pending[s] \in Nat /\ lane[s] \in Seq(Replies) /\ Len(lane[s]) \in Nat
  BY DEF PoolInv, Core, SlotTypes, PoolTypes, LaneTypes
<1>2. CASE phase[s] = "Ready"
  <2>1. Chain(pending[s], sbatch[s], batch[s], sync[s], Len(lane[s]), lane[s])
    BY <1>1, <1>2 DEF SlotInv
  <2> QED
    BY <1>1, <2>1, ChainBound
<1>3. CASE phase[s] # "Ready"
  <2>1. pending[s] = 0
    BY <1>1, <1>3 DEF SlotInv
  <2> DEFINE n == Len(lane[s])
  <2>2. n \in Nat
    BY <1>1
  <2> HIDE DEF n
  <2>3. 0 <= n + 1
    BY <2>2
  <2> QED
    BY <2>1, <2>3 DEF n
<1> QED
  BY <1>2, <1>3

LEMMA PoolExactly == PoolInv => PoolExact
<1> SUFFICES ASSUME PoolInv PROVE PoolExact
  OBVIOUS
<1>1. SlotTypes /\ SessionTypes /\ WireTypes /\ TxTypes /\ Core
  BY DEF PoolInv, PoolTypes
<1>2. \A s \in Slot : SlotInv(s) /\ receiving[s] \in BOOLEAN
                      /\ phase[s] \in {"Vacant", "Handshaking", "Ready", "Closing"}
  BY <1>1 DEF Core, SlotTypes
<1>3. TypeOK
  <2>1. \A s \in Slot : access[s] = "None" <=> phase[s] # "Ready"
    BY <1>2 DEF SlotInv
  <2> QED
    BY <1>1, <2>1 DEF TypeOK, SlotTypes, SessionTypes, WireTypes, TxTypes, IndexType
<1>4. ListedExact /\ RankExact
  BY <1>2 DEF ListedExact, RankExact, Listed, SlotInv
<1>5. CountersExact
  BY <1>1 DEF CountersExact, Core, Readies, Blocking
<1> QED
  BY <1>3, <1>4, <1>5, PoolBounded DEF PoolExact, IndexExact

(* Whom the index lists and at which load, what its counters count and how *)
(* many Syncs can be due: for any number of connections and clients, any   *)
(* generation, batch and bucket bounds, and whatever the server answers.   *)
THEOREM PoolExactCorrect == Spec => []PoolExact
BY PoolInvariant, PoolExactly, PTL

LEMMA PoolMinimum == PoolInv => MinimumExact
<1> SUFFICES ASSUME PoolInv PROVE MinimumExact
  OBVIOUS
<1>1. MinOf(index) /\ index \in IndexType
  BY DEF PoolInv, Core, SlotTypes
<1> DEFINE ranks == {index.rank[s] : s \in {r \in Slot : Listed(r)}}
<1>2. CASE \A r \in Slot : index.rank[r] = Unlisted
  <2>1. ranks = {}
    BY <1>2 DEF Listed
  <2>2. index.min = Unlisted
    BY <1>1, <1>2 DEF MinOf
  <2> QED
    BY <2>1, <2>2 DEF MinimumExact
<1>3. CASE ~ \A r \in Slot : index.rank[r] = Unlisted
  <2>1. /\ index.min # Unlisted
        /\ \E r \in Slot : index.rank[r] = index.min
        /\ \A r \in Slot : index.rank[r] # Unlisted => index.min <= index.rank[r]
    BY <1>1, <1>3 DEF MinOf
  <2>2. index.min \in ranks /\ \A r \in ranks : index.min <= r
    BY <2>1 DEF Listed
  <2>3. ranks # {}
    BY <2>2
  <2> QED
    BY <2>2, <2>3 DEF MinimumExact
<1> QED
  BY <1>2, <1>3

(* The cached minimum of the index, which its unchecked read trusts, is    *)
(* the least rank of a listed slot at all times.                           *)
THEOREM MinimumExactCorrect == Spec => []MinimumExact
BY PoolInvariant, PoolMinimum, PTL

=============================================================================
