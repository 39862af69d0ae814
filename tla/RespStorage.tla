----------------------------- MODULE RespStorage -----------------------------
(***************************************************************************)
(* The parser storage of a Redis port: redis/src/protocol/parser/storage,  *)
(* the node pool of parser/mod.rs and the lane gate of storage/gate.rs.    *)
(*                                                                         *)
(* The nodes of every reply that is parsed, waits for room or is held by   *)
(* the application live in one array.  Each tape is a ring threaded        *)
(* through the nodes and named by its last one; the free nodes are a ring  *)
(* of the same kind.  The code indexes the array without a check.          *)
(*                                                                         *)
(* A connection parses only while it is charged one of Lanes lanes.  The   *)
(* charge passes from the builder to the finished frame, and returns when  *)
(* the frame has entered the reply queue, where its values are charged to  *)
(* the reply arena instead, or is dropped.  A connection that finds no     *)
(* lane queues; a returned charge is granted to the first in the queue.    *)
(***************************************************************************)
EXTENDS Integers, FiniteSets, Sequences

CONSTANTS
    Conns,          \* connections that share the storage
    Lanes,          \* Capacity::lanes, at most the connections
    FrameValues,    \* values of one frame, limit::Bound<Value>
    Retained        \* values the reply arena may hold

ASSUME StorageAssumption ==
    /\ IsFiniteSet(Conns)
    /\ Lanes \in Nat \ {0}
    /\ FrameValues \in Nat \ {0}
    /\ Retained \in Nat
    /\ FrameValues <= Retained

VARIABLES
    pool,       \* the nodes and the last free one: Pool
    gate,       \* charged lanes, queue and grants: Gate
    phase,      \* [Conns -> Phases]: Access::phase
    building,   \* [Conns -> Tape]: the tail and len of the Builder
    pending,    \* [Conns -> Tape]: a finished frame with its Lane
    kept,       \* tapes owned by replies, with their share of the arena
    parked      \* [Conns -> BOOLEAN]: input suspended until a wake

vars == <<pool, gate, phase, building, pending, kept, parked>>

Phases == {"Idle", "Held", "Waiting"}
Outcomes == {"store", "keep", "drop"}

(* Capacity::try_with: the whole frames under way, and the arena. *)
Capacity == Lanes * FrameValues + Retained
Node == 1 .. Capacity
NoNode == 0

(* A tape: its last node and its length.  nodes is a history variable: the *)
(* nodes its values were written to, in order.  A value is written when    *)
(* its node is appended and stays there, so it needs no place of its own.  *)
Empty == [tail |-> NoNode, len |-> 0, nodes |-> <<>>]
Size(tape) == tape.len

-----------------------------------------------------------------------------
(* The node pool. *)

(* Pool::try_new: one ring of all nodes, in order. *)
NewPool ==
    [next |-> [n \in Node |-> IF n = Capacity THEN 1 ELSE n + 1],
     free |-> Capacity]

(* Free::append: the first free node, linked behind the tape's last. *)
Taken(p) == p.next[p.free]

Unlinked(p) ==
    IF Taken(p) = p.free THEN [p EXCEPT !.free = NoNode]
    ELSE [p EXCEPT !.next[p.free] = p.next[Taken(p)]]

Linked(p, key, tape) ==
    IF tape.tail = NoNode THEN [p EXCEPT !.next[key] = key]
    ELSE [p EXCEPT !.next[key] = p.next[tape.tail], !.next[tape.tail] = key]

Grown(p, tape) == Linked(Unlinked(p), Taken(p), tape)
Longer(p, tape) ==
    [tail |-> Taken(p), len |-> tape.len + 1, nodes |-> Append(tape.nodes, Taken(p))]

\* Mutant: the last free node keeps its link, so the ring skips the tape.
ReleasedOpen(p, tape) ==
    IF tape.tail = NoNode THEN p
    ELSE IF p.free = NoNode THEN [p EXCEPT !.free = tape.tail]
    ELSE [p EXCEPT !.next[tape.tail] = p.next[p.free], !.free = tape.tail]

(* Pool::release: the ring of the tape spliced behind the last free node. *)
Released(p, tape) ==
    IF tape.tail = NoNode THEN p
    ELSE IF p.free = NoNode THEN [p EXCEPT !.free = tape.tail]
    ELSE [p EXCEPT !.next[tape.tail] = p.next[p.free],
                   !.next[p.free] = p.next[tape.tail],
                   !.free = tape.tail]

-----------------------------------------------------------------------------
(* The gate.  rank is the place of a connection in the queue, 0 outside.   *)

Gate(active, rank, granted) ==
    [active |-> active, rank |-> rank, granted |-> granted]

NewGate == Gate(0, [c \in Conns |-> 0], [c \in Conns |-> FALSE])

Queued(g) == {c \in Conns : g.rank[c] # 0}
IsFirst(g, c) == g.rank[c] # 0 /\ \A d \in Queued(g) : g.rank[c] <= g.rank[d]
Behind(g) == Cardinality(Queued(g)) + 1

(* shared::Slot::clear: the others move up. *)
Unqueue(g, c) ==
    [d \in Conns |->
        IF d = c THEN 0
        ELSE IF g.rank[c] # 0 /\ g.rank[d] > g.rank[c] THEN g.rank[d] - 1
        ELSE g.rank[d]]

\* Mutant: the charge is always given back, and nobody is granted it.
ReturnedOnly(g) == Gate(g.active - 1, g.rank, g.granted)

(* Drop for Lane: the charge goes to the first waiter, or is given back.   *)
Returned(g) ==
    IF Queued(g) = {} THEN Gate(g.active - 1, g.rank, g.granted)
    ELSE LET first == CHOOSE c \in Conns : IsFirst(g, c)
         IN  Gate(g.active, Unqueue(g, first), [g.granted EXCEPT ![first] = TRUE])

(* The connection woken by it. *)
Woken(g) == {c \in Conns : IsFirst(g, c)}

(* Access::acquire and Gate::resume. *)
CanAcquire(c) ==
    \/ phase[c] = "Held"
    \/ phase[c] = "Waiting" /\ gate.granted[c]
    \/ gate.active < Lanes

Acquired(c) ==
    IF phase[c] = "Held" THEN gate
    ELSE IF gate.granted[c]
    THEN Gate(gate.active, gate.rank, [gate.granted EXCEPT ![c] = FALSE])
    ELSE Gate(gate.active + 1, Unqueue(gate, c), gate.granted)

\* Mutant: a grant that was not used is forgotten.
CancelledGrant(c) ==
    LET left == Gate(gate.active, Unqueue(gate, c),
                     [gate.granted EXCEPT ![c] = FALSE])
    IN  IF phase[c] = "Held" THEN Returned(left) ELSE left

(* Access::release: a held lane is returned, a queued link is cleared and  *)
(* an unused grant passed on.                                              *)
Cancelled(c) ==
    LET left == Gate(gate.active, Unqueue(gate, c),
                     [gate.granted EXCEPT ![c] = FALSE])
    IN  IF phase[c] = "Held" \/ gate.granted[c] THEN Returned(left) ELSE left

Wakes(c) ==
    IF phase[c] = "Held" \/ gate.granted[c] THEN Woken(gate) ELSE {}

Unpark(C) == [c \in Conns |-> parked[c] /\ c \notin C]

-----------------------------------------------------------------------------

Init ==
    /\ pool = NewPool
    /\ gate = NewGate
    /\ phase = [c \in Conns |-> "Idle"]
    /\ building = [c \in Conns |-> Empty]
    /\ pending = [c \in Conns |-> Empty]
    /\ kept = {}
    /\ parked = [c \in Conns |-> FALSE]

Parses(c) == ~parked[c] /\ pending[c] = Empty

(* Values of the replies the application still owns. *)
Charged ==
    Cardinality({x \in kept \X (1 .. FrameValues) : x[2] <= Size(x[1])})

(* try_push without a lane, and Logic::blocked: the connection queues once *)
(* and its input is suspended.                                             *)
Blocked(c) ==
    /\ Parses(c)
    /\ ~CanAcquire(c)
    /\ phase' = [phase EXCEPT ![c] = "Waiting"]
    /\ gate' = IF phase[c] = "Idle"
               THEN Gate(gate.active, [gate.rank EXCEPT ![c] = Behind(gate)],
                         gate.granted)
               ELSE gate
    /\ parked' = [parked EXCEPT ![c] = TRUE]
    /\ UNCHANGED <<pool, building, pending, kept>>

(* The driver runs a suspended connection for another reason. *)
Poll(c) ==
    /\ parked[c]
    /\ parked' = [parked EXCEPT ![c] = FALSE]
    /\ UNCHANGED <<pool, gate, phase, building, pending, kept>>

(* try_push of a value that does not end the frame. *)
Push(c) ==
    /\ Parses(c)
    /\ CanAcquire(c)
    /\ Size(building[c]) + 1 < FrameValues
    /\ pool.free # NoNode
    /\ gate' = Acquired(c)
    /\ phase' = [phase EXCEPT ![c] = "Held"]
    /\ pool' = Grown(pool, building[c])
    /\ building' = [building EXCEPT ![c] = Longer(pool, @)]
    /\ UNCHANGED <<pending, kept, parked>>

\* Mutant: the frame is admitted if there was room before it.
FitsBefore(tape) == Charged < Retained

(* The reply arena admits a frame whose values fit beside those it holds. *)
Fits(tape) == Charged + Size(tape) <= Retained

(* What becomes of a finished frame: it enters the reply queue, waits for  *)
(* room there, or is dropped (an answer to the handshake, an abandoned     *)
(* command, a failed connection).  The lane is returned unless it waits.   *)
Deliver(c, tape, p, g, o) ==
    /\ o = "store" => Fits(tape)
    /\ kept' = IF o = "store" THEN kept \cup {tape} ELSE kept
    /\ pool' = IF o = "drop" THEN Released(p, tape) ELSE p
    /\ pending' = [pending EXCEPT ![c] = IF o = "keep" THEN tape ELSE Empty]
    /\ gate' = IF o = "keep" THEN g ELSE Returned(g)
    /\ parked' = Unpark(IF o = "keep" THEN {} ELSE Woken(g))

(* try_push of the value that ends the frame, Stored::finish, and the      *)
(* delivery of the frame in the same call.                                 *)
Complete(c, o) ==
    /\ Parses(c)
    /\ CanAcquire(c)
    /\ Size(building[c]) < FrameValues
    /\ pool.free # NoNode
    /\ phase' = [phase EXCEPT ![c] = "Idle"]
    /\ building' = [building EXCEPT ![c] = Empty]
    /\ Deliver(c, Longer(pool, building[c]), Grown(pool, building[c]),
               Acquired(c), o)

(* Pending::settle. *)
Settle(c, o) ==
    /\ pending[c] # Empty
    /\ o # "keep"
    /\ Deliver(c, pending[c], pool, gate, o)
    /\ UNCHANGED <<phase, building>>

(* Builder::reset and Drop for Builder, after a rejected frame. *)
Reset(c) ==
    /\ Parses(c)
    /\ phase[c] # "Idle"
    /\ pool' = Released(pool, building[c])
    /\ gate' = Cancelled(c)
    /\ parked' = Unpark(Wakes(c))
    /\ phase' = [phase EXCEPT ![c] = "Idle"]
    /\ building' = [building EXCEPT ![c] = Empty]
    /\ UNCHANGED <<pending, kept>>

(* The connection ends, its input suspended or a frame waiting for room.   *)
(* Its parser state is dropped, and the slot serves another connection.    *)
Close(c) ==
    /\ parked[c] \/ pending[c] # Empty
    /\ pool' = Released(Released(pool, building[c]), pending[c])
    /\ gate' = IF pending[c] # Empty THEN Returned(gate) ELSE Cancelled(c)
    /\ parked' = [Unpark(IF pending[c] # Empty THEN Woken(gate) ELSE Wakes(c))
                     EXCEPT ![c] = FALSE]
    /\ phase' = [phase EXCEPT ![c] = "Idle"]
    /\ building' = [building EXCEPT ![c] = Empty]
    /\ pending' = [pending EXCEPT ![c] = Empty]
    /\ UNCHANGED kept

(* Drop for Tape: the owner of a reply is done with it. *)
Consume(t) ==
    /\ kept' = kept \ {t}
    /\ pool' = Released(pool, t)
    /\ UNCHANGED <<gate, phase, building, pending, parked>>

Next ==
    \/ \E c \in Conns :
          \/ Blocked(c)
          \/ Poll(c)
          \/ Push(c)
          \/ \E o \in Outcomes : Complete(c, o)
          \/ \E o \in Outcomes : Settle(c, o)
          \/ Reset(c)
          \/ Close(c)
    \/ \E t \in kept : Consume(t)

Spec == Init /\ [][Next]_vars

-----------------------------------------------------------------------------
(* Properties. *)

Holders == {c \in Conns : phase[c] = "Held"}
Grantees == {c \in Conns : gate.granted[c]}
Finishers == {c \in Conns : pending[c] # Empty}

(* The gate's counter is the number of lanes somebody owns: a builder, a   *)
(* connection that was granted one and has not run, or a finished frame.   *)
(* The counter is decremented without a check (gate.rs:157), and a charge  *)
(* lost on the way is a lane lost for good.                                *)
LanesExact ==
    /\ gate.active = Cardinality(Holders) + Cardinality(Grantees)
                       + Cardinality(Finishers)
    /\ gate.active <= Lanes

(* A connection whose input is suspended is in the queue, nobody queues    *)
(* while a lane is unowned, and a grant is never left with a connection    *)
(* that sleeps: what stands between a waiter and its turn is always a lane *)
(* that will be returned.                                                  *)
NoLostGrant ==
    \A c \in Conns :
        /\ parked[c] => c \in Queued(gate)
        /\ c \in Queued(gate) => gate.active = Lanes /\ ~gate.granted[c]
        /\ phase[c] = "Waiting" => c \in Queued(gate) \/ gate.granted[c]

(* The nodes met from a tape's last node on, n of them. *)
Walk(tail, n) ==
    LET at[i \in 0 .. n] == IF i = 0 THEN tail ELSE pool.next[at[i - 1]]
    IN  [i \in 1 .. n |-> at[i]]

Owned ==
    {<<"building", c, building[c]>> : c \in Conns}
    \cup {<<"pending", c, pending[c]>> : c \in Conns}
    \cup {<<"kept", t.tail, t>> : t \in kept}
NodesOf(t) == {t.nodes[i] : i \in 1 .. Size(t)}
FreeNodes ==
    IF pool.free = NoNode THEN {}
    ELSE {Walk(pool.free, Capacity)[i] : i \in 1 .. Capacity}

(* Every tape is a ring of its own nodes that is read, from the first on,  *)
(* in the order its values were appended; no two tapes share a node, and   *)
(* the nodes of no tape are exactly the free ring.  The unchecked indexing *)
(* and the splices of append and release rest on it.                       *)
TapesExact ==
    /\ \A o \in Owned :
          LET t == o[3]
          IN  /\ Walk(t.tail, Size(t)) = t.nodes
              /\ t # Empty => t.nodes[Size(t)] = t.tail
              /\ Cardinality(NodesOf(t)) = Size(t)
    /\ \A o, q \in Owned : o # q => NodesOf(o[3]) \cap NodesOf(q[3]) = {}
    /\ FreeNodes = Node \ UNION {NodesOf(o[3]) : o \in Owned}

(* A connection with a lane finds a free node for every value its frame    *)
(* may have: the RetainCapacity answer of the parser, which would close    *)
(* the connection, cannot occur with the capacity Capacity::try_with       *)
(* computes.                                                               *)
NeverFull ==
    \A c \in Conns :
        CanAcquire(c) /\ Size(building[c]) < FrameValues => pool.free # NoNode

(* The pool of nodes is exact in shape and in size: rings that share no    *)
(* node, and never too few of them.                                        *)
NodesExact == TapesExact /\ NeverFull
=============================================================================
