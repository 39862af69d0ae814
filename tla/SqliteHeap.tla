----------------------------- MODULE SqliteHeap ------------------------------
(***************************************************************************)
(* The memory of a SQLite worker: settings/memory.rs and runtime/raw (one  *)
(* backing allocation, cut into spans), runtime/heap (the buddy allocator  *)
(* that SQLite's malloc hooks are served from) and its scopes.             *)
(*                                                                         *)
(* An arena's units hold blocks of 2^order units.  Free blocks of an order *)
(* form a doubly linked list whose links are kept in the blocks; a control *)
(* byte per unit marks the first unit of a free block.  A live block       *)
(* begins with a header.  Memory is an array of cells; links and headers   *)
(* take the first cell of a block, as the 16 bytes of both do in the code. *)
(* What SQLite stores is external: it fills every cell it was given.       *)
(***************************************************************************)
EXTENDS Integers, Sequences, FiniteSets, SequencesExt

CONSTANTS
    Arenas,        \* the arenas of one worker, one per installation
    Plans,         \* possible functions from arenas to memory settings
    MaxBlocks,     \* bound: allocations SQLite holds at once
    Sizes,         \* cells SQLite asks for
    MaxOrder,      \* largest order a request may have
    Levels,        \* ORDERS: number of free lists
    Unit,          \* cells of a unit
    Header,        \* cells of a header
    Align,         \* alignment of spans and of settings
    Word           \* bound of usize

VARIABLES
    plan,          \* arena -> its settings
    arena,         \* arena -> [heads, mem, control, refs, held]
    lease,         \* arena -> "idle", "entered", "left" or "dropped"
    current,       \* the scope new allocations are made in
    block          \* handle -> what SQLite holds

heapVars == <<plan, arena, lease, current, block>>

None == -1
Foreign == -2
Handles == 1 .. MaxBlocks
NoBlock == [owner |-> None, index |-> 0, bytes |-> 0]

------------------------------------------------------------------------------
(* settings/memory.rs and runtime/raw/mod.rs: a plan is [phase, prefix,    *)
(* sqlite, results, slots, aside, statements, cache].                      *)

Round(bytes) == ((bytes + Align - 1) \div Align) * Align

(* Layout::new, units, capacity: a control cell for each unit.             *)
LayoutAdmits(bytes) == bytes >= Align /\ bytes % Align = 0
UnitsOf(bytes) == bytes \div (Unit + 1)
Capacity(bytes) == UnitsOf(bytes) * Unit

(* Memory::admit: the bytes reserved, all sums checked.                    *)
Backing(p) ==
    Round(p.phase) + (p.sqlite + p.prefix) + Round(p.results) + Round(p.slots) + Round(p.aside)
Retained(p) == p.cache + p.statements

(* Target::plan.                                                           *)
Admitted(p) ==
    /\ LayoutAdmits(p.sqlite)
    /\ Backing(p) <= Word
    /\ Retained(p) <= Capacity(p.sqlite)
    /\ Capacity(p.sqlite) < Unit * 2 ^ (MaxOrder + 1)

(* Memory::new: the spans cut out of the backing, as <<start, bytes>>, and *)
(* the bytes that are allocated, in whole units of the alignment.          *)
Spans(p) ==
    LET sqlite == Round(p.phase)
        collect == sqlite + p.prefix + p.sqlite
        stmts == collect + Round(p.results)
        aside == stmts + Round(p.slots)
        end == aside + Round(p.aside)
    IN [phase |-> <<0, p.phase>>, sqlite |-> <<sqlite, collect - sqlite>>,
        results |-> <<collect, p.results>>, slots |-> <<stmts, aside - stmts>>,
        aside |-> <<aside, end - aside>>, end |-> <<(end \div Align) * Align, 0>>]

------------------------------------------------------------------------------
(* The arena, as a record [heads, mem, control, refs, held].               *)

Units(a) == UnitsOf(plan[a].sqlite)
Width(order) == 2 ^ order
Cell(index) == index * Unit
Payload(order) == Width(order) * Unit - Header

(* Arena::control.                                                         *)
IsFree(s, index, order) == s.control[index] = order + 1

(* State::link and State::unlink.  What a free block still holds behind    *)
(* its links is of no consequence.                                         *)
Raw == <<"raw", 0, 0>>
Links(previous, next) == <<"links", previous, next>>
Link(s, index, order) ==
    LET next == s.heads[order]
        placed == [c \in DOMAIN s.mem |->
            IF c = Cell(index) THEN Links(None, next)
            ELSE IF c \in Cell(index) .. Cell(index + Width(order)) - 1 THEN Raw ELSE s.mem[c]]
    IN [s EXCEPT !.heads[order] = index, !.control[index] = order + 1,
                 !.mem = IF next = None THEN placed
                         ELSE [placed EXCEPT ![Cell(next)][2] = index]]
Unlink(s, index, order) ==
    LET previous == s.mem[Cell(index)][2]
        next == s.mem[Cell(index)][3]
        behind == IF previous = None THEN s.mem ELSE [s.mem EXCEPT ![Cell(previous)][3] = next]
    IN [s EXCEPT !.heads[order] = IF previous = None THEN next ELSE @,
                 !.control[index] = 0,
                 !.mem = IF next = None THEN behind ELSE [behind EXCEPT ![Cell(next)][2] = previous]]

(* Segment::reserve: the upper halves that are not needed are linked.      *)
Split(s, index, from, order) ==
    FoldLeft(LAMBDA t, k : Link(t, index + Width(from - k), from - k), s,
             [k \in 1 .. from - order |-> k])

(* State::reserve: the first list that has a block, as [s, index].         *)
Reserve(s, order) ==
    LET lists == {o \in order .. MaxOrder : s.heads[o] # None}
    IN IF lists = {} THEN [s |-> s, index |-> None]
       ELSE LET from == CHOOSE o \in lists : \A p \in lists : o <= p
                index == s.heads[from]
            IN [s |-> Split(Unlink(s, index, from), index, from, order), index |-> index]

(* State::recycle: the block is joined with its buddy while that is free.  *)
Buddy(index, order) ==
    IF (index \div Width(order)) % 2 = 0 THEN index + Width(order) ELSE index - Width(order)
Recycle(s, first, order) ==
    LET join(t, o) ==
            LET buddy == Buddy(t.index, o)
            IN IF t.order # o \/ buddy \notin DOMAIN t.s.control THEN t
               ELSE IF ~ IsFree(t.s, buddy, o) THEN t
               ELSE [s |-> Unlink(t.s, buddy, o), order |-> o + 1,
                     index |-> IF buddy < t.index THEN buddy ELSE t.index]
        joined == FoldLeft(join, [s |-> s, index |-> first, order |-> order],
                           [k \in 1 .. Levels - 1 - order |-> order + k - 1])
    IN Link(joined.s, joined.index, joined.order)

(* Partition::next, State::initialize: the whole arena as blocks, the      *)
(* largest first.                                                          *)
Partition(units) ==
    LET bit(o) == (units \div Width(o)) % 2 = 1
        above(o) == (units \div Width(o + 1)) * Width(o + 1)
    IN {<<above(o), o>> : o \in {k \in 0 .. Levels - 1 : bit(k)}}
NewArena(units) ==
    LET blocks == SetToSortSeq(Partition(units), LAMBDA x, y : x[1] < y[1])
        empty == [heads |-> [o \in 0 .. Levels - 1 |-> None],
                  mem |-> [c \in 0 .. units * Unit - 1 |-> Raw],
                  control |-> [u \in 0 .. units - 1 |-> 0],
                  refs |-> 1, held |-> TRUE]
    IN FoldLeft(LAMBDA s, b : Link(s, b[1], b[2]), empty, blocks)

------------------------------------------------------------------------------
(* Requests and headers. *)

(* Len::new, Len::order: the smallest order with room for the header.      *)
Bits(n) == CHOOSE k \in 0 .. n + 1 : 2 ^ k > n /\ \A j \in 0 .. k - 1 : 2 ^ j <= n
Larger(x, y) == IF x > y THEN x ELSE y
OrderOf(bytes) ==
    LET order == Bits(Larger(bytes + Header - 1, Unit - 1)) - Bits(Unit) + 1
    IN IF order > MaxOrder THEN None ELSE order

(* Block::write: the header of a live block, with its owner and order.     *)
Write(s, index, owner, order) ==
    [s EXCEPT !.mem[Cell(index)] = <<"header", owner, order>>]
OrderAt(s, index) == s.mem[Cell(index)][3]

(* What SQLite does with the cells it gets (external).                     *)
Fill(s, index, h, from, order) ==
    [s EXCEPT !.mem = [c \in DOMAIN @ |->
        IF c - Cell(index) \in from .. Payload(order) THEN <<"data", h, c - Cell(index)>> ELSE @[c]]]

(* The payload of one block copied to another.                             *)
Copy(s, old, index, order) ==
    [s EXCEPT !.mem = [c \in DOMAIN @ |->
        IF c - Cell(index) \in 1 .. Payload(order) THEN @[Cell(old) + c - Cell(index)] ELSE @[c]]]

(* Vacant::publish.                                                        *)
Publish(s, index, a, order) ==
    [Write(s, index, a, order) EXCEPT !.refs = @ + 1]

(* Vacant::replace: the old block is recycled behind the copy.             *)
Replace(s, index, a, order, old) ==
    LET before == OrderAt(s, old)
    IN Recycle(Copy(Write(s, index, a, order), old, index, before), old, before)

(* Occupied::grow_adjacent: every sibling on the way up to the order asked *)
(* for is free, so the block takes them all; its payload moves when it is  *)
(* not the first.                                                          *)
Base(index, order) == (index \div Width(order)) * Width(order)
Sibling(index, order) == Base(Buddy(Base(index, order), order), order)
(* Mutant: only the first sibling is asked.                                *)
AdjacentFirst(s, units, index, order) ==
    LET before == OrderAt(s, index)
    IN /\ Width(order) <= units - Base(index, order)
       /\ IsFree(s, Sibling(index, before), before)
Adjacent(s, units, index, order) ==
    LET before == OrderAt(s, index)
    IN /\ Width(order) <= units - Base(index, order)
       /\ \A o \in before .. order - 1 : IsFree(s, Sibling(index, o), o)
GrowAdjacent(s, a, index, order) ==
    LET before == OrderAt(s, index)
        base == Base(index, order)
        taken == FoldLeft(LAMBDA t, o : Unlink(t, Sibling(index, o), o), s,
                          [k \in 1 .. order - before |-> before + k - 1])
        headed == Write(taken, base, a, order)
    IN IF base = index THEN headed ELSE Copy(headed, index, base, before)

(* Occupied::grow, as [s, index]; the old block stays when there is none.  *)
Grow(s, a, units, index, order) ==
    IF Adjacent(s, units, index, order)
    THEN [s |-> GrowAdjacent(s, a, index, order), index |-> Base(index, order)]
    ELSE LET found == Reserve(s, order)
         IN IF found.index = None THEN [s |-> s, index |-> None]
            ELSE [s |-> Replace(found.s, found.index, a, order, index), index |-> found.index]

(* State::release, Occupied::release: the last owner takes the backing,    *)
(* and the block is recycled only while there is one left.                 *)
DropRef(s) == [s EXCEPT !.refs = @ - 1, !.held = s.refs > 1]
Release(s, index) ==
    LET t == DropRef(s) IN IF t.held THEN Recycle(t, index, OrderAt(s, index)) ELSE t

------------------------------------------------------------------------------
HeapInit ==
    /\ plan \in Plans /\ \A a \in Arenas : Admitted(plan[a])
    /\ arena = [a \in Arenas |-> NewArena(Units(a))]
    /\ lease = [a \in Arenas |-> "idle"]
    /\ current = None
    /\ block = [h \in Handles |-> NoBlock]

Held(h, a) == block[h].owner = a
Fresh(h) == Held(h, None) /\ \A g \in 1 .. h - 1 : ~ Held(g, None)

(* hooks::malloc under Origin::Core: Scope::allocate refuses when this     *)
(* worker has no arena.                                                    *)
Malloc(h, bytes) ==
    LET order == OrderOf(bytes) IN
    /\ Fresh(h) /\ bytes > 0
    /\ current # None /\ order # None
    /\ LET found == Reserve(arena[current], order) IN
       /\ found.index # None
       /\ arena' = [arena EXCEPT ![current] =
                       Fill(Publish(found.s, found.index, current, order),
                            found.index, h, 1, order)]
       /\ block' = [block EXCEPT ![h] =
                       [owner |-> current, index |-> found.index, bytes |-> bytes]]
    /\ UNCHANGED <<plan, lease, current>>

(* hooks::malloc inside foreign(): the allocator of the process (external),*)
(* which also keeps the sizes of its blocks and resizes them.              *)
MallocForeign(h) ==
    /\ Fresh(h)
    /\ block' = [block EXCEPT ![h] = [owner |-> Foreign, index |-> 0, bytes |-> 0]]
    /\ UNCHANGED <<plan, arena, lease, current>>

(* hooks::free: the header tells the owner, whatever the scope is now.     *)
Free(h) ==
    /\ ~ Held(h, None)
    /\ arena' = IF Held(h, Foreign) THEN arena
                ELSE [arena EXCEPT ![block[h].owner] = Release(@, block[h].index)]
    /\ block' = [block EXCEPT ![h] = NoBlock]
    /\ UNCHANGED <<plan, lease, current>>

(* hooks::realloc, Block::resize: nothing to do while the block has room.  *)
ReallocInPlace(h, bytes) ==
    /\ block[h].owner \in Arenas /\ bytes > 0
    /\ bytes <= Payload(OrderAt(arena[block[h].owner], block[h].index))
    /\ block' = [block EXCEPT ![h].bytes = Larger(@, bytes)]
    /\ UNCHANGED <<plan, arena, lease, current>>
Realloc(h, bytes) ==
    LET a == block[h].owner
        before == OrderAt(arena[a], block[h].index)
        order == OrderOf(bytes) IN
    /\ a \in Arenas
    /\ bytes > Payload(before) /\ order # None
    /\ LET grown == Grow(arena[a], a, Units(a), block[h].index, order) IN
       /\ grown.index # None
       /\ arena' = [arena EXCEPT ![a] =
                       Fill(grown.s, grown.index, h, Payload(before) + 1, order)]
       /\ block' = [block EXCEPT ![h].index = grown.index, ![h].bytes = bytes]
    /\ UNCHANGED <<plan, lease, current>>

(* Local::lease, Scope::enter: the target is taken even when the worker's  *)
(* allocator is occupied.                                                  *)
Enter(a) ==
    /\ lease[a] = "idle"
    /\ IF current = None
       THEN lease' = [lease EXCEPT ![a] = "entered"] /\ current' = a
       ELSE lease' = [lease EXCEPT ![a] = "left"] /\ UNCHANGED current
    /\ UNCHANGED <<plan, arena, block>>

(* Owned::finish: the connection is closed, then the scope ends.           *)
Finish(a) ==
    /\ lease[a] = "entered"
    /\ lease' = [lease EXCEPT ![a] = "left"]
    /\ current' = None
    /\ UNCHANGED <<plan, arena, block>>

(* The local state is dropped: Owned::retire ends a scope that was left    *)
(* open, then Retained gives up the runtime's reference.                   *)
DropLocal(a) ==
    /\ lease[a] # "dropped"
    /\ lease' = [lease EXCEPT ![a] = "dropped"]
    /\ current' = IF lease[a] = "entered" THEN None ELSE current
    /\ arena' = [arena EXCEPT ![a] = DropRef(@)]
    /\ UNCHANGED <<plan, block>>

HeapNext ==
    \/ \E h \in Handles, n \in Sizes :
          Malloc(h, n) \/ ReallocInPlace(h, n) \/ Realloc(h, n)
    \/ \E h \in Handles : MallocForeign(h) \/ Free(h)
    \/ \E a \in Arenas : Enter(a) \/ Finish(a) \/ DropLocal(a)

HeapSpec == HeapInit /\ [][HeapNext]_heapVars

------------------------------------------------------------------------------
(* Properties *)

Extent(index, order) == index .. index + Width(order) - 1
FreeBlocks(a) ==
    {b \in (0 .. Units(a) - 1) \X (0 .. Levels - 1) : IsFree(arena[a], b[1], b[2])}
LiveBlocks(a) ==
    {<<block[h].index, OrderAt(arena[a], block[h].index)>> : h \in {g \in Handles : Held(g, a)}}

(* Every unit of an arena is in one block, free or live, and every block   *)
(* is aligned to its size; no two free buddies are left apart.  The        *)
(* unchecked indexes of the allocator rest on it.  (heap/raw/mod.rs,       *)
(* heap/raw/block.rs)                                                      *)
Tiled(a) ==
    LET blocks == FreeBlocks(a) \cup LiveBlocks(a) IN
    /\ \A u \in 0 .. Units(a) - 1 :
          Cardinality({b \in blocks : u \in Extent(b[1], b[2])}) = 1
    /\ \A b \in blocks : b[1] % Width(b[2]) = 0 /\ b[1] + Width(b[2]) <= Units(a)
    /\ \A b \in FreeBlocks(a) : <<Buddy(b[1], b[2]), b[2]>> \notin FreeBlocks(a)
    /\ Cardinality(LiveBlocks(a)) = Cardinality({h \in Handles : Held(h, a)})

(* The list of each order holds the free blocks of that order and ends,    *)
(* read forwards, and each block knows the one before it.                  *)
(* (State::link, State::unlink)                                            *)
Listed(a) ==
    \A o \in 0 .. Levels - 1 :
        LET s == arena[a]
            free == {b[1] : b \in {x \in FreeBlocks(a) : x[2] = o}}
            walk == FoldLeft(LAMBDA seen, k :
                        LET at == IF seen = <<>> THEN s.heads[o] ELSE s.mem[Cell(Last(seen))][3]
                        IN IF at \in free /\ ~ \E i \in DOMAIN seen : seen[i] = at
                           THEN Append(seen, at) ELSE seen,
                        <<>>, [k \in 1 .. Cardinality(free) |-> k])
        IN /\ Len(walk) = Cardinality(free)
           /\ walk = <<>> => s.heads[o] = None
           /\ \A i \in DOMAIN walk :
                 /\ s.mem[Cell(walk[i])][2] = IF i = 1 THEN None ELSE walk[i - 1]
                 /\ i = Len(walk) => s.mem[Cell(walk[i])][3] = None

(* Whatever is allocated, grown, moved and freed around it, an allocation  *)
(* has the cells that were asked for, with what was stored in them, and a  *)
(* header that names its owner.  (hooks.rs, block.rs)                      *)
Kept(h) ==
    block[h].owner \in Arenas =>
        LET s == arena[block[h].owner]
            cell == Cell(block[h].index)
        IN /\ s.mem[cell][1] = "header" /\ s.mem[cell][2] = block[h].owner
           /\ OrderAt(s, block[h].index) \in 0 .. MaxOrder
           /\ block[h].bytes <= Payload(OrderAt(s, block[h].index))
           /\ \A j \in 1 .. Payload(OrderAt(s, block[h].index)) :
                 s.mem[cell + j] = <<"data", h, j>>

(* An arena is referenced by its allocations and by the local state, and   *)
(* its backing is given back with the last of them, once: an allocation    *)
(* that outlives its scope or its installation is still in memory that is  *)
(* there.  (State::release, Retained)                                      *)
Counted(a) ==
    /\ arena[a].refs = Cardinality({h \in Handles : Held(h, a)})
                       + IF lease[a] = "dropped" THEN 0 ELSE 1
    /\ arena[a].held <=> arena[a].refs > 0

(* New allocations go to the arena whose installation is open.  (Scope)    *)
Scoped == \A a \in Arenas : current = a <=> lease[a] = "entered"

(* The spans of a backing allocation follow each other without overlap,    *)
(* each aligned and as large as was planned, and what is allocated is what *)
(* Memory::reservation announces.  (Memory::admit, Memory::new)            *)
Placed(p) ==
    LET s == Spans(p)
        order == <<"phase", "sqlite", "results", "slots", "aside", "end">>
        wanted == [phase |-> p.phase, sqlite |-> p.sqlite + p.prefix, results |-> p.results,
                   slots |-> p.slots, aside |-> p.aside, end |-> 0]
    IN /\ \A i \in 1 .. 5 : s[order[i]][1] + wanted[order[i]] <= s[order[i + 1]][1]
       /\ \A i \in 1 .. 6 : /\ s[order[i]][1] % Align = 0
                            /\ wanted[order[i]] <= s[order[i]][2]
       /\ s.end[1] = Backing(p) /\ s.end[1] <= Word

(* The memory of a worker.                                                 *)
HeapSound ==
    /\ \A a \in Arenas : Counted(a) /\ Placed(plan[a])
    /\ \A a \in Arenas : arena[a].held => Tiled(a) /\ Listed(a)
    /\ \A h \in Handles : Kept(h)
    /\ Scoped
=============================================================================
