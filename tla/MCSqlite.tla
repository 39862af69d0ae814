------------------------------ MODULE MCSqlite ------------------------------
(* A SQLite connection: its transactions and their deferred cleanup, its   *)
(* opening and the retries of its calls, or the memory of its worker.  A   *)
(* behaviour is about one.                                                 *)
EXTENDS SqliteWork, SqliteInstall

VARIABLES
    plan, arena, lease, current, block,
    part       \* "work", "install" or "heap"

MCLimits ==
    [Open |-> [retries |-> 2, window |-> 2, delay |-> 1, quota |-> 30],
     Call |-> [retries |-> 2, window |-> 2, delay |-> 0, quota |-> 3]]

heapVars == <<plan, arena, lease, current, block>>

(* A first arena of five units, two blocks, and a second one of two.       *)
MCPlan(sqlite, results) ==
    [phase |-> 5, prefix |-> 8, sqlite |-> sqlite, results |-> results, slots |-> 3,
     aside |-> 1, statements |-> 2, cache |-> 2]

Heap == INSTANCE SqliteHeap WITH
    Arenas <- {1, 2}, Plans <- {<<MCPlan(16, 6), MCPlan(8, 7)>>}, MaxBlocks <- 3,
    Sizes <- {1, 2, 7}, MaxOrder <- 2, Levels <- 4, Unit <- 2, Header <- 1, Align <- 4,
    Word <- 60

SqliteInit ==
    /\ Init
    /\ InstallInit
    /\ Heap!HeapInit
    /\ part \in {"work", "install", "heap"}
    /\ part # "install" => target = [file |-> FALSE, wal |-> FALSE]
    /\ part # "install" => report = <<>>

WorkStep == part = "work" /\ Next /\ UNCHANGED <<part, installVars, heapVars>>
InstallStep ==
    part = "install" /\ InstallNext /\ UNCHANGED <<part, vars, heapVars>>
HeapStep == part = "heap" /\ Heap!HeapNext /\ UNCHANGED <<part, vars, installVars>>

SqliteNext == WorkStep \/ InstallStep \/ HeapStep

SqliteSpec == SqliteInit /\ [][SqliteNext]_<<part, vars, installVars, heapVars>>

-----------------------------------------------------------------------------
(* Properties *)

(* Blocks tile their arena, free lists are whole, allocations keep what    *)
(* was stored in them through growth and the frees around them, and an     *)
(* arena lives as long as an allocation or an installation needs it.       *)
HeapSound == Heap!HeapSound

(* If the executor parks the application while there is progress to make,  *)
(* owed cleanup ends and a closing connection retires; if the owner of a   *)
(* call is polled and the clock goes on, contention ends.                  *)
WorkEnds ==
    /\ ParkFairness => CleanupEnds
    /\ InstallFairness => InstallEnds
=============================================================================
