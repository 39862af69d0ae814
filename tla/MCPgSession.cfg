CONSTANTS
    Conns = {c1, c2, c3}  Keys = {k1, k2, k3}
    Lanes = 1  Caches = 1  Slices = 2  MaxCancels = 1
    Queries <- MCQueries  DynamicLtree = TRUE  MaxLives = 2
    TxFibers = {f1, f2}  TxConns = {c1}  NoFiber = NoFiber  Room = 1  TxEvents = 2
SPECIFICATION SessionSpec
INVARIANTS EntriesSound TurnsKept StartupSound TxSound
PROPERTIES CauseKept WaitsEnd
CHECK_DEADLOCK FALSE
