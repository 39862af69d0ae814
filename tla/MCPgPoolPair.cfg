SPECIFICATION PairSpec
CONSTANTS
    c3 = c3
    Conns = 1
    MaxGen = 1
    Wrap = 3
    Batches = 3
    Buckets = 2
    Inflight = 3
    Queued = 2
    Calls = {c1, c2}
    Txs = {t1, t2}
    Stray = FALSE
    Rogue = FALSE
SYMMETRY Symmetry
INVARIANTS SyncsCounted Understood PoolExact PairExact
CHECK_DEADLOCK FALSE
