SPECIFICATION StraySpec
CONSTANTS
    a1 = a1  a2 = a2  b1 = b1
    Conns = 1
    MaxGen = 2
    Wrap = 3
    Batches = 3
    Buckets = 2
    Inflight = 2
    Queued = 1
    Calls = {c1}
    Txs = {t1, t2}
    Stray = TRUE
    Rogue = FALSE
SYMMETRY StraySymmetry
INVARIANTS TxIsolation HoldersAgree UnaskedExact
CHECK_DEADLOCK FALSE
