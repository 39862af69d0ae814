CONSTANTS
    p1 = p1  p2 = p2  x1 = x1  l1 = l1  l2 = l2  w1 = w1
    Conns = 2
    MaxGen = 2
    Inflight = 1
    Commands = {p1, x1}
    Leases = {l1}
    Rogue = FALSE
    Target <- MCTarget
    Watchers = {w1}
    WaitCap = 1
    MaxFaults = 2
    MaxDrops = 1
    Expiry = TRUE
SPECIFICATION ClientSpec
INVARIANTS NoLostWakeup RepliesSound
CHECK_DEADLOCK FALSE
