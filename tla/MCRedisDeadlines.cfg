CONSTANTS
    r1 = r1  r2 = r2  r3 = r3  z1 = z1
    p1 = p1  p2 = p2  x1 = x1  l1 = l1  l2 = l2  w1 = w1
    Conns = 1
    MaxGen = 2
    Inflight = 2
    Commands = {p1, p2, x1}
    Leases = {l1}
    Rogue = FALSE
    Target <- MCTarget
    Watchers = {}
    WaitCap = 2
    MaxFaults = 0
    MaxDrops = 0
    Expiry = TRUE
SPECIFICATION DeadlinesSpec
PROPERTIES WaitingEnds
CHECK_DEADLOCK FALSE
