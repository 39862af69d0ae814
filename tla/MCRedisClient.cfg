CONSTANTS
    p1 = p1  p2 = p2  x1 = x1  l1 = l1  l2 = l2  w1 = w1
    Conns = 1
    MaxGen = 2
    Inflight = 1
    Commands = {p1, p2, x1}
    Leases = {l1, l2}
    Rogue = FALSE
    Target <- MCTarget
    Watchers = {w1}
    WaitCap = 3
    MaxFaults = 1
    MaxDrops = 0
    Expiry = FALSE
SPECIFICATION ResponsiveSpec
PROPERTIES FibersEnd
CHECK_DEADLOCK FALSE
