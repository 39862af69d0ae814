CONSTANTS
    c1 = c1  c2 = c2  c3 = c3  l1 = l1  l2 = l2
    Conns = 2
    MaxGen = 2
    Inflight = 2
    Commands = {c1, c2, c3}
    Leases = {l1, l2}
    Rogue = FALSE
SPECIFICATION Spec
SYMMETRY CommandSymmetry
INVARIANTS Accounted FifoSound LeaseSafe SuffixOrder FatalFresh
PROPERTIES NoResurrection
