CONSTANTS
    r1 = r1  r2 = r2  r3 = r3  z1 = z1
    Slots = 5
    Failure = {f1, f2}
    Conns = {c1, c2, c3}
    Lanes = 2
    FrameValues = 2
    Retained = 2
    Commands = 2
    Strays = 1
    MaxLives = 1
    Reservers = {r1, r2, r3}
    Sized = {z1}
    Frames = 2
    Weight <- MCWeight
    Word = 3
    MaxDowns = 1
SPECIFICATION SessionSpec
INVARIANTS FirstLowest LanesExact NoLostGrant NodesExact FramesExact
PROPERTIES WireSound
CHECK_DEADLOCK FALSE
