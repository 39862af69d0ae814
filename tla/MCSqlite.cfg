CONSTANTS
    MaxSave = 3
    Writes = {w1, w2}
    Limits <- MCLimits  Commands = 1  Controls = 1  Items = 3  StmtBytes = 3
    ScanRows = 2  MaxCalls = 3
SPECIFICATION SqliteSpec
INVARIANTS WorkSound InstallSound HeapSound
PROPERTIES Refines Fates WorkEnds
CHECK_DEADLOCK FALSE
