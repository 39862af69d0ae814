CONSTANTS
    Pieces <- MCPieces
    MaxFrame = 13
    MaxValues = 3
    MaxDepth = 2
    IntMax = 11
    WordMax = 11
    MaxPieces = 4
SPECIFICATION AlgorithmsSpec
CHECK_DEADLOCK FALSE
INVARIANTS QueriesExact ScanExact TextsExact ExchangeExact
