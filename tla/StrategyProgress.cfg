\* The emergency stop through crashes and lost updates; every operation returns.
SPECIFICATION FairSpec
CONSTANTS
    Procs = {p1, p2}
    None = None
    Prices <- MCPrices
    GridFor <- MCGridFor
    Reshapes <- MCReshapes
    OrderSize = 1
    MaxCapital = 2
    Proceeds = {1}
    MaxWbnb = 2
    MaxLate = 1
    Ops <- LiveOps
INVARIANTS
    QuietStopIsAbsolute
    NoLotWithoutGrid
PROPERTIES
    EveryOperationReturns
    StopSilencesTrading
