\* Finding: a step that is in flight saves over an emergency stop.
SPECIFICATION FairSpec
CONSTANTS
    Procs = {p1, p2}
    None = None
    Prices <- MCPrices
    GridFor <- MCGridFor
    Reshapes <- MCReshapes
    OrderSize = 1
    MaxCapital = 2
    Proceeds = {1}
    MaxWbnb = 2
    MaxLate = 1
    Ops <- LatchOps
PROPERTY OnlyResumeReleases
