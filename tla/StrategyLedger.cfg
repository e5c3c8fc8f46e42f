\* Every operation on the ledger and every fault, up to the first damage.
SPECIFICATION Spec
CONSTANTS
    Procs = {p1, p2}
    None = None
    Prices <- MCPrices
    GridFor <- MCGridFor
    Reshapes <- MCReshapes
    OrderSize = 1
    MaxCapital = 2
    Proceeds = {1}
    MaxWbnb = 2
    MaxLate = 1
    Ops <- LedgerOps
SYMMETRY Symmetry
CONSTRAINT UntilDamaged
INVARIANTS
    TypeOK
    OneTraderAtATime
    LedgerMatchesWallet
PROPERTY ImplementsLotBook
