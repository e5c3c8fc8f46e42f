SPECIFICATION Spec
CONSTANTS
    Rungs <- MCRungs
    NoRung = none
    OrderSize = 12
    WrapSize = 1
    Spots <- MCSpots
    Slippage = 25
    Gas = 1
    Reserve = 2
    FirstLots <- MCFirstLots
    FirstBase = 4
    FirstQuote = 24
    FirstNative = 6
    MaxNonce = 4
    MaxForeign = 1
INVARIANTS
    TypeOK
    LedgerIsCovered
    EachBuyHasItsApproval
    OwnNoncesNeverClash
    ReserveIsKept
PROPERTY ImplementsPromise
