\* The published figures and the guards that read them, all operations.
SPECIFICATION Spec
CONSTANTS
    Prices <- MCPrices
    GridFor <- MCGridFor
    Reshapes <- MCReshapes
    OrderSizes = {6, 12}
    Fee = 1
    MaxCapital = 24
    MaxDailyLoss = 4
    ProbeRungs = 2
    Traders = 2
    MaxTrades = 4
    LastDay = 1
CONSTRAINT UntilFullOrTangled
INVARIANTS
    TypeOK
    RoundTripsAreTrue
    DailyLossIsTrue
    ExposureIsBounded
    PerformanceIsEquity
    SweepIsFunded
PROPERTIES
    LosingDayIsOver
