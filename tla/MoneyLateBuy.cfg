\* Finding: a step that passed the breaker buys after the day is lost.
SPECIFICATION Spec
CONSTANTS
    Prices <- MCPrices
    GridFor <- MCGridFor
    Reshapes <- MCReshapes
    OrderSizes = {6}
    Fee = 1
    MaxCapital = 24
    MaxDailyLoss = 4
    ProbeRungs = 2
    Traders = 2
    MaxTrades = 4
    LastDay = 0
INVARIANTS
    LosingDayStopsBuying
