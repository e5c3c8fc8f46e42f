\* Finding: a sale after update_grid is paired with another lot, or with none.
SPECIFICATION Spec
CONSTANTS
    Prices <- MCPrices
    GridFor <- MCGridFor
    Reshapes <- MCReshapes
    OrderSizes = {6, 12}
    Fee = 1
    MaxCapital = 24
    MaxDailyLoss = 4
    ProbeRungs = 2
    Traders = 1
    MaxTrades = 4
    LastDay = 1
INVARIANTS
    UpdatesKeepThePairs
