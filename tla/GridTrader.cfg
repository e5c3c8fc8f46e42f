\* Safety and liveness of the trading rule, re-activation included.
SPECIFICATION Spec
CONSTANTS
    Prices <- MCPrices
    Configs <- MCConfigs
INVARIANTS
    TypeOK
    AnnouncedOrdersMirrorDecide
PROPERTIES
    FreshLotsAreSoldAboveCost
    TradesRunOut
    QuietMarketEndsTrading
    ReachedTargetsAreSold
