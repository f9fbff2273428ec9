SPECIFICATION FairSpec
CONSTANTS
    Users = {ann, bob}
    Prices <- MCPrices
    MaxQty = 2
    NoOrder = NoOrder
    MaxOrders = 3
    Stamps = {1, 2}
INVARIANTS
    TypeOK
    PriceTimePriority
    NeverCrossed
    TradesAreFair
    OpenOnce
    QuantityConserved
PROPERTIES
    Refinement
    ProcessReturns
CHECK_DEADLOCK FALSE
