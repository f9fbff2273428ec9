SPECIFICATION Spec
CONSTANTS
    ann = ann
    bob = bob
    Users <- MCUsers
    Prices <- MCPrices
    MaxQty = 2
    NoOrder = NoOrder
    Funds <- MCFunds
    Requests <- MCRequests
    MaxOrders = 3
    Scale = 1
INVARIANTS
    NoStuckLockedFunds
CHECK_DEADLOCK FALSE
