SPECIFICATION FairSpec
CONSTANTS
    ann = ann
    bob = bob
    Users <- MCUsers
    Prices <- MCPrices
    MaxQty = 2
    NoOrder = NoOrder
    Funds <- MCFunds
    Requests <- MCRequests
    MaxOrders = 3
    Scale = 6
INVARIANTS
    TypeOK
    MoneyConserved
    LocksMatchOrders
    FilledMatchesTrades
    QuiescentAgreement
PROPERTIES
    ClosedStaysClosed
    CancelCompletes
CHECK_DEADLOCK FALSE
