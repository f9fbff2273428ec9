SPECIFICATION Spec
CONSTANTS
  o1 = o1
  o2 = o2
  o3 = o3
  OrderIds <- ThreeOrders
  Requests <- LimitRequests
  Stamps = {1}
  MaxCancels = 0
  MaxTerm = 2
  MaxDuplicates = 0
SYMMETRY Symmetry
CHECK_DEADLOCK FALSE
INVARIANTS
  GivingUpIsSafe
