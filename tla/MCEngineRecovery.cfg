SPECIFICATION Spec
CONSTANTS
  o1 = o1
  o2 = o2
  o3 = o3
  OrderIds <- TwoOrders
  Requests <- MCRequests
  Stamps = {1}
  MaxCancels = 1
  MaxTerm = 2
  MaxDuplicates = 1
SYMMETRY Symmetry
CHECK_DEADLOCK FALSE
INVARIANTS
  TypeOK
  TakesOnce
  FilledMatchesTrades
  CleanHandoversSafe
