CONSTANTS
    Services = {s1}
    OrderIds = {a}
    BatchSize = 2
    ChanSize = 1
    MaxEvents = 2
SPECIFICATION Spec
INVARIANTS
    PlacedBeforeCancel
CHECK_DEADLOCK FALSE
