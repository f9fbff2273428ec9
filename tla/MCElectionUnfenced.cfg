CONSTANTS
    Instances = {m1, m2}
    Nobody = Nobody
    MaxToken = 2
    MaxSent = 1
SPECIFICATION Spec
INVARIANTS
    OldLeaderRejected
