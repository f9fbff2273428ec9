CONSTANTS
    Instances = {m1, m2}
    Nobody = Nobody
    MaxToken = 2
    MaxSent = 1
SPECIFICATION FairSpec
INVARIANTS
    TypeOK
    OneLeaderPerTerm
    TokenNamesTerm
    FencedWritesCurrent
PROPERTIES
    TokenNeverReused
    StepDownCompletes
    TakenOver
