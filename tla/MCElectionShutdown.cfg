CONSTANTS
    Instances = {m1}
    Nobody = Nobody
    MaxToken = 1
    MaxSent = 1
SPECIFICATION FairSpec
PROPERTIES
    ShutdownCompletes
