CONSTANTS
    a1 = a1
    a2 = a2
    f1 = f1
    f2 = f2
    NoIP = NoIP
    NoFP = NoFP
    None = None
    IPs <- MC_IPs
    FPs <- MC_FPs
    MaxBlocks <- MC_MaxBlocks
    Encoding = "newlines"
SPECIFICATION Spec
CHECK_DEADLOCK FALSE
INVARIANT ExtractionMatchesSpec
