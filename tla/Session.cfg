SPECIFICATION FairSpec
CONSTANTS
    b1 = b1  b2 = b2  b3 = b3
    Browsers = {b1, b2, b3}
    LockTTL = 3
INVARIANTS TypeOK SharedOnlyIf
PROPERTIES BeatingKeepsOthersOut AccountFreed
