SPECIFICATION Spec
CONSTANTS
    A = A
    B = B
    Threads <- MCThreads
    Pages <- MCPages
    Modes <- MCModes
    PackCap = 2
    Chunks = 2
INVARIANTS
    SurvivorsAreReplayed
    RecoveredPagesAreWhole
    LsnsAreFresh
    SurvivorsAreAnLsnPrefix
