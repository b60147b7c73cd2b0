CONSTANTS
    A = A
    B = B
    Nobody = Nobody
    LeafCap = 3
    InnerCap = 3
    MaxTries = 1
    Threads <- MCThreads
    Keys <- MCKeys
    PageIds <- MCPages
    Workloads <- MCRestart
SPECIFICATION Spec
INVARIANT ResultsAreLinearizable
