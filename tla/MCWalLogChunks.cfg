SPECIFICATION Spec
CONSTANTS
    A = A
    B = B
    Threads <- MCThreads
    Pages <- MCPages
    Modes <- MCChunkRace
    PackCap = 2
    Chunks = 2
INVARIANT SurvivorsAreReplayed
