SPECIFICATION Spec
CONSTANTS
    A = A
    B = B
    Threads <- MCThreads
    Keys <- MCKeys
    Pages <- MCPages
    PageOf <- MCPageOf
    Root = 1
    Modes <- MCCheckpointRace
INVARIANT PromisedIsRecoverable
