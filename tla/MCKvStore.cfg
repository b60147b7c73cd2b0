SPECIFICATION FairSpec
CONSTANTS
    A = A
    B = B
    Threads <- MCThreads
    Keys <- MCKeys
    Pages <- MCPages
    PageOf <- MCPageOf
    Root = 1
    Modes <- MCModes
INVARIANTS
    WalBeforeData
    PromisedIsRecoverable
PROPERTIES
    ImplementsDurableStore
    CallsAndRecoveryFinish
