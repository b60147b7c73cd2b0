SPECIFICATION Spec
CONSTANTS
    A = A
    B = B
    F1 = F1
    F2 = F2
    F3 = F3
    F4 = F4
    F5 = F5
    R = R
    P = P
    Q = Q
    S = S
    T = T
    NoFrame = NoFrame
    NoPage = NoPage
    NoNode = NoNode
    NoThread = NoThread
    Threads = {A, B}
    Frames <- MCFrames
    Pages <- MCPages
    Inner <- MCInner
    Root = R
    MinEdges = 2
    StallLimit = 3
    MaxVisits = 5
    MaxRestarts = 1
    Modes <- MCShared
INVARIANTS
    HotChildIsResident
    DescentReachesItsPage
    WritebackKeepsTheTree
