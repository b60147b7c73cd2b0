CONSTANTS
    t1 = t1
    t2 = t2
    t3 = t3
    f1 = f1
    f2 = f2
    p1 = p1
    p2 = p2
    p3 = p3
    NoFrame = NoFrame
    NoPage = NoPage
    NoThread = NoThread
    Threads <- TwoThreads
    Fixers <- TwoThreads
    Frames <- TwoFrames
    Pages <- TwoPages
    FenceBelow = 0
    MaxWrites = 1
    Loads <- PagesExist
SYMMETRY Symmetry
SPECIFICATION Spec
INVARIANTS
    PinnedFrameStays
