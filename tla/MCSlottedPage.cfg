SPECIFICATION Spec
CONSTANTS
    PageSize = 6
    Suffix = 1
    HeadLen = 1
    FixedLen = 1
    MaxRanges = 2
    MaxOps = 2
    Pairs <- MCPairs
    Links <- MCLinks
INVARIANTS
    LiveDataIsApart
    PageHoldsTheMap
    LowerBoundIsExact
    PatchReproducesThePage
