SPECIFICATION FairSpec
CONSTANTS
    Threads = {t1, t2}
    Words = {w1, w2}
    Values = {a, b}
    NoThread = NoThread
    NotRead = NotRead
    MaxVersion = 5
INVARIANTS
    ExclusiveIsAlone
    ValidatedReadsAreASnapshot
    ReleaseNeverOverflows
PROPERTIES
    UpgradeSeesItsSnapshot
    WaitersAreServed
