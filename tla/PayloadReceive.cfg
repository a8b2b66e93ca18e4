SPECIFICATION RecvFairSpec
CONSTANTS
    Transfer = {t1, t2}
    Name = {n1}
    MaxSize = 1
    NoSize = NoSize
    MaxSuffix = 1
    RecentCap = 1
INVARIANTS
    PublishedIsWhole
    TempOnlyWhileActive
    ListedResultIsTrue
PROPERTIES
    ResultIsFinal
    NothingIsOverwritten
    ReceivingEnds
