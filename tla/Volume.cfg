SPECIFICATION FairSpec
CONSTANTS
    Sink = {s1}
    Level = {lo}
    Thread = {t1, t2}
    NoThread = NoThread
    NoList = NoList
    QueueCap = 2
INVARIANTS
    VolumeInv
PROPERTY SupersededThreadExits
