SPECIFICATION MountSpec
CONSTANTS
    Device = {d1, d2}
    NoDevice = NoDevice
    OldDevice = {d1}
    Task = {k1, k2}
    NoTask = NoTask
    Name = {n1, n2}
    NoPoint = NoPoint
    ShareCap = 2
    SlowDevice = {d1}
    LeftCap = 1
SYMMETRY Symmetry
INVARIANTS
    MountInv
PROPERTY OperationsExcludeEachOther
