SPECIFICATION GateSpec
CONSTANTS
    Plugin <- MCPlugin
    Gated <- MCGated
    Announced <- MCAnnounced
    Seed <- MCSeed
    Conn = {c1, c2}
    NoConn = NoConn
    DiskMayFail = FALSE
SYMMETRY Symmetry
INVARIANTS
    GateFollowsUser
    ConnectedWasTold
PROPERTY WorkOnlyIfEnabled
