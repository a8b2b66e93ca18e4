SPECIFICATION ListFairSpec
CONSTANTS
    Cert = {x1}
    NoCert = NoCert
    Device = {d1}
    Conn = {c1, c2}
    NoConn = NoConn
    NoDevice = NoDevice
    DiskMayFail = FALSE
    TransportCap = 1
    EventCap = 1
    UiCap = 1
INVARIANTS
    ListAgreesWithCore
    StatusGoesToReachable
PROPERTIES
    DeadEntryIsRemoved
    PairingGetsShown
