SPECIFICATION Spec
CONSTANTS
    Cert = {x1, x2}
    NoCert = NoCert
    Device = {d1}
    Conn = {c1, c2}
    NoConn = NoConn
    DiskMayFail = TRUE
    TransportCap = 1
    EventCap = 2
    UiCap = 1
SYMMETRY Symmetry
INVARIANTS
    TypeOK
    MemoryAgreesWithFile
    EntriesAreSound
    PendingIsFromThisExchange
PROPERTIES
    EffectOnlyUnderTrust
    StaleEventKeepsLiveEntry
    ImplementsTrust
