SPECIFICATION WindowSpec
CONSTANTS
    Plugin <- MCPlugin
    Gated <- MCPlugin
    Announced <- MCNone
    Seed <- MCNone
    Conn = {}
    NoConn = NoConn
    DiskMayFail = FALSE
    ClickCap = 2
    FetchCap = 2
INVARIANT SettingsInv
PROPERTY ClickTakesEffect
