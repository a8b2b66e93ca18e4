SPECIFICATION WindowSpec
CONSTANTS
    Thread = {t1, t2}
    NewChat = NewChat
    NewFor = t1
    NoThread = NoThread
    NoCache = NoCache
    MaxClock = 3
    RequestCap = 1
    WireCap = 1
    LastFailure = 3
    EchoWindow = 4
    DesktopAhead = 1
    PhoneAhead = 0
    InboxCap = 2
INVARIANTS
    WindowInv
    ShownOnce
    ThreadIsComplete
PROPERTIES
    SavedSmsAreKept
