SPECIFICATION EventsSpec
CONSTANTS
    Player = {spotify}
    Note <- MCNote
    Content <- MCContent
    Sent <- MCSent
    NoContent = NoContent
    MaxTracked = 2
PROPERTY PausedAreResumed
