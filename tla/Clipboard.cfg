SPECIFICATION ClipSpec
CONSTANTS
    Seat = {s1, s2}
    Text = {old, a, b, pw}
    Secret = {pw}
    Old = old
    NoText = NoText
    InboxCap = 2
    ReadCap = 2
    EventCap = 1
SYMMETRY Symmetry
INVARIANTS
    ClipInv
    PrivateStaysHome

    
