SPECIFICATION PhonePlayersSpec
CONSTANTS
    Name = {n1}
    Art = {a, b}
    None = None
    FlightCap = 4
SYMMETRY Symmetry
INVARIANTS
    PhonePlayersInv
    ProxyAgrees
    ArtIsShownOrComing
