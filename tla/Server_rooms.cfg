SPECIFICATION Spec
CONSTANTS
    Peer = {p1, p2, p3}
    Room = {r1}
    Ip = {a, b}
    IpOf <- TwoAddresses
    NoPeer = NoPeer
    NoRoom = NoRoom
    Window = 1
    MaxFailures = 1
    MaxTime = 1
    MaxRelays = 1
    Losses = {"vanished"}
    Leaver = p1
    Stayer = p2
SYMMETRY SymmetryHere
INVARIANTS OverdraftBounded TypeOK RegistryConsistent PendingUntouched NoCrosstalk
CHECK_DEADLOCK FALSE
