SPECIFICATION Spec
CONSTANTS
    Peer = {p1, p2, p3}
    Room = {r1}
    Ip = {a}
    IpOf <- OneAddress
    NoPeer = NoPeer
    NoRoom = NoRoom
    Window = 1
    MaxFailures = 9
    MaxTime = 0
    MaxRelays = 0
    Losses = {"closed", "vanished"}
    Leaver = p1
    Stayer = p2
SYMMETRY Symmetry
INVARIANT NoEviction
CHECK_DEADLOCK FALSE
