SPECIFICATION FairSpec
CONSTANTS
    Peer = {p1, p2, p3}
    Room = {r1}
    Ip = {a}
    IpOf <- OneAddress
    NoPeer = NoPeer
    NoRoom = NoRoom
    Window = 1
    MaxFailures = 3
    MaxTime = 0
    MaxRelays = 0
    Losses = {"closed"}
    Leaver = p1
    Stayer = p2
PROPERTIES Matches RoommatesIntroduced RoommateToldOfDeparture RequestSettled
CHECK_DEADLOCK FALSE
