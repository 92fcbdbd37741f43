SPECIFICATION FairSpec
CONSTANTS
    Tab = {t1, t2}
    Room = {r1, r2, r3, r4, r5}
    Peer = {1, 2, 3, 4, 5, 6}
    NoPeer = 0
    NoRoom = NoRoom
    Faults = {"reload", "new", "drop"}
    Alone = {"code", "leave", "sleep", "closing", "connect", "restart", "build"}
    MaxFaults = 2
INVARIANTS TypeOK  WaitingIsFindable 
PROPERTIES LinkKept HandshakeSettles
CHECK_DEADLOCK FALSE
