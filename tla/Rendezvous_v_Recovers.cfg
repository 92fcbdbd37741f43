SPECIFICATION Spec
CONSTANTS
    Tab = {t1, t2}
    Room = {r1, r2, r3, r4, r5}
    Peer = {1, 2, 3, 4, 5, 6}
    NoPeer = 0
    NoRoom = NoRoom
    Faults = {"restart"}
    Alone = {}
    MaxFaults = 1
INVARIANT PairRecovers
CHECK_DEADLOCK FALSE
