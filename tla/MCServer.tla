------------------------------ MODULE MCServer ------------------------------
(* Small instances of Server for TLC. *)
EXTENDS Server, TLC

(* The two connections the liveness run watches; nothing tells one         *)
(* connection from another, so they stand for every pair.                  *)
CONSTANTS Leaver, Stayer

(* Nothing tells one connection from another; used in the safety runs. *)
Symmetry == Permutations(Peer)

(* All connections from one address, as behind a NAT. *)
OneAddress == [p \in Peer |-> CHOOSE ip \in Ip : TRUE]

(* One connection from elsewhere, and what it leaves of the symmetry. *)
TwoAddresses ==
    LET here == CHOOSE ip \in Ip : TRUE
        away == CHOOSE ip \in Ip \ {here} : TRUE
    IN  [p \in Peer |-> IF p = Leaver THEN away ELSE here]
SymmetryHere == Permutations(Peer \ {Leaver})

(* Two roommates that stay are introduced by a PeerJoined to one of them   *)
(* (ws.rs 218-228).                                                        *)
RoommatesIntroduced == PairIntroduced(Leaver, Stayer)

(* The roommate of a tab that closes is sent PeerLeft (ws.rs 145-153). *)
RoommateToldOfDeparture == DepartureTold(Leaver, Stayer)
=============================================================================
