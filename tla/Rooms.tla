------------------------------- MODULE Rooms -------------------------------
(***************************************************************************)
(* The room registry of the signaling server (crates/server/src/rooms.rs). *)
(*                                                                         *)
(* A registry is a record of the two hash maps of RoomRegistry, each a     *)
(* function whose domain is the set of keys present: rooms maps a room id  *)
(* to the Vec of its peers, peer_room is the reverse index.                *)
(* last_activity_ms is written and never read (reap_idle is a stub), so a  *)
(* room is just its peers.                                                 *)
(***************************************************************************)
EXTENDS Collections

CONSTANTS Peer, Room, NoPeer

(* RoomRegistry::new. *)
EmptyRegistry == [rooms |-> [r \in {} |-> <<>>], peer_room |-> [p \in {} |-> {}]]

Members(reg, r) == {reg.rooms[r][i] : i \in 1..Len(reg.rooms[r])}

(* Mutant: the reverse index is forgotten. *)
CreateNoIndex(reg, p, r) == [reg EXCEPT !.rooms = Put(reg.rooms, r, <<p>>)]

(* RoomRegistry::create: whatever the map held under r is replaced. *)
Create(reg, p, r) ==
    [rooms |-> Put(reg.rooms, r, <<p>>), peer_room |-> Put(reg.peer_room, p, r)]

Contains(reg, r) == r \in DOMAIN reg.rooms

(* Mutant: the capacity check off by one. *)
JoinOutcomeThree(reg, r) ==
    CASE ~Contains(reg, r)         -> "NotFound"
      [] Contains(reg, r) /\ Len(reg.rooms[r]) > 2 -> "Full"
      [] OTHER                     -> "Joined"

(* RoomRegistry::join: its outcome, and the registry it leaves behind. *)
JoinOutcome(reg, r) ==
    CASE ~Contains(reg, r)         -> "NotFound"
      [] Contains(reg, r) /\ Len(reg.rooms[r]) >= 2 -> "Full"
      [] OTHER                     -> "Joined"

(* Mutant: the reverse index is written before the outcome is known. *)
JoinIndexFirst(reg, p, r) ==
    [rooms |-> IF JoinOutcome(reg, r) = "Joined"
               THEN Put(reg.rooms, r, Append(reg.rooms[r], p)) ELSE reg.rooms,
     peer_room |-> Put(reg.peer_room, p, r)]

Join(reg, p, r) ==
    IF JoinOutcome(reg, r) = "Joined"
    THEN [rooms |-> Put(reg.rooms, r, Append(reg.rooms[r], p)),
          peer_room |-> Put(reg.peer_room, p, r)]
    ELSE reg

(* Mutant: the first peer, whoever it is. *)
FirstPeer(s, p) == IF s = <<>> THEN NoPeer ELSE s[1]

(* The first peer of s other than p: peers.iter().find(|&q| q != p). *)
FirstOther(s, p) ==
    LET others == {i \in 1..Len(s) : s[i] # p}
    IN  IF others = {} THEN NoPeer
        ELSE s[CHOOSE i \in others : \A j \in others : i <= j]

(* RoomRegistry::partner. *)
Partner(reg, p) ==
    IF p \in DOMAIN reg.peer_room /\ reg.peer_room[p] \in DOMAIN reg.rooms
    THEN FirstOther(reg.rooms[reg.peer_room[p]], p)
    ELSE NoPeer

(* RoomRegistry::remove: the registry afterwards.  The peer to notify is   *)
(* the first one left in the room, which is Partner(reg, p) beforehand.  A *)
(* room never lists a peer twice (RegistryConsistent in Server), so retain *)
(* takes at most one element out.                                          *)
Remove(reg, p) ==
    IF p \notin DOMAIN reg.peer_room THEN reg
    ELSE LET r == reg.peer_room[p]
             index == Drop(reg.peer_room, p)
         IN  IF r \notin DOMAIN reg.rooms
             THEN [rooms |-> reg.rooms, peer_room |-> index]
             ELSE LET left == Retain(reg.rooms[r], p)
                  IN  [rooms |-> IF left = <<>> THEN Drop(reg.rooms, r)
                                 ELSE [reg.rooms EXCEPT ![r] = left],
                       peer_room |-> index]

=============================================================================
