------------------------------ MODULE Session ------------------------------
(***************************************************************************)
(* The reducer of the signaling handshake (crates/client/src/reconnect.rs).*)
(* An event and an action are named by their variants.  The payload of an  *)
(* action is always the room of the session after the step (SendJoin,      *)
(* SendReclaim, PersistRoom) or that of the message being handled (an      *)
(* SDP), so it is not repeated; SetStatus(s) is written s.                 *)
(***************************************************************************)
EXTENDS Sequences

CONSTANT NoRoom     \* None, for room_in_hash and owns

Status == {"Idle", "WaitingForPeer", "Connecting", "Connected", "Reconnecting",
           "PeerLeft", "RoomFull", "RoomNotFound", "Error"}

(* The Session that app.rs seeds from the URL and the session storage. *)
Seeded(hash, stored) ==
    [room_in_hash |-> hash, owns |-> stored, reclaim_tried |-> FALSE, has_pc |-> FALSE]

(* Mutant: a reclaim that was refused is tried again. *)
MayReclaimAgain(s) == s.room_in_hash # NoRoom /\ s.room_in_hash = s.owns

(* Only the tab that created the room of its URL may reclaim it, and once. *)
MayReclaim(s) ==
    s.room_in_hash # NoRoom /\ s.room_in_hash = s.owns /\ ~s.reclaim_tried

(* Mutant: the offering side does not note that it has a peer connection. *)
UpdatedAnswererOnly(s, ev, room) ==
    CASE ev = "Offer"      -> [s EXCEPT !.has_pc = TRUE]
      [] ev = "PeerLeft"   -> [s EXCEPT !.has_pc = FALSE]
      [] ev = "Created"    -> [s EXCEPT !.owns = room, !.room_in_hash = room]
      [] ev = "RoomNotFound" /\ MayReclaim(s) -> [s EXCEPT !.reclaim_tried = TRUE]
      [] OTHER             -> s

(* step: the session after event ev, which names `room` if it is Created. *)
Updated(s, ev, room) ==
    CASE ev \in {"PeerJoined", "Offer"} -> [s EXCEPT !.has_pc = TRUE]
      [] ev = "PeerLeft"                -> [s EXCEPT !.has_pc = FALSE]
      [] ev = "Created"                 -> [s EXCEPT !.owns = room, !.room_in_hash = room]
      [] ev = "RoomNotFound" /\ MayReclaim(s) -> [s EXCEPT !.reclaim_tried = TRUE]
      [] OTHER                          -> s

(* Mutant: only the tab that joined a room goes back to it. *)
OnOpenJoiner(s) == IF s.room_in_hash \in {NoRoom, s.owns} THEN "SendCreate" ELSE "SendJoin"

(* step, on Open. *)
OnOpen(s) == IF s.room_in_hash = NoRoom THEN "SendCreate" ELSE "SendJoin"

(* step: the actions to execute on any other event, in order. *)
Actions(s, ev) ==
    CASE ev = "PeerJoined"   -> <<"BuildPcAndOffer">>
      [] ev = "Offer"        -> <<"BuildPcAndAnswer">>
      [] ev = "Answer"       -> IF s.has_pc THEN <<"SetRemoteAnswer">> ELSE <<>>
      [] ev = "Ice"          -> IF s.has_pc THEN <<"AddIce">> ELSE <<>>
      [] ev = "PeerLeft"     -> <<"TeardownPc", "PeerLeft">>
      [] ev = "Created"      -> <<"PersistRoom", "WaitingForPeer">>
      [] ev = "RoomFull"     -> <<"RoomFull">>
      [] ev = "RoomNotFound" -> IF MayReclaim(s) THEN <<"SendReclaim">> ELSE <<"RoomNotFound">>

=============================================================================
