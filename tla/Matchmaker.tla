----------------------------- MODULE Matchmaker -----------------------------
(***************************************************************************)
(* What the signaling server (crates/server/src/ws.rs and rooms.rs)        *)
(* promises, without its tasks, locks, channels and limiter.  A peer gets  *)
(* a place in a room once and keeps it until it leaves for good.  A room   *)
(* that is entered has one member before and two after.  A newcomer is     *)
(* announced at most once, to a member of its room; a departure is told at *)
(* most once, to one who shared the room.  A room may be taken over (a     *)
(* reclaim that races another): its members keep a place in a room that is *)
(* no longer theirs.                                                       *)
(***************************************************************************)
EXTENDS Naturals, Sequences

CONSTANTS Peer, Room, NoPeer, NoRoom

VARIABLES
    place,     \* the room each peer was given
    members,   \* the peers of each room
    left,      \* peers that are gone for good
    owes,      \* whom the departure of a peer is still to be told to
    told       \* what each peer was told, in order

vars == <<place, members, left, owes, told>>

Init ==
    /\ place = [p \in Peer |-> NoRoom]
    /\ members = [r \in Room |-> {}]
    /\ left = {}
    /\ owes = [p \in Peer |-> NoPeer]
    /\ told = [p \in Peer |-> <<>>]

(* Whom p shares its room with. *)
Company(p) == IF place[p] = NoRoom THEN {} ELSE members[place[p]] \ {p}

Takes(p, r) ==
    /\ place[p] = NoRoom /\ p \notin left
    /\ place' = [place EXCEPT ![p] = r]
    /\ UNCHANGED <<left, owes, told>>

(* Create, and Reclaim. *)
Open(p, r) == Takes(p, r) /\ members' = [members EXCEPT ![r] = {p}]

Enter(p, r) ==
    /\ \E q \in Peer : members[r] = {q}
    /\ Takes(p, r)
    /\ members' = [members EXCEPT ![r] = @ \cup {p}]

Tells(q, type, p) ==
    LET note == [type |-> type, from |-> p] IN
    /\ \A i \in 1..Len(told[q]) : told[q][i] # note
    /\ told' = [told EXCEPT ![q] = Append(@, note)]

Introduce(p, q) ==
    /\ q \in Company(p)
    /\ Tells(q, "PeerJoined", p)
    /\ UNCHANGED <<place, members, left, owes>>

Leave(p) ==
    /\ p \notin left
    /\ left' = left \cup {p}
    /\ place' = [place EXCEPT ![p] = NoRoom]
    /\ members' = [r \in Room |-> members[r] \ {p}]
    /\ \E q \in IF Company(p) = {} THEN {NoPeer} ELSE Company(p) :
          owes' = [owes EXCEPT ![p] = q]
    /\ UNCHANGED told

(* The departure of p is told, unless its roommate is on its way out too. *)
TellLeft(p) ==
    /\ owes[p] # NoPeer
    /\ owes' = [owes EXCEPT ![p] = NoPeer]
    /\ Tells(owes[p], "PeerLeft", p) \/ UNCHANGED told
    /\ UNCHANGED <<place, members, left>>

Next ==
    \E p \in Peer :
        \/ \E r \in Room : Open(p, r) \/ Enter(p, r)
        \/ \E q \in Peer : Introduce(p, q)
        \/ Leave(p) \/ TellLeft(p)

Spec == Init /\ [][Next]_vars

=============================================================================
