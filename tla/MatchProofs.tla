---------------------------- MODULE MatchProofs ----------------------------
(***************************************************************************)
(* The server brings together whom it should, for any number of            *)
(* connections and rooms: partners see each other and relays do not stray  *)
(* (NoCrosstalk), and the server implements the matchmaker (Matches).      *)
(***************************************************************************)
EXTENDS ServerProofs

(* A registered peer whose room was not taken over is in the room that the *)
(* index gives it, and every room was issued by a Create once: so a Create *)
(* never draws the id of a room that is in use.                            *)
RoomsInv ==
    /\ DOMAIN registry.rooms \subseteq issued
    /\ \A p \in Registered \ evicted : p \in Inside(registry, registry.peer_room[p])

(* A relay from p to q is under way: p's handler holds q as its partner,   *)
(* or the message waits in q's channel.                                    *)
Relaying(p, q) == to[p] = q \/ \E i \in 1..Len(chan[q]) : chan[q][i] = Msg("Relay", p)

Linked(p, q) == p \in Registered \ evicted /\ q \in Registered => Partner(registry, p) = q

(* The two ends of a relay are partners, or one has left for good. *)
RelayInv ==
    \A p, q \in Peer : Relaying(p, q) => ~Pending(p) /\ ~Pending(q) /\ Linked(p, q)

-----------------------------------------------------------------------------
(* How a step changes the registry. *)

Still == UNCHANGED <<registry, evicted>>

Opens(p, r) ==
    /\ Pending(p) /\ r \in issued'
    /\ registry' = Create(registry, p, r)
    /\ evicted' = evicted \cup Inside(registry, r)

Enters(p, r) ==
    /\ Pending(p) /\ JoinOutcome(registry, r) = "Joined"
    /\ registry' = Join(registry, p, r)
    /\ evicted' = evicted

Leaves(p) == registry' = Remove(registry, p) /\ evicted' = evicted

(* A step leaves the registry alone, opens a room, enters one or removes a *)
(* peer; only a pending peer gets a place.                                 *)
LEMMA RegistryMoves ==
  ASSUME Inv, RoomsInv, [Next]_vars
  PROVE  /\ issued \subseteq issued'
         /\ \/ Still
            \/ \E p \in Peer : Leaves(p) \/ \E r \in Room : Opens(p, r) \/ Enters(p, r)
<1> DEFINE Goal == /\ issued \subseteq issued'
                   /\ \/ Still
                      \/ \E p \in Peer : Leaves(p) \/ \E r \in Room : Opens(p, r) \/ Enters(p, r)
<1>1. ASSUME UNCHANGED <<registry, issued, evicted>> PROVE Goal
  BY <1>1 DEF Still
<1>2. ASSUME NEW p \in Peer, CreateRoom(p) PROVE Goal
  <2>1. Pending(p) /\ evicted' = evicted
    BY <1>2, ReadsAsks DEF CreateRoom
  <2>2. PICK r \in Room \ issued : registry' = Create(registry, p, r) /\ issued' = issued \cup {r}
    BY <1>2 DEF CreateRoom, gen_room_id
  <2>3. Inside(registry, r) = {}
    BY <2>2 DEF RoomsInv, Inside, Contains
  <2> QED BY <2>1, <2>2, <2>3 DEF Opens
<1>3. ASSUME NEW p \in Peer, ReclaimCreate(p) PROVE Goal
  <2>1. Pending(p)
    BY <1>3 DEF ReclaimCreate, Pending, Asking
  <2>2. want[p] \in issued /\ issued \subseteq Room /\ issued' = issued
    BY <1>3, <2>1, AskingUntouched DEF ReclaimCreate, Untouched, Inv, TypeOK, WireType
  <2>3. Opens(p, want[p])
    BY <1>3, <2>1, <2>2 DEF ReclaimCreate, Opens, Inside
  <2> QED BY <2>2, <2>3
<1>4. ASSUME NEW p \in Peer, JoinRoom(p) PROVE Goal
  <2>1. Pending(p) /\ evicted' = evicted /\ issued' = issued /\ registry' = Join(registry, p, want[p])
    BY <1>4 DEF JoinRoom, Pending, Asking, history
  <2>2. CASE JoinOutcome(registry, want[p]) # "Joined"
    BY <2>1, <2>2 DEF Join, Still
  <2>3. CASE JoinOutcome(registry, want[p]) = "Joined"
    <3>1. want[p] \in Room
      BY <2>3 DEF JoinOutcome, Contains, Inv, TypeOK, RegistryType
    <3> QED BY <2>1, <2>3, <3>1 DEF Enters
  <2> QED BY <2>2, <2>3
<1>5. ASSUME NEW p \in Peer, Unregister(p) PROVE Goal
  BY <1>5 DEF Unregister, history, Leaves
<1>6. ASSUME NEW p \in Peer,
             \/ SendCreated(p) \/ TakeNow(p) \/ CheckAllowed(p) \/ Announce(p) \/ Record(p)
             \/ Refuse(p) \/ ReclaimContains(p) \/ LookupPartner(p) \/ SendRelay(p)
             \/ RecvEnds(p) \/ SendFails(p) \/ NotifyLeft(p) \/ DropSender(p)
             \/ Connect(p) \/ ClientOpen(p) \/ ClientRelay(p) \/ Deliver(p)
             \/ \E how \in Losses : ClientLost(p, how)
      PROVE  UNCHANGED <<registry, issued, evicted>>
  BY <1>6 DEF SendCreated, TakeNow, CheckAllowed, Announce, Record, Refuse, ReclaimContains,
       LookupPartner, SendRelay, RecvEnds, SendFails, NotifyLeft, DropSender, Connect, ClientOpen,
       ClientRelay, Deliver, ClientLost, history
<1> HIDE DEF Goal
<1>7. Goal
  BY <1>1, <1>2, <1>3, <1>4, <1>5, <1>6 DEF Next, Handler, Cleanup, vars, history
<1> QED BY <1>7 DEF Goal

(* A pending peer has no place. *)
LEMMA PendingUnplaced ==
  ASSUME Inv, NEW p \in Peer, Pending(p)
  PROVE  p \notin Registered /\ conn[p] \in {"off", "up"}
  BY AskingUntouched DEF Untouched

(* Every step keeps the peers in their rooms. *)
LEMMA RoomsStep == Inv /\ RoomsInv /\ [Next]_vars => RoomsInv'
<1> SUFFICES ASSUME Inv, RoomsInv, [Next]_vars PROVE RoomsInv'
  OBVIOUS
<1>0. issued \subseteq issued' /\ WellFormed(registry)
  BY RegistryMoves, InvWellFormed
<1>1. CASE Still
  BY <1>0, <1>1 DEF Still, RoomsInv, Registered
<1>2. ASSUME NEW p \in Peer, NEW r \in Room, Opens(p, r) PROVE RoomsInv'
  <2>1. p \notin Registered
    BY <1>2, PendingUnplaced DEF Opens
  <2>2. DOMAIN registry'.rooms \subseteq issued'
    BY <1>0, <1>2, CreatePlaces DEF Opens, RoomsInv
  <2>3. ASSUME NEW q \in Registered' \ evicted' PROVE q \in Inside(registry', registry'.peer_room[q])
    <3>1. CASE q = p
      BY <1>2, <3>1, CreatePlaces DEF Opens
    <3>2. CASE q # p
      <4>1. q \in Registered \ evicted /\ registry'.peer_room[q] = registry.peer_room[q]
        BY <1>2, <2>1, <2>3, <3>2, CreatePlaces DEF Opens, Registered
      <4>2. q \in Inside(registry, registry.peer_room[q])
        BY <4>1 DEF RoomsInv
      <4>3. registry.peer_room[q] # r
        BY <1>2, <2>3, <4>2 DEF Opens
      <4> QED BY <1>2, <4>1, <4>2, <4>3, CreatePlaces DEF Opens
    <3> QED BY <3>1, <3>2
  <2> QED BY <2>2, <2>3 DEF RoomsInv
<1>3. ASSUME NEW p \in Peer, NEW r \in Room, Enters(p, r) PROVE RoomsInv'
  <2>1. p \notin Registered
    BY <1>3, PendingUnplaced DEF Enters
  <2>2. /\ \A x : Inside(registry, x) \subseteq Inside(registry', x)
        /\ p \in Inside(registry', r) /\ registry'.peer_room[p] = r
        /\ DOMAIN registry'.rooms = DOMAIN registry.rooms
        /\ Registered' = Registered \cup {p}
        /\ \A q \in Registered : registry'.peer_room[q] = registry.peer_room[q]
    BY <1>0, <1>3, <2>1, JoinPlaces DEF Enters, Registered
  <2> QED BY <1>0, <1>3, <2>2 DEF Enters, RoomsInv
<1>4. ASSUME NEW p \in Peer, Leaves(p) PROVE RoomsInv'
  <2>1. /\ \A x : Inside(registry', x) = Inside(registry, x) \ {p}
        /\ DOMAIN registry'.rooms \subseteq DOMAIN registry.rooms
        /\ Registered' = Registered \ {p}
        /\ \A q \in Registered' : registry'.peer_room[q] = registry.peer_room[q]
    BY <1>0, <1>4, RemovePlaces DEF Leaves, Registered
  <2> QED BY <1>0, <1>4, <2>1 DEF Leaves, RoomsInv
<1> QED BY <1>1, <1>2, <1>3, <1>4, RegistryMoves

(* Two peers past their admission that are partners stay partners, until   *)
(* one of them leaves or the room is taken over.                           *)
LEMMA LinkedStep ==
  ASSUME Inv, RoomsInv, [Next]_vars, NEW p \in Peer, NEW q \in Peer,
         ~Pending(p), ~Pending(q), Linked(p, q)
  PROVE  Linked(p, q)'
<1> SUFFICES ASSUME p \in Registered' \ evicted', q \in Registered'
             PROVE  Partner(registry', p) = q
  BY DEF Linked
<1>0. WellFormed(registry) /\ WellFormed(registry')
  BY InvWellFormed, RegistryStep
<1>1. p \in Registered \ evicted /\ q \in Registered
  <2>1. CASE Still
    BY <2>1 DEF Still, Registered
  <2>2. ASSUME NEW x \in Peer, NEW r \in Room, Opens(x, r) PROVE p \in Registered \ evicted /\ q \in Registered
    <3>1. x # p /\ x # q
      BY <2>2 DEF Opens
    <3>2. Registered' = Registered \cup {x} /\ evicted \subseteq evicted'
      BY <2>2, CreatePlaces DEF Opens, Registered
    <3> QED BY <3>1, <3>2
  <2>3. ASSUME NEW x \in Peer, NEW r \in Room, Enters(x, r) PROVE p \in Registered \ evicted /\ q \in Registered
    <3>1. x # p /\ x # q
      BY <2>3 DEF Enters
    <3>2. Registered' = Registered \cup {x} /\ evicted' = evicted
      BY <1>0, <2>3, JoinPlaces DEF Enters, Registered
    <3> QED BY <3>1, <3>2
  <2>4. ASSUME NEW x \in Peer, Leaves(x) PROVE p \in Registered \ evicted /\ q \in Registered
    BY <1>0, <2>4, RemovePlaces DEF Leaves, Registered
  <2> QED BY <2>1, <2>2, <2>3, <2>4, RegistryMoves
<1> DEFINE r == registry.peer_room[p]
<1>2. Partner(registry, p) = q /\ q # NoPeer
  BY <1>1, ServerAssumption DEF Linked
<1>3. p \in Inside(registry, r) /\ q \in Inside(registry, r) \ {p}
  BY <1>0, <1>1, <1>2, PartnerInside DEF RoomsInv, Registered
<1>4. p \in Inside(registry', r) /\ q \in Inside(registry', r)
  <2>1. CASE Still
    BY <1>3, <2>1 DEF Still
  <2>2. ASSUME NEW x \in Peer, NEW s \in Room, Opens(x, s) PROVE p \in Inside(registry', r) /\ q \in Inside(registry', r)
    <3>1. r # s
      BY <1>3, <2>2 DEF Opens
    <3> QED BY <1>3, <2>2, <3>1, CreatePlaces DEF Opens
  <2>3. ASSUME NEW x \in Peer, NEW s \in Room, Enters(x, s) PROVE p \in Inside(registry', r) /\ q \in Inside(registry', r)
    <3>1. \A y : Inside(registry, y) \subseteq Inside(registry', y)
      BY <1>0, <2>3, JoinPlaces DEF Enters
    <3> QED BY <1>3, <3>1
  <2>4. ASSUME NEW x \in Peer, Leaves(x) PROVE p \in Inside(registry', r) /\ q \in Inside(registry', r)
    BY <1>0, <1>3, <2>4, RemovePlaces DEF Leaves, Registered
  <2> QED BY <2>1, <2>2, <2>3, <2>4, RegistryMoves
<1> QED BY <1>0, <1>3, <1>4, PartnersPair

-----------------------------------------------------------------------------
(* Relays. *)

(* Every message that comes into a channel is the one sent. *)
LEMMA SendToAdds ==
  ASSUME Inv, NEW x \in Peer \cup {NoPeer}, NEW m \in SignalMsg, NEW q \in Peer,
         chan' = SendTo(chan, x, m), NEW i \in 1..Len(chan'[q])
  PROVE  \/ \E j \in 1..Len(chan[q]) : chan'[q][i] = chan[q][j]
         \/ x = q /\ chan'[q][i] = m
<1>1. chan[q] \in Seq(SignalMsg)
  BY DEF Inv, TypeOK, WireType
<1>2. chan'[q] = chan[q] \/ (x = q /\ chan'[q] = Append(chan[q], m))
  BY DEF Inv, TypeOK, WireType, SendTo
<1>3. CASE chan'[q] = chan[q]
  BY <1>3
<1>4. CASE x = q /\ chan'[q] = Append(chan[q], m)
  <2>1. /\ Len(chan'[q]) = Len(chan[q]) + 1 /\ chan'[q][Len(chan[q]) + 1] = m
        /\ \A j \in 1..Len(chan[q]) : chan'[q][j] = chan[q][j]
    BY <1>1, <1>4, AppendProperties
  <2>2. i \in 1..Len(chan[q]) \/ i = Len(chan[q]) + 1
    BY <1>1, <2>1
  <2> QED BY <1>4, <2>1, <2>2
<1> QED BY <1>2, <1>3, <1>4

(* A relay under way was under way before, or p has just looked q up. *)
LEMMA RelayOrigin ==
  ASSUME Inv, [Next]_vars, NEW p \in Peer, NEW q \in Peer, Relaying(p, q)'
  PROVE  \/ Relaying(p, q)
         \/ q = Partner(registry, p) /\ UNCHANGED <<registry, evicted>>
<1> DEFINE Goal == Relaying(p, q) \/ (q = Partner(registry, p) /\ UNCHANGED <<registry, evicted>>)
           Waits == \E i \in 1..Len(chan[q]) : chan[q][i] = Msg("Relay", p)
           Old == to'[p] = q => to[p] = q
<1> USE ServerAssumption
<1>0. chan[q] \in Seq(SignalMsg) /\ to \in [Peer -> Peer \cup {NoPeer}]
  BY DEF Inv, TypeOK, WireType, TaskType
<1>1. ASSUME Waits' => Waits, Old PROVE Goal
  BY <1>1 DEF Relaying
<1>2. ASSUME UNCHANGED <<chan, to>> PROVE Goal
  BY <1>2 DEF Relaying
<1>3. ASSUME NEW x \in Peer \cup {NoPeer}, NEW m \in SignalMsg, m.type # "Relay",
             chan' = SendTo(chan, x, m), Old
      PROVE  Goal
  <2>1. m # Msg("Relay", p)
    BY <1>3 DEF Msg
  <2>2. Waits' => Waits
    BY <1>3, <2>1, SendToAdds
  <2> QED BY <1>1, <1>3, <2>2
<1>4. ASSUME NEW x \in Peer, SendCreated(x) \/ Refuse(x) \/ Announce(x) \/ NotifyLeft(x) PROVE Goal
  <2>1. \E y \in Peer \cup {NoPeer}, t \in Reply \ {"Relay"}, z \in Peer \cup {NoPeer} :
           chan' = SendTo(chan, y, Msg(t, z))
    BY <1>4, PartnerType DEF SendCreated, Refuse, Announce, NotifyLeft, Notify, Reply, Inv, TypeOK, TaskType
  <2>2. PICK y \in Peer \cup {NoPeer}, t \in Reply \ {"Relay"}, z \in Peer \cup {NoPeer} :
           chan' = SendTo(chan, y, Msg(t, z))
    BY <2>1
  <2>3. Msg(t, z) \in SignalMsg /\ Msg(t, z).type # "Relay"
    BY MsgType DEF Msg
  <2>4. Old
    BY <1>4 DEF SendCreated, Refuse, Announce, NotifyLeft, handler
  <2> QED BY <1>3, <2>2, <2>3, <2>4
<1>5. ASSUME NEW x \in Peer, LookupPartner(x) PROVE Goal
  <2>1. chan' = chan /\ registry' = registry /\ evicted' = evicted
    BY <1>5 DEF LookupPartner, history
  <2>2. to'[p] = IF x = p THEN Partner(registry, p) ELSE to[p]
    BY <1>0, <1>5 DEF LookupPartner
  <2> QED BY <2>1, <2>2 DEF Relaying
<1>6. ASSUME NEW x \in Peer, SendRelay(x) PROVE Goal
  <2>1. /\ chan' = SendTo(chan, to[x], Msg("Relay", x)) /\ to[x] \in Peer \cup {NoPeer}
        /\ to'[p] = IF x = p THEN NoPeer ELSE to[p]
    BY <1>0, <1>6 DEF SendRelay
  <2>2. Msg("Relay", x) \in SignalMsg
    BY MsgType DEF Reply
  <2>3. Waits' => Waits \/ (to[x] = q /\ Msg("Relay", x) = Msg("Relay", p))
    BY <2>1, <2>2, SendToAdds
  <2>4. Msg("Relay", x) = Msg("Relay", p) => x = p
    BY DEF Msg
  <2> QED BY <2>1, <2>3, <2>4 DEF Relaying
<1>7. ASSUME NEW x \in Peer, RecvEnds(x) \/ SendFails(x) PROVE Goal
  <2>1. Old /\ (chan'[q] = chan[q] \/ chan'[q] = <<>>)
    BY <1>7 DEF RecvEnds, SendFails, handler, Inv, TypeOK, WireType
  <2> QED BY <1>1, <2>1
<1>8. ASSUME NEW x \in Peer, Deliver(x) PROVE Goal
  <2>1. Old /\ (chan'[q] = chan[q] \/ (chan[q] # <<>> /\ chan'[q] = Tail(chan[q])))
    BY <1>8 DEF Deliver, handler, Inv, TypeOK, WireType
  <2>2. Waits' => Waits
    <3>1. CASE chan'[q] = chan[q]
      BY <3>1
    <3>2. CASE chan[q] # <<>> /\ chan'[q] = Tail(chan[q])
      <4>1. Len(chan'[q]) = Len(chan[q]) - 1 /\ \A i \in 1..Len(chan'[q]) : chan'[q][i] = chan[q][i + 1]
        BY <1>0, <3>2, HeadTailProperties
      <4>2. \A i \in 1..Len(chan'[q]) : i + 1 \in 1..Len(chan[q])
        BY <1>0, <4>1
      <4> QED BY <4>1, <4>2
    <3> QED BY <2>1, <3>1, <3>2
  <2> QED BY <1>1, <2>1, <2>2
<1>9. ASSUME NEW x \in Peer,
             \/ CreateRoom(x) \/ TakeNow(x) \/ CheckAllowed(x) \/ JoinRoom(x) \/ Record(x)
             \/ ReclaimContains(x) \/ ReclaimCreate(x) \/ Unregister(x) \/ DropSender(x)
             \/ Connect(x) \/ ClientOpen(x) \/ ClientRelay(x)
             \/ \E how \in Losses : ClientLost(x, how)
      PROVE  UNCHANGED <<chan, to>>
  BY <1>9 DEF CreateRoom, TakeNow, CheckAllowed, JoinRoom, Record, ReclaimContains, ReclaimCreate,
       Unregister, DropSender, Connect, ClientOpen, ClientRelay, ClientLost, wires, handler
<1> HIDE DEF Goal
<1>10. Goal
  BY <1>2, <1>4, <1>5, <1>6, <1>7, <1>8, <1>9 DEF Next, Handler, Cleanup, vars, wires, handler
<1> QED BY <1>10 DEF Goal

(* Every step keeps the relays between partners. *)
LEMMA RelayStep == Inv /\ RoomsInv /\ RelayInv /\ [Next]_vars => RelayInv'
<1> SUFFICES ASSUME Inv, RoomsInv, RelayInv, [Next]_vars, NEW p \in Peer, NEW q \in Peer, Relaying(p, q)'
             PROVE  ~Pending(p)' /\ ~Pending(q)' /\ Linked(p, q)'
  BY DEF RelayInv
<1>1. PendingShrinks
  BY PendingStep
<1>2. CASE Relaying(p, q)
  BY <1>1, <1>2, LinkedStep DEF RelayInv, PendingShrinks
<1>3. CASE q = Partner(registry, p) /\ UNCHANGED <<registry, evicted>>
  <2>1. q \in Registered /\ p \in Registered
    BY <1>3, PartnerType, ServerAssumption DEF Partner, Registered
  <2>2. ~Pending(p) /\ ~Pending(q)
    BY <2>1, PendingUnplaced
  <2>3. Linked(p, q)'
    BY <1>3 DEF Linked, Registered
  <2> QED BY <1>1, <2>2, <2>3 DEF PendingShrinks
<1> QED BY <1>2, <1>3, RelayOrigin

(* The two invariants give NoCrosstalk. *)
LEMMA LinkedNoCrosstalk == Inv /\ RoomsInv /\ RelayInv => NoCrosstalk
<1> SUFFICES ASSUME Inv, RoomsInv, RelayInv PROVE NoCrosstalk
  OBVIOUS
<1>0. WellFormed(registry) /\ Registered \subseteq Peer
  BY InvWellFormed DEF Registered, WellFormed
<1>1. ASSUME NEW p \in Registered \ evicted, Partner(registry, p) # NoPeer
      PROVE  Partner(registry, Partner(registry, p)) = p
  <2>1. p \in Inside(registry, registry.peer_room[p])
    BY DEF RoomsInv
  <2>2. Partner(registry, p) \in Inside(registry, registry.peer_room[p]) \ {p}
    BY <1>0, <1>1, PartnerInside DEF Registered
  <2> QED BY <1>0, <2>1, <2>2, PartnersPair
<1>2. ASSUME NEW q \in Peer, NEW i \in 1..Len(chan[q]), chan[q][i].type = "Relay",
             chan[q][i].from \in Registered \ evicted, q \in Registered
      PROVE  Partner(registry, chan[q][i].from) = q
  <2>1. chan[q][i] \in SignalMsg
    BY DEF Inv, TypeOK, WireType
  <2>2. chan[q][i] = Msg("Relay", chan[q][i].from)
    BY <1>2, <2>1 DEF SignalMsg, Msg
  <2>3. Relaying(chan[q][i].from, q)
    BY <2>2 DEF Relaying
  <2> QED BY <1>0, <1>2, <2>3 DEF RelayInv, Linked
<1> QED BY <1>1, <1>2 DEF NoCrosstalk

(* The initial state has no rooms and no relays. *)
LEMMA InitRooms == Init => RoomsInv /\ RelayInv
<1> SUFFICES ASSUME Init PROVE RoomsInv /\ RelayInv
  OBVIOUS
<1>1. DOMAIN registry.rooms = {} /\ Registered = {}
  BY DEF Init, EmptyRegistry, Registered
<1>2. \A p, q \in Peer : ~Relaying(p, q)
  BY ServerAssumption DEF Init, Relaying
<1> QED BY <1>1, <1>2 DEF RoomsInv, RelayInv

(* Partners see each other, and a relay reaches only the partner of its    *)
(* sender, whatever leaves, joins and reclaims in between (partner of      *)
(* rooms.rs 90-94, the relay branch of ws.rs 243-253).                     *)
THEOREM ServerNoCrosstalk == Spec => []NoCrosstalk
<1>1. Init => RoomsInv /\ RelayInv
  BY InitRooms
<1>2. Inv /\ RoomsInv /\ RelayInv /\ [Next]_vars => (RoomsInv /\ RelayInv)'
  BY RoomsStep, RelayStep
<1> QED BY <1>1, <1>2, LinkedNoCrosstalk, ServerInv, PTL DEF Spec

-----------------------------------------------------------------------------
(* What the peers are told. *)

(* A peer that has been announced is past its announcement for good, one   *)
(* whose departure was told has told it, and one that is about to tell it  *)
(* knows whom.                                                             *)
Announced(p) == ~Pending(p) /\ pc[p] # "announce"
Farewelled(p) == conn[p] \in {"dropping", "gone"}

NotesInv ==
    \A p \in Peer :
        /\ \A q \in Peer : Sent(q, "PeerJoined", p) => Announced(p)
        /\ \A q \in Peer : Sent(q, "PeerLeft", p) => Farewelled(p)
        /\ conn[p] = "notifying" => leftTo[p] # NoPeer

(* Every note that comes in is the one sent. *)
LEMMA NotifyAdds ==
  ASSUME Inv, NEW x \in Peer \cup {NoPeer}, NEW m \in SignalMsg, Notify(x, m), NEW q \in Peer,
         NEW t, NEW p, Sent(q, t, p)'
  PROVE  Sent(q, t, p) \/ m = Msg(t, p)
<1>1. notes \in [Peer -> Seq(SignalMsg)]
  BY DEF Inv, TypeOK, WireType
<1>2. notes'[q] = notes[q] \/ notes'[q] = Append(notes[q], m)
  BY <1>1 DEF Notify
<1>3. PICK i \in 1..Len(notes'[q]) : notes'[q][i] = Msg(t, p)
  BY DEF Sent
<1>4. CASE notes'[q] = notes[q]
  BY <1>3, <1>4 DEF Sent
<1>5. CASE notes'[q] = Append(notes[q], m)
  <2>1. /\ Len(notes'[q]) = Len(notes[q]) + 1 /\ notes'[q][Len(notes[q]) + 1] = m
        /\ \A j \in 1..Len(notes[q]) : notes'[q][j] = notes[q][j]
    BY <1>1, <1>5, AppendProperties
  <2>2. i \in 1..Len(notes[q]) \/ i = Len(notes[q]) + 1
    BY <1>1, <2>1
  <2> QED BY <1>3, <2>1, <2>2 DEF Sent
<1> QED BY <1>2, <1>4, <1>5

(* Only the announcement and the farewell of p tell anybody about p. *)
LEMMA NoteOrigin ==
  ASSUME Inv, [Next]_vars, NEW p \in Peer, NEW q \in Peer, NEW t, Sent(q, t, p)'
  PROVE  \/ Sent(q, t, p)
         \/ t = "PeerJoined" /\ Announce(p)
         \/ t = "PeerLeft" /\ NotifyLeft(p)
<1> DEFINE Goal == \/ Sent(q, t, p)
                   \/ t = "PeerJoined" /\ Announce(p)
                   \/ t = "PeerLeft" /\ NotifyLeft(p)
<1>1. ASSUME UNCHANGED notes PROVE Goal
  BY <1>1 DEF Sent
<1>2. ASSUME NEW x \in Peer, Announce(x) PROVE Goal
  <2>1. Msg("PeerJoined", x) \in SignalMsg
    BY MsgType DEF Reply
  <2>2. Sent(q, t, p) \/ Msg("PeerJoined", x) = Msg(t, p)
    BY <1>2, <2>1, PartnerType, NotifyAdds DEF Announce
  <2> QED BY <1>2, <2>2 DEF Msg
<1>3. ASSUME NEW x \in Peer, NotifyLeft(x) PROVE Goal
  <2>1. Msg("PeerLeft", x) \in SignalMsg /\ leftTo[x] \in Peer \cup {NoPeer}
    BY MsgType DEF Reply, Inv, TypeOK, TaskType
  <2>2. Sent(q, t, p) \/ Msg("PeerLeft", x) = Msg(t, p)
    BY <1>3, <2>1, NotifyAdds DEF NotifyLeft
  <2> QED BY <1>3, <2>2 DEF Msg
<1>4. ASSUME NEW x \in Peer,
             \/ CreateRoom(x) \/ SendCreated(x) \/ TakeNow(x) \/ CheckAllowed(x) \/ JoinRoom(x)
             \/ Record(x) \/ Refuse(x) \/ ReclaimContains(x) \/ ReclaimCreate(x)
             \/ LookupPartner(x) \/ SendRelay(x)
             \/ RecvEnds(x) \/ SendFails(x) \/ Unregister(x) \/ DropSender(x)
             \/ Connect(x) \/ ClientOpen(x) \/ ClientRelay(x) \/ Deliver(x)
             \/ \E how \in Losses : ClientLost(x, how)
      PROVE  UNCHANGED notes
  BY <1>4 DEF CreateRoom, SendCreated, TakeNow, CheckAllowed, JoinRoom, Record, Refuse,
       ReclaimContains, ReclaimCreate, LookupPartner, SendRelay, RecvEnds, SendFails, Unregister,
       DropSender, Connect, ClientOpen, ClientRelay, Deliver, ClientLost, history
<1> HIDE DEF Goal
<1>5. Goal
  BY <1>1, <1>2, <1>3, <1>4 DEF Next, Handler, Cleanup, vars, history
<1> QED BY <1>5 DEF Goal

(* The stages of a connection that the notes depend on: admission is over  *)
(* once it is over, and so is the farewell.                                *)
LEMMA StageStep ==
  ASSUME Inv, [Next]_vars, NEW p \in Peer
  PROVE  /\ Announced(p) => Announced(p)'
         /\ Farewelled(p) => Farewelled(p)'
         /\ conn'[p] = "notifying" => \/ conn[p] = "notifying" /\ leftTo'[p] = leftTo[p]
                                      \/ leftTo'[p] # NoPeer
<1> USE DEF Inv, TypeOK, TaskType
<1> DEFINE Tasks == /\ Farewelled(p) => Farewelled(p)'
                    /\ conn'[p] = "notifying" => \/ conn[p] = "notifying" /\ leftTo'[p] = leftTo[p]
                                                 \/ leftTo'[p] # NoPeer
<1>1. PendingShrinks
  BY PendingStep
<1>2. Tasks
  <2>1. ASSUME UNCHANGED <<conn, leftTo>> PROVE Tasks
    BY <2>1 DEF Farewelled
  <2>2. ASSUME NEW x \in Peer, x # p \/ ~Farewelled(p), x # p \/ conn'[p] # "notifying",
               \/ RecvEnds(x) \/ SendFails(x) \/ NotifyLeft(x) \/ Connect(x)
        PROVE  Tasks
    BY <2>2 DEF RecvEnds, SendFails, NotifyLeft, Connect, Farewelled
  <2>3. ASSUME NEW x \in Peer, RecvEnds(x) \/ SendFails(x) \/ NotifyLeft(x) PROVE Tasks
    BY <2>2, <2>3 DEF RecvEnds, SendFails, NotifyLeft, Farewelled
  <2>4. ASSUME NEW x \in Peer, Connect(x) PROVE Tasks
    <3>1. Pending(x) /\ conn'[x] = "up"
      BY <2>4 DEF Connect, Pending
    <3>2. conn[x] \in {"off", "up"}
      BY <3>1, PendingUnplaced
    <3> QED BY <2>2, <2>4, <3>1, <3>2 DEF Farewelled
  <2>5. ASSUME NEW x \in Peer, Unregister(x) PROVE Tasks
    BY <2>5 DEF Unregister, Farewelled
  <2>6. ASSUME NEW x \in Peer, DropSender(x) PROVE Tasks
    BY <2>6 DEF DropSender, Farewelled
  <2>7. ASSUME NEW x \in Peer,
               \/ Handler(x) \/ ClientOpen(x) \/ ClientRelay(x) \/ Deliver(x)
               \/ \E how \in Losses : ClientLost(x, how)
        PROVE  UNCHANGED <<conn, leftTo>>
    BY <2>7 DEF Handler, CreateRoom, SendCreated, TakeNow, CheckAllowed, JoinRoom, Announce, Record,
         Refuse, ReclaimContains, ReclaimCreate, LookupPartner, SendRelay, ClientOpen, ClientRelay,
         Deliver, ClientLost, tasks
  <2> HIDE DEF Tasks
  <2> QED BY <2>1, <2>3, <2>4, <2>5, <2>6, <2>7 DEF Next, Cleanup, vars, tasks
<1>3. pc'[p] = "announce" => pc[p] = "announce" \/ Pending(p)
  <2>1. ASSUME NEW x \in Peer, JoinRoom(x) PROVE pc'[p] = "announce" => pc[p] = "announce" \/ Pending(p)
    BY <2>1 DEF JoinRoom, Goto, Pending, Asking
  <2>2. ASSUME NEW x \in Peer,
               \/ CreateRoom(x) \/ SendCreated(x) \/ TakeNow(x) \/ CheckAllowed(x) \/ Announce(x)
               \/ Record(x) \/ Refuse(x) \/ ReclaimContains(x) \/ ReclaimCreate(x)
               \/ LookupPartner(x) \/ SendRelay(x)
        PROVE  pc'[p] = "announce" => pc[p] = "announce"
    BY <2>2 DEF CreateRoom, SendCreated, TakeNow, CheckAllowed, Announce, Record, Refuse,
         ReclaimContains, ReclaimCreate, LookupPartner, SendRelay, Goto
  <2>3. ASSUME NEW x \in Peer,
               \/ RecvEnds(x) \/ SendFails(x) \/ Cleanup(x) \/ Connect(x) \/ ClientOpen(x)
               \/ ClientRelay(x) \/ Deliver(x) \/ \E how \in Losses : ClientLost(x, how)
        PROVE  pc' = pc
    BY <2>3 DEF RecvEnds, SendFails, Cleanup, Unregister, NotifyLeft, DropSender, Connect,
         ClientOpen, ClientRelay, Deliver, ClientLost, handler
  <2> QED BY <2>1, <2>2, <2>3 DEF Next, Handler, vars, handler
<1> QED BY <1>1, <1>2, <1>3 DEF Announced, PendingShrinks

(* Every step keeps the notes true. *)
LEMMA NotesStep == Inv /\ NotesInv /\ [Next]_vars => NotesInv'
<1> SUFFICES ASSUME Inv, NotesInv, [Next]_vars, NEW p \in Peer
             PROVE  /\ \A q \in Peer : Sent(q, "PeerJoined", p)' => Announced(p)'
                    /\ \A q \in Peer : Sent(q, "PeerLeft", p)' => Farewelled(p)'
                    /\ conn'[p] = "notifying" => leftTo'[p] # NoPeer
  BY DEF NotesInv
<1>1. ASSUME NEW q \in Peer, Sent(q, "PeerJoined", p)' PROVE Announced(p)'
  <2>1. CASE Sent(q, "PeerJoined", p)
    BY <2>1, StageStep DEF NotesInv
  <2>2. CASE Announce(p)
    <3>1. pc[p] = "announce" /\ pc'[p] = "idle"
      BY <2>2 DEF Announce, Goto, Inv, TypeOK, TaskType
    <3>2. ~Pending(p)
      BY <3>1, BusyNotPending DEF Asking
    <3> QED BY <3>1, <3>2, PendingStep DEF PendingShrinks, Announced
  <2> QED BY <1>1, <2>1, <2>2, NoteOrigin
<1>2. ASSUME NEW q \in Peer, Sent(q, "PeerLeft", p)' PROVE Farewelled(p)'
  <2>1. CASE Sent(q, "PeerLeft", p)
    BY <2>1, StageStep DEF NotesInv
  <2>2. CASE NotifyLeft(p)
    BY <2>2 DEF NotifyLeft, Farewelled, Inv, TypeOK, TaskType
  <2> QED BY <1>2, <2>1, <2>2, NoteOrigin
<1>3. conn'[p] = "notifying" => leftTo'[p] # NoPeer
  BY StageStep DEF NotesInv
<1> QED BY <1>1, <1>2, <1>3

-----------------------------------------------------------------------------
(* The server implements the matchmaker. *)

(* The refinement mapping of Server. *)
Place == [p \in Peer |-> IF p \in Registered THEN registry.peer_room[p] ELSE NoRoom]
Roster == [r \in Room |-> IF Contains(registry, r) THEN Members(registry, r) ELSE {}]
Left == {p \in Peer : conn[p] \in {"notifying", "dropping", "gone"}}
Owed == [p \in Peer |-> IF conn[p] = "notifying" THEN leftTo[p] ELSE NoPeer]

(* The steps of the matchmaker, in terms of the mapping. *)
LEMMA AbstractOpen ==
  ASSUME NEW p \in Peer, NEW r \in Room, Place[p] = NoRoom, p \notin Left,
         Place' = [Place EXCEPT ![p] = r], Roster' = [Roster EXCEPT ![r] = {p}],
         UNCHANGED <<Left, Owed, notes>>
  PROVE  Abstract!Next
<1>1. Abstract!Open(p, r)
  BY DEF Abstract!Open, Abstract!Takes, Place, Roster, Left, Owed
<1> QED BY <1>1 DEF Abstract!Next

LEMMA AbstractEnter ==
  ASSUME NEW p \in Peer, NEW r \in Room, Place[p] = NoRoom, p \notin Left,
         NEW q \in Peer, Roster[r] = {q},
         Place' = [Place EXCEPT ![p] = r], Roster' = [Roster EXCEPT ![r] = @ \cup {p}],
         UNCHANGED <<Left, Owed, notes>>
  PROVE  Abstract!Next
<1>1. Abstract!Enter(p, r)
  BY DEF Abstract!Enter, Abstract!Takes, Place, Roster, Left, Owed
<1> QED BY <1>1 DEF Abstract!Next

LEMMA AbstractIntroduce ==
  ASSUME NEW p \in Peer, NEW q \in Peer, Place[p] # NoRoom, q \in Roster[Place[p]] \ {p},
         ~Sent(q, "PeerJoined", p),
         notes' = [notes EXCEPT ![q] = Append(@, Msg("PeerJoined", p))],
         UNCHANGED <<Place, Roster, Left, Owed>>
  PROVE  Abstract!Next
<1>1. Abstract!Introduce(p, q)
  BY DEF Abstract!Introduce, Abstract!Company, Abstract!Tells, Place, Roster, Left, Owed, Sent, Msg
<1> QED BY <1>1 DEF Abstract!Next

LEMMA AbstractLeave ==
  ASSUME NEW p \in Peer, p \notin Left, Left' = Left \cup {p},
         Place' = [Place EXCEPT ![p] = NoRoom], Roster' = [r \in Room |-> Roster[r] \ {p}],
         NEW q, Owed' = [Owed EXCEPT ![p] = q],
         IF Place[p] = NoRoom \/ Roster[Place[p]] \ {p} = {} THEN q = NoPeer
         ELSE q \in Roster[Place[p]] \ {p},
         UNCHANGED notes
  PROVE  Abstract!Next
<1>1. q \in IF Abstract!Company(p) = {} THEN {NoPeer} ELSE Abstract!Company(p)
  BY DEF Abstract!Company, Place, Roster
<1>2. Abstract!Leave(p)
  BY <1>1 DEF Abstract!Leave, Place, Roster, Left, Owed
<1> QED BY <1>2 DEF Abstract!Next

LEMMA AbstractTellLeft ==
  ASSUME NEW p \in Peer, Owed[p] # NoPeer, Owed' = [Owed EXCEPT ![p] = NoPeer],
         \/ UNCHANGED notes
         \/ /\ ~Sent(Owed[p], "PeerLeft", p)
            /\ notes' = [notes EXCEPT ![Owed[p]] = Append(@, Msg("PeerLeft", p))],
         UNCHANGED <<Place, Roster, Left>>
  PROVE  Abstract!Next
<1>1. Abstract!TellLeft(p)
  BY DEF Abstract!TellLeft, Abstract!Tells, Place, Roster, Left, Owed, Sent, Msg
<1> QED BY <1>1 DEF Abstract!Next

LEMMA AbstractStutter ==
  ASSUME UNCHANGED <<Place, Roster, Left, Owed, notes>>
  PROVE  UNCHANGED Abstract!vars
  BY DEF Abstract!vars, Place, Roster, Left, Owed

(* A room's roster is who is inside. *)
LEMMA RosterInside == Roster = [r \in Room |-> Inside(registry, r)]
  BY DEF Roster, Inside

(* A registered peer is placed in a room, any other peer is not. *)
LEMMA PlaceRegistered ==
  ASSUME Inv, NEW p \in Peer
  PROVE  /\ p \in Registered => Place[p] = registry.peer_room[p] /\ Place[p] \in Room /\ Place[p] # NoRoom
         /\ p \notin Registered => Place[p] = NoRoom
  BY ServerAssumption DEF Place, Registered, Inv, TypeOK, RegistryType

(* Create and Reclaim open a room. *)
LEMMA CreateMatches ==
  ASSUME Inv, NEW p \in Peer, NEW r \in Room, Pending(p), registry' = Create(registry, p, r),
         UNCHANGED <<conn, leftTo, notes>>
  PROVE  Abstract!Next
<1>1. p \notin Registered /\ conn[p] \in {"off", "up"}
  BY PendingUnplaced
<1>2. Place[p] = NoRoom /\ p \notin Left
  BY <1>1, PlaceRegistered DEF Left
<1>3. Place' = [Place EXCEPT ![p] = r]
  <2>1. /\ Registered' = Registered \cup {p} /\ registry'.peer_room[p] = r
        /\ \A q \in Registered \ {p} : registry'.peer_room[q] = registry.peer_room[q]
    BY CreatePlaces DEF Registered
  <2> QED BY <2>1 DEF Place
<1>4. Roster' = [Roster EXCEPT ![r] = {p}]
  <2>1. Roster' = [x \in Room |-> Inside(registry', x)]
    BY DEF Roster, Inside
  <2>2. Inside(registry', r) = {p} /\ \A x : x # r => Inside(registry', x) = Inside(registry, x)
    BY CreatePlaces
  <2> QED BY <2>1, <2>2, RosterInside
<1>5. UNCHANGED <<Left, Owed, notes>>
  BY DEF Left, Owed
<1> QED BY <1>2, <1>3, <1>4, <1>5, AbstractOpen

(* A Join that succeeds enters a room of one. *)
LEMMA JoinMatches ==
  ASSUME Inv, NEW p \in Peer, JoinRoom(p), JoinOutcome(registry, want[p]) = "Joined"
  PROVE  Abstract!Next
<1> DEFINE r == want[p]
<1>0. WellFormed(registry) /\ Pending(p)
  BY InvWellFormed DEF JoinRoom, Pending, Asking
<1>1. p \notin Registered /\ conn[p] \in {"off", "up"}
  BY <1>0, PendingUnplaced
<1>2. Place[p] = NoRoom /\ p \notin Left
  BY <1>1, PlaceRegistered DEF Left
<1>3. registry' = Join(registry, p, r) /\ UNCHANGED <<conn, leftTo, notes>>
  BY DEF JoinRoom, tasks, history
<1>4. /\ r \in DOMAIN registry.rooms /\ Len(registry.rooms[r]) = 1
      /\ Inside(registry, r) = {registry.rooms[r][1]}
      /\ Inside(registry', r) = Inside(registry, r) \cup {p}
      /\ \A x : x # r => Inside(registry', x) = Inside(registry, x)
      /\ Registered' = Registered \cup {p} /\ registry'.peer_room[p] = r
      /\ \A q \in Registered \ {p} : registry'.peer_room[q] = registry.peer_room[q]
  BY <1>0, <1>3, JoinPlaces DEF Registered
<1>5. r \in Room /\ registry.rooms[r][1] \in Peer
  BY <1>0, <1>4 DEF WellFormed, Occupancy
<1> HIDE DEF r
<1>6. Place' = [Place EXCEPT ![p] = r]
  BY <1>4 DEF Place
<1>7. Roster' = [Roster EXCEPT ![r] = @ \cup {p}] /\ Roster[r] = {registry.rooms[r][1]}
  <2>1. Roster' = [x \in Room |-> Inside(registry', x)]
    BY DEF Roster, Inside
  <2> QED BY <1>4, <1>5, <2>1, RosterInside
<1>8. UNCHANGED <<Left, Owed, notes>>
  BY <1>3 DEF Left, Owed
<1> QED BY <1>2, <1>5, <1>6, <1>7, <1>8, AbstractEnter

(* An announcement introduces the newcomer to its roommate, or nobody is   *)
(* there to hear it.                                                       *)
LEMMA AnnounceMatches ==
  ASSUME Inv, NotesInv, NEW p \in Peer, Announce(p)
  PROVE  Abstract!Next \/ UNCHANGED <<Place, Roster, Left, Owed, notes>>
<1> DEFINE q == Partner(registry, p)
<1>1. UNCHANGED <<registry, conn, leftTo>>
  BY DEF Announce, tasks
<1>2. UNCHANGED <<Place, Roster, Left, Owed>>
  BY <1>1 DEF Place, Roster, Left, Owed, Registered
<1>3. CASE q = NoPeer \/ conn[q] # "up"
  BY <1>2, <1>3 DEF Announce, Notify
<1>4. CASE q # NoPeer /\ conn[q] = "up"
  <2>1. notes' = [notes EXCEPT ![q] = Append(@, Msg("PeerJoined", p))]
    BY <1>4 DEF Announce, Notify
  <2>2. p \in Registered /\ q \in Peer
    BY <1>4, PartnerType DEF Partner, Registered
  <2>3. q \in Inside(registry, registry.peer_room[p]) \ {p}
    BY <1>4, <2>2, InvWellFormed, PartnerInside DEF Registered
  <2>4. Place[p] # NoRoom /\ q \in Roster[Place[p]] \ {p}
    BY <2>2, <2>3, PlaceRegistered, RosterInside
  <2>5. ~Sent(q, "PeerJoined", p)
    BY <2>2 DEF Announce, NotesInv, Announced
  <2> HIDE DEF q
  <2> QED BY <1>2, <2>1, <2>2, <2>4, <2>5, AbstractIntroduce
<1> QED BY <1>3, <1>4

(* remove is the departure. *)
LEMMA UnregisterMatches ==
  ASSUME Inv, NEW p \in Peer, Unregister(p)
  PROVE  Abstract!Next
<1> DEFINE q == Partner(registry, p)
<1>0. WellFormed(registry) /\ conn \in [Peer -> ConnState] /\ leftTo \in [Peer -> Peer \cup {NoPeer}]
  BY InvWellFormed DEF Inv, TypeOK, TaskType
<1>1. /\ conn[p] = "closing" /\ conn'[p] = IF q = NoPeer THEN "dropping" ELSE "notifying"
      /\ leftTo'[p] = q /\ registry' = Remove(registry, p) /\ notes' = notes
      /\ \A x \in Peer \ {p} : conn'[x] = conn[x] /\ leftTo'[x] = leftTo[x]
  BY <1>0 DEF Unregister, history
<1>2. p \notin Left /\ Left' = Left \cup {p}
  BY <1>1 DEF Left
<1>3. Owed' = [Owed EXCEPT ![p] = q]
  BY <1>1 DEF Owed
<1>4. /\ \A x : Inside(registry', x) = Inside(registry, x) \ {p}
      /\ Registered' = Registered \ {p}
      /\ \A x \in Registered \ {p} : registry'.peer_room[x] = registry.peer_room[x]
  BY <1>0, <1>1, RemovePlaces DEF Registered
<1>5. Place' = [Place EXCEPT ![p] = NoRoom]
  BY <1>4 DEF Place
<1>6. Roster' = [r \in Room |-> Roster[r] \ {p}]
  <2>1. Roster' = [x \in Room |-> Inside(registry', x)]
    BY DEF Roster, Inside
  <2> QED BY <1>4, <2>1, RosterInside
<1>7. IF Place[p] = NoRoom \/ Roster[Place[p]] \ {p} = {} THEN q = NoPeer
      ELSE q \in Roster[Place[p]] \ {p}
  <2>1. CASE p \notin Registered
    <3>1. Place[p] = NoRoom /\ q = NoPeer
      BY <2>1, PlaceRegistered DEF Partner, Registered
    <3> QED BY <3>1
  <2>2. CASE p \in Registered
    <3>1. Place[p] # NoRoom /\ Roster[Place[p]] = Inside(registry, registry.peer_room[p])
      BY <2>2, PlaceRegistered, RosterInside
    <3>2. IF Inside(registry, registry.peer_room[p]) \ {p} = {} THEN q = NoPeer
          ELSE q \in Inside(registry, registry.peer_room[p]) \ {p}
      BY <1>0, <2>2, PartnerInside DEF Registered
    <3> QED BY <3>1, <3>2
  <2> QED BY <2>1, <2>2
<1> HIDE DEF q
<1> QED BY <1>1, <1>2, <1>3, <1>5, <1>6, <1>7, AbstractLeave

(* The farewell pays the debt. *)
LEMMA NotifyLeftMatches ==
  ASSUME Inv, NotesInv, NEW p \in Peer, NotifyLeft(p)
  PROVE  Abstract!Next
<1>0. conn \in [Peer -> ConnState] /\ leftTo[p] \in Peer \cup {NoPeer}
  BY DEF Inv, TypeOK, TaskType
<1>1. /\ conn[p] = "notifying" /\ conn'[p] = "dropping" /\ leftTo[p] # NoPeer
      /\ \A x \in Peer \ {p} : conn'[x] = conn[x]
      /\ registry' = registry /\ leftTo' = leftTo
  BY <1>0 DEF NotifyLeft, NotesInv
<1>2. UNCHANGED <<Place, Roster>>
  BY <1>1 DEF Place, Roster, Registered
<1>3. UNCHANGED Left
  BY <1>1 DEF Left
<1>4. Owed[p] = leftTo[p] /\ Owed' = [Owed EXCEPT ![p] = NoPeer]
  BY <1>1 DEF Owed
<1>5. ~Sent(leftTo[p], "PeerLeft", p)
  BY <1>0, <1>1 DEF NotesInv, Farewelled
<1>6. UNCHANGED notes \/ notes' = [notes EXCEPT ![leftTo[p]] = Append(@, Msg("PeerLeft", p))]
  BY DEF NotifyLeft, Notify
<1> QED BY <1>1, <1>2, <1>3, <1>4, <1>5, <1>6, AbstractTellLeft

(* Every step of the server is a step of the matchmaker or none. *)
LEMMA MatchStep ==
  ASSUME Inv, NotesInv, [Next]_vars
  PROVE  [Abstract!Next]_(Abstract!vars)
<1> DEFINE Quiet == UNCHANGED <<Place, Roster, Left, Owed, notes>>
<1>1. ASSUME UNCHANGED <<registry, conn, leftTo, notes>> PROVE Quiet
  BY <1>1 DEF Place, Roster, Left, Owed, Registered
<1>2. ASSUME NEW p \in Peer, CreateRoom(p) PROVE Abstract!Next
  <2>1. Pending(p) /\ UNCHANGED <<conn, leftTo, notes>>
    BY <1>2, ReadsAsks DEF CreateRoom, tasks
  <2>2. PICK r \in Room : registry' = Create(registry, p, r)
    BY <1>2 DEF CreateRoom, gen_room_id
  <2> QED BY <2>1, <2>2, CreateMatches
<1>3. ASSUME NEW p \in Peer, ReclaimCreate(p) PROVE Abstract!Next
  <2>1. Pending(p) /\ UNCHANGED <<conn, leftTo, notes>> /\ registry' = Create(registry, p, want[p])
    BY <1>3 DEF ReclaimCreate, Pending, Asking, tasks
  <2>2. want[p] \in Room
    BY <1>3, <2>1, AskingUntouched DEF ReclaimCreate, Untouched, Inv, TypeOK, WireType
  <2> QED BY <2>1, <2>2, CreateMatches
<1>4. ASSUME NEW p \in Peer, JoinRoom(p) PROVE Abstract!Next \/ Quiet
  <2>1. CASE JoinOutcome(registry, want[p]) = "Joined"
    BY <1>4, <2>1, JoinMatches
  <2>2. CASE JoinOutcome(registry, want[p]) # "Joined"
    BY <1>1, <1>4, <2>2 DEF JoinRoom, Join, tasks, history
  <2> QED BY <2>1, <2>2
<1>5. ASSUME NEW p \in Peer, Announce(p) PROVE Abstract!Next \/ Quiet
  BY <1>5, AnnounceMatches
<1>6. ASSUME NEW p \in Peer, Unregister(p) \/ NotifyLeft(p) PROVE Abstract!Next
  BY <1>6, UnregisterMatches, NotifyLeftMatches
<1>7. ASSUME NEW p \in Peer, RecvEnds(p) \/ SendFails(p) \/ DropSender(p) \/ Connect(p) PROVE Quiet
  <2>0. conn \in [Peer -> ConnState]
    BY DEF Inv, TypeOK, TaskType
  <2>1. registry' = registry /\ leftTo' = leftTo /\ notes' = notes
    BY <1>7 DEF RecvEnds, SendFails, DropSender, Connect, history
  <2>2. Connect(p) => conn[p] \in {"off", "up"}
    BY PendingUnplaced DEF Connect, Pending
  <2>3. /\ \A q \in Peer \ {p} : conn'[q] = conn[q]
        /\ \/ conn[p] = "dropping" /\ conn'[p] = "gone"
           \/ conn[p] \in {"off", "up"} /\ conn'[p] \in {"up", "closing"}
    BY <1>7, <2>0, <2>2 DEF RecvEnds, SendFails, DropSender, Connect
  <2>4. UNCHANGED <<Place, Roster>>
    BY <2>1 DEF Place, Roster, Registered
  <2>5. UNCHANGED Left
    BY <2>3 DEF Left
  <2>6. UNCHANGED Owed
    BY <2>1, <2>3 DEF Owed
  <2> QED BY <2>1, <2>4, <2>5, <2>6
<1>8. ASSUME NEW p \in Peer,
             \/ SendCreated(p) \/ TakeNow(p) \/ CheckAllowed(p) \/ Record(p) \/ Refuse(p)
             \/ ReclaimContains(p) \/ LookupPartner(p) \/ SendRelay(p) \/ ClientOpen(p)
             \/ ClientRelay(p) \/ Deliver(p) \/ \E how \in Losses : ClientLost(p, how)
      PROVE  UNCHANGED <<registry, conn, leftTo, notes>>
  BY <1>8 DEF SendCreated, TakeNow, CheckAllowed, Record, Refuse, ReclaimContains, LookupPartner,
       SendRelay, ClientOpen, ClientRelay, Deliver, ClientLost, tasks, history
<1>9. ASSUME UNCHANGED vars PROVE Quiet
  BY <1>1, <1>9 DEF vars, tasks, history
<1> HIDE DEF Quiet
<1>10. Abstract!Next \/ Quiet
  BY <1>1, <1>2, <1>3, <1>4, <1>5, <1>6, <1>7, <1>8, <1>9 DEF Next, Handler, Cleanup
<1> QED BY <1>10, AbstractStutter DEF Quiet

(* The initial states correspond. *)
LEMMA InitMatches == Init => Abstract!Init /\ NotesInv
<1> SUFFICES ASSUME Init PROVE Abstract!Init /\ NotesInv
  OBVIOUS
<1>1. DOMAIN registry.rooms = {} /\ Registered = {}
  BY DEF Init, EmptyRegistry, Registered
<1>2. Abstract!Init
  BY <1>1 DEF Init, Abstract!Init, Contains
<1>3. NotesInv
  BY DEF Init, NotesInv, Sent
<1> QED BY <1>2, <1>3

(* The server implements the matchmaker: whatever its tasks do between two *)
(* critical sections, a peer gets one place, a room of one is entered, a   *)
(* newcomer is announced once and only to its roommate, and a departure is *)
(* told once and only to one who shared the room (ws.rs 103-257 over       *)
(* rooms.rs).                                                              *)
THEOREM ServerImplementsMatchmaker == Spec => Matches
<1>1. Init => Abstract!Init /\ NotesInv
  BY InitMatches
<1>2. Inv /\ NotesInv /\ [Next]_vars => NotesInv'
  BY NotesStep
<1>3. Inv /\ NotesInv /\ [Next]_vars => [Abstract!Next]_(Abstract!vars)
  BY MatchStep
<1> QED BY <1>1, <1>2, <1>3, ServerInv, PTL DEF Spec, Matches, Abstract!Spec

=============================================================================
