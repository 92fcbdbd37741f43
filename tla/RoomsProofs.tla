---------------------------- MODULE RoomsProofs ----------------------------
(***************************************************************************)
(* What the operations of the room registry preserve and return, for every *)
(* set of peers and of rooms.                                              *)
(***************************************************************************)
EXTENDS Rooms, SequenceTheorems, TLAPS

(* s is a possible Vec of the peers of room r: one or two different peers  *)
(* that the reverse index places there.                                    *)
Occupancy(s, r, index) ==
    /\ s \in Seq(Peer)
    /\ Len(s) \in 1..2
    /\ \A i, j \in 1..Len(s) : s[i] = s[j] => i = j
    /\ \A i \in 1..Len(s) : s[i] \in DOMAIN index /\ index[s[i]] = r

WellFormed(reg) ==
    /\ DOMAIN reg.rooms \subseteq Room
    /\ DOMAIN reg.peer_room \subseteq Peer
    /\ \A p \in DOMAIN reg.peer_room : reg.peer_room[p] \in Room
    /\ \A r \in DOMAIN reg.rooms : Occupancy(reg.rooms[r], r, reg.peer_room)

(* An occupancy does not depend on the entries of other peers. *)
LEMMA OccupancyMonotone ==
  ASSUME NEW s, NEW r, NEW index, NEW other, Occupancy(s, r, index),
         \A i \in 1..Len(s) : s[i] \in DOMAIN other /\ other[s[i]] = index[s[i]]
  PROVE  Occupancy(s, r, other)
  BY DEF Occupancy

(* RoomRegistry::new is well formed and registers nobody. *)
LEMMA EmptyWellFormed == WellFormed(EmptyRegistry) /\ DOMAIN EmptyRegistry.peer_room = {}
  BY DEF WellFormed, EmptyRegistry

(* Inserting a peer that is in no room leaves the other rooms alone. *)
LEMMA PutKeepsOccupancy ==
  ASSUME NEW s, NEW r, NEW index, Occupancy(s, r, index),
         NEW p, p \notin DOMAIN index, NEW x
  PROVE  Occupancy(s, r, Put(index, p, x))
<1>1. \A i \in 1..Len(s) : /\ s[i] \in DOMAIN Put(index, p, x)
                           /\ Put(index, p, x)[s[i]] = index[s[i]]
  BY DEF Occupancy, Put
<1> QED BY <1>1, OccupancyMonotone

(* create by a peer that is in no room registers it and keeps the registry *)
(* well formed, even when it replaces a room.                              *)
LEMMA CreateWellFormed ==
  ASSUME NEW reg, WellFormed(reg),
         NEW p \in Peer, p \notin DOMAIN reg.peer_room, NEW r \in Room
  PROVE  /\ WellFormed(Create(reg, p, r))
         /\ DOMAIN Create(reg, p, r).peer_room = DOMAIN reg.peer_room \cup {p}
<1> DEFINE index == Put(reg.peer_room, p, r)
           map == Put(reg.rooms, r, <<p>>)
<1>1. Create(reg, p, r).rooms = map /\ Create(reg, p, r).peer_room = index
  BY DEF Create
<1>2. /\ DOMAIN index = DOMAIN reg.peer_room \cup {p}
      /\ \A q \in DOMAIN index : index[q] \in Room
      /\ index[p] = r
  BY DEF Put, WellFormed
<1>3. /\ DOMAIN map = DOMAIN reg.rooms \cup {r}
      /\ map[r] = <<p>>
      /\ \A x \in DOMAIN reg.rooms \ {r} : map[x] = reg.rooms[x]
  BY DEF Put
<1>4. Occupancy(<<p>>, r, index)
  BY <1>2 DEF Occupancy
<1>5. \A x \in DOMAIN reg.rooms : Occupancy(reg.rooms[x], x, index)
  BY PutKeepsOccupancy DEF WellFormed
<1> HIDE DEF index, map
<1>6. \A x \in DOMAIN map : Occupancy(map[x], x, index)
  BY <1>3, <1>4, <1>5
<1> QED BY <1>1, <1>2, <1>3, <1>6 DEF WellFormed

(* join by a peer that is in no room keeps the registry well formed, and   *)
(* registers the peer exactly when its outcome is Joined.                  *)
LEMMA JoinWellFormed ==
  ASSUME NEW reg, WellFormed(reg),
         NEW p \in Peer, p \notin DOMAIN reg.peer_room, NEW r
  PROVE  /\ WellFormed(Join(reg, p, r))
         /\ DOMAIN Join(reg, p, r).peer_room
              = IF JoinOutcome(reg, r) = "Joined" THEN DOMAIN reg.peer_room \cup {p}
                ELSE DOMAIN reg.peer_room
         /\ JoinOutcome(reg, r) \in {"Joined", "Full", "NotFound"}
<1>1. JoinOutcome(reg, r) \in {"Joined", "Full", "NotFound"}
  BY DEF JoinOutcome
<1>2. CASE JoinOutcome(reg, r) # "Joined"
  BY <1>1, <1>2 DEF Join
<1>3. CASE JoinOutcome(reg, r) = "Joined"
  <2> DEFINE s == reg.rooms[r]
             index == Put(reg.peer_room, p, r)
             map == Put(reg.rooms, r, Append(s, p))
  <2>1. r \in DOMAIN reg.rooms /\ r \in Room /\ Occupancy(s, r, reg.peer_room)
    BY <1>3 DEF JoinOutcome, Contains, WellFormed
  <2>2. Len(s) = 1
    <3>1. ~(Len(s) >= 2)
      BY <1>3, <2>1 DEF JoinOutcome, Contains
    <3>2. Len(s) \in 1..2
      BY <2>1 DEF Occupancy
    <3> QED BY <3>1, <3>2
  <2>3. Join(reg, p, r).rooms = map /\ Join(reg, p, r).peer_room = index
    BY <1>3 DEF Join
  <2>4. /\ DOMAIN index = DOMAIN reg.peer_room \cup {p}
        /\ \A q \in DOMAIN index : index[q] \in Room
        /\ index[p] = r
    BY <2>1 DEF Put, WellFormed
  <2>5. /\ DOMAIN map = DOMAIN reg.rooms
        /\ map[r] = Append(s, p)
        /\ \A x \in DOMAIN reg.rooms \ {r} : map[x] = reg.rooms[x]
    BY <2>1 DEF Put
  <2>6. \A x \in DOMAIN reg.rooms : Occupancy(reg.rooms[x], x, index)
    BY PutKeepsOccupancy DEF WellFormed
  <2>7. Occupancy(Append(s, p), r, index)
    <3>1. s \in Seq(Peer) /\ s[1] \in DOMAIN reg.peer_room
      BY <2>1, <2>2 DEF Occupancy
    <3>2. /\ Append(s, p) \in Seq(Peer) /\ Len(Append(s, p)) = 2
          /\ Append(s, p)[1] = s[1] /\ Append(s, p)[2] = p
      BY <2>2, <3>1
    <3>3. s[1] # p /\ index[s[1]] = r
      BY <2>1, <2>2, <2>6, <3>1 DEF Occupancy
    <3> HIDE DEF s, index
    <3> QED BY <2>4, <3>1, <3>2, <3>3 DEF Occupancy
  <2> HIDE DEF index, map, s
  <2>8. \A x \in DOMAIN map : Occupancy(map[x], x, index)
    BY <2>5, <2>6, <2>7
  <2>9. WellFormed(Join(reg, p, r))
    BY <2>3, <2>4, <2>5, <2>8 DEF WellFormed
  <2> QED BY <1>1, <1>3, <2>3, <2>4, <2>9
<1> QED BY <1>2, <1>3

(* partner names another registered peer, or nobody. *)
LEMMA PartnerRegistered ==
  ASSUME NEW reg, WellFormed(reg), NEW p
  PROVE  Partner(reg, p) = NoPeer \/ Partner(reg, p) \in DOMAIN reg.peer_room \ {p}
<1> SUFFICES ASSUME p \in DOMAIN reg.peer_room, reg.peer_room[p] \in DOMAIN reg.rooms
             PROVE  Partner(reg, p) = NoPeer \/ Partner(reg, p) \in DOMAIN reg.peer_room \ {p}
  BY DEF Partner
<1> DEFINE r == reg.peer_room[p]
           s == reg.rooms[r]
           others == {i \in 1..Len(s) : s[i] # p}
<1>0. Occupancy(s, r, reg.peer_room) /\ Partner(reg, p) = FirstOther(s, p)
  BY DEF Partner, WellFormed
<1>1. CASE others = {}
  BY <1>0, <1>1 DEF FirstOther
<1>2. CASE others # {}
  <2>1. \E i \in others : \A j \in others : i <= j
    BY <1>0, <1>2 DEF Occupancy
  <2>2. PICK i \in others : FirstOther(s, p) = s[i]
    BY <1>2, <2>1 DEF FirstOther
  <2> QED BY <1>0, <2>2 DEF Occupancy
<1> QED BY <1>1, <1>2

(* retain drops p from a room of one or two peers and keeps the other. *)
LEMMA RetainDrops ==
  ASSUME NEW s \in Seq(Peer), Len(s) \in 1..2, NEW p \in Peer,
         \A i, j \in 1..Len(s) : s[i] = s[j] => i = j
  PROVE  /\ Retain(s, p) \in Seq(Peer)
         /\ Len(Retain(s, p)) \in 0..2
         /\ \A i \in 1..Len(Retain(s, p)) :
               Retain(s, p)[i] # p /\ \E j \in 1..Len(s) : Retain(s, p)[i] = s[j]
         /\ \A i, j \in 1..Len(Retain(s, p)) : Retain(s, p)[i] = Retain(s, p)[j] => i = j
<1>1. CASE ~\E i \in 1..Len(s) : s[i] = p
  BY <1>1 DEF Retain
<1>2. CASE \E i \in 1..Len(s) : s[i] = p
  <2>1. PICK k \in 1..Len(s) :
           /\ s[k] = p
           /\ Retain(s, p) = [i \in 1..(Len(s) - 1) |-> IF i < k THEN s[i] ELSE s[i + 1]]
    BY <1>2 DEF Retain
  <2> DEFINE left == [i \in 1..(Len(s) - 1) |-> IF i < k THEN s[i] ELSE s[i + 1]]
  <2>2. left \in Seq(Peer) /\ Len(left) = Len(s) - 1
    OBVIOUS
  <2>3. ASSUME NEW i \in 1..(Len(s) - 1)
        PROVE  i = 1 /\ left[i] # p /\ \E j \in 1..Len(s) : left[i] = s[j]
    BY <2>1
  <2> HIDE DEF left
  <2>4. Len(left) \in 0..2
    BY <2>2
  <2> QED BY <2>1, <2>2, <2>3, <2>4 DEF left
<1> QED BY <1>1, <1>2

(* remove unregisters the peer, whether or not its room still lists it,    *)
(* and keeps the registry well formed: an empty room is dropped.           *)
LEMMA RemoveWellFormed ==
  ASSUME NEW reg, WellFormed(reg), NEW p \in Peer
  PROVE  /\ WellFormed(Remove(reg, p))
         /\ DOMAIN Remove(reg, p).peer_room = DOMAIN reg.peer_room \ {p}
<1> DEFINE r == reg.peer_room[p]
           index == Drop(reg.peer_room, p)
           left == Retain(reg.rooms[r], p)
<1>1. CASE p \notin DOMAIN reg.peer_room
  BY <1>1 DEF Remove
<1>2. CASE p \in DOMAIN reg.peer_room
  <2>1. Remove(reg, p).peer_room = index
    BY <1>2 DEF Remove
  <2>2. /\ DOMAIN index = DOMAIN reg.peer_room \ {p}
        /\ \A q \in DOMAIN index : index[q] = reg.peer_room[q] /\ index[q] \in Room
    BY DEF Drop, WellFormed
  <2>3. ASSUME NEW x \in DOMAIN reg.rooms, x # r
        PROVE  Occupancy(reg.rooms[x], x, index)
    <3>1. Occupancy(reg.rooms[x], x, reg.peer_room)
      BY DEF WellFormed
    <3>2. \A i \in 1..Len(reg.rooms[x]) : reg.rooms[x][i] # p
      BY <2>3, <3>1 DEF Occupancy
    <3>3. \A i \in 1..Len(reg.rooms[x]) :
             reg.rooms[x][i] \in DOMAIN index /\ index[reg.rooms[x][i]] = reg.peer_room[reg.rooms[x][i]]
      BY <2>2, <3>1, <3>2 DEF Occupancy
    <3> HIDE DEF index
    <3> QED BY <3>1, <3>3, OccupancyMonotone
  <2>4. CASE r \notin DOMAIN reg.rooms
    <3>1. Remove(reg, p).rooms = reg.rooms
      BY <1>2, <2>4 DEF Remove
    <3> HIDE DEF r, index
    <3> QED BY <2>1, <2>2, <2>3, <2>4, <3>1 DEF WellFormed
  <2>5. CASE r \in DOMAIN reg.rooms
    <3> DEFINE s == reg.rooms[r]
               map == Remove(reg, p).rooms
    <3>1. Occupancy(s, r, reg.peer_room)
      BY <2>5 DEF WellFormed
    <3>2. /\ left \in Seq(Peer) /\ Len(left) \in 0..2
          /\ \A i \in 1..Len(left) : left[i] # p /\ \E j \in 1..Len(s) : left[i] = s[j]
          /\ \A i, j \in 1..Len(left) : left[i] = left[j] => i = j
      BY <3>1, RetainDrops DEF Occupancy
    <3>3. map = IF left = <<>> THEN Drop(reg.rooms, r) ELSE [reg.rooms EXCEPT ![r] = left]
      BY <1>2, <2>5 DEF Remove
    <3> HIDE DEF left
    <3>4. /\ DOMAIN map \subseteq DOMAIN reg.rooms
          /\ \A x \in DOMAIN map \ {r} : map[x] = reg.rooms[x]
          /\ r \in DOMAIN map => map[r] = left /\ left # <<>>
      BY <2>5, <3>3 DEF Drop
    <3> HIDE DEF map
    <3>5. left # <<>> => Occupancy(left, r, index)
      <4>1. \A i \in 1..Len(left) : left[i] \in DOMAIN index /\ index[left[i]] = r
        <5> HIDE DEF index, r, s
        <5>1. TAKE i \in 1..Len(left)
        <5>2. PICK j \in 1..Len(s) : left[i] = s[j]
          BY <3>2
        <5>3. s[j] \in DOMAIN reg.peer_room /\ reg.peer_room[s[j]] = r
          BY <3>1 DEF Occupancy
        <5> QED BY <2>2, <3>2, <5>2, <5>3
      <4> HIDE DEF index, r, s
      <4> QED BY <3>2, <4>1 DEF Occupancy
    <3> HIDE DEF index, r, s
    <3>6. \A x \in DOMAIN map : Occupancy(map[x], x, index)
      BY <2>3, <3>4, <3>5
    <3>7. WellFormed(Remove(reg, p))
      BY <2>1, <2>2, <3>4, <3>6 DEF WellFormed, map
    <3> QED BY <2>1, <2>2, <3>7
  <2> QED BY <2>4, <2>5
<1> QED BY <1>1, <1>2

-----------------------------------------------------------------------------
(* Who is where. *)

(* The peers of a room, none when there is no such room. *)
Inside(reg, r) == IF Contains(reg, r) THEN Members(reg, r) ELSE {}

(* create moves p into r, alone, and leaves the other rooms and the other  *)
(* entries of the index alone.                                             *)
LEMMA CreatePlaces ==
  ASSUME NEW reg, NEW p, NEW r
  PROVE  /\ Inside(Create(reg, p, r), r) = {p}
         /\ \A x : x # r => Inside(Create(reg, p, r), x) = Inside(reg, x)
         /\ DOMAIN Create(reg, p, r).rooms = DOMAIN reg.rooms \cup {r}
         /\ \A x \in DOMAIN reg.rooms \ {r} : Create(reg, p, r).rooms[x] = reg.rooms[x]
         /\ DOMAIN Create(reg, p, r).peer_room = DOMAIN reg.peer_room \cup {p}
         /\ Create(reg, p, r).peer_room[p] = r
         /\ \A q \in DOMAIN reg.peer_room \ {p} : Create(reg, p, r).peer_room[q] = reg.peer_room[q]
<1> DEFINE new == Create(reg, p, r)
<1>1. new.rooms = Put(reg.rooms, r, <<p>>) /\ new.peer_room = Put(reg.peer_room, p, r)
  BY DEF Create
<1>2. /\ DOMAIN new.rooms = DOMAIN reg.rooms \cup {r} /\ new.rooms[r] = <<p>>
      /\ \A x \in DOMAIN reg.rooms \ {r} : new.rooms[x] = reg.rooms[x]
  BY <1>1 DEF Put
<1>3. /\ DOMAIN new.peer_room = DOMAIN reg.peer_room \cup {p} /\ new.peer_room[p] = r
      /\ \A q \in DOMAIN reg.peer_room \ {p} : new.peer_room[q] = reg.peer_room[q]
  BY <1>1 DEF Put
<1> HIDE DEF new
<1>4. Inside(new, r) = {p}
  BY <1>2 DEF Inside, Contains, Members
<1>5. ASSUME NEW x, x # r PROVE Inside(new, x) = Inside(reg, x)
  BY <1>2, <1>5 DEF Inside, Contains, Members
<1> QED BY <1>2, <1>3, <1>4, <1>5 DEF new

(* join adds p to a room of one and leaves everything else alone. *)
LEMMA JoinPlaces ==
  ASSUME NEW reg, WellFormed(reg), NEW p \in Peer, NEW r, JoinOutcome(reg, r) = "Joined"
  PROVE  /\ r \in DOMAIN reg.rooms /\ Len(reg.rooms[r]) = 1
         /\ Inside(reg, r) = {reg.rooms[r][1]}
         /\ Inside(Join(reg, p, r), r) = Inside(reg, r) \cup {p}
         /\ \A x : x # r => Inside(Join(reg, p, r), x) = Inside(reg, x)
         /\ DOMAIN Join(reg, p, r).rooms = DOMAIN reg.rooms
         /\ \A x \in DOMAIN reg.rooms \ {r} : Join(reg, p, r).rooms[x] = reg.rooms[x]
         /\ DOMAIN Join(reg, p, r).peer_room = DOMAIN reg.peer_room \cup {p}
         /\ Join(reg, p, r).peer_room[p] = r
         /\ \A q \in DOMAIN reg.peer_room \ {p} : Join(reg, p, r).peer_room[q] = reg.peer_room[q]
<1> DEFINE new == Join(reg, p, r)
           s == reg.rooms[r]
<1>1. r \in DOMAIN reg.rooms /\ ~(Len(s) >= 2)
  BY DEF JoinOutcome, Contains
<1>2. s \in Seq(Peer) /\ Len(s) \in 1..2
  BY <1>1 DEF WellFormed, Occupancy
<1>3. Len(s) = 1
  BY <1>1, <1>2
<1>4. Len(Append(s, p)) = 2 /\ Append(s, p)[1] = s[1] /\ Append(s, p)[2] = p
  <2> HIDE DEF s
  <2>1. /\ Len(Append(s, p)) = Len(s) + 1 /\ Append(s, p)[Len(s) + 1] = p
        /\ \A i \in 1..Len(s) : Append(s, p)[i] = s[i]
    BY <1>2, AppendProperties
  <2> QED BY <1>3, <2>1
<1>5. new.rooms = Put(reg.rooms, r, Append(s, p)) /\ new.peer_room = Put(reg.peer_room, p, r)
  BY DEF Join
<1>6. /\ DOMAIN new.rooms = DOMAIN reg.rooms /\ new.rooms[r] = Append(s, p)
      /\ \A x \in DOMAIN reg.rooms \ {r} : new.rooms[x] = reg.rooms[x]
  BY <1>1, <1>5 DEF Put
<1>7. /\ DOMAIN new.peer_room = DOMAIN reg.peer_room \cup {p} /\ new.peer_room[p] = r
      /\ \A q \in DOMAIN reg.peer_room \ {p} : new.peer_room[q] = reg.peer_room[q]
  BY <1>5 DEF Put
<1> HIDE DEF new
<1>8. Inside(reg, r) = {s[1]}
  BY <1>1, <1>3 DEF Inside, Contains, Members
<1>9. Inside(new, r) = {s[1], p}
  <2>1. Inside(new, r) = {Append(s, p)[i] : i \in 1..2}
    BY <1>1, <1>4, <1>6 DEF Inside, Contains, Members
  <2> QED BY <1>4, <2>1
<1>10. ASSUME NEW x, x # r PROVE Inside(new, x) = Inside(reg, x)
  BY <1>6, <1>10 DEF Inside, Contains, Members
<1> QED BY <1>1, <1>3, <1>4, <1>6, <1>7, <1>8, <1>9, <1>10 DEF new

(* retain keeps everybody but p. *)
LEMMA RetainKeeps ==
  ASSUME NEW s \in Seq(Peer), Len(s) \in 1..2, NEW p \in Peer,
         \A i, j \in 1..Len(s) : s[i] = s[j] => i = j
  PROVE  \A j \in 1..Len(s) : s[j] # p => \E i \in 1..Len(Retain(s, p)) : Retain(s, p)[i] = s[j]
<1>1. CASE ~\E i \in 1..Len(s) : s[i] = p
  BY <1>1 DEF Retain
<1>2. CASE \E i \in 1..Len(s) : s[i] = p
  <2>1. PICK k \in 1..Len(s) :
           /\ s[k] = p
           /\ Retain(s, p) = [i \in 1..(Len(s) - 1) |-> IF i < k THEN s[i] ELSE s[i + 1]]
    BY <1>2 DEF Retain
  <2> DEFINE left == [i \in 1..(Len(s) - 1) |-> IF i < k THEN s[i] ELSE s[i + 1]]
  <2> SUFFICES ASSUME NEW j \in 1..Len(s), s[j] # p
               PROVE  \E i \in 1..Len(left) : left[i] = s[j]
    BY <2>1
  <2>2. left \in Seq(Peer) /\ Len(left) = Len(s) - 1
    OBVIOUS
  <2>3. j # k /\ Len(s) = 2
    BY <2>1
  <2>4. 1 \in 1..Len(left) /\ left[1] = s[j]
    BY <2>2, <2>3
  <2> QED BY <2>4
<1> QED BY <1>1, <1>2

(* remove takes p out of its room, and nobody else out of any. *)
LEMMA RemovePlaces ==
  ASSUME NEW reg, WellFormed(reg), NEW p \in Peer
  PROVE  /\ \A x : Inside(Remove(reg, p), x) = Inside(reg, x) \ {p}
         /\ DOMAIN Remove(reg, p).rooms \subseteq DOMAIN reg.rooms
         /\ DOMAIN Remove(reg, p).peer_room = DOMAIN reg.peer_room \ {p}
         /\ \A q \in DOMAIN reg.peer_room \ {p} : Remove(reg, p).peer_room[q] = reg.peer_room[q]
<1> DEFINE new == Remove(reg, p)
           r == reg.peer_room[p]
           left == Retain(reg.rooms[r], p)
<1>1. ASSUME NEW x, p \notin DOMAIN reg.peer_room \/ x # r PROVE p \notin Inside(reg, x)
  BY <1>1 DEF Inside, Contains, Members, WellFormed, Occupancy
<1>2. CASE p \notin DOMAIN reg.peer_room
  <2>1. new = reg
    BY <1>2 DEF Remove
  <2> QED BY <1>1, <1>2, <2>1
<1>3. CASE p \in DOMAIN reg.peer_room
  <2>1. new.peer_room = Drop(reg.peer_room, p)
    BY <1>3 DEF Remove
  <2>2. /\ DOMAIN new.peer_room = DOMAIN reg.peer_room \ {p}
        /\ \A q \in DOMAIN reg.peer_room \ {p} : new.peer_room[q] = reg.peer_room[q]
    BY <2>1 DEF Drop
  <2>3. CASE r \notin DOMAIN reg.rooms
    <3>1. new.rooms = reg.rooms
      BY <1>3, <2>3 DEF Remove
    <3>2. \A x : Inside(new, x) = Inside(reg, x)
      BY <3>1 DEF Inside, Contains, Members
    <3>3. p \notin Inside(reg, r)
      BY <2>3 DEF Inside, Contains
    <3> QED BY <1>1, <2>2, <3>1, <3>2, <3>3
  <2>4. CASE r \in DOMAIN reg.rooms
    <3>1. new.rooms = IF left = <<>> THEN Drop(reg.rooms, r) ELSE [reg.rooms EXCEPT ![r] = left]
      BY <1>3, <2>4 DEF Remove
    <3>2. /\ reg.rooms[r] \in Seq(Peer) /\ Len(reg.rooms[r]) \in 1..2
          /\ \A i, j \in 1..Len(reg.rooms[r]) : reg.rooms[r][i] = reg.rooms[r][j] => i = j
      BY <2>4 DEF WellFormed, Occupancy
    <3>3. /\ left \in Seq(Peer)
          /\ \A i \in 1..Len(left) : left[i] # p /\ \E j \in 1..Len(reg.rooms[r]) : left[i] = reg.rooms[r][j]
          /\ \A j \in 1..Len(reg.rooms[r]) : reg.rooms[r][j] # p => \E i \in 1..Len(left) : left[i] = reg.rooms[r][j]
      BY <3>2, RetainDrops, RetainKeeps
    <3> HIDE DEF left, new
    <3>4. /\ DOMAIN new.rooms \subseteq DOMAIN reg.rooms
          /\ DOMAIN reg.rooms \ {r} \subseteq DOMAIN new.rooms
          /\ \A x \in DOMAIN new.rooms \ {r} : new.rooms[x] = reg.rooms[x]
          /\ r \in DOMAIN new.rooms <=> left # <<>>
          /\ r \in DOMAIN new.rooms => new.rooms[r] = left
      BY <2>4, <3>1 DEF Drop
    <3>5. Inside(reg, r) \ {p} = {left[i] : i \in 1..Len(left)}
      <4> DEFINE s == reg.rooms[r]
      <4>1. Inside(reg, r) = {s[j] : j \in 1..Len(s)}
        BY <2>4 DEF Inside, Contains, Members
      <4> HIDE DEF s
      <4>2. /\ \A i \in 1..Len(left) : left[i] # p /\ \E j \in 1..Len(s) : left[i] = s[j]
            /\ \A j \in 1..Len(s) : s[j] # p => \E i \in 1..Len(left) : left[i] = s[j]
        BY <3>3 DEF s
      <4> QED BY <4>1, <4>2
    <3>6. Inside(new, r) = {left[i] : i \in 1..Len(left)}
      BY <3>3, <3>4 DEF Inside, Contains, Members
    <3>7. ASSUME NEW x, x # r PROVE Inside(new, x) = Inside(reg, x) \ {p}
      <4>1. Inside(new, x) = Inside(reg, x)
        <5> HIDE DEF r
        <5> QED BY <3>4, <3>7 DEF Inside, Contains, Members
      <4> QED BY <1>1, <3>7, <4>1
    <3> QED BY <2>2, <3>4, <3>5, <3>6, <3>7 DEF new
  <2> QED BY <2>3, <2>4
<1> QED BY <1>2, <1>3

(* partner names somebody in the room that the index gives p, if there is  *)
(* anybody else.                                                           *)
LEMMA PartnerInside ==
  ASSUME NEW reg, WellFormed(reg), NEW p \in DOMAIN reg.peer_room
  PROVE  IF Inside(reg, reg.peer_room[p]) \ {p} = {} THEN Partner(reg, p) = NoPeer
         ELSE Partner(reg, p) \in Inside(reg, reg.peer_room[p]) \ {p}
<1> DEFINE r == reg.peer_room[p]
           s == reg.rooms[r]
           others == {i \in 1..Len(s) : s[i] # p}
<1>1. CASE r \notin DOMAIN reg.rooms
  BY <1>1 DEF Inside, Contains, Partner
<1>2. CASE r \in DOMAIN reg.rooms
  <2>1. Inside(reg, r) = {s[i] : i \in 1..Len(s)} /\ Partner(reg, p) = FirstOther(s, p)
    BY <1>2 DEF Inside, Contains, Members, Partner
  <2>2. CASE others = {}
    BY <2>1, <2>2 DEF FirstOther
  <2>3. CASE others # {}
    <3>1. Len(s) \in 1..2
      BY <1>2 DEF WellFormed, Occupancy
    <3>2. \E i \in others : \A j \in others : i <= j
      BY <2>3, <3>1
    <3>3. PICK i \in others : FirstOther(s, p) = s[i]
      BY <2>3, <3>2 DEF FirstOther
    <3>4. s[i] \in Inside(reg, r) \ {p}
      BY <2>1
    <3> QED BY <2>1, <3>3, <3>4
  <2> QED BY <2>2, <2>3
<1> QED BY <1>1, <1>2

(* Two peers in one room have it to themselves and are partners. *)
LEMMA PartnersPair ==
  ASSUME NEW reg, WellFormed(reg), NEW r, NEW p \in Inside(reg, r), NEW q \in Inside(reg, r), p # q
  PROVE  /\ p \in DOMAIN reg.peer_room /\ q \in DOMAIN reg.peer_room
         /\ reg.peer_room[p] = r /\ reg.peer_room[q] = r
         /\ Inside(reg, r) = {p, q}
         /\ Partner(reg, p) = q /\ Partner(reg, q) = p
<1>1. r \in DOMAIN reg.rooms /\ Inside(reg, r) = {reg.rooms[r][i] : i \in 1..Len(reg.rooms[r])}
  BY DEF Inside, Contains, Members
<1>2. Occupancy(reg.rooms[r], r, reg.peer_room)
  BY <1>1 DEF WellFormed
<1>3. \A x \in Inside(reg, r) : x \in DOMAIN reg.peer_room /\ reg.peer_room[x] = r
  BY <1>1, <1>2 DEF Occupancy
<1>4. Inside(reg, r) = {p, q}
  <2>1. Len(reg.rooms[r]) \in 1..2
    BY <1>2 DEF Occupancy
  <2> QED BY <1>1, <2>1
<1> QED BY <1>3, <1>4, PartnerInside

-----------------------------------------------------------------------------
(* Who came first. *)

(* Nobody was evicted: who has an entry in the index is in that room. *)
Seated(reg) == \A p \in DOMAIN reg.peer_room : p \in Inside(reg, reg.peer_room[p])

(* p came to its room before the other, if there is one. *)
First(reg, p) == p \in DOMAIN reg.peer_room /\ reg.rooms[reg.peer_room[p]][1] = p

(* One that is alone is the first; of two partners one is. *)
LEMMA FirstOfTwo ==
  ASSUME NEW reg, WellFormed(reg), Seated(reg), NEW p \in DOMAIN reg.peer_room, NoPeer \notin Peer
  PROVE  LET q == Partner(reg, p) IN
         /\ q = NoPeer => First(reg, p)
         /\ q # NoPeer => /\ q \in DOMAIN reg.peer_room \ {p} /\ Partner(reg, q) = p
                          /\ reg.peer_room[q] = reg.peer_room[p]
                          /\ First(reg, p) <=> ~First(reg, q)
<1> DEFINE r == reg.peer_room[p]
           q == Partner(reg, p)
           s == reg.rooms[r]
<1>1. p \in Inside(reg, r)
  BY DEF Seated
<1>2. r \in DOMAIN reg.rooms /\ Inside(reg, r) = {s[i] : i \in 1..Len(s)}
  BY <1>1 DEF Inside, Contains, Members
<1>3. s[1] \in Inside(reg, r)
  <2>1. Len(s) \in 1..2
    BY <1>2 DEF WellFormed, Occupancy
  <2> HIDE DEF s
  <2> QED BY <1>2, <2>1
<1>4. CASE Inside(reg, r) \ {p} = {}
  <2>1. q = NoPeer
    BY <1>4, PartnerInside
  <2>2. s[1] = p
    BY <1>3, <1>4
  <2>3. q # NoPeer => FALSE
    BY <2>1
  <2> QED BY <2>2, <2>3 DEF First
<1>5. CASE Inside(reg, r) \ {p} # {}
  <2>1. q \in Inside(reg, r) \ {p}
    BY <1>5, PartnerInside
  <2>2. /\ q \in DOMAIN reg.peer_room /\ reg.peer_room[q] = r /\ Partner(reg, q) = p
        /\ Inside(reg, r) = {p, q}
    BY <1>1, <2>1, PartnersPair
  <2>3. s[1] = p <=> s[1] # q
    BY <1>3, <2>1, <2>2
  <2>4. First(reg, p) <=> ~First(reg, q)
    BY <2>2, <2>3 DEF First
  <2>5. q # NoPeer
    BY <2>2 DEF WellFormed
  <2> QED BY <2>1, <2>2, <2>4, <2>5
<1> QED BY <1>4, <1>5

(* Rooms that are the same have the same partners and the same first peer. *)
LEMMA SameRoom ==
  ASSUME NEW reg, NEW new, NEW p \in DOMAIN reg.peer_room, p \in DOMAIN new.peer_room,
         new.peer_room[p] = reg.peer_room[p],
         Contains(new, reg.peer_room[p]), Contains(reg, reg.peer_room[p]),
         new.rooms[reg.peer_room[p]] = reg.rooms[reg.peer_room[p]]
  PROVE  Partner(new, p) = Partner(reg, p) /\ (First(new, p) <=> First(reg, p))
  BY DEF Partner, First, Contains

(* create by one that is in no room, of a room that is not there. *)
LEMMA CreateSeats ==
  ASSUME NEW reg, WellFormed(reg), Seated(reg), NoPeer \notin Peer,
         NEW p \in Peer, p \notin DOMAIN reg.peer_room, NEW r \in Room, ~Contains(reg, r)
  PROVE  LET new == Create(reg, p, r) IN
         /\ Seated(new) /\ Partner(new, p) = NoPeer /\ First(new, p)
         /\ \A q \in DOMAIN reg.peer_room :
               Partner(new, q) = Partner(reg, q) /\ (First(new, q) <=> First(reg, q))
<1> DEFINE new == Create(reg, p, r)
<1>1. /\ Inside(new, r) = {p} /\ \A x : x # r => Inside(new, x) = Inside(reg, x)
      /\ DOMAIN new.rooms = DOMAIN reg.rooms \cup {r}
      /\ \A x \in DOMAIN reg.rooms \ {r} : new.rooms[x] = reg.rooms[x]
      /\ DOMAIN new.peer_room = DOMAIN reg.peer_room \cup {p} /\ new.peer_room[p] = r
      /\ \A q \in DOMAIN reg.peer_room \ {p} : new.peer_room[q] = reg.peer_room[q]
  BY CreatePlaces
<1>2. WellFormed(new)
  BY CreateWellFormed
<1> HIDE DEF new
<1>3. \A q \in DOMAIN reg.peer_room : reg.peer_room[q] \in DOMAIN reg.rooms /\ reg.peer_room[q] # r
  BY DEF Seated, Inside, Contains
<1>4. Seated(new)
  BY <1>1, <1>3 DEF Seated
<1>5. Partner(new, p) = NoPeer
  BY <1>1, <1>2, PartnerInside
<1>6. First(new, p)
  BY <1>1, <1>2, <1>4, <1>5, FirstOfTwo
<1>7. ASSUME NEW q \in DOMAIN reg.peer_room
      PROVE  Partner(new, q) = Partner(reg, q) /\ (First(new, q) <=> First(reg, q))
  BY <1>1, <1>3, SameRoom DEF Contains
<1> QED BY <1>4, <1>5, <1>6, <1>7 DEF new

(* join by one that is in no room: it is second to the one who was alone. *)
LEMMA JoinSeats ==
  ASSUME NEW reg, WellFormed(reg), Seated(reg), NoPeer \notin Peer,
         NEW p \in Peer, p \notin DOMAIN reg.peer_room, NEW r, JoinOutcome(reg, r) = "Joined"
  PROVE  LET new == Join(reg, p, r)
             q == Partner(new, p)
         IN
         /\ Seated(new) /\ q \in DOMAIN reg.peer_room
         /\ Partner(reg, q) = NoPeer /\ First(reg, q) /\ Partner(new, q) = p /\ ~First(new, p)
         /\ \A x \in DOMAIN reg.peer_room : First(new, x) <=> First(reg, x)
         /\ \A x \in DOMAIN reg.peer_room \ {q} : Partner(new, x) = Partner(reg, x)
<1> DEFINE new == Join(reg, p, r)
           q == Partner(new, p)
           a == reg.rooms[r][1]
<1>1. /\ r \in DOMAIN reg.rooms /\ Len(reg.rooms[r]) = 1
      /\ Inside(reg, r) = {a} /\ Inside(new, r) = Inside(reg, r) \cup {p}
      /\ \A x : x # r => Inside(new, x) = Inside(reg, x)
      /\ DOMAIN new.rooms = DOMAIN reg.rooms
      /\ \A x \in DOMAIN reg.rooms \ {r} : new.rooms[x] = reg.rooms[x]
      /\ DOMAIN new.peer_room = DOMAIN reg.peer_room \cup {p} /\ new.peer_room[p] = r
      /\ \A x \in DOMAIN reg.peer_room \ {p} : new.peer_room[x] = reg.peer_room[x]
  BY JoinPlaces
<1>2. WellFormed(new)
  BY JoinWellFormed
<1>3. new.rooms[r][1] = a
  <2>1. reg.rooms[r] \in Seq(Peer)
    BY <1>1 DEF WellFormed, Occupancy
  <2>2. new.rooms = Put(reg.rooms, r, Append(reg.rooms[r], p))
    BY DEF Join
  <2>3. new.rooms[r] = Append(reg.rooms[r], p)
    BY <2>2 DEF Put
  <2>4. Append(reg.rooms[r], p)[1] = reg.rooms[r][1]
    BY <1>1, <2>1, AppendProperties
  <2> QED BY <2>3, <2>4
<1>4. a \in DOMAIN reg.peer_room /\ reg.peer_room[a] = r
  BY <1>1 DEF WellFormed, Occupancy
<1> HIDE DEF new, a
<1>5. \A x \in DOMAIN reg.peer_room : reg.peer_room[x] \in DOMAIN reg.rooms /\ x \in Inside(reg, reg.peer_room[x])
  BY DEF Seated, Inside, Contains
<1>6. Seated(new)
  <2> SUFFICES ASSUME NEW x \in DOMAIN new.peer_room PROVE x \in Inside(new, new.peer_room[x])
    BY DEF Seated
  <2>1. CASE x = p
    BY <1>1, <2>1
  <2>2. CASE x # p
    BY <1>1, <1>5, <2>2
  <2> QED BY <2>1, <2>2
<1>7. q = a /\ Partner(new, a) = p
  BY <1>1, <1>2, <1>4, PartnersPair
<1>8. Partner(reg, a) = NoPeer /\ First(reg, a)
  BY <1>1, <1>4, PartnerInside, FirstOfTwo
<1>9. ~First(new, p) /\ First(new, a)
  BY <1>1, <1>3, <1>4 DEF First
<1>10. ASSUME NEW x \in DOMAIN reg.peer_room \ {a}
       PROVE  Partner(new, x) = Partner(reg, x) /\ (First(new, x) <=> First(reg, x))
  <2>1. reg.peer_room[x] # r
    BY <1>1, <1>5
  <2> QED BY <1>1, <1>5, <2>1, SameRoom DEF Contains
<1> QED BY <1>4, <1>6, <1>7, <1>8, <1>9, <1>10 DEF new

(* remove: the partner, if any, is alone then, and first. *)
LEMMA RemoveSeats ==
  ASSUME NEW reg, WellFormed(reg), Seated(reg), NoPeer \notin Peer, NEW p \in Peer
  PROVE  LET new == Remove(reg, p)
             q == Partner(reg, p)
         IN
         /\ Seated(new)
         /\ q # NoPeer => Partner(new, q) = NoPeer /\ First(new, q)
         /\ \A x \in DOMAIN reg.peer_room \ {p, q} :
               Partner(new, x) = Partner(reg, x) /\ (First(new, x) <=> First(reg, x))
<1> DEFINE new == Remove(reg, p)
           q == Partner(reg, p)
           r == reg.peer_room[p]
           left == Retain(reg.rooms[r], p)
<1>1. /\ \A x : Inside(new, x) = Inside(reg, x) \ {p}
      /\ DOMAIN new.peer_room = DOMAIN reg.peer_room \ {p}
      /\ \A x \in DOMAIN reg.peer_room \ {p} : new.peer_room[x] = reg.peer_room[x]
  BY RemovePlaces
<1>2. WellFormed(new)
  BY RemoveWellFormed
<1>3. Seated(new)
  BY <1>1 DEF Seated
<1>4. CASE p \notin DOMAIN reg.peer_room
  <2>1. new = reg /\ q = NoPeer
    BY <1>4 DEF Remove, Partner
  <2> QED BY <1>3, <2>1
<1>5. CASE p \in DOMAIN reg.peer_room
  <2>1. r \in DOMAIN reg.rooms /\ p \in Inside(reg, r)
    BY <1>5 DEF Seated, Inside, Contains
  <2>2. \A x \in DOMAIN reg.rooms \ {r} : x \in DOMAIN new.rooms /\ new.rooms[x] = reg.rooms[x]
    <3>1. new.rooms = IF left = <<>> THEN Drop(reg.rooms, r) ELSE [reg.rooms EXCEPT ![r] = left]
      BY <1>5, <2>1 DEF Remove
    <3> HIDE DEF left
    <3> QED BY <3>1 DEF Drop
  <2>3. ASSUME q # NoPeer PROVE Partner(new, q) = NoPeer /\ First(new, q)
    <3>1. q \in DOMAIN reg.peer_room \ {p} /\ reg.peer_room[q] = r
      BY <1>5, <2>3, FirstOfTwo
    <3>2. q \in Inside(reg, r)
      BY <3>1 DEF Seated
    <3>3. Inside(reg, r) = {p, q}
      BY <2>1, <3>1, <3>2, PartnersPair
    <3>4. q \in DOMAIN new.peer_room /\ Inside(new, new.peer_room[q]) = {q}
      BY <1>1, <3>1, <3>3
    <3>5. Partner(new, q) = NoPeer
      BY <1>2, <3>4, PartnerInside
    <3> QED BY <1>2, <1>3, <3>4, <3>5, FirstOfTwo
  <2>4. ASSUME NEW x \in DOMAIN reg.peer_room \ {p, q}
        PROVE  Partner(new, x) = Partner(reg, x) /\ (First(new, x) <=> First(reg, x))
    <3>1. x \in Inside(reg, reg.peer_room[x]) /\ reg.peer_room[x] \in DOMAIN reg.rooms
      BY DEF Seated, Inside, Contains
    <3>2. reg.peer_room[x] # r
      BY <2>1, <2>4, <3>1, PartnersPair
    <3>3. x \in DOMAIN new.peer_room /\ new.peer_room[x] = reg.peer_room[x]
      BY <1>1, <2>4
    <3>4. reg.peer_room[x] \in DOMAIN new.rooms /\ new.rooms[reg.peer_room[x]] = reg.rooms[reg.peer_room[x]]
      BY <2>2, <3>1, <3>2
    <3> HIDE DEF new
    <3> QED BY <3>1, <3>3, <3>4, SameRoom DEF Contains
  <2> QED BY <1>3, <2>3, <2>4
<1> QED BY <1>4, <1>5

=============================================================================
