-------------------------- MODULE RendezvousProofs --------------------------
(***************************************************************************)
(* Proofs about tabs that meet through the server, for any number of tabs, *)
(* connections, rooms and mishaps: a tab that waits can be found           *)
(* (WaitingIsFindable) and the link of a page is kept (LinkKept).          *)
(***************************************************************************)
EXTENDS Rendezvous, RoomsProofs, FiniteSetTheorems

RoomOrNone == Room \cup {NoRoom}

SessionType ==
    [room_in_hash : RoomOrNone, owns : RoomOrNone, reclaim_tried : BOOLEAN, has_pc : BOOLEAN]

Ws == {"CONNECTING", "OPEN", "CLOSING", "CLOSED", "OFF"}

PageType ==
    [ws : Ws, sock : Peer \cup {NoPeer}, session : SessionType, status : Status,
     pc : Nat, transfer : Nat]

PcType ==
    [tab : Tab, role : {"Offer", "Answer"}, remote : Nat,
     local : BOOLEAN, opened : BOOLEAN, closed : BOOLEAN]

(* What tabs send and what they are sent: requests for a place, the        *)
(* refusals, Created, and what a peer that has its place hears of the other.*)
Asks == {"Create", "Join", "Reclaim"}
Refusals == {"RoomNotFound", "RoomFull"}
Relays == {"Offer", "Answer"}
Notices == {"PeerJoined", "PeerLeft"} \cup Relays

Request == [type : Asks \cup Relays, room : RoomOrNone, pc : Nat]
Reply == [type : {"Created"} \cup Refusals \cup Notices, room : RoomOrNone, pc : Nat]

Types ==
    /\ tab \in [Tab -> PageType]
    /\ pcs \in Seq(PcType)
    /\ srv \in [Peer -> {"off", "up", "gone"}]
    /\ inbox \in [Peer -> Seq(Request)]
    /\ outbox \in [Peer -> Seq(Reply)]

(* Every peer connection that is named has been built. *)
Built ==
    /\ \A t \in Tab : tab[t].pc <= Len(pcs) /\ tab[t].transfer <= Len(pcs)
    /\ \A i \in 1..Len(pcs) : pcs[i].remote <= Len(pcs)
    /\ \A c \in Peer : /\ \A i \in 1..Len(inbox[c]) : inbox[c][i].pc <= Len(pcs)
                       /\ \A i \in 1..Len(outbox[c]) : outbox[c][i].pc <= Len(pcs)

Housed(c) == c \in DOMAIN registry.peer_room

(* A tab without the page waits in no room. *)
Absent(page) ==
    page.session.room_in_hash = NoRoom /\ page.status \notin {"WaitingForPeer", "PeerLeft"}

(* Connections are numbered as they are opened, each is of one tab, and    *)
(* nobody knows of one to come; the server forgets one that is gone.       *)
SockInv ==
    /\ \E n \in Nat : {c \in Peer : srv[c] # "off"} = 1..n
    /\ \A c \in Peer : srv[c] = "off" =>
          inbox[c] = <<>> /\ outbox[c] = <<>> /\ \A t \in Tab : tab[t].sock # c
    /\ \A c \in Peer : Housed(c) => srv[c] = "up"
    /\ \A t, u \in Tab : tab[t].sock = tab[u].sock /\ tab[t].sock # NoPeer => t = u
    /\ \A t \in Tab : /\ tab[t].ws \in {"OPEN", "CLOSING"} <=> tab[t].sock # NoPeer
                      /\ tab[t].ws = "OFF" => Absent(tab[t])

(* The requests in, and the replies out, of connection c of a page whose   *)
(* URL names the room hash, at a server whose index is idx.                *)
HasAsk(in) == \E i \in 1..Len(in) : in[i].type \in Asks
HasRefusal(out) == \E i \in 1..Len(out) : out[i].type \in Refusals

(* A connection asks for one place, and only as long as it has none. *)
Asked(c, in, idx) ==
    /\ \A i, j \in 1..Len(in) : in[i].type \in Asks /\ in[j].type \in Asks => i = j
    /\ HasAsk(in) => c \notin DOMAIN idx
    /\ \A i \in 1..Len(in) : in[i].type \in {"Join", "Reclaim"} => in[i].room \in Room

(* It asks for the room of its URL or, if there is none, for a new one; it *)
(* is refused at most once, without a place or another request on the way; *)
(* and its place is the room of its URL, unless the reply that names the   *)
(* room is the very next one it will read.                                 *)
Told(c, in, out, hash, idx) ==
    /\ \A i \in 1..Len(in) :
          /\ in[i].type = "Create" => hash = NoRoom
          /\ in[i].type \in {"Join", "Reclaim"} => hash # NoRoom /\ in[i].room = hash
    /\ HasRefusal(out) => c \notin DOMAIN idx /\ ~HasAsk(in)
    /\ \A i, j \in 1..Len(out) : out[i].type \in Refusals /\ out[j].type \in Refusals => i = j
    /\ c \in DOMAIN idx =>
          \/ idx[c] = hash
          \/ /\ hash = NoRoom /\ out # <<>> /\ out[1].type = "Created" /\ out[1].room = idx[c]
    /\ \A i \in 1..Len(out) :
          /\ out[i].type \in Notices => c \in DOMAIN idx
          /\ out[i].type = "Created" =>
                /\ c \in DOMAIN idx /\ out[i].room = idx[c]
                /\ hash = NoRoom => i = 1

AskInv == \A c \in Peer : Asked(c, inbox[c], registry.peer_room)

TellInv ==
    \A t \in Tab : LET c == tab[t].sock IN
        tab[t].ws = "OPEN" =>
            Told(c, inbox[c], outbox[c], tab[t].session.room_in_hash, registry.peer_room)

(* A tab that says it waits has its place, or is asking for it, or is      *)
(* about to hear that it will not get one.                                 *)
WaitInv ==
    \A t \in Tab : LET c == tab[t].sock IN
        tab[t].ws = "OPEN" /\ srv[c] = "up" /\ tab[t].status \in {"WaitingForPeer", "PeerLeft"}
            => Housed(c) \/ HasAsk(inbox[c]) \/ HasRefusal(outbox[c])

MeetInv == Types /\ Built /\ WellFormed(registry) /\ SockInv /\ AskInv /\ TellInv /\ WaitInv

-----------------------------------------------------------------------------
(* Requests and replies of one connection. *)

(* The fields of a message. *)
LEMMA MsgFields ==
  ASSUME NEW y, NEW r, NEW n
  PROVE  /\ Msg(y, r, n).type = y /\ Msg(y, r, n).room = r /\ Msg(y, r, n).pc = n
         /\ y \in Asks \cup Relays /\ r \in RoomOrNone /\ n \in Nat => Msg(y, r, n) \in Request
         /\ y \in {"Created"} \cup Refusals \cup Notices /\ r \in RoomOrNone /\ n \in Nat
               => Msg(y, r, n) \in Reply
  BY DEF Msg, Request, Reply

(* The first element of a sequence and the others. *)
LEMMA Parts ==
  ASSUME NEW S, NEW s \in Seq(S), s # <<>>
  PROVE  /\ Len(s) \in Nat \ {0} /\ Len(Tail(s)) = Len(s) - 1 /\ Tail(s) \in Seq(S)
         /\ Head(s) = s[1] /\ Head(s) \in S
         /\ \A i \in 1..Len(Tail(s)) : i + 1 \in 1..Len(s) /\ Tail(s)[i] = s[i + 1]
<1>1. Len(s) \in Nat \ {0} /\ Len(Tail(s)) = Len(s) - 1 /\ Tail(s) \in Seq(S) /\ Head(s) = s[1]
  BY HeadTailProperties, EmptySeq
<1>2. \A i \in 1..Len(Tail(s)) : i + 1 \in 1..Len(s) /\ Tail(s)[i] = s[i + 1]
  BY <1>1
<1>3. s[1] \in S
  BY <1>1, ElementOfSeq
<1> QED BY <1>1, <1>2, <1>3

(* An appended element and the others. *)
LEMMA Grown ==
  ASSUME NEW S, NEW s \in Seq(S), NEW x \in S
  PROVE  /\ Len(s) \in Nat /\ Len(Append(s, x)) = Len(s) + 1 /\ Append(s, x) \in Seq(S)
         /\ Append(s, x)[Len(s) + 1] = x
         /\ \A i \in 1..Len(s) : i \in 1..Len(Append(s, x)) /\ Append(s, x)[i] = s[i]
         /\ \A i \in 1..Len(Append(s, x)) : i \in 1..Len(s) \/ i = Len(s) + 1
<1>1. /\ Len(s) \in Nat /\ Len(Append(s, x)) = Len(s) + 1 /\ Append(s, x) \in Seq(S)
      /\ Append(s, x)[Len(s) + 1] = x /\ \A i \in 1..Len(s) : Append(s, x)[i] = s[i]
  BY AppendProperties, LenProperties
<1> QED BY <1>1

(* What is left of a sequence that is cut short. *)
LEMMA CutOff ==
  ASSUME NEW S, NEW s \in Seq(S), NEW n \in 0..Len(s)
  PROVE  /\ SubSeq(s, 1, n) \in Seq(S) /\ Len(SubSeq(s, 1, n)) = n
         /\ \A i \in 1..Len(SubSeq(s, 1, n)) : i \in 1..Len(s) /\ SubSeq(s, 1, n)[i] = s[i]
<1>1. Len(s) \in Nat
  BY LenProperties
<1>2. /\ Len(SubSeq(s, 1, n)) = n /\ \A i \in 1..n : SubSeq(s, 1, n)[i] = s[i]
  BY <1>1, SubSeqProperties
<1>3. \A i \in 1..n : i \in 1..Len(s) /\ s[i] \in S
  BY <1>1, ElementOfSeq
<1>4. SubSeq(s, 1, n) = [i \in 1..n |-> s[i]]
  BY <1>1
<1>5. SubSeq(s, 1, n) \in Seq(S)
  BY <1>1, <1>3, <1>4
<1> QED BY <1>2, <1>3, <1>5

(* What of the requests is left, when some are read or lost. *)
LEMMA AskedLess ==
  ASSUME NEW c, NEW idx, NEW in \in Seq(Request), Asked(c, in, idx)
  PROVE  /\ in # <<>> => Asked(c, Tail(in), idx)
         /\ in # <<>> /\ Head(in).type \in Asks => c \notin DOMAIN idx /\ ~HasAsk(Tail(in))
         /\ in # <<>> /\ ~(Head(in).type \in Asks) => (HasAsk(in) <=> HasAsk(Tail(in)))
         /\ \A n \in 0..Len(in) : Asked(c, SubSeq(in, 1, n), idx)
<1>1. ASSUME in # <<>>
      PROVE  /\ Asked(c, Tail(in), idx)
             /\ Head(in).type \in Asks => c \notin DOMAIN idx /\ ~HasAsk(Tail(in))
             /\ ~(Head(in).type \in Asks) => (HasAsk(in) <=> HasAsk(Tail(in)))
  <2> DEFINE s == Tail(in)
  <2>1. /\ Len(in) \in Nat \ {0} /\ Len(s) = Len(in) - 1 /\ Head(in) = in[1]
        /\ \A i \in 1..Len(s) : i + 1 \in 1..Len(in) /\ s[i] = in[i + 1]
    BY <1>1, Parts
  <2>2. 1 \in 1..Len(in) /\ \A i \in 1..Len(in) : i = 1 \/ (i - 1 \in 1..Len(s) /\ s[i - 1] = in[i])
    BY <2>1
  <2> HIDE DEF s
  <2>3. \A i, j \in 1..Len(s) : s[i].type \in Asks /\ s[j].type \in Asks => i = j
    BY <2>1 DEF Asked
  <2>4. HasAsk(s) => HasAsk(in)
    BY <2>1 DEF HasAsk
  <2>5. \A i \in 1..Len(s) : s[i].type \in {"Join", "Reclaim"} => s[i].room \in Room
    BY <2>1 DEF Asked
  <2>6. Head(in).type \in Asks => HasAsk(in) /\ ~HasAsk(s)
    BY <2>1, <2>2 DEF HasAsk, Asked
  <2>7. ~(Head(in).type \in Asks) /\ HasAsk(in) => HasAsk(s)
    BY <2>1, <2>2 DEF HasAsk
  <2> QED BY <2>3, <2>4, <2>5, <2>6, <2>7 DEF Asked, s
<1>2. ASSUME NEW n \in 0..Len(in) PROVE Asked(c, SubSeq(in, 1, n), idx)
  <2> DEFINE s == SubSeq(in, 1, n)
  <2>1. \A i \in 1..Len(s) : i \in 1..Len(in) /\ s[i] = in[i]
    BY CutOff
  <2> HIDE DEF s
  <2> QED BY <2>1 DEF Asked, HasAsk, s
<1> QED BY <1>1, <1>2

(* A description sent. *)
LEMMA AskedRelay ==
  ASSUME NEW c, NEW idx, NEW in \in Seq(Request), Asked(c, in, idx),
         NEW m \in Request, m.type \in Relays
  PROVE  Asked(c, Append(in, m), idx) /\ (HasAsk(Append(in, m)) <=> HasAsk(in))
<1> DEFINE s == Append(in, m)
<1>1. /\ Len(in) \in Nat /\ Len(s) = Len(in) + 1 /\ s[Len(in) + 1] = m
      /\ \A i \in 1..Len(in) : i \in 1..Len(s) /\ s[i] = in[i]
      /\ \A i \in 1..Len(s) : i \in 1..Len(in) \/ i = Len(in) + 1
  BY Grown
<1>2. ~(m.type \in Asks)
  BY DEF Relays, Asks
<1> HIDE DEF s
<1>3. \A i \in 1..Len(s) : s[i].type \in Asks => i \in 1..Len(in) /\ s[i] = in[i]
  BY <1>1, <1>2
<1>4. {"Join", "Reclaim"} \subseteq Asks
  BY DEF Asks
<1> QED BY <1>1, <1>3, <1>4 DEF Asked, HasAsk, s

(* A request for a place, by one that has none and is not asking. *)
LEMMA AskedOnce ==
  ASSUME NEW c, NEW idx, NEW in \in Seq(Request), Asked(c, in, idx), ~HasAsk(in), c \notin DOMAIN idx,
         NEW m \in Request, m.type \in {"Join", "Reclaim"} => m.room \in Room
  PROVE  Asked(c, Append(in, m), idx)
<1> DEFINE s == Append(in, m)
<1>1. /\ Len(in) \in Nat /\ Len(s) = Len(in) + 1 /\ s[Len(in) + 1] = m
      /\ \A i \in 1..Len(in) : i \in 1..Len(s) /\ s[i] = in[i]
      /\ \A i \in 1..Len(s) : i \in 1..Len(in) \/ i = Len(in) + 1
  BY Grown
<1> HIDE DEF s
<1>2. \A i \in 1..Len(s) : s[i].type \in Asks => i = Len(in) + 1
  BY <1>1 DEF HasAsk
<1>3. {"Join", "Reclaim"} \subseteq Asks
  BY DEF Asks
<1> QED BY <1>1, <1>2, <1>3 DEF Asked, s

(* What a connection is told depends on its own entry in the index only. *)
LEMMA SameEntry ==
  ASSUME NEW c, NEW in, NEW out, NEW hash, NEW idx, NEW new,
         c \in DOMAIN new <=> c \in DOMAIN idx, c \in DOMAIN idx => new[c] = idx[c]
  PROVE  /\ Asked(c, in, idx) => Asked(c, in, new)
         /\ Told(c, in, out, hash, idx) => Told(c, in, out, hash, new)
<1>1. Asked(c, in, idx) => Asked(c, in, new)
  BY DEF Asked
<1>2. Told(c, in, out, hash, idx) => Told(c, in, out, hash, new)
  BY DEF Told
<1> QED BY <1>1, <1>2

(* While it asks, nothing is on its way to it. *)
LEMMA NothingYet ==
  ASSUME NEW c, NEW in, NEW out \in Seq(Reply), NEW hash, NEW idx,
         Told(c, in, out, hash, idx), HasAsk(in), c \notin DOMAIN idx
  PROVE  out = <<>>
<1>1. Len(out) \in Nat /\ \A i \in 1..Len(out) : out[i] \in Reply
  BY LenProperties, ElementOfSeq
<1>2. \A i \in 1..Len(out) : FALSE
  BY <1>1 DEF Told, HasRefusal, Reply
<1>3. Len(out) = 0
  BY <1>1, <1>2
<1> QED BY <1>3, EmptySeq

(* The tab sends a description. *)
LEMMA ToldRelay ==
  ASSUME NEW c, NEW in \in Seq(Request), NEW out, NEW hash, NEW idx, Told(c, in, out, hash, idx),
         NEW m \in Request, m.type \in Relays
  PROVE  Told(c, Append(in, m), out, hash, idx)
<1> DEFINE s == Append(in, m)
<1>1. /\ Len(in) \in Nat /\ Len(s) = Len(in) + 1 /\ s[Len(in) + 1] = m
      /\ \A i \in 1..Len(in) : i \in 1..Len(s) /\ s[i] = in[i]
      /\ \A i \in 1..Len(s) : i \in 1..Len(in) \/ i = Len(in) + 1
  BY Grown
<1>2. ~(m.type \in Asks) /\ {"Create", "Join", "Reclaim"} \subseteq Asks
  BY DEF Relays, Asks
<1> HIDE DEF s
<1>3. \A i \in 1..Len(s) : s[i].type \in Asks => i \in 1..Len(in) /\ s[i] = in[i]
  BY <1>1, <1>2
<1>4. HasAsk(s) => HasAsk(in)
  BY <1>3 DEF HasAsk
<1>5. \A i \in 1..Len(s) : /\ s[i].type = "Create" => hash = NoRoom
                           /\ s[i].type \in {"Join", "Reclaim"} => hash # NoRoom /\ s[i].room = hash
  BY <1>2, <1>3 DEF Told
<1> QED BY <1>4, <1>5 DEF Told, s

(* The server has read the first request. *)
LEMMA ToldHandled ==
  ASSUME NEW c, NEW in \in Seq(Request), in # <<>>, NEW out, NEW hash, NEW idx,
         Told(c, in, out, hash, idx)
  PROVE  Told(c, Tail(in), out, hash, idx)
<1> DEFINE s == Tail(in)
<1>1. \A i \in 1..Len(s) : i + 1 \in 1..Len(in) /\ s[i] = in[i + 1]
  BY Parts
<1> HIDE DEF s
<1>2. HasAsk(s) => HasAsk(in)
  BY <1>1 DEF HasAsk
<1>3. \A i \in 1..Len(s) : /\ s[i].type = "Create" => hash = NoRoom
                           /\ s[i].type \in {"Join", "Reclaim"} => hash # NoRoom /\ s[i].room = hash
  BY <1>1 DEF Told
<1> QED BY <1>2, <1>3 DEF Told, s

(* One that has its place hears of the other. *)
LEMMA ToldNotice ==
  ASSUME NEW c, NEW in, NEW out \in Seq(Reply), NEW hash, NEW idx, Told(c, in, out, hash, idx),
         c \in DOMAIN idx, NEW m \in Reply, m.type \in Notices
  PROVE  Told(c, in, Append(out, m), hash, idx)
<1> DEFINE s == Append(out, m)
<1>1. /\ Len(out) \in Nat /\ Len(s) = Len(out) + 1 /\ s[Len(out) + 1] = m
      /\ \A i \in 1..Len(out) : i \in 1..Len(s) /\ s[i] = out[i]
      /\ \A i \in 1..Len(s) : i \in 1..Len(out) \/ i = Len(out) + 1
  BY Grown
<1>2. ~(m.type \in Refusals) /\ m.type # "Created"
  BY DEF Refusals, Notices, Relays
<1>3. out # <<>> => s # <<>> /\ s[1] = out[1]
  BY <1>1, EmptySeq
<1> HIDE DEF s
<1>4. \A i \in 1..Len(s) : s[i].type \in Refusals \cup {"Created"} => i \in 1..Len(out) /\ s[i] = out[i]
  BY <1>1, <1>2
<1>5. HasRefusal(s) => HasRefusal(out)
  BY <1>4 DEF HasRefusal
<1>6. \A i, j \in 1..Len(s) : s[i].type \in Refusals /\ s[j].type \in Refusals => i = j
  BY <1>4 DEF Told
<1>7. \A i \in 1..Len(s) :
          s[i].type = "Created" => c \in DOMAIN idx /\ s[i].room = idx[c] /\ (hash = NoRoom => i = 1)
  BY <1>4 DEF Told
<1> QED BY <1>3, <1>5, <1>6, <1>7 DEF Told, s

(* The only reply to one that asked, whatever it is. *)
LEMMA ToldReply ==
  ASSUME NEW c, NEW in, ~HasAsk(in), NEW hash, NEW idx, NEW m \in Reply,
         \/ m.type \in Refusals /\ c \notin DOMAIN idx
         \/ m.type = "Created" /\ c \in DOMAIN idx /\ m.room = idx[c] /\ (hash = NoRoom \/ hash = idx[c])
  PROVE  Told(c, in, <<m>>, hash, idx)
<1> DEFINE out == <<m>>
<1>1. Len(out) = 1 /\ out[1] = m /\ out # <<>> /\ \A i \in 1..Len(out) : i = 1
  OBVIOUS
<1>2. {"Create", "Join", "Reclaim"} \subseteq Asks /\ "Created" \notin Refusals \cup Notices
      /\ Refusals \cap Notices = {}
  BY DEF Asks, Refusals, Notices, Relays
<1> HIDE DEF out
<1>3. \A i \in 1..Len(in) : ~(in[i].type \in {"Create", "Join", "Reclaim"})
  BY <1>2 DEF HasAsk
<1>4. HasRefusal(out) => c \notin DOMAIN idx
  BY <1>1, <1>2 DEF HasRefusal
<1>5. \A i, j \in 1..Len(out) : i = j
  BY <1>1
<1>6. c \in DOMAIN idx => hash = idx[c] \/ (hash = NoRoom /\ out # <<>> /\ out[1].type = "Created" /\ out[1].room = idx[c])
  BY <1>1
<1>7. \A i \in 1..Len(out) :
          /\ out[i].type \in Notices => c \in DOMAIN idx
          /\ out[i].type = "Created" => c \in DOMAIN idx /\ out[i].room = idx[c] /\ (hash = NoRoom => i = 1)
  BY <1>1, <1>2
<1>8. Told(c, in, out, hash, idx)
  BY <1>3, <1>4, <1>5, <1>6, <1>7 DEF Told
<1> QED BY <1>8 DEF out

(* A place without a reply, as Join gives it. *)
LEMMA ToldJoined ==
  ASSUME NEW c, NEW in, ~HasAsk(in), NEW hash, NEW idx, c \in DOMAIN idx, idx[c] = hash
  PROVE  Told(c, in, <<>>, hash, idx)
<1>1. {"Create", "Join", "Reclaim"} \subseteq Asks
  BY DEF Asks
<1>2. \A i \in 1..Len(in) : ~(in[i].type \in {"Create", "Join", "Reclaim"})
  BY <1>1 DEF HasAsk
<1>3. Len(<<>>) = 0 /\ \A i \in 1..Len(<<>>) : FALSE
  OBVIOUS
<1>4. ~HasRefusal(<<>>)
  BY <1>3 DEF HasRefusal
<1> QED BY <1>2, <1>3, <1>4 DEF Told

(* The tab reads the first reply, which may name its room. *)
LEMMA ToldReads ==
  ASSUME NEW c, NEW in, NEW out \in Seq(Reply), out # <<>>, NEW hash, NEW idx,
         Told(c, in, out, hash, idx), Asked(c, in, idx)
  PROVE  LET m == Head(out) IN
         /\ m.type = "Created" => hash \in {NoRoom, m.room}
         /\ Told(c, in, Tail(out), IF m.type = "Created" THEN m.room ELSE hash, idx)
         /\ m.type \in Refusals => c \notin DOMAIN idx /\ ~HasAsk(in) /\ ~HasRefusal(Tail(out))
         /\ m.type \in Notices \cup {"Created"} => c \in DOMAIN idx
         /\ ~(m.type \in Refusals) => (HasRefusal(out) <=> HasRefusal(Tail(out)))
<1> DEFINE m == Head(out)
           s == Tail(out)
           h == IF m.type = "Created" THEN m.room ELSE hash
<1>1. /\ Len(out) \in Nat \ {0} /\ Len(s) = Len(out) - 1 /\ m = out[1] /\ 1 \in 1..Len(out)
      /\ \A i \in 1..Len(s) : i + 1 \in 1..Len(out) /\ i + 1 # 1 /\ s[i] = out[i + 1]
  BY Parts
<1>2. \A i \in 1..Len(out) : i = 1 \/ (i - 1 \in 1..Len(s) /\ s[i - 1] = out[i])
  BY <1>1
<1> HIDE DEF s, m
<1>3. m.type = "Created" => hash \in {NoRoom, m.room} /\ c \in DOMAIN idx /\ m.room = idx[c] /\ ~HasAsk(in)
  BY <1>1 DEF Told, Asked
<1>4. {"Create", "Join", "Reclaim"} \subseteq Asks
  BY DEF Asks
<1>5. \A i \in 1..Len(in) : /\ in[i].type = "Create" => h = NoRoom
                            /\ in[i].type \in {"Join", "Reclaim"} => h # NoRoom /\ in[i].room = h
  <2>1. CASE m.type = "Created"
    BY <1>3, <1>4, <2>1 DEF HasAsk
  <2>2. CASE m.type # "Created"
    BY <2>2 DEF Told
  <2> QED BY <2>1, <2>2
<1>6. HasRefusal(s) => HasRefusal(out)
  BY <1>1 DEF HasRefusal
<1>7. \A i, j \in 1..Len(s) : s[i].type \in Refusals /\ s[j].type \in Refusals => i = j
  <2> SUFFICES ASSUME NEW i \in 1..Len(s), NEW j \in 1..Len(s),
                      s[i].type \in Refusals, s[j].type \in Refusals
               PROVE  i = j
    OBVIOUS
  <2>1. i + 1 = j + 1
    BY <1>1 DEF Told
  <2> QED BY <2>1
<1>8. c \in DOMAIN idx => idx[c] = h
  BY <1>1, <1>3 DEF Told
<1>9. \A i \in 1..Len(s) :
          /\ s[i].type \in Notices => c \in DOMAIN idx
          /\ s[i].type = "Created" => c \in DOMAIN idx /\ s[i].room = idx[c] /\ (h = NoRoom => i = 1)
  <2>1. \A i \in 1..Len(s) : s[i].type \in Notices \cup {"Created"} => c \in DOMAIN idx
    BY <1>1 DEF Told
  <2>2. \A i \in 1..Len(s) : s[i].type = "Created" => s[i].room = idx[c] /\ hash # NoRoom
    BY <1>1 DEF Told
  <2>3. hash # NoRoom /\ c \in DOMAIN idx => h = hash
    BY <1>3, <1>8 DEF Told
  <2> QED BY <2>1, <2>2, <2>3
<1>10. Told(c, in, s, h, idx)
  BY <1>5, <1>6, <1>7, <1>8, <1>9 DEF Told
<1>11. m.type \in Refusals => c \notin DOMAIN idx /\ ~HasAsk(in) /\ ~HasRefusal(s)
  BY <1>1 DEF Told, HasRefusal
<1>12. m.type \in Notices \cup {"Created"} => c \in DOMAIN idx
  BY <1>1 DEF Told
<1>13. ~(m.type \in Refusals) /\ HasRefusal(out) => HasRefusal(s)
  BY <1>1, <1>2 DEF HasRefusal
<1> QED BY <1>3, <1>6, <1>10, <1>11, <1>12, <1>13 DEF s, m

(* A tab that was refused asks for its room anew. *)
LEMMA ToldReclaims ==
  ASSUME NEW c, NEW in \in Seq(Request), NEW out, NEW hash, NEW idx, Told(c, in, out, hash, idx),
         ~HasRefusal(out), hash # NoRoom, NEW m \in Request, m.type = "Reclaim", m.room = hash
  PROVE  Told(c, Append(in, m), out, hash, idx)
<1> DEFINE s == Append(in, m)
<1>1. /\ Len(in) \in Nat /\ Len(s) = Len(in) + 1 /\ s[Len(in) + 1] = m
      /\ \A i \in 1..Len(in) : i \in 1..Len(s) /\ s[i] = in[i]
      /\ \A i \in 1..Len(s) : i \in 1..Len(in) \/ i = Len(in) + 1
  BY Grown
<1> HIDE DEF s
<1>2. \A i \in 1..Len(s) : /\ s[i].type = "Create" => hash = NoRoom
                           /\ s[i].type \in {"Join", "Reclaim"} => hash # NoRoom /\ s[i].room = hash
  BY <1>1 DEF Told
<1> QED BY <1>2 DEF Told, s

-----------------------------------------------------------------------------
(* The page. *)

(* The status after a message. *)
StatusAfter(t, s, m) ==
    CASE m.type = "PeerLeft" -> "PeerLeft"
      [] m.type = "Created"  -> "WaitingForPeer"
      [] m.type = "RoomFull" -> "RoomFull"
      [] m.type = "RoomNotFound" /\ ~MayReclaim(s) -> "RoomNotFound"
      [] OTHER -> tab[t].status

(* What execute does, by the kind of the message. *)
LEMMA Executes ==
  ASSUME NEW t, NEW s, NEW m, NEW z, m.type \in {"Created"} \cup Refusals \cup Notices,
         Execute(t, Actions(s, m.type), z, m)
  PROVE  LET page(pc, transfer) == Turned(t, z, StatusAfter(t, s, m), pc, transfer)
             new == Len(pcs) + 1
         IN
         /\ m.type = "PeerJoined" => pcs' = Build(t, "Offer", 0) /\ tab' = page(new, new)
         /\ m.type = "Offer" => pcs' = Build(t, "Answer", m.pc) /\ tab' = page(new, tab[t].transfer)
         /\ m.type = "Answer" => /\ pcs' \in {pcs, SetRemote(tab[t].pc, m)}
                                 /\ tab' = page(tab[t].pc, tab[t].transfer)
         /\ m.type = "PeerLeft" => pcs' = Close({tab[t].pc}) /\ tab' = page(0, 0)
         /\ m.type \in Refusals \cup {"Created"} => pcs' = pcs /\ tab' = page(tab[t].pc, tab[t].transfer)
         /\ m.type = "RoomNotFound" /\ MayReclaim(s) => Send(t, Msg("Reclaim", z.room_in_hash, 0))
         /\ ~(m.type = "RoomNotFound" /\ MayReclaim(s)) => inbox' = inbox
<1> DEFINE acts == Actions(s, m.type)
           Does(a) == \E k \in 1..Len(acts) : acts[k] = a
           shown == {a \in Status : Does(a)}
           page(pc, transfer) == Turned(t, z, Shown(t, acts), pc, transfer)
           new == Len(pcs) + 1
           main == {a \in {"BuildPcAndOffer", "BuildPcAndAnswer", "SetRemoteAnswer", "TeardownPc"} : Does(a)}
<1>1. /\ main = {"BuildPcAndOffer"} => pcs' = Build(t, "Offer", 0) /\ tab' = page(new, new)
      /\ main = {"BuildPcAndAnswer"} => pcs' = Build(t, "Answer", m.pc) /\ tab' = page(new, tab[t].transfer)
      /\ main = {"SetRemoteAnswer"} =>
            pcs' = SetRemote(tab[t].pc, m) /\ tab' = page(tab[t].pc, tab[t].transfer)
      /\ main = {"TeardownPc"} => pcs' = Close({tab[t].pc}) /\ tab' = page(0, 0)
      /\ main = {} => pcs' = pcs /\ tab' = page(tab[t].pc, tab[t].transfer)
      /\ Does("SendReclaim") => Send(t, Msg("Reclaim", z.room_in_hash, 0))
      /\ ~Does("SendReclaim") => inbox' = inbox
  <2>1. main = {"BuildPcAndOffer"} =>
            /\ Does("BuildPcAndOffer") /\ ~Does("BuildPcAndAnswer")
            /\ ~Does("SetRemoteAnswer") /\ ~Does("TeardownPc")
    OBVIOUS
  <2>2. main = {"BuildPcAndAnswer"} =>
            /\ ~Does("BuildPcAndOffer") /\ Does("BuildPcAndAnswer")
            /\ ~Does("SetRemoteAnswer") /\ ~Does("TeardownPc")
    OBVIOUS
  <2>3. main = {"SetRemoteAnswer"} =>
            /\ ~Does("BuildPcAndOffer") /\ ~Does("BuildPcAndAnswer")
            /\ Does("SetRemoteAnswer") /\ ~Does("TeardownPc")
    OBVIOUS
  <2>4. main = {"TeardownPc"} =>
            /\ ~Does("BuildPcAndOffer") /\ ~Does("BuildPcAndAnswer")
            /\ ~Does("SetRemoteAnswer") /\ Does("TeardownPc")
    OBVIOUS
  <2>5. main = {} =>
            /\ ~Does("BuildPcAndOffer") /\ ~Does("BuildPcAndAnswer")
            /\ ~Does("SetRemoteAnswer") /\ ~Does("TeardownPc")
    OBVIOUS
  <2> HIDE DEF main
  <2> QED BY <2>1, <2>2, <2>3, <2>4, <2>5 DEF Execute
<1>2. \A x : shown = {x} => Shown(t, acts) = x
  BY DEF Shown
<1>3. shown = {} => Shown(t, acts) = tab[t].status
  BY DEF Shown
<1>4. /\ acts = <<>> => shown = {} /\ \A a : ~Does(a)
      /\ \A x : acts = <<x>> => (\A a : Does(a) <=> a = x) /\ shown = {x} \cap Status
      /\ \A x, y : acts = <<x, y>> => (\A a : Does(a) <=> a \in {x, y}) /\ shown = {x, y} \cap Status
  OBVIOUS
<1>5. CASE m.type = "PeerJoined"
  <2>1. acts = <<"BuildPcAndOffer">>
    BY <1>5 DEF Actions
  <2>2. main = {"BuildPcAndOffer"} /\ ~Does("SendReclaim") /\ shown = {}
    BY <1>4, <2>1 DEF Status
  <2> QED BY <1>1, <1>3, <1>5, <2>2 DEF StatusAfter, Refusals
<1>6. CASE m.type = "Offer"
  <2>1. acts = <<"BuildPcAndAnswer">>
    BY <1>6 DEF Actions
  <2>2. main = {"BuildPcAndAnswer"} /\ ~Does("SendReclaim") /\ shown = {}
    BY <1>4, <2>1 DEF Status
  <2> QED BY <1>1, <1>3, <1>6, <2>2 DEF StatusAfter, Refusals
<1>7. CASE m.type = "Answer"
  <2>1. acts = IF s.has_pc THEN <<"SetRemoteAnswer">> ELSE <<>>
    BY <1>7 DEF Actions
  <2>2. main \in {{"SetRemoteAnswer"}, {}} /\ ~Does("SendReclaim") /\ shown = {}
    BY <1>4, <2>1 DEF Status
  <2> QED BY <1>1, <1>3, <1>7, <2>2 DEF StatusAfter, Refusals
<1>8. CASE m.type = "PeerLeft"
  <2>1. acts = <<"TeardownPc", "PeerLeft">>
    BY <1>8 DEF Actions
  <2>2. main = {"TeardownPc"} /\ ~Does("SendReclaim") /\ shown = {"PeerLeft"}
    BY <1>4, <2>1 DEF Status
  <2> QED BY <1>1, <1>2, <1>8, <2>2 DEF StatusAfter, Refusals
<1>9. ASSUME main = {}, m.type \in Refusals \cup {"Created"}, Shown(t, acts) = StatusAfter(t, s, m),
             Does("SendReclaim") <=> m.type = "RoomNotFound" /\ MayReclaim(s)
      PROVE  /\ m.type \in Refusals \cup {"Created"} => pcs' = pcs /\ tab' = page(tab[t].pc, tab[t].transfer)
             /\ m.type = "RoomNotFound" /\ MayReclaim(s) => Send(t, Msg("Reclaim", z.room_in_hash, 0))
             /\ ~(m.type = "RoomNotFound" /\ MayReclaim(s)) => inbox' = inbox
  BY <1>1, <1>9
<1>10. CASE m.type = "Created"
  <2>1. acts = <<"PersistRoom", "WaitingForPeer">>
    BY <1>10 DEF Actions
  <2>2. main = {} /\ ~Does("SendReclaim") /\ shown = {"WaitingForPeer"}
    BY <1>4, <2>1 DEF Status
  <2>3. Shown(t, acts) = StatusAfter(t, s, m)
    BY <1>2, <1>10, <2>2 DEF StatusAfter
  <2> QED BY <1>9, <1>10, <2>2, <2>3 DEF Refusals
<1>11. CASE m.type = "RoomFull"
  <2>1. acts = <<"RoomFull">>
    BY <1>11 DEF Actions
  <2>2. main = {} /\ ~Does("SendReclaim") /\ shown = {"RoomFull"}
    BY <1>4, <2>1 DEF Status
  <2>3. Shown(t, acts) = StatusAfter(t, s, m)
    BY <1>2, <1>11, <2>2 DEF StatusAfter
  <2> QED BY <1>9, <1>11, <2>2, <2>3 DEF Refusals
<1>12. CASE m.type = "RoomNotFound" /\ MayReclaim(s)
  <2>1. acts = <<"SendReclaim">>
    BY <1>12 DEF Actions
  <2>2. main = {} /\ Does("SendReclaim") /\ shown = {}
    BY <1>4, <2>1 DEF Status
  <2>3. Shown(t, acts) = StatusAfter(t, s, m)
    BY <1>3, <1>12, <2>2 DEF StatusAfter
  <2> QED BY <1>9, <1>12, <2>2, <2>3 DEF Refusals
<1>13. CASE m.type = "RoomNotFound" /\ ~MayReclaim(s)
  <2>1. acts = <<"RoomNotFound">>
    BY <1>13 DEF Actions
  <2>2. main = {} /\ ~Does("SendReclaim") /\ shown = {"RoomNotFound"}
    BY <1>4, <2>1 DEF Status
  <2>3. Shown(t, acts) = StatusAfter(t, s, m)
    BY <1>2, <1>13, <2>2 DEF StatusAfter
  <2> QED BY <1>9, <1>13, <2>2, <2>3 DEF Refusals
<1> QED BY <1>5, <1>6, <1>7, <1>8, <1>10, <1>11, <1>12, <1>13 DEF Refusals, Notices, Relays

(* The session after a message: only Created changes its room. *)
LEMMA Updates ==
  ASSUME NEW s \in SessionType, NEW y, NEW r \in RoomOrNone
  PROVE  /\ Updated(s, y, r) \in SessionType
         /\ Updated(s, y, r).room_in_hash = IF y = "Created" THEN r ELSE s.room_in_hash
<1>1. CASE y \in {"PeerJoined", "Offer"}
  BY <1>1 DEF Updated, SessionType
<1>2. CASE y = "PeerLeft"
  BY <1>2 DEF Updated, SessionType
<1>3. CASE y = "Created"
  BY <1>3 DEF Updated, SessionType
<1>4. CASE y = "RoomNotFound" /\ MayReclaim(s)
  BY <1>4 DEF Updated, SessionType
<1>5. CASE ~(y \in {"PeerJoined", "Offer", "PeerLeft", "Created"}) /\ ~(y = "RoomNotFound" /\ MayReclaim(s))
  BY <1>5 DEF Updated, SessionType
<1> QED BY <1>1, <1>2, <1>3, <1>4, <1>5

(* A page turned keeps its socket, and the other pages stay. *)
LEMMA Turns ==
  ASSUME tab \in [Tab -> PageType], NEW t \in Tab, NEW z \in SessionType, NEW st \in Status,
         NEW pc \in Nat, NEW tr \in Nat, tab' = Turned(t, z, st, pc, tr)
  PROVE  /\ tab' \in [Tab -> PageType] /\ \A u \in Tab \ {t} : tab'[u] = tab[u]
         /\ tab'[t].ws = tab[t].ws /\ tab'[t].sock = tab[t].sock
         /\ tab'[t].session = z /\ tab'[t].status = st /\ tab'[t].pc = pc /\ tab'[t].transfer = tr
<1>1. tab[t] \in PageType
  OBVIOUS
<1>2. tab' = [tab EXCEPT ![t] = [tab[t] EXCEPT !.session = z, !.status = st, !.pc = pc, !.transfer = tr]]
  BY <1>1 DEF Turned, PageType
<1>3. [tab[t] EXCEPT !.session = z, !.status = st, !.pc = pc, !.transfer = tr] \in PageType
  BY <1>1 DEF PageType
<1> QED BY <1>1, <1>2, <1>3 DEF PageType

(* The peer connections are never fewer, and each names one that was built.*)
PcsOK == pcs \in Seq(PcType) /\ \A i \in 1..Len(pcs) : pcs[i].remote <= Len(pcs)

LEMMA PcsKept ==
  ASSUME PcsOK
  PROVE  /\ Len(pcs) \in Nat
         /\ \A i \in 1..Len(pcs) : pcs[i] \in PcType
         /\ pcs' = pcs => PcsOK' /\ Len(pcs') = Len(pcs)
         /\ \A S : pcs' = Close(S) => PcsOK' /\ Len(pcs') = Len(pcs)
         /\ \A i \in 1..Len(pcs) :
               pcs' = [pcs EXCEPT ![i].local = TRUE] => PcsOK' /\ Len(pcs') = Len(pcs)
         /\ \A i \in 1..Len(pcs) :
               pcs' = [pcs EXCEPT ![i].opened = TRUE] => PcsOK' /\ Len(pcs') = Len(pcs)
<1>1. Len(pcs) \in Nat /\ \A i \in 1..Len(pcs) : pcs[i] \in PcType
  BY LenProperties, ElementOfSeq DEF PcsOK
<1>2. pcs = [i \in 1..Len(pcs) |-> pcs[i]]
  BY DEF PcsOK
<1>3. ASSUME Len(pcs') = Len(pcs), pcs' \in [1..Len(pcs) -> PcType],
             \A i \in 1..Len(pcs) : pcs'[i].remote = pcs[i].remote
      PROVE  PcsOK'
  <2>1. pcs' \in Seq(PcType)
    BY <1>1, <1>3
  <2> QED BY <1>1, <1>3, <2>1 DEF PcsOK
<1>4. ASSUME NEW S, pcs' = Close(S) PROVE PcsOK' /\ Len(pcs') = Len(pcs)
  <2>1. pcs' \in [1..Len(pcs) -> PcType] /\ \A i \in 1..Len(pcs) : pcs'[i].remote = pcs[i].remote
    BY <1>1, <1>4 DEF Close, PcType
  <2>2. Len(pcs') = Len(pcs)
    BY <1>1, <1>4 DEF Close
  <2> QED BY <1>3, <2>1, <2>2
<1>5. ASSUME NEW i \in 1..Len(pcs), pcs' = [pcs EXCEPT ![i].local = TRUE]
      PROVE  PcsOK' /\ Len(pcs') = Len(pcs)
  <2>1. pcs' \in [1..Len(pcs) -> PcType] /\ \A j \in 1..Len(pcs) : pcs'[j].remote = pcs[j].remote
    BY <1>1, <1>2, <1>5 DEF PcType
  <2>2. Len(pcs') = Len(pcs)
    BY <1>1, <2>1, <1>5 DEF PcsOK
  <2> QED BY <1>3, <2>1, <2>2
<1>6. ASSUME NEW i \in 1..Len(pcs), pcs' = [pcs EXCEPT ![i].opened = TRUE]
      PROVE  PcsOK' /\ Len(pcs') = Len(pcs)
  <2>1. pcs' \in [1..Len(pcs) -> PcType] /\ \A j \in 1..Len(pcs) : pcs'[j].remote = pcs[j].remote
    BY <1>1, <1>2, <1>6 DEF PcType
  <2>2. Len(pcs') = Len(pcs)
    BY <1>1, <2>1, <1>6 DEF PcsOK
  <2> QED BY <1>3, <2>1, <2>2
<1>7. pcs' = pcs => PcsOK' /\ Len(pcs') = Len(pcs)
  BY DEF PcsOK
<1> QED BY <1>1, <1>4, <1>5, <1>6, <1>7

LEMMA PcsGrow ==
  ASSUME PcsOK, NEW t \in Tab, NEW role \in {"Offer", "Answer"}, NEW n \in Nat, n <= Len(pcs),
         pcs' = Build(t, role, n)
  PROVE  PcsOK' /\ Len(pcs') = Len(pcs) + 1
<1> DEFINE new == [tab |-> t, role |-> role, remote |-> n, local |-> FALSE, opened |-> FALSE, closed |-> FALSE]
<1>1. new \in PcType /\ new.remote = n
  BY DEF PcType
<1>2. pcs' = Append(pcs, new)
  BY DEF Build
<1> HIDE DEF new
<1>3. /\ Len(pcs) \in Nat /\ Len(pcs') = Len(pcs) + 1 /\ pcs' \in Seq(PcType) /\ pcs'[Len(pcs) + 1] = new
      /\ \A i \in 1..Len(pcs) : pcs'[i] = pcs[i]
      /\ \A i \in 1..Len(pcs') : i \in 1..Len(pcs) \/ i = Len(pcs) + 1
  BY <1>1, <1>2, Grown DEF PcsOK
<1>4. \A i \in 1..Len(pcs) : pcs[i].remote \in Nat
  BY PcsKept DEF PcType
<1>5. \A i \in 1..Len(pcs') : pcs'[i].remote <= Len(pcs')
  BY <1>1, <1>3, <1>4 DEF PcsOK
<1> QED BY <1>3, <1>5 DEF PcsOK

LEMMA PcsAnswered ==
  ASSUME PcsOK, NEW i \in 0..Len(pcs), NEW m \in Reply, m.pc <= Len(pcs), pcs' = SetRemote(i, m)
  PROVE  PcsOK' /\ Len(pcs') = Len(pcs)
<1>1. CASE pcs' = pcs
  BY <1>1 DEF PcsOK
<1>2. CASE i # 0 /\ pcs' = [pcs EXCEPT ![i].remote = m.pc]
  <2>1. Len(pcs) \in Nat /\ i \in 1..Len(pcs) /\ \A j \in 1..Len(pcs) : pcs[j] \in PcType
    BY <1>2, PcsKept
  <2>2. m.pc \in Nat /\ pcs = [j \in 1..Len(pcs) |-> pcs[j]]
    BY DEF Reply, PcsOK
  <2>3. /\ pcs' \in [1..Len(pcs) -> PcType] /\ pcs'[i].remote = m.pc
        /\ \A j \in 1..Len(pcs) : j # i => pcs'[j] = pcs[j]
    BY <1>2, <2>1, <2>2 DEF PcType
  <2>4. pcs' \in Seq(PcType) /\ Len(pcs') = Len(pcs)
    BY <2>1, <2>3
  <2> QED BY <2>1, <2>3, <2>4 DEF PcsOK
<1> QED BY <1>1, <1>2 DEF SetRemote

(* A page that is mounted, and none. *)
LEMMA Mounts ==
  ASSUME NEW hash \in RoomOrNone, NEW stored \in RoomOrNone
  PROVE  LET p == Mounted(hash, stored) IN
         /\ p \in PageType /\ p.ws = "CONNECTING" /\ p.sock = NoPeer /\ p.pc = 0 /\ p.transfer = 0
         /\ p.session.room_in_hash = hash
         /\ NoPage \in PageType /\ NoPage.ws = "OFF" /\ NoPage.sock = NoPeer /\ NoPage.pc = 0
         /\ NoPage.transfer = 0 /\ Absent(NoPage)
<1>1. NoRoom \in RoomOrNone
  BY DEF RoomOrNone
<1>2. \A h, g \in RoomOrNone : Seeded(h, g) \in SessionType /\ Seeded(h, g).room_in_hash = h
  BY DEF Seeded, SessionType
<1>3. \A h, g \in RoomOrNone :
          LET p == Mounted(h, g) IN
          /\ p \in PageType /\ p.ws = "CONNECTING" /\ p.sock = NoPeer /\ p.pc = 0 /\ p.transfer = 0
          /\ p.session = Seeded(h, g)
  BY <1>2 DEF Mounted, PageType, Ws, Status
<1>4. Mounted(NoRoom, NoRoom) \in PageType
  BY <1>1, <1>3
<1>5. /\ NoPage \in PageType /\ NoPage.ws = "OFF" /\ NoPage.sock = NoPeer /\ NoPage.pc = 0
      /\ NoPage.transfer = 0 /\ NoPage.session = Seeded(NoRoom, NoRoom) /\ NoPage.status = "Idle"
  BY <1>1, <1>3, <1>4 DEF NoPage, PageType, Ws, Status
<1> QED BY <1>1, <1>2, <1>3, <1>5 DEF Absent

-----------------------------------------------------------------------------
(* Steps as moves: what each does to its page and to its connection. *)

Others(t) == \A u \in Tab \ {t} : tab'[u] = tab[u]

(* The types of the page of t, and of the peer connections, afterwards. *)
PageOK(t) ==
    /\ tab' \in [Tab -> PageType] /\ PcsOK' /\ Len(pcs) <= Len(pcs')
    /\ tab'[t].pc <= Len(pcs') /\ tab'[t].transfer <= Len(pcs')

(* The page reads a reply, and may ask for its room anew. *)
Reads(t) ==
    LET c == tab[t].sock
        m == Head(outbox[c])
        s == tab[t].session
    IN
    /\ tab[t].ws = "OPEN" /\ outbox[c] # <<>>
    /\ Others(t) /\ tab'[t].ws = "OPEN" /\ tab'[t].sock = c
    /\ tab'[t].session.room_in_hash = IF m.type = "Created" THEN m.room ELSE s.room_in_hash
    /\ tab'[t].status \in {StatusAfter(t, s, m), "Error"}
    /\ outbox' = [outbox EXCEPT ![c] = Tail(@)]
    /\ IF m.type = "RoomNotFound" /\ MayReclaim(s)
       THEN Send(t, Msg("Reclaim", s.room_in_hash, 0)) ELSE inbox' = inbox
    /\ UNCHANGED <<registry, srv>>

(* The page loses its socket, or it is about to. *)
Quits(t) ==
    LET c == tab[t].sock IN
    /\ Others(t)
    /\ \/ tab'[t].sock = NoPeer /\ tab'[t].ws \notin {"OPEN", "CLOSING"}
       \/ tab'[t].sock = c /\ tab[t].ws = "OPEN" /\ tab'[t].ws = "CLOSING"
    /\ tab'[t].ws = "OFF" => Absent(tab'[t])
    /\ \/ inbox' = inbox
       \/ c \in Peer /\ \E n \in 0..Len(inbox[c]) : inbox' = [inbox EXCEPT ![c] = SubSeq(@, 1, n)]
    /\ outbox' = outbox \/ (c \in Peer /\ outbox' = [outbox EXCEPT ![c] = <<>>])
    /\ UNCHANGED <<registry, srv>>

(* Delivers and BuildFails are reads. *)
LEMMA ReadsPage ==
  ASSUME Types, Built, SockInv, NEW t \in Tab, Delivers(t) \/ BuildFails(t)
  PROVE  Reads(t) /\ PageOK(t) /\ tab[t].sock \in Peer
<1> DEFINE c == tab[t].sock
           m == Head(outbox[c])
           s == tab[t].session
           z == Updated(s, m.type, m.room)
<1>1. tab[t] \in PageType /\ s \in SessionType /\ tab[t].pc \in Nat /\ tab[t].transfer \in Nat /\ tab[t].status \in Status
  BY DEF Types, PageType
<1>2. tab[t].ws = "OPEN" /\ outbox[c] # <<>> /\ outbox' = [outbox EXCEPT ![c] = Tail(@)]
  BY DEF Delivers, BuildFails
<1>3. c \in Peer
  BY <1>1, <1>2 DEF SockInv, PageType
<1>4. m \in Reply /\ 1 \in 1..Len(outbox[c]) /\ m = outbox[c][1]
  BY <1>2, <1>3, Parts DEF Types
<1>5. m.type \in {"Created"} \cup Refusals \cup Notices /\ m.room \in RoomOrNone /\ m.pc \in Nat /\ m.pc <= Len(pcs)
  BY <1>3, <1>4 DEF Reply, Built
<1>6. z \in SessionType /\ z.room_in_hash = IF m.type = "Created" THEN m.room ELSE s.room_in_hash
  BY <1>1, <1>5, Updates
<1>7. PcsOK /\ Len(pcs) \in Nat /\ tab[t].pc <= Len(pcs) /\ tab[t].transfer <= Len(pcs)
  BY PcsKept DEF PcsOK, Types, Built
<1> HIDE DEF m, s, z, c
<1>8. CASE Delivers(t)
  <2>1. Execute(t, Actions(s, m.type), z, m) /\ UNCHANGED <<registry, srv>>
    BY <1>8 DEF Delivers, m, s, z, c
  <2>2. StatusAfter(t, s, m) \in Status
    BY <1>1 DEF StatusAfter, Status
  <2>3. PICK pc \in Nat, tr \in Nat :
            /\ tab' = Turned(t, z, StatusAfter(t, s, m), pc, tr)
            /\ PcsOK' /\ Len(pcs') \in Nat /\ Len(pcs) <= Len(pcs') /\ pc <= Len(pcs') /\ tr <= Len(pcs')
    <3>1. CASE m.type = "PeerJoined"
      <4>1. /\ pcs' = Build(t, "Offer", 0)
            /\ tab' = Turned(t, z, StatusAfter(t, s, m), Len(pcs) + 1, Len(pcs) + 1)
        BY <1>5, <2>1, <3>1, Executes
      <4>2. PcsOK' /\ Len(pcs') = Len(pcs) + 1
        BY <1>7, <4>1, PcsGrow
      <4> QED BY <1>7, <4>1, <4>2
    <3>2. CASE m.type = "Offer"
      <4>1. /\ pcs' = Build(t, "Answer", m.pc)
            /\ tab' = Turned(t, z, StatusAfter(t, s, m), Len(pcs) + 1, tab[t].transfer)
        BY <1>5, <2>1, <3>2, Executes
      <4>2. PcsOK' /\ Len(pcs') = Len(pcs) + 1
        BY <1>5, <1>7, <4>1, PcsGrow
      <4>3. Len(pcs) + 1 \in Nat /\ tab[t].transfer <= Len(pcs) + 1 /\ Len(pcs) <= Len(pcs) + 1
        BY <1>1, <1>7
      <4> QED BY <1>1, <4>1, <4>2, <4>3
    <3>3. CASE m.type = "Answer"
      <4>1. /\ pcs' \in {pcs, SetRemote(tab[t].pc, m)}
            /\ tab' = Turned(t, z, StatusAfter(t, s, m), tab[t].pc, tab[t].transfer)
        BY <1>5, <2>1, <3>3, Executes
      <4>2. PcsOK' /\ Len(pcs') = Len(pcs)
        BY <1>1, <1>4, <1>5, <1>7, <4>1, PcsKept, PcsAnswered
      <4> QED BY <1>1, <1>7, <4>1, <4>2
    <3>4. CASE m.type = "PeerLeft"
      <4>1. pcs' = Close({tab[t].pc}) /\ tab' = Turned(t, z, StatusAfter(t, s, m), 0, 0)
        BY <1>5, <2>1, <3>4, Executes
      <4>2. PcsOK' /\ Len(pcs') = Len(pcs)
        BY <1>7, <4>1, PcsKept
      <4> QED BY <1>7, <4>1, <4>2
    <3>5. CASE m.type \in Refusals \cup {"Created"}
      <4>1. pcs' = pcs /\ tab' = Turned(t, z, StatusAfter(t, s, m), tab[t].pc, tab[t].transfer)
        BY <1>5, <2>1, <3>5, Executes
      <4>2. PcsOK' /\ Len(pcs') = Len(pcs)
        BY <1>7, <4>1, PcsKept
      <4> QED BY <1>1, <1>7, <4>1, <4>2
    <3> QED BY <1>5, <3>1, <3>2, <3>3, <3>4, <3>5 DEF Notices, Relays
  <2>4. /\ tab' \in [Tab -> PageType] /\ Others(t)
        /\ tab'[t].ws = tab[t].ws /\ tab'[t].sock = c /\ tab'[t].session = z
        /\ tab'[t].status = StatusAfter(t, s, m) /\ tab'[t].pc = pc /\ tab'[t].transfer = tr
    BY <1>6, <2>2, <2>3, Turns DEF Others, Types, c
  <2>5. IF m.type = "RoomNotFound" /\ MayReclaim(s)
        THEN Send(t, Msg("Reclaim", s.room_in_hash, 0)) ELSE inbox' = inbox
    BY <1>5, <1>6, <2>1, Executes
  <2>6. PageOK(t)
    BY <2>3, <2>4 DEF PageOK
  <2> QED BY <1>2, <1>3, <1>6, <2>1, <2>4, <2>5, <2>6 DEF Reads, m, s, c
<1>9. CASE BuildFails(t)
  <2>1. /\ m.type \in {"PeerJoined", "Offer"} /\ UNCHANGED <<pcs, registry, srv, inbox>>
        /\ tab' = [tab EXCEPT ![t].session = Updated(@, m.type, m.room), ![t].status = "Error"]
    BY <1>9 DEF BuildFails, m, c
  <2>2. tab' = Turned(t, z, "Error", tab[t].pc, tab[t].transfer)
    BY <1>1, <2>1 DEF Turned, z, s, Types, PageType
  <2>3. /\ tab' \in [Tab -> PageType] /\ Others(t)
        /\ tab'[t].ws = tab[t].ws /\ tab'[t].sock = c /\ tab'[t].session = z
        /\ tab'[t].status = "Error" /\ tab'[t].pc = tab[t].pc /\ tab'[t].transfer = tab[t].transfer
    BY <1>1, <1>6, <2>2, Turns DEF Others, Types, Status, c
  <2>4. PageOK(t)
    BY <1>7, <2>1, <2>3, PcsKept DEF PageOK
  <2> QED BY <1>2, <1>3, <1>6, <2>1, <2>3, <2>4 DEF Reads, m, s, c
<1> QED BY <1>8, <1>9

(* The on_disconnect callback. *)
LEMMA Disconnects ==
  ASSUME Types, Built, NEW t \in Tab, on_disconnect(t)
  PROVE  /\ PageOK(t) /\ Others(t) /\ tab'[t].ws = "CLOSED" /\ tab'[t].sock = NoPeer
         /\ tab'[t].session.room_in_hash = tab[t].session.room_in_hash
<1> DEFINE s == [tab[t].session EXCEPT !.has_pc = FALSE, !.reclaim_tried = FALSE]
           p == [tab[t] EXCEPT !.ws = "CLOSED", !.sock = NoPeer, !.status = "Reconnecting",
                               !.pc = 0, !.transfer = 0, !.session = s]
<1>1. tab[t] \in PageType /\ tab[t].session \in SessionType
  BY DEF Types, PageType
<1>2. s \in SessionType /\ s.room_in_hash = tab[t].session.room_in_hash
  BY <1>1 DEF SessionType
<1>3. tab' = [tab EXCEPT ![t] = p]
  <2> DEFINE q == [tab[t] EXCEPT !.ws = "CLOSED", !.sock = NoPeer, !.status = "Reconnecting",
                                 !.pc = 0, !.transfer = 0, !.session.has_pc = FALSE,
                                 !.session.reclaim_tried = FALSE]
  <2>1. q = p
    BY <1>1 DEF PageType, SessionType
  <2>2. tab' = [tab EXCEPT ![t] = q]
    BY DEF on_disconnect
  <2> HIDE DEF p, q
  <2> QED BY <2>1, <2>2
<1> HIDE DEF s
<1>4. p \in PageType /\ p.ws = "CLOSED" /\ p.sock = NoPeer /\ p.pc = 0 /\ p.transfer = 0 /\ p.session = s
  BY <1>1, <1>2 DEF PageType, Ws, Status
<1>5. PcsOK' /\ Len(pcs') = Len(pcs) /\ Len(pcs) \in Nat
  <2>1. PcsOK
    BY DEF PcsOK, Types, Built
  <2> QED BY <2>1, PcsKept DEF on_disconnect
<1> HIDE DEF p
<1> QED BY <1>2, <1>3, <1>4, <1>5 DEF PageOK, Others, Types

(* A page that is unloaded. *)
LEMMA UnloadsPage ==
  ASSUME Types, Built, SockInv, NEW t \in Tab, NEW page \in PageType, Unloads(t, page),
         page.sock = NoPeer, page.pc = 0, page.transfer = 0, page.ws \in {"CONNECTING", "OFF"},
         page.ws = "OFF" => Absent(page)
  PROVE  Quits(t) /\ PageOK(t) /\ tab'[t] = page
<1>1. tab' = [tab EXCEPT ![t] = page] /\ UNCHANGED <<registry, srv>>
  BY DEF Unloads
<1>2. tab' \in [Tab -> PageType] /\ Others(t) /\ tab'[t] = page
  BY <1>1 DEF Types, Others
<1>3. PcsOK' /\ Len(pcs') = Len(pcs) /\ Len(pcs) \in Nat
  <2>1. PcsOK
    BY DEF PcsOK, Types, Built
  <2> QED BY <2>1, PcsKept DEF Unloads
<1>4. tab[t].sock = NoPeer \/ tab[t].sock \in Peer
  BY DEF Types, PageType
<1>5. /\ \/ inbox' = inbox
         \/ tab[t].sock \in Peer /\ \E n \in 0..Len(inbox[tab[t].sock]) :
                inbox' = [inbox EXCEPT ![tab[t].sock] = SubSeq(@, 1, n)]
      /\ outbox' = outbox \/ (tab[t].sock \in Peer /\ outbox' = [outbox EXCEPT ![tab[t].sock] = <<>>])
  BY <1>4 DEF Unloads, CutShort
<1> QED BY <1>1, <1>2, <1>3, <1>5 DEF Quits, PageOK

(* Every way in which a page loses its socket.  Its URL keeps its room     *)
(* unless the user goes elsewhere.                                         *)
LEMMA QuitsPage ==
  ASSUME Types, Built, SockInv, NEW t \in Tab,
         \/ Closes(t) \/ Reconnects(t) \/ User(t)
         \/ Drops(t, "drop") \/ Drops(t, "sleep") \/ CloseStarts(t) \/ ConnectFails(t)
  PROVE  /\ Quits(t) /\ PageOK(t)
         /\ tab[t].session.room_in_hash # NoRoom =>
              \/ tab'[t].session.room_in_hash = tab[t].session.room_in_hash
              \/ Leaves(t) \/ JoinsByCode(t) \/ StartsOver(t)
<1>1. /\ tab[t] \in PageType /\ tab[t].session.room_in_hash \in RoomOrNone
      /\ tab[t].session.owns \in RoomOrNone
      /\ tab[t].sock # NoPeer => tab[t].sock \in Peer
  BY DEF Types, PageType, SessionType
<1>2. PcsOK /\ Len(pcs) \in Nat /\ tab[t].pc <= Len(pcs) /\ tab[t].transfer <= Len(pcs)
  BY PcsKept DEF PcsOK, Types, Built
<1>3. tab[t].ws \in {"OPEN", "CLOSING"} => tab[t].sock \in Peer
  BY <1>1 DEF SockInv
<1>4. NoRoom \in RoomOrNone /\ Known \subseteq RoomOrNone
  BY DEF Known, RoomOrNone, Types, PageType, SessionType
<1>5. CASE Closes(t)
  <2>1. on_disconnect(t) /\ UNCHANGED <<registry, srv, inbox>> /\ tab[t].ws \in {"OPEN", "CLOSING"}
        /\ outbox' = [outbox EXCEPT ![tab[t].sock] = <<>>]
    BY <1>5 DEF Closes
  <2> QED BY <1>3, <2>1, Disconnects DEF Quits
<1>6. CASE Reconnects(t)
  <2>1. /\ tab' = [tab EXCEPT ![t].ws = "CONNECTING", ![t].sock = NoPeer]
        /\ UNCHANGED <<pcs, registry, srv, inbox>>
        /\ outbox' = outbox \/ (tab[t].sock \in Peer /\ outbox' = [outbox EXCEPT ![tab[t].sock] = <<>>])
    BY <1>1, <1>6 DEF Reconnects
  <2>2. /\ tab' \in [Tab -> PageType] /\ Others(t) /\ tab'[t].ws = "CONNECTING" /\ tab'[t].sock = NoPeer
        /\ tab'[t].session = tab[t].session /\ tab'[t].pc = tab[t].pc /\ tab'[t].transfer = tab[t].transfer
    BY <1>1, <2>1 DEF Types, PageType, Ws, Others
  <2>3. PcsOK' /\ Len(pcs') = Len(pcs)
    BY <1>2, <2>1, PcsKept
  <2> QED BY <1>2, <2>1, <2>2, <2>3 DEF Quits, PageOK
<1>7. CASE User(t)
  <2>1. CASE Visits(t)
    <3>1. PICK p \in PageType :
              /\ tab' = [tab EXCEPT ![t] = p] /\ p.ws = "CONNECTING" /\ p.sock = NoPeer
              /\ p.pc = 0 /\ p.transfer = 0
      <4>1. CASE \E hash \in Known \cup {NoRoom} : tab' = [tab EXCEPT ![t] = Mounted(hash, NoRoom)]
        <5>1. PICK hash \in Known \cup {NoRoom} : tab' = [tab EXCEPT ![t] = Mounted(hash, NoRoom)]
          BY <4>1
        <5>2. hash \in RoomOrNone
          BY <1>4
        <5> QED BY <1>4, <5>1, <5>2, Mounts
      <4>2. CASE \E u \in Tab : tab' = [tab EXCEPT ![t] = Mounted(tab[u].session.room_in_hash,
                                                                   tab[u].session.owns)]
        <5>1. PICK u \in Tab : tab' = [tab EXCEPT ![t] = Mounted(tab[u].session.room_in_hash,
                                                                 tab[u].session.owns)]
          BY <4>2
        <5>2. tab[u].session.room_in_hash \in RoomOrNone /\ tab[u].session.owns \in RoomOrNone
          BY DEF Types, PageType, SessionType
        <5> QED BY <5>1, <5>2, Mounts
      <4> QED BY <2>1, <4>1, <4>2 DEF Visits
    <3>2. tab[t].ws = "OFF" /\ UNCHANGED <<pcs, registry, srv, inbox, outbox>>
      BY <2>1 DEF Visits
    <3>3. tab' \in [Tab -> PageType] /\ Others(t) /\ tab'[t] = p
      BY <3>1 DEF Types, Others
    <3>4. PcsOK' /\ Len(pcs') = Len(pcs)
      BY <1>2, <3>2, PcsKept
    <3>5. tab[t].session.room_in_hash = NoRoom
      BY <3>2 DEF SockInv, Absent
    <3> QED BY <1>2, <3>1, <3>2, <3>3, <3>4, <3>5 DEF Quits, PageOK
  <2>2. CASE Reloads(t)
    <3> DEFINE p == Mounted(tab[t].session.room_in_hash, tab[t].session.owns)
    <3>1. /\ p \in PageType /\ p.ws = "CONNECTING" /\ p.sock = NoPeer /\ p.pc = 0 /\ p.transfer = 0
          /\ p.session.room_in_hash = tab[t].session.room_in_hash
      BY <1>1, Mounts
    <3>2. Unloads(t, p)
      BY <2>2 DEF Reloads
    <3> HIDE DEF p
    <3> QED BY <3>1, <3>2, UnloadsPage
  <2>3. CASE JoinsByCode(t)
    <3>1. PICK r \in Known : Unloads(t, Mounted(r, tab[t].session.owns))
      BY <2>3 DEF JoinsByCode
    <3> DEFINE p == Mounted(r, tab[t].session.owns)
    <3>2. r \in RoomOrNone
      BY <1>4
    <3>3. p \in PageType /\ p.ws = "CONNECTING" /\ p.sock = NoPeer /\ p.pc = 0 /\ p.transfer = 0
      BY <1>1, <3>2, Mounts
    <3>4. Unloads(t, p)
      BY <3>1
    <3> HIDE DEF p
    <3> QED BY <2>3, <3>3, <3>4, UnloadsPage
  <2>4. CASE StartsOver(t)
    <3> DEFINE p == Mounted(NoRoom, tab[t].session.owns)
    <3>1. p \in PageType /\ p.ws = "CONNECTING" /\ p.sock = NoPeer /\ p.pc = 0 /\ p.transfer = 0
      BY <1>1, <1>4, Mounts
    <3>2. Unloads(t, p)
      BY <2>4 DEF StartsOver
    <3> HIDE DEF p
    <3> QED BY <2>4, <3>1, <3>2, UnloadsPage
  <2>5. CASE Leaves(t)
    <3>1. /\ NoPage \in PageType /\ NoPage.ws = "OFF" /\ NoPage.sock = NoPeer /\ NoPage.pc = 0
          /\ NoPage.transfer = 0 /\ Absent(NoPage)
      BY <1>4, Mounts
    <3>2. Unloads(t, NoPage)
      BY <2>5 DEF Leaves
    <3> QED BY <2>5, <3>1, <3>2, UnloadsPage
  <2> QED BY <1>7, <2>1, <2>2, <2>3, <2>4, <2>5 DEF User
<1>8. ASSUME NEW k, Drops(t, k) PROVE Quits(t) /\ PageOK(t) /\ tab'[t].session.room_in_hash = tab[t].session.room_in_hash
  <2>1. /\ on_disconnect(t) /\ UNCHANGED <<registry, srv>> /\ tab[t].ws = "OPEN" /\ CutShort(tab[t].sock)
        /\ outbox' = [outbox EXCEPT ![tab[t].sock] = <<>>]
    BY <1>8 DEF Drops
  <2> QED BY <1>3, <2>1, Disconnects DEF Quits, CutShort
<1>9. CASE CloseStarts(t)
  <2>1. /\ tab' = [tab EXCEPT ![t].ws = "CLOSING"] /\ tab[t].ws = "OPEN"
        /\ UNCHANGED <<pcs, registry, srv, outbox>> /\ CutShort(tab[t].sock)
    BY <1>9 DEF CloseStarts, Link!Closing
  <2>2. /\ tab' \in [Tab -> PageType] /\ Others(t) /\ tab'[t].ws = "CLOSING" /\ tab'[t].sock = tab[t].sock
        /\ tab'[t].session = tab[t].session /\ tab'[t].pc = tab[t].pc /\ tab'[t].transfer = tab[t].transfer
    BY <1>1, <2>1 DEF Types, PageType, Ws, Others
  <2>3. PcsOK' /\ Len(pcs') = Len(pcs)
    BY <1>2, <2>1, PcsKept
  <2>4. PageOK(t)
    BY <1>2, <2>2, <2>3 DEF PageOK
  <2>5. PICK n \in 0..Len(inbox[tab[t].sock]) : inbox' = [inbox EXCEPT ![tab[t].sock] = SubSeq(@, 1, n)]
    BY <2>1 DEF CutShort
  <2>6. Quits(t)
    BY <1>3, <2>1, <2>2, <2>5 DEF Quits
  <2> QED BY <2>2, <2>4, <2>6
<1>10. CASE ConnectFails(t)
  <2>1. on_disconnect(t) /\ UNCHANGED <<registry, srv, inbox, outbox>>
    BY <1>10 DEF ConnectFails
  <2> QED BY <2>1, Disconnects DEF Quits
<1> QED BY <1>5, <1>6, <1>7, <1>8, <1>9, <1>10

-----------------------------------------------------------------------------
(* The moves keep the invariant. *)

(* Connections are numbers, and no connection is none. *)
LEMMA NoPeerIsNone == NoPeer \notin Peer
<1>1. Cardinality(Peer) \in Nat
  BY RendezvousAssumption, FS_CardinalityType
<1>2. Peer = 1..Cardinality(Peer) /\ NoPeer = 0
  BY RendezvousAssumption
<1> QED BY <1>1, <1>2

(* Which peer connections the pages and the messages name. *)
LEMMA BuiltKept ==
  ASSUME Types, Built, NEW t \in Tab, Others(t), PageOK(t),
         \A c \in Peer : /\ \A i \in 1..Len(inbox'[c]) : inbox'[c][i].pc \in 0..Len(pcs')
                         /\ \A i \in 1..Len(outbox'[c]) : outbox'[c][i].pc \in 0..Len(pcs')
  PROVE  Built'
<1>1. Len(pcs) \in Nat /\ Len(pcs') \in Nat /\ Len(pcs) <= Len(pcs')
  BY LenProperties DEF Types, PageOK, PcsOK
<1>2. \A u \in Tab : tab[u].pc \in Nat /\ tab[u].transfer \in Nat
  BY DEF Types, PageType
<1>3. \A u \in Tab : tab'[u].pc <= Len(pcs') /\ tab'[u].transfer <= Len(pcs')
  BY <1>1, <1>2 DEF Others, PageOK, Built
<1> QED BY <1>1, <1>3 DEF Built, PageOK, PcsOK

(* The messages under way name peer connections that were built. *)
LEMMA Naming ==
  ASSUME Types, Built, NEW n \in Nat, Len(pcs) <= n
  PROVE  \A c \in Peer : /\ \A i \in 1..Len(inbox[c]) : inbox[c][i].pc \in 0..n
                         /\ \A i \in 1..Len(outbox[c]) : outbox[c][i].pc \in 0..n
<1>1. Len(pcs) \in Nat
  BY LenProperties DEF Types
<1>2. ASSUME NEW c \in Peer, NEW i \in 1..Len(inbox[c]) PROVE inbox[c][i].pc \in Nat
  <2>1. inbox[c] \in Seq(Request)
    BY DEF Types
  <2>2. inbox[c][i] \in Request
    BY <2>1, ElementOfSeq
  <2> QED BY <2>2 DEF Request
<1>3. ASSUME NEW c \in Peer, NEW i \in 1..Len(outbox[c]) PROVE outbox[c][i].pc \in Nat
  <2>1. outbox[c] \in Seq(Reply)
    BY DEF Types
  <2>2. outbox[c][i] \in Reply
    BY <2>1, ElementOfSeq
  <2> QED BY <2>2 DEF Reply
<1> QED BY <1>1, <1>2, <1>3 DEF Built

LEMMA QuitsKeeps ==
  ASSUME MeetInv, NEW t \in Tab, Quits(t), PageOK(t)
  PROVE  MeetInv'
<1> DEFINE c == tab[t].sock
<1>1. Types /\ Built /\ SockInv /\ AskInv /\ TellInv /\ WaitInv /\ WellFormed(registry)
  BY DEF MeetInv
<1>2. registry' = registry /\ srv' = srv /\ Others(t)
  BY DEF Quits
<1>3. /\ inbox' \in [Peer -> Seq(Request)] /\ outbox' \in [Peer -> Seq(Reply)]
      /\ \A d \in Peer : d # c => inbox'[d] = inbox[d] /\ outbox'[d] = outbox[d]
      /\ \A d \in Peer : inbox'[d] = inbox[d] \/ \E n \in 0..Len(inbox[d]) : inbox'[d] = SubSeq(inbox[d], 1, n)
      /\ \A d \in Peer : outbox'[d] = outbox[d] \/ outbox'[d] = <<>>
  <2>1. inbox \in [Peer -> Seq(Request)] /\ outbox \in [Peer -> Seq(Reply)] /\ <<>> \in Seq(Reply)
    BY <1>1 DEF Types
  <2>2. \A d \in Peer : \A n \in 0..Len(inbox[d]) : SubSeq(inbox[d], 1, n) \in Seq(Request)
    BY <2>1, CutOff
  <2>3. /\ outbox' \in [Peer -> Seq(Reply)] /\ \A d \in Peer : d # c => outbox'[d] = outbox[d]
        /\ \A d \in Peer : outbox'[d] = outbox[d] \/ outbox'[d] = <<>>
    BY <2>1 DEF Quits
  <2>4. CASE inbox' = inbox
    BY <2>1, <2>3, <2>4
  <2>5. CASE c \in Peer /\ \E n \in 0..Len(inbox[c]) : inbox' = [inbox EXCEPT ![c] = SubSeq(@, 1, n)]
    <3>1. PICK n \in 0..Len(inbox[c]) : inbox' = [inbox EXCEPT ![c] = SubSeq(inbox[c], 1, n)]
      BY <2>5
    <3>2. inbox'[c] = SubSeq(inbox[c], 1, n) /\ \A d \in Peer : d # c => inbox'[d] = inbox[d]
      BY <2>1, <2>5, <3>1
    <3>3. inbox' \in [Peer -> Seq(Request)]
      BY <2>1, <2>2, <2>5, <3>1
    <3> QED BY <2>3, <3>2, <3>3
  <2> QED BY <2>4, <2>5 DEF Quits
<1>4. Types'
  BY <1>1, <1>2, <1>3 DEF Types, PageOK, PcsOK
<1>5. Built'
  <2>1. Len(pcs') \in Nat /\ Len(pcs) <= Len(pcs')
    BY LenProperties DEF PageOK, PcsOK
  <2>2. \A d \in Peer : /\ \A i \in 1..Len(inbox[d]) : inbox[d][i].pc \in 0..Len(pcs')
                        /\ \A i \in 1..Len(outbox[d]) : outbox[d][i].pc \in 0..Len(pcs')
    BY <1>1, <2>1, Naming
  <2>3. ASSUME NEW d \in Peer, NEW n \in 0..Len(inbox[d]), NEW i \in 1..Len(SubSeq(inbox[d], 1, n))
        PROVE  SubSeq(inbox[d], 1, n)[i].pc \in 0..Len(pcs')
    <3>1. inbox[d] \in Seq(Request)
      BY <1>1 DEF Types
    <3> QED BY <2>2, <3>1, CutOff
  <2>4. \A d \in Peer : \A i \in 1..Len(inbox'[d]) : inbox'[d][i].pc \in 0..Len(pcs')
    BY <1>3, <2>2, <2>3
  <2>5. \A d \in Peer : \A i \in 1..Len(outbox'[d]) : outbox'[d][i].pc \in 0..Len(pcs')
    BY <1>3, <2>2
  <2> QED BY <1>1, <1>2, <2>4, <2>5, BuiltKept
<1>6. SockInv'
  <2>1. \E n \in Nat : {d \in Peer : srv'[d] # "off"} = 1..n
    BY <1>1, <1>2 DEF SockInv
  <2>2. \A d \in Peer : srv'[d] = "off" =>
            inbox'[d] = <<>> /\ outbox'[d] = <<>> /\ \A u \in Tab : tab'[u].sock # d
    <3> SUFFICES ASSUME NEW d \in Peer, srv'[d] = "off"
                 PROVE  inbox'[d] = <<>> /\ outbox'[d] = <<>> /\ \A u \in Tab : tab'[u].sock # d
      OBVIOUS
    <3>1. inbox[d] = <<>> /\ outbox[d] = <<>> /\ \A u \in Tab : tab[u].sock # d
      BY <1>1, <1>2 DEF SockInv
    <3>2. tab'[t].sock # d
      BY <3>1, NoPeerIsNone DEF Quits
    <3> QED BY <1>2, <1>3, <3>1, <3>2 DEF Others
  <2>3. \A d \in Peer : Housed(d)' => srv'[d] = "up"
    BY <1>1, <1>2 DEF SockInv, Housed
  <2>4. tab'[t].sock \in {NoPeer, tab[t].sock}
    BY DEF Quits
  <2>5. \A u, v \in Tab : tab'[u].sock = tab'[v].sock /\ tab'[u].sock # NoPeer => u = v
    BY <1>1, <1>2, <2>4 DEF SockInv, Others
  <2>6. \A u \in Tab : /\ tab'[u].ws \in {"OPEN", "CLOSING"} <=> tab'[u].sock # NoPeer
                       /\ tab'[u].ws = "OFF" => Absent(tab'[u])
    <3>1. /\ tab'[t].ws \in {"OPEN", "CLOSING"} <=> tab'[t].sock # NoPeer
          /\ tab'[t].ws = "OFF" => Absent(tab'[t])
      BY <1>1 DEF Quits, SockInv
    <3> QED BY <1>1, <1>2, <3>1 DEF SockInv, Others
  <2> QED BY <2>1, <2>2, <2>3, <2>5, <2>6 DEF SockInv
<1>7. AskInv'
  <2> SUFFICES ASSUME NEW d \in Peer PROVE Asked(d, inbox'[d], registry.peer_room)
    BY <1>2 DEF AskInv
  <2>1. inbox[d] \in Seq(Request) /\ Asked(d, inbox[d], registry.peer_room)
    BY <1>1 DEF Types, AskInv
  <2>2. \A n \in 0..Len(inbox[d]) : Asked(d, SubSeq(inbox[d], 1, n), registry.peer_room)
    BY <2>1, AskedLess
  <2> QED BY <1>3, <2>1, <2>2
<1>8. ASSUME NEW u \in Tab, tab'[u].ws = "OPEN"
      PROVE  /\ u # t /\ tab'[u] = tab[u] /\ tab[u].sock \in Peer
             /\ inbox'[tab[u].sock] = inbox[tab[u].sock] /\ outbox'[tab[u].sock] = outbox[tab[u].sock]
  <2>1. u # t
    BY <1>8 DEF Quits
  <2>2. tab'[u] = tab[u]
    BY <1>2, <2>1 DEF Others
  <2>3. tab[u].sock \in Peer /\ tab[u].sock # NoPeer
    BY <1>1, <1>8, <2>2 DEF SockInv, Types, PageType
  <2>4. tab[u].sock # c
    BY <1>1, <2>1, <2>3 DEF SockInv
  <2> QED BY <1>3, <2>1, <2>2, <2>3, <2>4
<1>9. TellInv'
  BY <1>1, <1>2, <1>8 DEF TellInv
<1>10. WaitInv'
  BY <1>1, <1>2, <1>8 DEF WaitInv, Housed
<1> QED BY <1>1, <1>2, <1>4, <1>5, <1>6, <1>7, <1>9, <1>10 DEF MeetInv

LEMMA ReadsKeeps ==
  ASSUME MeetInv, NEW t \in Tab, Reads(t), PageOK(t), tab[t].sock \in Peer
  PROVE  MeetInv' /\ (tab[t].session.room_in_hash # NoRoom =>
                        tab'[t].session.room_in_hash = tab[t].session.room_in_hash)
<1> DEFINE c == tab[t].sock
           m == Head(outbox[c])
           s == tab[t].session
           idx == registry.peer_room
           ask == Msg("Reclaim", s.room_in_hash, 0)
<1>1. Types /\ Built /\ SockInv /\ AskInv /\ TellInv /\ WaitInv /\ WellFormed(registry)
  BY DEF MeetInv
<1>2. registry' = registry /\ srv' = srv /\ Others(t) /\ outbox[c] # <<>> /\ tab[t].ws = "OPEN"
      /\ tab'[t].ws = "OPEN" /\ tab'[t].sock = c
  BY DEF Reads
<1>3. inbox[c] \in Seq(Request) /\ outbox[c] \in Seq(Reply) /\ s \in SessionType
  BY <1>1 DEF Types, PageType
<1>4. Asked(c, inbox[c], idx) /\ Told(c, inbox[c], outbox[c], s.room_in_hash, idx)
  BY <1>1, <1>2 DEF AskInv, TellInv
<1>5. /\ m.type = "Created" => s.room_in_hash \in {NoRoom, m.room}
      /\ Told(c, inbox[c], Tail(outbox[c]), IF m.type = "Created" THEN m.room ELSE s.room_in_hash, idx)
      /\ m.type \in Refusals => c \notin DOMAIN idx /\ ~HasAsk(inbox[c]) /\ ~HasRefusal(Tail(outbox[c]))
      /\ m.type \in Notices \cup {"Created"} => c \in DOMAIN idx
      /\ ~(m.type \in Refusals) => (HasRefusal(outbox[c]) <=> HasRefusal(Tail(outbox[c])))
  BY <1>2, <1>3, <1>4, ToldReads
<1>6. /\ outbox' \in [Peer -> Seq(Reply)] /\ outbox'[c] = Tail(outbox[c])
      /\ \A d \in Peer : d # c => outbox'[d] = outbox[d]
      /\ \A i \in 1..Len(outbox'[c]) : i + 1 \in 1..Len(outbox[c]) /\ outbox'[c][i] = outbox[c][i + 1]
  <2>1. outbox' = [outbox EXCEPT ![c] = Tail(@)] /\ outbox \in [Peer -> Seq(Reply)]
    BY <1>1 DEF Reads, Types
  <2>2. /\ Tail(outbox[c]) \in Seq(Reply)
        /\ \A i \in 1..Len(Tail(outbox[c])) : i + 1 \in 1..Len(outbox[c]) /\ Tail(outbox[c])[i] = outbox[c][i + 1]
    BY <1>2, <1>3, Parts
  <2> QED BY <2>1, <2>2
<1>7. MayReclaim(s) => s.room_in_hash \in Room /\ s.room_in_hash # NoRoom
  BY <1>3 DEF MayReclaim, SessionType, RoomOrNone
<1>8. /\ ask.type = "Reclaim" /\ ask.room = s.room_in_hash /\ ask.pc = 0
      /\ ask \in Request /\ ask.type \in Asks
  BY <1>3, MsgFields DEF SessionType, Asks
<1>9. /\ inbox' \in [Peer -> Seq(Request)] /\ \A d \in Peer : d # c => inbox'[d] = inbox[d]
      /\ \/ inbox'[c] = inbox[c] /\ ~(m.type = "RoomNotFound" /\ MayReclaim(s) /\ srv[c] = "up")
         \/ /\ inbox'[c] = Append(inbox[c], ask)
            /\ m.type = "RoomNotFound" /\ MayReclaim(s) /\ srv[c] = "up"
  <2>1. inbox \in [Peer -> Seq(Request)] /\ Append(inbox[c], ask) \in Seq(Request)
    BY <1>1, <1>3, <1>8, Grown DEF Types
  <2>2. CASE m.type = "RoomNotFound" /\ MayReclaim(s) /\ srv[c] = "up"
    <3>1. inbox' = [inbox EXCEPT ![c] = Append(inbox[c], ask)]
      BY <1>2, <2>2 DEF Reads, Send
    <3> QED BY <2>1, <2>2, <3>1
  <2>3. CASE ~(m.type = "RoomNotFound" /\ MayReclaim(s) /\ srv[c] = "up")
    <3>1. inbox' = inbox
      BY <2>3 DEF Reads, Send
    <3> QED BY <2>1, <2>3, <3>1
  <2> QED BY <2>2, <2>3
<1> HIDE DEF ask, m
<1>10. Types'
  BY <1>1, <1>2, <1>6, <1>9 DEF Types, PageOK, PcsOK
<1>11. Built'
  <2>1. Len(pcs') \in Nat /\ Len(pcs) <= Len(pcs')
    BY LenProperties DEF PageOK, PcsOK
  <2>2. \A d \in Peer : /\ \A i \in 1..Len(inbox[d]) : inbox[d][i].pc \in 0..Len(pcs')
                        /\ \A i \in 1..Len(outbox[d]) : outbox[d][i].pc \in 0..Len(pcs')
    BY <1>1, <2>1, Naming
  <2>3. \A i \in 1..Len(Append(inbox[c], ask)) : Append(inbox[c], ask)[i].pc \in 0..Len(pcs')
    <3>1. /\ Append(inbox[c], ask)[Len(inbox[c]) + 1] = ask
          /\ \A i \in 1..Len(inbox[c]) : Append(inbox[c], ask)[i] = inbox[c][i]
          /\ \A i \in 1..Len(Append(inbox[c], ask)) : i \in 1..Len(inbox[c]) \/ i = Len(inbox[c]) + 1
      BY <1>3, <1>8, Grown
    <3> HIDE DEF c
    <3>2. ask.pc \in 0..Len(pcs')
      BY <1>8, <2>1
    <3>3. c \in Peer
      BY DEF c
    <3> QED BY <2>2, <3>1, <3>2, <3>3
  <2>4. \A d \in Peer : \A i \in 1..Len(inbox'[d]) : inbox'[d][i].pc \in 0..Len(pcs')
    BY <1>9, <2>2, <2>3
  <2>5. \A d \in Peer : \A i \in 1..Len(outbox'[d]) : outbox'[d][i].pc \in 0..Len(pcs')
    BY <1>6, <2>2
  <2> QED BY <1>1, <1>2, <2>4, <2>5, BuiltKept
<1>12. SockInv'
  <2>1. \E n \in Nat : {d \in Peer : srv'[d] # "off"} = 1..n
    BY <1>1, <1>2 DEF SockInv
  <2>2. \A u \in Tab : tab'[u].sock = tab[u].sock /\ tab'[u].ws = tab[u].ws
    BY <1>2 DEF Others
  <2>4. \A d \in Peer : srv'[d] = "off" =>
            inbox'[d] = <<>> /\ outbox'[d] = <<>> /\ \A u \in Tab : tab'[u].sock # d
    <3> SUFFICES ASSUME NEW d \in Peer, srv'[d] = "off"
                 PROVE  inbox'[d] = <<>> /\ outbox'[d] = <<>> /\ \A u \in Tab : tab'[u].sock # d
      OBVIOUS
    <3>1. inbox[d] = <<>> /\ outbox[d] = <<>> /\ \A u \in Tab : tab[u].sock # d
      BY <1>1, <1>2 DEF SockInv
    <3>2. d # c
      BY <3>1
    <3> QED BY <1>6, <1>9, <2>2, <3>1, <3>2
  <2>5. \A d \in Peer : Housed(d)' => srv'[d] = "up"
    BY <1>1, <1>2 DEF SockInv, Housed
  <2>6. \A u, v \in Tab : tab'[u].sock = tab'[v].sock /\ tab'[u].sock # NoPeer => u = v
    BY <1>1, <2>2 DEF SockInv
  <2>7. \A u \in Tab : /\ tab'[u].ws \in {"OPEN", "CLOSING"} <=> tab'[u].sock # NoPeer
                       /\ tab'[u].ws = "OFF" => Absent(tab'[u])
    BY <1>1, <1>2, <2>2 DEF SockInv, Others
  <2> QED BY <2>1, <2>4, <2>5, <2>6, <2>7 DEF SockInv
<1>13. Asked(c, inbox'[c], idx)
  <2>1. CASE inbox'[c] = inbox[c]
    BY <1>4, <2>1
  <2>2. CASE inbox'[c] = Append(inbox[c], ask) /\ m.type = "RoomNotFound" /\ MayReclaim(s)
    <3>1. ~HasAsk(inbox[c]) /\ c \notin DOMAIN idx
      BY <1>5, <2>2 DEF Refusals
    <3> QED BY <1>3, <1>4, <1>7, <1>8, <2>2, <3>1, AskedOnce
  <2> QED BY <1>9, <2>1, <2>2
<1>14. AskInv'
  BY <1>1, <1>2, <1>9, <1>13 DEF AskInv
<1>15. \A u \in Tab \ {t} : tab[u].ws = "OPEN" => tab[u].sock \in Peer \ {c}
  BY <1>1 DEF SockInv, Types, PageType
<1>16. Told(c, inbox'[c], outbox'[c], tab'[t].session.room_in_hash, idx)
  <2>1. tab'[t].session.room_in_hash = IF m.type = "Created" THEN m.room ELSE s.room_in_hash
    BY DEF Reads, m
  <2>2. CASE inbox'[c] = inbox[c]
    BY <1>5, <1>6, <2>1, <2>2
  <2>3. CASE inbox'[c] = Append(inbox[c], ask) /\ m.type = "RoomNotFound" /\ MayReclaim(s)
    <3>1. tab'[t].session.room_in_hash = s.room_in_hash /\ ~HasRefusal(Tail(outbox[c]))
      BY <1>5, <2>1, <2>3 DEF Refusals
    <3>2. Told(c, inbox[c], Tail(outbox[c]), s.room_in_hash, idx)
      BY <1>5, <2>3
    <3> QED BY <1>3, <1>6, <1>7, <1>8, <2>3, <3>1, <3>2, ToldReclaims
  <2> QED BY <1>9, <2>2, <2>3
<1>17. TellInv'
  <2> SUFFICES ASSUME NEW u \in Tab, tab'[u].ws = "OPEN"
               PROVE  Told(tab'[u].sock, inbox'[tab'[u].sock], outbox'[tab'[u].sock],
                           tab'[u].session.room_in_hash, registry'.peer_room)
    BY DEF TellInv
  <2>1. CASE u = t
    BY <1>2, <1>16, <2>1
  <2>2. CASE u # t
    <3>1. tab'[u] = tab[u] /\ tab[u].sock \in Peer \ {c}
      BY <1>2, <1>15, <2>2 DEF Others
    <3>2. inbox'[tab[u].sock] = inbox[tab[u].sock] /\ outbox'[tab[u].sock] = outbox[tab[u].sock]
      BY <1>6, <1>9, <3>1
    <3> QED BY <1>1, <1>2, <3>1, <3>2 DEF TellInv
  <2> QED BY <2>1, <2>2
<1>18. srv[c] = "up" /\ tab'[t].status \in {"WaitingForPeer", "PeerLeft"} =>
            c \in DOMAIN idx \/ HasAsk(inbox'[c]) \/ HasRefusal(outbox'[c])
  <2> SUFFICES ASSUME srv[c] = "up", tab'[t].status \in {"WaitingForPeer", "PeerLeft"}
               PROVE  c \in DOMAIN idx \/ HasAsk(inbox'[c]) \/ HasRefusal(outbox'[c])
    OBVIOUS
  <2>1. tab'[t].status = StatusAfter(t, s, m)
    BY DEF Reads, m
  <2>2. CASE m.type \in Notices \cup {"Created"}
    BY <1>5, <2>2
  <2>3. CASE m.type \in Refusals
    <3>1. m.type = "RoomNotFound" /\ MayReclaim(s)
      BY <2>1, <2>3 DEF StatusAfter, Refusals
    <3>2. inbox'[c] = Append(inbox[c], ask)
      BY <1>9, <3>1
    <3>3. Len(inbox[c]) + 1 \in 1..Len(inbox'[c]) /\ inbox'[c][Len(inbox[c]) + 1] = ask
      BY <1>3, <1>8, <3>2, Grown
    <3> QED BY <1>8, <3>3 DEF HasAsk
  <2>4. m \in Reply
    BY <1>2, <1>3, Parts DEF m
  <2> QED BY <2>2, <2>3, <2>4 DEF Reply
<1>19. WaitInv'
  <2> SUFFICES ASSUME NEW u \in Tab, tab'[u].ws = "OPEN", srv'[tab'[u].sock] = "up",
                      tab'[u].status \in {"WaitingForPeer", "PeerLeft"}
               PROVE  \/ tab'[u].sock \in DOMAIN registry'.peer_room
                      \/ HasAsk(inbox'[tab'[u].sock]) \/ HasRefusal(outbox'[tab'[u].sock])
    BY DEF WaitInv, Housed
  <2>1. CASE u = t
    BY <1>2, <1>18, <2>1
  <2>2. CASE u # t
    <3>1. tab'[u] = tab[u] /\ tab[u].sock \in Peer \ {c}
      BY <1>2, <1>15, <2>2 DEF Others
    <3>2. inbox'[tab[u].sock] = inbox[tab[u].sock] /\ outbox'[tab[u].sock] = outbox[tab[u].sock]
      BY <1>6, <1>9, <3>1
    <3> QED BY <1>1, <1>2, <3>1, <3>2 DEF WaitInv, Housed
  <2> QED BY <2>1, <2>2
<1>20. s.room_in_hash # NoRoom => tab'[t].session.room_in_hash = s.room_in_hash
  BY <1>5 DEF Reads, m
<1> QED BY <1>1, <1>2, <1>10, <1>11, <1>12, <1>14, <1>17, <1>19, <1>20 DEF MeetInv

(* The first request of a connection that nobody knew of. *)
LEMMA FirstRequest ==
  ASSUME NEW c, NEW hash \in RoomOrNone, NEW idx, c \notin DOMAIN idx, NEW m \in Request,
         m.type = IF hash = NoRoom THEN "Create" ELSE "Join", m.room = hash
  PROVE  Asked(c, <<m>>, idx) /\ Told(c, <<m>>, <<>>, hash, idx) /\ HasAsk(<<m>>)
<1> DEFINE in == <<m>>
<1>1. Len(in) = 1 /\ in[1] = m /\ \A i \in 1..Len(in) : i = 1
  OBVIOUS
<1>2. m.type \in Asks /\ (m.type \in {"Join", "Reclaim"} => m.room \in Room /\ hash # NoRoom)
      /\ (m.type = "Create" => hash = NoRoom)
  BY DEF Asks, RoomOrNone
<1>3. Len(<<>>) = 0 /\ \A i \in 1..Len(<<>>) : FALSE
  OBVIOUS
<1> HIDE DEF in
<1>4. HasAsk(in) /\ ~HasRefusal(<<>>)
  BY <1>1, <1>2, <1>3 DEF HasAsk, HasRefusal
<1>5. Asked(c, in, idx)
  BY <1>1, <1>2 DEF Asked
<1>6. Told(c, in, <<>>, hash, idx)
  BY <1>1, <1>2, <1>3, <1>4 DEF Told
<1> QED BY <1>4, <1>5, <1>6 DEF in

LEMMA OpensKeeps ==
  ASSUME MeetInv, NEW t \in Tab, Opens(t)
  PROVE  MeetInv' /\ tab'[t].session = tab[t].session /\ Others(t)
<1> DEFINE c == Cardinality({d \in Peer : srv[d] # "off"}) + 1
           s == tab[t].session
           m == Msg(IF OnOpen(s) = "SendCreate" THEN "Create" ELSE "Join", s.room_in_hash, 0)
<1>1. Types /\ Built /\ SockInv /\ AskInv /\ TellInv /\ WaitInv /\ WellFormed(registry)
  BY DEF MeetInv
<1>2. PICK n \in Nat : {d \in Peer : srv[d] # "off"} = 1..n
  BY <1>1 DEF SockInv
<1>3. c = n + 1
  <2>1. Cardinality(1..n) = IF 1 > n THEN 0 ELSE n - 1 + 1
    BY FS_Interval
  <2>2. Cardinality(1..n) = n
    BY <2>1
  <2> QED BY <1>2, <2>2
<1>4. /\ c \in Peer /\ tab' = [tab EXCEPT ![t].ws = "OPEN", ![t].sock = c]
      /\ srv' = [srv EXCEPT ![c] = "up"] /\ inbox' = [inbox EXCEPT ![c] = <<m>>]
      /\ UNCHANGED <<pcs, registry, outbox>> /\ tab[t].ws = "CONNECTING"
  BY DEF Opens, Link!Open
<1> HIDE DEF c
<1>5. srv[c] = "off"
  BY <1>2, <1>3, <1>4
<1>6. inbox[c] = <<>> /\ outbox[c] = <<>> /\ ~Housed(c) /\ \A u \in Tab : tab[u].sock # c
  BY <1>1, <1>4, <1>5 DEF SockInv
<1>7. tab[t] \in PageType /\ s \in SessionType /\ s.room_in_hash \in RoomOrNone
  BY <1>1 DEF Types, PageType, SessionType
<1>8. /\ tab' \in [Tab -> PageType] /\ Others(t) /\ tab'[t].ws = "OPEN" /\ tab'[t].sock = c
      /\ tab'[t].session = s /\ tab'[t].pc = tab[t].pc /\ tab'[t].transfer = tab[t].transfer
  BY <1>1, <1>4, <1>7 DEF Types, PageType, Ws, Others
<1>9. /\ m \in Request /\ m.type = (IF s.room_in_hash = NoRoom THEN "Create" ELSE "Join")
      /\ m.room = s.room_in_hash /\ m.pc = 0
  <2>1. m.type = (IF s.room_in_hash = NoRoom THEN "Create" ELSE "Join")
    BY MsgFields DEF OnOpen
  <2> QED BY <1>7, <2>1, MsgFields DEF Asks
<1> HIDE DEF m, s
<1>10. /\ Asked(c, <<m>>, registry.peer_room) /\ HasAsk(<<m>>)
       /\ Told(c, <<m>>, <<>>, s.room_in_hash, registry.peer_room)
  BY <1>6, <1>7, <1>9, FirstRequest DEF Housed
<1>11. /\ inbox' \in [Peer -> Seq(Request)] /\ inbox'[c] = <<m>>
       /\ \A d \in Peer : d # c => inbox'[d] = inbox[d]
  <2>1. <<m>> \in Seq(Request)
    BY <1>9
  <2> QED BY <1>1, <1>4, <2>1 DEF Types
<1>12. /\ srv' \in [Peer -> {"off", "up", "gone"}] /\ srv'[c] = "up"
       /\ \A d \in Peer : d # c => srv'[d] = srv[d]
  BY <1>1, <1>4 DEF Types
<1>13. PageOK(t)
  <2>1. PcsOK /\ Len(pcs) \in Nat /\ tab[t].pc <= Len(pcs) /\ tab[t].transfer <= Len(pcs)
    BY <1>1, PcsKept DEF PcsOK, Types, Built
  <2>2. PcsOK' /\ Len(pcs') = Len(pcs)
    BY <1>4, <2>1, PcsKept
  <2> QED BY <1>8, <2>1, <2>2 DEF PageOK
<1>14. Types'
  BY <1>1, <1>4, <1>11, <1>12, <1>13 DEF Types, PageOK, PcsOK
<1>15. Built'
  <2>1. Len(pcs') \in Nat /\ Len(pcs) <= Len(pcs')
    BY <1>13, LenProperties DEF PageOK, PcsOK
  <2>2. \A d \in Peer : /\ \A i \in 1..Len(inbox[d]) : inbox[d][i].pc \in 0..Len(pcs')
                        /\ \A i \in 1..Len(outbox[d]) : outbox[d][i].pc \in 0..Len(pcs')
    BY <1>1, <2>1, Naming
  <2>3. \A i \in 1..Len(<<m>>) : <<m>>[i].pc \in 0..Len(pcs')
    BY <1>9, <2>1
  <2>4. \A d \in Peer : \A i \in 1..Len(inbox'[d]) : inbox'[d][i].pc \in 0..Len(pcs')
    BY <1>11, <2>2, <2>3
  <2> QED BY <1>1, <1>4, <1>8, <1>13, <2>2, <2>4, BuiltKept
<1>16. SockInv'
  <2>1. {d \in Peer : srv'[d] # "off"} = 1..(n + 1)
    <3>1. {d \in Peer : srv'[d] # "off"} = {d \in Peer : srv[d] # "off"} \cup {c}
      BY <1>4, <1>12
    <3>2. (1..n) \cup {n + 1} = 1..(n + 1)
      OBVIOUS
    <3> QED BY <1>2, <1>3, <3>1, <3>2
  <2>2. \A d \in Peer : srv'[d] = "off" =>
            inbox'[d] = <<>> /\ outbox'[d] = <<>> /\ \A u \in Tab : tab'[u].sock # d
    <3> SUFFICES ASSUME NEW d \in Peer, srv'[d] = "off"
                 PROVE  inbox'[d] = <<>> /\ outbox'[d] = <<>> /\ \A u \in Tab : tab'[u].sock # d
      OBVIOUS
    <3>1. d # c /\ srv[d] = "off"
      BY <1>12
    <3>2. inbox[d] = <<>> /\ outbox[d] = <<>> /\ \A u \in Tab : tab[u].sock # d
      BY <1>1, <3>1 DEF SockInv
    <3> QED BY <1>4, <1>8, <1>11, <3>1, <3>2 DEF Others
  <2>3. \A d \in Peer : Housed(d)' => srv'[d] = "up"
    BY <1>1, <1>4, <1>6, <1>12 DEF SockInv, Housed
  <2>4. \A u, v \in Tab : tab'[u].sock = tab'[v].sock /\ tab'[u].sock # NoPeer => u = v
    BY <1>1, <1>6, <1>8 DEF SockInv, Others
  <2>5. \A u \in Tab : /\ tab'[u].ws \in {"OPEN", "CLOSING"} <=> tab'[u].sock # NoPeer
                       /\ tab'[u].ws = "OFF" => Absent(tab'[u])
    <3>1. tab'[t].ws = "OPEN" /\ tab'[t].sock # NoPeer
      BY <1>4, <1>8, NoPeerIsNone
    <3> QED BY <1>1, <1>8, <3>1 DEF SockInv, Others
  <2>6. n + 1 \in Nat
    OBVIOUS
  <2> QED BY <2>1, <2>2, <2>3, <2>4, <2>5, <2>6 DEF SockInv
<1>17. AskInv'
  BY <1>1, <1>4, <1>10, <1>11 DEF AskInv
<1>18. ASSUME NEW u \in Tab \ {t}, tab'[u].ws = "OPEN"
       PROVE  /\ tab'[u] = tab[u] /\ tab[u].sock \in Peer /\ tab[u].sock # c
              /\ inbox'[tab[u].sock] = inbox[tab[u].sock]
  <2>1. tab'[u] = tab[u]
    BY <1>8 DEF Others
  <2>2. tab[u].sock \in Peer /\ tab[u].sock # c
    BY <1>1, <1>6, <1>18, <2>1 DEF SockInv, Types, PageType
  <2> QED BY <1>11, <2>1, <2>2
<1>19. TellInv'
  <2> SUFFICES ASSUME NEW u \in Tab, tab'[u].ws = "OPEN"
               PROVE  Told(tab'[u].sock, inbox'[tab'[u].sock], outbox'[tab'[u].sock],
                           tab'[u].session.room_in_hash, registry'.peer_room)
    BY DEF TellInv
  <2>1. CASE u = t
    BY <1>4, <1>6, <1>8, <1>10, <1>11, <2>1
  <2>2. CASE u # t
    BY <1>1, <1>4, <1>18, <2>2 DEF TellInv
  <2> QED BY <2>1, <2>2
<1>20. WaitInv'
  <2> SUFFICES ASSUME NEW u \in Tab, tab'[u].ws = "OPEN", srv'[tab'[u].sock] = "up",
                      tab'[u].status \in {"WaitingForPeer", "PeerLeft"}
               PROVE  \/ tab'[u].sock \in DOMAIN registry'.peer_room
                      \/ HasAsk(inbox'[tab'[u].sock]) \/ HasRefusal(outbox'[tab'[u].sock])
    BY DEF WaitInv, Housed
  <2>1. CASE u = t
    BY <1>8, <1>10, <1>11, <2>1
  <2>2. CASE u # t
    <3>1. /\ tab'[u] = tab[u] /\ tab[u].sock \in Peer /\ tab[u].sock # c
          /\ inbox'[tab[u].sock] = inbox[tab[u].sock]
      BY <1>18, <2>2
    <3>2. srv'[tab[u].sock] = srv[tab[u].sock] /\ outbox' = outbox /\ registry' = registry
      BY <1>4, <1>12, <3>1
    <3> QED BY <1>1, <3>1, <3>2 DEF WaitInv, Housed
  <2> QED BY <2>1, <2>2
<1> QED BY <1>1, <1>4, <1>8, <1>14, <1>15, <1>16, <1>17, <1>19, <1>20 DEF MeetInv, s

(* A description is sent: only the requests of one connection change. *)
LEMMA DescribesKeeps ==
  ASSUME MeetInv, NEW i \in 1..Len(pcs), Describes(i)
  PROVE  MeetInv' /\ tab' = tab
<1> DEFINE t == pcs[i].tab
           c == tab[t].sock
           m == Msg(pcs[i].role, NoRoom, i)
<1>1. Types /\ Built /\ SockInv /\ AskInv /\ TellInv /\ WaitInv /\ WellFormed(registry)
  BY DEF MeetInv
<1>2. PcsOK /\ Len(pcs) \in Nat /\ pcs[i] \in PcType
  BY <1>1, PcsKept DEF PcsOK, Types, Built
<1>3. t \in Tab /\ pcs[i].role \in Relays
  BY <1>2 DEF PcType, Relays
<1>4. pcs' = [pcs EXCEPT ![i].local = TRUE] /\ Send(t, m) /\ UNCHANGED <<tab, registry, srv, outbox>>
  BY DEF Describes
<1>5. PcsOK' /\ Len(pcs') = Len(pcs)
  BY <1>2, <1>4, PcsKept
<1>6. /\ m \in Request /\ m.type \in Relays /\ m.pc = i
      /\ i \in 0..Len(pcs)
  BY <1>2, <1>3, MsgFields DEF RoomOrNone
<1> HIDE DEF t, m
<1>7. PageOK(t) /\ Others(t)
  BY <1>1, <1>2, <1>3, <1>4, <1>5 DEF PageOK, Others, Types, Built
<1>8. \/ inbox' = inbox
      \/ c \in Peer /\ inbox' = [inbox EXCEPT ![c] = Append(inbox[c], m)]
  <2>1. tab[t].ws = "OPEN" => c \in Peer
    BY <1>1, <1>3 DEF SockInv, Types, PageType
  <2> QED BY <1>4, <2>1 DEF Send
<1>9. ASSUME NEW d \in Peer
      PROVE  /\ inbox'[d] = inbox[d] \/ (srv[d] # "off" /\ inbox'[d] = Append(inbox[d], m))
             /\ inbox'[d] \in Seq(Request) /\ inbox[d] \in Seq(Request)
  <2>1. inbox \in [Peer -> Seq(Request)]
    BY <1>1 DEF Types
  <2>2. inbox'[d] = inbox[d] \/ (d = c /\ inbox'[d] = Append(inbox[d], m))
    BY <1>8, <2>1
  <2>3. Append(inbox[d], m) \in Seq(Request)
    BY <1>6, <2>1, Grown
  <2>4. d = c => srv[d] # "off"
    BY <1>1, <1>3 DEF SockInv
  <2> QED BY <2>1, <2>2, <2>3, <2>4
<1>10. Types'
  <2>1. inbox' \in [Peer -> Seq(Request)]
    <3>1. inbox \in [Peer -> Seq(Request)] /\ (c \in Peer => Append(inbox[c], m) \in Seq(Request))
      BY <1>1, <1>6, Grown DEF Types
    <3> QED BY <1>8, <3>1
  <2> QED BY <1>1, <1>4, <1>5, <2>1 DEF Types, PcsOK
<1>11. Built'
  <2>1. \A d \in Peer : /\ \A k \in 1..Len(inbox[d]) : inbox[d][k].pc \in 0..Len(pcs')
                        /\ \A k \in 1..Len(outbox[d]) : outbox[d][k].pc \in 0..Len(pcs')
    BY <1>1, <1>2, <1>5, Naming
  <2>2. ASSUME NEW d \in Peer, NEW k \in 1..Len(Append(inbox[d], m))
        PROVE  Append(inbox[d], m)[k].pc \in 0..Len(pcs')
    <3>1. /\ Append(inbox[d], m)[Len(inbox[d]) + 1] = m
          /\ k \in 1..Len(inbox[d]) => Append(inbox[d], m)[k] = inbox[d][k]
          /\ k \in 1..Len(inbox[d]) \/ k = Len(inbox[d]) + 1
      BY <1>6, <1>9, Grown
    <3> QED BY <1>5, <1>6, <2>1, <3>1
  <2>3. \A d \in Peer : \A k \in 1..Len(inbox'[d]) : inbox'[d][k].pc \in 0..Len(pcs')
    BY <1>9, <2>1, <2>2
  <2> QED BY <1>1, <1>3, <1>4, <1>7, <2>1, <2>3, BuiltKept
<1>12. SockInv'
  <2>1. \A d \in Peer : srv'[d] = "off" =>
            inbox'[d] = <<>> /\ outbox'[d] = <<>> /\ \A u \in Tab : tab'[u].sock # d
    BY <1>1, <1>4, <1>9 DEF SockInv
  <2> QED BY <1>1, <1>4, <2>1 DEF SockInv, Housed
<1>13. AskInv'
  <2> SUFFICES ASSUME NEW d \in Peer PROVE Asked(d, inbox'[d], registry.peer_room)
    BY <1>4 DEF AskInv
  <2>1. Asked(d, inbox[d], registry.peer_room)
    BY <1>1 DEF AskInv
  <2>2. Asked(d, Append(inbox[d], m), registry.peer_room)
    BY <1>6, <1>9, <2>1, AskedRelay
  <2> QED BY <1>9, <2>1, <2>2
<1>14. TellInv'
  <2> SUFFICES ASSUME NEW u \in Tab, tab[u].ws = "OPEN"
               PROVE  Told(tab[u].sock, inbox'[tab[u].sock], outbox[tab[u].sock],
                           tab[u].session.room_in_hash, registry.peer_room)
    BY <1>4 DEF TellInv
  <2>1. tab[u].sock \in Peer
    BY <1>1 DEF SockInv, Types, PageType
  <2>2. Told(tab[u].sock, inbox[tab[u].sock], outbox[tab[u].sock],
             tab[u].session.room_in_hash, registry.peer_room)
    BY <1>1 DEF TellInv
  <2>3. inbox[tab[u].sock] \in Seq(Request)
    BY <1>9, <2>1
  <2>4. Told(tab[u].sock, Append(inbox[tab[u].sock], m), outbox[tab[u].sock],
             tab[u].session.room_in_hash, registry.peer_room)
    BY <1>6, <2>2, <2>3, ToldRelay
  <2> QED BY <1>9, <2>1, <2>2, <2>4
<1>15. WaitInv'
  <2>1. \A d \in Peer : HasAsk(inbox[d]) => HasAsk(inbox'[d])
    <3> SUFFICES ASSUME NEW d \in Peer, HasAsk(inbox[d]) PROVE HasAsk(inbox'[d])
      OBVIOUS
    <3>1. Asked(d, inbox[d], registry.peer_room)
      BY <1>1 DEF AskInv
    <3>2. HasAsk(Append(inbox[d], m))
      BY <1>6, <1>9, <3>1, AskedRelay
    <3> QED BY <1>9, <3>2
  <2>2. \A u \in Tab : tab[u].ws = "OPEN" => tab[u].sock \in Peer
    BY <1>1 DEF SockInv, Types, PageType
  <2> QED BY <1>1, <1>4, <2>1, <2>2 DEF WaitInv, Housed
<1> QED BY <1>1, <1>4, <1>10, <1>11, <1>12, <1>13, <1>14, <1>15 DEF MeetInv

(* A control channel opens: only what a page shows changes. *)
LEMMA CtrlOpensKeeps ==
  ASSUME MeetInv, NEW i \in 1..Len(pcs), CtrlOpens(i)
  PROVE  /\ MeetInv'
         /\ \A u \in Tab : tab'[u].session = tab[u].session
<1> DEFINE t == pcs[i].tab
           tr == IF pcs[i].role = "Answer" THEN i ELSE tab[t].transfer
<1>1. Types /\ Built /\ SockInv /\ AskInv /\ TellInv /\ WaitInv /\ WellFormed(registry)
  BY DEF MeetInv
<1>2. PcsOK /\ Len(pcs) \in Nat /\ pcs[i] \in PcType
  BY <1>1, PcsKept DEF PcsOK, Types, Built
<1>3. t \in Tab
  BY <1>2 DEF PcType
<1>4. /\ pcs' = [pcs EXCEPT ![i].opened = TRUE] /\ UNCHANGED <<registry, srv, inbox, outbox>>
      /\ tab' = [tab EXCEPT ![t].status = "Connected", ![t].transfer = tr]
  BY DEF CtrlOpens
<1>5. PcsOK' /\ Len(pcs') = Len(pcs)
  BY <1>2, <1>4, PcsKept
<1>6. tab[t] \in PageType /\ tr \in Nat /\ tr <= Len(pcs)
  BY <1>1, <1>2, <1>3 DEF Types, PageType, Built
<1> HIDE DEF t, tr
<1>7. /\ tab' \in [Tab -> PageType] /\ Others(t) /\ tab'[t].ws = tab[t].ws /\ tab'[t].sock = tab[t].sock
      /\ tab'[t].session = tab[t].session /\ tab'[t].pc = tab[t].pc /\ tab'[t].transfer = tr
      /\ tab'[t].status = "Connected"
  BY <1>1, <1>3, <1>4, <1>6 DEF Types, PageType, Others, Status
<1>8. PageOK(t)
  BY <1>1, <1>2, <1>3, <1>5, <1>6, <1>7 DEF PageOK, Built
<1>9. Types'
  BY <1>1, <1>4, <1>5, <1>7 DEF Types, PcsOK
<1>10. Built'
  <2>1. \A d \in Peer : /\ \A k \in 1..Len(inbox[d]) : inbox[d][k].pc \in 0..Len(pcs')
                        /\ \A k \in 1..Len(outbox[d]) : outbox[d][k].pc \in 0..Len(pcs')
    BY <1>1, <1>2, <1>5, Naming
  <2> QED BY <1>1, <1>3, <1>4, <1>7, <1>8, <2>1, BuiltKept
<1>11. \A u \in Tab : /\ tab'[u].ws = tab[u].ws /\ tab'[u].sock = tab[u].sock
                      /\ tab'[u].session = tab[u].session
                      /\ tab'[u].status \in {tab[u].status, "Connected"}
  BY <1>7 DEF Others
<1>12. SockInv'
  <2>0. srv' = srv /\ inbox' = inbox /\ outbox' = outbox /\ registry' = registry
    BY <1>4
  <2>1. \E n \in Nat : {d \in Peer : srv'[d] # "off"} = 1..n
    BY <1>1, <2>0 DEF SockInv
  <2>2. \A d \in Peer : srv'[d] = "off" =>
            inbox'[d] = <<>> /\ outbox'[d] = <<>> /\ \A u \in Tab : tab'[u].sock # d
    BY <1>1, <2>0, <1>11 DEF SockInv
  <2>3. \A d \in Peer : Housed(d)' => srv'[d] = "up"
    BY <1>1, <2>0 DEF SockInv, Housed
  <2>4. \A u, v \in Tab : tab'[u].sock = tab'[v].sock /\ tab'[u].sock # NoPeer => u = v
    BY <1>1, <1>11 DEF SockInv
  <2>5. \A u \in Tab : /\ tab'[u].ws \in {"OPEN", "CLOSING"} <=> tab'[u].sock # NoPeer
                       /\ tab'[u].ws = "OFF" => Absent(tab'[u])
    BY <1>1, <1>11 DEF SockInv, Absent
  <2> QED BY <2>1, <2>2, <2>3, <2>4, <2>5 DEF SockInv
<1>13. AskInv' /\ TellInv'
  BY <1>1, <1>4, <1>11 DEF AskInv, TellInv
<1>14. WaitInv'
  BY <1>1, <1>4, <1>11 DEF WaitInv, Housed
<1> QED BY <1>1, <1>4, <1>9, <1>10, <1>11, <1>12, <1>13, <1>14 DEF MeetInv

-----------------------------------------------------------------------------
(* The server. *)

(* What a send adds to the replies on their way. *)
LEMMA SendToAdds ==
  ASSUME Types, NEW q \in Peer \cup {NoPeer}, NEW m \in Reply
  PROVE  /\ SendTo(outbox, q, m) \in [Peer -> Seq(Reply)]
         /\ \A d \in Peer : SendTo(outbox, q, m)[d] =
               IF d = q /\ Holders(d) # {} THEN Append(outbox[d], m) ELSE outbox[d]
<1>1. outbox \in [Peer -> Seq(Reply)]
  BY DEF Types
<1>2. \A d \in Peer : Append(outbox[d], m) \in Seq(Reply)
  BY <1>1, Grown
<1>3. CASE q # NoPeer /\ Holders(q) # {}
  <2>1. SendTo(outbox, q, m) = [outbox EXCEPT ![q] = Append(outbox[q], m)] /\ q \in Peer
    BY <1>3 DEF SendTo
  <2> QED BY <1>1, <1>2, <1>3, <2>1
<1>4. CASE ~(q # NoPeer /\ Holders(q) # {})
  <2>1. SendTo(outbox, q, m) = outbox
    BY <1>4 DEF SendTo
  <2>2. \A d \in Peer : d # NoPeer
    BY NoPeerIsNone
  <2> QED BY <1>1, <1>4, <2>1, <2>2
<1> QED BY <1>3, <1>4

(* A step of the server for connection c, that may read a request of c and *)
(* sends m to q: what the server knows and says of c, and that another     *)
(* connection can only hear a notice.                                      *)
Serves(c, q, m) ==
    /\ UNCHANGED <<tab, pcs>> /\ outbox' = SendTo(outbox, q, m)
    /\ inbox' = inbox \/ (inbox[c] # <<>> /\ inbox' = [inbox EXCEPT ![c] = Tail(@)])
    /\ srv' \in [Peer -> {"off", "up", "gone"}] /\ srv[c] # "off" /\ srv'[c] # "off"
    /\ \A d \in Peer \ {c} : srv'[d] = srv[d]
    /\ WellFormed(registry') /\ \A d \in DOMAIN registry'.peer_room : srv'[d] = "up"
    /\ \A d \in Peer \ {c} : /\ d \in DOMAIN registry'.peer_room <=> d \in DOMAIN registry.peer_room
                             /\ d \in DOMAIN registry.peer_room =>
                                   registry'.peer_room[d] = registry.peer_room[d]
    /\ Asked(c, inbox'[c], registry'.peer_room)
    /\ \A t \in Tab : tab[t].ws = "OPEN" /\ tab[t].sock = c =>
          /\ Told(c, inbox'[c], outbox'[c], tab[t].session.room_in_hash, registry'.peer_room)
          /\ srv'[c] = "up" /\ tab[t].status \in {"WaitingForPeer", "PeerLeft"} =>
                \/ c \in DOMAIN registry'.peer_room
                \/ HasAsk(inbox'[c]) \/ HasRefusal(outbox'[c])
    /\ q \in Peer \ {c} => m.type \in Notices /\ q \in DOMAIN registry'.peer_room

(* Such a step keeps the invariant. *)
LEMMA ServerKeeps ==
  ASSUME MeetInv, NEW c \in Peer, NEW q \in Peer \cup {NoPeer}, NEW m \in Reply, m.pc <= Len(pcs),
         Serves(c, q, m)
  PROVE  MeetInv'
<1>0. \A d \in Peer \ {c} : /\ d \in DOMAIN registry'.peer_room <=> d \in DOMAIN registry.peer_room
                            /\ d \in DOMAIN registry.peer_room =>
                                  registry'.peer_room[d] = registry.peer_room[d]
  BY DEF Serves
<1>1. Types /\ Built /\ SockInv /\ AskInv /\ TellInv /\ WaitInv
  BY DEF MeetInv
<1>2. inbox \in [Peer -> Seq(Request)] /\ outbox \in [Peer -> Seq(Reply)] /\ tab' = tab /\ pcs' = pcs
  BY <1>1 DEF Types, Serves
<1>3. /\ outbox' \in [Peer -> Seq(Reply)]
      /\ \A d \in Peer : outbox'[d] = IF d = q /\ Holders(d) # {} THEN Append(outbox[d], m) ELSE outbox[d]
  BY <1>1, SendToAdds DEF Serves
<1>4. /\ inbox' \in [Peer -> Seq(Request)] /\ \A d \in Peer \ {c} : inbox'[d] = inbox[d]
      /\ \/ inbox'[c] = inbox[c]
         \/ inbox[c] # <<>> /\ inbox'[c] = Tail(inbox[c])
  <2>1. inbox[c] # <<>> => Tail(inbox[c]) \in Seq(Request)
    BY <1>2, Parts
  <2> QED BY <1>2, <2>1 DEF Serves
<1>5. Types'
  BY <1>1, <1>2, <1>3, <1>4 DEF Types, Serves
<1>6. Built'
  <2>1. Len(pcs) \in Nat /\ m.pc \in Nat
    BY <1>1, LenProperties DEF Types, Reply
  <2>2. \A d \in Peer : /\ \A i \in 1..Len(inbox[d]) : inbox[d][i].pc <= Len(pcs)
                        /\ \A i \in 1..Len(outbox[d]) : outbox[d][i].pc <= Len(pcs)
    BY <1>1 DEF Built
  <2>3. inbox[c] # <<>> => \A i \in 1..Len(Tail(inbox[c])) : Tail(inbox[c])[i].pc <= Len(pcs)
    BY <1>2, <2>2, Parts
  <2>4. \A d \in Peer : \A i \in 1..Len(inbox'[d]) : inbox'[d][i].pc <= Len(pcs)
    BY <1>4, <2>2, <2>3
  <2>5. ASSUME NEW d \in Peer, NEW i \in 1..Len(Append(outbox[d], m))
        PROVE  Append(outbox[d], m)[i].pc <= Len(pcs)
    <3>1. /\ Append(outbox[d], m)[Len(outbox[d]) + 1] = m
          /\ i \in 1..Len(outbox[d]) => Append(outbox[d], m)[i] = outbox[d][i]
          /\ i \in 1..Len(outbox[d]) \/ i = Len(outbox[d]) + 1
      BY <1>2, Grown
    <3> QED BY <2>2, <3>1
  <2>6. \A d \in Peer : \A i \in 1..Len(outbox'[d]) : outbox'[d][i].pc <= Len(pcs)
    BY <1>3, <2>2, <2>5
  <2> QED BY <1>1, <1>2, <2>4, <2>6 DEF Built
<1>7. SockInv'
  <2>1. {d \in Peer : srv'[d] # "off"} = {d \in Peer : srv[d] # "off"}
    BY DEF Serves
  <2>2. \E n \in Nat : {d \in Peer : srv'[d] # "off"} = 1..n
    BY <1>1, <2>1 DEF SockInv
  <2>3. \A d \in Peer : srv'[d] = "off" =>
            inbox'[d] = <<>> /\ outbox'[d] = <<>> /\ \A u \in Tab : tab'[u].sock # d
    <3> SUFFICES ASSUME NEW d \in Peer, srv'[d] = "off"
                 PROVE  inbox'[d] = <<>> /\ outbox'[d] = <<>> /\ \A u \in Tab : tab'[u].sock # d
      OBVIOUS
    <3>1. d # c /\ inbox[d] = <<>> /\ outbox[d] = <<>> /\ \A u \in Tab : tab[u].sock # d
      BY <1>1 DEF SockInv, Serves
    <3>2. Holders(d) = {}
      BY <3>1 DEF Holders
    <3> QED BY <1>2, <1>3, <1>4, <3>1, <3>2
  <2>4. \A d \in Peer : Housed(d)' => srv'[d] = "up"
    BY DEF Housed, Serves
  <2>5. \A u, v \in Tab : tab'[u].sock = tab'[v].sock /\ tab'[u].sock # NoPeer => u = v
    BY <1>1, <1>2 DEF SockInv
  <2>6. \A u \in Tab : /\ tab'[u].ws \in {"OPEN", "CLOSING"} <=> tab'[u].sock # NoPeer
                       /\ tab'[u].ws = "OFF" => Absent(tab'[u])
    BY <1>1, <1>2 DEF SockInv
  <2> QED BY <2>2, <2>3, <2>4, <2>5, <2>6 DEF SockInv
<1>8. AskInv'
  <2> SUFFICES ASSUME NEW d \in Peer \ {c} PROVE Asked(d, inbox'[d], registry'.peer_room)
    BY DEF AskInv, Serves
  <2>1. Asked(d, inbox[d], registry.peer_room)
    BY <1>1 DEF AskInv
  <2>2. Asked(d, inbox[d], registry'.peer_room)
    BY <1>0, <2>1, SameEntry
  <2> QED BY <1>4, <2>2
<1>9. ASSUME NEW t \in Tab, tab[t].ws = "OPEN"
      PROVE  LET d == tab[t].sock IN
             /\ Told(d, inbox'[d], outbox'[d], tab[t].session.room_in_hash, registry'.peer_room)
             /\ srv'[d] = "up" /\ tab[t].status \in {"WaitingForPeer", "PeerLeft"} =>
                  d \in DOMAIN registry'.peer_room \/ HasAsk(inbox'[d]) \/ HasRefusal(outbox'[d])
  <2> DEFINE d == tab[t].sock
             hash == tab[t].session.room_in_hash
  <2>1. d \in Peer
    BY <1>1, <1>9 DEF SockInv, Types, PageType
  <2>2. CASE d = c
    BY <1>9, <2>2 DEF Serves
  <2>3. CASE d # c
    <3>1. Told(d, inbox[d], outbox[d], hash, registry.peer_room)
      BY <1>1, <1>9 DEF TellInv
    <3>2. Told(d, inbox[d], outbox[d], hash, registry'.peer_room)
      BY <1>0, <2>1, <2>3, <3>1, SameEntry
    <3>3. inbox'[d] = inbox[d] /\ srv'[d] = srv[d]
      BY <1>4, <2>1, <2>3 DEF Serves
    <3>4. CASE d # q
      <4>1. outbox'[d] = outbox[d]
        BY <1>3, <2>1, <3>4
      <4>2. Housed(d) <=> d \in DOMAIN registry'.peer_room
        BY <1>0, <2>1, <2>3 DEF Housed
      <4> QED BY <1>1, <1>9, <3>2, <3>3, <4>1, <4>2 DEF WaitInv
    <3>5. CASE d = q
      <4>1. m.type \in Notices /\ d \in DOMAIN registry'.peer_room
        BY <2>1, <2>3, <3>5 DEF Serves
      <4>2. outbox[d] \in Seq(Reply)
        BY <1>2, <2>1
      <4>3. Told(d, inbox[d], Append(outbox[d], m), hash, registry'.peer_room)
        BY <3>2, <4>1, <4>2, ToldNotice
      <4> QED BY <1>3, <2>1, <3>2, <3>3, <4>1, <4>3
    <3> QED BY <3>4, <3>5
  <2> QED BY <2>2, <2>3
<1>10. TellInv'
  BY <1>2, <1>9 DEF TellInv
<1>11. WaitInv'
  BY <1>2, <1>9 DEF WaitInv, Housed
<1> QED BY <1>5, <1>6, <1>7, <1>8, <1>10, <1>11 DEF MeetInv, Serves

(* The one reply that connection c reads, when its request is served. *)
LEMMA OnlyReply ==
  ASSUME MeetInv, NEW c \in Peer, inbox[c] # <<>>, Head(inbox[c]).type \in Asks,
         NEW t \in Tab, tab[t].ws = "OPEN", tab[t].sock = c
  PROVE  /\ outbox[c] = <<>> /\ t \in Holders(c)
         /\ LET hash == tab[t].session.room_in_hash
                m == Head(inbox[c])
            IN  /\ m.type = "Create" => hash = NoRoom
                /\ m.type \in {"Join", "Reclaim"} => hash = m.room
<1> DEFINE m == Head(inbox[c])
           hash == tab[t].session.room_in_hash
<1>1. /\ Types /\ Asked(c, inbox[c], registry.peer_room)
      /\ Told(c, inbox[c], outbox[c], hash, registry.peer_room)
  BY DEF MeetInv, AskInv, TellInv
<1>2. inbox[c] \in Seq(Request) /\ outbox[c] \in Seq(Reply)
  BY <1>1 DEF Types
<1>3. m = inbox[c][1] /\ 1 \in 1..Len(inbox[c])
  BY <1>2, Parts
<1> HIDE DEF hash, m
<1>4. HasAsk(inbox[c]) /\ c \notin DOMAIN registry.peer_room
  BY <1>1, <1>3 DEF HasAsk, Asked, m
<1>5. outbox[c] = <<>>
  BY <1>1, <1>2, <1>4, NothingYet
<1>6. /\ m.type = "Create" => hash = NoRoom
      /\ m.type \in {"Join", "Reclaim"} => hash = m.room
  BY <1>1, <1>3 DEF Told
<1> QED BY <1>5, <1>6 DEF Holders, hash, m

(* A request is served or refused, or a description relayed. *)
LEMMA HandlesKeeps ==
  ASSUME MeetInv, NEW c \in Peer, Handles(c)
  PROVE  MeetInv' /\ tab' = tab
<1> DEFINE m == Head(inbox[c])
           idx == registry.peer_room
<1>1. Types /\ SockInv /\ AskInv /\ TellInv /\ WaitInv /\ WellFormed(registry)
  BY DEF MeetInv
<1>2. /\ srv[c] = "up" /\ inbox[c] # <<>> /\ inbox' = [inbox EXCEPT ![c] = Tail(@)]
      /\ UNCHANGED <<tab, pcs, srv>>
  BY DEF Handles
<1>3. inbox \in [Peer -> Seq(Request)] /\ inbox[c] \in Seq(Request) /\ outbox[c] \in Seq(Reply)
      /\ srv' \in [Peer -> {"off", "up", "gone"}]
  BY <1>1, <1>2 DEF Types
<1>4. inbox'[c] = Tail(inbox[c]) /\ m \in Request /\ m = inbox[c][1] /\ 1 \in 1..Len(inbox[c])
  BY <1>2, <1>3, Parts
<1>5. /\ Asked(c, inbox[c], idx) /\ Asked(c, inbox'[c], idx)
      /\ m.type \in Asks => c \notin DOMAIN idx /\ ~HasAsk(inbox'[c])
      /\ ~(m.type \in Asks) => (HasAsk(inbox[c]) <=> HasAsk(inbox'[c]))
  <2>1. Asked(c, inbox[c], idx)
    BY <1>1 DEF AskInv
  <2> QED BY <1>2, <1>3, <1>4, <2>1, AskedLess
<1>6. \A d \in DOMAIN idx : d \in Peer /\ srv[d] = "up"
  BY <1>1 DEF WellFormed, SockInv, Housed
<1>7. Len(pcs) \in Nat /\ m.pc <= Len(pcs)
  <2>1. Len(pcs) \in Nat
    BY <1>1, LenProperties DEF Types
  <2> QED BY <1>4, <2>1 DEF MeetInv, Built
<1>8. {"Create", "Join", "Reclaim"} = Asks
  BY DEF Asks
<1>9. ASSUME m.type \in Asks, NEW t \in Tab, tab[t].ws = "OPEN", tab[t].sock = c
      PROVE  /\ outbox[c] = <<>> /\ t \in Holders(c)
             /\ m.type = "Create" => tab[t].session.room_in_hash = NoRoom
             /\ m.type \in {"Join", "Reclaim"} => tab[t].session.room_in_hash = m.room
  BY <1>2, <1>9, OnlyReply
<1> HIDE DEF m
<1>10. ASSUME NEW r \in Room, m.type \in Asks, registry' = Create(registry, c, r),
              outbox' = SendTo(outbox, c, Msg("Created", r, 0)),
              m.type = "Create" \/ (m.type = "Reclaim" /\ r = m.room)
       PROVE  MeetInv'
  <2> DEFINE a == Msg("Created", r, 0)
             new == registry'.peer_room
  <2>1. a \in Reply /\ a.type = "Created" /\ a.room = r /\ a.pc = 0
    BY MsgFields DEF RoomOrNone
  <2>2. WellFormed(registry')
    BY <1>1, <1>5, <1>10, CreateWellFormed
  <2>3. /\ DOMAIN new = DOMAIN idx \cup {c} /\ new[c] = r
        /\ \A d \in DOMAIN idx \ {c} : new[d] = idx[d]
    BY <1>10, CreatePlaces
  <2>4. \A d \in DOMAIN new : srv'[d] = "up"
    BY <1>2, <1>6, <2>3
  <2>5. Asked(c, inbox'[c], new)
    BY <1>5, <1>10 DEF Asked
  <2>7. a.pc <= Len(pcs) /\ outbox' = SendTo(outbox, c, a)
    BY <1>7, <1>10, <2>1 DEF a
  <2>6. ASSUME NEW t \in Tab, tab[t].ws = "OPEN", tab[t].sock = c
        PROVE  Told(c, inbox'[c], outbox'[c], tab[t].session.room_in_hash, new)
    <3>1. /\ outbox[c] = <<>> /\ Holders(c) # {}
          /\ tab[t].session.room_in_hash \in {NoRoom, r}
      BY <1>9, <1>10, <2>6
    <3>2. outbox'[c] = <<a>>
      <4> HIDE DEF a
      <4>1. outbox'[c] = Append(<<>>, a)
        BY <1>1, <2>1, <2>7, <3>1, SendToAdds
      <4> QED BY <4>1
    <3>3. Told(c, inbox'[c], <<a>>, tab[t].session.room_in_hash, new)
      <4> HIDE DEF a, new
      <4> QED BY <1>5, <1>10, <2>1, <2>3, <3>1, ToldReply
    <3> QED BY <3>2, <3>3
  <2> HIDE DEF a
  <2>8. c \in DOMAIN new
    BY <2>3
  <2>9. Serves(c, c, a)
    BY <1>2, <1>3, <2>1, <2>2, <2>3, <2>4, <2>5, <2>6, <2>7, <2>8 DEF Serves
  <2> QED BY <2>9, <2>1, <2>7, ServerKeeps
<1>11. ASSUME NEW y \in Refusals, m.type \in Asks, registry' = registry,
              outbox' = SendTo(outbox, c, Msg(y, NoRoom, 0))
       PROVE  MeetInv'
  <2> DEFINE a == Msg(y, NoRoom, 0)
  <2>1. a \in Reply /\ a.type \in Refusals /\ a.pc = 0
    BY MsgFields DEF RoomOrNone
  <2>3. a.pc <= Len(pcs) /\ outbox' = SendTo(outbox, c, a)
    BY <1>7, <1>11, <2>1 DEF a
  <2>2. ASSUME NEW t \in Tab, tab[t].ws = "OPEN", tab[t].sock = c
        PROVE  /\ Told(c, inbox'[c], outbox'[c], tab[t].session.room_in_hash, idx)
               /\ HasRefusal(outbox'[c])
    <3>1. outbox[c] = <<>> /\ Holders(c) # {}
      BY <1>9, <1>11, <2>2
    <3>2. outbox'[c] = <<a>>
      <4> HIDE DEF a
      <4>1. outbox'[c] = Append(<<>>, a)
        BY <1>1, <2>1, <2>3, <3>1, SendToAdds
      <4> QED BY <4>1
    <3> HIDE DEF a
    <3>3. Told(c, inbox'[c], <<a>>, tab[t].session.room_in_hash, idx)
      BY <1>5, <1>11, <2>1, ToldReply
    <3>4. HasRefusal(<<a>>)
      <4>1. 1 \in 1..Len(<<a>>) /\ <<a>>[1] = a
        OBVIOUS
      <4> QED BY <2>1, <4>1 DEF HasRefusal
    <3> QED BY <3>2, <3>3, <3>4
  <2> HIDE DEF a
  <2>4. \A d \in DOMAIN registry'.peer_room : srv'[d] = "up"
    BY <1>2, <1>6, <1>11
  <2>5. Serves(c, c, a)
    BY <1>1, <1>2, <1>3, <1>5, <1>11, <2>1, <2>2, <2>3, <2>4 DEF Serves
  <2> QED BY <2>5, <2>1, <2>3, ServerKeeps
<1>12. ASSUME m.type = "Join", JoinOutcome(registry, m.room) = "Joined",
              registry' = Join(registry, c, m.room),
              outbox' = SendTo(outbox, Partner(registry', c), Msg("PeerJoined", NoRoom, 0))
       PROVE  MeetInv'
  <2> DEFINE a == Msg("PeerJoined", NoRoom, 0)
             q == Partner(registry', c)
             new == registry'.peer_room
  <2>1. a \in Reply /\ a.type \in Notices /\ a.pc = 0
    BY MsgFields DEF RoomOrNone, Notices
  <2>2. m.type \in Asks
    BY <1>8, <1>12
  <2>3. WellFormed(registry')
    BY <1>1, <1>5, <1>12, <2>2, JoinWellFormed
  <2>4. /\ DOMAIN new = DOMAIN idx \cup {c} /\ new[c] = m.room
        /\ \A d \in DOMAIN idx \ {c} : new[d] = idx[d]
    BY <1>1, <1>12, JoinPlaces
  <2>5. q = NoPeer \/ q \in DOMAIN new \ {c}
    BY <2>3, PartnerRegistered
  <2>6. q \in Peer \cup {NoPeer} /\ q # c
    BY <2>3, <2>5, NoPeerIsNone DEF WellFormed
  <2> HIDE DEF a, q
  <2>7. outbox' = SendTo(outbox, q, a) /\ a.pc <= Len(pcs)
    BY <1>7, <1>12, <2>1 DEF a, q
  <2>8. outbox'[c] = outbox[c]
    BY <1>1, <2>1, <2>6, <2>7, SendToAdds
  <2>9. \A d \in DOMAIN new : srv'[d] = "up"
    BY <1>2, <1>6, <2>4
  <2>10. Asked(c, inbox'[c], new)
    BY <1>5, <2>2 DEF Asked
  <2>11. ASSUME NEW t \in Tab, tab[t].ws = "OPEN", tab[t].sock = c
         PROVE  Told(c, inbox'[c], outbox'[c], tab[t].session.room_in_hash, new)
    <3>1. outbox[c] = <<>> /\ tab[t].session.room_in_hash = m.room
      BY <1>9, <1>12, <2>2, <2>11
    <3> HIDE DEF new
    <3> QED BY <1>5, <2>2, <2>4, <2>8, <3>1, ToldJoined
  <2>12. c \in DOMAIN new /\ (q \in Peer \ {c} => q \in DOMAIN new)
    BY <2>4, <2>5, NoPeerIsNone
  <2>13. Serves(c, q, a)
    BY <1>2, <1>3, <2>1, <2>3, <2>4, <2>6, <2>7, <2>9, <2>10, <2>11, <2>12 DEF Serves
  <2> QED BY <2>13, <2>1, <2>6, <2>7, ServerKeeps
<1>13. ASSUME m.type \in Relays, registry' = registry,
              outbox' = SendTo(outbox, Partner(registry, c), m)
       PROVE  MeetInv'
  <2> DEFINE q == Partner(registry, c)
  <2>1. m \in Reply /\ m.type \in Notices /\ ~(m.type \in Asks)
    BY <1>4, <1>13 DEF Request, Reply, Relays, Notices, Asks
  <2>2. q = NoPeer \/ q \in DOMAIN idx \ {c}
    BY <1>1, PartnerRegistered
  <2>3. q \in Peer \cup {NoPeer} /\ q # c
    BY <1>6, <2>2, NoPeerIsNone
  <2> HIDE DEF q
  <2>4. outbox' = SendTo(outbox, q, m)
    BY <1>13 DEF q
  <2>5. outbox'[c] = outbox[c]
    BY <1>1, <2>1, <2>3, <2>4, SendToAdds
  <2>6. \A d \in DOMAIN registry'.peer_room : srv'[d] = "up"
    BY <1>2, <1>6, <1>13
  <2>7. ASSUME NEW t \in Tab, tab[t].ws = "OPEN", tab[t].sock = c
        PROVE  /\ Told(c, inbox'[c], outbox'[c], tab[t].session.room_in_hash, idx)
               /\ tab[t].status \in {"WaitingForPeer", "PeerLeft"} =>
                     c \in DOMAIN idx \/ HasAsk(inbox'[c]) \/ HasRefusal(outbox'[c])
    <3>1. Told(c, inbox[c], outbox[c], tab[t].session.room_in_hash, idx)
      BY <1>1, <2>7 DEF TellInv
    <3>2. Told(c, Tail(inbox[c]), outbox[c], tab[t].session.room_in_hash, idx)
      BY <1>2, <1>3, <3>1, ToldHandled
    <3>3. tab[t].status \in {"WaitingForPeer", "PeerLeft"} =>
              c \in DOMAIN idx \/ HasAsk(inbox[c]) \/ HasRefusal(outbox[c])
      BY <1>1, <1>2, <2>7 DEF WaitInv, Housed
    <3> QED BY <1>4, <1>5, <2>1, <2>5, <3>2, <3>3
  <2>8. q \in Peer \ {c} => q \in DOMAIN registry'.peer_room
    BY <1>13, <2>2, NoPeerIsNone
  <2>9. Serves(c, q, m)
    BY <1>1, <1>2, <1>3, <1>5, <1>7, <1>13, <2>1, <2>3, <2>4, <2>6, <2>7, <2>8 DEF Serves
  <2> QED BY <2>9, <1>7, <2>1, <2>3, ServerKeeps
<1>14. CASE m.type = "Create" /\ (\E r \in Room : Unused(r)) /\ registry' = Create(registry, c, gen_room_id)
            /\ outbox' = SendTo(outbox, c, Msg("Created", gen_room_id, 0))
  <2>1. gen_room_id \in Room
    BY <1>14 DEF gen_room_id
  <2> QED BY <1>2, <1>8, <1>10, <1>14, <2>1
<1>15. CASE m.type = "Reclaim" /\ registry' = Create(registry, c, m.room)
            /\ outbox' = SendTo(outbox, c, Msg("Created", m.room, 0))
  <2>1. m.room \in Room
    BY <1>4, <1>5, <1>15 DEF Asked
  <2> QED BY <1>2, <1>8, <1>10, <1>15, <2>1
<1>16. CASE m.type = "Reclaim" /\ registry' = registry
            /\ outbox' = SendTo(outbox, c, Msg("RoomNotFound", NoRoom, 0))
  BY <1>2, <1>8, <1>11, <1>16 DEF Refusals
<1>17. CASE m.type = "Join" /\ registry' = registry
            /\ \E y \in Refusals : outbox' = SendTo(outbox, c, Msg(y, NoRoom, 0))
  BY <1>2, <1>8, <1>11, <1>17
<1>18. m.type = "Join" /\ JoinOutcome(registry, m.room) = "Joined" /\ registry' = Join(registry, c, m.room)
          /\ outbox' = SendTo(outbox, Partner(registry', c), Msg("PeerJoined", NoRoom, 0))
       => MeetInv'
  BY <1>12
<1>19. m.type \in Relays /\ registry' = registry /\ outbox' = SendTo(outbox, Partner(registry, c), m)
       => MeetInv'
  BY <1>13
<1>20. "RoomFull" \in Refusals /\ "RoomNotFound" \in Refusals /\ Relays = {"Offer", "Answer"}
  BY DEF Refusals, Relays
<1> QED BY <1>2, <1>14, <1>15, <1>16, <1>17, <1>18, <1>19, <1>20 DEF Handles, m

(* The server forgets a connection that has gone and tells its partner. *)
LEMMA CleanupKeeps ==
  ASSUME MeetInv, NEW c \in Peer, Cleanup(c)
  PROVE  MeetInv' /\ tab' = tab
<1> DEFINE a == Msg("PeerLeft", NoRoom, 0)
           q == Partner(registry, c)
           idx == registry.peer_room
           new == registry'.peer_room
<1>1. Types /\ SockInv /\ WellFormed(registry)
  BY DEF MeetInv
<1>2. /\ srv[c] = "up" /\ Holders(c) = {} /\ inbox[c] = <<>> /\ srv' = [srv EXCEPT ![c] = "gone"]
      /\ registry' = Remove(registry, c) /\ outbox' = SendTo(outbox, q, a)
      /\ UNCHANGED <<tab, pcs, inbox>>
  BY DEF Cleanup
<1>3. a \in Reply /\ a.type \in Notices /\ a.pc = 0
  BY MsgFields DEF RoomOrNone, Notices
<1>4. WellFormed(registry') /\ DOMAIN new = DOMAIN idx \ {c} /\ \A d \in DOMAIN idx \ {c} : new[d] = idx[d]
  BY <1>1, <1>2, RemoveWellFormed, RemovePlaces
<1>5. q = NoPeer \/ q \in DOMAIN idx \ {c}
  BY <1>1, PartnerRegistered
<1>6. \A d \in DOMAIN idx : d \in Peer /\ srv[d] = "up"
  BY <1>1 DEF WellFormed, SockInv, Housed
<1>7. q \in Peer \cup {NoPeer} /\ (q \in Peer \ {c} => q \in DOMAIN new)
  BY <1>4, <1>5, <1>6, NoPeerIsNone
<1>8. a.pc <= Len(pcs)
  BY <1>1, <1>3, LenProperties DEF Types
<1> HIDE DEF a, q
<1>9. srv' \in [Peer -> {"off", "up", "gone"}] /\ srv'[c] = "gone" /\ \A d \in Peer \ {c} : srv'[d] = srv[d]
  BY <1>1, <1>2 DEF Types
<1>10. \A d \in DOMAIN new : srv'[d] = "up"
  BY <1>4, <1>6, <1>9
<1>11. Asked(c, inbox'[c], new)
  BY <1>2 DEF Asked, HasAsk
<1>12. ~\E t \in Tab : tab[t].ws = "OPEN" /\ tab[t].sock = c
  BY <1>2 DEF Holders
<1>13. Serves(c, q, a)
  BY <1>2, <1>3, <1>4, <1>7, <1>9, <1>10, <1>11, <1>12 DEF Serves
<1> QED BY <1>2, <1>3, <1>7, <1>8, <1>13, ServerKeeps

(* A new server knows nobody, and nothing is on its way. *)
LEMMA RestartKeeps ==
  ASSUME MeetInv, ServerRestarts
  PROVE  MeetInv' /\ tab' = tab
<1>1. Types /\ Built /\ SockInv
  BY DEF MeetInv
<1>2. /\ registry' = EmptyRegistry /\ tab' = tab /\ pcs' = pcs
      /\ srv' = [c \in Peer |-> IF srv[c] = "off" THEN "off" ELSE "gone"]
      /\ inbox' = [c \in Peer |-> <<>>] /\ outbox' = [c \in Peer |-> <<>>]
  BY DEF ServerRestarts
<1>3. \A c \in Peer : /\ inbox'[c] = <<>> /\ outbox'[c] = <<>> /\ (srv'[c] = "off" <=> srv[c] = "off")
                      /\ c \notin DOMAIN registry'.peer_room /\ srv'[c] # "up"
  BY <1>2, EmptyWellFormed
<1>4. inbox' \in [Peer -> Seq(Request)] /\ outbox' \in [Peer -> Seq(Reply)]
  BY <1>2
<1>5. Types'
  BY <1>1, <1>2, <1>4 DEF Types
<1>6. Built'
  BY <1>1, <1>2, <1>3 DEF Built
<1>7. SockInv'
  <2>1. {c \in Peer : srv'[c] # "off"} = {c \in Peer : srv[c] # "off"}
    BY <1>3
  <2>2. \E n \in Nat : {c \in Peer : srv'[c] # "off"} = 1..n
    BY <1>1, <2>1 DEF SockInv
  <2>3. \A c \in Peer : srv'[c] = "off" =>
            inbox'[c] = <<>> /\ outbox'[c] = <<>> /\ \A u \in Tab : tab'[u].sock # c
    BY <1>1, <1>2, <1>3 DEF SockInv
  <2>4. \A c \in Peer : Housed(c)' => srv'[c] = "up"
    BY <1>3 DEF Housed
  <2>5. \A u, v \in Tab : tab'[u].sock = tab'[v].sock /\ tab'[u].sock # NoPeer => u = v
    BY <1>1, <1>2 DEF SockInv
  <2>6. \A u \in Tab : /\ tab'[u].ws \in {"OPEN", "CLOSING"} <=> tab'[u].sock # NoPeer
                       /\ tab'[u].ws = "OFF" => Absent(tab'[u])
    BY <1>1, <1>2 DEF SockInv
  <2> QED BY <2>2, <2>3, <2>4, <2>5, <2>6 DEF SockInv
<1>8. AskInv'
  BY <1>3 DEF AskInv, Asked, HasAsk
<1>9. \A t \in Tab : tab'[t].ws = "OPEN" => tab'[t].sock \in Peer
  BY <1>1, <1>2 DEF SockInv, Types, PageType
<1>10. TellInv'
  <2>1. ~HasRefusal(<<>>)
    BY DEF HasRefusal
  <2> QED BY <1>3, <1>9, <2>1 DEF TellInv, Told
<1>11. WaitInv'
  BY <1>3, <1>9 DEF WaitInv
<1>12. WellFormed(registry')
  BY <1>2, EmptyWellFormed
<1> QED BY <1>2, <1>5, <1>6, <1>7, <1>8, <1>10, <1>11, <1>12 DEF MeetInv

-----------------------------------------------------------------------------
(* The theorems. *)

(* At the start there is no page and no connection. *)
LEMMA MeetInit == Init => MeetInv
<1> SUFFICES ASSUME Init PROVE MeetInv
  OBVIOUS
<1>1. /\ tab = [t \in Tab |-> NoPage] /\ pcs = <<>> /\ registry = EmptyRegistry
      /\ srv = [c \in Peer |-> "off"]
      /\ inbox = [c \in Peer |-> <<>>] /\ outbox = [c \in Peer |-> <<>>]
  BY DEF Init
<1>2. /\ NoPage \in PageType /\ NoPage.ws = "OFF" /\ NoPage.sock = NoPeer /\ NoPage.pc = 0
      /\ NoPage.transfer = 0 /\ Absent(NoPage)
  BY Mounts DEF RoomOrNone
<1>3. \A t \in Tab : tab[t] = NoPage
  BY <1>1
<1>4. \A c \in Peer : /\ inbox[c] = <<>> /\ outbox[c] = <<>> /\ srv[c] = "off"
                      /\ c \notin DOMAIN registry.peer_room
  BY <1>1, EmptyWellFormed
<1>5. Types
  BY <1>1, <1>2 DEF Types
<1>6. Built
  BY <1>1, <1>2, <1>3, <1>4 DEF Built
<1>7. SockInv
  <2>1. 0 \in Nat /\ {c \in Peer : srv[c] # "off"} = 1..0
    BY <1>4
  <2> QED BY <1>2, <1>3, <1>4, <2>1, NoPeerIsNone DEF SockInv, Housed
<1>8. AskInv
  BY <1>4 DEF AskInv, Asked, HasAsk
<1>9. TellInv /\ WaitInv
  BY <1>2, <1>3 DEF TellInv, WaitInv
<1> QED BY <1>1, <1>5, <1>6, <1>7, <1>8, <1>9, EmptyWellFormed DEF MeetInv

(* How a step can change the room of a page. *)
KeepsLink ==
    \A t \in Tab : tab[t].session.room_in_hash # NoRoom =>
        \/ tab'[t].session.room_in_hash = tab[t].session.room_in_hash
        \/ Leaves(t) \/ JoinsByCode(t) \/ StartsOver(t)

(* Every step keeps the invariant, and the links. *)
LEMMA MeetStep ==
  ASSUME MeetInv, Next \/ UNCHANGED vars
  PROVE  MeetInv' /\ KeepsLink
<1>1. Types /\ Built /\ SockInv
  BY DEF MeetInv
<1>2. ASSUME NEW t \in Tab, Delivers(t) \/ BuildFails(t) PROVE MeetInv' /\ KeepsLink
  <2>1. Reads(t) /\ PageOK(t) /\ tab[t].sock \in Peer
    BY <1>1, <1>2, ReadsPage
  <2>2. MeetInv' /\ (tab[t].session.room_in_hash # NoRoom =>
                        tab'[t].session.room_in_hash = tab[t].session.room_in_hash)
    BY <2>1, ReadsKeeps
  <2>3. Others(t)
    BY <2>1 DEF Reads
  <2> QED BY <2>2, <2>3 DEF KeepsLink, Others
<1>3. ASSUME NEW t \in Tab,
             \/ Closes(t) \/ Reconnects(t) \/ User(t)
             \/ Drops(t, "drop") \/ Drops(t, "sleep") \/ CloseStarts(t) \/ ConnectFails(t)
      PROVE  MeetInv' /\ KeepsLink
  <2>1. /\ Quits(t) /\ PageOK(t)
        /\ tab[t].session.room_in_hash # NoRoom =>
              \/ tab'[t].session.room_in_hash = tab[t].session.room_in_hash
              \/ Leaves(t) \/ JoinsByCode(t) \/ StartsOver(t)
    BY <1>1, <1>3, QuitsPage
  <2>2. MeetInv'
    BY <2>1, QuitsKeeps
  <2>3. Others(t)
    BY <2>1 DEF Quits
  <2> QED BY <2>1, <2>2, <2>3 DEF KeepsLink, Others
<1>4. ASSUME NEW t \in Tab, Opens(t) PROVE MeetInv' /\ KeepsLink
  <2>1. MeetInv' /\ tab'[t].session = tab[t].session /\ Others(t)
    BY <1>4, OpensKeeps
  <2> QED BY <2>1 DEF KeepsLink, Others
<1>5. ASSUME NEW i \in 1..Len(pcs), Describes(i) \/ CtrlOpens(i) PROVE MeetInv' /\ KeepsLink
  BY <1>5, DescribesKeeps, CtrlOpensKeeps DEF KeepsLink
<1>6. ASSUME NEW c \in Peer, Handles(c) \/ Cleanup(c) PROVE MeetInv' /\ KeepsLink
  BY <1>6, HandlesKeeps, CleanupKeeps DEF KeepsLink
<1>7. CASE ServerRestarts
  BY <1>7, RestartKeeps DEF KeepsLink
<1>8. CASE UNCHANGED vars
  <2>1. tab' = tab /\ pcs' = pcs /\ registry' = registry /\ srv' = srv /\ inbox' = inbox /\ outbox' = outbox
    BY <1>8 DEF vars
  <2>2. Types' /\ Built' /\ WellFormed(registry')
    BY <1>1, <2>1 DEF Types, Built, MeetInv
  <2>3. SockInv'
    BY <1>1, <2>1 DEF SockInv, Housed
  <2>4. AskInv' /\ TellInv' /\ WaitInv'
    BY <2>1 DEF MeetInv, AskInv, TellInv, WaitInv, Housed
  <2> QED BY <2>1, <2>2, <2>3, <2>4 DEF MeetInv, KeepsLink
<1>9. ASSUME NEW t \in Tab, Page(t) \/ User(t) \/ Trouble(t) PROVE MeetInv' /\ KeepsLink
  BY <1>2, <1>3, <1>4, <1>9 DEF Page, Trouble
<1>10. CASE Rtc
  BY <1>5, <1>10 DEF Rtc
<1> QED BY <1>6, <1>7, <1>8, <1>9, <1>10 DEF Next

(* However tabs come, go and come back, the invariant holds. *)
THEOREM RendezvousInvariant == Spec => []MeetInv
<1>1. MeetInv /\ [Next]_vars => MeetInv'
  BY MeetStep
<1> QED BY <1>1, MeetInit, PTL DEF Spec

(* Every page, peer connection and registry has its type, whatever the     *)
(* number of tabs, connections and mishaps.                                *)
THEOREM RendezvousTypeOK == Spec => []TypeOK
<1>1. MeetInv => TypeOK
  <2> SUFFICES ASSUME MeetInv PROVE TypeOK
    OBVIOUS
  <2>1. Types /\ Built /\ WellFormed(registry) /\ Len(pcs) \in Nat
    BY LenProperties DEF MeetInv, Types
  <2>2. \A t \in Tab : /\ tab[t].ws \in Link(t)!ReadyState \cup {"OFF"}
                       /\ tab[t].sock \in Peer \cup {NoPeer} /\ tab[t].status \in Status
                       /\ {tab[t].session.owns, tab[t].session.room_in_hash} \subseteq Room \cup {NoRoom}
    BY <2>1 DEF Types, PageType, SessionType, RoomOrNone, Ws, Link!ReadyState, Link!Live
  <2>3. \A t \in Tab : {tab[t].pc, tab[t].transfer} \subseteq 0..Len(pcs)
    BY <2>1 DEF Types, PageType, Built
  <2>4. \A i \in 1..Len(pcs) : pcs[i] \in PcType
    BY <2>1, ElementOfSeq DEF Types
  <2>5. \A i \in 1..Len(pcs) : pcs[i].tab \in Tab /\ pcs[i].remote \in 0..Len(pcs)
    BY <2>1, <2>4 DEF PcType, Built
  <2> QED BY <2>1, <2>2, <2>3, <2>5 DEF TypeOK, WellFormed
<1> QED BY <1>1, RendezvousInvariant, PTL

(* A tab that says it waits, or that its peer has left, is registered in   *)
(* the room whose code it shows as soon as nothing is on its way: after    *)
(* any sequence of drops, reloads, reclaims and restarts of the server.    *)
THEOREM RendezvousWaitingIsFindable == Spec => []WaitingIsFindable
<1>1. MeetInv => WaitingIsFindable
  <2> SUFFICES ASSUME MeetInv, AtRest, NEW t \in Tab, tab[t].status \in {"WaitingForPeer", "PeerLeft"}
               PROVE  /\ tab[t].sock \in DOMAIN registry.peer_room
                      /\ registry.peer_room[tab[t].sock] = tab[t].session.room_in_hash
    BY DEF WaitingIsFindable
  <2> DEFINE c == tab[t].sock
  <2>1. Types /\ SockInv /\ TellInv /\ WaitInv
    BY DEF MeetInv
  <2>2. tab[t].ws # "OFF"
    BY <2>1 DEF SockInv, Absent
  <2>3. tab[t].ws = "OPEN" /\ srv[c] = "up"
    BY <2>2 DEF AtRest
  <2>4. c \in Peer
    BY <2>1, <2>3 DEF SockInv, Types, PageType
  <2>5. inbox[c] = <<>> /\ outbox[c] = <<>>
    BY <2>4 DEF AtRest
  <2>6. ~HasAsk(<<>>) /\ ~HasRefusal(<<>>)
    BY DEF HasAsk, HasRefusal
  <2>7. c \in DOMAIN registry.peer_room
    BY <2>1, <2>3, <2>5, <2>6 DEF WaitInv, Housed
  <2>8. Told(c, inbox[c], outbox[c], tab[t].session.room_in_hash, registry.peer_room)
    BY <2>1, <2>3 DEF TellInv
  <2> QED BY <2>5, <2>7, <2>8 DEF Told
<1> QED BY <1>1, RendezvousInvariant, PTL

(* The room of a page, and with it the link that it shows, changes only    *)
(* when its user leaves, types a code or starts over: never because of a   *)
(* drop, a reload, a reclaim or a server that was restarted.               *)
THEOREM RendezvousLinkKept == Spec => LinkKept
<1>1. MeetInv /\ [Next]_vars =>
        [\A t \in Tab : tab[t].session.room_in_hash # NoRoom =>
            \/ tab'[t].session.room_in_hash = tab[t].session.room_in_hash
            \/ Leaves(t) \/ JoinsByCode(t) \/ StartsOver(t)]_vars
  BY MeetStep DEF KeepsLink
<1> QED BY <1>1, RendezvousInvariant, PTL DEF Spec, LinkKept

=============================================================================
