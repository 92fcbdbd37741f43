------------------------------- MODULE Server -------------------------------
(***************************************************************************)
(* The signaling server (crates/server/src/ws.rs) on a multi-threaded      *)
(* runtime.  A connection is served by three tasks: handle_socket itself,  *)
(* which waits for one of the others to end and then cleans up; recv_task, *)
(* which runs handle_message on one request after the other; and send_task,*)
(* which writes the peer's outbound channel to the socket.  They share the *)
(* registry, the limiter and the senders map, each behind a mutex of its   *)
(* own, so a step of the model is one critical section of the code.        *)
(*                                                                         *)
(* The clients are the browser tabs of this repository: what a connection  *)
(* sends, and when, is what the reducer of crates/client/src/reconnect.rs  *)
(* makes of the messages it gets.                                          *)
(***************************************************************************)
EXTENDS Rooms, JoinLimiter

CONSTANTS
    Ip, IpOf,    \* the source address of each connection
    NoRoom,
    MaxTime,     \* bound: now_ms() is in 0..MaxTime
    MaxRelays,   \* bound: relays of one connection not yet delivered
    Losses       \* bound: how tabs go, any of "closed" and "vanished"

ASSUME ServerAssumption ==
    /\ IsFiniteSet(Peer)
    /\ IpOf \in [Peer -> Ip]
    /\ NoPeer \notin Peer /\ NoRoom \notin Room
    /\ MaxTime \in Nat /\ MaxRelays \in Nat
    /\ Losses \subseteq {"closed", "vanished"}

VARIABLES
    registry,   \* RoomRegistry: rooms and peer_room
    failures,   \* JoinLimiter.failures, by address
    conn,       \* where handle_socket is, by connection
    leftTo,     \* the partner its cleanup has to notify
    pc,         \* where recv_task's handle_message is
    at,         \* the local `now` of that handler
    to,         \* the local `partner` of its relay branch
    inbox,      \* requests sent by the client and not yet read
    chan,       \* outbound channel of the connection
    client,     \* the tab at the other end of the socket
    want,       \* the room code its Join names (the location hash)
    issued,     \* history: room ids handed out by Create
    evicted,    \* history: peers whose room was replaced under them
    notes       \* history: PeerJoined and PeerLeft sent to each peer

handler == <<pc, at, to>>
tasks == <<conn, leftTo>>
tabs == <<client, want>>
wires == <<inbox, chan>>
history == <<issued, evicted, notes>>
vars == <<registry, failures, tasks, handler, wires, tabs, history>>

-----------------------------------------------------------------------------
Request == {"Create", "Join", "Reclaim", "Relay"}

(* The field `from` of a PeerJoined or PeerLeft is not on the wire; it     *)
(* names the connection the message is about and only properties read it.  *)
Reply == {"Created", "PeerJoined", "PeerLeft", "RoomFull", "RoomNotFound", "Relay"}
SignalMsg == [type : Reply, from : Peer \cup {NoPeer}]
Msg(type, from) == [type |-> type, from |-> from]

Online == {"open", "asking", "reclaiming", "waiting", "paired", "stuck"}
ClientState == {"off", "closed", "vanished"} \cup Online

HandlerState == {"idle", "created", "join", "join_place", "announce",
                 "record_full", "record_missing", "record_live", "full", "not_found",
                 "reclaim", "reclaim_contains", "reclaim_create", "relay"}

(* handle_socket: before the upgrade, in the select!, and its cleanup.     *)
(* A peer is in `senders` from "up" to "dropping", and its channel has a   *)
(* receiver only while "up".                                               *)
ConnState == {"off", "up", "closing", "notifying", "dropping", "gone"}

(* AppState::send_to: into a channel whose receiver is gone it is a no-op. *)
SendTo(ch, q, m) ==
    IF q # NoPeer /\ conn[q] = "up" THEN [ch EXCEPT ![q] = Append(@, m)] ELSE ch

(* A PeerJoined or PeerLeft goes out, and the history remembers it. *)
Notify(q, m) ==
    /\ chan' = SendTo(chan, q, m)
    /\ notes' = IF q # NoPeer /\ conn[q] = "up"
                THEN [notes EXCEPT ![q] = Append(@, m)] ELSE notes

Init ==
    /\ registry = EmptyRegistry
    /\ failures = [ip \in Ip |-> {}]
    /\ conn = [p \in Peer |-> "off"]
    /\ leftTo = [p \in Peer |-> NoPeer]
    /\ pc = [p \in Peer |-> "idle"]
    /\ at = [p \in Peer |-> 0]
    /\ to = [p \in Peer |-> NoPeer]
    /\ inbox = [p \in Peer |-> <<>>]
    /\ chan = [p \in Peer |-> <<>>]
    /\ client = [p \in Peer |-> "off"]
    /\ want = [p \in Peer |-> NoRoom]
    /\ issued = {}
    /\ evicted = {}
    /\ notes = [p \in Peer |-> <<>>]

-----------------------------------------------------------------------------
(* recv_task and handle_message.  No handler awaits, so one that has begun *)
(* runs to its end even when handle_socket has aborted recv_task meanwhile;*)
(* only between requests does the abort, or the end of the stream, count.  *)

Reads(p, request) ==
    /\ conn[p] = "up" /\ pc[p] = "idle"
    /\ inbox[p] # <<>> /\ Head(inbox[p]) = request
    /\ inbox' = [inbox EXCEPT ![p] = Tail(@)]

Goto(p, label) == pc' = [pc EXCEPT ![p] = label]

(* Mutant: a blank room id. *)
gen_blank_id == {NoRoom}

(* The room ids are random; two Creates are taken never to draw the same.  *)
gen_room_id == Room \ issued

(* SignalMsg::Create => ... registry.create(peer, gen_room_id(), now). *)
CreateRoom(p) ==
    /\ Reads(p, "Create")
    /\ \E r \in gen_room_id :
          /\ registry' = Create(registry, p, r)
          /\ issued' = issued \cup {r}
    /\ Goto(p, "created")
    /\ UNCHANGED <<failures, tasks, at, to, chan, tabs, evicted, notes>>

(* state.send_to(peer, Created): the end of Create and of Reclaim. *)
SendCreated(p) ==
    /\ pc[p] = "created"
    /\ chan' = SendTo(chan, p, Msg("Created", NoPeer))
    /\ Goto(p, "idle")
    /\ UNCHANGED <<registry, failures, tasks, at, to, inbox, tabs, history>>

(* Join and Reclaim first read the clock, before they take any lock.  It   *)
(* is wall-clock time, which advances and may be set back.                 *)
TakeNow(p) ==
    /\ \/ Reads(p, "Join") /\ Goto(p, "join")
       \/ Reads(p, "Reclaim") /\ Goto(p, "reclaim")
    /\ \E now \in 0..MaxTime : at' = [at EXCEPT ![p] = now]
    /\ UNCHANGED <<registry, failures, tasks, to, chan, tabs, history>>

(* join_limiter.lock().allowed(ip, now), which also prunes. *)
CheckAllowed(p) ==
    LET ip == IpOf[p] IN
    /\ pc[p] \in {"join", "reclaim"}
    /\ failures' = [failures EXCEPT ![ip] = Prune(@, at[p])]
    /\ IF Allowed(failures[ip], at[p])
       THEN Goto(p, IF pc[p] = "join" THEN "join_place" ELSE "reclaim_contains")
       ELSE Goto(p, "not_found")
    /\ UNCHANGED <<registry, tasks, at, to, wires, tabs, history>>

(* registry.lock().join(peer, &room, now). *)
JoinRoom(p) ==
    /\ pc[p] = "join_place"
    /\ registry' = Join(registry, p, want[p])
    /\ Goto(p, CASE JoinOutcome(registry, want[p]) = "Joined" -> "announce"
                 [] JoinOutcome(registry, want[p]) = "Full" -> "record_full"
                 [] JoinOutcome(registry, want[p]) = "NotFound" -> "record_missing")
    /\ UNCHANGED <<failures, tasks, at, to, wires, tabs, history>>

(* Mutant: PeerJoined goes to the peer that joined. *)
AnnounceToSelf(p) ==
    /\ pc[p] = "announce"
    /\ Notify(p, Msg("PeerJoined", p))
    /\ Goto(p, "idle")
    /\ UNCHANGED <<registry, failures, tasks, at, to, inbox, tabs, issued, evicted>>

(* The Joined branch: the registry guard of `if let Some(partner) = ...`   *)
(* lives to the end of its block, so looking the partner up and sending it *)
(* PeerJoined are one step.                                                *)
Announce(p) ==
    /\ pc[p] = "announce"
    /\ Notify(Partner(registry, p), Msg("PeerJoined", p))
    /\ Goto(p, "idle")
    /\ UNCHANGED <<registry, failures, tasks, at, to, inbox, tabs, issued, evicted>>

(* join_limiter.lock().record_failure(ip, now). *)
Record(p) ==
    LET ip == IpOf[p] IN
    /\ pc[p] \in {"record_full", "record_missing", "record_live"}
    /\ failures' = [failures EXCEPT ![ip] =
                      RecordFailure(@, [peer |-> p, why |-> pc[p], at |-> at[p]])]
    /\ Goto(p, IF pc[p] = "record_full" THEN "full" ELSE "not_found")
    /\ UNCHANGED <<registry, tasks, at, to, wires, tabs, history>>

(* Mutant: a full room is recorded but not answered. *)
RefuseSilently(p) ==
    /\ pc[p] \in {"full", "not_found"}
    /\ chan' = IF pc[p] = "full" THEN chan ELSE SendTo(chan, p, Msg("RoomNotFound", NoPeer))
    /\ Goto(p, "idle")
    /\ UNCHANGED <<registry, failures, tasks, at, to, inbox, tabs, history>>

(* state.send_to(peer, RoomFull) and state.send_to(peer, RoomNotFound). *)
Refuse(p) ==
    /\ pc[p] \in {"full", "not_found"}
    /\ chan' = SendTo(chan, p, Msg(IF pc[p] = "full" THEN "RoomFull" ELSE "RoomNotFound", NoPeer))
    /\ Goto(p, "idle")
    /\ UNCHANGED <<registry, failures, tasks, at, to, inbox, tabs, history>>

(* registry.lock().contains(&room): a live room is not reclaimed. *)
ReclaimContains(p) ==
    /\ pc[p] = "reclaim_contains"
    /\ Goto(p, IF Contains(registry, want[p]) THEN "record_live" ELSE "reclaim_create")
    /\ UNCHANGED <<registry, failures, tasks, at, to, wires, tabs, history>>

(* registry.lock().create(peer, room, now), in a critical section of its   *)
(* own: a room created since the check is replaced and its peers evicted.  *)
ReclaimCreate(p) ==
    /\ pc[p] = "reclaim_create"
    /\ registry' = Create(registry, p, want[p])
    /\ evicted' = evicted \cup
          (IF Contains(registry, want[p]) THEN Members(registry, want[p]) ELSE {})
    /\ Goto(p, "created")
    /\ UNCHANGED <<failures, tasks, at, to, wires, tabs, issued, notes>>

(* Sdp and Ice: the partner is looked up under the registry lock ... *)
LookupPartner(p) ==
    /\ Reads(p, "Relay")
    /\ to' = [to EXCEPT ![p] = Partner(registry, p)]
    /\ Goto(p, IF Partner(registry, p) = NoPeer THEN "idle" ELSE "relay")
    /\ UNCHANGED <<registry, failures, tasks, at, chan, tabs, history>>

(* ... and the message sent on after it is released. *)
SendRelay(p) ==
    /\ pc[p] = "relay"
    /\ chan' = SendTo(chan, to[p], Msg("Relay", p))
    /\ to' = [to EXCEPT ![p] = NoPeer]
    /\ Goto(p, "idle")
    /\ UNCHANGED <<registry, failures, tasks, at, inbox, tabs, history>>

Handler(p) ==
    \/ CreateRoom(p) \/ SendCreated(p) \/ TakeNow(p) \/ CheckAllowed(p)
    \/ JoinRoom(p) \/ Announce(p) \/ Record(p) \/ Refuse(p)
    \/ ReclaimContains(p) \/ ReclaimCreate(p) \/ LookupPartner(p) \/ SendRelay(p)

-----------------------------------------------------------------------------
(* handle_socket: waiting for one of its tasks to end, then the cleanup.   *)

(* recv_task has read everything up to the close frame or the error. *)
RecvEnds(p) ==
    /\ conn[p] = "up" /\ client[p] \in {"closed", "vanished"}
    /\ pc[p] = "idle" /\ inbox[p] = <<>>
    /\ conn' = [conn EXCEPT ![p] = "closing"]
    /\ chan' = [chan EXCEPT ![p] = <<>>]
    /\ UNCHANGED <<registry, failures, leftTo, handler, inbox, tabs, history>>

(* send_task cannot write; recv_task is aborted, its handler maybe running.*)
SendFails(p) ==
    /\ conn[p] = "up" /\ client[p] \in {"closed", "vanished"}
    /\ chan[p] # <<>>
    /\ conn' = [conn EXCEPT ![p] = "closing"]
    /\ chan' = [chan EXCEPT ![p] = <<>>]
    /\ inbox' = [inbox EXCEPT ![p] = <<>>]
    /\ UNCHANGED <<registry, failures, leftTo, handler, tabs, history>>

(* Mutant: the partner is looked up after the peer has been removed. *)
UnregisterFirst(p) ==
    /\ conn[p] = "closing"
    /\ registry' = Remove(registry, p)
    /\ leftTo' = [leftTo EXCEPT ![p] = NoPeer]
    /\ conn' = [conn EXCEPT ![p] = "dropping"]
    /\ UNCHANGED <<failures, handler, wires, tabs, history>>

(* let partner = state.registry.lock().unwrap().remove(peer_id). *)
Unregister(p) ==
    /\ conn[p] = "closing"
    /\ registry' = Remove(registry, p)
    /\ leftTo' = [leftTo EXCEPT ![p] = Partner(registry, p)]
    /\ conn' = [conn EXCEPT ![p] =
                  IF Partner(registry, p) = NoPeer THEN "dropping" ELSE "notifying"]
    /\ UNCHANGED <<failures, handler, wires, tabs, history>>

(* state.send_to(partner, PeerLeft). *)
NotifyLeft(p) ==
    /\ conn[p] = "notifying"
    /\ Notify(leftTo[p], Msg("PeerLeft", p))
    /\ conn' = [conn EXCEPT ![p] = "dropping"]
    /\ UNCHANGED <<registry, failures, leftTo, handler, inbox, tabs, issued, evicted>>

(* state.senders.lock().unwrap().remove(&peer_id). *)
DropSender(p) ==
    /\ conn[p] = "dropping"
    /\ conn' = [conn EXCEPT ![p] = "gone"]
    /\ UNCHANGED <<registry, failures, leftTo, handler, wires, tabs, history>>

Cleanup(p) == Unregister(p) \/ NotifyLeft(p) \/ DropSender(p)

-----------------------------------------------------------------------------
(* The sockets and the tabs behind them. *)

(* handle_socket up to its select!: an id never used before, an entry in   *)
(* senders.                                                                *)
Connect(p) ==
    /\ client[p] = "off"
    /\ client' = [client EXCEPT ![p] = "open"]
    /\ conn' = [conn EXCEPT ![p] = "up"]
    /\ UNCHANGED <<registry, failures, leftTo, handler, wires, want, history>>

Sends(p, request) == inbox' = [inbox EXCEPT ![p] = Append(@, request)]

(* Bound: no more Creates than there are room ids in the instance. *)
CodesLeft == Cardinality({q \in Peer : inbox[q] = <<"Create">>}) < Cardinality(gen_room_id)

(* Event::Open: Join the room in the location hash, or Create. *)
ClientOpen(p) ==
    /\ client[p] = "open"
    /\ client' = [client EXCEPT ![p] = "asking"]
    /\ \/ CodesLeft /\ Sends(p, "Create") /\ UNCHANGED want
       \/ Sends(p, "Join") /\ \E r \in Room : want' = [want EXCEPT ![p] = r]
    /\ UNCHANGED <<registry, failures, tasks, handler, chan, history>>

(* An Sdp or Ice of a tab that has a peer connection. *)
ClientRelay(p) ==
    /\ client[p] = "paired"
    /\ Len(inbox[p]) + Cardinality({q \in Peer : \E i \in 1..Len(chan[q]) :
                                       chan[q][i] = Msg("Relay", p)}) < MaxRelays
    /\ pc[p] = "idle"
    /\ Sends(p, "Relay")
    /\ UNCHANGED <<registry, failures, tasks, handler, chan, tabs, history>>

(* What the reducer does with a message.  An Offer makes a tab build a     *)
(* peer connection, an Answer or Ice does not.  Only a tab that created    *)
(* the room, earlier or in the tab it was duplicated from, reclaims it.    *)
Reacts(p, type) ==
    \/ /\ type = "Created"
       /\ client' = IF client[p] = "paired" THEN client
                    ELSE [client EXCEPT ![p] = "waiting"]
       /\ UNCHANGED inbox
    \/ /\ type = "PeerJoined"
       /\ client' = [client EXCEPT ![p] = "paired"] /\ UNCHANGED inbox
    \/ /\ type = "Relay"
       /\ client' \in {client, [client EXCEPT ![p] = "paired"]} /\ UNCHANGED inbox
    \/ /\ type = "PeerLeft"
       /\ client' = [client EXCEPT ![p] = "waiting"] /\ UNCHANGED inbox
    \/ /\ type \in {"RoomFull", "RoomNotFound"}
       /\ client' = [client EXCEPT ![p] = "stuck"] /\ UNCHANGED inbox
    \/ /\ type = "RoomNotFound" /\ client[p] = "asking" /\ want[p] \in issued
       /\ client' = [client EXCEPT ![p] = "reclaiming"] /\ Sends(p, "Reclaim")

(* send_task writes the head of the channel; a tab that is there gets it,  *)
(* a dead socket swallows it.                                              *)
Deliver(p) ==
    /\ conn[p] = "up" /\ chan[p] # <<>>
    /\ chan' = [chan EXCEPT ![p] = Tail(@)]
    /\ \/ client[p] \in Online /\ Reacts(p, Head(chan[p]).type)
       \/ client[p] \notin Online /\ UNCHANGED <<client, inbox>>
    /\ UNCHANGED <<registry, failures, tasks, handler, want, history>>

(* The tab closes or reloads, or its machine sleeps or loses the network   *)
(* and says nothing; what it sent last may be lost.                        *)
ClientLost(p, how) ==
    /\ client[p] \in Online
    /\ client' = [client EXCEPT ![p] = how]
    /\ \E n \in 0..Len(inbox[p]) :
          inbox' = [inbox EXCEPT ![p] = SubSeq(@, 1, n)]
    /\ UNCHANGED <<registry, failures, tasks, handler, chan, want, history>>

Next ==
    \E p \in Peer :
        \/ Handler(p)
        \/ RecvEnds(p) \/ SendFails(p) \/ Cleanup(p)
        \/ Connect(p) \/ ClientOpen(p) \/ ClientRelay(p) \/ Deliver(p)
        \/ \E how \in Losses : ClientLost(p, how)

Spec == Init /\ [][Next]_vars

(* The runtime runs every task that can run, and tells recv_task of a      *)
(* socket that was closed; of one that vanished it may never learn.        *)
HandleSocket(p) == (client[p] = "closed" /\ RecvEnds(p)) \/ Cleanup(p)

Fairness ==
    \A p \in Peer :
        WF_vars(Handler(p)) /\ WF_vars(Deliver(p)) /\ WF_vars(HandleSocket(p))

FairSpec == Spec /\ Fairness

-----------------------------------------------------------------------------
(* Properties. *)

RegistryType ==
    /\ DOMAIN registry.rooms \subseteq Room
    /\ \A r \in DOMAIN registry.rooms : registry.rooms[r] \in Seq(Peer)
    /\ DOMAIN registry.peer_room \subseteq Peer
    /\ \A p \in DOMAIN registry.peer_room : registry.peer_room[p] \in Room

LimiterType ==
    /\ DOMAIN failures = Ip
    /\ \A ip \in Ip : IsFiniteSet(failures[ip])
    /\ at \in [Peer -> Nat]

TaskType ==
    /\ conn \in [Peer -> ConnState] /\ leftTo \in [Peer -> Peer \cup {NoPeer}]
    /\ pc \in [Peer -> HandlerState] /\ to \in [Peer -> Peer \cup {NoPeer}]
    /\ client \in [Peer -> ClientState] /\ want \in [Peer -> Room \cup {NoRoom}]

WireType ==
    /\ inbox \in [Peer -> Seq(Request)]
    /\ chan \in [Peer -> Seq(SignalMsg)] /\ notes \in [Peer -> Seq(SignalMsg)]
    /\ issued \subseteq Room /\ evicted \subseteq Peer

(* Every variable has the type the program declares for it. *)
TypeOK == RegistryType /\ LimiterType /\ TaskType /\ WireType

Registered == DOMAIN registry.peer_room

(* The registry never leaks and never holds a ghost: the peers of a room   *)
(* are one or two different connections that the reverse index also places *)
(* there, and both maps mention only connections whose cleanup has yet to  *)
(* call remove.  A handler that still runs after its connection broke must *)
(* not put the peer back.  (rooms.rs create/join/remove as ws.rs calls     *)
(* them.)                                                                  *)
RegistryConsistent ==
    /\ \A r \in DOMAIN registry.rooms :
          LET s == registry.rooms[r] IN
          /\ Len(s) \in 1..2
          /\ \A i, j \in 1..Len(s) : s[i] = s[j] => i = j
          /\ \A i \in 1..Len(s) : s[i] \in Registered /\ registry.peer_room[s[i]] = r
    /\ \A p \in Registered : conn[p] \in {"up", "closing"}

(* A connection is pending until it has a place in a room or has heard     *)
(* that it gets none.                                                      *)
Asking == {"join", "join_place", "record_full", "record_missing", "record_live",
           "full", "not_found", "reclaim", "reclaim_contains", "reclaim_create"}

Pending(p) ==
    \/ client[p] \in {"off", "open"}
    \/ pc[p] \in Asking
    \/ \E i \in 1..Len(inbox[p]) : inbox[p][i] # "Relay"
    \/ \E i \in 1..Len(chan[p]) : chan[p][i].type \in {"RoomFull", "RoomNotFound"}

Untouched(p) ==
    /\ p \notin Registered
    /\ \A q \in Peer : leftTo[q] # p /\ to[q] # p
    /\ conn[p] = IF client[p] = "off" THEN "off" ELSE "up"
    /\ client[p] \notin {"waiting", "paired", "stuck"}
    /\ Len(inbox[p]) + Len(chan[p]) <= 1
    /\ client[p] \in {"off", "open"} \/ pc[p] # "idle" => inbox[p] = <<>> /\ chan[p] = <<>>
    /\ client[p] \in {"off", "open"} => pc[p] = "idle"
    /\ pc[p] \in {"reclaim", "reclaim_contains", "reclaim_create"} => want[p] \in issued
    /\ \A i \in 1..Len(inbox[p]) : inbox[p][i] = "Reclaim" => want[p] \in issued

(* While a connection is pending no other task knows of it, so nothing can *)
(* be in its channel that would make send_task fail and start the cleanup  *)
(* under the running handler: it is not registered, nobody is about to     *)
(* send to it, its request or the refusal is its only message, a room it   *)
(* is about to reclaim was once issued, and handle_socket is still in its  *)
(* select!.  (ws.rs 114-142 and 189-241.)                                  *)
PendingUntouched == \A p \in Peer : Pending(p) => Untouched(p)

(* Partners see each other: unless p was evicted, the peer its relays go   *)
(* to is one whose relays come to p, and a relay waiting in a channel was  *)
(* sent by the roommate of the reader, or by a peer that has left since or *)
(* was evicted.  (partner, rooms.rs 90-94; relay, ws.rs 243-253.)          *)
NoCrosstalk ==
    /\ \A p \in Registered \ evicted :
          LET q == Partner(registry, p) IN q # NoPeer => Partner(registry, q) = p
    /\ \A q \in Peer : \A i \in 1..Len(chan[q]) :
          LET p == chan[q][i].from IN
          chan[q][i].type = "Relay" /\ p \in Registered \ evicted /\ q \in Registered
             => Partner(registry, p) = q

(* Requests of ip that passed `allowed` and may still record a failure. *)
InFlight(ip) ==
    {p \in Peer : IpOf[p] = ip /\ pc[p] \in {"join_place", "reclaim_contains",
                                "record_full", "record_missing", "record_live"}}

(* allowed and record_failure are two critical sections, so an address can *)
(* overdraw its budget, but only by the requests it has in flight: with k  *)
(* connections at most MaxFailures - 1 + k failures are ever remembered.   *)
(* (ws.rs 191-199, 212-238; limiter.rs 34-43.)                             *)
OverdraftBounded ==
    \A ip \in Ip : Cardinality(failures[ip]) + Cardinality(InFlight(ip))
                     <= MaxFailures - 1 + Cardinality({p \in Peer : IpOf[p] = ip})

Roommates(p, q) ==
    /\ p # q /\ p \in Registered /\ q \in Registered
    /\ Partner(registry, p) = q /\ Partner(registry, q) = p

Sent(q, type, p) == \E i \in 1..Len(notes[q]) : notes[q][i] = Msg(type, p)

(* A room with two peers that stay gets introduced: one of them is sent    *)
(* PeerJoined for the other.  (Joined branch, ws.rs 218-228.)              *)
PairIntroduced(p, q) ==
    Roommates(p, q) ~> \/ Sent(p, "PeerJoined", q) \/ Sent(q, "PeerJoined", p)
                       \/ ~Roommates(p, q)

(* When a tab closes, its roommate is told, unless it is going too or the  *)
(* room was taken over.  (Cleanup of handle_socket, ws.rs 145-153.)        *)
DepartureTold(p, q) ==
    (client[p] = "closed" /\ Roommates(p, q))
       ~> (Sent(q, "PeerLeft", p) \/ conn[q] # "up" \/ p \in evicted)

(* Every Create, Join and Reclaim of a tab that stays ends: in a place in  *)
(* a room or in an answer.  (handle_message, ws.rs 172-241.)               *)
RequestSettled ==
    \A p \in Peer :
        client[p] \in {"asking", "reclaiming"}
           ~> (client[p] \notin {"asking", "reclaiming"} \/ p \in Registered)

(* The claim of ws.rs 185-187 that Reclaim never evicts the occupants of a *)
(* room.                                                                   *)
NoEviction == evicted = {}

ServerAtRest ==
    \A p \in Peer : pc[p] = "idle" /\ inbox[p] = <<>> /\ conn[p] \in {"off", "up", "gone"}

LastNote(p) == IF notes[p] = <<>> THEN "none" ELSE notes[p][Len(notes[p])].type

(* The roles of app.rs 418-420: of two roommates one is told to offer, the *)
(* one who arrives answers.  So when the server is at rest, PeerJoined is  *)
(* the last thing that exactly one of them was told.                       *)
OneOfferer ==
    ServerAtRest => \A p, q \in Peer :
        Roommates(p, q) => (LastNote(p) = "PeerJoined") # (LastNote(q) = "PeerJoined")

Abstract == INSTANCE Matchmaker WITH
    place   <- [p \in Peer |-> IF p \in Registered THEN registry.peer_room[p] ELSE NoRoom],
    members <- [r \in Room |-> IF Contains(registry, r) THEN Members(registry, r) ELSE {}],
    left    <- {p \in Peer : conn[p] \in {"notifying", "dropping", "gone"}},
    owes    <- [p \in Peer |-> IF conn[p] = "notifying" THEN leftTo[p] ELSE NoPeer],
    told    <- notes

(* The server implements the matchmaker, whatever its tasks do between     *)
(* two critical sections.  (ws.rs 103-257 over rooms.rs.)                  *)
Matches == Abstract!Spec

=============================================================================
