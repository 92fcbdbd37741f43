----------------------------- MODULE Rendezvous -----------------------------
(***************************************************************************)
(* How two tabs meet, and meet again: the session reducer, the page that   *)
(* executes its actions (crates/client/src/app.rs, webrtc.rs), the socket  *)
(* as SignalingLink promises it, and the server with each request handled  *)
(* and each connection cleaned up in one step (Server has the steps in     *)
(* between; the limiter is taken not to bind).                             *)
(*                                                                         *)
(* Peer connections are numbered as they are built.  A description names   *)
(* the peer connection it is of; two are linked when each has the other's. *)
(* ICE candidates go the way of the descriptions and are not modelled: a   *)
(* link comes up if both ends stay.                                        *)
(***************************************************************************)
EXTENDS Rooms, Session, FiniteSets

CONSTANTS
    Tab,
    Faults,     \* which of the mishaps and user actions below happen,
    Alone,      \* which of them only once and without any other
    MaxFaults   \* bound: how many of them

ASSUME RendezvousAssumption ==
    /\ MaxFaults \in Nat /\ NoPeer = 0
    /\ IsFiniteSet(Peer) /\ Peer = 1..Cardinality(Peer)

VARIABLES
    tab,        \* the page: socket, session, status, pc, transfer
    pcs,        \* every RtcPeerConnection built so far
    registry,   \* the server's rooms
    srv,        \* the server's connections: "off", "up" or "gone"
    inbox,      \* by connection: requests not yet handled
    outbox,     \* by connection: messages not yet delivered
    silent,     \* connections whose end the server is not told of
    unseen,     \* history: a socket was replaced before its onclose
    faults      \* mishaps left

bounds == <<unseen, faults>>
vars == <<tab, pcs, registry, srv, inbox, outbox, silent, unseen, faults>>

Link(t) == INSTANCE SignalingLink WITH ws <- tab[t].ws

Msg(type, room, pc) == [type |-> type, room |-> room, pc |-> pc]

(* App on mount, with the room of its URL and of its session storage. *)
Mounted(hash, stored) ==
    [ws |-> "CONNECTING", sock |-> NoPeer, session |-> Seeded(hash, stored),
     status |-> "Connecting", pc |-> 0, transfer |-> 0]

NoPage == [Mounted(NoRoom, NoRoom) EXCEPT !.ws = "OFF", !.status = "Idle"]

Init ==
    /\ tab = [t \in Tab |-> NoPage]
    /\ pcs = <<>>
    /\ registry = EmptyRegistry
    /\ srv = [c \in Peer |-> "off"]
    /\ inbox = [c \in Peer |-> <<>>] /\ outbox = [c \in Peer |-> <<>>]
    /\ silent = {}
    /\ unseen = FALSE
    /\ faults = MaxFaults

(* The tabs that hold connection c open. *)
Holders(c) == {t \in Tab : tab[t].ws = "OPEN" /\ tab[t].sock = c}

(* Signaling::send: lost unless the current socket is open, to a server. *)
Send(t, m) ==
    inbox' = IF tab[t].ws = "OPEN" /\ srv[tab[t].sock] = "up"
             THEN [inbox EXCEPT ![tab[t].sock] = Append(@, m)] ELSE inbox

(* peer.close(), for the peer connections in S. *)
Close(S) == [i \in 1..Len(pcs) |-> IF i \in S THEN [pcs[i] EXCEPT !.closed = TRUE] ELSE pcs[i]]

-----------------------------------------------------------------------------
(* The page. *)

Build(t, role, remote) ==
    Append(pcs, [tab |-> t, role |-> role, remote |-> remote,
                 local |-> FALSE, opened |-> FALSE, closed |-> FALSE])

(* set_remote(Answer) on peer connection i: an error, which is only        *)
(* logged, unless i has an offer out and no answer yet.                    *)
SetRemote(i, m) ==
    IF i # 0 /\ pcs[i].role = "Offer" /\ pcs[i].local /\ pcs[i].remote = 0
    THEN [pcs EXCEPT ![i].remote = m.pc] ELSE pcs

(* SetStatus: the status that the actions say, if any does. *)
Shown(t, acts) ==
    LET shown == {a \in Status : \E k \in 1..Len(acts) : acts[k] = a}
    IN  IF shown = {} THEN tab[t].status ELSE CHOOSE a \in shown : TRUE

Turned(t, s, status, pc, transfer) ==
    [tab EXCEPT ![t].session = s, ![t].status = status, ![t].pc = pc, ![t].transfer = transfer]

(* execute, for the actions that a message leads to.  A peer connection    *)
(* that is replaced is not closed.  The offering side wires its control    *)
(* channel, and with it the Transfer, at once.                             *)
Execute(t, acts, s, m) ==
    LET Does(a) == \E k \in 1..Len(acts) : acts[k] = a
        new == Len(pcs) + 1
        page(pc, transfer) == Turned(t, s, Shown(t, acts), pc, transfer)
    IN
    /\ CASE Does("BuildPcAndOffer") ->
              pcs' = Build(t, "Offer", 0) /\ tab' = page(new, new)
         [] Does("BuildPcAndAnswer") ->
              pcs' = Build(t, "Answer", m.pc) /\ tab' = page(new, tab[t].transfer)
         [] Does("SetRemoteAnswer") ->
              pcs' = SetRemote(tab[t].pc, m) /\ tab' = page(tab[t].pc, tab[t].transfer)
         [] Does("TeardownPc") ->
              pcs' = Close({tab[t].pc}) /\ tab' = page(0, 0)
         [] OTHER -> pcs' = pcs /\ tab' = page(tab[t].pc, tab[t].transfer)
    /\ IF Does("SendReclaim") THEN Send(t, Msg("Reclaim", s.room_in_hash, 0)) ELSE UNCHANGED inbox

(* onmessage: the head of the outbox goes through step and execute. *)
Delivers(t) ==
    LET c == tab[t].sock
        m == Head(outbox[c])
        s == tab[t].session
    IN
    /\ tab[t].ws = "OPEN" /\ outbox[c] # <<>>
    /\ outbox' = [outbox EXCEPT ![c] = Tail(@)]
    /\ Execute(t, Actions(s, m.type), Updated(s, m.type, m.room), m)
    /\ UNCHANGED <<registry, srv, silent, bounds>>

(* onopen of a new socket, which the server numbers; then step(Open). *)
Opens(t) ==
    LET c == Cardinality({d \in Peer : srv[d] # "off"}) + 1
        s == tab[t].session
    IN
    /\ c \in Peer
    /\ tab' = [tab EXCEPT ![t].ws = "OPEN", ![t].sock = c]
    /\ Link(t)!Open
    /\ srv' = [srv EXCEPT ![c] = "up"]
    /\ inbox' = [inbox EXCEPT ![c] =
          <<Msg(IF OnOpen(s) = "SendCreate" THEN "Create" ELSE "Join", s.room_in_hash, 0)>>]
    /\ UNCHANGED <<pcs, registry, outbox, silent, bounds>>

(* The spawned task of BuildPcAndOffer or BuildPcAndAnswer comes to its    *)
(* end and sends the description on whatever socket is current by then.    *)
(* On a closed peer connection its promises do not resolve.                *)
Describes(i) ==
    /\ ~pcs[i].local /\ ~pcs[i].closed
    /\ pcs' = [pcs EXCEPT ![i].local = TRUE]
    /\ Send(pcs[i].tab, Msg(pcs[i].role, NoRoom, i))
    /\ UNCHANGED <<tab, registry, srv, outbox, silent, bounds>>

(* Peer connection i can open its control channel: each end has the        *)
(* description of the other, and the other is there or was until it opened.*)
Linked(i) ==
    LET j == pcs[i].remote IN
    /\ j # 0 /\ pcs[i].local /\ ~pcs[i].closed /\ ~pcs[i].opened
    /\ pcs[j].remote = i /\ pcs[j].local
    /\ pcs[j].closed => pcs[j].opened

(* onopen of the control channel: wire_ctrl.  Whether i is still the       *)
(* current peer connection is not asked.                                   *)
CtrlOpens(i) ==
    LET t == pcs[i].tab IN
    /\ Linked(i)
    /\ pcs' = [pcs EXCEPT ![i].opened = TRUE]
    /\ tab' = [tab EXCEPT ![t].status = "Connected",
                          ![t].transfer = IF pcs[i].role = "Answer" THEN i ELSE @]
    /\ UNCHANGED <<registry, srv, inbox, outbox, silent, bounds>>

(* Mutant: the peer connection is forgotten and not closed. *)
on_disconnect_unclosed(t) ==
    /\ tab' = [tab EXCEPT ![t] =
          [@ EXCEPT !.ws = "CLOSED", !.sock = NoPeer, !.status = "Reconnecting", !.pc = 0,
                    !.transfer = 0, !.session.has_pc = FALSE, !.session.reclaim_tried = FALSE]]
    /\ pcs' = pcs

(* The on_disconnect callback. *)
on_disconnect(t) ==
    /\ tab' = [tab EXCEPT ![t] =
          [@ EXCEPT !.ws = "CLOSED", !.sock = NoPeer, !.status = "Reconnecting", !.pc = 0,
                    !.transfer = 0, !.session.has_pc = FALSE, !.session.reclaim_tried = FALSE]]
    /\ pcs' = Close({tab[t].pc})

(* What of the requests on the way the server still reads. *)
CutShort(c) == \E n \in 0..Len(inbox[c]) : inbox' = [inbox EXCEPT ![c] = SubSeq(@, 1, n)]

(* onclose of a socket that the server closed, or whose server is gone. *)
Closes(t) ==
    /\ tab[t].ws = "CLOSING" \/ (tab[t].ws = "OPEN" /\ srv[tab[t].sock] = "gone")
    /\ on_disconnect(t)
    /\ outbox' = [outbox EXCEPT ![tab[t].sock] = <<>>]
    /\ UNCHANGED <<registry, srv, inbox, silent, bounds>>

(* A timeout or an online event makes a new socket: Socket says when.  In  *)
(* place of one that is closing, it is made before onclose was called.     *)
Reconnects(t) ==
    /\ tab' = [tab EXCEPT ![t].ws = "CONNECTING", ![t].sock = NoPeer]
    /\ unseen' = (unseen \/ tab[t].ws = "CLOSING")
    /\ tab[t].ws # "OFF" /\ Link(t)!Replace
    /\ outbox' = IF tab[t].sock = NoPeer THEN outbox ELSE [outbox EXCEPT ![tab[t].sock] = <<>>]
    /\ UNCHANGED <<pcs, registry, srv, inbox, silent, faults>>

-----------------------------------------------------------------------------
(* The server. *)

(* AppState::send_to; what is sent to a socket nobody holds is lost. *)
SendTo(out, c, m) == IF c # NoPeer /\ Holders(c) # {} THEN [out EXCEPT ![c] = Append(@, m)] ELSE out

(* Mutant: a blank room id. *)
gen_blank_id == NoRoom

(* Neither a tab nor the server knows the code. *)
Unused(r) ==
    /\ r \notin DOMAIN registry.rooms
    /\ \A t \in Tab : r \notin {tab[t].session.owns, tab[t].session.room_in_hash}

(* Room ids are random, and taken to be unused; as ids are only compared   *)
(* it does not matter which one is drawn.                                  *)
gen_room_id == CHOOSE r \in Room : Unused(r)

(* handle_message; Room bounds the codes that can be drawn. *)
Handles(c) ==
    LET m == Head(inbox[c])
        full == JoinOutcome(registry, m.room) = "Full"
        Reply(type, room) == outbox' = SendTo(outbox, c, Msg(type, room, 0))
        Placed(r) == registry' = Create(registry, c, r) /\ Reply("Created", r)
    IN
    /\ srv[c] = "up" /\ inbox[c] # <<>>
    /\ inbox' = [inbox EXCEPT ![c] = Tail(@)]
    /\ \/ m.type = "Create" /\ (\E r \in Room : Unused(r)) /\ Placed(gen_room_id)
       \/ m.type = "Reclaim" /\ ~Contains(registry, m.room) /\ Placed(m.room)
       \/ m.type = "Reclaim" /\ Contains(registry, m.room)
          /\ Reply("RoomNotFound", NoRoom) /\ UNCHANGED registry
       \/ /\ m.type = "Join" /\ JoinOutcome(registry, m.room) = "Joined"
          /\ registry' = Join(registry, c, m.room)
          /\ outbox' = SendTo(outbox, Partner(registry', c), Msg("PeerJoined", NoRoom, 0))
       \/ /\ m.type = "Join" /\ JoinOutcome(registry, m.room) # "Joined"
          /\ Reply(IF full THEN "RoomFull" ELSE "RoomNotFound", NoRoom)
          /\ UNCHANGED registry
       \/ /\ m.type \in {"Offer", "Answer"}
          /\ outbox' = SendTo(outbox, Partner(registry, c), m)
          /\ UNCHANGED registry
    /\ UNCHANGED <<tab, pcs, srv, silent, bounds>>

(* The end of handle_socket, once recv_task has read what there was. *)
Cleanup(c) ==
    /\ srv[c] = "up" /\ Holders(c) = {} /\ inbox[c] = <<>>
    /\ srv' = [srv EXCEPT ![c] = "gone"]
    /\ registry' = Remove(registry, c)
    /\ outbox' = SendTo(outbox, Partner(registry, c), Msg("PeerLeft", NoRoom, 0))
    /\ silent' = silent \ {c}
    /\ UNCHANGED <<tab, pcs, inbox, bounds>>

-----------------------------------------------------------------------------
(* Users and mishaps. *)

Mishap(kind) ==
    \/ kind \in Faults /\ faults > 0 /\ faults' = faults - 1
    \/ kind \in Alone /\ faults = MaxFaults /\ faults' = 0

(* Codes a user can come by. *)
Known == {tab[t].session.owns : t \in Tab} \ {NoRoom}

(* The root of the site, the link or QR code of a room, or a duplicate of  *)
(* another tab, which comes with a copy of its session storage.            *)
Visits(t) ==
    /\ tab[t].ws = "OFF"
    /\ \/ \E hash \in Known \cup {NoRoom} : tab' = [tab EXCEPT ![t] = Mounted(hash, NoRoom)]
       \/ \E u \in Tab : /\ tab[u].ws # "OFF" /\ tab[u].session.owns # NoRoom
                         /\ tab' = [tab EXCEPT ![t] = Mounted(tab[u].session.room_in_hash,
                                                             tab[u].session.owns)]
    /\ UNCHANGED <<pcs, registry, srv, inbox, outbox, silent, bounds>>

(* The page goes and another takes its place; the browser closes the socket.*)
Unloads(t, page) ==
    LET c == tab[t].sock IN
    /\ tab[t].ws # "OFF"
    /\ tab' = [tab EXCEPT ![t] = page]
    /\ pcs' = Close({i \in 1..Len(pcs) : pcs[i].tab = t})
    /\ IF c = NoPeer THEN UNCHANGED <<inbox, outbox>>
       ELSE CutShort(c) /\ outbox' = [outbox EXCEPT ![c] = <<>>]
    /\ UNCHANGED <<registry, srv, silent, unseen>>

Reloads(t) == Mishap("reload") /\ Unloads(t, Mounted(tab[t].session.room_in_hash, tab[t].session.owns))

(* on_join: the code typed becomes the hash, and the page reloads. *)
JoinsByCode(t) ==
    /\ Mishap("code") /\ tab[t].status # "Connected"
    /\ \E r \in Known : Unloads(t, Mounted(r, tab[t].session.owns))

(* "Start a new room". *)
StartsOver(t) ==
    /\ Mishap("new") /\ tab[t].status = "RoomNotFound"
    /\ Unloads(t, Mounted(NoRoom, tab[t].session.owns))

Leaves(t) == Mishap("leave") /\ Unloads(t, NoPage)

(* The socket drops; of a machine that sleeps the server is not told. *)
Drops(t, kind) ==
    /\ Mishap(kind) /\ tab[t].ws = "OPEN" /\ srv[tab[t].sock] = "up"
    /\ on_disconnect(t)
    /\ CutShort(tab[t].sock)
    /\ outbox' = [outbox EXCEPT ![tab[t].sock] = <<>>]
    /\ silent' = IF kind = "sleep" THEN silent \cup {tab[t].sock} ELSE silent
    /\ UNCHANGED <<registry, srv, unseen>>

(* The server, or a proxy, closes the socket in an orderly way. *)
CloseStarts(t) ==
    /\ Mishap("closing")
    /\ tab' = [tab EXCEPT ![t].ws = "CLOSING"] /\ Link(t)!Closing
    /\ CutShort(tab[t].sock)
    /\ UNCHANGED <<pcs, registry, srv, outbox, silent, unseen>>

(* A connect that does not succeed. *)
ConnectFails(t) ==
    /\ Mishap("connect") /\ tab[t].ws = "CONNECTING"
    /\ on_disconnect(t)
    /\ UNCHANGED <<registry, srv, inbox, outbox, silent, unseen>>

(* The server is restarted: AppState::new, and every socket is broken. *)
ServerRestarts ==
    /\ Mishap("restart")
    /\ registry' = EmptyRegistry
    /\ srv' = [c \in Peer |-> IF srv[c] = "off" THEN "off" ELSE "gone"]
    /\ inbox' = [c \in Peer |-> <<>>] /\ outbox' = [c \in Peer |-> <<>>]
    /\ silent' = {}
    /\ UNCHANGED <<tab, pcs, unseen>>

(* new_peer_connection throws: the status says so and nothing is built. *)
BuildFails(t) ==
    LET c == tab[t].sock
        m == Head(outbox[c])
    IN
    /\ Mishap("build") /\ tab[t].ws = "OPEN" /\ outbox[c] # <<>>
    /\ m.type \in {"PeerJoined", "Offer"}
    /\ outbox' = [outbox EXCEPT ![c] = Tail(@)]
    /\ tab' = [tab EXCEPT ![t].session = Updated(@, m.type, m.room), ![t].status = "Error"]
    /\ UNCHANGED <<pcs, registry, srv, inbox, silent, unseen>>

Page(t) == Delivers(t) \/ Opens(t) \/ Closes(t) \/ Reconnects(t)
Rtc == \E i \in 1..Len(pcs) : Describes(i) \/ CtrlOpens(i)
User(t) == Visits(t) \/ Reloads(t) \/ JoinsByCode(t) \/ StartsOver(t) \/ Leaves(t)
Trouble(t) ==
    \/ Drops(t, "drop") \/ Drops(t, "sleep") \/ CloseStarts(t)
    \/ ConnectFails(t) \/ BuildFails(t)

Next ==
    \/ \E t \in Tab : Page(t) \/ User(t) \/ Trouble(t)
    \/ Rtc
    \/ \E c \in Peer : Handles(c) \/ Cleanup(c)
    \/ ServerRestarts

Spec == Init /\ [][Next]_vars

(* Pages and the server go on; sockets come back (SignalingLink), and the  *)
(* server is told of the end of every socket but the silent ones.          *)
Fairness ==
    /\ \A t \in Tab : WF_vars(Page(t))
    /\ WF_vars(Rtc)
    /\ \A c \in Peer : WF_vars(Handles(c)) /\ WF_vars(c \notin silent /\ Cleanup(c))

FairSpec == Spec /\ Fairness

-----------------------------------------------------------------------------
(* Properties. *)

(* Every variable has the type the program declares for it. *)
TypeOK ==
    /\ \A t \in Tab :
          /\ tab[t].ws \in Link(t)!ReadyState \cup {"OFF"}
          /\ tab[t].sock \in Peer \cup {NoPeer}
          /\ tab[t].status \in Status
          /\ {tab[t].session.owns, tab[t].session.room_in_hash} \subseteq Room \cup {NoRoom}
          /\ {tab[t].pc, tab[t].transfer} \subseteq 0..Len(pcs)
    /\ \A i \in 1..Len(pcs) : pcs[i].tab \in Tab /\ pcs[i].remote \in 0..Len(pcs)
    /\ DOMAIN registry.rooms \subseteq Room /\ DOMAIN registry.peer_room \subseteq Peer

(* Nothing is on its way: no message, no pending task, no channel about to *)
(* open, no socket about to change, no connection the server is yet to     *)
(* clean up.                                                               *)
AtRest ==
    /\ \A c \in Peer : inbox[c] = <<>> /\ outbox[c] = <<>>
    /\ \A c \in Peer : srv[c] = "up" => Holders(c) # {} \/ c \in silent
    /\ \A t \in Tab : \/ tab[t].ws = "OFF"
                      \/ tab[t].ws = "OPEN" /\ srv[tab[t].sock] = "up"
    /\ \A i \in 1..Len(pcs) : (pcs[i].local \/ pcs[i].closed) /\ ~Linked(i)

(* Tabs t and u are connected through their current peer connections.      *)
Together(t, u) ==
    LET i == tab[t].pc
        j == tab[u].pc
    IN  /\ i # 0 /\ j # 0 /\ pcs[i].remote = j /\ pcs[j].remote = i
        /\ pcs[i].opened /\ pcs[j].opened
        /\ tab[t].transfer = i /\ tab[u].transfer = j

Reported == silent = {} /\ ~unseen

(* A tab that shows Connected is: at rest, the peer connection it holds,   *)
(* and its Transfer, reach those of another tab that shows Connected too.  *)
(* Two cases are left out: a peer that sleeps and of whom the server has   *)
(* not heard, and a socket replaced while it was closing, whose drop the   *)
(* page is not told of.  (app.rs 204-225, 283-295, 465-477.)               *)
ConnectedIsMutual ==
    AtRest /\ Reported => \A t \in Tab :
        tab[t].status = "Connected" =>
            \E u \in Tab \ {t} : tab[u].status = "Connected" /\ Together(t, u)

(* A tab that says it waits, or that its peer has left, is registered in   *)
(* the room whose code it shows, so that a peer can find it: after every   *)
(* drop, reload, reclaim and restart.  (reconnect.rs 121-128.)             *)
WaitingIsFindable ==
    AtRest => \A t \in Tab :
        tab[t].status \in {"WaitingForPeer", "PeerLeft"} =>
            /\ tab[t].sock \in DOMAIN registry.peer_room
            /\ registry.peer_room[tab[t].sock] = tab[t].session.room_in_hash

Roommates(t, u) ==
    /\ t # u /\ tab[t].ws = "OPEN" /\ tab[u].ws = "OPEN"
    /\ tab[t].session.room_in_hash = tab[u].session.room_in_hash

DeadEnd == {"RoomFull", "RoomNotFound", "Error"}

(* The offer t has out was given an answer to another offer. *)
Crossed(t) ==
    LET i == tab[t].pc IN
    i # 0 /\ pcs[i].role = "Offer" /\ pcs[i].remote # 0 /\ pcs[pcs[i].remote].remote # i

(* Two tabs with the same room in their URL end up together, unless one    *)
(* shows that it has given up, or an answer met the wrong offer: the       *)
(* server relays an offer to whoever is the partner by then, so that of an *)
(* earlier handshake can reach the later one.  (app.rs 325-388, ws.rs      *)
(* 218-256.)                                                               *)
PairMeets ==
    AtRest /\ Reported => \A t, u \in Tab :
        Roommates(t, u) =>
            \/ Together(t, u)
            \/ {tab[t].status, tab[u].status} \cap DeadEnd # {}
            \/ Crossed(t) \/ Crossed(u)

(* The room of a page, and so the link it shows, changes only when the     *)
(* user goes elsewhere: a tab comes back to its room, and an owner that    *)
(* finds it gone makes it anew under the same code (ws.rs 181-182).        *)
LinkKept ==
    [][\A t \in Tab : tab[t].session.room_in_hash # NoRoom =>
          \/ tab'[t].session.room_in_hash = tab[t].session.room_in_hash
          \/ Leaves(t) \/ JoinsByCode(t) \/ StartsOver(t)]_vars

(* The handshake comes to rest: no two tabs reclaim, tear down or offer    *)
(* for ever ("a refused reclaim ... cannot loop", reconnect.rs 131-133).   *)
HandshakeSettles == <>[]AtRest

(* Tabs t and u were connected before. *)
Met(t, u) ==
    \E i \in 1..Len(pcs) : LET j == pcs[i].remote IN
        /\ j # 0 /\ pcs[i].tab = t /\ pcs[j].tab = u
        /\ pcs[i].opened /\ pcs[j].opened

(* When the sockets of both peers dropped, the owner makes the room anew,  *)
(* the joiner joins it "and they re-pair" (docs/superpowers/specs/         *)
(* 2026-06-03-signaling-reconnect-design.md 125-129).                      *)
PairRecovers ==
    AtRest => \A t, u \in Tab : Roommates(t, u) /\ Met(t, u) => Together(t, u)

=============================================================================
