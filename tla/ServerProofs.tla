---------------------------- MODULE ServerProofs ----------------------------
(***************************************************************************)
(* Proofs about the signaling server, for any number of connections, room  *)
(* ids, addresses and any limits.                                          *)
(***************************************************************************)
EXTENDS Server, RoomsProofs, FiniteSetTheorems, SequenceTheorems

(* The inductive invariant.  RegistryConsistent is not inductive alone: it *)
(* needs to know that a handler about to register its connection is not    *)
(* racing the cleanup of that connection, which is what PendingUntouched   *)
(* says.                                                                   *)
Inv == TypeOK /\ RegistryConsistent /\ PendingUntouched

(* The registry part of the invariant is WellFormed of RoomsProofs. *)
LEMMA InvWellFormed == Inv => WellFormed(registry)
  BY DEF Inv, TypeOK, RegistryType, RegistryConsistent, WellFormed, Occupancy, Registered

(* And a well-formed registry of live connections has that part. *)
LEMMA WellFormedInv ==
  ASSUME WellFormed(registry),
         \A p \in Registered : conn[p] \in {"up", "closing"}
  PROVE  RegistryType /\ RegistryConsistent
  BY DEF RegistryType, RegistryConsistent, WellFormed, Occupancy, Registered

(* The initial state satisfies the invariant. *)
LEMMA InitInv == Init => Inv
<1> SUFFICES ASSUME Init PROVE Inv
  OBVIOUS
<1> USE ServerAssumption DEF Init
<1>1. WellFormed(registry) /\ Registered = {}
  BY EmptyWellFormed DEF Registered
<1>2. RegistryType /\ RegistryConsistent
  BY <1>1, WellFormedInv
<1>3. LimiterType
  BY FS_EmptySet DEF LimiterType
<1>4. TaskType
  BY DEF TaskType, ConnState, HandlerState, ClientState
<1>5. WireType
  BY DEF WireType
<1>6. PendingUntouched
  BY <1>1 DEF PendingUntouched, Untouched, Pending, Asking
<1> QED BY <1>2, <1>3, <1>4, <1>5, <1>6 DEF Inv, TypeOK

-----------------------------------------------------------------------------
(* Type correctness of one step. *)

(* send_to appends to one channel, or does nothing. *)
LEMMA SendToType ==
  ASSUME WireType, NEW q \in Peer \cup {NoPeer}, NEW m \in SignalMsg
  PROVE  /\ SendTo(chan, q, m) \in [Peer -> Seq(SignalMsg)]
         /\ \A x \in Peer : \/ SendTo(chan, q, m)[x] = chan[x]
                            \/ x = q /\ SendTo(chan, q, m)[x] = Append(chan[x], m)
  BY DEF SendTo, WireType

(* A notice leaves channels and history well-typed. *)
LEMMA NotifyType ==
  ASSUME WireType, NEW q \in Peer \cup {NoPeer}, NEW m \in SignalMsg, Notify(q, m)
  PROVE  chan' \in [Peer -> Seq(SignalMsg)] /\ notes' \in [Peer -> Seq(SignalMsg)]
<1>1. chan' \in [Peer -> Seq(SignalMsg)]
  BY SendToType DEF Notify
<1>2. notes' \in [Peer -> Seq(SignalMsg)]
  BY DEF Notify, WireType
<1> QED BY <1>1, <1>2

(* A message built with Msg is a message. *)
LEMMA MsgType ==
  ASSUME NEW t \in Reply, NEW q \in Peer \cup {NoPeer}
  PROVE  Msg(t, q) \in SignalMsg
  BY DEF Msg, SignalMsg

(* partner answers a connection or nobody. *)
LEMMA PartnerType ==
  ASSUME Inv, NEW p \in Peer
  PROVE  /\ Partner(registry, p) \in Peer \cup {NoPeer}
         /\ Partner(registry, p) # NoPeer => Partner(registry, p) \in Registered \ {p}
  BY InvWellFormed, PartnerRegistered DEF Registered, WellFormed

(* Every step keeps the failures finite and the times natural numbers. *)
LEMMA LimiterTypeStep == Inv /\ [Next]_vars => LimiterType'
<1> SUFFICES ASSUME Inv, [Next]_vars PROVE LimiterType'
  OBVIOUS
<1> USE ServerAssumption DEF Inv, TypeOK, LimiterType
<1>1. ASSUME UNCHANGED <<failures, at>> PROVE LimiterType'
  BY <1>1
<1>2. ASSUME NEW p \in Peer, TakeNow(p) PROVE LimiterType'
  BY <1>2 DEF TakeNow
<1>3. ASSUME NEW p \in Peer, CheckAllowed(p) PROVE LimiterType'
  <2>1. IsFiniteSet(Prune(failures[IpOf[p]], at[p]))
    BY FS_Subset DEF Prune
  <2> QED BY <1>3, <2>1 DEF CheckAllowed
<1>4. ASSUME NEW p \in Peer, Record(p) PROVE LimiterType'
  <2> DEFINE f == [peer |-> p, why |-> pc[p], at |-> at[p]]
  <2>1. IsFiniteSet(Prune(failures[IpOf[p]], f.at))
    BY FS_Subset DEF Prune
  <2>2. IsFiniteSet(RecordFailure(failures[IpOf[p]], f))
    BY <2>1, FS_AddElement DEF RecordFailure
  <2> QED BY <1>4, <2>2 DEF Record
<1>6. ASSUME NEW p \in Peer,
             \/ CreateRoom(p) \/ SendCreated(p) \/ JoinRoom(p) \/ Announce(p) \/ Refuse(p)
             \/ ReclaimContains(p) \/ ReclaimCreate(p) \/ LookupPartner(p) \/ SendRelay(p)
             \/ RecvEnds(p) \/ SendFails(p) \/ Cleanup(p) \/ Connect(p) \/ ClientOpen(p)
             \/ ClientRelay(p) \/ Deliver(p) \/ \E how \in Losses : ClientLost(p, how)
      PROVE  UNCHANGED <<failures, at>>
  BY <1>6 DEF CreateRoom, SendCreated, JoinRoom, Announce, Refuse, ReclaimContains,
       ReclaimCreate, LookupPartner, SendRelay, RecvEnds, SendFails, Cleanup, Unregister,
       NotifyLeft, DropSender, Connect, ClientOpen, ClientRelay, Deliver, ClientLost, handler
<1> QED BY <1>1, <1>2, <1>3, <1>4, <1>6 DEF Next, Handler, vars, handler

(* Every step keeps the program counters, the targets and the tabs typed.  *)
LEMMA TaskTypeStep == Inv /\ [Next]_vars => TaskType'
<1> SUFFICES ASSUME Inv, [Next]_vars PROVE TaskType'
  OBVIOUS
<1> USE ServerAssumption DEF Inv, TypeOK, TaskType
<1>1. ASSUME UNCHANGED <<tasks, pc, to, tabs>> PROVE TaskType'
  BY <1>1 DEF tasks, tabs
<1>2. ASSUME NEW p \in Peer,
             \/ CreateRoom(p) \/ SendCreated(p) \/ TakeNow(p) \/ CheckAllowed(p) \/ Announce(p)
             \/ Record(p) \/ Refuse(p) \/ ReclaimContains(p) \/ ReclaimCreate(p)
      PROVE  TaskType'
  BY <1>2 DEF CreateRoom, SendCreated, TakeNow, CheckAllowed, Announce, Record, Refuse,
       ReclaimContains, ReclaimCreate, Goto, tasks, tabs, HandlerState
<1>3. ASSUME NEW p \in Peer, JoinRoom(p) PROVE TaskType'
  <2>1. JoinOutcome(registry, want[p]) \in {"Joined", "Full", "NotFound"}
    BY DEF JoinOutcome
  <2> QED BY <1>3, <2>1 DEF JoinRoom, Goto, tasks, tabs, HandlerState
<1>4. ASSUME NEW p \in Peer, LookupPartner(p) PROVE TaskType'
  BY <1>4, PartnerType DEF LookupPartner, Goto, tasks, tabs, HandlerState
<1>5. ASSUME NEW p \in Peer, SendRelay(p) PROVE TaskType'
  BY <1>5 DEF SendRelay, Goto, tasks, tabs, HandlerState
<1>6. ASSUME NEW p \in Peer, RecvEnds(p) \/ SendFails(p) \/ NotifyLeft(p) \/ DropSender(p)
      PROVE  TaskType'
  BY <1>6 DEF RecvEnds, SendFails, NotifyLeft, DropSender, handler, tabs, ConnState
<1>7. ASSUME NEW p \in Peer, Unregister(p) PROVE TaskType'
  BY <1>7, PartnerType DEF Unregister, handler, tabs, ConnState
<1>8. ASSUME NEW p \in Peer,
             \/ Connect(p) \/ ClientOpen(p) \/ ClientRelay(p)
             \/ \E how \in Losses : ClientLost(p, how)
      PROVE  TaskType'
  BY <1>8 DEF Connect, ClientOpen, ClientRelay, ClientLost, handler, tasks, tabs,
       ConnState, ClientState, Online
<1>9. ASSUME NEW p \in Peer, Deliver(p) PROVE TaskType'
  <2>1. client' \in [Peer -> ClientState]
    BY <1>9 DEF Deliver, Reacts, ClientState, Online
  <2> QED BY <1>9, <2>1 DEF Deliver, handler, tasks
<1> QED BY <1>1, <1>2, <1>3, <1>4, <1>5, <1>6, <1>7, <1>8, <1>9
        DEF Next, Handler, Cleanup, vars, handler

(* Every step keeps the wires and the history typed. *)
LEMMA WireTypeStep == Inv /\ [Next]_vars => WireType'
<1> SUFFICES ASSUME Inv, [Next]_vars PROVE WireType'
  OBVIOUS
<1> USE ServerAssumption DEF Inv, TypeOK, WireType
<1>1. ASSUME UNCHANGED <<wires, history>> PROVE WireType'
  BY <1>1 DEF wires, history
<1>2. ASSUME NEW p \in Peer, NEW q \in Request, Reads(p, q)
      PROVE  inbox' \in [Peer -> Seq(Request)]
  BY <1>2 DEF Reads
<1>3. ASSUME NEW p \in Peer, CreateRoom(p) PROVE WireType'
  <2>1. inbox' \in [Peer -> Seq(Request)]
    BY <1>2, <1>3 DEF CreateRoom, Request
  <2>2. issued' \subseteq Room
    BY <1>3 DEF CreateRoom, gen_room_id
  <2> QED BY <1>3, <2>1, <2>2 DEF CreateRoom
<1>4. ASSUME NEW p \in Peer, TakeNow(p) \/ LookupPartner(p) PROVE WireType'
  <2>1. inbox' \in [Peer -> Seq(Request)]
    BY <1>2, <1>4 DEF TakeNow, LookupPartner, Request
  <2> QED BY <1>4, <2>1 DEF TakeNow, LookupPartner, history
<1>5. ASSUME NEW p \in Peer, SendCreated(p) \/ Refuse(p) PROVE WireType'
  <2>1. \A t \in Reply : Msg(t, NoPeer) \in SignalMsg
    BY MsgType
  <2>2. \A t \in Reply : SendTo(chan, p, Msg(t, NoPeer)) \in [Peer -> Seq(SignalMsg)]
    BY <2>1, SendToType
  <2> QED BY <1>5, <2>2 DEF SendCreated, Refuse, history, Reply
<1>6. ASSUME NEW p \in Peer, Announce(p) PROVE WireType'
  <2>1. Msg("PeerJoined", p) \in SignalMsg
    BY MsgType DEF Reply
  <2>2. chan' \in [Peer -> Seq(SignalMsg)] /\ notes' \in [Peer -> Seq(SignalMsg)]
    BY <1>6, <2>1, NotifyType, PartnerType DEF Announce
  <2> QED BY <1>6, <2>2 DEF Announce
<1>7. ASSUME NEW p \in Peer, NotifyLeft(p) PROVE WireType'
  <2>1. Msg("PeerLeft", p) \in SignalMsg
    BY MsgType DEF Reply
  <2>2. leftTo[p] \in Peer \cup {NoPeer}
    BY DEF TaskType
  <2>3. chan' \in [Peer -> Seq(SignalMsg)] /\ notes' \in [Peer -> Seq(SignalMsg)]
    BY <1>7, <2>1, <2>2, NotifyType DEF NotifyLeft
  <2> QED BY <1>7, <2>3 DEF NotifyLeft
<1>8. ASSUME NEW p \in Peer, SendRelay(p) PROVE WireType'
  <2>1. Msg("Relay", p) \in SignalMsg
    BY MsgType DEF Reply
  <2>2. to[p] \in Peer \cup {NoPeer}
    BY DEF TaskType
  <2>3. chan' \in [Peer -> Seq(SignalMsg)]
    BY <1>8, <2>1, <2>2, SendToType DEF SendRelay
  <2> QED BY <1>8, <2>3 DEF SendRelay, history
<1>9. ASSUME NEW p \in Peer, ReclaimCreate(p) PROVE WireType'
  <2>1. Contains(registry, want[p]) => Members(registry, want[p]) \subseteq Peer
    BY DEF RegistryType, Contains, Members
  <2> QED BY <1>9, <2>1 DEF ReclaimCreate, wires
<1>10. ASSUME NEW p \in Peer,
             \/ CheckAllowed(p) \/ JoinRoom(p) \/ Record(p) \/ ReclaimContains(p)
             \/ Unregister(p) \/ DropSender(p) \/ Connect(p)
      PROVE  UNCHANGED <<wires, history>>
  BY <1>10 DEF CheckAllowed, JoinRoom, Record, ReclaimContains, Unregister, DropSender, Connect
<1>11. ASSUME NEW p \in Peer, RecvEnds(p) \/ SendFails(p) PROVE WireType'
  <2>1. <<>> \in Seq(SignalMsg) /\ <<>> \in Seq(Request)
    OBVIOUS
  <2>2. chan' \in [Peer -> Seq(SignalMsg)]
    BY <1>11, <2>1 DEF RecvEnds, SendFails
  <2>3. inbox' \in [Peer -> Seq(Request)]
    BY <1>11, <2>1 DEF RecvEnds, SendFails
  <2> QED BY <1>11, <2>2, <2>3 DEF RecvEnds, SendFails, history
<1>12. ASSUME NEW p \in Peer, NEW q \in Request, Sends(p, q)
      PROVE  inbox' \in [Peer -> Seq(Request)]
  BY <1>12 DEF Sends
<1>13. ASSUME NEW p \in Peer, ClientOpen(p) \/ ClientRelay(p) PROVE WireType'
  <2>1. inbox' \in [Peer -> Seq(Request)]
    BY <1>12, <1>13 DEF ClientOpen, ClientRelay, Request
  <2> QED BY <1>13, <2>1 DEF ClientOpen, ClientRelay, history
<1>14. ASSUME NEW p \in Peer, Deliver(p) PROVE WireType'
  <2>1. inbox' \in [Peer -> Seq(Request)]
    BY <1>12, <1>14 DEF Deliver, Reacts, Request
  <2>2. chan' \in [Peer -> Seq(SignalMsg)]
    BY <1>14 DEF Deliver
  <2> QED BY <1>14, <2>1, <2>2 DEF Deliver, history
<1>15. ASSUME NEW p \in Peer, NEW how \in Losses, ClientLost(p, how) PROVE WireType'
  <2>1. \A n \in 0..Len(inbox[p]) : SubSeq(inbox[p], 1, n) \in Seq(Request)
    OBVIOUS
  <2>2. inbox' \in [Peer -> Seq(Request)]
    BY <1>15, <2>1 DEF ClientLost
  <2> QED BY <1>15, <2>2 DEF ClientLost, history
<1> QED BY <1>1, <1>3, <1>4, <1>5, <1>6, <1>7, <1>8, <1>9, <1>10, <1>11, <1>13, <1>14,
           <1>15 DEF Next, Handler, Cleanup, vars

-----------------------------------------------------------------------------
(* The registry. *)

(* A handler about to register its connection does so for an unregistered, *)
(* still connected peer.                                                   *)
LEMMA AskingUntouched ==
  ASSUME Inv, NEW p \in Peer, Pending(p)
  PROVE  Untouched(p)
  BY DEF Inv, PendingUntouched

(* A connection whose next request asks for a place is pending. *)
LEMMA ReadsAsks ==
  ASSUME Inv, NEW p \in Peer, NEW q, q # "Relay", Reads(p, q)
  PROVE  Pending(p)
<1>1. inbox[p] \in Seq(Request) /\ inbox[p] # <<>> /\ inbox[p][1] # "Relay"
  BY DEF Inv, TypeOK, WireType, Reads
<1>2. 1 \in 1..Len(inbox[p])
  BY <1>1
<1> QED BY <1>1, <1>2 DEF Pending

(* Every step keeps the registry well formed and free of connections whose *)
(* cleanup has already removed them.                                       *)
LEMMA RegistryStep ==
  Inv /\ [Next]_vars => /\ WellFormed(registry)'
                        /\ \A p \in Registered' : conn'[p] \in {"up", "closing"}
<1> DEFINE Goal == /\ WellFormed(registry)'
                   /\ \A p \in Registered' : conn'[p] \in {"up", "closing"}
<1> SUFFICES ASSUME Inv, [Next]_vars PROVE Goal
  OBVIOUS
<1>a. WellFormed(registry) /\ Registered \subseteq Peer
  BY InvWellFormed DEF WellFormed, Registered
<1>b. \A p \in Registered : conn[p] \in {"up", "closing"}
  BY DEF Inv, RegistryConsistent
<1>c. conn \in [Peer -> ConnState]
  BY DEF Inv, TypeOK, TaskType
<1>1. ASSUME UNCHANGED registry, UNCHANGED conn PROVE Goal
  BY <1>1, <1>a, <1>b DEF Registered
<1>2. ASSUME NEW p \in Peer, CreateRoom(p) PROVE Goal
  <2>1. p \notin Registered /\ conn[p] = "up" /\ conn' = conn
    BY <1>2, AskingUntouched, ReadsAsks DEF CreateRoom, Reads, Untouched, tasks
  <2>2. PICK r \in Room : registry' = Create(registry, p, r)
    BY <1>2 DEF CreateRoom, gen_room_id
  <2>3. WellFormed(registry') /\ Registered' = Registered \cup {p}
    BY <1>a, <2>1, <2>2, CreateWellFormed DEF Registered
  <2> QED BY <1>b, <2>1, <2>3
<1>3. ASSUME NEW p \in Peer, JoinRoom(p) PROVE Goal
  <2>1. Pending(p) /\ pc[p] # "idle"
    BY <1>3 DEF JoinRoom, Pending, Asking
  <2>2. p \notin Registered /\ conn[p] = "up" /\ conn' = conn
    BY <1>3, <2>1, AskingUntouched DEF JoinRoom, Untouched, tasks
  <2>3. WellFormed(registry') /\ Registered' \subseteq Registered \cup {p}
    BY <1>3, <1>a, <2>2, JoinWellFormed DEF JoinRoom, Registered
  <2> QED BY <1>b, <2>2, <2>3
<1>4. ASSUME NEW p \in Peer, ReclaimCreate(p) PROVE Goal
  <2>1. Pending(p) /\ pc[p] # "idle"
    BY <1>4 DEF ReclaimCreate, Pending, Asking
  <2>2. p \notin Registered /\ conn[p] = "up" /\ conn' = conn /\ want[p] \in Room
    BY <1>4, <2>1, AskingUntouched DEF ReclaimCreate, Untouched, tasks, Inv, TypeOK, WireType
  <2>3. WellFormed(registry') /\ Registered' = Registered \cup {p}
    BY <1>4, <1>a, <2>2, CreateWellFormed DEF ReclaimCreate, Registered
  <2> QED BY <1>b, <2>2, <2>3
<1>5. ASSUME NEW p \in Peer, Unregister(p) PROVE Goal
  <2>1. WellFormed(registry') /\ Registered' = Registered \ {p}
    BY <1>5, <1>a, RemoveWellFormed DEF Unregister, Registered
  <2>2. \A q \in Peer \ {p} : conn'[q] = conn[q]
    BY <1>5, <1>c DEF Unregister
  <2> QED BY <1>a, <1>b, <2>1, <2>2
<1>6. ASSUME NEW p \in Peer,
             RecvEnds(p) \/ SendFails(p) \/ NotifyLeft(p) \/ DropSender(p) \/ Connect(p)
      PROVE  Goal
  <2>1. registry' = registry /\ \A q \in Peer \ {p} : conn'[q] = conn[q]
    BY <1>6, <1>c DEF RecvEnds, SendFails, NotifyLeft, DropSender, Connect
  <2>2. p \in Registered => conn'[p] \in {"up", "closing"}
    BY <1>6, <1>b, <1>c DEF RecvEnds, SendFails, NotifyLeft, DropSender, Connect
  <2> QED BY <1>a, <1>b, <2>1, <2>2 DEF Registered
<1>7. ASSUME NEW p \in Peer,
             \/ SendCreated(p) \/ TakeNow(p) \/ CheckAllowed(p) \/ Announce(p) \/ Record(p)
             \/ Refuse(p) \/ ReclaimContains(p) \/ LookupPartner(p) \/ SendRelay(p)
             \/ ClientOpen(p) \/ ClientRelay(p) \/ Deliver(p)
             \/ \E how \in Losses : ClientLost(p, how)
      PROVE  UNCHANGED registry /\ UNCHANGED conn
  BY <1>7 DEF SendCreated, TakeNow, CheckAllowed, Announce, Record, Refuse, ReclaimContains,
       LookupPartner, SendRelay, ClientOpen, ClientRelay, Deliver, ClientLost, tasks
<1> HIDE DEF Goal
<1> QED BY <1>1, <1>2, <1>3, <1>4, <1>5, <1>6, <1>7 DEF Next, Handler, Cleanup, vars, tasks

-----------------------------------------------------------------------------
(* Pending connections stay untouched. *)

Refusals == {"RoomFull", "RoomNotFound"}

(* The part of the state that belongs to connection q stays as it is. *)
Keeps(q) ==
    /\ client'[q] = client[q] /\ want'[q] = want[q] /\ conn'[q] = conn[q]
    /\ pc'[q] = pc[q] /\ inbox'[q] = inbox[q]

(* q gets no message, or one that is no refusal ... *)
NotRefused(q) ==
    \/ chan'[q] = chan[q]
    \/ \E m \in SignalMsg : m.type \notin Refusals /\ chan'[q] = Append(chan[q], m)

(* ... and that only a connection known to another task can get. *)
Hears(q) == NotRefused(q) /\ (chan'[q] = chan[q] \/ ~Untouched(q))

(* Only registered connections become targets, only p is registered, and   *)
(* no room id is taken back.                                               *)
Targets(p) ==
    /\ Registered' \subseteq Registered \cup {p}
    /\ issued \subseteq issued'
    /\ \A x \in Peer : /\ leftTo'[x] = leftTo[x] \/ leftTo'[x] \in (Registered \cup {NoPeer}) \ {p}
                       /\ to'[x] = to[x] \/ to'[x] \in (Registered \cup {NoPeer}) \ {p}

(* A step of p does not make another connection pending. *)
LEMMA OthersPending ==
  ASSUME Inv, NEW q \in Peer, Keeps(q), NotRefused(q), Pending(q)'
  PROVE  Pending(q)
<1>1. chan[q] \in Seq(SignalMsg)
  BY DEF Inv, TypeOK, WireType
<1>2. CASE chan'[q] = chan[q]
  BY <1>2 DEF Keeps, Pending
<1>3. CASE chan'[q] # chan[q]
  <2>1. PICK m \in SignalMsg : m.type \notin Refusals /\ chan'[q] = Append(chan[q], m)
    BY <1>3 DEF NotRefused
  <2>2. \A i \in 1..Len(chan'[q]) :
           chan'[q][i].type \in Refusals => i \in 1..Len(chan[q]) /\ chan[q][i].type \in Refusals
    BY <1>1, <2>1
  <2> QED BY <2>2 DEF Keeps, Pending, Refusals
<1> QED BY <1>2, <1>3

(* A step of p does not disturb another pending connection. *)
LEMMA OthersUntouched ==
  ASSUME Inv, NEW p \in Peer, NEW q \in Peer \ {p}, Keeps(q), Hears(q), Targets(p), Pending(q)'
  PROVE  Pending(q) /\ Untouched(q)'
<1>1. Pending(q)
  BY OthersPending DEF Hears
<1>2. Untouched(q)
  BY <1>1 DEF Inv, PendingUntouched
<1>3. chan'[q] = chan[q]
  BY <1>2 DEF Hears
<1>4. q \notin Registered'
  BY <1>2 DEF Targets, Untouched
<1>5. \A x \in Peer : leftTo'[x] # q /\ to'[x] # q
  BY <1>2, ServerAssumption DEF Targets, Untouched
<1> QED BY <1>1, <1>2, <1>3, <1>4, <1>5 DEF Keeps, Untouched, Targets

(* No connection becomes pending that is not. *)
PendingShrinks == \A q \in Peer : Pending(q)' => Pending(q)

(* A step of p that registers nobody and picks no target. *)
LEMMA LocalTargets ==
  ASSUME UNCHANGED registry, UNCHANGED leftTo, UNCHANGED to, UNCHANGED issued, NEW p
  PROVE  Targets(p)
  BY DEF Targets, Registered

(* A step of p keeps PendingUntouched when it keeps away from the others. *)
LEMMA StepUntouched ==
  ASSUME Inv, NEW p \in Peer, \A q \in Peer \ {p} : Keeps(q) /\ Hears(q), Targets(p),
         Pending(p)' => Pending(p) /\ Untouched(p)'
  PROVE  PendingUntouched' /\ PendingShrinks
  BY OthersUntouched DEF PendingUntouched, PendingShrinks

(* A handler past the decision about its connection is not pending. *)
LEMMA BusyNotPending ==
  ASSUME Inv, NEW p \in Peer, pc[p] \notin Asking, pc[p] # "idle"
  PROVE  ~Pending(p)
<1> SUFFICES ASSUME Pending(p) PROVE FALSE
  OBVIOUS
<1>1. Untouched(p)
  BY AskingUntouched
<1>2. inbox[p] = <<>> /\ chan[p] = <<>> /\ client[p] \notin {"off", "open"}
  BY <1>1 DEF Untouched
<1>3. 1..Len(inbox[p]) = {} /\ 1..Len(chan[p]) = {}
  BY <1>2
<1> QED BY <1>2, <1>3 DEF Pending

(* Two queues with one message at most between them. *)
LEMMA OneMessage ==
  ASSUME NEW S, NEW T, NEW s \in Seq(S), NEW t \in Seq(T), s # <<>>, Len(s) + Len(t) <= 1
  PROVE  Len(s) = 1 /\ t = <<>> /\ Tail(s) = <<>>
<1>1. Len(s) \in Nat \ {0} /\ Len(t) \in Nat
  BY EmptySeq
<1>2. Len(s) = 1 /\ Len(t) = 0
  <2>1. \A i \in Nat \ {0}, j \in Nat : i + j <= 1 => i = 1 /\ j = 0
    OBVIOUS
  <2> QED BY <1>1, <2>1
<1>3. t = <<>>
  BY <1>2, EmptySeq
<1>4. Tail(s) \in Seq(S) /\ Len(Tail(s)) = 0
  BY <1>2, HeadTailProperties
<1> QED BY <1>2, <1>3, <1>4, EmptySeq

(* send_to of a message that is no refusal reaches q or nobody. *)
LEMMA SendToHears ==
  ASSUME Inv, NEW t \in Reply \ Refusals, NEW p \in Peer \cup {NoPeer}, NEW q \in Peer \cup {NoPeer},
         chan' = SendTo(chan, q, Msg(t, p)), NEW x \in Peer
  PROVE  NotRefused(x) /\ (chan'[x] = chan[x] \/ x = q)
<1>1. Msg(t, p) \in SignalMsg /\ Msg(t, p).type \notin Refusals
  BY MsgType DEF Msg
<1>2. \/ chan'[x] = chan[x]
      \/ x = q /\ chan'[x] = Append(chan[x], Msg(t, p))
  BY DEF Inv, TypeOK, WireType, SendTo
<1> QED BY <1>1, <1>2 DEF NotRefused

(* What connection p knows of itself after a step that leaves it alone. *)
LEMMA StillNotPending ==
  ASSUME Inv, NEW p \in Peer, ~Pending(p), NotRefused(p),
         client'[p] \notin {"off", "open"}, pc'[p] \notin Asking,
         \A i \in 1..Len(inbox'[p]) : inbox'[p][i] = "Relay"
  PROVE  ~Pending(p)'
<1>1. chan[p] \in Seq(SignalMsg)
  BY DEF Inv, TypeOK, WireType
<1>2. \A i \in 1..Len(chan[p]) : chan[p][i].type \notin Refusals
  BY DEF Pending, Refusals
<1>3. \A i \in 1..Len(chan'[p]) : chan'[p][i].type \notin Refusals
  BY <1>1, <1>2 DEF NotRefused
<1> QED BY <1>3 DEF Pending, Refusals

(* The handler steps of a pending connection. *)
LEMMA PendingHandlerStep ==
  ASSUME Inv, NEW p \in Peer,
         \/ CreateRoom(p) \/ TakeNow(p) \/ CheckAllowed(p) \/ JoinRoom(p) \/ Record(p)
         \/ Refuse(p) \/ ReclaimContains(p) \/ ReclaimCreate(p)
  PROVE  PendingUntouched' /\ PendingShrinks
<1> USE DEF Inv, TypeOK, TaskType, WireType
<1>1. Pending(p)
  <2>1. CASE CreateRoom(p) \/ TakeNow(p)
    BY <2>1, ReadsAsks DEF CreateRoom, TakeNow
  <2>2. CASE ~(CreateRoom(p) \/ TakeNow(p))
    BY <2>2 DEF CheckAllowed, JoinRoom, Record, Refuse, ReclaimContains, ReclaimCreate,
         Pending, Asking
  <2> QED BY <2>1, <2>2
<1>2. Untouched(p)
  BY <1>1, AskingUntouched
<1>3. /\ \A q \in Peer \ {p} : Keeps(q) /\ Hears(q)
      /\ client' = client /\ want' = want /\ conn' = conn
      /\ leftTo' = leftTo /\ to' = to
      /\ issued \subseteq issued'
  BY DEF CreateRoom, TakeNow, CheckAllowed, JoinRoom, Record, Refuse, ReclaimContains,
       ReclaimCreate, Reads, Goto, SendTo, Keeps, Hears, NotRefused, tasks, tabs, wires, history
<1>4. Registered' \subseteq Registered \cup {p}
  <2>1. CASE CreateRoom(p)
    BY <2>1 DEF CreateRoom, Create, Put, Registered
  <2>2. CASE JoinRoom(p)
    BY <2>2 DEF JoinRoom, Join, Put, Registered
  <2>3. CASE ReclaimCreate(p)
    BY <2>3 DEF ReclaimCreate, Create, Put, Registered
  <2>4. CASE ~(CreateRoom(p) \/ JoinRoom(p) \/ ReclaimCreate(p))
    BY <2>4 DEF TakeNow, CheckAllowed, Record, Refuse, ReclaimContains, Registered
  <2> QED BY <2>1, <2>2, <2>3, <2>4
<1>5. Targets(p)
  BY <1>3, <1>4 DEF Targets
<1>6. Pending(p)' => Untouched(p)'
  <2>1. ASSUME NEW q, Reads(p, q)
        PROVE  /\ inbox'[p] = <<>> /\ chan[p] = <<>> /\ client[p] \notin {"off", "open"}
               /\ q = "Reclaim" => want[p] \in issued
    <3>1. inbox[p] \in Seq(Request) /\ chan[p] \in Seq(SignalMsg) /\ inbox[p] # <<>>
      BY <2>1 DEF Reads
    <3>2. Len(inbox[p]) = 1 /\ chan[p] = <<>> /\ Tail(inbox[p]) = <<>>
      BY <1>2, <3>1, OneMessage DEF Untouched
    <3>3. inbox'[p] = <<>> /\ inbox[p][1] = q
      BY <2>1, <3>1, <3>2 DEF Reads
    <3> QED BY <1>2, <3>1, <3>2, <3>3 DEF Untouched
  <2>2. ASSUME pc[p] # "idle" PROVE inbox[p] = <<>> /\ chan[p] = <<>> /\ client[p] \notin {"off", "open"}
    BY <1>2, <2>2 DEF Untouched
  <2>3. CASE CreateRoom(p)
    <3>1. inbox'[p] = <<>> /\ chan'[p] = <<>> /\ pc'[p] = "created"
      BY <2>1, <2>3 DEF CreateRoom, Goto
    <3> QED BY <1>3, <2>1, <2>3, <3>1 DEF CreateRoom, Pending, Asking
  <2>4. CASE ReclaimCreate(p)
    <3>1. inbox'[p] = <<>> /\ chan'[p] = <<>> /\ pc'[p] = "created"
      BY <2>2, <2>4 DEF ReclaimCreate, Goto, wires
    <3> QED BY <1>3, <2>2, <2>4, <3>1 DEF ReclaimCreate, Pending, Asking
  <2>5. CASE TakeNow(p)
    <3>1. /\ inbox'[p] = <<>> /\ chan'[p] = <<>> /\ registry' = registry
          /\ pc'[p] \in {"join", "reclaim"}
          /\ pc'[p] = "reclaim" => want[p] \in issued
      BY <2>1, <2>5 DEF TakeNow, Goto
    <3>2. client[p] \notin {"off", "open"}
      BY <2>1, <2>5 DEF TakeNow
    <3> QED BY <1>2, <1>3, <3>1, <3>2 DEF Untouched, Registered
  <2>6. CASE CheckAllowed(p) \/ Record(p) \/ ReclaimContains(p)
    <3>1. /\ inbox'[p] = <<>> /\ chan'[p] = <<>> /\ registry' = registry
          /\ pc[p] # "idle" /\ pc'[p] # "idle"
          /\ pc'[p] \in {"reclaim", "reclaim_contains", "reclaim_create"} => want[p] \in issued
      BY <1>2, <2>2, <2>6 DEF CheckAllowed, Record, ReclaimContains, Goto, wires, Untouched
    <3> QED BY <1>2, <1>3, <2>2, <3>1 DEF Untouched, Registered
  <2>7. CASE JoinRoom(p)
    <3>1. /\ inbox'[p] = <<>> /\ chan'[p] = <<>> /\ pc[p] # "idle" /\ pc'[p] # "idle"
          /\ pc'[p] \in {"announce", "record_full", "record_missing"}
      BY <2>2, <2>7 DEF JoinRoom, JoinOutcome, Goto, wires
    <3>2. CASE JoinOutcome(registry, want[p]) = "Joined"
      <4>1. pc'[p] = "announce"
        BY <2>7, <3>2 DEF JoinRoom, Goto
      <4> QED BY <1>3, <2>2, <3>1, <4>1 DEF Pending, Asking
    <3>3. CASE JoinOutcome(registry, want[p]) # "Joined"
      <4>1. registry' = registry
        BY <2>7, <3>3 DEF JoinRoom, Join
      <4> QED BY <1>2, <1>3, <2>2, <3>1, <4>1 DEF Untouched, Registered
    <3> QED BY <3>2, <3>3
  <2>8. CASE Refuse(p)
    <3>1. inbox[p] = <<>> /\ chan[p] = <<>> /\ client[p] \notin {"off", "open"}
      BY <2>2, <2>8 DEF Refuse
    <3>2. inbox'[p] = <<>> /\ registry' = registry /\ pc'[p] = "idle"
      BY <2>8, <3>1 DEF Refuse, Goto
    <3>3. Len(chan'[p]) <= 1
      BY <2>8, <3>1 DEF Refuse, SendTo
    <3> QED BY <1>2, <1>3, <3>1, <3>2, <3>3 DEF Untouched, Registered
  <2> QED BY <2>3, <2>4, <2>5, <2>6, <2>7, <2>8
<1> QED BY <1>1, <1>3, <1>5, <1>6, StepUntouched

(* The handler steps of a connection with a place in a room. *)
LEMMA PlacedHandlerStep ==
  ASSUME Inv, NEW p \in Peer,
         SendCreated(p) \/ Announce(p) \/ LookupPartner(p) \/ SendRelay(p)
  PROVE  PendingUntouched' /\ PendingShrinks
<1> USE DEF Inv, TypeOK, TaskType, WireType
<1>1. ~Pending(p)
  <2>1. CASE ~LookupPartner(p)
    BY <2>1, BusyNotPending DEF SendCreated, Announce, SendRelay, Asking
  <2>2. CASE LookupPartner(p)
    <3> SUFFICES ASSUME Pending(p) PROVE FALSE
      OBVIOUS
    <3>1. Untouched(p)
      BY AskingUntouched
    <3>2. /\ inbox[p] \in Seq(Request) /\ chan[p] \in Seq(SignalMsg) /\ inbox[p] # <<>>
          /\ Head(inbox[p]) = "Relay" /\ pc[p] = "idle"
      BY <2>2 DEF LookupPartner, Reads
    <3>3. Len(inbox[p]) = 1 /\ chan[p] = <<>>
      BY <3>1, <3>2, OneMessage DEF Untouched
    <3>4. client[p] \notin {"off", "open"}
      BY <3>1, <3>2 DEF Untouched
    <3>5. \A i \in 1..Len(inbox[p]) : inbox[p][i] = "Relay"
      BY <3>2, <3>3
    <3>6. 1..Len(chan[p]) = {}
      BY <3>3
    <3> QED BY <3>2, <3>4, <3>5, <3>6 DEF Pending, Asking
  <2> QED BY <2>1, <2>2
<1>2. /\ \A q \in Peer \ {p} : Hears(q)
      /\ NotRefused(p)
  <2>1. CASE SendCreated(p)
    <3>1. chan' = SendTo(chan, p, Msg("Created", NoPeer)) /\ "Created" \in Reply \ Refusals
      BY <2>1 DEF SendCreated, Reply, Refusals
    <3> QED BY <3>1, SendToHears DEF Hears
  <2>2. CASE Announce(p)
    <3>1. /\ chan' = SendTo(chan, Partner(registry, p), Msg("PeerJoined", p))
          /\ "PeerJoined" \in Reply \ Refusals
      BY <2>2 DEF Announce, Notify, Reply, Refusals
    <3>2. Partner(registry, p) \in Peer => ~Untouched(Partner(registry, p))
      BY PartnerType, ServerAssumption DEF Untouched
    <3> QED BY <3>1, <3>2, PartnerType, SendToHears DEF Hears
  <2>3. CASE LookupPartner(p)
    BY <2>3 DEF LookupPartner, Hears, NotRefused
  <2>4. CASE SendRelay(p)
    <3>1. /\ chan' = SendTo(chan, to[p], Msg("Relay", p)) /\ "Relay" \in Reply \ Refusals
          /\ to[p] \in Peer \cup {NoPeer}
      BY <2>4 DEF SendRelay, Reply, Refusals
    <3>2. to[p] \in Peer => ~Untouched(to[p])
      BY DEF Untouched
    <3> QED BY <3>1, <3>2, SendToHears DEF Hears
  <2> QED BY <2>1, <2>2, <2>3, <2>4
<1>3. /\ \A q \in Peer \ {p} : Keeps(q)
      /\ registry' = registry /\ leftTo' = leftTo /\ client' = client /\ issued' = issued
      /\ pc'[p] \notin Asking
  BY DEF SendCreated, Announce, LookupPartner, SendRelay, Reads, Goto, Keeps, tasks, tabs,
       history, Asking
<1>4. Targets(p)
  <2>1. CASE LookupPartner(p)
    BY <2>1, <1>3, PartnerType, ServerAssumption DEF LookupPartner, Targets, Registered
  <2>2. CASE SendRelay(p)
    BY <2>2, <1>3, ServerAssumption DEF SendRelay, Targets, Registered
  <2>3. CASE SendCreated(p) \/ Announce(p)
    BY <2>3, <1>3 DEF SendCreated, Announce, Targets, Registered
  <2> QED BY <2>1, <2>2, <2>3
<1>5. \A i \in 1..Len(inbox'[p]) : inbox'[p][i] = "Relay"
  <2>1. \A i \in 1..Len(inbox[p]) : inbox[p][i] = "Relay"
    BY <1>1 DEF Pending
  <2>2. CASE LookupPartner(p)
    <3>1. inbox[p] \in Seq(Request) /\ inbox[p] # <<>> /\ inbox'[p] = Tail(inbox[p])
      BY <2>2 DEF LookupPartner, Reads
    <3>2. /\ Len(Tail(inbox[p])) = Len(inbox[p]) - 1
          /\ \A i \in 1..Len(Tail(inbox[p])) : Tail(inbox[p])[i] = inbox[p][i + 1]
      BY <3>1, HeadTailProperties
    <3>3. \A i \in 1..Len(Tail(inbox[p])) : i + 1 \in 1..Len(inbox[p])
      BY <3>1, <3>2
    <3> QED BY <2>1, <3>1, <3>2, <3>3
  <2>3. CASE ~LookupPartner(p)
    BY <2>1, <2>3 DEF SendCreated, Announce, SendRelay
  <2> QED BY <2>2, <2>3
<1>6. ~Pending(p)'
  BY <1>1, <1>2, <1>3, <1>5, StillNotPending DEF Pending
<1> QED BY <1>2, <1>3, <1>4, <1>6, StepUntouched

(* The end of a connection. *)
LEMMA CleanupStep ==
  ASSUME Inv, NEW p \in Peer,
         RecvEnds(p) \/ SendFails(p) \/ Unregister(p) \/ NotifyLeft(p) \/ DropSender(p)
  PROVE  PendingUntouched' /\ PendingShrinks
<1> USE DEF Inv, TypeOK, TaskType, WireType
<1>1. \A q \in Peer \ {p} : Hears(q)
  <2>1. CASE NotifyLeft(p)
    <3>1. /\ chan' = SendTo(chan, leftTo[p], Msg("PeerLeft", p)) /\ "PeerLeft" \in Reply \ Refusals
          /\ leftTo[p] \in Peer \cup {NoPeer}
      BY <2>1 DEF NotifyLeft, Notify, Reply, Refusals
    <3>2. leftTo[p] \in Peer => ~Untouched(leftTo[p])
      BY DEF Untouched
    <3> QED BY <3>1, <3>2, SendToHears DEF Hears
  <2>2. CASE ~NotifyLeft(p)
    BY <2>2 DEF RecvEnds, SendFails, Unregister, DropSender, wires, Hears, NotRefused
  <2> QED BY <2>1, <2>2
<1>2. /\ \A q \in Peer \ {p} : Keeps(q)
      /\ pc' = pc /\ to' = to /\ client' = client /\ issued' = issued
  BY DEF RecvEnds, SendFails, Unregister, NotifyLeft, DropSender, Keeps, handler, tabs, wires,
       history
<1>3. Targets(p)
  <2>1. CASE Unregister(p)
    <3>1. Registered' \subseteq Registered
      BY <2>1, InvWellFormed, RemoveWellFormed DEF Unregister, Registered
    <3> QED BY <2>1, <1>2, <3>1, PartnerType, ServerAssumption DEF Unregister, Targets
  <2>2. CASE ~Unregister(p)
    BY <2>2, <1>2 DEF RecvEnds, SendFails, NotifyLeft, DropSender, Targets, Registered
  <2> QED BY <2>1, <2>2
<1>4. ~Pending(p)'
  <2>1. CASE RecvEnds(p)
    <3>1. /\ inbox'[p] = <<>> /\ chan'[p] = <<>> /\ pc'[p] = "idle"
          /\ client'[p] \notin {"off", "open"}
      BY <2>1, <1>2 DEF RecvEnds
    <3> QED BY <3>1 DEF Pending, Asking
  <2>2. CASE SendFails(p)
    <3>1. pc[p] \notin Asking
      <4> SUFFICES ASSUME pc[p] \in Asking PROVE FALSE
        OBVIOUS
      <4>1. Untouched(p) /\ pc[p] # "idle"
        BY AskingUntouched DEF Pending, Asking
      <4> QED BY <2>2, <4>1 DEF SendFails, Untouched
    <3>2. inbox'[p] = <<>> /\ chan'[p] = <<>> /\ client'[p] \notin {"off", "open"}
      BY <2>2, <1>2 DEF SendFails
    <3> QED BY <1>2, <3>1, <3>2 DEF Pending
  <2>3. CASE Unregister(p) \/ NotifyLeft(p) \/ DropSender(p)
    <3>1. conn[p] \notin {"off", "up"}
      BY <2>3 DEF Unregister, NotifyLeft, DropSender
    <3>2. ~Pending(p)
      BY <3>1, AskingUntouched DEF Untouched
    <3>3. inbox'[p] = inbox[p] /\ chan'[p] = chan[p]
      BY <2>3, <3>1 DEF Unregister, NotifyLeft, DropSender, Notify, SendTo, wires
    <3> QED BY <1>2, <3>2, <3>3 DEF Pending
  <2> QED BY <2>1, <2>2, <2>3
<1> QED BY <1>1, <1>2, <1>3, <1>4, StepUntouched

(* The steps of the tabs and of send_task. *)
LEMMA ClientStep ==
  ASSUME Inv, NEW p \in Peer,
         \/ Connect(p) \/ ClientOpen(p) \/ ClientRelay(p) \/ Deliver(p)
         \/ \E how \in Losses : ClientLost(p, how)
  PROVE  PendingUntouched' /\ PendingShrinks
<1> USE DEF Inv, TypeOK, TaskType, WireType
<1>1. \A q \in Peer \ {p} : Keeps(q) /\ Hears(q)
  <2>1. CASE Deliver(p)
    <3>1. \A q \in Peer \ {p} : client'[q] = client[q] /\ inbox'[q] = inbox[q]
      BY <2>1 DEF Deliver, Reacts, Sends
    <3> QED BY <2>1, <3>1 DEF Deliver, Keeps, Hears, NotRefused, tasks, handler
  <2>2. CASE ~Deliver(p)
    BY <2>2 DEF Connect, ClientOpen, ClientRelay, ClientLost, Sends, Keeps, Hears, NotRefused,
         tasks, handler, tabs, wires
  <2> QED BY <2>1, <2>2
<1>2. /\ registry' = registry /\ leftTo' = leftTo /\ to' = to /\ pc' = pc
      /\ issued' = issued
  BY DEF Connect, ClientOpen, ClientRelay, Deliver, ClientLost, tasks, handler, history
<1>3. Targets(p)
  BY <1>2, LocalTargets
<1>4. Pending(p)' => Pending(p) /\ Untouched(p)'
  <2>1. CASE Connect(p)
    <3>1. Untouched(p) /\ Pending(p) /\ client[p] = "off"
      BY <2>1, AskingUntouched DEF Connect, Pending
    <3>2. /\ inbox'[p] = inbox[p] /\ chan'[p] = chan[p] /\ want'[p] = want[p]
          /\ client'[p] = "open" /\ conn'[p] = "up"
      BY <2>1 DEF Connect, wires
    <3> QED BY <1>2, <3>1, <3>2 DEF Untouched, Registered
  <2>2. CASE ClientOpen(p)
    <3>1. Untouched(p) /\ Pending(p) /\ client[p] = "open"
      BY <2>2, AskingUntouched DEF ClientOpen, Pending
    <3>2. inbox[p] = <<>> /\ chan[p] = <<>> /\ pc[p] = "idle" /\ conn[p] = "up"
      BY <3>1 DEF Untouched
    <3>3. /\ chan'[p] = <<>> /\ conn' = conn /\ client'[p] = "asking"
          /\ \E x \in {"Create", "Join"} : inbox'[p] = <<x>>
      BY <2>2, <3>2 DEF ClientOpen, Sends, tasks
    <3>4. /\ Len(inbox'[p]) = 1
          /\ \A i \in 1..Len(inbox'[p]) : inbox'[p][i] # "Reclaim"
      BY <3>3
    <3> QED BY <1>2, <3>1, <3>2, <3>3, <3>4 DEF Untouched, Registered
  <2>3. CASE ClientRelay(p)
    <3>1. ~Pending(p)
      BY <2>3, AskingUntouched DEF ClientRelay, Untouched
    <3>2. inbox'[p] = Append(inbox[p], "Relay") /\ client' = client /\ chan' = chan
      BY <2>3 DEF ClientRelay, Sends, tabs
    <3>3. \A i \in 1..Len(inbox'[p]) : inbox'[p][i] = "Relay"
      BY <3>1, <3>2 DEF Pending
    <3> QED BY <1>2, <3>1, <3>2, <3>3 DEF Pending
  <2>4. CASE Deliver(p) /\ ~Pending(p)
    <3>1. chan[p] \in Seq(SignalMsg) /\ chan[p] # <<>> /\ chan'[p] = Tail(chan[p])
      BY <2>4 DEF Deliver
    <3>2. \A i \in 1..Len(chan[p]) : chan[p][i].type \notin Refusals
      BY <2>4 DEF Pending, Refusals
    <3>3. /\ Len(Tail(chan[p])) = Len(chan[p]) - 1
          /\ \A i \in 1..Len(Tail(chan[p])) : Tail(chan[p])[i] = chan[p][i + 1]
      BY <3>1, HeadTailProperties
    <3>4. \A i \in 1..Len(chan'[p]) : chan'[p][i].type \notin Refusals
      <4>1. \A i \in 1..Len(Tail(chan[p])) : i + 1 \in 1..Len(chan[p])
        BY <3>1, <3>3
      <4> QED BY <3>1, <3>2, <3>3, <4>1
    <3>5. Head(chan[p]).type \notin Refusals
      BY <3>1, <3>2
    <3>6. inbox' = inbox /\ client'[p] \notin {"off", "open"}
      BY <2>4, <3>5 DEF Deliver, Reacts, Refusals, Pending
    <3> QED BY <1>2, <2>4, <3>4, <3>6 DEF Pending, Refusals
  <2>5. CASE Deliver(p) /\ Pending(p)
    <3>1. Untouched(p)
      BY <2>5, AskingUntouched
    <3>2. chan[p] \in Seq(SignalMsg) /\ inbox[p] \in Seq(Request) /\ chan[p] # <<>>
      BY <2>5 DEF Deliver
    <3>3. Len(chan[p]) = 1 /\ inbox[p] = <<>> /\ Tail(chan[p]) = <<>>
      BY <3>1, <3>2, OneMessage DEF Untouched
    <3>4. pc[p] = "idle" /\ client[p] \notin {"off", "open"}
      BY <3>1, <3>2 DEF Untouched
    <3>5. Head(chan[p]).type \in Refusals
      <4>1. \E i \in 1..Len(chan[p]) : chan[p][i].type \in Refusals
        BY <2>5, <3>3, <3>4 DEF Pending, Asking, Refusals
      <4> QED BY <3>2, <3>3, <4>1
    <3>6. chan'[p] = <<>> /\ want' = want /\ conn' = conn
      BY <2>5, <3>3 DEF Deliver, tasks
    <3>7. CASE inbox' = inbox
      <4>1. client'[p] \notin {"off", "open"}
        BY <2>5, <3>4, <3>5 DEF Deliver, Reacts, Refusals
      <4> QED BY <1>2, <3>3, <3>4, <3>6, <3>7, <4>1 DEF Pending, Asking
    <3>8. CASE inbox' # inbox
      <4>1. inbox'[p] = <<"Reclaim">> /\ client'[p] = "reclaiming" /\ want[p] \in issued
        BY <2>5, <3>3, <3>5, <3>8 DEF Deliver, Reacts, Refusals, Sends
      <4> QED BY <1>2, <2>5, <3>1, <3>4, <3>6, <4>1 DEF Untouched, Registered
    <3> QED BY <3>7, <3>8
  <2>6. ASSUME NEW how \in Losses, ClientLost(p, how) PROVE Pending(p)' => Pending(p) /\ Untouched(p)'
    <3>1. PICK n \in 0..Len(inbox[p]) : inbox'[p] = SubSeq(inbox[p], 1, n)
      BY <2>6 DEF ClientLost
    <3>2. /\ chan' = chan /\ want' = want /\ conn' = conn /\ client[p] \notin {"off"}
          /\ client'[p] \in {"closed", "vanished"}
      BY <2>6, ServerAssumption DEF ClientLost, Online, tasks
    <3>3. /\ inbox[p] \in Seq(Request) /\ n <= Len(inbox[p]) /\ Len(inbox'[p]) = n
          /\ \A i \in 1..Len(inbox'[p]) : i \in 1..Len(inbox[p]) /\ inbox'[p][i] = inbox[p][i]
      BY <3>1
    <3> SUFFICES ASSUME Pending(p)' PROVE Pending(p) /\ Untouched(p)'
      OBVIOUS
    <3>4. Pending(p)
      BY <1>2, <3>2, <3>3 DEF Pending
    <3>5. Untouched(p)
      BY <3>4, AskingUntouched
    <3>6. inbox[p] = <<>> => inbox'[p] = <<>>
      BY <3>1
    <3>7. Len(inbox'[p]) + Len(chan[p]) <= 1
      BY <3>3, <3>5 DEF Untouched
    <3> QED BY <1>2, <3>2, <3>3, <3>4, <3>5, <3>6, <3>7 DEF Untouched, Registered
  <2> QED BY <2>1, <2>2, <2>3, <2>4, <2>5, <2>6
<1> QED BY <1>1, <1>3, <1>4, StepUntouched

(* Every step keeps pending connections untouched, and makes none pending. *)
LEMMA PendingStep == Inv /\ [Next]_vars => PendingUntouched' /\ PendingShrinks
<1> SUFFICES ASSUME Inv, [Next]_vars PROVE PendingUntouched' /\ PendingShrinks
  OBVIOUS
<1>1. ASSUME UNCHANGED <<registry, tasks, pc, to, wires, tabs, issued>>
      PROVE  PendingUntouched' /\ PendingShrinks
  BY <1>1 DEF Inv, PendingUntouched, PendingShrinks, Pending, Untouched, Registered, tasks, wires, tabs
<1> QED BY <1>1, PendingHandlerStep, PlacedHandlerStep, CleanupStep, ClientStep
        DEF Next, Handler, Cleanup, vars, handler, history

(* Inv is inductive. *)
LEMMA InvStep == Inv /\ [Next]_vars => Inv'
<1> SUFFICES ASSUME Inv, [Next]_vars PROVE Inv'
  OBVIOUS
<1>1. RegistryType' /\ RegistryConsistent'
  <2>1. WellFormed(registry)' /\ \A p \in Registered' : conn'[p] \in {"up", "closing"}
    BY RegistryStep
  <2> QED BY <2>1 DEF RegistryType, RegistryConsistent, WellFormed, Occupancy, Registered
<1> QED BY <1>1, LimiterTypeStep, TaskTypeStep, WireTypeStep, PendingStep DEF Inv, TypeOK

(* The server is type correct, its registry neither leaks a connection nor *)
(* holds a ghost, and no task knows of a pending connection, whatever the  *)
(* interleaving of the handlers with the cleanups of broken connections.   *)
THEOREM ServerInv == Spec => []Inv
  BY InitInv, InvStep, PTL DEF Spec

(* Type correctness. *)
THEOREM ServerTypeOK == Spec => []TypeOK
<1>1. Inv => TypeOK
  BY DEF Inv
<1> QED BY <1>1, ServerInv, PTL

(* The registry never leaks and never holds a ghost (rooms.rs, ws.rs). *)
THEOREM ServerRegistryConsistent == Spec => []RegistryConsistent
<1>1. Inv => RegistryConsistent
  BY DEF Inv
<1> QED BY <1>1, ServerInv, PTL

(* No other task knows of a pending connection (ws.rs 114-142, 189-241). *)
THEOREM ServerPendingUntouched == Spec => []PendingUntouched
<1>1. Inv => PendingUntouched
  BY DEF Inv
<1> QED BY <1>1, ServerInv, PTL

-----------------------------------------------------------------------------
(* The limiter. *)

OfIp(ip) == {p \in Peer : IpOf[p] = ip}
Bounded(ip) == Cardinality(failures[ip]) + Cardinality(InFlight(ip))
                 <= MaxFailures - 1 + Cardinality(OfIp(ip))

(* The requests in flight are at most the connections of the address. *)
LEMMA InFlightFinite ==
  ASSUME NEW ip
  PROVE  /\ IsFiniteSet(InFlight(ip)) /\ IsFiniteSet(OfIp(ip))
         /\ Cardinality(InFlight(ip)) \in Nat /\ Cardinality(OfIp(ip)) \in Nat
         /\ Cardinality(InFlight(ip)) <= Cardinality(OfIp(ip))
<1>1. IsFiniteSet(OfIp(ip))
  BY ServerAssumption, FS_Subset DEF OfIp
<1>2. InFlight(ip) \subseteq OfIp(ip)
  BY DEF InFlight, OfIp
<1> QED BY <1>1, <1>2, FS_Subset, FS_CardinalityType

(* Failures and requests in flight that do not grow keep the bound. *)
LEMMA ShrinkBounded ==
  ASSUME TypeOK, NEW ip \in Ip, Bounded(ip), failures'[ip] \subseteq failures[ip],
         InFlight(ip)' \subseteq InFlight(ip)
  PROVE  Bounded(ip)'
<1>1. /\ Cardinality(failures'[ip]) <= Cardinality(failures[ip])
      /\ Cardinality(failures[ip]) \in Nat /\ Cardinality(failures'[ip]) \in Nat
  BY FS_Subset, FS_CardinalityType DEF TypeOK, LimiterType
<1>2. /\ Cardinality(InFlight(ip)') <= Cardinality(InFlight(ip))
      /\ Cardinality(InFlight(ip)) \in Nat /\ Cardinality(InFlight(ip)') \in Nat
  BY InFlightFinite, FS_Subset, FS_CardinalityType
<1>3. OfIp(ip)' = OfIp(ip) /\ Cardinality(OfIp(ip)) \in Nat
  BY InFlightFinite DEF OfIp
<1> QED BY <1>1, <1>2, <1>3, LimiterAssumption DEF Bounded

(* allowed lets a request through only under the budget. *)
LEMMA AllowedBounded ==
  ASSUME TypeOK, TypeOK', NEW p \in Peer, CheckAllowed(p),
         NEW ip \in Ip, Bounded(ip)
  PROVE  Bounded(ip)'
<1> USE DEF TypeOK, LimiterType, TaskType
<1> DEFINE fs == Prune(failures[IpOf[p]], at[p])
<1>0. IpOf[p] \in Ip
  BY ServerAssumption
<1>1. CASE ip # IpOf[p] \/ ~Allowed(failures[ip], at[p])
  <2>1. failures'[ip] \subseteq failures[ip]
    BY <1>0 DEF CheckAllowed, Prune
  <2>2. InFlight(ip)' \subseteq InFlight(ip)
    BY <1>1 DEF CheckAllowed, Goto, InFlight
  <2> QED BY <2>1, <2>2, ShrinkBounded
<1>2. CASE ip = IpOf[p] /\ Allowed(failures[ip], at[p])
  <2>1. failures'[ip] = fs /\ Cardinality(fs) < MaxFailures /\ Cardinality(fs) \in Nat
    BY <1>0, <1>2, FS_CardinalityType DEF CheckAllowed, Allowed
  <2>2. /\ Cardinality(InFlight(ip)') \in Nat /\ Cardinality(OfIp(ip)') \in Nat
        /\ Cardinality(InFlight(ip)') <= Cardinality(OfIp(ip)')
    <3>1. IsFiniteSet(OfIp(ip)')
      BY InFlightFinite DEF OfIp
    <3>2. InFlight(ip)' \subseteq OfIp(ip)'
      BY DEF InFlight, OfIp
    <3> QED BY <3>1, <3>2, FS_Subset, FS_CardinalityType
  <2> HIDE DEF fs
  <2> QED BY <2>1, <2>2, LimiterAssumption DEF Bounded
<1> QED BY <1>1, <1>2

(* record_failure turns one request in flight into one failure. *)
LEMMA RecordBounded ==
  ASSUME TypeOK, TypeOK', NEW p \in Peer, Record(p), NEW ip \in Ip, Bounded(ip)
  PROVE  Bounded(ip)'
<1> USE DEF TypeOK, LimiterType, TaskType
<1>0. IpOf[p] \in Ip
  BY ServerAssumption
<1>1. CASE ip # IpOf[p]
  <2>1. failures'[ip] = failures[ip]
    BY <1>0, <1>1 DEF Record
  <2>2. InFlight(ip)' \subseteq InFlight(ip)
    BY <1>1 DEF Record, Goto, InFlight
  <2> QED BY <2>1, <2>2, ShrinkBounded
<1>2. CASE ip = IpOf[p]
  <2> DEFINE f == [peer |-> p, why |-> pc[p], at |-> at[p]]
             old == Prune(failures[ip], f.at)
  <2>1. failures'[ip] = old \cup {f}
    BY <1>0, <1>2 DEF Record, RecordFailure
  <2>2. IsFiniteSet(old) /\ Cardinality(old) <= Cardinality(failures[ip])
    BY FS_Subset DEF Prune
  <2>3. /\ Cardinality(old) \in Nat /\ Cardinality(failures[ip]) \in Nat
        /\ Cardinality(old \cup {f}) \in Nat
        /\ Cardinality(old \cup {f}) <= Cardinality(old) + 1
    <3>1. /\ IsFiniteSet(old \cup {f})
          /\ Cardinality(old \cup {f}) = IF f \in old THEN Cardinality(old) ELSE Cardinality(old) + 1
      BY <2>2, FS_AddElement
    <3>2. Cardinality(old) \in Nat
      BY <2>2, FS_CardinalityType
    <3>3. Cardinality(failures[ip]) \in Nat
      BY FS_CardinalityType
    <3> HIDE DEF old, f
    <3> QED BY <3>1, <3>2, <3>3
  <2>4. p \in InFlight(ip) /\ InFlight(ip)' = InFlight(ip) \ {p}
    BY <1>2 DEF Record, Goto, InFlight
  <2>5. /\ Cardinality(InFlight(ip)') = Cardinality(InFlight(ip)) - 1
        /\ Cardinality(InFlight(ip)) \in Nat
    BY <2>4, InFlightFinite, FS_RemoveElement
  <2>6. OfIp(ip)' = OfIp(ip) /\ Cardinality(OfIp(ip)) \in Nat
    BY InFlightFinite DEF OfIp
  <2> HIDE DEF old, f
  <2> QED BY <2>1, <2>2, <2>3, <2>5, <2>6, LimiterAssumption DEF Bounded
<1> QED BY <1>1, <1>2

(* Every step keeps the overdraft bounded. *)
LEMMA OverdraftStep == TypeOK /\ TypeOK' /\ OverdraftBounded /\ [Next]_vars => OverdraftBounded'
<1> SUFFICES ASSUME TypeOK, TypeOK', OverdraftBounded, [Next]_vars, NEW ip \in Ip
             PROVE  Bounded(ip)'
  BY DEF OverdraftBounded, Bounded, OfIp
<1>0. Bounded(ip)
  BY DEF OverdraftBounded, Bounded, OfIp
<1>1. ASSUME failures' = failures, InFlight(ip)' \subseteq InFlight(ip) PROVE Bounded(ip)'
  BY <1>0, <1>1, ShrinkBounded
<1>2. ASSUME failures' = failures, pc' = pc PROVE Bounded(ip)'
  BY <1>1, <1>2 DEF InFlight
<1>3. ASSUME NEW p \in Peer, CheckAllowed(p) PROVE Bounded(ip)'
  BY <1>0, <1>3, AllowedBounded
<1>4. ASSUME NEW p \in Peer, Record(p) PROVE Bounded(ip)'
  BY <1>0, <1>4, RecordBounded
<1>5. ASSUME NEW p \in Peer,
             \/ CreateRoom(p) \/ SendCreated(p) \/ TakeNow(p) \/ JoinRoom(p) \/ Announce(p)
             \/ Refuse(p) \/ ReclaimContains(p) \/ ReclaimCreate(p) \/ LookupPartner(p)
             \/ SendRelay(p)
      PROVE  failures' = failures /\ InFlight(ip)' \subseteq InFlight(ip)
  BY <1>5 DEF CreateRoom, SendCreated, TakeNow, JoinRoom, JoinOutcome, Announce, Refuse,
       ReclaimContains, ReclaimCreate, LookupPartner, SendRelay, Goto, InFlight,
       TypeOK, TaskType
<1>6. ASSUME NEW p \in Peer,
             \/ RecvEnds(p) \/ SendFails(p) \/ Cleanup(p) \/ Connect(p) \/ ClientOpen(p)
             \/ ClientRelay(p) \/ Deliver(p) \/ \E how \in Losses : ClientLost(p, how)
      PROVE  failures' = failures /\ pc' = pc
  BY <1>6 DEF RecvEnds, SendFails, Cleanup, Unregister, NotifyLeft, DropSender, Connect,
       ClientOpen, ClientRelay, Deliver, ClientLost, handler
<1> QED BY <1>1, <1>2, <1>3, <1>4, <1>5, <1>6 DEF Next, Handler, vars, handler

(* However the handlers of its connections interleave, an address never    *)
(* overdraws its budget of failed attempts by more than the requests it    *)
(* can have in flight (ws.rs 191-199 and 212-238, limiter.rs 34-43).       *)
THEOREM ServerOverdraftBounded == Spec => []OverdraftBounded
<1>1. Init => OverdraftBounded
  <2> SUFFICES ASSUME Init, NEW ip \in Ip PROVE Bounded(ip)
    BY DEF OverdraftBounded, Bounded, OfIp
  <2>1. failures[ip] = {} /\ InFlight(ip) = {}
    BY DEF Init, InFlight
  <2>2. Cardinality({}) = 0
    BY FS_EmptySet
  <2> QED BY <2>1, <2>2, InFlightFinite, LimiterAssumption DEF Bounded
<1> QED BY <1>1, OverdraftStep, ServerTypeOK, PTL DEF Spec

=============================================================================
