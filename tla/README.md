# A TLA+ verification of file-send

file-send moves files between two browser tabs over WebRTC. A Rust signaling
server introduces the tabs to each other and never sees a byte of a file. This
directory holds TLA+ models of the server, of the transfer protocol, of the
client's reconnecting socket and of the way two tabs meet and meet again, TLC
configurations that check them on small instances, and TLAPS proofs that hold
for every size of the instance.

Paths below are relative to the root of the repository.

## The system

| Component | Source | State | Operations |
|---|---|---|---|
| Room registry | `crates/server/src/rooms.rs` | `rooms` (room id to a `Vec` of peers), `peer_room` (reverse index) | `create`, `join`, `contains`, `partner`, `remove` |
| Join limiter | `crates/server/src/limiter.rs` | timestamps of failed joins per address | `prune`, `allowed`, `record_failure` |
| Signaling server | `crates/server/src/ws.rs`, messages in `crates/shared/src/lib.rs` | `AppState`: registry, limiter and `senders`, each behind a mutex; per connection a `send_task`, a `recv_task` and the `select!` of `handle_socket` | `Create`, `Join`, `Reclaim`, relay of `Sdp`/`Ice`, cleanup |
| Transfer protocol | `crates/client/src/transfer.rs`, `transfer_state.rs` | `Outgoing` (offered, queue, active, cancelled), `Shared.incoming`, one async task per file being sent, `cur_id` of each receive router | `offer_files`, the control router, `schedule`, `send_file_on_channel`, the receive router, `cancel`, `abort` |
| Transfer rows | `crates/client/src/rows.rs` | the rows of the UI, by id and direction | one function per transition |
| Data-channel protocol | `crates/client/src/protocol.rs` | none | frames, `split_ranges` |
| Application | `crates/client/src/app.rs` | the peer connection, the `Transfer`, `pending`, `next_id` | the mount effect with `build_pc`, `execute`, `wire_ctrl`, `teardown_pc`, `on_open`, `on_disconnect`; user callbacks |
| Session reducer | `crates/client/src/reconnect.rs` | `Session` (`room_in_hash`, `owns`, `reclaim_tried`, `has_pc`) | `step(session, event)` |
| Signaling socket | `crates/client/src/signaling.rs` | socket, `attempt`, pending timeouts | `next_backoff`, `schedule_reconnect`, `reconnect_now`, `onopen`, `onclose`, `online` |
| WebRTC bindings | `crates/client/src/webrtc.rs` | the browser's peer connections | offer, answer, remote description, channels |
| UI, QR, file types, log, server binary | the remaining files | none of their own | I/O and rendering |

**How they interact.** A tab opens a WebSocket and sends `Create` or `Join`.
The server's handlers share the registry, the limiter and `senders` through
three separate mutexes, and many handlers run at once. When a room has two
peers the one who was there is sent `PeerJoined` and offers; the server relays
`Sdp` and `Ice` to the partner it finds in the registry. Once the tabs have a
peer connection they no longer need the server for data: offers, decisions and
cancels travel on a `ctrl` channel, each accepted file on a channel of its own.
When the WebSocket drops, the client tears the peer connection down as well and
reconnects with backoff.

**What is hard.**

- *Server.* Handlers are sequences of critical sections, so every check made
  under one lock can be stale under the next: `contains` before `create`, `join`
  before `partner`, `allowed` before `record_failure`, `remove` before the
  `PeerLeft` it leads to. A handler that has begun runs on when its `recv_task`
  is aborted, concurrently with the cleanup of the same connection.
- *Transfer.* Two tabs, one control stream each way and one stream per file, all
  independent of one another; a task that awaits a slab or a drained buffer finds
  the world changed when it wakes up; both users may cancel at any time; the
  connection may go at any time, noticed or not.
- *Socket.* Timeouts are never cancelled, so several can be pending when the
  `online` event, a failed connect or an orderly close comes in between.
- *Sessions.* A tab that reloads or reconnects races the cleanup of its own old
  socket and the other tab doing the same; descriptions of an earlier handshake
  are relayed to a later one; the server may have forgotten everything.

**What makes each part correct.** The registry leaks nothing and holds no ghost;
a relay reaches only the roommate; every request is settled; roommates are
introduced and told of departures; the failure budget is bounded. What is
downloaded is the file, whole and once, and only if it was accepted; slots are
neither leaked nor idle; accepted files arrive; channels are closed; what the
rows say is true. A closed socket is always retried, a live one never replaced.
A tab that shows Connected is, one that waits can be found, two tabs with one
link meet or say why not, and links survive. `PROJECT.json` lists the hazards line by line with the
properties that would catch them.

## The modules

| Module | Models | Notes |
|---|---|---|
| `Collections` | `HashMap::insert/remove`, `retain` | external, used by several modules |
| `Rooms` | `rooms.rs` | operators on a registry value |
| `JoinLimiter` | `limiter.rs` | operators on the failures of one address |
| `Server` | `ws.rs` and the tabs as its environment | extends both |
| `Matchmaker` | what the server promises, without tasks, locks and channels | abstract; `Server` implements it |
| `MCServer` | instances of `Server` | the symmetry of connections, the pair that liveness watches |
| `Rows` | `rows.rs` | operators on the rows of one direction |
| `Transfer` | `transfer.rs`, `transfer_state.rs`, the callbacks of `app.rs` | extends `Rows` |
| `MCTransfer` | instances of `Transfer` | file sizes |
| `SignalingLink` | what the client's socket promises to the page | abstract; `Socket` implements it, `Rendezvous` is built on it |
| `Socket` | `signaling.rs` | instances are configured directly |
| `Session` | `reconnect.rs` | operators on a session value |
| `Rendezvous` | `app.rs`, `webrtc.rs` and, coarsely, `ws.rs` | composes `Session`, `Rooms` and `SignalingLink` |
| `RoomsProofs`, `ServerProofs`, `MatchProofs` | theorems about the server | each extends the one before |
| `TransferProofs`, `RowProofs` | theorems about the transfer | each extends the one before |
| `SocketProofs` | theorems about the socket | |
| `RendezvousProofs`, `LinkProofs` | theorems about tabs that meet, and that stay connected | each extends the one before; the first `RoomsProofs`, for the facts about the registry |

Definitions keep the names of the code where TLA+ allows it. A definition whose
comment begins with "Mutant" is a deliberately wrong variant of the definition
below it, kept to show that a property notices that mistake; no specification
uses one.

### Server

One step is one critical section: the statement(s) executed under one lock
guard, or a send. `pc[p]` says where connection p's `handle_message` is and
`conn[p]` where its `handle_socket` is. `Reads` takes the next request only while
`conn[p] = "up"`; a handler past that point runs to its end whatever happens to
the connection, because `abort` takes effect at an await and `handle_message`
has none. `Announce` looks up the partner and sends to it in one step: the
registry guard is a temporary of the scrutinee of `if let`, and it lives through
the block (edition 2024 only shortens it to before the `else`). The relay branch
binds the partner with `let` and so has two steps, `LookupPartner` and
`SendRelay`.

A send to a connection whose `send_task` is gone is a no-op. `RecvEnds` and
`SendFails` are the two ways out of the `select!`; `Unregister`, `NotifyLeft` and
`DropSender` are the cleanup. Each connection has a fresh peer id, so p never
comes back. `now_ms` is wall-clock time, read once by a handler; as it may be
set back, `TakeNow` reads any time.

The tabs send what the reducer of `reconnect.rs` sends: `Create` or `Join` on
open, a `Reclaim` after `RoomNotFound` for a room that was handed out by
`Create`, relays while they have a peer connection. A tab may close, or vanish
without a word, at any time, and what it sent last may be lost. Room ids drawn by
`Create` are taken to be fresh; `gen_room_id` draws at random from 31^6.

`last_activity_ms` is written and never read, `reap_idle` is a stub that is not
called, `debug_room_of` only logs; they are left out.

### Transfer

A tab is single-threaded, so an event handler is one step, and an async task
runs from one await to the next in one step. `task[f]` is the await at which
`send_file_on_channel` is for file f: `"opening"` (`await_channel_open`),
`"reading"` (a slab), `"parked"` (`await_buffered_low`). One step sends chunks up
to where the task parks again, needs the next slab, or is done; when the buffer
fills is nondeterministic. `Returns` is everything that follows `send_file`:
closing the channel of a cancelled file or reporting it as fully sent, freeing
the slot and pumping the queue.

A data channel is a FIFO. Closing it discards any end of what is not on the wire
(`SendAndClose`). `link` is the state of the peer connection as a tab sees it:
`"torn"` after `teardown_pc`, `"lost"` when the channels have closed under it,
which nothing in the tab listens for. On a closed channel a `send` throws, and a
task that waits for the buffer may never wake up; both outcomes are modelled.

Chunks are numbers, so that content, order and multiplicity of what is saved are
visible. Byte sizes, names, progress fractions and speeds are not modelled.

### Socket

A callback is one step. `timers` counts the timeouts that will call
`reconnect_now`; they fire in any order and may fire late, so their delays are
recorded (`delay`) and not simulated. `reconnect_now(n, pending)` has the
outcomes of the code: nothing while the socket is open or connecting, a new
socket, or another timeout when the constructor throws. `Online` is the `online`
event. `CloseStarts` is the closing handshake of the other end, during which the
socket is `CLOSING` and no event has fired yet. `next_backoff` keeps the width of
the shifted integer: a shift below the width drops the bits it pushes out, as
`checked_shl` does. The socket that the page connects with on mount is taken to
be constructed; `closed` is never set in the code and is left out.

### Rendezvous

Two tabs, each with its page (socket, `Session`, status, current peer connection
and `Transfer`), every peer connection ever built, and the server. A page step
is one callback: `Opens`, `Delivers` (a message goes through `step` and then
through `execute`, all in one step), `Closes`, `Reconnects`. `Describes` is the
end of the spawned task that creates an offer or an answer, which sends it on
whatever socket is current by then. Peer connections are numbered, and a
description carries the number of the one it is of, so that an answer to an old
offer is told from an answer to the current one: `SetRemote` applies whatever
answer arrives to whatever peer connection is current and has an offer out, as
the code does. `build_pc` does not close the connection it replaces, so an old
one may still open its channel; `CtrlOpens` then sets the status and, on the
answering side, the `Transfer`, as `wire_ctrl` does. On the server each request
is one step (`Handles`) and so is each cleanup (`Cleanup`): the steps in between
are the subject of `Server`. The limiter is taken not to bind.

Users visit the root, a link, or duplicate a tab; they reload, type a code,
press "Start a new room" and leave. Sockets drop, reported or (a machine that
sleeps) not; they are closed in an orderly way; connects fail; the server is
restarted; a peer connection cannot be built. What was on the way to the server
is cut short at any point.

ICE candidates are not modelled: they take the route of the descriptions, and a
pair whose descriptions match is taken to connect.

### The abstract specifications

`SignalingLink` has one variable, the `readyState` of the page's socket: a socket
is replaced only when it is closing or closed, and a closed one is replaced in
the end. `Socket` implements it with the identity mapping (`LinkSpec`), and the
socket of each tab of `Rendezvous` takes its steps from it.

`Matchmaker` has rooms with at most two members and no tasks, locks or channels.
A peer gets a place once; a newcomer is announced at most once, to a member of its
room; a departure is told at most once, to one who shared the room. A room may be
taken over, as `Reclaim` does in the race below. `Server` implements it
(`Matches`): `place` and `members` are read off the registry, `left` and `owes`
off the stage of the cleanup, `told` is the record of announcements.

### Bounds

| Bound | Meaning | Value in the runs, and why it is enough |
|---|---|---|
| `Peer` | connections in the life of the server | 3: the races need two roommates and a newcomer |
| `Room` | room codes | 1: rooms share nothing but the locks |
| `Ip` | source addresses | 1, as behind a NAT, or 2 where the limiter is checked |
| `MaxTime`, `Window` | clock values | 0..1 with window 1 where the limiter is checked: inside and outside the window, forward and back |
| `MaxFailures` | budget of an address | 1 where the limiter is checked, so that two concurrent requests exceed it; 3 for liveness; 9, which never binds, in the violation runs |
| `MaxRelays` | undelivered relays of a connection | 1 or 0 |
| `Losses` | how tabs go | `"vanished"`, which includes what a closed tab does, in the safety run; only `"closed"` for liveness |
| `NumFiles`, `Size`, `Slab` | files, chunks per file, chunks per slab | 2 files of up to 3 chunks with 2-chunk slabs: several slabs, a partial slab, a file that waits, an empty file |
| `MaxConcurrent` | slots | 1, so that a second file must wait; the proofs cover every value |
| `Failures` | failed reads, dropped signaling, lost connections | all in the safety run |
| `Width` | bits of the integer `next_backoff` shifts | 64, as in the code |
| `MaxAttempt` | consecutive failed reconnects | 8: three beyond the cap; 66, beyond the width, in `socket_v_backoff` |
| `MaxTimers` | timeouts pending at a time | 3: two that come late and one that is due |
| `Tab` | tabs | 2: the third that a room refuses is in `Server` |
| `Faults`, `Alone`, `MaxFaults` | mishaps and user actions, those that come together and those that come alone, how many | two of reload, drop and new room in any order, or one of the seven others |
| `Peer`, `Room` of `Rendezvous` | connections and codes in a behaviour | 6 and 5: two more, and one more, than any behaviour with these mishaps needs, so the bound is never met |

`Transfer` is one direction of one connection. The two directions share only the
control channel, on which no message of one direction touches state of the
other.

The runs of `Server`, `Transfer` and `Rendezvous` do not check for deadlock: every
connection of a finite set may have come and gone, every file may be done, and
two tabs may be connected with no mishap left. `Socket` must never stop and its
runs do check.

### Fairness

*Server*: a task that can run is run (tokio), and `recv_task` is told of a socket
that was closed. Nothing is assumed about a tab that vanished, about users, or
about the clock.

*Transfer*: queued events are dispatched, frames in flight on an open connection
arrive, reads complete and buffers drain. Nothing obliges a user to press a
button. The liveness run has no failures: on a connection that breaks, files do
not arrive.

*Socket*: the browser dispatches events and timeouts, and a connect succeeds or
fails in the end. The constructor may throw any number of times but not for
ever: strong fairness of the step that makes a socket. Nothing obliges an open
socket to close or an `online` event to come.

*Rendezvous*: pages, peer connections and the server go on, sockets come back
(what `SignalingLink` promises), and the server hears of the end of every socket
but those of sleeping machines. Users and mishaps are free.

## What is checked

| Run | Shows |
|---|---|
| `server_rooms` | `RegistryConsistent`, `PendingUntouched`, `NoCrosstalk` and the types, for three connections that create, join, reclaim, relay and vanish in every order; `OverdraftBounded`: an address exceeds its budget only by the requests it has in flight |
| `server_live` | `Matches`: the server implements `Matchmaker`; `RoommatesIntroduced`, `RoommateToldOfDeparture`, `RequestSettled` |
| `transfer_safety` | `SavedIsComplete`, `OnlyAccepted`, `SlotsWellUsed`, `SavedMeansDone`, `CancelledSticks` and the types, with every kind of failure |
| `transfer_live` | `AcceptedArrives`, `ChannelReleased`, `SenderRowSettles`, and `DoneMeansSent` on a connection that stays up |
| `socket_reconnect` | `RetryPending`, `BackoffRamps` (up to eight failures), `LinkSpec`: the socket implements `SignalingLink`; `Recovers`: a page that can reach the server is connected again and again |
| `rendezvous_meet` | `ConnectedIsMutual`, `WaitingIsFindable`, `PairMeets`, `LinkKept`, `HandshakeSettles` and the types |

`ConnectedIsMutual`, `WaitingIsFindable` and `PairMeets` speak of states at rest:
no message, task, channel or socket about to do anything. On the way there a tab
may show Connected after its peer has gone, as any system must.

Every property has a mutant in `PROJECT.json` that makes it fail.

### Disagreements found

Each of these is a run that is expected to find a violation; the trace of TLC is
the scenario.

- `server_v_no_eviction`: `Reclaim` checks `contains` and calls `create` under two
  locks, and replaces a room that became live in between. The comment at
  `ws.rs:185` says that occupants are never evicted this way.
- `server_v_one_offerer`: `join` and `partner` are two critical sections; if the
  first roommate leaves and another peer joins in between, both newcomers are
  told `PeerJoined` and both offer. Likewise `PeerLeft` is sent after the registry
  lock is released and can follow the `PeerJoined` of the next roommate, whose
  connection the reader then tears down: neither offers. `app.rs:418` says one
  offers and the other answers.
- `transfer_v_done_sent`: the result of `send_file` is dropped, so a failed send
  ends as `Done` ("fully sent", `ui.rs:63`).
- `transfer_v_stop`: a Cancel pressed before the file's `Start` arrives removes no
  entry; the `Start` makes one afterwards. The row of the file goes back to
  `Active` for good, or the file is downloaded after all (`transfer.rs:135-141`
  says neither happens).
- `socket_v_backoff`: `500 << 62` as a `u64` is 0 and not an overflow to
  `checked_shl`, so the 63rd and 64th consecutive retries come without delay
  (`signaling.rs:18` says a large attempt saturates to the cap). At 15 s a retry
  this takes a quarter of an hour without the server.
- `rendezvous_v_recovers`: when both sockets dropped and the joiner is back before
  the owner has reclaimed the room, the joiner shows RoomNotFound and never tries
  again, while the owner waits. The reconnect design
  (`docs/superpowers/specs/2026-06-03-signaling-reconnect-design.md:125`) says
  they pair again.

Behaviours of the same kind that the properties name rather than report:

- A tab that comes back while the server still holds its old socket is told
  RoomFull by its own ghost and stays there (a dead end of `PairMeets`).
- An offer of an earlier handshake can be relayed to a later partner; its answer
  is applied to the wrong peer connection and the right one is then refused
  (`Crossed` in `PairMeets`).
- An owner whose room still exists when it reclaims it (a quick second reload) is
  refused and ends in RoomNotFound (a dead end of `PairMeets`).
- An `online` event that comes while the socket is `CLOSING` replaces it before
  `onclose`, so `on_disconnect` is not called for that drop and the tab may go on
  showing Connected on a peer connection the other side has closed (`unseen` in
  `Rendezvous`, left out by `Reported`).

`DoneMeansSent` and `CancelledSticks` hold only as far as these findings allow:
the first on a connection without failures, the second until `on_disconnect`
tears the connection down.

## What is proved

The proofs assume only what the modules' `ASSUME`s say: finitely many
connections, each with an address; positive window, budget, slab size and number
of slots; a size for every file. The failure modes and the number of files,
chunks, rooms and connections are arbitrary. Where a theorem needs more (a
connection without failed reads, an integer with bits to spare) its statement
says so, and one of the violation runs shows what happens otherwise.

### Server (`RoomsProofs`, `ServerProofs`, `MatchProofs`)

`ServerInv: Spec => []Inv`, where `Inv` is `TypeOK /\ RegistryConsistent /\
PendingUntouched`. `RegistryConsistent` alone is not inductive: nothing in it
keeps the cleanup of a connection from running while that connection's own
handler is about to register it. `PendingUntouched` supplies the missing fact:
as long as a connection is still asking for a place no other task knows of it,
so nothing is in its outbound channel that could make `send_task` fail. It needs
`RegistryConsistent` in turn, to know that no `partner` call returns such a
connection. It also says that a room about to be reclaimed was issued once, which
is what keeps a later `Create` from drawing the id of a room in use.
`RoomsProofs` has the facts about `create`, `join`, `partner` and `remove` on
their own: whom each puts into and takes out of a room, that in a consistent
registry partners are mutual, and who of two came first. `ServerTypeOK`, `ServerRegistryConsistent` and
`ServerPendingUntouched` are the parts of `ServerInv`. `ServerOverdraftBounded`
is inductive by itself given the types: a request that passes `allowed` found
fewer than `MaxFailures` failures, recording moves it from in flight to
remembered.

`ServerNoCrosstalk` is about the window between `partner` and the send. It adds
two invariants to `Inv`. `RoomsInv`: a peer that was not evicted is in the room
its index entry names, and every room was issued. `RelayInv`: from the moment a
handler has looked up its partner until the relay is read, the two ends are
partners, or one of them has left or was evicted. The lemma `RegistryMoves` reduces
every step to four moves of the registry (nothing, a room opened, a room entered,
a peer removed), and only a peer that is still pending gets a place: so the
partner a handler holds can leave behind its back but never be exchanged for
another.

`ServerImplementsMatchmaker` is the refinement, action by action. The mapping
reads `place` and `members` off the registry, `left` and `owes` off the stage of
the cleanup, and `told` off the record of announcements. `NotesInv` is what the
steps need beyond `Inv`: a peer has been announced only if it is past its
`announce` stage for good, and its departure was told only if its cleanup has
told it; so neither is told twice.

### Transfer (`TransferProofs`, `RowProofs`)

`TransferTypeOK` is inductive by itself. `TransferSlotsWellUsed` needs `Fresh`: a
file whose id is not given out, or that waits for `ctrl` to open, is in no stage
of the sending, so offering it cannot put it in two. The core is a lemma about
`schedule`: from separate stages and at most `MaxConcurrent` taken slots it
reaches a state where the slots are well used, by counting the files it starts.
`TransferSavedIsComplete` rests on `StreamInv`: for every file there is a number b
of frames the receiver has taken, such that what is in flight is frames b, b+1,
... of `Start`, the chunks in order, `End`; a running task goes on exactly where
that ends; and an entry in `incoming` that has not been dropped holds exactly the
chunks before b. A cancel may drop the entry and a close may cut the stream, and
both keep this true. `Start` is frame 0, so a dropped entry is never made again
half-way. `TransferOnlyAccepted` adds `AcceptInv`: an `Accept` on the wire, a
queued file and a started one were accepted. `TransferInvariant` is the
conjunction.

`TransferSavedMeansDone` and `TransferCancelledSticks` are about the rows, which
events of both tabs write. Their invariant (`TransferRowsInvariant`) has three
more parts. `IdInv`: an id is given out once. `OfferInv`: so an offer is read once
and answered once, and a file for which a `Reject` is under way was not accepted;
otherwise a late `Reject` could overwrite the row of a file that is being sent.
`RowInv`: the `End` of a file that is not empty comes only from a task that was not
cancelled, has set its row to Done and has returned, after which no `Cancel` from
the wire touches the row; and, until the connection is torn down, the task of a
Cancelled row has returned or will find its flag set before it reports progress
again. The proof first reduces the actions to a few moves (of the wires, of the
answers, of the rows, of the tasks and of the ends) and then shows that each move
keeps each part.

`TransferDoneWhileLinked`: if no read fails, Done means sent as long as the
sender's connection is neither lost nor torn down, whatever happens to the
receiver's. `TransferDoneMeansSent` is the case without failures, which the run
`transfer_live` checks. The two hypotheses are the two errors that
`send_file` returns and its caller drops, and `transfer_v_done_sent` shows that
they are needed.

### Socket (`SocketProofs`)

`SocketRetryPending`: a closed socket has a timeout
pending, whatever was interleaved. The invariant is `RetryPending` with the types
of `ws` and `timers`; the core is the lemma that `reconnect_now`, called by a
timeout that is thereby used up, either leaves a socket that is not closed or
sets another timeout. `SocketImplementsLink`: every step is a step of
`SignalingLink` or leaves the socket alone.

`SocketTypeOK` includes that no delay is above the cap, for integers of every
width and any number of attempts. `SocketBackoffRamps`: the delay never shrinks from
one failed reconnect to the next if `MaxAttempt + 2 <= Width` and `Width >= 22`.
The invariant (`BackoffInv`) ties the last delay to the attempt it was computed
for. As the SMT backend has no powers of a variable exponent, `next_backoff` is
evaluated attempt by attempt up to 14 and by the bits that are left after that.
With 64 bits the theorem covers 62 failures in a row, and `socket_v_backoff` shows
that the next one breaks it: the hypothesis is as weak as it can be.

### Rendezvous (`RendezvousProofs`)

For any number of tabs, connections, room codes and mishaps, in any order:
`RendezvousWaitingIsFindable` (a tab that waits is registered under the code it
shows), `RendezvousLinkKept` (only its user changes the room of a page) and
`RendezvousTypeOK`. All three come from `RendezvousInvariant: Spec => []MeetInv`.
`WaitingIsFindable` speaks of rest, and says nothing of how one gets there, so
`MeetInv` has to follow a page's request from `onopen` to the reply:

- `SockInv`: connections are numbered in the order they open, each is of one tab,
  nothing is on its way for one that is still to come, and the server registers
  only connections it has not cleaned up.
- `AskInv`: a connection has at most one request for a place under way, and only
  as long as it has no place. This is what makes the `create` of a `Reclaim` or
  `Create` harmless to the index: nobody is registered twice.
- `TellInv`: what is under way between a page and the server agrees. A page asks
  for the room of its URL or, without one, for a new one; it is refused at most
  once, and then it has no place and is not asking; its place is the room of its
  URL, or the `Created` that names it is the very next message it reads. So the
  refused tab that reclaims (`reclaim_tried`) cannot have two answers in flight.
- `WaitInv`: a page that says it waits has its place, is asking for one, or has a
  refusal under way.
- `Types` and `Built`: the types, and that every peer connection a page, a peer
  connection or a message names has been built.

The steps of the pages are first reduced to three moves (a page opens a
connection, reads a reply, quits its connection), those of the server to one
(`Serves`: read a request of c, answer c or notify its partner), and each move is
shown to keep each part. `RoomsProofs` supplies what `create`, `join` and `remove`
do to the index. `Room` is a bound here: `Handles` serves a `Create` only while a
code is left to draw.

### The link between two tabs (`LinkProofs`)

`RendezvousConnectedIsMutual` and `RendezvousPairMeets` say what two pages are to
each other once everything is at rest. Neither says how they get there, and the
code compares nothing on the way: `execute` does not ask which peer connection an
answer is for, the server relays a description to whoever is the partner by
then, and a replaced peer connection is not closed. What keeps this right is the
order in which a connection hears things, so the invariant, `LinkInv`
(`RendezvousLinkInvariant`), is mostly about what is under way:

- `NamedInv`: a description under way is of a peer connection that made it; an
  opened channel joins two peer connections that have each other's descriptions,
  one of which offered.
- `ShownInv`: a page holds a peer connection only on a socket, which has its place
  as long as the server is up; the page shows Connected if and only if that peer
  connection has opened, and its Transfer is of it.
- `StreamInv`: the replies under way to a page fit what it holds (`Flow`: a
  `PeerJoined` finds it without a peer connection, because a `PeerLeft` is read
  before it; offers come before any notice and to a page that makes none) and
  where it sits (`Seat`: if it is alone in its room, a `PeerLeft` follows whatever
  it has of a peer; the first of two was told of the second and holds an offer for
  it, or failed to build one; the second hears of nobody and makes no offer).
  `OfferInv`: only the first of a room offers.
- `OwnInv`: the description of a peer connection that lives (its page holds it, on
  a socket with a place) is under way only from that socket to its partner, and
  behind an offer of it there is no other.
- `StrayInv`: a peer connection that was replaced without being closed had
  answered, its answer was not taken by the one it answered and will not be: the
  `PeerLeft` comes first. This is the case of the missing `close`.
- `BondInv`: if peer connection m has the description of n, which lives and is the
  offering one or has that of m, then m lives at the partner and no offer or
  `PeerLeft` is under way that would part them; or n is about to hear that its peer
  left; or the page of m is gone and the server is yet to find out.
- `PlaceInv`: a page that does not show a refusal has its place, is asking for it,
  or has the refusal under way.
- `HandshakeInv`: between an offering page and its partner the offer is being made,
  is under way, or was not answered because building failed, or the answer is
  being made, is under way, or an answer has arrived.

At rest the boxes are empty, and each disjunct that speaks of something under way
falls away: `BondInv` leaves that m lives at the partner, and `HandshakeInv` that
an answer has arrived. If it is that of the partner, both channels have opened;
if not, that is `Crossed`.

`LinkInv` is proved up to the first socket that is replaced before its `onclose`
(`LinkedInv == unseen \/ LinkInv`): the page then keeps a peer connection its
socket has lost, which is the behaviour that `Reported` leaves out. `MeetInv` is
used in every step. The steps of the pages are again reduced to moves (`Move`:
the peer connections of the other pages and what is under way to them stay as they
are), those of the server to `Tends`; an answer or offer that is read, a
description that is made and a relay are done one by one. `RoomsProofs` supplies
who came first (`First`) and that in this model, where a request is handled in one
step, nobody is evicted (`Seated`).

### Only model-checked

The liveness properties (`RoommatesIntroduced`, `RoommateToldOfDeparture`,
`RequestSettled`, `AcceptedArrives`, `ChannelReleased`, `SenderRowSettles`,
`Recovers`, `HandshakeSettles`), and so the fairness that `SignalingLink` promises:
liveness is out of the prover's reach. Every invariant and every safety action
property that a run checks is also proved.

## Not modelled

- Rows over several connections of one pair: `Transfer` has the rows and one
  connection, `Rendezvous` the connections and no rows. Active rows that a
  `PeerLeft` leaves behind, and ids that start over when the sender reloads, need
  both at once, which is beyond what TLC can enumerate.
- ICE candidates and their failure; browsers that have no session storage; a
  socket that cannot even be constructed on mount.
- `split_ranges` on bytes (the split into chunks and slabs is in `Transfer`),
  `update_speed`.
- WebRTC itself: a pair whose descriptions match connects, with ordered, reliable
  channels.
- Rendering, QR codes, file type icons, logging, static files, and the start-up of
  the server binary: no state of their own.

## Plan

1. Rows over several connections of one pair: a module that composes `Rows` with
   the sequence of connections of `Rendezvous`, abstracted to their order, for the
   two hazards no property covers.
2. The server of `Rendezvous` handles a request in one step; replacing it by
   `Matchmaker`, which `Server` implements, would carry `PairMeets` over to the
   interleavings of `Server`, without the evictions it allows.
