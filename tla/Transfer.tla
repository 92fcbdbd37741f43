------------------------------ MODULE Transfer ------------------------------
(***************************************************************************)
(* Sending files from one tab to another over one peer connection          *)
(* (crates/client/src/transfer.rs and transfer_state.rs, driven by the     *)
(* callbacks of app.rs, shown through rows.rs).  Both tabs can do both;    *)
(* the directions share nothing but the control channel, so the model has  *)
(* a sender "S" and a receiver "R".                                        *)
(*                                                                         *)
(* A tab is single-threaded: an event handler runs to its end, and an      *)
(* async task runs from one await to the next, so those are the steps.     *)
(* The data channels are ordered and reliable each, and independent of one *)
(* another: one FIFO each way for ctrl and one per file.                   *)
(***************************************************************************)
EXTENDS Rows, FiniteSets

CONSTANTS
    NumFiles,       \* bound: files the sender's user picks
    Size,           \* the number of chunks of each file; 0 is an empty file
    Slab,           \* chunks per slab, SLAB_SIZE / CHUNK_SIZE
    MaxConcurrent,  \* MAX_CONCURRENT
    Failures        \* bound: what may go wrong, any of "read", "drop", "lost"

File == 1..NumFiles

ASSUME TransferAssumption ==
    /\ NumFiles \in Nat
    /\ Size \in [File -> Nat]
    /\ Slab \in Nat \ {0} /\ MaxConcurrent \in Nat \ {0}
    /\ Failures \subseteq {"read", "drop", "lost"}

VARIABLES
    link,       \* by side, the tab's peer connection and Transfer handle
    pending,    \* app.rs pending: files picked before ctrl is open
    nextId,     \* app.rs next_id
    offered, queue, active, cancelled,  \* Outgoing
    task,       \* the await at which each file's send_file_on_channel is
    sent,       \* chunks that task has sent
    srow,       \* outgoing rows of the sender's tab
    incoming,   \* Shared.incoming: chunks of the files being received
    cur,        \* files whose receive router has set cur_id
    rrow,       \* incoming rows of the receiver's tab
    toR, toS,   \* ctrl messages in flight to each side
    chan,       \* frames in flight on each file's channel
    dc,         \* state of each file's channel
    saved,      \* history: the contents of each download of a file
    accepted,   \* history: files the receiver's user accepted
    stopped     \* history: files whose Cancel button either user pressed

picks == <<pending, nextId>>
outgoing == <<offered, queue, active, cancelled>>
tasks == <<task, sent>>
receiver == <<incoming, cur, saved>>
rows == <<srow, rrow>>
ctrl == <<toR, toS>>
files == <<chan, dc>>
users == <<accepted, stopped>>
vars == <<link, picks, outgoing, tasks, receiver, rows, ctrl, files, users>>

-----------------------------------------------------------------------------
(* "new": ctrl not open yet.  "open".  "lost": the channels have closed,   *)
(* which nothing in the tab listens for.  "torn": teardown_pc has closed   *)
(* the connection and dropped the Transfer.                                *)
LinkState == {"new", "open", "lost", "torn"}

(* Waiting in await_channel_open, for a slab, or in await_buffered_low. *)
Running == {"opening", "reading", "parked"}
TaskState == Running \cup {"none", "returned"}

Control == [type : {"Offer", "Abort", "Accept", "Reject", "Cancel"}, id : File]
Ctl(type, id) == [type |-> type, id |-> id]

(* The frames of a file's channel: Start, the chunks by number, End. *)
Start == [type |-> "Start", chunk |-> 0]
Chunk(i) == [type |-> "Chunk", chunk |-> i]
End == [type |-> "End", chunk |-> 0]
Frame == [type : {"Start", "Chunk", "End"}, chunk : Nat]
Chunks(m, n) == [i \in 1..(n - m) |-> Chunk(m + i)]

Init ==
    /\ link = [S |-> "new", R |-> "open"]
    /\ pending = <<>> /\ nextId = 1
    /\ offered = {} /\ queue = <<>> /\ active = {} /\ cancelled = {}
    /\ task = [f \in File |-> "none"] /\ sent = [f \in File |-> 0]
    /\ srow = NoRows /\ rrow = NoRows
    /\ incoming = [f \in {} |-> <<>>] /\ cur = {}
    /\ toR = <<>> /\ toS = <<>>
    /\ chan = [f \in File |-> <<>>] /\ dc = [f \in File |-> "none"]
    /\ saved = [f \in File |-> <<>>]
    /\ accepted = {} /\ stopped = {}

(* ctrl.send_with_str, whose error is ignored.  What is sent to a side     *)
(* that is gone stays undelivered.                                         *)
Ctrl(side, wire, ms) == IF link[side] = "open" THEN wire \o ms ELSE wire

-----------------------------------------------------------------------------
(* The sender's tab: its user and its control router.                      *)

Offers(batch) == [i \in 1..Len(batch) |-> Ctl("Offer", batch[i])]
Ids(batch) == {batch[i] : i \in 1..Len(batch)}

(* offer_files. *)
offer_files(batch) ==
    /\ toR' = Ctrl("S", toR, Offers(batch))
    /\ offered' = offered \cup Ids(batch)

(* Mutant: the first id is 0, which is no id of this model. *)
NewIdsFromZero(n) == [i \in 1..n |-> nextId + i - 2]

(* next_id.get() and next_id.set(id + 1) for each file of a batch. *)
NewIds(n) == [i \in 1..n |-> nextId + i - 1]

(* on_files: rows at once; offers now if ctrl is open, else queued. *)
OnFiles(n) ==
    LET batch == NewIds(n)
        shown == push_outgoing_pending(srow, Ids(batch))
    IN
    /\ nextId + n - 1 <= NumFiles
    /\ nextId' = nextId + n
    /\ IF link["S"] = "open"
       THEN /\ offer_files(batch)
            /\ srow' = mark_offered(shown, Ids(batch))
            /\ UNCHANGED pending
       ELSE /\ pending' = pending \o batch
            /\ srow' = shown
            /\ UNCHANGED <<toR, offered>>
    /\ UNCHANGED <<link, queue, active, cancelled, tasks, receiver, rrow, toS, files, users>>

(* The onopen of wire_ctrl: drain pending into offers.  The receiver's end *)
(* opens at its own time; until it has, the offers wait in toR.            *)
CtrlOpens ==
    /\ link["S"] = "new"
    /\ link' = [link EXCEPT !["S"] = "open"]
    /\ pending' = <<>>
    /\ toR' = toR \o Offers(pending)
    /\ offered' = offered \cup Ids(pending)
    /\ srow' = mark_offered(srow, Ids(pending))
    /\ UNCHANGED <<nextId, queue, active, cancelled, tasks, receiver, rrow, toS, files, users>>

(* Mutant: active.len() <= max. *)
StartableOneMore(q, act) ==
    LET free == IF Cardinality(act) <= MaxConcurrent
                THEN MaxConcurrent + 1 - Cardinality(act) ELSE 0
    IN  IF Len(q) <= free THEN Len(q) ELSE free

(* transfer_state::schedule on the queue q, with the slots in act taken:   *)
(* how many it starts, and the task of each, which creates its channel.    *)
(* On a connection that is gone create_data_channel throws or the channel  *)
(* never opens; either way that task is not heard of again.                *)
Startable(q, act) ==
    LET free == IF Cardinality(act) < MaxConcurrent
                THEN MaxConcurrent - Cardinality(act) ELSE 0
    IN  IF Len(q) <= free THEN Len(q) ELSE free

Started(q, act) == {q[i] : i \in 1..Startable(q, act)}

schedule(q, act, tsk) ==
    /\ queue' = SubSeq(q, Startable(q, act) + 1, Len(q))
    /\ active' = act \cup Started(q, act)
    /\ task' = [f \in File |-> IF f \in Started(q, act) THEN "opening" ELSE tsk[f]]

(* cancel_outgoing. *)
cancel_outgoing(f) ==
    /\ offered' = offered \ {f}
    /\ queue' = Retain(queue, f)
    /\ cancelled' = cancelled \cup {f}

(* The control router of the sender. *)
ReadsS(type, f) ==
    /\ link["S"] = "open"
    /\ toS # <<>> /\ Head(toS) = Ctl(type, f)
    /\ toS' = Tail(toS)

(* enqueue_accepted. *)
enqueue_accepted(f) == IF f \in offered THEN Append(queue, f) ELSE queue

OnAccept(f) ==
    /\ ReadsS("Accept", f)
    /\ offered' = offered \ {f}
    /\ schedule(enqueue_accepted(f), active, task)
    /\ UNCHANGED <<link, picks, cancelled, sent, receiver, rows, toR, files, users>>

OnReject(f) ==
    /\ ReadsS("Reject", f)
    /\ offered' = offered \ {f}
    /\ srow' = mark_rejected(srow, f)
    /\ UNCHANGED <<link, picks, queue, active, cancelled, tasks, receiver, rrow, toR, files, users>>

(* Mutant: on_cancelled is not called. *)
OnCancelNoRow(f) ==
    /\ ReadsS("Cancel", f)
    /\ cancel_outgoing(f)
    /\ UNCHANGED <<link, picks, active, tasks, receiver, rows, toR, files, users>>

OnCancel(f) ==
    /\ ReadsS("Cancel", f)
    /\ cancel_outgoing(f)
    /\ srow' = mark_cancelled_remote(srow, f)
    /\ UNCHANGED <<link, picks, active, tasks, receiver, rrow, toR, files, users>>

(* Transfer::abort, if there is still a Transfer. *)
abort(f) ==
    /\ IF link["S"] = "torn" THEN UNCHANGED <<offered, queue, cancelled>>
       ELSE cancel_outgoing(f)
    /\ toR' = Ctrl("S", toR, <<Ctl("Abort", f)>>)

(* on_cancel_send: the Cancel button of an Active outgoing row. *)
UserAborts(f) ==
    /\ f \in DOMAIN srow /\ srow[f] = "Active"
    /\ abort(f)
    /\ srow' = mark_cancelled_remote(srow, f)
    /\ stopped' = stopped \cup {f}
    /\ UNCHANGED <<link, picks, active, tasks, receiver, rrow, toS, files, accepted>>

-----------------------------------------------------------------------------
(* send_file_on_channel, one task per active file.                         *)

(* Frames handed to a channel, and a channel closed by the sender, which   *)
(* discards what is not on the wire yet.                                   *)
Send(f, frames) == chan' = [chan EXCEPT ![f] = @ \o frames]

SendAndClose(f, frames) ==
    \E k \in 0..Len(chan[f] \o frames) :
        chan' = [chan EXCEPT ![f] = SubSeq(@ \o frames, 1, k)]

(* Mutant: the queue is not pumped when a slot is freed. *)
ReturnsNoPump(f, frames) ==
    /\ cancelled' = cancelled \ {f}
    /\ srow' = IF f \in cancelled THEN srow ELSE send_progress(srow, f, Size[f], Size[f])
    /\ Send(f, frames)
    /\ dc' = [dc EXCEPT ![f] = IF f \in cancelled THEN "closed" ELSE "open"]
    /\ active' = active \ {f}
    /\ task' = [task EXCEPT ![f] = "returned"]
    /\ UNCHANGED queue

(* After send_file has put its last frames on the channel and returned, Ok *)
(* or Err: a cancelled file's channel is closed, any other file is shown   *)
(* as fully sent; the slot is freed and the queue pumped.                  *)
Returns(f, frames) ==
    /\ IF f \in cancelled
       THEN /\ cancelled' = cancelled \ {f}
            /\ SendAndClose(f, frames)
            /\ dc' = [dc EXCEPT ![f] = "closed"]
            /\ UNCHANGED srow
       ELSE /\ srow' = send_progress(srow, f, Size[f], Size[f])
            /\ Send(f, frames)
            /\ dc' = [dc EXCEPT ![f] = "open"]
            /\ UNCHANGED cancelled
    /\ schedule(queue, active \ {f}, [task EXCEPT ![f] = "returned"])

(* The channel opens: Start, then the first slab is awaited unless the     *)
(* file was cancelled meanwhile; an empty file has no slab and no check.   *)
ChannelOpens(f) ==
    /\ task[f] = "opening" /\ link["S"] = "open"
    /\ \/ Size[f] = 0 /\ Returns(f, <<Start, End>>)
       \/ Size[f] > 0 /\ f \in cancelled /\ Returns(f, <<Start>>)
       \/ /\ Size[f] > 0 /\ f \notin cancelled
          /\ Send(f, <<Start>>)
          /\ dc' = [dc EXCEPT ![f] = "open"]
          /\ task' = [task EXCEPT ![f] = "reading"]
          /\ UNCHANGED <<queue, active, cancelled, srow>>
    /\ UNCHANGED <<link, picks, offered, sent, receiver, rrow, ctrl, users>>

(* The end of the slab that chunk m + 1 is in. *)
SlabEnd(f, m) ==
    LET e == (m \div Slab + 1) * Slab IN IF e <= Size[f] THEN e ELSE Size[f]

(* The inner loop sends the chunks up to n and then parks because the      *)
(* buffer is full, awaits the next slab, or sends End and returns.         *)
Streams(f, n) ==
    LET frames == Chunks(sent[f], n) IN
    /\ sent' = [sent EXCEPT ![f] = n]
    /\ \/ n = Size[f] /\ Returns(f, Append(frames, End))
       \/ /\ n < Size[f]
          /\ Send(f, frames)
          /\ srow' = IF n = sent[f] THEN srow ELSE send_progress(srow, f, n, Size[f])
          /\ task' = [task EXCEPT ![f] = IF n = SlabEnd(f, sent[f]) THEN "reading" ELSE "parked"]
          /\ UNCHANGED <<queue, active, cancelled, dc>>

(* A slab has been read: the cancelled flag is checked before every chunk, *)
(* but only an await can let it change.  On a closed channel send throws.  *)
SlabRead(f) ==
    /\ task[f] = "reading"
    /\ \/ f \in cancelled /\ Returns(f, <<>>) /\ UNCHANGED sent
       \/ /\ f \notin cancelled /\ link["S"] = "open"
          /\ \E n \in sent[f]..SlabEnd(f, sent[f]) : Streams(f, n)
       \/ /\ f \notin cancelled /\ link["S"] # "open"
          /\ Returns(f, <<>>) /\ UNCHANGED sent
       \/ /\ f \notin cancelled /\ link["S"] # "open"
          /\ task' = [task EXCEPT ![f] = "parked"]
          /\ UNCHANGED <<queue, active, cancelled, srow, sent, files>>
    /\ UNCHANGED <<link, picks, offered, receiver, rrow, ctrl, users>>

(* The read fails: the ? of send_file returns Err, which is ignored. *)
ReadFails(f) ==
    /\ "read" \in Failures
    /\ task[f] = "reading"
    /\ Returns(f, <<>>)
    /\ UNCHANGED <<link, picks, offered, sent, receiver, rrow, ctrl, users>>

(* Mutant: no second look at the cancelled flag after the await. *)
BufferLowUnchecked(f) ==
    /\ task[f] = "parked" /\ link["S"] = "open"
    /\ \E n \in (sent[f] + 1)..SlabEnd(f, sent[f]) : Streams(f, n)
    /\ UNCHANGED <<link, picks, offered, receiver, rrow, ctrl, users>>

(* bufferedamountlow: the flag is checked again, then at least the chunk   *)
(* that was held back goes out.                                            *)
BufferLow(f) ==
    /\ task[f] = "parked"
    /\ \/ f \in cancelled /\ Returns(f, <<>>) /\ UNCHANGED sent
       \/ /\ f \notin cancelled /\ link["S"] = "open"
          /\ \E n \in (sent[f] + 1)..SlabEnd(f, sent[f]) : Streams(f, n)
       \/ /\ f \notin cancelled /\ link["S"] # "open"
          /\ Returns(f, <<>>) /\ UNCHANGED sent
    /\ UNCHANGED <<link, picks, offered, receiver, rrow, ctrl, users>>

Task(f) == ChannelOpens(f) \/ SlabRead(f) \/ BufferLow(f)

-----------------------------------------------------------------------------
(* The receiver's tab: control router, receive routers and user.           *)

ReadsR(type, f) ==
    /\ link["R"] = "open"
    /\ toR # <<>> /\ Head(toR) = Ctl(type, f)
    /\ toR' = Tail(toR)

OnOffer(f) ==
    /\ ReadsR("Offer", f)
    /\ rrow' = incoming_offer(rrow, f)
    /\ UNCHANGED <<link, picks, outgoing, tasks, receiver, srow, toS, files, users>>

(* The sender aborted: forget what has arrived. *)
OnAbort(f) ==
    /\ ReadsR("Abort", f)
    /\ incoming' = Drop(incoming, f)
    /\ rrow' = cancel(rrow, f)
    /\ UNCHANGED <<link, picks, outgoing, tasks, cur, saved, srow, toS, files, users>>

Receives(f, type) ==
    /\ link["R"] = "open"
    /\ chan[f] # <<>> /\ Head(chan[f]).type = type
    /\ chan' = [chan EXCEPT ![f] = Tail(@)]

(* Start: entry(id).or_default().meta.get_or_insert(meta). *)
RecvStart(f) ==
    /\ Receives(f, "Start")
    /\ cur' = cur \cup {f}
    /\ incoming' = IF f \in DOMAIN incoming THEN incoming ELSE Put(incoming, f, <<>>)
    /\ UNCHANGED <<link, picks, outgoing, tasks, saved, rows, ctrl, dc, users>>

(* Mutant: a chunk of a cancelled file makes a new entry. *)
RecvChunkOrDefault(f) ==
    /\ Receives(f, "Chunk")
    /\ incoming' = Put(incoming, f, Append(IF f \in DOMAIN incoming THEN incoming[f] ELSE <<>>,
                                           Head(chan[f]).chunk))
    /\ rrow' = recv_progress(rrow, f)
    /\ UNCHANGED <<link, picks, outgoing, tasks, cur, saved, srow, ctrl, dc, users>>

(* A chunk of a file without an entry is ignored. *)
RecvChunk(f) ==
    /\ Receives(f, "Chunk")
    /\ IF f \in cur /\ f \in DOMAIN incoming
       THEN /\ incoming' = [incoming EXCEPT ![f] = Append(@, Head(chan[f]).chunk)]
            /\ rrow' = recv_progress(rrow, f)
       ELSE UNCHANGED <<incoming, rrow>>
    /\ UNCHANGED <<link, picks, outgoing, tasks, cur, saved, srow, ctrl, dc, users>>

(* finalize_recv: the entry goes, its chunks are downloaded. *)
finalize_recv(f) ==
    IF f \in DOMAIN incoming
    THEN /\ saved' = [saved EXCEPT ![f] = Append(@, incoming[f])]
         /\ incoming' = Drop(incoming, f)
         /\ rrow' = recv_complete(rrow, f)
    ELSE UNCHANGED <<incoming, saved, rrow>>

(* Mutant: finalize_recv's early return skips the close. *)
RecvEndNoClose(f) ==
    /\ Receives(f, "End")
    /\ finalize_recv(f)
    /\ dc' = IF f \in DOMAIN incoming THEN [dc EXCEPT ![f] = "closed"] ELSE dc
    /\ UNCHANGED <<link, picks, outgoing, tasks, cur, srow, ctrl, users>>

(* End: finalize, and close the channel in any case. *)
RecvEnd(f) ==
    /\ Receives(f, "End")
    /\ IF f \in cur THEN finalize_recv(f) ELSE UNCHANGED <<incoming, saved, rrow>>
    /\ dc' = [dc EXCEPT ![f] = "closed"]
    /\ UNCHANGED <<link, picks, outgoing, tasks, cur, srow, ctrl, users>>

(* on_accept. *)
UserAccepts(f) ==
    /\ f \in pending_incoming_ids(rrow)
    /\ toS' = Ctrl("R", toS, <<Ctl("Accept", f)>>)
    /\ rrow' = accept(rrow, f)
    /\ accepted' = accepted \cup {f}
    /\ UNCHANGED <<link, picks, outgoing, tasks, receiver, srow, toR, files, stopped>>

(* on_accept_all: the button is there from two offers on.  Rows are in the *)
(* order of the offers, which is that of the ids.                          *)
InOrder(ids) ==
    {s \in [1..Cardinality(ids) -> ids] : \A i, j \in DOMAIN s : i < j => s[i] < s[j]}

UserAcceptsAll ==
    LET ids == pending_incoming_ids(rrow) IN
    /\ Cardinality(ids) >= 2
    /\ \E s \in InOrder(ids) :
          toS' = Ctrl("R", toS, [i \in 1..Len(s) |-> Ctl("Accept", s[i])])
    /\ rrow' = accept_all(rrow, ids)
    /\ accepted' = accepted \cup ids
    /\ UNCHANGED <<link, picks, outgoing, tasks, receiver, srow, toR, files, stopped>>

(* Mutant: Accept is sent in the place of Reject. *)
UserDeclinesSwapped(f) ==
    /\ f \in pending_incoming_ids(rrow)
    /\ toS' = Ctrl("R", toS, <<Ctl("Accept", f)>>)
    /\ rrow' = decline(rrow, f)
    /\ UNCHANGED <<link, picks, outgoing, tasks, receiver, srow, toR, files, users>>

(* on_decline. *)
UserDeclines(f) ==
    /\ f \in pending_incoming_ids(rrow)
    /\ toS' = Ctrl("R", toS, <<Ctl("Reject", f)>>)
    /\ rrow' = decline(rrow, f)
    /\ UNCHANGED <<link, picks, outgoing, tasks, receiver, srow, toR, files, users>>

(* Transfer::cancel, if there is still a Transfer. *)
CancelDownload(f) ==
    /\ toS' = Ctrl("R", toS, <<Ctl("Cancel", f)>>)
    /\ incoming' = IF link["R"] = "torn" THEN incoming ELSE Drop(incoming, f)

(* on_cancel: the Cancel button of an Active incoming row. *)
UserCancels(f) ==
    /\ f \in DOMAIN rrow /\ rrow[f] = "Active"
    /\ CancelDownload(f)
    /\ rrow' = cancel(rrow, f)
    /\ stopped' = stopped \cup {f}
    /\ UNCHANGED <<link, picks, outgoing, tasks, cur, saved, srow, toR, files, accepted>>

-----------------------------------------------------------------------------
(* The connection.                                                         *)

(* on_disconnect: the socket to the server dropped; Active rows become     *)
(* Cancelled and the peer connection is closed, healthy or not.            *)
Disconnects(side) ==
    /\ "drop" \in Failures
    /\ link[side] \in {"open", "lost"}
    /\ link' = [link EXCEPT ![side] = "torn"]
    /\ srow' = IF side = "S" THEN mark_all_active_cancelled(srow) ELSE srow
    /\ rrow' = IF side = "R" THEN mark_all_active_cancelled(rrow) ELSE rrow
    /\ UNCHANGED <<picks, outgoing, tasks, receiver, ctrl, files, users>>

(* PeerLeft: the reducer's TeardownPc.  The rows stay as they are. *)
PeerLeft(side) ==
    /\ "drop" \in Failures
    /\ link[side] \in {"open", "lost"}
    /\ link' = [link EXCEPT ![side] = "torn"]
    /\ UNCHANGED <<picks, outgoing, tasks, receiver, rows, ctrl, files, users>>

(* The other side closed the connection, or the path between them died. *)
LinkLost(side) ==
    /\ "lost" \in Failures
    /\ link[side] = "open"
    /\ link' = [link EXCEPT ![side] = "lost"]
    /\ UNCHANGED <<picks, outgoing, tasks, receiver, rows, ctrl, files, users>>

CtrlS(f) == OnAccept(f) \/ OnReject(f) \/ OnCancel(f)
CtrlR(f) == OnOffer(f) \/ OnAbort(f)
Frames(f) == RecvStart(f) \/ RecvChunk(f) \/ RecvEnd(f)

Next ==
    \/ \E n \in File : OnFiles(n)
    \/ CtrlOpens
    \/ UserAcceptsAll
    \/ \E f \in File :
          \/ CtrlS(f) \/ UserAborts(f) \/ Task(f) \/ ReadFails(f)
          \/ CtrlR(f) \/ Frames(f)
          \/ UserAccepts(f) \/ UserDeclines(f) \/ UserCancels(f)
    \/ \E side \in {"S", "R"} : Disconnects(side) \/ PeerLeft(side) \/ LinkLost(side)

Spec == Init /\ [][Next]_vars

(* The browser dispatches every event it has queued, and delivers what is  *)
(* in flight while both ends are open; reads complete and buffers drain.   *)
(* No user is ever obliged to press a button.                              *)
Fairness ==
    /\ WF_vars(CtrlOpens)
    /\ \A f \in File : /\ WF_vars(CtrlS(f)) /\ WF_vars(CtrlR(f))
                       /\ WF_vars(Task(f)) /\ WF_vars(Frames(f))

FairSpec == Spec /\ Fairness

-----------------------------------------------------------------------------
(* Properties.                                                             *)

SenderType ==
    /\ pending \in Seq(File) /\ nextId \in Nat \ {0}
    /\ offered \subseteq File /\ queue \in Seq(File)
    /\ active \subseteq File /\ cancelled \subseteq File
    /\ task \in [File -> TaskState] /\ sent \in [File -> Nat]
    /\ \A f \in File : sent[f] <= Size[f]
    /\ DOMAIN srow \subseteq File /\ \A f \in DOMAIN srow : srow[f] \in TransferState

ReceiverType ==
    /\ DOMAIN incoming \subseteq File /\ \A f \in DOMAIN incoming : incoming[f] \in Seq(Nat)
    /\ cur \subseteq File /\ saved \in [File -> Seq(Seq(Nat))]
    /\ DOMAIN rrow \subseteq File /\ \A f \in DOMAIN rrow : rrow[f] \in TransferState

WireType ==
    /\ link \in [{"S", "R"} -> LinkState]
    /\ toR \in Seq(Control) /\ toS \in Seq(Control)
    /\ chan \in [File -> Seq(Frame)]
    /\ dc \in [File -> {"none", "open", "closed"}]
    /\ accepted \subseteq File /\ stopped \subseteq File

(* Every variable has the type the program declares for it. *)
TypeOK == SenderType /\ ReceiverType /\ WireType

Queued == {queue[i] : i \in 1..Len(queue)}

(* The concurrency slots are neither leaked nor overbooked nor idle: a     *)
(* slot is taken exactly while a task runs, no more than MaxConcurrent     *)
(* are, a file waits in the queue only while all are taken, and a file is  *)
(* offered, queued or streaming, never two of these and never queued       *)
(* twice, so it is never streamed twice.  (schedule and cancel_outgoing,   *)
(* transfer_state.rs 61-77, as called at transfer.rs 174-185 and 315-323.) *)
SlotsWellUsed ==
    /\ active = {f \in File : task[f] \in Running}
    /\ Cardinality(active) <= MaxConcurrent
    /\ queue # <<>> => Cardinality(active) = MaxConcurrent
    /\ \A i, j \in 1..Len(queue) : queue[i] = queue[j] => i = j
    /\ Queued \cap active = {} /\ offered \cap (Queued \cup active) = {}
    /\ \A f \in Queued \cup offered : task[f] = "none"

(* What is downloaded is the file: all its chunks in order, once, whatever *)
(* was cancelled, aborted, cut off or torn down meanwhile.  (Routers of    *)
(* transfer.rs 209-268 and finalize_recv 484-508.)                         *)
SavedIsComplete ==
    \A f \in File :
        /\ Len(saved[f]) <= 1
        /\ \A i \in 1..Len(saved[f]) : saved[f][i] = [j \in 1..Size[f] |-> j]

(* Nothing is streamed or saved that the receiving user did not accept.    *)
(* (Control router, transfer.rs 174-184.)                                  *)
OnlyAccepted ==
    \A f \in File : task[f] # "none" \/ f \in Queued \/ saved[f] # <<>> => f \in accepted

(* Whenever the receiver has saved a file that is not empty, the sender's  *)
(* row says Done and keeps saying so: no Cancel that crosses End on the    *)
(* wire turns it into Cancelled.  (rows.rs 166-172, transfer.rs 299-314.)  *)
SavedMeansDone ==
    \A f \in File : saved[f] # <<>> /\ Size[f] > 0 => f \in DOMAIN srow /\ srow[f] = "Done"

(* An outgoing row that says Done belongs to a file of which every chunk   *)
(* was handed to the channel.  (ui.rs 63: "fully sent (outgoing)".)        *)
DoneMeansSent ==
    \A f \in DOMAIN srow : srow[f] = "Done" => sent[f] = Size[f]

(* A Cancelled outgoing row stays Cancelled while the connection is kept:  *)
(* no task that was parked or reading when the cancel came reports         *)
(* progress over it.  (The checks of is_cancelled, transfer.rs 299, 407,   *)
(* 422 and 440.)                                                           *)
CancelledSticks ==
    [][\A f \in DOMAIN srow :
          srow[f] = "Cancelled" /\ link["S"] # "torn" => srow'[f] = "Cancelled"]_vars

(* An accepted file arrives, unless one of the users cancels it: no queued *)
(* file is forgotten, no task sleeps for ever.  (Pumping of the queue,     *)
(* transfer.rs 315-323; await_buffered_low 460-472.)                       *)
AcceptedArrives ==
    \A f \in File : f \in accepted ~> (saved[f] # <<>> \/ f \in stopped)

(* Every file channel gets closed, by the receiver after End or by the     *)
(* sender after a cancel, also when the two cross.  (transfer.rs 235-243   *)
(* and 299-314.)                                                           *)
ChannelReleased == \A f \in File : dc[f] = "open" ~> dc[f] = "closed"

(* The sender's row of an accepted file ends as Done or Cancelled, also    *)
(* when the receiver cancels while the file waits in the queue.            *)
(* (cancel_outgoing with mark_cancelled_remote, transfer.rs 189-192.)      *)
SenderRowSettles ==
    \A f \in File : f \in accepted ~> (f \in DOMAIN srow /\ srow[f] \in {"Done", "Cancelled"})

(* A cancel is final for the receiver: "no download is triggered", and     *)
(* "any late chunk on the wire" is "a no-op" (transfer.rs 135-141), so once*)
(* the channel is closed and nothing is in flight the row of the file does *)
(* not claim that bytes are flowing.                                       *)
StopIsFinal ==
    \A f \in stopped :
        /\ saved[f] = <<>>
        /\ dc[f] = "closed" /\ chan[f] = <<>> /\ toR = <<>> /\ toS = <<>> => rrow[f] # "Active"

=============================================================================
