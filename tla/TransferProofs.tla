--------------------------- MODULE TransferProofs ---------------------------
(***************************************************************************)
(* Proofs about the transfer protocol, for any number of files of any      *)
(* size, any slab size and any number of slots, with every failure the     *)
(* model knows.                                                            *)
(***************************************************************************)
EXTENDS Transfer, FiniteSetTheorems, SequenceTheorems, TLAPS

(* A table of rows, as both tabs keep it. *)
RowsOK(r) == DOMAIN r \subseteq File /\ \A f \in DOMAIN r : r[f] \in TransferState

(* An operation on one row keeps a table of rows one. *)
LEMMA RowKeepsType ==
  ASSUME NEW r, RowsOK(r), NEW f \in File
  PROVE  /\ RowsOK(incoming_offer(r, f)) /\ RowsOK(recv_progress(r, f))
         /\ RowsOK(recv_complete(r, f)) /\ RowsOK(mark_rejected(r, f))
         /\ RowsOK(mark_cancelled_remote(r, f)) /\ RowsOK(accept(r, f))
         /\ RowsOK(decline(r, f)) /\ RowsOK(cancel(r, f))
<1> USE DEF RowsOK, TransferState, Put, Drop, SetState
<1>1. RowsOK(incoming_offer(r, f)) /\ RowsOK(recv_progress(r, f)) /\ RowsOK(recv_complete(r, f))
  BY DEF incoming_offer, recv_progress, recv_complete
<1>2. RowsOK(mark_rejected(r, f)) /\ RowsOK(mark_cancelled_remote(r, f))
  BY DEF mark_rejected, mark_cancelled_remote
<1>3. RowsOK(accept(r, f)) /\ RowsOK(decline(r, f)) /\ RowsOK(cancel(r, f))
  BY DEF accept, decline, cancel
<1> HIDE DEF RowsOK
<1> QED BY <1>1, <1>2, <1>3

(* So does an operation on several rows. *)
LEMMA RowsKeepType ==
  ASSUME NEW r, RowsOK(r), NEW ids \in SUBSET File
  PROVE  /\ RowsOK(push_outgoing_pending(r, ids)) /\ RowsOK(mark_offered(r, ids))
         /\ RowsOK(mark_all_active_cancelled(r)) /\ RowsOK(accept_all(r, ids))
<1> USE DEF RowsOK, TransferState, SetState
<1>1. RowsOK(push_outgoing_pending(r, ids)) /\ RowsOK(mark_offered(r, ids))
  BY DEF push_outgoing_pending, mark_offered
<1>2. RowsOK(mark_all_active_cancelled(r)) /\ RowsOK(accept_all(r, ids))
  BY DEF mark_all_active_cancelled, accept_all
<1> HIDE DEF RowsOK
<1> QED BY <1>1, <1>2

(* So does the progress of a send. *)
LEMMA ProgressKeepsType ==
  ASSUME NEW r, RowsOK(r), NEW f \in File, NEW m \in Nat, NEW n \in Nat
  PROVE  RowsOK(send_progress(r, f, m, n))
  BY DEF RowsOK, TransferState, Put, send_progress

(* The frames are frames, and the chunks m+1..n a sequence of them. *)
LEMMA FrameType ==
  /\ Start \in Frame /\ End \in Frame
  /\ \A m, n \in Nat : m <= n => Chunks(m, n) \in Seq(Frame) /\ Len(Chunks(m, n)) = n - m
<1>1. Start \in Frame /\ End \in Frame
  BY DEF Start, End, Frame
<1>2. ASSUME NEW m \in Nat, NEW n \in Nat, m <= n
      PROVE  Chunks(m, n) \in Seq(Frame) /\ Len(Chunks(m, n)) = n - m
  <2>1. n - m \in Nat
    BY <1>2
  <2>2. \A i \in 1..(n - m) : Chunk(m + i) \in Frame
    BY <2>1 DEF Chunk, Frame
  <2> QED BY <2>1, <2>2 DEF Chunks
<1> QED BY <1>1, <1>2

(* Taking one element out of a sequence. *)
LEMMA RetainType ==
  ASSUME NEW S, NEW s \in Seq(S), NEW p
  PROVE  /\ Retain(s, p) \in Seq(S)
         /\ s = <<>> => Retain(s, p) = <<>>
         /\ \A i \in 1..Len(Retain(s, p)) : \E j \in 1..Len(s) : Retain(s, p)[i] = s[j]
<1>1. CASE ~ \E i \in 1..Len(s) : s[i] = p
  BY <1>1 DEF Retain
<1>2. CASE \E i \in 1..Len(s) : s[i] = p
  <2>1. PICK k \in 1..Len(s) :
           /\ s[k] = p
           /\ Retain(s, p) = [i \in 1..(Len(s) - 1) |-> IF i < k THEN s[i] ELSE s[i + 1]]
    BY <1>2 DEF Retain
  <2>2. \A i \in 1..(Len(s) - 1) : i \in 1..Len(s) /\ i + 1 \in 1..Len(s)
    BY <2>1
  <2> QED BY <2>1, <2>2
<1> QED BY <1>1, <1>2

(* When no element occurs twice, the one taken out is gone. *)
LEMMA RetainDrops ==
  ASSUME NEW S, NEW s \in Seq(S), NEW p,
         \A i, j \in 1..Len(s) : s[i] = s[j] => i = j
  PROVE  /\ \A i \in 1..Len(Retain(s, p)) : Retain(s, p)[i] # p
         /\ \A i, j \in 1..Len(Retain(s, p)) : Retain(s, p)[i] = Retain(s, p)[j] => i = j
<1>1. CASE ~ \E i \in 1..Len(s) : s[i] = p
  BY <1>1 DEF Retain
<1>2. CASE \E i \in 1..Len(s) : s[i] = p
  <2>1. PICK k \in 1..Len(s) :
           /\ s[k] = p
           /\ Retain(s, p) = [i \in 1..(Len(s) - 1) |-> IF i < k THEN s[i] ELSE s[i + 1]]
    BY <1>2 DEF Retain
  <2>2. \A i \in 1..(Len(s) - 1) : i \in 1..Len(s) /\ i + 1 \in 1..Len(s)
    BY <2>1
  <2> QED BY <2>1, <2>2
<1> QED BY <1>1, <1>2

-----------------------------------------------------------------------------
(* Type correctness. *)

(* The initial state is well-typed. *)
LEMMA InitType == Init => TypeOK
<1> SUFFICES ASSUME Init PROVE TypeOK
  OBVIOUS
<1> USE TransferAssumption DEF Init
<1>1. SenderType
  BY DEF SenderType, TaskState, NoRows
<1>2. ReceiverType
  BY DEF ReceiverType, NoRows
<1>3. WireType
  BY DEF WireType, LinkState
<1> QED BY <1>1, <1>2, <1>3 DEF TypeOK

(* There are finitely many files. *)
LEMMA FileFinite == IsFiniteSet(File)
<1>1. 1 \in Int /\ NumFiles \in Int
  BY TransferAssumption
<1> QED BY <1>1, FS_Interval DEF File

(* schedule starts no more files than are queued. *)
LEMMA StartableRange ==
  ASSUME NEW q \in Seq(File), NEW act \in SUBSET File
  PROVE  Startable(q, act) \in 0..Len(q)
<1>1. IsFiniteSet(act)
  BY FileFinite, FS_Subset
<1>2. Cardinality(act) \in Nat
  BY <1>1, FS_CardinalityType
<1> QED BY <1>2, TransferAssumption DEF Startable

(* schedule keeps the queue, the slots and the tasks well-typed. *)
LEMMA ScheduleType ==
  ASSUME NEW q \in Seq(File), NEW act \in SUBSET File, NEW tsk \in [File -> TaskState],
         schedule(q, act, tsk)
  PROVE  queue' \in Seq(File) /\ active' \subseteq File /\ task' \in [File -> TaskState]
<1> DEFINE n == Startable(q, act)
<1>1. n \in 0..Len(q)
  BY StartableRange
<1> HIDE DEF n
<1>2. queue' \in Seq(File)
  <2>1. queue' = SubSeq(q, n + 1, Len(q))
    BY DEF schedule, n
  <2>2. \A i \in (n + 1)..Len(q) : q[i] \in File
    BY <1>1, ElementOfSeq
  <2> QED BY <1>1, <2>1, <2>2, SubSeqProperties
<1>3. Started(q, act) \subseteq File
  <2>1. Started(q, act) = {q[i] : i \in 1..n}
    BY DEF Started, n
  <2>2. \A i \in 1..n : q[i] \in File
    BY <1>1, ElementOfSeq
  <2> QED BY <2>1, <2>2
<1>4. active' \subseteq File
  BY <1>3 DEF schedule
<1>5. task' \in [File -> TaskState]
  BY DEF schedule, TaskState, Running
<1> QED BY <1>2, <1>4, <1>5

(* What remains of a sender's variables when send_file has returned. *)
LEMMA ReturnsType ==
  ASSUME TypeOK, NEW f \in File, NEW frames \in Seq(Frame), Returns(f, frames)
  PROVE  /\ queue' \in Seq(File) /\ active' \subseteq File /\ task' \in [File -> TaskState]
         /\ cancelled' \subseteq File /\ RowsOK(srow')
         /\ chan' \in [File -> Seq(Frame)] /\ dc' \in [File -> {"none", "open", "closed"}]
<1>1. schedule(queue, active \ {f}, [task EXCEPT ![f] = "returned"])
  BY DEF Returns
<1>2. [task EXCEPT ![f] = "returned"] \in [File -> TaskState]
  BY DEF TypeOK, SenderType, TaskState
<1>3. queue' \in Seq(File) /\ active' \subseteq File /\ task' \in [File -> TaskState]
  BY <1>1, <1>2, ScheduleType DEF TypeOK, SenderType
<1>4. cancelled' \subseteq File /\ dc' \in [File -> {"none", "open", "closed"}]
  BY DEF Returns, TypeOK, SenderType, WireType
<1>5. RowsOK(srow')
  <2>1. RowsOK(srow) /\ Size[f] \in Nat
    BY TransferAssumption DEF RowsOK, TypeOK, SenderType
  <2> QED BY <2>1, ProgressKeepsType DEF Returns
<1>6. chan' \in [File -> Seq(Frame)]
  <2>1. chan \in [File -> Seq(Frame)] /\ chan[f] \o frames \in Seq(Frame)
    BY DEF TypeOK, WireType
  <2>2. \A k \in 0..Len(chan[f] \o frames) : SubSeq(chan[f] \o frames, 1, k) \in Seq(Frame)
    <3>1. \A i \in 1..Len(chan[f] \o frames) : (chan[f] \o frames)[i] \in Frame
      BY <2>1, ElementOfSeq
    <3> QED BY <2>1, <3>1, SubSeqProperties
  <2> QED BY <2>1, <2>2 DEF Returns, Send, SendAndClose
<1> QED BY <1>3, <1>4, <1>5, <1>6

(* Sending on ctrl. *)
LEMMA CtrlType ==
  ASSUME NEW side, NEW wire \in Seq(Control), NEW ms \in Seq(Control)
  PROVE  Ctrl(side, wire, ms) \in Seq(Control)
<1>1. wire \o ms \in Seq(Control)
  BY ConcatProperties
<1> QED BY <1>1 DEF Ctrl

(* Every step of the sender's tab that does not run a task. *)
LEMMA SenderType_Users ==
  ASSUME TypeOK,
         \/ \E n \in File : OnFiles(n)
         \/ CtrlOpens
         \/ \E f \in File : CtrlS(f) \/ UserAborts(f)
  PROVE  TypeOK'
<1> USE TransferAssumption
<1>0. RowsOK(srow) /\ RowsOK(rrow)
  BY DEF TypeOK, SenderType, ReceiverType, RowsOK
<1>1. ASSUME NEW b \in Seq(File)
      PROVE  Offers(b) \in Seq(Control) /\ Ids(b) \in SUBSET File
  BY DEF Offers, Ids, Ctl, Control
<1>2. ASSUME NEW n \in File, OnFiles(n) PROVE TypeOK'
  <2>0. n \in Nat /\ nextId \in Nat /\ nextId > 0 /\ nextId + n - 1 <= NumFiles
    BY <1>2 DEF OnFiles, File, TypeOK, SenderType
  <2>1. NewIds(n) \in Seq(File)
    <3>1. \A i \in 1..n : nextId + i - 1 \in File
      BY <2>0 DEF File
    <3> QED BY <2>0, <3>1 DEF NewIds
  <2>2. RowsOK(push_outgoing_pending(srow, Ids(NewIds(n))))
    BY <1>0, <1>1, <2>1, RowsKeepType
  <2>3. RowsOK(mark_offered(push_outgoing_pending(srow, Ids(NewIds(n))), Ids(NewIds(n))))
    BY <1>1, <2>1, <2>2, RowsKeepType
  <2>4. RowsOK(srow')
    BY <1>2, <2>2, <2>3 DEF OnFiles
  <2>5. SenderType'
    <3>1. pending' \in Seq(File) /\ offered' \subseteq File
      <4>1. pending \in Seq(File) /\ offered \subseteq File /\ Ids(NewIds(n)) \subseteq File
        BY <1>1, <2>1 DEF TypeOK, SenderType
      <4>2. pending \o NewIds(n) \in Seq(File)
        BY <2>1, <4>1, ConcatProperties
      <4> QED BY <1>2, <4>1, <4>2 DEF OnFiles, offer_files
    <3>2. nextId' \in Nat \ {0}
      BY <1>2, <2>0 DEF OnFiles
    <3> QED BY <1>2, <2>4, <3>1, <3>2 DEF OnFiles, RowsOK, TypeOK, SenderType, tasks
  <2>6. ReceiverType'
    BY <1>2 DEF OnFiles, TypeOK, ReceiverType, receiver
  <2>7. WireType'
    <3>1. toR' \in Seq(Control)
      <4>1. toR \in Seq(Control) /\ Offers(NewIds(n)) \in Seq(Control)
        BY <1>1, <2>1 DEF TypeOK, WireType
      <4> QED BY <1>2, <4>1, CtrlType DEF OnFiles, offer_files
    <3> QED BY <1>2, <3>1 DEF OnFiles, TypeOK, WireType, files, users
  <2> QED BY <2>5, <2>6, <2>7 DEF TypeOK
<1>3. ASSUME CtrlOpens PROVE TypeOK'
  <2>1. pending \in Seq(File)
    BY DEF TypeOK, SenderType
  <2>2. RowsOK(srow')
    BY <1>0, <1>1, <1>3, <2>1, RowsKeepType DEF CtrlOpens
  <2>3. SenderType'
    BY <1>1, <1>3, <2>1, <2>2 DEF CtrlOpens, RowsOK, TypeOK, SenderType, tasks
  <2>4. ReceiverType'
    BY <1>3 DEF CtrlOpens, TypeOK, ReceiverType, receiver
  <2>5. WireType'
    BY <1>1, <1>3, <2>1 DEF CtrlOpens, TypeOK, WireType, LinkState, files, users
  <2> QED BY <2>3, <2>4, <2>5 DEF TypeOK
<1>4. ASSUME NEW f \in File, OnAccept(f) PROVE TypeOK'
  <2>1. enqueue_accepted(f) \in Seq(File)
    BY DEF enqueue_accepted, TypeOK, SenderType
  <2>2. queue' \in Seq(File) /\ active' \subseteq File /\ task' \in [File -> TaskState]
    BY <1>4, <2>1, ScheduleType DEF OnAccept, TypeOK, SenderType
  <2>3. SenderType'
    BY <1>4, <2>2 DEF OnAccept, TypeOK, SenderType, picks, rows
  <2>4. ReceiverType'
    BY <1>4 DEF OnAccept, TypeOK, ReceiverType, receiver, rows
  <2>5. WireType'
    BY <1>4 DEF OnAccept, ReadsS, TypeOK, WireType, files, users
  <2> QED BY <2>3, <2>4, <2>5 DEF TypeOK
<1>5. ASSUME NEW f \in File, OnReject(f) \/ OnCancel(f) \/ UserAborts(f) PROVE TypeOK'
  <2>1. RowsOK(srow')
    BY <1>0, <1>5, RowKeepsType DEF OnReject, OnCancel, UserAborts
  <2>2. Retain(queue, f) \in Seq(File)
    BY RetainType DEF TypeOK, SenderType
  <2>3. SenderType'
    BY <1>5, <2>1, <2>2 DEF OnReject, OnCancel, UserAborts, abort, cancel_outgoing, RowsOK,
                            TypeOK, SenderType, picks, tasks
  <2>4. ReceiverType'
    BY <1>5 DEF OnReject, OnCancel, UserAborts, TypeOK, ReceiverType, receiver
  <2>5. Ctl("Abort", f) \in Control
    BY DEF Ctl, Control
  <2>6. toS' \in Seq(Control) /\ toR' \in Seq(Control)
    <3>1. toS \in Seq(Control) /\ toR \in Seq(Control) /\ <<Ctl("Abort", f)>> \in Seq(Control)
      BY <2>5 DEF TypeOK, WireType
    <3>2. CASE OnReject(f) \/ OnCancel(f)
      <4>1. toS # <<>> /\ toS' = Tail(toS) /\ toR' = toR
        BY <3>2 DEF OnReject, OnCancel, ReadsS
      <4> QED BY <3>1, <4>1, HeadTailProperties
    <3>3. CASE UserAborts(f)
      <4>1. toS' = toS /\ toR' = Ctrl("S", toR, <<Ctl("Abort", f)>>)
        BY <3>3 DEF UserAborts, abort
      <4>2. Ctrl("S", toR, <<Ctl("Abort", f)>>) \in Seq(Control)
        BY <3>1, CtrlType
      <4> QED BY <3>1, <4>1, <4>2
    <3> QED BY <1>5, <3>2, <3>3
  <2>7. WireType'
    BY <1>5, <2>6 DEF OnReject, OnCancel, UserAborts, TypeOK, WireType, files, users
  <2> QED BY <2>3, <2>4, <2>7 DEF TypeOK
<1> QED BY <1>2, <1>3, <1>4, <1>5 DEF CtrlS

(* Every step of a sending task. *)
LEMMA SenderType_Tasks ==
  ASSUME TypeOK, NEW f \in File, Task(f) \/ ReadFails(f)
  PROVE  TypeOK'
<1>1. Size[f] \in Nat /\ sent[f] \in 0..Size[f] /\ Slab \in Nat \ {0}
  BY TransferAssumption DEF TypeOK, SenderType
<1>2. SlabEnd(f, sent[f]) \in sent[f]..Size[f]
  <2> DEFINE e == (sent[f] \div Slab + 1) * Slab
  <2>1. ASSUME NEW m \in Nat, NEW k \in Nat \ {0}
        PROVE  (m \div k + 1) * k > m /\ (m \div k + 1) * k \in Int
    OBVIOUS
  <2>2. e > sent[f] /\ e \in Int
    BY <1>1, <2>1
  <2>3. SlabEnd(f, sent[f]) = IF e <= Size[f] THEN e ELSE Size[f]
    BY DEF SlabEnd
  <2> HIDE DEF e
  <2> QED BY <1>1, <2>2, <2>3
<1>3. ASSUME NEW n \in Nat, sent[f] <= n
      PROVE  /\ Chunks(sent[f], n) \in Seq(Frame)
             /\ Append(Chunks(sent[f], n), End) \in Seq(Frame)
  <2>1. sent[f] \in Nat /\ End \in Frame
    BY <1>1, FrameType
  <2>2. Chunks(sent[f], n) \in Seq(Frame)
    BY <1>3, <2>1, FrameType
  <2> QED BY <2>1, <2>2, AppendProperties
<1>4. /\ <<>> \in Seq(Frame) /\ <<Start>> \in Seq(Frame) /\ <<Start, End>> \in Seq(Frame)
  BY FrameType
<1>5. /\ queue' \in Seq(File) /\ active' \subseteq File /\ task' \in [File -> TaskState]
      /\ cancelled' \subseteq File /\ RowsOK(srow')
      /\ chan' \in [File -> Seq(Frame)] /\ dc' \in [File -> {"none", "open", "closed"}]
      /\ sent' \in [File -> Nat] /\ \A g \in File : sent'[g] <= Size[g]
  <2>1. ASSUME NEW frames \in Seq(Frame), Returns(f, frames), UNCHANGED sent PROVE <1>5!:
    BY <2>1, ReturnsType DEF TypeOK, SenderType
  <2>2. ASSUME NEW n \in sent[f]..Size[f], Streams(f, n) PROVE <1>5!:
    <3>1. n \in Nat /\ sent[f] <= n /\ n <= Size[f]
      BY <1>1, <2>2
    <3>2. sent' \in [File -> Nat] /\ \A g \in File : sent'[g] <= Size[g]
      BY <2>2, <3>1 DEF Streams, TypeOK, SenderType
    <3>3. CASE n = Size[f]
      <4>1. Returns(f, Append(Chunks(sent[f], n), End))
        BY <2>2, <3>3, <3>1 DEF Streams
      <4> QED BY <1>3, <3>1, <3>2, <4>1, ReturnsType
    <3>4. CASE n # Size[f]
      <4>1. /\ Send(f, Chunks(sent[f], n))
            /\ srow' = IF n = sent[f] THEN srow ELSE send_progress(srow, f, n, Size[f])
            /\ task' = [task EXCEPT ![f] = IF n = SlabEnd(f, sent[f]) THEN "reading" ELSE "parked"]
            /\ UNCHANGED <<queue, active, cancelled, dc>>
        BY <2>2, <3>4 DEF Streams
      <4>2. RowsOK(srow')
        BY <1>1, <3>1, <4>1, ProgressKeepsType DEF RowsOK, TypeOK, SenderType
      <4>3. chan' \in [File -> Seq(Frame)]
        BY <1>3, <3>1, <4>1, ConcatProperties DEF Send, TypeOK, WireType
      <4>4. task' \in [File -> TaskState]
        BY <4>1 DEF TypeOK, SenderType, TaskState, Running
      <4> QED BY <3>2, <4>1, <4>2, <4>3, <4>4 DEF TypeOK, SenderType, WireType
    <3> QED BY <3>3, <3>4
  <2>3. CASE ChannelOpens(f)
    <3>1. CASE \/ Returns(f, <<Start, End>>)
               \/ Returns(f, <<Start>>)
      BY <1>4, <2>1, <2>3, <3>1 DEF ChannelOpens
    <3>2. CASE /\ Send(f, <<Start>>)
               /\ dc' = [dc EXCEPT ![f] = "open"]
               /\ task' = [task EXCEPT ![f] = "reading"]
               /\ UNCHANGED <<queue, active, cancelled, srow>>
      <4>1. chan' \in [File -> Seq(Frame)]
        BY <1>4, <3>2, ConcatProperties DEF Send, TypeOK, WireType
      <4>2. task' \in [File -> TaskState]
        BY <3>2 DEF TypeOK, SenderType, TaskState, Running
      <4> QED BY <2>3, <3>2, <4>1, <4>2 DEF ChannelOpens, RowsOK, TypeOK, SenderType, WireType
    <3> QED BY <2>3, <3>1, <3>2 DEF ChannelOpens
  <2>4. CASE SlabRead(f)
    <3>1. CASE Returns(f, <<>>) /\ UNCHANGED sent
      BY <1>4, <2>1, <3>1
    <3>2. CASE \E n \in sent[f]..SlabEnd(f, sent[f]) : Streams(f, n)
      BY <1>1, <1>2, <2>2, <3>2
    <3>3. CASE /\ task' = [task EXCEPT ![f] = "parked"]
               /\ UNCHANGED <<queue, active, cancelled, srow, sent, files>>
      BY <3>3 DEF RowsOK, TypeOK, SenderType, WireType, TaskState, Running, files
    <3> QED BY <2>4, <3>1, <3>2, <3>3 DEF SlabRead
  <2>5. CASE BufferLow(f)
    <3>1. CASE Returns(f, <<>>) /\ UNCHANGED sent
      BY <1>4, <2>1, <3>1
    <3>2. CASE \E n \in (sent[f] + 1)..SlabEnd(f, sent[f]) : Streams(f, n)
      BY <1>1, <1>2, <2>2, <3>2
    <3> QED BY <2>5, <3>1, <3>2 DEF BufferLow
  <2>6. CASE ReadFails(f)
    BY <1>4, <2>1, <2>6 DEF ReadFails
  <2> QED BY <2>3, <2>4, <2>5, <2>6 DEF Task
<1>6. /\ UNCHANGED <<link, pending, nextId, offered, incoming, cur, saved, rrow, toR, toS>>
      /\ UNCHANGED <<accepted, stopped>>
  BY DEF Task, ChannelOpens, SlabRead, BufferLow, ReadFails, picks, receiver, ctrl, users
<1>7. SenderType'
  BY <1>5, <1>6 DEF RowsOK, TypeOK, SenderType
<1>8. ReceiverType' /\ WireType'
  BY <1>5, <1>6 DEF TypeOK, ReceiverType, WireType
<1> QED BY <1>7, <1>8 DEF TypeOK

(* Every step of the receiver's tab. *)
LEMMA ReceiverType_Steps ==
  ASSUME TypeOK,
         \/ UserAcceptsAll
         \/ \E f \in File : \/ CtrlR(f) \/ Frames(f)
                            \/ UserAccepts(f) \/ UserDeclines(f) \/ UserCancels(f)
  PROVE  TypeOK'
<1>0. RowsOK(srow) /\ RowsOK(rrow)
  BY DEF TypeOK, SenderType, ReceiverType, RowsOK
<1>1. toR \in Seq(Control) /\ toS \in Seq(Control) /\ chan \in [File -> Seq(Frame)]
  BY DEF TypeOK, WireType
<1>2. ASSUME NEW f \in File, CtrlR(f) PROVE TypeOK'
  <2>1. toR # <<>> /\ toR' = Tail(toR)
    BY <1>2 DEF CtrlR, OnOffer, OnAbort, ReadsR
  <2>2. toR' \in Seq(Control)
    BY <1>1, <2>1, HeadTailProperties
  <2>3. RowsOK(rrow')
    BY <1>0, <1>2, RowKeepsType DEF CtrlR, OnOffer, OnAbort
  <2>4. UNCHANGED <<link, picks, outgoing, tasks, cur, saved, srow, toS, files, users>>
    BY <1>2 DEF CtrlR, OnOffer, OnAbort, receiver
  <2>5. incoming' = incoming \/ incoming' = Drop(incoming, f)
    BY <1>2 DEF CtrlR, OnOffer, OnAbort, receiver
  <2>6. SenderType'
    BY <2>4 DEF TypeOK, SenderType, picks, outgoing, tasks
  <2>7. ReceiverType'
    BY <2>3, <2>4, <2>5 DEF RowsOK, Drop, TypeOK, ReceiverType
  <2>8. WireType'
    BY <2>2, <2>4 DEF TypeOK, WireType, files, users
  <2> QED BY <2>6, <2>7, <2>8 DEF TypeOK
<1>3. ASSUME NEW f \in File, Frames(f) PROVE TypeOK'
  <2>1. chan[f] # <<>> /\ chan' = [chan EXCEPT ![f] = Tail(@)]
    BY <1>3 DEF Frames, RecvStart, RecvChunk, RecvEnd, Receives
  <2>2. chan' \in [File -> Seq(Frame)] /\ Head(chan[f]) \in Frame
    BY <1>1, <2>1, HeadTailProperties
  <2>3. RowsOK(rrow')
    BY <1>0, <1>3, RowKeepsType DEF Frames, RecvStart, RecvChunk, RecvEnd, finalize_recv, rows
  <2>4. UNCHANGED <<link, picks, outgoing, tasks, srow, ctrl, users>>
    BY <1>3 DEF Frames, RecvStart, RecvChunk, RecvEnd, rows
  <2>5. DOMAIN incoming' \subseteq File /\ \A g \in DOMAIN incoming' : incoming'[g] \in Seq(Nat)
    <3>0. DOMAIN incoming \subseteq File /\ \A g \in DOMAIN incoming : incoming[g] \in Seq(Nat)
      BY DEF TypeOK, ReceiverType
    <3>1. CASE RecvStart(f)
      BY <3>0, <3>1 DEF RecvStart, Put
    <3>2. CASE RecvChunk(f)
      <4>1. Head(chan[f]).chunk \in Nat
        BY <2>2 DEF Frame
      <4>2. f \in DOMAIN incoming => Append(incoming[f], Head(chan[f]).chunk) \in Seq(Nat)
        BY <3>0, <4>1, AppendProperties
      <4>3. \/ incoming' = incoming
            \/ /\ f \in DOMAIN incoming
               /\ incoming' = [incoming EXCEPT ![f] = Append(@, Head(chan[f]).chunk)]
        BY <3>2 DEF RecvChunk
      <4> QED BY <3>0, <4>2, <4>3
    <3>3. CASE RecvEnd(f)
      BY <3>0, <3>3 DEF RecvEnd, finalize_recv, Drop
    <3> QED BY <1>3, <3>1, <3>2, <3>3 DEF Frames
  <2>6. cur' \subseteq File
    BY <1>3 DEF Frames, RecvStart, RecvChunk, RecvEnd, TypeOK, ReceiverType
  <2>7. saved' \in [File -> Seq(Seq(Nat))]
    <3>1. f \in DOMAIN incoming => Append(saved[f], incoming[f]) \in Seq(Seq(Nat))
      BY AppendProperties DEF TypeOK, ReceiverType
    <3>2. \/ saved' = saved
          \/ f \in DOMAIN incoming /\ saved' = [saved EXCEPT ![f] = Append(@, incoming[f])]
      BY <1>3 DEF Frames, RecvStart, RecvChunk, RecvEnd, finalize_recv
    <3> QED BY <3>1, <3>2 DEF TypeOK, ReceiverType
  <2>8. dc' \in [File -> {"none", "open", "closed"}]
    BY <1>3 DEF Frames, RecvStart, RecvChunk, RecvEnd, TypeOK, WireType
  <2>9. SenderType'
    BY <2>4 DEF TypeOK, SenderType, picks, outgoing, tasks
  <2>10. ReceiverType'
    BY <2>3, <2>5, <2>6, <2>7 DEF RowsOK, ReceiverType
  <2>11. WireType'
    BY <2>2, <2>4, <2>8 DEF TypeOK, WireType, ctrl, users
  <2> QED BY <2>9, <2>10, <2>11 DEF TypeOK
<1>4. ASSUME NEW f \in File, UserAccepts(f) \/ UserDeclines(f) \/ UserCancels(f) PROVE TypeOK'
  <2>1. RowsOK(rrow')
    BY <1>0, <1>4, RowKeepsType DEF UserAccepts, UserDeclines, UserCancels
  <2>2. toS' \in Seq(Control)
    <3>1. PICK t \in {"Accept", "Reject", "Cancel"} : toS' = Ctrl("R", toS, <<Ctl(t, f)>>)
      BY <1>4 DEF UserAccepts, UserDeclines, UserCancels, CancelDownload
    <3>2. <<Ctl(t, f)>> \in Seq(Control)
      BY DEF Ctl, Control
    <3> QED BY <1>1, <3>1, <3>2, CtrlType
  <2>3. incoming' = incoming \/ incoming' = Drop(incoming, f)
    BY <1>4 DEF UserAccepts, UserDeclines, UserCancels, CancelDownload, receiver
  <2>4. UNCHANGED <<link, picks, outgoing, tasks, cur, saved, srow, toR, files>>
    BY <1>4 DEF UserAccepts, UserDeclines, UserCancels, receiver
  <2>5. accepted' \subseteq File /\ stopped' \subseteq File
    BY <1>4 DEF UserAccepts, UserDeclines, UserCancels, users, TypeOK, WireType
  <2>6. SenderType'
    BY <2>4 DEF TypeOK, SenderType, picks, outgoing, tasks
  <2>7. ReceiverType'
    BY <2>1, <2>3, <2>4 DEF RowsOK, Drop, TypeOK, ReceiverType
  <2>8. WireType'
    BY <2>2, <2>4, <2>5 DEF TypeOK, WireType, files
  <2> QED BY <2>6, <2>7, <2>8 DEF TypeOK
<1>5. ASSUME UserAcceptsAll PROVE TypeOK'
  <2> DEFINE ids == pending_incoming_ids(rrow)
  <2>1. ids \subseteq File /\ Cardinality(ids) \in Nat
    <3>1. ids \subseteq File
      BY <1>0 DEF RowsOK, pending_incoming_ids
    <3> QED BY <3>1, FileFinite, FS_Subset, FS_CardinalityType
  <2>2. PICK s \in InOrder(ids) : toS' = Ctrl("R", toS, [i \in 1..Len(s) |-> Ctl("Accept", s[i])])
    BY <1>5 DEF UserAcceptsAll
  <2>3. s \in Seq(File)
    BY <2>1, <2>2 DEF InOrder
  <2>4. [i \in 1..Len(s) |-> Ctl("Accept", s[i])] \in Seq(Control)
    BY <2>3 DEF Ctl, Control
  <2>5. toS' \in Seq(Control)
    BY <1>1, <2>2, <2>4, CtrlType
  <2>6. RowsOK(rrow')
    BY <1>0, <1>5, <2>1, RowsKeepType DEF UserAcceptsAll
  <2>7. accepted' = accepted \cup ids
    BY <1>5 DEF UserAcceptsAll
  <2>8. UNCHANGED <<link, picks, outgoing, tasks, receiver, srow, toR, files, stopped>>
    BY <1>5 DEF UserAcceptsAll
  <2> HIDE DEF ids
  <2>9. SenderType'
    BY <2>8 DEF TypeOK, SenderType, picks, outgoing, tasks
  <2>10. ReceiverType'
    BY <2>6, <2>8 DEF RowsOK, TypeOK, ReceiverType, receiver
  <2>11. WireType'
    BY <2>1, <2>5, <2>7, <2>8 DEF TypeOK, WireType, files
  <2> QED BY <2>9, <2>10, <2>11 DEF TypeOK
<1> QED BY <1>2, <1>3, <1>4, <1>5

(* Every step of the connection. *)
LEMMA ConnectionType ==
  ASSUME TypeOK, NEW side \in {"S", "R"},
         Disconnects(side) \/ PeerLeft(side) \/ LinkLost(side)
  PROVE  TypeOK'
<1>1. RowsOK(srow) /\ RowsOK(rrow)
  BY DEF TypeOK, SenderType, ReceiverType, RowsOK
<1>2. RowsOK(srow') /\ RowsOK(rrow')
  BY <1>1, RowsKeepType DEF Disconnects, PeerLeft, LinkLost, rows
<1>3. link' \in [{"S", "R"} -> LinkState]
  BY DEF Disconnects, PeerLeft, LinkLost, LinkState, TypeOK, WireType
<1>4. UNCHANGED <<picks, outgoing, tasks, receiver, ctrl, files, users>>
  BY DEF Disconnects, PeerLeft, LinkLost
<1>5. SenderType' /\ ReceiverType' /\ WireType'
  BY <1>2, <1>3, <1>4 DEF RowsOK, TypeOK, SenderType, ReceiverType, WireType,
                          picks, outgoing, tasks, receiver, ctrl, files, users
<1> QED BY <1>5 DEF TypeOK

(* Every step keeps the types. *)
LEMMA NextType == TypeOK /\ [Next]_vars => TypeOK'
<1> SUFFICES ASSUME TypeOK, [Next]_vars PROVE TypeOK'
  OBVIOUS
<1>1. CASE UNCHANGED vars
  BY <1>1 DEF vars, picks, outgoing, tasks, receiver, rows, ctrl, files, users,
              TypeOK, SenderType, ReceiverType, WireType
<1>2. CASE Next
  BY <1>2, SenderType_Users, SenderType_Tasks, ReceiverType_Steps, ConnectionType DEF Next
<1> QED BY <1>1, <1>2

(* Type correctness of the transfer protocol: every variable of both tabs  *)
(* and every message in flight has its declared type, in every behaviour.  *)
THEOREM TransferTypeOK == Spec => []TypeOK
  BY InitType, NextType, PTL DEF Spec

-----------------------------------------------------------------------------
(* The concurrency slots of the sender are well used, for any number of    *)
(* files and slots and whatever fails.                                     *)

(* The conjuncts of SlotsWellUsed before the queue is pumped: of a queue,  *)
(* a set of taken slots, the state of the tasks and the offered files.     *)
Elems(q) == {q[i] : i \in 1..Len(q)}

Separate(q, act, tsk, off) ==
    /\ act = {f \in File : tsk[f] \in Running}
    /\ \A i, j \in 1..Len(q) : q[i] = q[j] => i = j
    /\ Elems(q) \cap act = {} /\ off \cap (Elems(q) \cup act) = {}
    /\ \A f \in Elems(q) \cup off : tsk[f] = "none"

(* A file that has not been offered yet is in no stage of the sending: a   *)
(* file whose id is not given out, or that waits for ctrl to open.         *)
Unsent(f) == f \notin offered /\ f \notin Queued /\ task[f] = "none"

Fresh ==
    /\ \A f \in File : f >= nextId => Unsent(f)
    /\ \A f \in Ids(pending) : f < nextId /\ Unsent(f)

SlotInv == SlotsWellUsed /\ Fresh

(* Taking n elements off the front of a queue without repetitions frees    *)
(* the queue of them, and they are n different ones.                       *)
LEMMA FrontOfQueue ==
  ASSUME NEW q \in Seq(File), \A i, j \in 1..Len(q) : q[i] = q[j] => i = j,
         NEW n \in 0..Len(q)
  PROVE  LET front == {q[i] : i \in 1..n}
             rest  == SubSeq(q, n + 1, Len(q))
         IN  /\ front \subseteq Elems(q) /\ Elems(rest) \subseteq Elems(q)
             /\ front \cap Elems(rest) = {}
             /\ \A i, j \in 1..Len(rest) : rest[i] = rest[j] => i = j
             /\ rest # <<>> => n < Len(q)
             /\ IsFiniteSet(front) /\ Cardinality(front) = n
<1> DEFINE front == {q[i] : i \in 1..n}
           rest  == SubSeq(q, n + 1, Len(q))
<1>1. /\ Len(rest) = Len(q) - n
      /\ \A i \in 1..Len(rest) : rest[i] = q[n + i]
  BY SubSeqProperties
<1>2. \A i \in 1..Len(rest) : n + i \in 1..Len(q)
  BY <1>1
<1>3. rest # <<>> => n < Len(q)
  BY SubSeqProperties
<1>4. front \subseteq Elems(q)
  BY DEF Elems
<1> HIDE DEF rest
<1>5. Elems(rest) \subseteq Elems(q)
  BY <1>1, <1>2 DEF Elems
<1>6. front \cap Elems(rest) = {}
  <2>1. ASSUME NEW i \in 1..n, NEW j \in 1..Len(rest) PROVE q[i] # rest[j]
    <3>1. i \in 1..Len(q) /\ n + j \in 1..Len(q) /\ i # n + j
      BY <1>2
    <3> QED BY <1>1, <3>1
  <2> QED BY <2>1 DEF Elems
<1>7. \A i, j \in 1..Len(rest) : rest[i] = rest[j] => i = j
  <2>1. ASSUME NEW i \in 1..Len(rest), NEW j \in 1..Len(rest), rest[i] = rest[j] PROVE i = j
    <3>1. n + i \in 1..Len(q) /\ n + j \in 1..Len(q) /\ q[n + i] = q[n + j]
      BY <1>1, <1>2, <2>1
    <3>2. n + i = n + j
      BY <3>1
    <3> QED BY <3>2, <1>1
  <2> QED BY <2>1
<1>8. IsFiniteSet(front) /\ Cardinality(front) = n
  <2> DEFINE g == [i \in 1..n |-> q[i]]
  <2>1. g \in Bijection(1..n, front)
    <3>1. \A i, j \in 1..n : g[i] = g[j] => i = j
      OBVIOUS
    <3> QED BY <3>1 DEF Bijection, Injection, Surjection, IsInjective
  <2>2. ExistsBijection(1..n, front)
    BY <2>1 DEF ExistsBijection
  <2>3. IsFiniteSet(1..n) /\ Cardinality(1..n) = n
    BY FS_Interval
  <2> QED BY <2>2, <2>3, FS_Bijection
<1> QED BY <1>3, <1>4, <1>5, <1>6, <1>7, <1>8 DEF rest

(* schedule fills the free slots from the queue and leaves the slots well  *)
(* used; a file that was in no queue keeps its task.                       *)
LEMMA ScheduleWell ==
  ASSUME NEW q \in Seq(File), NEW act \in SUBSET File, NEW tsk \in [File -> TaskState],
         NEW off \in SUBSET File,
         Separate(q, act, tsk, off), Cardinality(act) <= MaxConcurrent,
         schedule(q, act, tsk), offered' = off
  PROVE  /\ SlotsWellUsed'
         /\ \A f \in File : f \notin Elems(q) => f \notin Queued' /\ task'[f] = tsk[f]
<1> DEFINE n == Startable(q, act)
           front == {q[i] : i \in 1..n}
           rest  == SubSeq(q, n + 1, Len(q))
<1>1. n \in 0..Len(q)
  BY StartableRange
<1>2. IsFiniteSet(act) /\ Cardinality(act) \in Nat
  BY FileFinite, FS_Subset, FS_CardinalityType
<1>3. n + Cardinality(act) <= MaxConcurrent /\ (n < Len(q) => n + Cardinality(act) = MaxConcurrent)
  BY <1>2, TransferAssumption DEF Startable
<1>4. queue' = rest /\ active' = act \cup front
  BY DEF schedule, Started
<1>5. task' = [f \in File |-> IF f \in front THEN "opening" ELSE tsk[f]]
  BY DEF schedule, Started
<1> HIDE DEF n
<1>6. /\ front \subseteq Elems(q) /\ Elems(rest) \subseteq Elems(q)
      /\ front \cap Elems(rest) = {}
      /\ \A i, j \in 1..Len(rest) : rest[i] = rest[j] => i = j
      /\ rest # <<>> => n < Len(q)
      /\ IsFiniteSet(front) /\ Cardinality(front) = n
  BY <1>1, FrontOfQueue DEF Separate
<1> HIDE DEF rest, front
<1>7. Elems(q) \subseteq File
  BY ElementOfSeq DEF Elems
<1>8. Cardinality(active') = Cardinality(act) + n
  <2>1. act \cap front = {}
    BY <1>6 DEF Separate
  <2>2. Cardinality(act \cap front) = 0
    BY <2>1, FS_EmptySet
  <2>3. Cardinality(act \cup front) = Cardinality(act) + Cardinality(front) - Cardinality(act \cap front)
    BY <1>2, <1>6, FS_Union
  <2> QED BY <1>1, <1>2, <1>4, <1>6, <2>2, <2>3
<1>9. Queued' = Elems(rest)
  BY <1>4 DEF Queued, Elems
<1>10. active' = {f \in File : task'[f] \in Running}
  BY <1>4, <1>5, <1>6, <1>7 DEF Separate, Running
<1>11. Cardinality(active') <= MaxConcurrent /\ (queue' # <<>> => Cardinality(active') = MaxConcurrent)
  BY <1>1, <1>2, <1>3, <1>4, <1>6, <1>8
<1>12. \A i, j \in 1..Len(queue') : queue'[i] = queue'[j] => i = j
  BY <1>4, <1>6
<1>13. Queued' \cap active' = {} /\ offered' \cap (Queued' \cup active') = {}
  BY <1>4, <1>6, <1>9 DEF Separate
<1>14. \A f \in Queued' \cup offered' : task'[f] = "none"
  <2>1. \A f \in Queued' \cup off : f \in File /\ f \notin front /\ tsk[f] = "none"
    BY <1>6, <1>7, <1>9 DEF Separate
  <2> QED BY <1>5, <2>1
<1>15. SlotsWellUsed'
  BY <1>10, <1>11, <1>12, <1>13, <1>14 DEF SlotsWellUsed
<1>16. \A f \in File : f \notin Elems(q) => f \notin Queued' /\ task'[f] = tsk[f]
  BY <1>5, <1>6, <1>9
<1> QED BY <1>15, <1>16

(* A step that only takes files out of the queue and the offers. *)
LEMMA ShrinkWell ==
  ASSUME TypeOK, SlotInv,
         offered' \subseteq offered, Queued' \subseteq Queued,
         \A i, j \in 1..Len(queue') : queue'[i] = queue'[j] => i = j,
         queue = <<>> => queue' = <<>>,
         UNCHANGED <<active, task, picks>>
  PROVE  SlotInv'
<1>1. SlotsWellUsed'
  BY DEF SlotInv, SlotsWellUsed
<1>2. Fresh'
  BY DEF SlotInv, Fresh, Unsent, picks
<1> QED BY <1>1, <1>2 DEF SlotInv

(* cancel_outgoing, on a queue in which each file is at most once. *)
LEMMA CancelWell ==
  ASSUME TypeOK, SlotInv, NEW f \in File, cancel_outgoing(f), UNCHANGED <<active, task, picks>>
  PROVE  SlotInv'
<1>1. queue \in Seq(File) /\ queue' = Retain(queue, f) /\ offered' \subseteq offered
  BY DEF cancel_outgoing, TypeOK, SenderType
<1>2. \A i, j \in 1..Len(queue) : queue[i] = queue[j] => i = j
  BY DEF SlotInv, SlotsWellUsed
<1>3. \A i, j \in 1..Len(queue') : queue'[i] = queue'[j] => i = j
  BY <1>1, <1>2, RetainDrops
<1>4. \A i \in 1..Len(queue') : \E j \in 1..Len(queue) : queue'[i] = queue[j]
  BY <1>1, RetainType
<1>5. queue = <<>> => queue' = <<>>
  BY <1>1, RetainType
<1>6. Queued' \subseteq Queued
  BY <1>4 DEF Queued
<1> QED BY <1>1, <1>3, <1>5, <1>6, ShrinkWell

(* A task that returns gives its slot to the head of the queue. *)
LEMMA ReturnsWell ==
  ASSUME TypeOK, SlotInv, NEW f \in File, NEW frames, task[f] \in Running,
         Returns(f, frames), UNCHANGED <<offered, picks>>
  PROVE  SlotInv'
<1> DEFINE act == active \ {f}
           tsk == [task EXCEPT ![f] = "returned"]
<1>1. /\ queue \in Seq(File) /\ act \in SUBSET File /\ tsk \in [File -> TaskState]
      /\ offered \in SUBSET File
  BY DEF TypeOK, SenderType, TaskState
<1>2. Elems(queue) = Queued
  BY DEF Elems, Queued
<1>3. f \in active
  BY DEF SlotInv, SlotsWellUsed
<1>4. Separate(queue, act, tsk, offered)
  <2>1. act = {g \in File : tsk[g] \in Running}
    BY DEF SlotInv, SlotsWellUsed, Running, TypeOK, SenderType
  <2>2. \A g \in Queued \cup offered : g \in File /\ g # f /\ tsk[g] = "none"
    <3>1. Queued \subseteq File
      BY ElementOfSeq DEF Queued, TypeOK, SenderType
    <3> QED BY <1>3, <3>1 DEF SlotInv, SlotsWellUsed, TypeOK, SenderType
  <2> QED BY <1>2, <2>1, <2>2 DEF Separate, SlotInv, SlotsWellUsed
<1>5. Cardinality(act) <= MaxConcurrent
  <2>1. IsFiniteSet(active)
    BY FileFinite, FS_Subset DEF TypeOK, SenderType
  <2>2. act \in SUBSET active
    OBVIOUS
  <2>3. Cardinality(act) \in Nat /\ Cardinality(active) \in Nat /\ Cardinality(act) <= Cardinality(active)
    BY <2>1, <2>2, FS_Subset, FS_CardinalityType
  <2> QED BY <2>3, TransferAssumption DEF SlotInv, SlotsWellUsed
<1>6. schedule(queue, act, tsk)
  BY DEF Returns
<1> HIDE DEF act, tsk
<1>7. /\ SlotsWellUsed'
      /\ \A g \in File : g \notin Queued => g \notin Queued' /\ task'[g] = tsk[g]
  BY <1>1, <1>2, <1>4, <1>5, <1>6, ScheduleWell
<1>8. Fresh'
  <2>1. \A g \in File : Unsent(g) => Unsent(g)'
    <3>1. ASSUME NEW g \in File, Unsent(g) PROVE Unsent(g)'
      <4>1. g # f
        BY <3>1 DEF Unsent, Running
      <4> QED BY <1>7, <3>1, <4>1 DEF Unsent, tsk, TypeOK, SenderType
    <3> QED BY <3>1
  <2>2. Ids(pending) \subseteq File
    BY ElementOfSeq DEF Ids, TypeOK, SenderType
  <2> QED BY <2>1, <2>2 DEF SlotInv, Fresh, picks
<1> QED BY <1>7, <1>8 DEF SlotInv

(* Every step of a sending task. *)
LEMMA TaskWell ==
  ASSUME TypeOK, SlotInv, NEW f \in File, Task(f) \/ ReadFails(f)
  PROVE  SlotInv'
<1>1. task[f] \in Running /\ UNCHANGED <<offered, picks>>
  BY DEF Task, ChannelOpens, SlabRead, BufferLow, ReadFails, Running
<1>2. ASSUME NEW t \in Running, task' = [task EXCEPT ![f] = t], UNCHANGED <<queue, active>>
      PROVE  SlotInv'
  <2>1. \A g \in File : task'[g] \in Running <=> task[g] \in Running
    BY <1>1, <1>2 DEF TypeOK, SenderType
  <2>2. \A g \in File : task[g] = "none" => task'[g] = "none"
    BY <1>1, <1>2 DEF TypeOK, SenderType, Running
  <2>3. Queued' = Queued /\ Queued \subseteq File /\ offered \subseteq File /\ Ids(pending) \subseteq File
    BY <1>2, ElementOfSeq DEF Queued, Ids, TypeOK, SenderType
  <2>4. SlotsWellUsed'
    BY <1>1, <1>2, <2>1, <2>2, <2>3 DEF SlotInv, SlotsWellUsed
  <2>5. Fresh'
    BY <1>1, <2>2, <2>3 DEF SlotInv, Fresh, Unsent, picks
  <2> QED BY <2>4, <2>5 DEF SlotInv
<1>3. ASSUME NEW frames, Returns(f, frames) PROVE SlotInv'
  BY <1>1, <1>3, ReturnsWell
<1>4. ASSUME NEW n, Streams(f, n) PROVE SlotInv'
  <2>1. \/ Returns(f, Append(Chunks(sent[f], n), End))
        \/ /\ UNCHANGED <<queue, active>>
           /\ \/ task' = [task EXCEPT ![f] = "reading"]
              \/ task' = [task EXCEPT ![f] = "parked"]
    BY <1>4 DEF Streams
  <2> QED BY <1>2, <1>3, <2>1 DEF Running
<1>5. CASE ChannelOpens(f)
  BY <1>2, <1>3, <1>5 DEF ChannelOpens, Running
<1>6. CASE SlabRead(f)
  BY <1>2, <1>3, <1>4, <1>6 DEF SlabRead, Running
<1>7. CASE BufferLow(f)
  BY <1>3, <1>4, <1>7 DEF BufferLow
<1>8. CASE ReadFails(f)
  BY <1>3, <1>8 DEF ReadFails
<1> QED BY <1>5, <1>6, <1>7, <1>8 DEF Task

(* Every other step of the sender's tab. *)
LEMMA SenderWell ==
  ASSUME TypeOK, SlotInv,
         \/ \E n \in File : OnFiles(n)
         \/ CtrlOpens
         \/ \E f \in File : CtrlS(f) \/ UserAborts(f)
  PROVE  SlotInv'
<1>0. /\ queue \in Seq(File) /\ Queued \subseteq File /\ offered \subseteq File
      /\ pending \in Seq(File) /\ Ids(pending) \subseteq File /\ nextId \in Nat
  BY ElementOfSeq DEF Queued, Ids, TypeOK, SenderType
<1>1. ASSUME NEW new \in SUBSET File, \A f \in new : Unsent(f),
             offered' = offered \cup new, UNCHANGED <<queue, active, task>>
      PROVE  SlotsWellUsed'
  <2>1. Queued' = Queued
    BY <1>1 DEF Queued
  <2>2. \A f \in new : f \notin active
    BY <1>1 DEF SlotInv, SlotsWellUsed, Unsent, Running
  <2> QED BY <1>1, <2>1, <2>2 DEF SlotInv, SlotsWellUsed, Unsent
<1>2. ASSUME NEW n \in File, OnFiles(n) PROVE SlotInv'
  <2>1. n \in Nat /\ nextId' = nextId + n /\ nextId + n - 1 <= NumFiles
    BY <1>2 DEF OnFiles, File
  <2>2. Ids(NewIds(n)) \subseteq File /\ \A f \in Ids(NewIds(n)) : nextId <= f /\ f < nextId + n
    <3>1. \A i \in 1..n : nextId + i - 1 \in File /\ nextId <= nextId + i - 1 /\ nextId + i - 1 < nextId + n
      BY <1>0, <2>1, TransferAssumption DEF File, TypeOK, SenderType
    <3>2. Ids(NewIds(n)) = {nextId + i - 1 : i \in 1..n}
      BY <2>1 DEF Ids, NewIds
    <3> QED BY <3>1, <3>2
  <2>3. \A f \in Ids(NewIds(n)) : Unsent(f)
    BY <2>2 DEF SlotInv, Fresh, File
  <2>4. UNCHANGED <<queue, active, task>> /\ Queued' = Queued
    BY <1>2 DEF OnFiles, tasks, Queued
  <2>5. CASE link["S"] = "open"
    <3>1. offered' = offered \cup Ids(NewIds(n)) /\ pending' = pending
      BY <1>2, <2>5 DEF OnFiles, offer_files
    <3>2. SlotsWellUsed'
      BY <1>1, <2>2, <2>3, <2>4, <3>1
    <3>3. ASSUME NEW f \in File, f >= nextId' \/ f \in Ids(pending) PROVE Unsent(f)'
      <4>1. f \notin Ids(NewIds(n)) /\ Unsent(f)
        BY <1>0, <2>1, <2>2, <3>3 DEF SlotInv, Fresh, File
      <4> QED BY <2>4, <3>1, <4>1 DEF Unsent
    <3>4. \A f \in Ids(pending) : f < nextId'
      BY <1>0, <2>1 DEF SlotInv, Fresh, File
    <3>5. Fresh'
      BY <1>0, <3>1, <3>3, <3>4 DEF Fresh
    <3> QED BY <3>2, <3>5 DEF SlotInv
  <2>6. CASE link["S"] # "open"
    <3>1. offered' = offered /\ pending' = pending \o NewIds(n)
      BY <1>2, <2>6 DEF OnFiles
    <3>2. SlotsWellUsed'
      BY <2>4, <3>1 DEF SlotInv, SlotsWellUsed
    <3>3. NewIds(n) \in Seq(File)
      <4>1. NewIds(n) = [i \in 1..n |-> nextId + i - 1] /\ \A i \in 1..n : nextId + i - 1 \in File
        BY <1>0, <2>1, TransferAssumption DEF NewIds, File, TypeOK, SenderType
      <4> QED BY <2>1, <4>1
    <3>4. Ids(pending') \subseteq Ids(pending) \cup Ids(NewIds(n))
      BY <1>0, <3>1, <3>3, ConcatProperties DEF Ids
    <3>5. \A f \in Ids(pending') : f < nextId' /\ Unsent(f)
      BY <1>0, <2>1, <2>2, <2>3, <3>4 DEF SlotInv, Fresh, File
    <3>6. \A f \in File : f >= nextId' => Unsent(f)
      BY <1>0, <2>1 DEF SlotInv, Fresh, File
    <3>7. \A f : Unsent(f) => Unsent(f)'
      BY <2>4, <3>1 DEF Unsent
    <3>8. Ids(pending)' = Ids(pending')
      BY DEF Ids
    <3>9. Fresh'
      BY <3>5, <3>6, <3>7, <3>8 DEF Fresh
    <3> QED BY <3>2, <3>9 DEF SlotInv
  <2> QED BY <2>5, <2>6
<1>3. ASSUME CtrlOpens PROVE SlotInv'
  <2>1. /\ offered' = offered \cup Ids(pending) /\ pending' = <<>> /\ nextId' = nextId
        /\ UNCHANGED <<queue, active, task>>
    BY <1>3 DEF CtrlOpens, tasks
  <2>2. SlotsWellUsed'
    BY <1>0, <1>1, <2>1 DEF SlotInv, Fresh
  <2>3. Ids(pending)' = {} /\ Queued' = Queued
    BY <2>1 DEF Ids, Queued
  <2>4. \A f \in File : f >= nextId => f \notin Ids(pending)
    BY <1>0 DEF SlotInv, Fresh, File
  <2>5. Fresh'
    BY <2>1, <2>3, <2>4 DEF SlotInv, Fresh, Unsent
  <2> QED BY <2>2, <2>5 DEF SlotInv
<1>4. ASSUME NEW f \in File, OnAccept(f) PROVE SlotInv'
  <2> DEFINE q == enqueue_accepted(f)
             off == offered \ {f}
  <2>1. schedule(q, active, task) /\ offered' = off /\ UNCHANGED picks
    BY <1>4 DEF OnAccept
  <2>2. q \in Seq(File) /\ Elems(q) \subseteq Queued \cup (offered \cap {f})
    BY <1>0, AppendProperties DEF enqueue_accepted, Elems, Queued
  <2>3. \A i, j \in 1..Len(q) : q[i] = q[j] => i = j
    <3>1. CASE f \notin offered
      BY <3>1 DEF enqueue_accepted, SlotInv, SlotsWellUsed
    <3>2. CASE f \in offered
      <4>1. \A i \in 1..Len(queue) : queue[i] # f
        BY <3>2 DEF SlotInv, SlotsWellUsed, Queued
      <4>2. /\ Len(q) = Len(queue) + 1 /\ q[Len(q)] = f
            /\ \A i \in 1..Len(queue) : q[i] = queue[i]
        BY <1>0, <3>2, AppendProperties DEF enqueue_accepted
      <4>3. \A i, j \in 1..Len(queue) : queue[i] = queue[j] => i = j
        BY DEF SlotInv, SlotsWellUsed
      <4> QED BY <1>0, <4>1, <4>2, <4>3
    <3> QED BY <3>1, <3>2
  <2> HIDE DEF q
  <2>4. Separate(q, active, task, off)
    BY <2>2, <2>3 DEF Separate, SlotInv, SlotsWellUsed
  <2>5. /\ SlotsWellUsed'
        /\ \A g \in File : g \notin Elems(q) => g \notin Queued' /\ task'[g] = task[g]
    <3>1. active \in SUBSET File /\ task \in [File -> TaskState] /\ off \in SUBSET File
      BY <1>0 DEF TypeOK, SenderType
    <3>2. Cardinality(active) <= MaxConcurrent
      BY DEF SlotInv, SlotsWellUsed
    <3> QED BY <2>1, <2>2, <2>4, <3>1, <3>2, ScheduleWell
  <2>6. \A g \in File : Unsent(g) => Unsent(g)'
    BY <2>1, <2>2, <2>5 DEF Unsent
  <2>7. Fresh'
    BY <1>0, <2>1, <2>6 DEF SlotInv, Fresh, picks
  <2> QED BY <2>5, <2>7 DEF SlotInv
<1>5. ASSUME NEW f \in File, OnReject(f) PROVE SlotInv'
  <2>1. offered' \subseteq offered /\ UNCHANGED <<queue, active, task, picks>> /\ Queued' = Queued
    BY <1>5 DEF OnReject, tasks, Queued
  <2>2. \A i, j \in 1..Len(queue') : queue'[i] = queue'[j] => i = j
    BY <2>1 DEF SlotInv, SlotsWellUsed
  <2> QED BY <2>1, <2>2, ShrinkWell
<1>6. ASSUME NEW f \in File, OnCancel(f) \/ UserAborts(f) PROVE SlotInv'
  <2>1. UNCHANGED <<active, task, picks>>
    BY <1>6 DEF OnCancel, UserAborts, tasks
  <2>2. CASE cancel_outgoing(f)
    BY <2>1, <2>2, CancelWell
  <2>3. CASE UNCHANGED <<offered, queue, cancelled>>
    <3>1. Queued' = Queued
      BY <2>3 DEF Queued
    <3>2. \A i, j \in 1..Len(queue') : queue'[i] = queue'[j] => i = j
      BY <2>3 DEF SlotInv, SlotsWellUsed
    <3> QED BY <2>1, <2>3, <3>1, <3>2, ShrinkWell
  <2> QED BY <1>6, <2>2, <2>3 DEF OnCancel, UserAborts, abort
<1> QED BY <1>2, <1>3, <1>4, <1>5, <1>6 DEF CtrlS

(* A step outside the sender's tab leaves its slots alone. *)
LEMMA OthersWell ==
  ASSUME SlotInv, UNCHANGED <<picks, outgoing, tasks>>
  PROVE  SlotInv'
<1>1. Queued' = Queued /\ Ids(pending)' = Ids(pending)
  BY DEF Queued, Ids, picks, outgoing
<1> QED BY <1>1 DEF SlotInv, SlotsWellUsed, Fresh, Unsent, picks, outgoing, tasks

(* The slots and the queue are in order at the start. *)
LEMMA InitWell == Init => SlotInv
<1> SUFFICES ASSUME Init PROVE SlotInv
  OBVIOUS
<1>1. Queued = {} /\ Ids(pending) = {} /\ Cardinality(active) = 0
  BY FS_EmptySet DEF Init, Queued, Ids
<1>2. SlotsWellUsed
  BY <1>1, TransferAssumption DEF Init, SlotsWellUsed, Running
<1>3. Fresh
  BY <1>1 DEF Init, Fresh, Unsent
<1> QED BY <1>2, <1>3 DEF SlotInv

(* Every step keeps the slots well used. *)
LEMMA NextWell == TypeOK /\ SlotInv /\ [Next]_vars => SlotInv'
<1> SUFFICES ASSUME TypeOK, SlotInv, [Next]_vars PROVE SlotInv'
  OBVIOUS
<1>1. ASSUME NEW f \in File, CtrlR(f) \/ Frames(f) PROVE SlotInv'
  BY <1>1, OthersWell DEF CtrlR, OnOffer, OnAbort, Frames, RecvStart, RecvChunk, RecvEnd
<1>2. ASSUME NEW f \in File, UserAccepts(f) \/ UserDeclines(f) \/ UserCancels(f) PROVE SlotInv'
  BY <1>2, OthersWell DEF UserAccepts, UserDeclines, UserCancels
<1>3. ASSUME UserAcceptsAll PROVE SlotInv'
  BY <1>3, OthersWell DEF UserAcceptsAll
<1>4. ASSUME NEW side, Disconnects(side) \/ PeerLeft(side) \/ LinkLost(side) PROVE SlotInv'
  BY <1>4, OthersWell DEF Disconnects, PeerLeft, LinkLost
<1>5. CASE UNCHANGED vars
  BY <1>5, OthersWell DEF vars
<1> QED BY <1>1, <1>2, <1>3, <1>4, <1>5, SenderWell, TaskWell DEF Next

(* The concurrency slots are neither leaked nor overbooked nor idle and no *)
(* file is streamed twice, for any MAX_CONCURRENT, any number of files and *)
(* every interleaving of accepts, cancels, aborts, failures and teardowns  *)
(* (schedule, cancel_outgoing and enqueue_accepted of transfer_state.rs).  *)
THEOREM TransferSlotsWellUsed == Spec => []SlotsWellUsed
<1>1. Init => TypeOK /\ SlotInv
  BY InitType, InitWell
<1>2. (TypeOK /\ SlotInv) /\ [Next]_vars => (TypeOK /\ SlotInv)'
  BY NextType, NextWell
<1>3. TypeOK /\ SlotInv => SlotsWellUsed
  BY DEF SlotInv
<1> QED BY <1>1, <1>2, <1>3, PTL DEF Spec

-----------------------------------------------------------------------------
(* What is downloaded is the file, whole and once, and it was accepted:    *)
(* for files of any size, any slab size and any number of slots, whatever  *)
(* is cancelled, aborted, cut off or torn down meanwhile.                  *)

(* The frames of file f are Start, its chunks in order, and End. *)
Item(f, k) == IF k = 0 THEN Start ELSE IF k <= Size[f] THEN Chunk(k) ELSE End

Prefix(k) == [j \in 1..k |-> j]

(* The receiver has taken b frames of f off its channel: what is in flight *)
(* starts at frame b, a running task goes on where that ends, and an entry *)
(* that has not been dropped holds exactly the chunks before frame b.      *)
At(f, b) ==
    /\ b + Len(chan[f]) <= Size[f] + 2
    /\ \A i \in 1..Len(chan[f]) : chan[f][i] = Item(f, b + i - 1)
    /\ task[f] \in {"none", "opening"} => b = 0 /\ chan[f] = <<>> /\ sent[f] = 0
    /\ task[f] \in {"reading", "parked"} => b + Len(chan[f]) = sent[f] + 1
    /\ f \in cur <=> b >= 1
    /\ f \in DOMAIN incoming => 1 <= b /\ b <= Size[f] + 1 /\ incoming[f] = Prefix(b - 1)
    /\ saved[f] # <<>> => b = Size[f] + 2 /\ saved[f] = <<Prefix(Size[f])>>

StreamInv == \A f \in File : \E b \in 0..(Size[f] + 2) : At(f, b)

(* An Accept on the wire, a queued file and a started one were accepted. *)
AcceptInv ==
    /\ \A i \in 1..Len(toS) : toS[i].type = "Accept" => toS[i].id \in accepted
    /\ \A f \in File : task[f] # "none" \/ f \in Queued => f \in accepted

(* A step that leaves a file's stream alone, except that its entry may be  *)
(* dropped and its task may be created.                                    *)
LEMMA AtKept ==
  ASSUME NEW f \in File, NEW b \in Nat, At(f, b),
         chan'[f] = chan[f], sent'[f] = sent[f], saved'[f] = saved[f],
         f \in cur' <=> f \in cur,
         task'[f] = task[f] \/ (task[f] = "none" /\ task'[f] = "opening"),
         f \in DOMAIN incoming' => f \in DOMAIN incoming /\ incoming'[f] = incoming[f]
  PROVE  At(f, b)'
  BY DEF At

(* schedule changes a task only by creating it. *)
LEMMA ScheduleTasks ==
  ASSUME NEW q \in Seq(File), NEW act \in SUBSET File, NEW tsk \in [File -> TaskState],
         schedule(q, act, tsk), \A f \in Elems(q) : tsk[f] = "none"
  PROVE  \A f \in File : task'[f] = tsk[f] \/ (tsk[f] = "none" /\ task'[f] = "opening" /\ f \in Elems(q))
<1>1. Startable(q, act) \in 0..Len(q)
  BY StartableRange
<1>2. Started(q, act) \subseteq Elems(q)
  BY <1>1 DEF Started, Elems
<1> QED BY <1>2 DEF schedule

(* A closed channel only loses the end of its stream. *)
LEMMA ItemsCut ==
  ASSUME NEW f \in File, NEW b \in Nat, NEW w \in Seq(Frame),
         \A i \in 1..Len(w) : w[i] = Item(f, b + i - 1), NEW k \in 0..Len(w)
  PROVE  /\ Len(SubSeq(w, 1, k)) = k
         /\ \A i \in 1..k : SubSeq(w, 1, k)[i] = Item(f, b + i - 1)
<1>1. Len(SubSeq(w, 1, k)) = k /\ \A i \in 1..k : SubSeq(w, 1, k)[i] = w[i]
  BY SubSeqProperties
<1> QED BY <1>1

(* The frames sent by a step of a task continue the stream. *)
LEMMA ItemsAppended ==
  ASSUME NEW f \in File, NEW b \in Nat, NEW c \in Seq(Frame), NEW d \in Seq(Frame),
         \A i \in 1..Len(c) : c[i] = Item(f, b + i - 1),
         \A i \in 1..Len(d) : d[i] = Item(f, b + Len(c) + i - 1)
  PROVE  /\ c \o d \in Seq(Frame) /\ Len(c \o d) = Len(c) + Len(d)
         /\ \A i \in 1..Len(c \o d) : (c \o d)[i] = Item(f, b + i - 1)
<1> DEFINE w == c \o d
<1>1. /\ w \in Seq(Frame) /\ Len(w) = Len(c) + Len(d)
      /\ \A i \in 1..Len(w) : w[i] = IF i <= Len(c) THEN c[i] ELSE d[i - Len(c)]
  BY ConcatProperties
<1>2. Len(c) \in Nat /\ Len(d) \in Nat
  OBVIOUS
<1> HIDE DEF w
<1>3. ASSUME NEW i \in 1..Len(w) PROVE w[i] = Item(f, b + i - 1)
  <2>1. CASE i <= Len(c)
    <3>1. i \in 1..Len(c) /\ w[i] = c[i]
      BY <1>1, <1>2, <2>1
    <3> QED BY <3>1
  <2>2. CASE i > Len(c)
    <3>1. i - Len(c) \in 1..Len(d) /\ b + Len(c) + (i - Len(c)) - 1 = b + i - 1
      BY <1>1, <1>2, <2>2
    <3>2. d[i - Len(c)] = Item(f, b + Len(c) + (i - Len(c)) - 1)
      BY <3>1
    <3> QED BY <1>1, <1>2, <2>2, <3>1, <3>2
  <2> QED BY <1>2, <2>1, <2>2
<1> QED BY <1>1, <1>3 DEF w

(* Chunks m+1..n, with or without End, are the frames from m + 1 on. *)
LEMMA ChunkItems ==
  ASSUME NEW f \in File, NEW m \in Nat, NEW n \in Nat, m <= n, n <= Size[f]
  PROVE  LET d == Chunks(m, n)
             e == Append(d, End)
         IN  /\ d \in Seq(Frame) /\ Len(d) = n - m
             /\ \A i \in 1..Len(d) : d[i] = Item(f, m + 1 + i - 1)
             /\ n = Size[f] => /\ e \in Seq(Frame) /\ Len(e) = n - m + 1
                              /\ \A i \in 1..Len(e) : e[i] = Item(f, m + 1 + i - 1)
<1> DEFINE d == Chunks(m, n)
           e == Append(d, End)
<1>0. Size[f] \in Nat
  BY TransferAssumption
<1>1. d \in Seq(Frame) /\ Len(d) = n - m
  BY FrameType
<1>2. \A i \in 1..(n - m) : d[i] = Chunk(m + i)
  BY DEF Chunks
<1>3. \A i \in 1..(n - m) : Item(f, m + 1 + i - 1) = Chunk(m + i)
  <2>1. ASSUME NEW i \in 1..(n - m) PROVE Item(f, m + 1 + i - 1) = Chunk(m + i)
    <3>1. m + 1 + i - 1 = m + i /\ m + i # 0 /\ m + i <= Size[f]
      BY <1>0
    <3> QED BY <3>1 DEF Item
  <2> QED BY <2>1
<1> HIDE DEF d
<1>4. ASSUME n = Size[f]
      PROVE  /\ e \in Seq(Frame) /\ Len(e) = n - m + 1
             /\ \A i \in 1..Len(e) : e[i] = Item(f, m + 1 + i - 1)
  <2>1. /\ e \in Seq(Frame) /\ Len(e) = Len(d) + 1 /\ e[Len(d) + 1] = End
        /\ \A i \in 1..Len(d) : e[i] = d[i]
    <3>1. End \in Frame
      BY FrameType
    <3> QED BY <1>1, <3>1, AppendProperties
  <2> HIDE DEF e
  <2>2. Item(f, n + 1) = End
    BY <1>0, <1>4 DEF Item
  <2>3. ASSUME NEW i \in 1..(n - m + 1) PROVE e[i] = Item(f, m + 1 + i - 1)
    <3>1. CASE i <= n - m
      <4>1. i \in 1..(n - m) /\ i \in 1..Len(d)
        BY <1>1, <3>1
      <4>2. e[i] = d[i] /\ d[i] = Chunk(m + i)
        BY <1>2, <2>1, <4>1
      <4> QED BY <1>3, <4>1, <4>2
    <3>2. CASE i > n - m
      <4>1. i = Len(d) + 1 /\ m + 1 + i - 1 = n + 1
        BY <1>1, <3>2
      <4> QED BY <2>1, <2>2, <4>1
    <3> QED BY <3>1, <3>2
  <2> QED BY <1>1, <2>1, <2>3
<1> HIDE DEF e
<1> QED BY <1>1, <1>2, <1>3, <1>4 DEF d, e

(* What a task that returns does to its own stream and to other tasks. *)
LEMMA ReturnsShape ==
  ASSUME TypeOK, SlotInv, NEW f \in File, NEW d, task[f] \in Running, Returns(f, d)
  PROVE  /\ task'[f] = "returned"
         /\ \A g \in File : g # f =>
               task'[g] = task[g] \/ (task[g] = "none" /\ task'[g] = "opening")
         /\ \/ chan' = [chan EXCEPT ![f] = chan[f] \o d]
            \/ \E k \in 0..Len(chan[f] \o d) :
                  chan' = [chan EXCEPT ![f] = SubSeq(chan[f] \o d, 1, k)]
<1> DEFINE tsk == [task EXCEPT ![f] = "returned"]
<1>1. /\ queue \in Seq(File) /\ active \ {f} \in SUBSET File /\ tsk \in [File -> TaskState]
      /\ Elems(queue) \subseteq File
  BY ElementOfSeq DEF TypeOK, SenderType, TaskState, Elems
<1>2. \A g \in Elems(queue) : g # f /\ tsk[g] = "none"
  BY <1>1 DEF SlotInv, SlotsWellUsed, Elems, Queued, TypeOK, SenderType
<1>3. schedule(queue, active \ {f}, tsk)
  BY DEF Returns
<1>4. \A g \in File : tsk[g] = IF g = f THEN "returned" ELSE task[g]
  BY DEF TypeOK, SenderType
<1> HIDE DEF tsk
<1>5. \A g \in File : task'[g] = tsk[g] \/ (tsk[g] = "none" /\ task'[g] = "opening")
  BY <1>1, <1>2, <1>3, ScheduleTasks
<1>6. \/ chan' = [chan EXCEPT ![f] = chan[f] \o d]
      \/ \E k \in 0..Len(chan[f] \o d) : chan' = [chan EXCEPT ![f] = SubSeq(chan[f] \o d, 1, k)]
  BY DEF Returns, Send, SendAndClose
<1> QED BY <1>4, <1>5, <1>6

(* A task that returns leaves a part of the file's stream behind. *)
LEMMA ReturnsStream ==
  ASSUME TypeOK, SlotInv, NEW f \in File, NEW b \in Nat, NEW d \in Seq(Frame),
         At(f, b), task[f] \in Running,
         b + Len(chan[f]) + Len(d) <= Size[f] + 2,
         \A i \in 1..Len(d) : d[i] = Item(f, b + Len(chan[f]) + i - 1),
         Returns(f, d), UNCHANGED receiver
  PROVE  At(f, b)'
<1>1. chan[f] \in Seq(Frame) /\ chan \in [File -> Seq(Frame)]
  BY DEF TypeOK, WireType
<1>2. \A i \in 1..Len(chan[f]) : chan[f][i] = Item(f, b + i - 1)
  BY DEF At
<1> DEFINE w == chan[f] \o d
<1>3. /\ w \in Seq(Frame) /\ Len(w) = Len(chan[f]) + Len(d)
      /\ \A i \in 1..Len(w) : w[i] = Item(f, b + i - 1)
  BY <1>1, <1>2, ItemsAppended
<1>4. /\ task'[f] = "returned"
      /\ \/ chan' = [chan EXCEPT ![f] = w]
         \/ \E k \in 0..Len(w) : chan' = [chan EXCEPT ![f] = SubSeq(w, 1, k)]
  BY ReturnsShape
<1>5. Len(chan[f]) \in Nat /\ Len(d) \in Nat /\ Size[f] \in Nat
  BY <1>1, TransferAssumption
<1> HIDE DEF w
<1>6. /\ b + Len(chan'[f]) <= Size[f] + 2
      /\ \A i \in 1..Len(chan'[f]) : chan'[f][i] = Item(f, b + i - 1)
  <2>1. CASE chan' = [chan EXCEPT ![f] = w]
    BY <1>1, <1>3, <1>5, <2>1
  <2>2. ASSUME NEW k \in 0..Len(w), chan' = [chan EXCEPT ![f] = SubSeq(w, 1, k)] PROVE <1>6!:
    <3>0. Len(SubSeq(w, 1, k)) = k /\ \A i \in 1..k : SubSeq(w, 1, k)[i] = Item(f, b + i - 1)
      BY <1>3, ItemsCut
    <3>1. chan'[f] = SubSeq(w, 1, k) /\ Len(chan'[f]) = k /\ k <= Len(chan[f]) + Len(d) /\ k \in Nat
      BY <1>1, <1>3, <1>5, <2>2, <3>0
    <3>2. b + k <= Size[f] + 2
      BY <1>5, <3>1
    <3> QED BY <3>0, <3>1, <3>2
  <2> QED BY <1>4, <2>1, <2>2
<1> QED BY <1>4, <1>6 DEF At, receiver

(* A task that goes on has sent the next frames of the file. *)
LEMMA SendStream ==
  ASSUME TypeOK, NEW f \in File, NEW b \in Nat, NEW d \in Seq(Frame), At(f, b),
         \A i \in 1..Len(d) : d[i] = Item(f, b + Len(chan[f]) + i - 1),
         Send(f, d), UNCHANGED receiver, task'[f] \in {"reading", "parked"},
         b + Len(chan[f]) + Len(d) = sent'[f] + 1, sent'[f] \in Nat, sent'[f] <= Size[f]
  PROVE  At(f, b)'
<1>1. chan[f] \in Seq(Frame) /\ chan'[f] = chan[f] \o d
  BY DEF Send, TypeOK, WireType
<1>2. \A i \in 1..Len(chan[f]) : chan[f][i] = Item(f, b + i - 1)
  BY DEF At
<1>3. /\ Len(chan'[f]) = Len(chan[f]) + Len(d)
      /\ \A i \in 1..Len(chan'[f]) : chan'[f][i] = Item(f, b + i - 1)
  <2> DEFINE w == chan[f] \o d
  <2>1. /\ w \in Seq(Frame) /\ Len(w) = Len(chan[f]) + Len(d)
        /\ \A i \in 1..Len(w) : w[i] = Item(f, b + i - 1)
    BY <1>1, <1>2, ItemsAppended
  <2>2. chan'[f] = w
    BY <1>1
  <2> HIDE DEF w
  <2> QED BY <2>1, <2>2
<1>4. Len(chan[f]) \in Nat /\ Len(d) \in Nat /\ Size[f] \in Nat
  BY <1>1, TransferAssumption
<1>5. b + Len(chan'[f]) <= Size[f] + 2 /\ b + Len(chan'[f]) = sent'[f] + 1
  BY <1>3, <1>4
<1> QED BY <1>3, <1>5 DEF At, receiver

(* Every step of a sending task. *)
LEMMA TaskStream ==
  ASSUME TypeOK, SlotInv, StreamInv, NEW f \in File, Task(f) \/ ReadFails(f)
  PROVE  StreamInv'
<1>1. Size \in [File -> Nat] /\ sent[f] \in Nat /\ sent[f] <= Size[f] /\ Slab \in Nat \ {0}
  BY TransferAssumption DEF TypeOK, SenderType
<1>2. UNCHANGED receiver /\ task[f] \in Running /\ chan \in [File -> Seq(Frame)]
  BY DEF Task, ChannelOpens, SlabRead, BufferLow, ReadFails, Running, TypeOK, WireType
<1>3. SlabEnd(f, sent[f]) <= Size[f] /\ SlabEnd(f, sent[f]) \in Int
  <2> DEFINE e == (sent[f] \div Slab + 1) * Slab
  <2>1. ASSUME NEW m \in Nat, NEW k \in Nat \ {0} PROVE (m \div k + 1) * k \in Int
    OBVIOUS
  <2>2. e \in Int
    BY <1>1, <2>1
  <2>3. SlabEnd(f, sent[f]) = IF e <= Size[f] THEN e ELSE Size[f]
    BY DEF SlabEnd
  <2> HIDE DEF e
  <2>4. Size[f] \in Int
    BY <1>1
  <2> QED BY <2>2, <2>3, <2>4
<1>4. PICK b \in 0..(Size[f] + 2) : At(f, b)
  BY DEF StreamInv
<1>5. b \in Nat
  BY <1>1
<1>6. ASSUME UNCHANGED sent, Returns(f, <<>>) PROVE At(f, b)'
  <2>1. <<>> \in Seq(Frame) /\ Len(<<>>) = 0
    OBVIOUS
  <2>2. b + Len(chan[f]) + 0 <= Size[f] + 2
    BY <1>1, <1>2, <1>4, <1>5 DEF At
  <2>3. \A i \in 1..0 : <<>>[i] = Item(f, b + Len(chan[f]) + i - 1)
    OBVIOUS
  <2> QED BY <1>2, <1>4, <1>5, <1>6, <2>1, <2>2, <2>3, ReturnsStream
<1>7. ASSUME NEW n \in Nat, sent[f] <= n, n <= Size[f], Streams(f, n), task[f] \in {"reading", "parked"}
      PROVE  At(f, b)'
  <2> DEFINE d == Chunks(sent[f], n)
             e == Append(d, End)
  <2>1. b + Len(chan[f]) = sent[f] + 1 /\ Len(chan[f]) \in Nat
    BY <1>2, <1>4, <1>7 DEF At
  <2>2. /\ d \in Seq(Frame) /\ Len(d) = n - sent[f]
        /\ \A i \in 1..Len(d) : d[i] = Item(f, sent[f] + 1 + i - 1)
        /\ n = Size[f] => /\ e \in Seq(Frame) /\ Len(e) = n - sent[f] + 1
                         /\ \A i \in 1..Len(e) : e[i] = Item(f, sent[f] + 1 + i - 1)
    BY <1>1, <1>7, ChunkItems
  <2>3. sent'[f] = n
    BY <1>7 DEF Streams, TypeOK, SenderType
  <2>4. \/ n = Size[f] /\ Returns(f, e)
        \/ Send(f, d) /\ task' = [task EXCEPT ![f] = IF n = SlabEnd(f, sent[f]) THEN "reading" ELSE "parked"]
    BY <1>7 DEF Streams
  <2> HIDE DEF d, e
  <2>5. CASE n = Size[f] /\ Returns(f, e)
    <3>1. b + Len(chan[f]) + Len(e) <= Size[f] + 2
      BY <1>1, <2>1, <2>2, <2>5
    <3> QED BY <1>2, <1>4, <1>5, <2>1, <2>2, <2>5, <3>1, ReturnsStream
  <2>6. CASE Send(f, d) /\ task' = [task EXCEPT ![f] = IF n = SlabEnd(f, sent[f]) THEN "reading" ELSE "parked"]
    <3>1. b + Len(chan[f]) + Len(d) = sent'[f] + 1
      BY <1>1, <2>1, <2>2, <2>3
    <3>2. task'[f] \in {"reading", "parked"}
      BY <2>6 DEF TypeOK, SenderType
    <3>3. \A i \in 1..Len(d) : d[i] = Item(f, b + Len(chan[f]) + i - 1)
      BY <2>1, <2>2
    <3> QED BY <1>2, <1>4, <1>5, <1>7, <2>2, <2>3, <2>6, <3>1, <3>2, <3>3, SendStream
  <2> QED BY <2>4, <2>5, <2>6
<1>8. ASSUME ChannelOpens(f) PROVE At(f, b)'
  <2>1. task[f] = "opening" /\ b = 0 /\ chan[f] = <<>> /\ sent[f] = 0 /\ UNCHANGED sent
    BY <1>4, <1>8 DEF ChannelOpens, At
  <2>2. Start = Item(f, 0) /\ (Size[f] = 0 => End = Item(f, 1))
    BY <1>1 DEF Item
  <2>3. CASE Size[f] = 0 /\ Returns(f, <<Start, End>>)
    <3> DEFINE d == <<Start, End>>
    <3>1. d \in Seq(Frame) /\ Len(d) = 2 /\ d[1] = Start /\ d[2] = End
      BY FrameType
    <3> HIDE DEF d
    <3>2. \A i \in 1..Len(d) : d[i] = Item(f, b + Len(chan[f]) + i - 1)
      <4>1. \A i \in 1..2 : (i = 1 /\ 0 + 0 + i - 1 = 0) \/ (i = 2 /\ 0 + 0 + i - 1 = 1)
        OBVIOUS
      <4> QED BY <2>1, <2>2, <2>3, <3>1, <4>1
    <3>3. b + Len(chan[f]) + Len(d) <= Size[f] + 2
      BY <1>1, <2>1, <3>1
    <3>4. Returns(f, d)
      BY <2>3 DEF d
    <3> QED BY <1>2, <1>4, <1>5, <3>1, <3>2, <3>3, <3>4, ReturnsStream
  <2>4. <<Start>> \in Seq(Frame) /\ Len(<<Start>>) = 1 /\ \A i \in 1..1 : <<Start>>[i] = Item(f, 0 + 0 + i - 1)
    BY <2>2, FrameType
  <2>5. CASE Size[f] > 0 /\ Returns(f, <<Start>>)
    <3>1. b + Len(chan[f]) + 1 <= Size[f] + 2
      BY <1>1, <2>1, <2>5
    <3> QED BY <1>2, <1>4, <1>5, <2>1, <2>4, <2>5, <3>1, ReturnsStream
  <2>6. CASE Send(f, <<Start>>) /\ task' = [task EXCEPT ![f] = "reading"]
    <3>1. task'[f] = "reading"
      BY <2>6 DEF TypeOK, SenderType
    <3>2. b + Len(chan[f]) + 1 = sent'[f] + 1 /\ sent'[f] \in Nat /\ sent'[f] <= Size[f]
      BY <1>1, <2>1
    <3> QED BY <1>2, <1>4, <1>5, <2>1, <2>4, <2>6, <3>1, <3>2, SendStream
  <2> QED BY <1>8, <2>3, <2>5, <2>6 DEF ChannelOpens
<1>9. ASSUME SlabRead(f) PROVE At(f, b)'
  <2>1. CASE \E n \in sent[f]..SlabEnd(f, sent[f]) : Streams(f, n)
    <3>1. PICK n \in sent[f]..SlabEnd(f, sent[f]) : Streams(f, n)
      BY <2>1
    <3>2. n \in Nat /\ sent[f] <= n /\ n <= Size[f]
      BY <1>1, <1>3
    <3> QED BY <1>7, <1>9, <3>1, <3>2 DEF SlabRead
  <2>2. CASE task' = [task EXCEPT ![f] = "parked"] /\ UNCHANGED <<sent, files>>
    <3>1. task'[f] = "parked" /\ task[f] = "reading"
      BY <1>9, <2>2 DEF SlabRead, TypeOK, SenderType
    <3> QED BY <1>2, <1>4, <2>2, <3>1 DEF At, receiver, files
  <2> QED BY <1>6, <1>9, <2>1, <2>2 DEF SlabRead
<1>10. ASSUME BufferLow(f) PROVE At(f, b)'
  <2>1. CASE \E n \in (sent[f] + 1)..SlabEnd(f, sent[f]) : Streams(f, n)
    <3>1. PICK n \in (sent[f] + 1)..SlabEnd(f, sent[f]) : Streams(f, n)
      BY <2>1
    <3>2. n \in Nat /\ sent[f] <= n /\ n <= Size[f]
      BY <1>1, <1>3
    <3> QED BY <1>7, <1>10, <3>1, <3>2 DEF BufferLow
  <2> QED BY <1>6, <1>10, <2>1 DEF BufferLow
<1>11. ASSUME ReadFails(f) PROVE At(f, b)'
  BY <1>6, <1>11 DEF ReadFails
<1>12. At(f, b)'
  BY <1>8, <1>9, <1>10, <1>11 DEF Task
<1>13. ASSUME NEW g \in File, g # f PROVE \E c \in 0..(Size[g] + 2) : At(g, c)'
  <2>1. PICK c \in 0..(Size[g] + 2) : At(g, c)
    BY DEF StreamInv
  <2>2. c \in Nat
    BY <1>1
  <2>3. ASSUME NEW d, Returns(f, d)
        PROVE  /\ chan'[g] = chan[g]
               /\ task'[g] = task[g] \/ (task[g] = "none" /\ task'[g] = "opening")
    BY <1>2, <1>13, <2>3, ReturnsShape
  <2>4. ASSUME NEW d, Send(f, d) PROVE chan'[g] = chan[g]
    BY <1>2, <1>13, <2>4 DEF Send
  <2>5. ASSUME NEW t, task' = [task EXCEPT ![f] = t] PROVE task'[g] = task[g]
    BY <1>13, <2>5 DEF TypeOK, SenderType
  <2>6. ASSUME NEW n, Streams(f, n)
        PROVE  /\ chan'[g] = chan[g] /\ sent'[g] = sent[g]
               /\ task'[g] = task[g] \/ (task[g] = "none" /\ task'[g] = "opening")
    <3>1. sent'[g] = sent[g]
      BY <1>13, <2>6 DEF Streams, TypeOK, SenderType
    <3> QED BY <2>3, <2>4, <2>5, <2>6, <3>1 DEF Streams
  <2>7. /\ chan'[g] = chan[g] /\ sent'[g] = sent[g]
        /\ task'[g] = task[g] \/ (task[g] = "none" /\ task'[g] = "opening")
    <3>1. CASE ChannelOpens(f)
      BY <2>3, <2>4, <2>5, <3>1 DEF ChannelOpens
    <3>2. CASE SlabRead(f)
      BY <2>3, <2>5, <2>6, <3>2 DEF SlabRead, files
    <3>3. CASE BufferLow(f)
      BY <2>3, <2>6, <3>3 DEF BufferLow
    <3>4. CASE ReadFails(f)
      BY <2>3, <3>4 DEF ReadFails
    <3> QED BY <3>1, <3>2, <3>3, <3>4 DEF Task
  <2>8. At(g, c)'
    BY <1>2, <2>1, <2>2, <2>7, AtKept DEF receiver
  <2> QED BY <2>8
<1> QED BY <1>12, <1>13 DEF StreamInv

(* The receive router takes the next frame of the stream: Start makes an   *)
(* entry, a chunk is the next one the entry lacks, End finds it complete.  *)
LEMMA FramesStream ==
  ASSUME TypeOK, StreamInv, NEW f \in File, Frames(f)
  PROVE  StreamInv'
<1>1. Size[f] \in Nat /\ chan \in [File -> Seq(Frame)]
  BY TransferAssumption DEF TypeOK, WireType
<1>2. PICK b \in 0..(Size[f] + 2) : At(f, b)
  BY DEF StreamInv
<1> DEFINE c == chan[f]
<1>3. c # <<>> /\ chan' = [chan EXCEPT ![f] = Tail(c)] /\ UNCHANGED tasks
  BY DEF Frames, RecvStart, RecvChunk, RecvEnd, Receives
<1>4. /\ Len(c) \in Nat \ {0} /\ Len(Tail(c)) = Len(c) - 1
      /\ Head(c) = c[1] /\ \A i \in 1..Len(Tail(c)) : Tail(c)[i] = c[i + 1]
  BY <1>1, <1>3, HeadTailProperties
<1>5. /\ b + Len(c) <= Size[f] + 2 /\ \A i \in 1..Len(c) : c[i] = Item(f, b + i - 1)
      /\ task[f] \in {"none", "opening"} => c = <<>>
      /\ task[f] \in {"reading", "parked"} => b + Len(c) = sent[f] + 1
  BY <1>2 DEF At
<1>6. chan'[f] = Tail(c)
  BY <1>1, <1>3
<1> HIDE DEF c
<1>7. b \in Nat /\ b <= Size[f] + 1
  BY <1>1, <1>4, <1>5
<1>8. Head(c) = Item(f, b)
  <2>1. c[1] = Item(f, b + 1 - 1) /\ b + 1 - 1 = b
    BY <1>4, <1>5, <1>7
  <2> QED BY <1>4, <2>1
<1>9. /\ (b + 1) + Len(chan'[f]) <= Size[f] + 2
      /\ \A i \in 1..Len(chan'[f]) : chan'[f][i] = Item(f, (b + 1) + i - 1)
      /\ task'[f] \in {"none", "opening"} => FALSE
      /\ task'[f] \in {"reading", "parked"} => (b + 1) + Len(chan'[f]) = sent'[f] + 1
  <2>1. \A i \in 1..Len(Tail(c)) : i + 1 \in 1..Len(c) /\ b + (i + 1) - 1 = (b + 1) + i - 1
    BY <1>4, <1>7
  <2>2. \A i \in 1..Len(Tail(c)) : Tail(c)[i] = Item(f, (b + 1) + i - 1)
    <3>1. ASSUME NEW i \in 1..Len(Tail(c)) PROVE Tail(c)[i] = Item(f, (b + 1) + i - 1)
      <4>1. c[i + 1] = Item(f, b + (i + 1) - 1)
        BY <1>5, <2>1
      <4> QED BY <1>4, <2>1, <4>1
    <3> QED BY <3>1
  <2>3. (b + 1) + (Len(c) - 1) = b + Len(c)
    BY <1>4, <1>7
  <2> QED BY <1>3, <1>4, <1>5, <1>6, <2>2, <2>3 DEF tasks
<1>10. /\ f \in cur <=> b >= 1
       /\ f \in DOMAIN incoming => 1 <= b /\ b <= Size[f] + 1 /\ incoming[f] = Prefix(b - 1)
       /\ saved[f] = <<>>
  BY <1>1, <1>2, <1>7 DEF At
<1>11. At(f, b + 1)'
  <2>1. CASE RecvStart(f)
    <3>1. b = 0
      BY <1>7, <1>8, <2>1 DEF RecvStart, Receives, Item, Start, Chunk, End, c
    <3>2. incoming' = Put(incoming, f, <<>>) /\ cur' = cur \cup {f} /\ saved' = saved
      BY <1>10, <2>1, <3>1 DEF RecvStart
    <3>3. f \in DOMAIN incoming' /\ incoming'[f] = Prefix(0)
      BY <3>2 DEF Put, Prefix
    <3>4. (b + 1) - 1 = 0 /\ b + 1 >= 1 /\ 1 <= b + 1 /\ b + 1 <= Size[f] + 1
      BY <1>1, <3>1
    <3> QED BY <1>9, <1>10, <3>2, <3>3, <3>4 DEF At
  <2>2. CASE RecvChunk(f)
    <3>1. 1 <= b /\ b <= Size[f] /\ Head(c).chunk = b
      BY <1>1, <1>7, <1>8, <2>2 DEF RecvChunk, Receives, Item, Start, Chunk, End, c
    <3>2. cur' = cur /\ saved' = saved
      BY <2>2 DEF RecvChunk
    <3>3. f \in DOMAIN incoming' => f \in DOMAIN incoming /\ incoming'[f] = Append(Prefix(b - 1), b)
      BY <1>10, <2>2, <3>1 DEF RecvChunk, c
    <3>4. Append(Prefix(b - 1), b) = Prefix(b)
      BY <1>7, <3>1 DEF Prefix
    <3>5. (b + 1) - 1 = b /\ b + 1 >= 1 /\ 1 <= b + 1 /\ b + 1 <= Size[f] + 1
      BY <1>1, <1>7, <3>1
    <3> QED BY <1>9, <1>10, <3>1, <3>2, <3>3, <3>4, <3>5 DEF At
  <2>3. CASE RecvEnd(f)
    <3>1. b = Size[f] + 1
      BY <1>1, <1>7, <1>8, <2>3 DEF RecvEnd, Receives, Item, Start, Chunk, End, c
    <3>2. cur' = cur /\ b >= 1 /\ b + 1 >= 1 /\ b + 1 = Size[f] + 2 /\ b - 1 = Size[f]
      <4>1. cur' = cur
        BY <2>3 DEF RecvEnd
      <4>2. b >= 1 /\ b + 1 >= 1 /\ b + 1 = Size[f] + 2 /\ b - 1 = Size[f]
        BY <1>1, <3>1
      <4> QED BY <4>1, <4>2
    <3>3. f \in cur
      BY <1>10, <3>2
    <3>4. CASE f \in DOMAIN incoming
      <4>1. incoming[f] = Prefix(Size[f])
        BY <1>10, <3>2, <3>4
      <4>2. saved' = [saved EXCEPT ![f] = Append(@, incoming[f])] /\ incoming' = Drop(incoming, f)
        BY <2>3, <3>3, <3>4 DEF RecvEnd, finalize_recv
      <4>3. saved'[f] = Append(<<>>, Prefix(Size[f])) /\ f \notin DOMAIN incoming'
        BY <1>10, <4>1, <4>2 DEF Drop, TypeOK, ReceiverType
      <4>4. Append(<<>>, Prefix(Size[f])) = <<Prefix(Size[f])>>
        OBVIOUS
      <4> QED BY <1>9, <1>10, <3>2, <3>3, <4>3, <4>4 DEF At
    <3>5. CASE f \notin DOMAIN incoming
      <4>1. saved' = saved /\ incoming' = incoming
        BY <2>3, <3>3, <3>5 DEF RecvEnd, finalize_recv
      <4> QED BY <1>9, <1>10, <3>2, <3>3, <3>5, <4>1 DEF At
    <3> QED BY <3>4, <3>5
  <2> QED BY <2>1, <2>2, <2>3 DEF Frames
<1>12. b + 1 \in 0..(Size[f] + 2)
  BY <1>1, <1>7
<1>13. ASSUME NEW g \in File, g # f PROVE \E a \in 0..(Size[g] + 2) : At(g, a)'
  <2>1. PICK a \in 0..(Size[g] + 2) : At(g, a)
    BY DEF StreamInv
  <2>2. chan'[g] = chan[g] /\ task'[g] = task[g] /\ sent'[g] = sent[g]
    BY <1>1, <1>3, <1>13 DEF tasks
  <2>3. g \in cur' <=> g \in cur
    BY <1>13 DEF Frames, RecvStart, RecvChunk, RecvEnd
  <2>4. saved'[g] = saved[g]
    BY <1>13 DEF Frames, RecvStart, RecvChunk, RecvEnd, finalize_recv, TypeOK, ReceiverType
  <2>5. g \in DOMAIN incoming' => g \in DOMAIN incoming /\ incoming'[g] = incoming[g]
    BY <1>13 DEF Frames, RecvStart, RecvChunk, RecvEnd, finalize_recv, Put, Drop
  <2>6. a \in Nat
    BY TransferAssumption
  <2>7. At(g, a)'
    BY <2>1, <2>2, <2>3, <2>4, <2>5, <2>6, AtKept
  <2> QED BY <2>7
<1> QED BY <1>11, <1>12, <1>13 DEF StreamInv

(* Any other step may drop an entry or create a task, and does no more to  *)
(* the streams.                                                            *)
LEMMA OthersStream ==
  ASSUME StreamInv, UNCHANGED <<chan, sent, cur, saved>>,
         \A f \in File : task'[f] = task[f] \/ (task[f] = "none" /\ task'[f] = "opening"),
         incoming' = incoming \/ \E f \in File : incoming' = Drop(incoming, f)
  PROVE  StreamInv'
<1>1. ASSUME NEW g \in File PROVE \E a \in 0..(Size[g] + 2) : At(g, a)'
  <2>1. PICK a \in 0..(Size[g] + 2) : At(g, a)
    BY DEF StreamInv
  <2>2. a \in Nat
    BY TransferAssumption
  <2>3. g \in DOMAIN incoming' => g \in DOMAIN incoming /\ incoming'[g] = incoming[g]
    BY DEF Drop
  <2>4. At(g, a)'
    BY <2>1, <2>2, <2>3, AtKept
  <2> QED BY <2>4
<1> QED BY <1>1 DEF StreamInv

(* OnAccept creates tasks of files in the queue, which have none. *)
LEMMA AcceptTasks ==
  ASSUME TypeOK, SlotInv, NEW f \in File, OnAccept(f)
  PROVE  /\ Elems(enqueue_accepted(f)) \subseteq Queued \cup {f}
         /\ Queued' \subseteq Elems(enqueue_accepted(f))
         /\ \A g \in File : \/ task'[g] = task[g]
                            \/ /\ task[g] = "none" /\ task'[g] = "opening"
                               /\ g \in Elems(enqueue_accepted(f))
<1> DEFINE q == enqueue_accepted(f)
<1>1. queue \in Seq(File) /\ active \in SUBSET File /\ task \in [File -> TaskState] /\ schedule(q, active, task)
  BY DEF TypeOK, SenderType, OnAccept
<1>2. q \in Seq(File) /\ Elems(q) \subseteq Queued \cup {f} /\ Elems(q) \subseteq Queued \cup offered
  BY <1>1, AppendProperties DEF enqueue_accepted, Elems, Queued
<1> HIDE DEF q
<1>3. \A g \in Elems(q) : task[g] = "none"
  BY <1>2 DEF SlotInv, SlotsWellUsed
<1>4. Queued' \subseteq Elems(q)
  <2>1. Startable(q, active) \in 0..Len(q) /\ queue' = SubSeq(q, Startable(q, active) + 1, Len(q))
    BY <1>1, <1>2, StartableRange DEF schedule
  <2> DEFINE n == Startable(q, active)
  <2> HIDE DEF n
  <2>2. n \in 0..Len(q) /\ queue' = SubSeq(q, n + 1, Len(q))
    BY <2>1 DEF n
  <2>3. Len(queue') = Len(q) - n /\ \A i \in 1..Len(queue') : queue'[i] = q[n + i]
    BY <1>2, <2>2, SubSeqProperties
  <2>4. \A i \in 1..Len(queue') : n + i \in 1..Len(q)
    BY <1>2, <2>2, <2>3
  <2> QED BY <2>3, <2>4 DEF Queued, Elems
<1> QED BY <1>1, <1>2, <1>3, <1>4, ScheduleTasks DEF q

(* The streams are in order at the start. *)
LEMMA InitStream == Init => StreamInv /\ AcceptInv
<1> SUFFICES ASSUME Init PROVE StreamInv /\ AcceptInv
  OBVIOUS
<1>1. ASSUME NEW f \in File PROVE 0 \in 0..(Size[f] + 2) /\ At(f, 0)
  <2>1. Size[f] \in Nat
    BY TransferAssumption
  <2>2. chan[f] = <<>> /\ Len(chan[f]) = 0
    BY DEF Init
  <2> QED BY <2>1, <2>2 DEF Init, At
<1>2. AcceptInv
  BY DEF Init, AcceptInv, Queued
<1> QED BY <1>1, <1>2 DEF StreamInv

(* Every step keeps the streams in order. *)
LEMMA NextStream == TypeOK /\ SlotInv /\ StreamInv /\ [Next]_vars => StreamInv'
<1> SUFFICES ASSUME TypeOK, SlotInv, StreamInv, [Next]_vars PROVE StreamInv'
  OBVIOUS
<1>1. ASSUME UNCHANGED <<chan, tasks, cur, saved>>,
             incoming' = incoming \/ \E f \in File : incoming' = Drop(incoming, f)
      PROVE  StreamInv'
  BY <1>1, OthersStream DEF tasks
<1>2. ASSUME \E n \in File : OnFiles(n) PROVE StreamInv'
  BY <1>1, <1>2 DEF OnFiles, receiver, files
<1>3. ASSUME CtrlOpens \/ UserAcceptsAll PROVE StreamInv'
  BY <1>1, <1>3 DEF CtrlOpens, UserAcceptsAll, receiver, files
<1>4. ASSUME NEW f \in File, OnAccept(f) PROVE StreamInv'
  <2>1. UNCHANGED <<chan, sent, cur, saved, incoming>>
    BY <1>4 DEF OnAccept, receiver, files
  <2>2. \A g \in File : task'[g] = task[g] \/ (task[g] = "none" /\ task'[g] = "opening")
    BY <1>4, AcceptTasks
  <2> QED BY <2>1, <2>2, OthersStream
<1>5. ASSUME NEW f \in File, OnReject(f) \/ OnCancel(f) \/ UserAborts(f) PROVE StreamInv'
  BY <1>1, <1>5 DEF OnReject, OnCancel, UserAborts, receiver, files
<1>6. ASSUME NEW f \in File, CtrlR(f) PROVE StreamInv'
  BY <1>1, <1>6 DEF CtrlR, OnOffer, OnAbort, receiver, files
<1>7. ASSUME NEW f \in File, UserAccepts(f) \/ UserDeclines(f) \/ UserCancels(f) PROVE StreamInv'
  BY <1>1, <1>7 DEF UserAccepts, UserDeclines, UserCancels, CancelDownload, receiver, files
<1>8. ASSUME NEW side, Disconnects(side) \/ PeerLeft(side) \/ LinkLost(side) PROVE StreamInv'
  BY <1>1, <1>8 DEF Disconnects, PeerLeft, LinkLost, receiver, files
<1>9. CASE UNCHANGED vars
  BY <1>1, <1>9 DEF vars, receiver, files
<1> QED BY <1>2, <1>3, <1>4, <1>5, <1>6, <1>7, <1>8, <1>9, TaskStream, FramesStream DEF Next, CtrlS

(* Messages taken from toS and messages put there. *)
LEMMA AcceptWire ==
  ASSUME TypeOK, AcceptInv, accepted \subseteq accepted',
         \/ toS' = toS
         \/ toS # <<>> /\ toS' = Tail(toS)
         \/ \E ms \in Seq(Control) :
               /\ toS' = Ctrl("R", toS, ms)
               /\ \A i \in 1..Len(ms) : ms[i].type = "Accept" => ms[i].id \in accepted'
  PROVE  \A i \in 1..Len(toS') : toS'[i].type = "Accept" => toS'[i].id \in accepted'
<1>1. toS \in Seq(Control) /\ \A i \in 1..Len(toS) : toS[i].type = "Accept" => toS[i].id \in accepted'
  BY DEF TypeOK, WireType, AcceptInv
<1>2. CASE toS' = toS
  BY <1>1, <1>2
<1>3. CASE toS # <<>> /\ toS' = Tail(toS)
  <2>1. Len(toS') = Len(toS) - 1 /\ \A i \in 1..Len(toS') : toS'[i] = toS[i + 1]
    BY <1>1, <1>3, HeadTailProperties
  <2>2. \A i \in 1..Len(toS') : i + 1 \in 1..Len(toS)
    BY <1>1, <2>1
  <2> QED BY <1>1, <2>1, <2>2
<1>4. ASSUME NEW ms \in Seq(Control), toS' = Ctrl("R", toS, ms),
             \A i \in 1..Len(ms) : ms[i].type = "Accept" => ms[i].id \in accepted'
      PROVE  \A i \in 1..Len(toS') : toS'[i].type = "Accept" => toS'[i].id \in accepted'
  <2>1. CASE link["R"] = "open"
    <3>1. toS' = toS \o ms
      BY <1>4, <2>1 DEF Ctrl
    <3>2. /\ Len(toS') = Len(toS) + Len(ms)
          /\ \A i \in 1..Len(toS') : toS'[i] = IF i <= Len(toS) THEN toS[i] ELSE ms[i - Len(toS)]
      BY <1>1, <3>1, ConcatProperties
    <3>3. \A i \in 1..Len(toS') : IF i <= Len(toS) THEN i \in 1..Len(toS) ELSE i - Len(toS) \in 1..Len(ms)
      BY <1>1, <3>2
    <3> QED BY <1>1, <1>4, <3>2, <3>3
  <2>2. CASE link["R"] # "open"
    BY <1>1, <1>4, <2>2 DEF Ctrl
  <2> QED BY <2>1, <2>2
<1> QED BY <1>2, <1>3, <1>4

(* Only accepted files are queued and started. *)
LEMMA NextAccept == TypeOK /\ SlotInv /\ AcceptInv /\ [Next]_vars => AcceptInv'
<1> SUFFICES ASSUME TypeOK, SlotInv, AcceptInv, [Next]_vars PROVE AcceptInv'
  OBVIOUS
<1>0. toS \in Seq(Control) /\ queue \in Seq(File)
  BY DEF TypeOK, WireType, SenderType
<1> DEFINE Wire == \A i \in 1..Len(toS') : toS'[i].type = "Accept" => toS'[i].id \in accepted'
           Tasks == \A f \in File : task'[f] # "none" \/ f \in Queued' => f \in accepted'
<1>1. ASSUME Wire, accepted \subseteq accepted', Queued' \subseteq Queued,
             \A f \in File : task'[f] # "none" => task[f] # "none" \/ f \in Queued
      PROVE  AcceptInv'
  BY <1>1 DEF AcceptInv
<1>2. ASSUME accepted \subseteq accepted', toS' = toS \/ (toS # <<>> /\ toS' = Tail(toS)) PROVE Wire
  BY <1>2, AcceptWire
<1>3. ASSUME UNCHANGED <<queue, task>>, Wire, accepted \subseteq accepted' PROVE AcceptInv'
  BY <1>1, <1>3 DEF Queued
<1> HIDE DEF Wire
<1>4. ASSUME \E n \in File : OnFiles(n) PROVE AcceptInv'
  BY <1>2, <1>3, <1>4 DEF OnFiles, tasks, users
<1>5. ASSUME CtrlOpens PROVE AcceptInv'
  BY <1>2, <1>3, <1>5 DEF CtrlOpens, tasks, users
<1>6. ASSUME NEW f \in File, OnAccept(f) PROVE AcceptInv'
  <2>1. toS # <<>> /\ toS' = Tail(toS) /\ Head(toS) = Ctl("Accept", f) /\ accepted' = accepted
    BY <1>6 DEF OnAccept, ReadsS, users
  <2>2. f \in accepted
    <3>1. 1 \in 1..Len(toS) /\ toS[1] = Ctl("Accept", f)
      BY <1>0, <2>1, HeadTailProperties
    <3>2. toS[1].type = "Accept" /\ toS[1].id = f
      BY <3>1 DEF Ctl
    <3> QED BY <3>1, <3>2 DEF AcceptInv
  <2>3. Wire
    BY <1>2, <2>1
  <2>4. Tasks
    BY <1>6, <2>1, <2>2, AcceptTasks DEF AcceptInv
  <2> QED BY <2>3, <2>4 DEF AcceptInv, Wire
<1>7. ASSUME NEW f \in File, OnReject(f) \/ OnCancel(f) \/ UserAborts(f) PROVE AcceptInv'
  <2>1. accepted' = accepted /\ task' = task /\ (toS' = toS \/ (toS # <<>> /\ toS' = Tail(toS)))
    BY <1>7 DEF OnReject, OnCancel, UserAborts, ReadsS, users, tasks
  <2>2. queue' = queue \/ queue' = Retain(queue, f)
    BY <1>7 DEF OnReject, OnCancel, UserAborts, abort, cancel_outgoing
  <2>3. \A i \in 1..Len(queue') : \E j \in 1..Len(queue) : queue'[i] = queue[j]
    BY <1>0, <2>2, RetainType
  <2>4. Queued' \subseteq Queued
    BY <2>3 DEF Queued
  <2> QED BY <1>1, <1>2, <2>1, <2>4
<1>8. ASSUME NEW f \in File, Task(f) \/ ReadFails(f) PROVE AcceptInv'
  <2>1. UNCHANGED <<toS, accepted>> /\ task[f] # "none"
    BY <1>8 DEF Task, ChannelOpens, SlabRead, BufferLow, ReadFails, ctrl, users
  <2>2. Wire
    BY <1>2, <2>1
  <2>3. ASSUME NEW d, Returns(f, d) PROVE AcceptInv'
    <3>1. schedule(queue, active \ {f}, [task EXCEPT ![f] = "returned"])
      BY <2>3 DEF Returns
    <3> DEFINE n == Startable(queue, active \ {f})
    <3>2. n \in 0..Len(queue)
      BY <1>0, StartableRange DEF TypeOK, SenderType
    <3>3. queue' = SubSeq(queue, n + 1, Len(queue)) /\ Started(queue, active \ {f}) = {queue[i] : i \in 1..n}
      BY <3>1 DEF schedule, Started
    <3>4. \A g \in File : task'[g] = IF g \in Started(queue, active \ {f}) THEN "opening"
                                     ELSE [task EXCEPT ![f] = "returned"][g]
      BY <3>1 DEF schedule
    <3> HIDE DEF n
    <3>5. Started(queue, active \ {f}) \subseteq Queued
      <4>1. \A i \in 1..n : i \in 1..Len(queue)
        BY <1>0, <3>2
      <4> QED BY <3>3, <4>1 DEF Queued
    <3>6. Queued' \subseteq Queued
      <4>1. Len(queue') = Len(queue) - n /\ \A i \in 1..Len(queue') : queue'[i] = queue[n + i]
        BY <1>0, <3>2, <3>3, SubSeqProperties
      <4>2. \A i \in 1..Len(queue') : n + i \in 1..Len(queue)
        BY <1>0, <3>2, <4>1
      <4> QED BY <4>1, <4>2 DEF Queued
    <3>7. \A g \in File : task'[g] # "none" => task[g] # "none" \/ g \in Queued
      BY <2>1, <3>4, <3>5 DEF TypeOK, SenderType
    <3> QED BY <1>1, <2>1, <2>2, <3>6, <3>7
  <2>4. ASSUME NEW t, task' = [task EXCEPT ![f] = t], queue' = queue PROVE AcceptInv'
    BY <1>1, <2>1, <2>2, <2>4 DEF Queued, TypeOK, SenderType
  <2>5. ASSUME NEW n, Streams(f, n) PROVE AcceptInv'
    BY <2>3, <2>4, <2>5 DEF Streams
  <2>6. CASE ChannelOpens(f)
    BY <2>3, <2>4, <2>6 DEF ChannelOpens
  <2>7. CASE SlabRead(f)
    BY <2>3, <2>4, <2>5, <2>7 DEF SlabRead
  <2>8. CASE BufferLow(f)
    BY <2>3, <2>5, <2>8 DEF BufferLow
  <2>9. CASE ReadFails(f)
    BY <2>3, <2>9 DEF ReadFails
  <2> QED BY <1>8, <2>6, <2>7, <2>8, <2>9 DEF Task
<1>9. ASSUME NEW f \in File, CtrlR(f) \/ Frames(f) PROVE AcceptInv'
  BY <1>2, <1>3, <1>9 DEF CtrlR, OnOffer, OnAbort, Frames, RecvStart, RecvChunk, RecvEnd,
                          outgoing, tasks, ctrl, users
<1>10. ASSUME NEW f \in File, UserAccepts(f) \/ UserDeclines(f) \/ UserCancels(f) PROVE AcceptInv'
  <2>1. accepted \subseteq accepted' /\ UNCHANGED <<queue, task>>
    BY <1>10 DEF UserAccepts, UserDeclines, UserCancels, outgoing, tasks, users
  <2>2. \E t \in {"Accept", "Reject", "Cancel"} :
           toS' = Ctrl("R", toS, <<Ctl(t, f)>>) /\ (t = "Accept" => f \in accepted')
    BY <1>10 DEF UserAccepts, UserDeclines, UserCancels, CancelDownload
  <2>3. PICK t \in {"Accept", "Reject", "Cancel"} :
           toS' = Ctrl("R", toS, <<Ctl(t, f)>>) /\ (t = "Accept" => f \in accepted')
    BY <2>2
  <2> DEFINE ms == <<Ctl(t, f)>>
  <2>4. ms \in Seq(Control) /\ \A i \in 1..Len(ms) : ms[i].type = "Accept" => ms[i].id \in accepted'
    BY <2>3 DEF Ctl, Control
  <2>5. toS' = Ctrl("R", toS, ms)
    BY <2>3
  <2> HIDE DEF ms
  <2>6. Wire
    BY <2>1, <2>4, <2>5, AcceptWire DEF Wire
  <2> QED BY <1>3, <2>1, <2>6
<1>11. ASSUME UserAcceptsAll PROVE AcceptInv'
  <2> DEFINE ids == pending_incoming_ids(rrow)
  <2>1. accepted' = accepted \cup ids /\ UNCHANGED <<queue, task>>
    BY <1>11 DEF UserAcceptsAll, outgoing, tasks
  <2>2. ids \subseteq File /\ Cardinality(ids) \in Nat
    <3>1. ids \subseteq File
      BY DEF pending_incoming_ids, TypeOK, ReceiverType
    <3> QED BY <3>1, FileFinite, FS_Subset, FS_CardinalityType
  <2>3. PICK s \in InOrder(ids) : toS' = Ctrl("R", toS, [i \in 1..Len(s) |-> Ctl("Accept", s[i])])
    BY <1>11 DEF UserAcceptsAll
  <2> HIDE DEF ids
  <2>4. s \in Seq(File) /\ \A i \in 1..Len(s) : s[i] \in ids
    BY <2>2, <2>3 DEF InOrder
  <2> DEFINE ms == [i \in 1..Len(s) |-> Ctl("Accept", s[i])]
  <2>5. ms \in Seq(Control) /\ \A i \in 1..Len(ms) : ms[i].type = "Accept" => ms[i].id \in accepted'
    BY <2>1, <2>4 DEF Ctl, Control
  <2>6. toS' = Ctrl("R", toS, ms)
    BY <2>3
  <2> HIDE DEF ms
  <2>7. Wire
    BY <2>1, <2>5, <2>6, AcceptWire DEF Wire
  <2> QED BY <1>3, <2>1, <2>7
<1>12. ASSUME NEW side, Disconnects(side) \/ PeerLeft(side) \/ LinkLost(side) PROVE AcceptInv'
  BY <1>2, <1>3, <1>12 DEF Disconnects, PeerLeft, LinkLost, outgoing, tasks, ctrl, users
<1>13. CASE UNCHANGED vars
  BY <1>2, <1>3, <1>13 DEF vars, outgoing, tasks, ctrl, users
<1> QED BY <1>4, <1>5, <1>6, <1>7, <1>8, <1>9, <1>10, <1>11, <1>12, <1>13 DEF Next, CtrlS

(* The whole invariant of the transfer protocol. *)
TransferInv == TypeOK /\ SlotInv /\ StreamInv /\ AcceptInv

(* It holds in every reachable state. *)
THEOREM TransferInvariant == Spec => []TransferInv
<1>1. Init => TransferInv
  BY InitType, InitWell, InitStream DEF TransferInv
<1>2. TransferInv /\ [Next]_vars => TransferInv'
  BY NextType, NextWell, NextStream, NextAccept DEF TransferInv
<1> QED BY <1>1, <1>2, PTL DEF Spec

(* What the receiver downloads is the file: all its chunks in order, once, *)
(* for every file size, whatever is cancelled, aborted, cut off or torn    *)
(* down meanwhile (receive router and finalize_recv of transfer.rs).       *)
THEOREM TransferSavedIsComplete == Spec => []SavedIsComplete
<1>1. TransferInv => SavedIsComplete
  <2> SUFFICES ASSUME TransferInv, NEW f \in File
               PROVE  /\ Len(saved[f]) <= 1
                      /\ \A i \in 1..Len(saved[f]) : saved[f][i] = [j \in 1..Size[f] |-> j]
    BY DEF SavedIsComplete
  <2>1. saved[f] = <<>> \/ saved[f] = <<Prefix(Size[f])>>
    BY DEF TransferInv, StreamInv, At
  <2>2. CASE saved[f] = <<>>
    BY <2>2
  <2>3. CASE saved[f] = <<Prefix(Size[f])>>
    <3>1. Len(saved[f]) = 1 /\ saved[f][1] = Prefix(Size[f])
      BY <2>3
    <3> QED BY <3>1 DEF Prefix
  <2> QED BY <2>1, <2>2, <2>3
<1> QED BY <1>1, TransferInvariant, PTL

(* Nothing is streamed or saved that the receiving user did not accept     *)
(* (the Accept arm of the control router and the receive router).          *)
THEOREM TransferOnlyAccepted == Spec => []OnlyAccepted
<1>1. TransferInv => OnlyAccepted
  <2> SUFFICES ASSUME TransferInv, NEW f \in File, task[f] # "none" \/ f \in Queued \/ saved[f] # <<>>
               PROVE  f \in accepted
    BY DEF OnlyAccepted
  <2>1. saved[f] # <<>> => task[f] # "none"
    <3>1. Size[f] \in Nat
      BY TransferAssumption
    <3> QED BY <3>1 DEF TransferInv, StreamInv, At
  <2> QED BY <2>1 DEF TransferInv, AcceptInv
<1> QED BY <1>1, TransferInvariant, PTL

=============================================================================
