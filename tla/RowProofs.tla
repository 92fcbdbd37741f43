----------------------------- MODULE RowProofs -----------------------------
(***************************************************************************)
(* What the rows of the sender's tab say is true: a file that was saved is *)
(* shown as Done, a Cancelled row stays Cancelled while the connection is  *)
(* kept, and where nothing fails a Done row means a file fully sent.       *)
(***************************************************************************)
EXTENDS TransferProofs

(* A message is on the wire. *)
OfferedOn(f) == Ctl("Offer", f) \in Elems(toR)
Rejecting(f) == Ctl("Reject", f) \in Elems(toS)
Cancelling(f) == Ctl("Cancel", f) \in Elems(toS)

(* The sender has not offered the file yet. *)
Unoffered(f) == f >= nextId \/ f \in Ids(pending)

Once(w) == \A i, j \in 1..Len(w) : w[i].type = "Offer" /\ w[i] = w[j] => i = j

(* Ids are given out once: a row and a pending file have an id of the past.*)
IdInv ==
    /\ \A f \in DOMAIN srow : f < nextId
    /\ \A i, j \in 1..Len(pending) : pending[i] = pending[j] => i = j

(* A file is offered once, so the receiver's user answers it once: before  *)
(* the offer is read there is no row, and a rejected file has none either; *)
(* such a file is not accepted, and a cancelled one is.                    *)
OfferInv ==
    /\ Once(toR)
    /\ \A f \in File :
          /\ Unoffered(f) => ~OfferedOn(f)
          /\ Unoffered(f) \/ OfferedOn(f) => ~Rejecting(f)
          /\ Unoffered(f) \/ OfferedOn(f) \/ Rejecting(f) => f \notin DOMAIN rrow /\ f \notin accepted
          /\ Cancelling(f) => f \in accepted
          /\ f \in DOMAIN rrow /\ rrow[f] = "Offered" => f \notin accepted
          /\ f \in DOMAIN rrow /\ rrow[f] = "Active" => f \in accepted

(* The End of a file is on its channel or was read. *)
EndSent(f) == saved[f] # <<>> \/ \E i \in 1..Len(chan[f]) : chan[f][i].type = "End"

(* The End of a file that is not empty has been sent only by a task that   *)
(* was not cancelled, which has set the row to Done and returned.  A row   *)
(* is Cancelled, while the connection is kept, only for an accepted file   *)
(* whose task has returned or will find its flag set.                      *)
RowInv ==
    \A f \in File :
        /\ Size[f] > 0 /\ EndSent(f) => task[f] = "returned" /\ f \in DOMAIN srow /\ srow[f] = "Done"
        /\ f \in DOMAIN srow /\ srow[f] = "Cancelled" =>
              link["S"] = "torn" \/ (f \in accepted /\ (task[f] = "returned" \/ f \in cancelled))
        /\ f \in DOMAIN srow /\ srow[f] = "Active" => f \in accepted

-----------------------------------------------------------------------------
(* Messages on the wire.                                                   *)

(* A message is its type and its id. *)
LEMMA CtlFields ==
  /\ \A t, f : Ctl(t, f).type = t /\ Ctl(t, f).id = f
  /\ \A t, u, f, g : Ctl(t, f) = Ctl(u, g) => t = u /\ f = g
<1>1. \A t, f : Ctl(t, f).type = t /\ Ctl(t, f).id = f
  BY DEF Ctl
<1> QED BY <1>1

(* Reading the first message of a wire. *)
LEMMA TailElems ==
  ASSUME NEW w \in Seq(Control), w # <<>>
  PROVE  /\ Head(w) \in Elems(w) /\ Elems(Tail(w)) \subseteq Elems(w)
         /\ Once(w) => Once(Tail(w)) /\ (Head(w).type = "Offer" => Head(w) \notin Elems(Tail(w)))
<1> DEFINE t == Tail(w)
<1>1. /\ Len(w) \in Nat \ {0} /\ Len(t) = Len(w) - 1
      /\ Head(w) = w[1] /\ \A i \in 1..Len(t) : t[i] = w[i + 1]
  BY HeadTailProperties
<1>2. 1 \in 1..Len(w) /\ \A i \in 1..Len(t) : i + 1 \in 1..Len(w) /\ i + 1 # 1
  BY <1>1
<1> HIDE DEF t
<1>3. Head(w) \in Elems(w) /\ Elems(t) \subseteq Elems(w)
  BY <1>1, <1>2 DEF Elems
<1>4. ASSUME Once(w) PROVE Once(t)
  <2>1. ASSUME NEW i \in 1..Len(t), NEW j \in 1..Len(t), t[i].type = "Offer", t[i] = t[j] PROVE i = j
    <3>1. i + 1 = j + 1
      BY <1>1, <1>2, <1>4, <2>1 DEF Once
    <3> QED BY <1>1, <3>1
  <2> QED BY <2>1 DEF Once
<1>5. ASSUME Once(w), Head(w).type = "Offer" PROVE Head(w) \notin Elems(t)
  BY <1>1, <1>2, <1>5 DEF Once, Elems
<1> QED BY <1>3, <1>4, <1>5 DEF t

(* Sending messages, none of which is an offer already on the wire. *)
LEMMA CtrlElems ==
  ASSUME NEW side, NEW w \in Seq(Control), NEW ms \in Seq(Control)
  PROVE  /\ Elems(Ctrl(side, w, ms)) \subseteq Elems(w) \cup Elems(ms)
         /\ Elems(w \o ms) \subseteq Elems(w) \cup Elems(ms)
         /\ Once(w) /\ Once(ms) /\ (\A m \in Elems(w) \cap Elems(ms) : m.type # "Offer")
               => Once(Ctrl(side, w, ms)) /\ Once(w \o ms)
<1> DEFINE v == w \o ms
<1>1. /\ Len(v) = Len(w) + Len(ms) /\ Len(w) \in Nat /\ Len(ms) \in Nat
      /\ \A i \in 1..Len(v) : v[i] = IF i <= Len(w) THEN w[i] ELSE ms[i - Len(w)]
  BY ConcatProperties
<1>2. \A i \in 1..Len(v) : IF i <= Len(w) THEN i \in 1..Len(w) ELSE i - Len(w) \in 1..Len(ms)
  BY <1>1
<1> HIDE DEF v
<1>3. Elems(v) \subseteq Elems(w) \cup Elems(ms)
  BY <1>1, <1>2 DEF Elems
<1>4. ASSUME Once(w), Once(ms), \A m \in Elems(w) \cap Elems(ms) : m.type # "Offer" PROVE Once(v)
  <2> SUFFICES ASSUME NEW i \in 1..Len(v), NEW j \in 1..Len(v), v[i].type = "Offer", v[i] = v[j]
               PROVE  i = j
    BY DEF Once
  <2>1. CASE i <= Len(w) /\ j <= Len(w)
    BY <1>1, <1>2, <1>4, <2>1 DEF Once
  <2>2. CASE i > Len(w) /\ j > Len(w)
    <3>1. v[i] = ms[i - Len(w)] /\ v[j] = ms[j - Len(w)]
          /\ i - Len(w) \in 1..Len(ms) /\ j - Len(w) \in 1..Len(ms)
      BY <1>1, <1>2, <2>2
    <3>2. i - Len(w) = j - Len(w)
      BY <1>4, <3>1 DEF Once
    <3> QED BY <1>1, <3>2
  <2>3. CASE ~(i <= Len(w) <=> j <= Len(w))
    <3>1. v[i] \in Elems(w) \cap Elems(ms)
      BY <1>1, <1>2, <2>3 DEF Elems
    <3> QED BY <1>4, <3>1
  <2> QED BY <1>1, <2>1, <2>2, <2>3
<1> QED BY <1>3, <1>4 DEF v, Ctrl

(* The offers of a batch without repetitions. *)
LEMMA OffersElems ==
  ASSUME NEW b \in Seq(File)
  PROVE  /\ Offers(b) \in Seq(Control) /\ Ids(b) \subseteq File
         /\ \A m \in Elems(Offers(b)) : \E f \in Ids(b) : m = Ctl("Offer", f)
         /\ (\A i, j \in 1..Len(b) : b[i] = b[j] => i = j) => Once(Offers(b))
<1>1. Ids(b) \subseteq File
  BY ElementOfSeq DEF Ids
<1> DEFINE o == Offers(b)
<1>2. o \in Seq(Control) /\ Len(o) = Len(b) /\ \A i \in 1..Len(b) : o[i] = Ctl("Offer", b[i])
  BY DEF Offers, Ctl, Control
<1> HIDE DEF o
<1>3. \A m \in Elems(o) : \E f \in Ids(b) : m = Ctl("Offer", f)
  BY <1>2 DEF Elems, Ids
<1>4. ASSUME \A i, j \in 1..Len(b) : b[i] = b[j] => i = j PROVE Once(o)
  <2>1. \A i \in 1..Len(b) : o[i].id = b[i]
    BY <1>2, CtlFields
  <2> QED BY <1>2, <1>4, <2>1 DEF Once
<1> QED BY <1>1, <1>2, <1>3, <1>4 DEF o

-----------------------------------------------------------------------------
(* The offers and their answers.                                           *)

(* What a step may do to the messages about one file ... *)
WireMoves(f) ==
    /\ Unoffered(f)' => Unoffered(f) /\ ~OfferedOn(f)'
    /\ OfferedOn(f)' => OfferedOn(f) \/ Unoffered(f)
    /\ Rejecting(f)' => \/ Rejecting(f)
                        \/ f \in DOMAIN rrow /\ f \notin DOMAIN rrow' /\ f \notin accepted'
    /\ Cancelling(f)' => Cancelling(f) \/ f \in accepted

(* ... and to its row and its acceptance in the receiver's tab. *)
AnswerMoves(f) ==
    /\ f \in accepted => f \in accepted'
    /\ f \in accepted' => f \in accepted \/ f \in DOMAIN rrow
    /\ f \in DOMAIN rrow' =>
          \/ f \in DOMAIN rrow /\ rrow'[f] = rrow[f] /\ (f \in accepted' => f \in accepted)
          \/ f \in DOMAIN rrow /\ rrow'[f] = "Cancelled"
          \/ f \in accepted' /\ rrow'[f] # "Offered"
          \/ OfferedOn(f) /\ ~OfferedOn(f)' /\ rrow'[f] = "Offered" /\ f \notin accepted'

(* Those moves keep the invariant. *)
LEMMA MovesKeepOffers ==
  ASSUME OfferInv, Once(toR'), \A f \in File : WireMoves(f) /\ AnswerMoves(f)
  PROVE  OfferInv'
<1> SUFFICES ASSUME NEW f \in File
             PROVE  /\ Unoffered(f)' => ~OfferedOn(f)'
                    /\ Unoffered(f)' \/ OfferedOn(f)' => ~Rejecting(f)'
                    /\ Unoffered(f)' \/ OfferedOn(f)' \/ Rejecting(f)' => f \notin DOMAIN rrow' /\ f \notin accepted'
                    /\ Cancelling(f)' => f \in accepted'
                    /\ f \in DOMAIN rrow' /\ rrow'[f] = "Offered" => f \notin accepted'
                    /\ f \in DOMAIN rrow' /\ rrow'[f] = "Active" => f \in accepted'
  BY DEF OfferInv, Once
<1>1. WireMoves(f) /\ AnswerMoves(f)
  OBVIOUS
<1>2. /\ Unoffered(f) => ~OfferedOn(f)
      /\ Unoffered(f) \/ OfferedOn(f) => ~Rejecting(f)
      /\ Unoffered(f) \/ OfferedOn(f) \/ Rejecting(f) => f \notin DOMAIN rrow /\ f \notin accepted
      /\ Cancelling(f) => f \in accepted
      /\ f \in DOMAIN rrow /\ rrow[f] = "Offered" => f \notin accepted
      /\ f \in DOMAIN rrow /\ rrow[f] = "Active" => f \in accepted
  BY DEF OfferInv
<1> QED BY <1>1, <1>2 DEF WireMoves, AnswerMoves

(* A step that leaves the wires and the ids alone. *)
LEMMA WiresKept ==
  ASSUME OfferInv, UNCHANGED <<picks, ctrl>>, \A f \in File : AnswerMoves(f)
  PROVE  OfferInv'
<1>1. Once(toR')
  BY DEF OfferInv, ctrl
<1>2. \A f \in File : WireMoves(f)
  BY DEF OfferInv, WireMoves, picks, ctrl, Unoffered, OfferedOn, Rejecting, Cancelling, Ids, Elems
<1> QED BY <1>1, <1>2, MovesKeepOffers

(* What is on a file's channel was accepted. *)
LEMMA FramesAccepted ==
  ASSUME TransferInv, NEW f \in File, chan[f] # <<>> PROVE f \in accepted
<1>1. task[f] # "none"
  BY DEF TransferInv, StreamInv, At
<1> QED BY <1>1 DEF TransferInv, AcceptInv

(* The ids a batch is given are new, and different. *)
LEMMA BatchIds ==
  ASSUME TypeOK, SlotInv, IdInv, NEW n \in File, OnFiles(n)
  PROVE  /\ NewIds(n) \in Seq(File) /\ n \in Nat /\ nextId \in Nat
         /\ \A i, j \in 1..Len(NewIds(n)) : NewIds(n)[i] = NewIds(n)[j] => i = j
         /\ \A f \in Ids(NewIds(n)) : f \in File /\ f >= nextId /\ f < nextId'
         /\ nextId' > nextId
<1>1. n \in Nat /\ n > 0 /\ nextId' = nextId + n /\ nextId + n - 1 <= NumFiles /\ nextId \in Nat /\ nextId > 0
  BY TransferAssumption DEF OnFiles, File, TypeOK, SenderType
<1> DEFINE b == NewIds(n)
<1>2. b = [i \in 1..n |-> nextId + i - 1]
  BY DEF NewIds
<1>3. \A i \in 1..n : nextId + i - 1 \in File /\ nextId + i - 1 >= nextId /\ nextId + i - 1 < nextId'
  BY <1>1, TransferAssumption DEF File
<1> HIDE DEF b
<1>4. b \in Seq(File) /\ Len(b) = n /\ \A i \in 1..n : b[i] = nextId + i - 1
  <2>1. b \in [1..n -> File] /\ \A i \in 1..n : b[i] = nextId + i - 1
    BY <1>2, <1>3
  <2>2. b \in Seq(File)
    BY <1>1, <2>1
  <2> QED BY <1>1, <2>1, <2>2
<1>5. \A i, j \in 1..Len(b) : b[i] = b[j] => i = j
  BY <1>1, <1>4
<1>6. \A f \in Ids(b) : f \in File /\ f >= nextId /\ f < nextId'
  BY <1>3, <1>4 DEF Ids
<1> QED BY <1>1, <1>4, <1>5, <1>6 DEF b

(* The ids stay in order. *)
LEMMA PicksKeepIds ==
  ASSUME TypeOK, SlotInv, IdInv, (\E n \in File : OnFiles(n)) \/ CtrlOpens
  PROVE  /\ \A i, j \in 1..Len(pending') : pending'[i] = pending'[j] => i = j
         /\ nextId' >= nextId
<1>0. pending \in Seq(File) /\ nextId \in Nat
  BY DEF TypeOK, SenderType
<1>1. CASE CtrlOpens
  BY <1>0, <1>1 DEF CtrlOpens
<1>2. ASSUME NEW n \in File, OnFiles(n)
      PROVE  /\ \A i, j \in 1..Len(pending') : pending'[i] = pending'[j] => i = j
             /\ nextId' >= nextId
  <2> DEFINE b == NewIds(n)
  <2>1. /\ b \in Seq(File)
        /\ \A i, j \in 1..Len(b) : b[i] = b[j] => i = j
        /\ \A f \in Ids(b) : f \in File /\ f >= nextId
        /\ nextId' \in Nat /\ nextId' >= nextId
    BY <1>2, BatchIds DEF OnFiles
  <2>2. pending' = pending \/ pending' = pending \o b
    BY <1>2 DEF OnFiles
  <2> HIDE DEF b
  <2>3. CASE pending' = pending
    BY <2>1, <2>3 DEF IdInv
  <2>4. CASE pending' = pending \o b
    <3>1. /\ Len(pending') = Len(pending) + Len(b) /\ Len(pending) \in Nat /\ Len(b) \in Nat
          /\ \A i \in 1..Len(pending') :
                pending'[i] = IF i <= Len(pending) THEN pending[i] ELSE b[i - Len(pending)]
      BY <1>0, <2>1, <2>4, ConcatProperties
    <3>2. \A i \in 1..Len(pending) : pending[i] \in Nat /\ pending[i] < nextId
      <4>1. \A i \in 1..Len(pending) : pending[i] \in Ids(pending) /\ pending[i] \in File
        BY <1>0, ElementOfSeq DEF Ids
      <4> QED BY <4>1 DEF SlotInv, Fresh, File
    <3>3. \A i \in 1..Len(b) : b[i] \in Nat /\ b[i] >= nextId
      <4>1. \A i \in 1..Len(b) : b[i] \in Ids(b)
        BY DEF Ids
      <4> QED BY <2>1, <4>1 DEF File
    <3> SUFFICES ASSUME NEW i \in 1..Len(pending'), NEW j \in 1..Len(pending'), pending'[i] = pending'[j]
                 PROVE  i = j
      BY <2>1
    <3>4. CASE i <= Len(pending) /\ j <= Len(pending)
      BY <3>1, <3>4 DEF IdInv
    <3>5. CASE i > Len(pending) /\ j > Len(pending)
      <4>1. /\ i - Len(pending) \in 1..Len(b) /\ j - Len(pending) \in 1..Len(b)
            /\ b[i - Len(pending)] = b[j - Len(pending)]
        BY <3>1, <3>5
      <4>2. i - Len(pending) = j - Len(pending)
        BY <2>1, <4>1
      <4> QED BY <3>1, <4>2
    <3>6. CASE i <= Len(pending) /\ j > Len(pending)
      <4>1. i \in 1..Len(pending) /\ j - Len(pending) \in 1..Len(b) /\ pending[i] = b[j - Len(pending)]
        BY <3>1, <3>6
      <4> QED BY <1>0, <3>2, <3>3, <4>1
    <3>7. CASE i > Len(pending) /\ j <= Len(pending)
      <4>1. j \in 1..Len(pending) /\ i - Len(pending) \in 1..Len(b) /\ pending[j] = b[i - Len(pending)]
        BY <3>1, <3>7
      <4> QED BY <1>0, <3>2, <3>3, <4>1
    <3> QED BY <3>1, <3>4, <3>5, <3>6, <3>7
  <2> QED BY <2>2, <2>3, <2>4
<1> QED BY <1>1, <1>2

(* Offering files: they are on the wire for the first time. *)
LEMMA SenderOffers ==
  ASSUME TypeOK, SlotInv, IdInv, OfferInv, (\E n \in File : OnFiles(n)) \/ CtrlOpens
  PROVE  OfferInv'
<1>0. pending \in Seq(File) /\ nextId \in Nat /\ toR \in Seq(Control) /\ Ids(pending) \subseteq File
  BY ElementOfSeq DEF TypeOK, SenderType, WireType, Ids
<1>1. UNCHANGED <<rrow, toS, accepted>>
  BY DEF OnFiles, CtrlOpens, users
<1>2. \A f \in File : AnswerMoves(f)
  BY <1>1 DEF AnswerMoves
<1>3. \A f \in Ids(pending) : f < nextId
  BY DEF SlotInv, Fresh
<1>4. ASSUME NEW b \in Seq(File), \A i, j \in 1..Len(b) : b[i] = b[j] => i = j,
             \A f \in Ids(b) : Unoffered(f),
             toR' = toR \/ toR' = toR \o Offers(b) \/ toR' = Ctrl("S", toR, Offers(b)),
             \A f \in File : Unoffered(f)' => Unoffered(f) /\ (toR' = toR \/ f \notin Ids(b))
      PROVE  OfferInv'
  <2>1. /\ Offers(b) \in Seq(Control) /\ Ids(b) \subseteq File /\ Once(Offers(b))
        /\ \A m \in Elems(Offers(b)) : \E f \in Ids(b) : m = Ctl("Offer", f)
    BY <1>4, OffersElems
  <2>2. \A m \in Elems(toR) \cap Elems(Offers(b)) : m.type # "Offer"
    BY <1>4, <2>1 DEF OfferInv, OfferedOn
  <2>3. Once(toR') /\ Elems(toR') \subseteq Elems(toR) \cup Elems(Offers(b))
    <3> DEFINE o == Offers(b)
               Fine(w) == Once(w) /\ Elems(w) \subseteq Elems(toR) \cup Elems(o)
    <3>1. o \in Seq(Control) /\ Once(o) /\ Once(toR) /\ \A m \in Elems(toR) \cap Elems(o) : m.type # "Offer"
      BY <2>1, <2>2 DEF OfferInv
    <3> HIDE DEF o
    <3>2. Fine(toR) /\ Fine(toR \o o) /\ Fine(Ctrl("S", toR, o))
      BY <1>0, <3>1, CtrlElems
    <3> HIDE DEF Fine
    <3>3. Fine(toR')
      BY <1>4, <3>2 DEF o
    <3> QED BY <3>3 DEF Fine, o
  <2>4. \A f \in File : OfferedOn(f)' => OfferedOn(f) \/ (f \in Ids(b) /\ toR' # toR)
    <3>1. CASE toR' = toR
      BY <3>1 DEF OfferedOn
    <3>2. CASE toR' # toR
      <4>1. ASSUME NEW f \in File, OfferedOn(f)', ~OfferedOn(f) PROVE f \in Ids(b)
        <5>1. Ctl("Offer", f) \in Elems(Offers(b))
          BY <2>3, <4>1 DEF OfferedOn, Elems
        <5> QED BY <2>1, <5>1, CtlFields
      <4> QED BY <3>2, <4>1
    <3> QED BY <3>1, <3>2
  <2>5. \A f \in File : /\ Rejecting(f)' => Rejecting(f)
                        /\ Cancelling(f)' => Cancelling(f)
    BY <1>1 DEF Rejecting, Cancelling, Elems
  <2>6. \A f \in File : WireMoves(f)
    BY <1>4, <2>4, <2>5 DEF OfferInv, WireMoves
  <2> QED BY <1>2, <2>3, <2>6, MovesKeepOffers
<1>5. ASSUME NEW n \in File, OnFiles(n) PROVE OfferInv'
  <2> DEFINE b == NewIds(n)
  <2>1. /\ b \in Seq(File) /\ \A i, j \in 1..Len(b) : b[i] = b[j] => i = j
        /\ \A f \in Ids(b) : f \in File /\ f >= nextId /\ f < nextId'
        /\ nextId' > nextId /\ nextId' \in Nat
    BY <1>5, BatchIds DEF OnFiles
  <2>2. \/ pending' = pending /\ toR' = Ctrl("S", toR, Offers(b))
        \/ pending' = pending \o b /\ toR' = toR
    BY <1>5 DEF OnFiles, offer_files
  <2> HIDE DEF b
  <2>3. \A f \in Ids(b) : Unoffered(f) /\ f \notin Ids(pending)
    BY <1>0, <1>3, <2>1 DEF Unoffered, File
  <2>4. Ids(pending)' \subseteq Ids(pending) \cup (IF toR' = toR THEN Ids(b) ELSE {})
    <3>1. CASE pending' = pending
      BY <3>1 DEF Ids
    <3>2. CASE pending' = pending \o b /\ toR' = toR
      BY <1>0, <2>1, <3>2, ConcatProperties DEF Ids
    <3> QED BY <2>2, <3>1, <3>2
  <2>5. \A f \in File : Unoffered(f)' => Unoffered(f) /\ (toR' = toR \/ f \notin Ids(b))
    <3>1. ASSUME NEW f \in File, f >= nextId' PROVE f >= nextId /\ f \notin Ids(b)
      BY <1>0, <2>1, <3>1 DEF File
    <3> QED BY <2>3, <2>4, <3>1 DEF Unoffered
  <2> QED BY <1>4, <2>1, <2>2, <2>3, <2>5
<1>6. ASSUME CtrlOpens PROVE OfferInv'
  <2>1. pending' = <<>> /\ nextId' = nextId /\ toR' = toR \o Offers(pending)
    BY <1>6 DEF CtrlOpens
  <2>2. Ids(pending)' = {}
    BY <2>1 DEF Ids
  <2>3. \A f \in File : Unoffered(f)' => Unoffered(f) /\ f \notin Ids(pending)
    BY <1>0, <1>3, <2>1, <2>2 DEF Unoffered, File
  <2> QED BY <1>0, <1>4, <2>1, <2>3 DEF Unoffered, IdInv
<1> QED BY <1>5, <1>6

(* Reading a ctrl message, at either side. *)
LEMMA ReaderOffers ==
  ASSUME TransferInv, OfferInv, NEW f \in File, CtrlS(f) \/ CtrlR(f)
  PROVE  OfferInv'
<1>0. toR \in Seq(Control) /\ toS \in Seq(Control)
  BY DEF TransferInv, TypeOK, WireType
<1>1. UNCHANGED <<picks, accepted>>
  BY DEF CtrlS, CtrlR, OnAccept, OnReject, OnCancel, OnOffer, OnAbort, users
<1>2. \A g : Unoffered(g)' <=> Unoffered(g)
  BY <1>1 DEF picks, Unoffered, Ids
<1>3. /\ Elems(toR') \subseteq Elems(toR) /\ Elems(toS') \subseteq Elems(toS)
      /\ Once(toR')
  BY <1>0, TailElems DEF OfferInv, CtrlS, CtrlR, OnAccept, OnReject, OnCancel, OnOffer, OnAbort, ReadsS, ReadsR
<1>4. \A g : /\ OfferedOn(g)' => OfferedOn(g)
             /\ Rejecting(g)' => Rejecting(g)
             /\ Cancelling(g)' => Cancelling(g)
  BY <1>3 DEF OfferedOn, Rejecting, Cancelling, Elems
<1>5. \A g \in File : WireMoves(g)
  BY <1>2, <1>4 DEF OfferInv, WireMoves
<1>6. CASE CtrlS(f)
  <2>1. rrow' = rrow
    BY <1>6 DEF CtrlS, OnAccept, OnReject, OnCancel, rows
  <2>2. \A g \in File : AnswerMoves(g)
    BY <1>1, <2>1 DEF AnswerMoves
  <2> QED BY <1>3, <1>5, <2>2, MovesKeepOffers
<1>7. CASE OnAbort(f)
  <2>1. rrow' = SetState(rrow, {f}, "Cancelled")
    BY <1>7 DEF OnAbort, cancel
  <2>2. \A g \in File : AnswerMoves(g)
    BY <1>1, <2>1 DEF AnswerMoves, SetState
  <2> QED BY <1>3, <1>5, <2>2, MovesKeepOffers
<1>8. CASE OnOffer(f)
  <2>1. toR # <<>> /\ Head(toR) = Ctl("Offer", f) /\ toR' = Tail(toR)
    BY <1>8 DEF OnOffer, ReadsR
  <2>2. Ctl("Offer", f) \in Elems(toR) /\ Ctl("Offer", f) \notin Elems(toR')
    BY <1>0, <2>1, CtlFields, TailElems DEF OfferInv
  <2>3. OfferedOn(f) /\ ~OfferedOn(f)'
    BY <2>2 DEF OfferedOn, Elems
  <2>4. f \notin DOMAIN rrow /\ f \notin accepted
    BY <2>3 DEF OfferInv
  <2>5. rrow' = Put(rrow, f, "Offered")
    BY <1>8, <2>4 DEF OnOffer, incoming_offer
  <2>6. \A g \in File : AnswerMoves(g)
    BY <1>1, <2>3, <2>4, <2>5 DEF AnswerMoves, Put
  <2> QED BY <1>3, <1>5, <2>6, MovesKeepOffers
<1> QED BY <1>6, <1>7, <1>8 DEF CtrlR

(* The receiver's user answers an offer that is shown, or cancels a        *)
(* download that is Active.                                                *)
LEMMA UserOffers ==
  ASSUME TypeOK, OfferInv,
         \/ UserAcceptsAll
         \/ \E f \in File : UserAccepts(f) \/ UserDeclines(f) \/ UserCancels(f)
  PROVE  OfferInv'
<1>0. toS \in Seq(Control) /\ DOMAIN rrow \subseteq File
  BY DEF TypeOK, WireType, ReceiverType
<1>1. UNCHANGED <<picks, toR>>
  BY DEF UserAcceptsAll, UserAccepts, UserDeclines, UserCancels
<1>2. \A g : (Unoffered(g)' <=> Unoffered(g)) /\ (OfferedOn(g)' <=> OfferedOn(g))
  BY <1>1 DEF picks, Unoffered, Ids, OfferedOn, Elems
<1>3. Once(toR')
  BY <1>1 DEF OfferInv
<1>4. ASSUME NEW ms \in Seq(Control), toS' = Ctrl("R", toS, ms) PROVE Elems(toS') \subseteq Elems(toS) \cup Elems(ms)
  BY <1>0, <1>4, CtrlElems
<1>5. ASSUME NEW f \in File, NEW t \in {"Accept", "Reject", "Cancel"}, toS' = Ctrl("R", toS, <<Ctl(t, f)>>)
      PROVE  Elems(toS)' \subseteq Elems(toS) \cup {Ctl(t, f)}
  <2>1. <<Ctl(t, f)>> \in Seq(Control) /\ Elems(<<Ctl(t, f)>>) = {Ctl(t, f)}
    BY DEF Ctl, Control, Elems
  <2>2. Elems(toS') \subseteq Elems(toS) \cup {Ctl(t, f)}
    BY <1>4, <1>5, <2>1
  <2> QED BY <2>2 DEF Elems
<1>6. ASSUME NEW f \in File, UserAccepts(f) PROVE OfferInv'
  <2>1. /\ f \in DOMAIN rrow /\ rrow' = SetState(rrow, {f}, "Active")
        /\ accepted' = accepted \cup {f} /\ toS' = Ctrl("R", toS, <<Ctl("Accept", f)>>)
    BY <1>6 DEF UserAccepts, pending_incoming_ids, accept
  <2>2. Elems(toS)' \subseteq Elems(toS) \cup {Ctl("Accept", f)}
    BY <1>5, <2>1
  <2>3. \A g \in File : WireMoves(g)
    BY <1>2, <2>2, CtlFields DEF OfferInv, WireMoves, Rejecting, Cancelling
  <2>4. \A g \in File : AnswerMoves(g)
    BY <2>1 DEF AnswerMoves, SetState
  <2> QED BY <1>3, <2>3, <2>4, MovesKeepOffers
<1>7. ASSUME NEW f \in File, UserDeclines(f) PROVE OfferInv'
  <2>1. /\ f \in DOMAIN rrow /\ rrow[f] = "Offered" /\ rrow' = Drop(rrow, f)
        /\ accepted' = accepted /\ toS' = Ctrl("R", toS, <<Ctl("Reject", f)>>)
    BY <1>7 DEF UserDeclines, pending_incoming_ids, decline, users
  <2>2. Elems(toS)' \subseteq Elems(toS) \cup {Ctl("Reject", f)}
    BY <1>5, <2>1
  <2>3. f \notin DOMAIN rrow' /\ f \notin accepted'
    BY <2>1 DEF OfferInv, Drop
  <2>4. \A g \in File : WireMoves(g)
    BY <1>2, <2>1, <2>2, <2>3, CtlFields DEF OfferInv, WireMoves, Rejecting, Cancelling
  <2>5. \A g \in File : AnswerMoves(g)
    BY <2>1 DEF AnswerMoves, Drop
  <2> QED BY <1>3, <2>4, <2>5, MovesKeepOffers
<1>8. ASSUME NEW f \in File, UserCancels(f) PROVE OfferInv'
  <2>1. /\ f \in DOMAIN rrow /\ rrow[f] = "Active" /\ rrow' = SetState(rrow, {f}, "Cancelled")
        /\ accepted' = accepted /\ toS' = Ctrl("R", toS, <<Ctl("Cancel", f)>>)
    BY <1>8 DEF UserCancels, CancelDownload, cancel
  <2>2. Elems(toS)' \subseteq Elems(toS) \cup {Ctl("Cancel", f)}
    BY <1>5, <2>1
  <2>3. f \in accepted
    BY <2>1 DEF OfferInv
  <2>4. \A g \in File : WireMoves(g)
    BY <1>2, <2>2, <2>3, CtlFields DEF OfferInv, WireMoves, Rejecting, Cancelling
  <2>5. \A g \in File : AnswerMoves(g)
    BY <2>1 DEF AnswerMoves, SetState
  <2> QED BY <1>3, <2>4, <2>5, MovesKeepOffers
<1>9. ASSUME UserAcceptsAll PROVE OfferInv'
  <2> DEFINE ids == pending_incoming_ids(rrow)
  <2>1. accepted' = accepted \cup ids /\ rrow' = SetState(rrow, ids, "Active")
    BY <1>9 DEF UserAcceptsAll, accept_all
  <2>2. ids \subseteq File /\ ids \subseteq DOMAIN rrow /\ Cardinality(ids) \in Nat
    <3>1. ids \subseteq File /\ ids \subseteq DOMAIN rrow
      BY <1>0 DEF pending_incoming_ids
    <3> QED BY <3>1, FileFinite, FS_Subset, FS_CardinalityType
  <2>3. PICK s \in InOrder(ids) : toS' = Ctrl("R", toS, [i \in 1..Len(s) |-> Ctl("Accept", s[i])])
    BY <1>9 DEF UserAcceptsAll
  <2> HIDE DEF ids
  <2>4. s \in Seq(File)
    BY <2>2, <2>3 DEF InOrder
  <2> DEFINE ms == [i \in 1..Len(s) |-> Ctl("Accept", s[i])]
  <2>5. ms \in Seq(Control) /\ \A i \in 1..Len(ms) : ms[i].type = "Accept"
    BY <2>4 DEF Ctl, Control
  <2>6. toS' = Ctrl("R", toS, ms)
    BY <2>3
  <2> HIDE DEF ms
  <2>7. Elems(toS') \subseteq Elems(toS) \cup Elems(ms)
    BY <1>4, <2>5, <2>6
  <2>8. \A m \in Elems(ms) : m.type = "Accept"
    BY <2>5 DEF Elems
  <2>9. \A g : (Rejecting(g)' => Rejecting(g)) /\ (Cancelling(g)' => Cancelling(g))
    <3>1. ASSUME NEW t \in {"Reject", "Cancel"}, NEW g, Ctl(t, g) \in Elems(toS') PROVE Ctl(t, g) \in Elems(toS)
      BY <2>7, <2>8, <3>1, CtlFields
    <3> QED BY <3>1 DEF Rejecting, Cancelling, Elems
  <2>10. \A g \in File : WireMoves(g)
    BY <1>2, <2>9 DEF OfferInv, WireMoves
  <2>11. \A g \in File : AnswerMoves(g)
    BY <2>1, <2>2 DEF AnswerMoves, SetState
  <2> QED BY <1>3, <2>10, <2>11, MovesKeepOffers
<1> QED BY <1>6, <1>7, <1>8, <1>9

(* Every step keeps the offers and their answers in order. *)
LEMMA NextOffers == TransferInv /\ IdInv /\ OfferInv /\ [Next]_vars => OfferInv'
<1> SUFFICES ASSUME TransferInv, IdInv, OfferInv, [Next]_vars PROVE OfferInv'
  OBVIOUS
<1>0. TypeOK /\ SlotInv
  BY DEF TransferInv
<1>1. ASSUME UNCHANGED <<picks, ctrl, rrow, accepted>> PROVE OfferInv'
  <2>1. \A f \in File : AnswerMoves(f)
    BY <1>1 DEF AnswerMoves
  <2> QED BY <1>1, <2>1, WiresKept
<1>2. ASSUME NEW f \in File, Task(f) \/ ReadFails(f) PROVE OfferInv'
  BY <1>1, <1>2 DEF Task, ChannelOpens, SlabRead, BufferLow, ReadFails, users
<1>3. ASSUME NEW f \in File, UserAborts(f) PROVE OfferInv'
  <2>1. UNCHANGED <<picks, toS, rrow, accepted>> /\ toR' = Ctrl("S", toR, <<Ctl("Abort", f)>>)
    BY <1>3 DEF UserAborts, abort
  <2> DEFINE ms == <<Ctl("Abort", f)>>
  <2>2. ms \in Seq(Control) /\ Len(ms) = 1 /\ ms[1] = Ctl("Abort", f) /\ toR \in Seq(Control)
    BY <1>0 DEF Ctl, Control, TypeOK, WireType
  <2> HIDE DEF ms
  <2>3. Once(ms) /\ \A m \in Elems(ms) : m = Ctl("Abort", f) /\ m.type # "Offer"
    BY <2>2, CtlFields DEF Once, Elems
  <2>4. Once(toR') /\ Elems(toR') \subseteq Elems(toR) \cup Elems(ms)
    BY <2>1, <2>2, <2>3, CtrlElems DEF OfferInv, ms
  <2>5. \A g : OfferedOn(g)' => OfferedOn(g)
    <3>1. ASSUME NEW g, Ctl("Offer", g) \in Elems(toR') PROVE Ctl("Offer", g) \in Elems(toR)
      BY <2>3, <2>4, <3>1, CtlFields
    <3> QED BY <3>1 DEF OfferedOn, Elems
  <2>6. \A g : /\ Unoffered(g)' <=> Unoffered(g)
               /\ Rejecting(g)' <=> Rejecting(g)
               /\ Cancelling(g)' <=> Cancelling(g)
    BY <2>1 DEF picks, Unoffered, Ids, Rejecting, Cancelling, Elems
  <2>7. \A g \in File : WireMoves(g) /\ AnswerMoves(g)
    BY <2>1, <2>5, <2>6 DEF OfferInv, WireMoves, AnswerMoves
  <2> QED BY <2>4, <2>7, MovesKeepOffers
<1>4. ASSUME NEW f \in File, Frames(f) PROVE OfferInv'
  <2>1. UNCHANGED <<picks, ctrl, accepted>> /\ chan[f] # <<>>
    BY <1>4 DEF Frames, RecvStart, RecvChunk, RecvEnd, Receives, users
  <2>2. f \in accepted
    BY <2>1, FramesAccepted
  <2>3. rrow' = rrow \/ rrow' = Put(rrow, f, "Active") \/ rrow' = Put(rrow, f, "Done")
    BY <1>4 DEF Frames, RecvStart, RecvChunk, RecvEnd, finalize_recv, recv_progress, recv_complete, rows
  <2>4. \A g \in File : AnswerMoves(g)
    BY <2>1, <2>2, <2>3 DEF AnswerMoves, Put
  <2> QED BY <2>1, <2>4, WiresKept
<1>5. ASSUME NEW side, Disconnects(side) \/ PeerLeft(side) \/ LinkLost(side) PROVE OfferInv'
  <2>1. UNCHANGED <<picks, ctrl, accepted>>
    BY <1>5 DEF Disconnects, PeerLeft, LinkLost, users
  <2>2. rrow' = rrow \/ rrow' = mark_all_active_cancelled(rrow)
    BY <1>5 DEF Disconnects, PeerLeft, LinkLost, rows
  <2>3. \A g \in File : AnswerMoves(g)
    BY <2>1, <2>2 DEF AnswerMoves, mark_all_active_cancelled, SetState
  <2> QED BY <2>1, <2>3, WiresKept
<1>6. CASE UNCHANGED vars
  BY <1>1, <1>6 DEF vars, rows, users
<1> QED BY <1>0, <1>2, <1>3, <1>4, <1>5, <1>6, SenderOffers, ReaderOffers, UserOffers DEF Next

-----------------------------------------------------------------------------
(* The rows of the sender's tab.                                           *)

(* What a step may do to the sender's row of a file.  Only the file's own  *)
(* running task shows progress, and only while the file is not cancelled;  *)
(* only a file that was not accepted is shown as Declined.                 *)
RowMoves(f) ==
    /\ f \in DOMAIN srow => f \in DOMAIN srow'
    /\ f \in DOMAIN srow' =>
          \/ f \in DOMAIN srow /\ srow'[f] = srow[f]
          \/ /\ srow'[f] \in {"Pending", "Offered"} /\ f < nextId'
             /\ f \in DOMAIN srow => srow[f] = "Pending"
          \/ srow'[f] = "Declined" /\ f \in DOMAIN srow /\ f \notin accepted
          \/ /\ srow'[f] = "Cancelled" /\ f \in DOMAIN srow /\ srow[f] # "Done"
             /\ link'["S"] = "torn" \/ (f \in accepted /\ f \in cancelled')
          \/ srow'[f] \in {"Active", "Done"} /\ task[f] \in Running /\ f \notin cancelled

(* Every step moves the rows of the sender's tab that way. *)
LEMMA RowsMove ==
  ASSUME TransferInv, IdInv, OfferInv, RowInv, [Next]_vars
  PROVE  \A f \in File : RowMoves(f)
<1>0. /\ TypeOK /\ SlotInv /\ toS \in Seq(Control) /\ pending \in Seq(File) /\ nextId \in Nat
      /\ DOMAIN srow \subseteq File
  BY DEF TransferInv, TypeOK, WireType, SenderType
<1>1. ASSUME srow' = srow PROVE \A f \in File : RowMoves(f)
  BY <1>1 DEF RowMoves
<1>2. ASSUME NEW n \in File, OnFiles(n) PROVE \A f \in File : RowMoves(f)
  <2> DEFINE b == Ids(NewIds(n))
             shown == push_outgoing_pending(srow, b)
  <2>1. \A f \in b : f \in File /\ f >= nextId /\ f < nextId'
    BY <1>0, <1>2, BatchIds
  <2>2. \A f \in b : f \notin DOMAIN srow
    BY <1>0, <2>1 DEF IdInv, File
  <2>3. srow' = shown \/ srow' = mark_offered(shown, b)
    BY <1>2 DEF OnFiles
  <2> HIDE DEF b
  <2>4. /\ DOMAIN shown = DOMAIN srow \cup b
        /\ \A f \in DOMAIN shown : shown[f] = IF f \in b THEN "Pending" ELSE srow[f]
    BY DEF push_outgoing_pending
  <2> HIDE DEF shown
  <2>5. /\ DOMAIN srow' = DOMAIN srow \cup b
        /\ \A f \in b : srow'[f] \in {"Pending", "Offered"}
        /\ \A f \in DOMAIN srow : f \notin b => srow'[f] = srow[f]
    BY <2>3, <2>4 DEF mark_offered, SetState
  <2> QED BY <2>1, <2>2, <2>5 DEF RowMoves
<1>3. ASSUME CtrlOpens PROVE \A f \in File : RowMoves(f)
  <2>1. srow' = mark_offered(srow, Ids(pending)) /\ nextId' = nextId
    BY <1>3 DEF CtrlOpens
  <2> QED BY <2>1 DEF RowMoves, IdInv, mark_offered, SetState
<1>4. ASSUME NEW f \in File, OnReject(f) PROVE \A g \in File : RowMoves(g)
  <2>1. toS # <<>> /\ Head(toS) = Ctl("Reject", f) /\ srow' = SetState(srow, {f}, "Declined")
    BY <1>4 DEF OnReject, ReadsS, mark_rejected
  <2>2. Rejecting(f)
    BY <1>0, <2>1, TailElems DEF Rejecting
  <2>3. f \notin accepted
    BY <2>2 DEF OfferInv
  <2> QED BY <2>1, <2>3 DEF RowMoves, SetState
<1>5. ASSUME NEW f \in File, OnCancel(f) \/ UserAborts(f) PROVE \A g \in File : RowMoves(g)
  <2>1. f \in accepted
    <3>1. CASE OnCancel(f)
      <4>1. Cancelling(f)
        BY <1>0, <3>1, TailElems DEF OnCancel, ReadsS, Cancelling
      <4> QED BY <4>1 DEF OfferInv
    <3>2. CASE UserAborts(f)
      BY <3>2 DEF UserAborts, RowInv
    <3> QED BY <1>5, <3>1, <3>2
  <2>2. link' = link /\ (link["S"] = "torn" \/ f \in cancelled')
    BY <1>5 DEF OnCancel, UserAborts, abort, cancel_outgoing
  <2>3. srow' = mark_cancelled_remote(srow, f)
    BY <1>5 DEF OnCancel, UserAborts
  <2> QED BY <2>1, <2>2, <2>3 DEF RowMoves, mark_cancelled_remote, SetState
<1>6. ASSUME NEW f \in File, Task(f) \/ ReadFails(f) PROVE \A g \in File : RowMoves(g)
  <2>1. task[f] \in Running
    BY <1>6 DEF Task, ChannelOpens, SlabRead, BufferLow, ReadFails, Running
  <2>2. \/ srow' = srow
        \/ f \notin cancelled /\ \E m, n : srow' = send_progress(srow, f, m, n)
    <3>1. ASSUME NEW d, Returns(f, d) PROVE <2>2!:
      BY <3>1 DEF Returns
    <3>2. ASSUME NEW n, Streams(f, n), f \notin cancelled PROVE <2>2!:
      BY <3>1, <3>2 DEF Streams
    <3> QED BY <1>6, <3>1, <3>2 DEF Task, ChannelOpens, SlabRead, BufferLow, ReadFails
  <2> QED BY <2>1, <2>2 DEF RowMoves, send_progress, Put
<1>7. ASSUME NEW side, Disconnects(side) \/ PeerLeft(side) \/ LinkLost(side) PROVE \A f \in File : RowMoves(f)
  <2>1. \/ srow' = srow
        \/ srow' = mark_all_active_cancelled(srow) /\ link' = [link EXCEPT !["S"] = "torn"]
    BY <1>7 DEF Disconnects, PeerLeft, LinkLost, rows
  <2>2. CASE srow' = mark_all_active_cancelled(srow) /\ link' = [link EXCEPT !["S"] = "torn"]
    <3>1. link'["S"] = "torn"
      BY <1>0, <2>2 DEF TypeOK, WireType
    <3> QED BY <2>2, <3>1 DEF RowMoves, mark_all_active_cancelled, SetState
  <2> QED BY <1>1, <2>1, <2>2
<1>8. ASSUME NEW f \in File, OnAccept(f) \/ CtrlR(f) \/ Frames(f) \/ UserAccepts(f) \/ UserDeclines(f) \/ UserCancels(f)
      PROVE  srow' = srow
  BY <1>8 DEF OnAccept, CtrlR, OnOffer, OnAbort, Frames, RecvStart, RecvChunk, RecvEnd,
              UserAccepts, UserDeclines, UserCancels, rows
<1>9. ASSUME UserAcceptsAll \/ UNCHANGED vars PROVE srow' = srow
  BY <1>9 DEF UserAcceptsAll, vars, rows
<1> QED BY <1>1, <1>2, <1>3, <1>4, <1>5, <1>6, <1>7, <1>8, <1>9 DEF Next, CtrlS

-----------------------------------------------------------------------------
(* The tasks and the ends of the streams.                                  *)

(* What a step may do to the task of a file, its flag and the connection.  *)
TaskMoves(f) ==
    /\ task[f] = "returned" => task'[f] = "returned"
    /\ f \in cancelled => f \in cancelled' \/ task'[f] = "returned"
    /\ f \in accepted => f \in accepted'
    /\ link["S"] = "torn" => link'["S"] = "torn"

(* Every step moves the tasks that way: a set flag is taken back only by   *)
(* the task that found it, and a torn connection stays torn.               *)
LEMMA TasksMove ==
  ASSUME TypeOK, SlotInv, [Next]_vars
  PROVE  \A f \in File : TaskMoves(f)
<1>1. link["S"] = "torn" => link'["S"] = "torn"
  <2>1. CASE CtrlOpens
    BY <2>1 DEF CtrlOpens
  <2>2. ASSUME NEW side \in {"S", "R"}, Disconnects(side) \/ PeerLeft(side) \/ LinkLost(side)
        PROVE  link["S"] = "torn" => link'["S"] = "torn"
    BY <2>2 DEF Disconnects, PeerLeft, LinkLost, TypeOK, WireType
  <2>3. CASE link' = link
    BY <2>3
  <2> QED BY <2>1, <2>2, <2>3
          DEF Next, vars, OnFiles, UserAcceptsAll, CtrlS, OnAccept, OnReject, OnCancel, UserAborts,
              Task, ChannelOpens, SlabRead, BufferLow, ReadFails, CtrlR, OnOffer, OnAbort,
              Frames, RecvStart, RecvChunk, RecvEnd, UserAccepts, UserDeclines, UserCancels
<1>2. accepted \subseteq accepted'
  BY DEF Next, vars, users, OnFiles, CtrlOpens, UserAcceptsAll, CtrlS, OnAccept, OnReject, OnCancel, UserAborts,
         Task, ChannelOpens, SlabRead, BufferLow, ReadFails, CtrlR, OnOffer, OnAbort,
         Frames, RecvStart, RecvChunk, RecvEnd, UserAccepts, UserDeclines, UserCancels,
         Disconnects, PeerLeft, LinkLost
<1>3. ASSUME task' = task, cancelled \subseteq cancelled' PROVE \A f \in File : TaskMoves(f)
  BY <1>1, <1>2, <1>3 DEF TaskMoves
<1>4. ASSUME NEW f \in File, OnAccept(f) PROVE \A g \in File : TaskMoves(g)
  <2>1. cancelled' = cancelled
    BY <1>4 DEF OnAccept
  <2>2. \A g \in File : task'[g] = task[g] \/ task[g] = "none"
    BY <1>4, AcceptTasks
  <2> QED BY <1>1, <1>2, <2>1, <2>2 DEF TaskMoves
<1>5. ASSUME NEW f \in File, Task(f) \/ ReadFails(f) PROVE \A g \in File : TaskMoves(g)
  <2>1. task[f] \in Running
    BY <1>5 DEF Task, ChannelOpens, SlabRead, BufferLow, ReadFails, Running
  <2>2. ASSUME NEW d, Returns(f, d) PROVE \A g \in File : TaskMoves(g)
    <3>1. /\ task'[f] = "returned"
          /\ \A g \in File : g # f => task'[g] = task[g] \/ task[g] = "none"
      BY <2>1, <2>2, ReturnsShape
    <3>2. cancelled \ {f} \subseteq cancelled'
      BY <2>2 DEF Returns
    <3> QED BY <1>1, <1>2, <3>1, <3>2 DEF TaskMoves
  <2>3. ASSUME NEW t, task' = [task EXCEPT ![f] = t], cancelled' = cancelled PROVE \A g \in File : TaskMoves(g)
    <3>1. \A g \in File : g # f => task'[g] = task[g]
      BY <2>3 DEF TypeOK, SenderType
    <3> QED BY <1>1, <1>2, <2>1, <2>3, <3>1 DEF TaskMoves, Running
  <2>4. ASSUME NEW n, Streams(f, n) PROVE \A g \in File : TaskMoves(g)
    BY <2>2, <2>3, <2>4 DEF Streams
  <2> QED BY <1>5, <2>2, <2>3, <2>4 DEF Task, ChannelOpens, SlabRead, BufferLow, ReadFails
<1>6. ASSUME NEW f \in File, \/ OnReject(f) \/ OnCancel(f) \/ UserAborts(f) \/ CtrlR(f) \/ Frames(f)
                             \/ UserAccepts(f) \/ UserDeclines(f) \/ UserCancels(f)
      PROVE  task' = task /\ cancelled \subseteq cancelled'
  BY <1>6 DEF OnReject, OnCancel, UserAborts, abort, cancel_outgoing, CtrlR, OnOffer, OnAbort,
              Frames, RecvStart, RecvChunk, RecvEnd, UserAccepts, UserDeclines, UserCancels, outgoing, tasks
<1>7. ASSUME (\E n \in File : OnFiles(n)) \/ CtrlOpens \/ UserAcceptsAll \/ UNCHANGED vars
      PROVE  task' = task /\ cancelled \subseteq cancelled'
  BY <1>7 DEF OnFiles, CtrlOpens, UserAcceptsAll, vars, outgoing, tasks
<1>8. ASSUME NEW side, Disconnects(side) \/ PeerLeft(side) \/ LinkLost(side)
      PROVE  task' = task /\ cancelled \subseteq cancelled'
  BY <1>8 DEF Disconnects, PeerLeft, LinkLost, outgoing, tasks
<1> QED BY <1>3, <1>4, <1>5, <1>6, <1>7, <1>8 DEF Next, CtrlS

(* The frames of a channel after a task has sent some, and perhaps closed  *)
(* the channel, are old ones or sent ones.                                 *)
LEMMA SentFrames ==
  ASSUME NEW c \in Seq(Frame), NEW d \in Seq(Frame), NEW w,
         \/ w = c \o d
         \/ \E k \in 0..Len(c \o d) : w = SubSeq(c \o d, 1, k)
  PROVE  \A i \in 1..Len(w) : w[i] \in Elems(c) \cup Elems(d)
<1> DEFINE v == c \o d
<1>1. /\ v \in Seq(Frame) /\ Len(v) = Len(c) + Len(d) /\ Len(c) \in Nat /\ Len(d) \in Nat
      /\ \A i \in 1..Len(v) : v[i] = IF i <= Len(c) THEN c[i] ELSE d[i - Len(c)]
  BY ConcatProperties
<1>2. \A i \in 1..Len(v) : IF i <= Len(c) THEN i \in 1..Len(c) ELSE i - Len(c) \in 1..Len(d)
  BY <1>1
<1>3. w = v \/ \E k \in 0..Len(v) : w = SubSeq(v, 1, k)
  OBVIOUS
<1> HIDE DEF v
<1>4. \A i \in 1..Len(v) : v[i] \in Elems(c) \cup Elems(d)
  BY <1>1, <1>2 DEF Elems
<1>5. ASSUME NEW k \in 0..Len(v), w = SubSeq(v, 1, k)
      PROVE  \A i \in 1..Len(w) : w[i] \in Elems(c) \cup Elems(d)
  <2>1. Len(w) = k /\ \A i \in 1..k : w[i] = v[i] /\ i \in 1..Len(v)
    BY <1>1, <1>5, SubSeqProperties
  <2> QED BY <1>4, <2>1
<1> QED BY <1>3, <1>4, <1>5

(* An End goes out with the row set to Done and the task returned. *)
EndMoves(f) ==
    Size[f] > 0 /\ EndSent(f)' =>
        EndSent(f) \/ (task'[f] = "returned" /\ f \in DOMAIN srow' /\ srow'[f] = "Done")

(* A sending task, which sends End only when it found no flag. *)
LEMMA TaskEnds ==
  ASSUME TypeOK, SlotInv, NEW f \in File, Task(f) \/ ReadFails(f)
  PROVE  \A g \in File : EndMoves(g)
<1>0. /\ chan \in [File -> Seq(Frame)] /\ Size[f] \in Nat /\ sent[f] \in Nat /\ sent[f] <= Size[f]
      /\ task \in [File -> TaskState]
  BY TransferAssumption DEF TypeOK, WireType, SenderType
<1>1. task[f] \in Running /\ saved' = saved
  BY DEF Task, ChannelOpens, SlabRead, BufferLow, ReadFails, Running, receiver
<1>2. ASSUME NEW d \in Seq(Frame), \A i \in 1..Len(d) : d[i].type # "End",
             \/ chan' = [chan EXCEPT ![f] = chan[f] \o d]
             \/ \E k \in 0..Len(chan[f] \o d) : chan' = [chan EXCEPT ![f] = SubSeq(chan[f] \o d, 1, k)]
      PROVE  \A g \in File : EndMoves(g)
  <2>1. \A g \in File : g # f => chan'[g] = chan[g]
    BY <1>0, <1>2
  <2>2. \/ chan'[f] = chan[f] \o d
        \/ \E k \in 0..Len(chan[f] \o d) : chan'[f] = SubSeq(chan[f] \o d, 1, k)
    BY <1>0, <1>2
  <2>3. \A i \in 1..Len(chan'[f]) : chan'[f][i] \in Elems(chan[f]) \cup Elems(d)
    BY <1>0, <2>2, SentFrames
  <2>4. (\E i \in 1..Len(chan'[f]) : chan'[f][i].type = "End") => \E i \in 1..Len(chan[f]) : chan[f][i].type = "End"
    BY <1>2, <2>3 DEF Elems
  <2>5. \A g \in File : EndSent(g)' => EndSent(g)
    BY <1>1, <2>1, <2>4 DEF EndSent
  <2> QED BY <2>5 DEF EndMoves
<1>3. ASSUME NEW d, Returns(f, d) PROVE \A g \in File : g # f => EndMoves(g)
  <2>1. \A g \in File : g # f => chan'[g] = chan[g]
    BY <1>0, <1>1, <1>3, ReturnsShape
  <2> QED BY <1>1, <2>1 DEF EndMoves, EndSent
<1>4. ASSUME NEW d, Returns(f, d), f \notin cancelled PROVE \A g \in File : EndMoves(g)
  <2>1. task'[f] = "returned"
    BY <1>1, <1>4, ReturnsShape
  <2>2. srow' = send_progress(srow, f, Size[f], Size[f])
    BY <1>4 DEF Returns
  <2>3. f \in DOMAIN srow' /\ srow'[f] = "Done"
    BY <1>0, <2>2 DEF send_progress, Put
  <2> QED BY <1>3, <1>4, <2>1, <2>3 DEF EndMoves
<1>5. ASSUME NEW d \in Seq(Frame), Returns(f, d), \A i \in 1..Len(d) : d[i].type # "End"
      PROVE  \A g \in File : EndMoves(g)
  BY <1>1, <1>2, <1>5, ReturnsShape
<1>6. <<>> \in Seq(Frame) /\ \A i \in 1..Len(<<>>) : <<>>[i].type # "End"
  OBVIOUS
<1>7. <<Start>> \in Seq(Frame) /\ \A i \in 1..Len(<<Start>>) : <<Start>>[i].type # "End"
  BY FrameType DEF Start
<1>8. ASSUME NEW n \in Nat, sent[f] <= n, Streams(f, n), f \notin cancelled PROVE \A g \in File : EndMoves(g)
  <2> DEFINE d == Chunks(sent[f], n)
  <2>1. Returns(f, Append(d, End)) \/ chan' = [chan EXCEPT ![f] = chan[f] \o d]
    BY <1>8 DEF Streams, Send
  <2>2. d \in Seq(Frame) /\ Len(d) = n - sent[f]
    BY <1>0, <1>8, FrameType
  <2>3. \A i \in 1..(n - sent[f]) : d[i].type = "Chunk"
    BY DEF Chunks, Chunk
  <2> HIDE DEF d
  <2>4. \A i \in 1..Len(d) : d[i].type # "End"
    BY <2>2, <2>3
  <2> QED BY <1>2, <1>4, <1>8, <2>1, <2>2, <2>4
<1>9. CASE ChannelOpens(f)
  <2>1. ASSUME Size[f] = 0, Returns(f, <<Start, End>>) PROVE \A g \in File : EndMoves(g)
    BY <1>3, <2>1 DEF EndMoves
  <2>2. ASSUME Send(f, <<Start>>) PROVE \A g \in File : EndMoves(g)
    BY <1>2, <1>7, <2>2 DEF Send
  <2> QED BY <1>5, <1>7, <1>9, <2>1, <2>2 DEF ChannelOpens
<1>10. ASSUME files' = files PROVE \A g \in File : EndMoves(g)
  BY <1>1, <1>10 DEF EndMoves, EndSent, files
<1>11. CASE SlabRead(f)
  <2>1. \A n \in sent[f]..SlabEnd(f, sent[f]) : n \in Nat /\ sent[f] <= n
    BY <1>0
  <2> QED BY <1>5, <1>6, <1>8, <1>10, <1>11, <2>1 DEF SlabRead
<1>12. CASE BufferLow(f)
  <2>1. \A n \in (sent[f] + 1)..SlabEnd(f, sent[f]) : n \in Nat /\ sent[f] <= n
    BY <1>0
  <2> QED BY <1>5, <1>6, <1>8, <1>12, <2>1 DEF BufferLow
<1>13. CASE ReadFails(f)
  BY <1>5, <1>6, <1>13 DEF ReadFails
<1> QED BY <1>9, <1>11, <1>12, <1>13 DEF Task

(* Every step. *)
LEMMA EndsMove ==
  ASSUME TypeOK, SlotInv, [Next]_vars
  PROVE  \A f \in File : EndMoves(f)
<1>1. ASSUME UNCHANGED <<chan, saved>> PROVE \A f \in File : EndMoves(f)
  BY <1>1 DEF EndMoves, EndSent
<1>2. ASSUME NEW f \in File, Frames(f) PROVE \A g \in File : EndMoves(g)
  <2>1. chan \in [File -> Seq(Frame)] /\ chan[f] # <<>> /\ chan' = [chan EXCEPT ![f] = Tail(chan[f])]
    BY <1>2 DEF Frames, RecvStart, RecvChunk, RecvEnd, Receives, TypeOK, WireType
  <2> DEFINE c == chan[f]
  <2>2. /\ Len(c) \in Nat \ {0} /\ Len(Tail(c)) = Len(c) - 1 /\ Head(c) = c[1]
        /\ \A i \in 1..Len(Tail(c)) : Tail(c)[i] = c[i + 1]
    BY <2>1, HeadTailProperties
  <2>3. 1 \in 1..Len(c) /\ \A i \in 1..Len(Tail(c)) : i + 1 \in 1..Len(c)
    BY <2>2
  <2>4. (\E i \in 1..Len(chan'[f]) : chan'[f][i].type = "End") => \E i \in 1..Len(c) : c[i].type = "End"
    BY <2>1, <2>2, <2>3
  <2>5. \A g \in File : g # f => chan'[g] = chan[g]
    BY <2>1
  <2>6. \A g \in File : saved'[g] = saved[g] \/ (g = f /\ Head(c).type = "End")
    BY <1>2 DEF Frames, RecvStart, RecvChunk, RecvEnd, Receives, finalize_recv, TypeOK, ReceiverType
  <2>7. \A g \in File : EndSent(g)' => EndSent(g)
    BY <2>2, <2>3, <2>4, <2>5, <2>6 DEF EndSent
  <2> QED BY <2>7 DEF EndMoves
<1>3. ASSUME NEW f \in File, CtrlS(f) \/ UserAborts(f) \/ CtrlR(f) \/ UserAccepts(f) \/ UserDeclines(f) \/ UserCancels(f)
      PROVE  UNCHANGED <<chan, saved>>
  BY <1>3 DEF CtrlS, OnAccept, OnReject, OnCancel, UserAborts, CtrlR, OnOffer, OnAbort,
              UserAccepts, UserDeclines, UserCancels, receiver, files
<1>4. ASSUME (\E n \in File : OnFiles(n)) \/ CtrlOpens \/ UserAcceptsAll \/ UNCHANGED vars
      PROVE  UNCHANGED <<chan, saved>>
  BY <1>4 DEF OnFiles, CtrlOpens, UserAcceptsAll, vars, receiver, files
<1>5. ASSUME NEW side, Disconnects(side) \/ PeerLeft(side) \/ LinkLost(side) PROVE UNCHANGED <<chan, saved>>
  BY <1>5 DEF Disconnects, PeerLeft, LinkLost, receiver, files
<1> QED BY <1>1, <1>2, <1>3, <1>4, <1>5, TaskEnds DEF Next

-----------------------------------------------------------------------------
(* The theorems.                                                           *)

(* The whole invariant of the rows. *)
RowsInv == TransferInv /\ IdInv /\ OfferInv /\ RowInv

(* It holds at the start. *)
LEMMA InitRows == Init => IdInv /\ OfferInv /\ RowInv
<1> SUFFICES ASSUME Init PROVE IdInv /\ OfferInv /\ RowInv
  OBVIOUS
<1>1. Elems(toR) = {} /\ Elems(toS) = {}
  BY DEF Init, Elems
<1>2. IdInv
  BY DEF Init, IdInv, NoRows
<1>3. OfferInv
  BY <1>1 DEF Init, OfferInv, Once, OfferedOn, Rejecting, Cancelling, NoRows
<1>4. RowInv
  BY DEF Init, RowInv, EndSent, NoRows
<1> QED BY <1>2, <1>3, <1>4

(* Every step keeps the ids in order. *)
LEMMA NextIds ==
  ASSUME TransferInv, IdInv, [Next]_vars, \A f \in File : RowMoves(f), TypeOK' PROVE IdInv'
<1>0. TypeOK /\ SlotInv /\ nextId \in Nat /\ nextId' \in Nat /\ DOMAIN srow' \subseteq File
  BY DEF TransferInv, TypeOK, SenderType
<1>1. UNCHANGED picks \/ (\E n \in File : OnFiles(n)) \/ CtrlOpens
  BY DEF Next, vars, UserAcceptsAll, CtrlS, OnAccept, OnReject, OnCancel, UserAborts,
         Task, ChannelOpens, SlabRead, BufferLow, ReadFails, CtrlR, OnOffer, OnAbort,
         Frames, RecvStart, RecvChunk, RecvEnd, UserAccepts, UserDeclines, UserCancels,
         Disconnects, PeerLeft, LinkLost
<1>2. /\ \A i, j \in 1..Len(pending') : pending'[i] = pending'[j] => i = j
      /\ nextId' >= nextId
  <2>1. CASE UNCHANGED picks
    BY <1>0, <2>1 DEF IdInv, picks
  <2> QED BY <1>0, <1>1, <2>1, PicksKeepIds
<1>3. ASSUME NEW f \in DOMAIN srow' PROVE f < nextId'
  <2>1. RowMoves(f) /\ f \in Nat /\ f \in File
    BY <1>0 DEF File
  <2>2. f \in DOMAIN srow => f < nextId
    BY DEF IdInv
  <2>3. task[f] \in Running => f < nextId
    BY <1>0, <2>1 DEF SlotInv, Fresh, Unsent, Running
  <2>4. f < nextId' \/ f < nextId
    BY <2>1, <2>2, <2>3 DEF RowMoves
  <2> QED BY <1>0, <1>2, <2>1, <2>4
<1> QED BY <1>2, <1>3 DEF IdInv

(* Every step keeps what the rows say true. *)
LEMMA NextRows ==
  ASSUME TransferInv, RowInv,
         \A f \in File : RowMoves(f) /\ TaskMoves(f) /\ EndMoves(f)
  PROVE  RowInv'
<1> SUFFICES ASSUME NEW f \in File
             PROVE  /\ Size[f] > 0 /\ EndSent(f)' => task'[f] = "returned" /\ f \in DOMAIN srow' /\ srow'[f] = "Done"
                    /\ f \in DOMAIN srow' /\ srow'[f] = "Cancelled" =>
                          \/ link'["S"] = "torn"
                          \/ f \in accepted' /\ (task'[f] = "returned" \/ f \in cancelled')
                    /\ f \in DOMAIN srow' /\ srow'[f] = "Active" => f \in accepted'
  BY DEF RowInv
<1>1. RowMoves(f) /\ TaskMoves(f) /\ EndMoves(f)
  OBVIOUS
<1>2. task[f] # "none" => f \in accepted
  BY DEF TransferInv, AcceptInv
<1>3. ASSUME Size[f] > 0, EndSent(f)'
      PROVE  task'[f] = "returned" /\ f \in DOMAIN srow' /\ srow'[f] = "Done"
  <2>1. CASE EndSent(f)
    <3>1. task[f] = "returned" /\ f \in DOMAIN srow /\ srow[f] = "Done" /\ f \in accepted
      BY <1>2, <1>3, <2>1 DEF RowInv
    <3> QED BY <1>1, <3>1 DEF RowMoves, TaskMoves, Running
  <2> QED BY <1>1, <1>3, <2>1 DEF EndMoves
<1>4. ASSUME f \in DOMAIN srow', srow'[f] = "Cancelled"
      PROVE  \/ link'["S"] = "torn"
             \/ f \in accepted' /\ (task'[f] = "returned" \/ f \in cancelled')
  <2>1. CASE f \in DOMAIN srow /\ srow[f] = "Cancelled"
    BY <1>1, <2>1 DEF RowInv, TaskMoves
  <2> QED BY <1>1, <1>4, <2>1 DEF RowMoves, TaskMoves
<1>5. ASSUME f \in DOMAIN srow', srow'[f] = "Active" PROVE f \in accepted'
  <2>1. (f \in DOMAIN srow /\ srow[f] = "Active") \/ task[f] \in Running
    BY <1>1, <1>5 DEF RowMoves
  <2> QED BY <1>1, <1>2, <2>1 DEF RowInv, TaskMoves, Running
<1> QED BY <1>3, <1>4, <1>5

(* One step of the whole invariant, and how it moves the rows. *)
LEMMA RowsStep ==
  ASSUME RowsInv, [Next]_vars
  PROVE  RowsInv' /\ \A f \in File : RowMoves(f)
<1>1. TransferInv /\ TypeOK /\ SlotInv /\ IdInv /\ OfferInv /\ RowInv
  BY DEF RowsInv, TransferInv
<1>2. TransferInv' /\ TypeOK'
  BY NextType, NextWell, NextStream, NextAccept DEF RowsInv, TransferInv
<1>3. \A f \in File : RowMoves(f)
  BY <1>1, RowsMove
<1>4. \A f \in File : TaskMoves(f)
  BY <1>1, TasksMove
<1>5. \A f \in File : EndMoves(f)
  BY <1>1, EndsMove
<1>6. IdInv'
  BY <1>1, <1>2, <1>3, NextIds
<1>7. OfferInv'
  BY <1>1, NextOffers
<1>8. RowInv'
  BY <1>1, <1>3, <1>4, <1>5, NextRows
<1> QED BY <1>2, <1>3, <1>6, <1>7, <1>8 DEF RowsInv

(* The invariant holds in every reachable state. *)
THEOREM TransferRowsInvariant == Spec => []RowsInv
<1>1. Init => RowsInv
  BY InitType, InitWell, InitStream, InitRows DEF RowsInv, TransferInv
<1>2. RowsInv /\ [Next]_vars => RowsInv'
  BY RowsStep
<1> QED BY <1>1, <1>2, PTL DEF Spec

(* Whenever a file that is not empty has been saved, the sender's row says *)
(* Done, also when a Cancel crosses End on the wire, the file is aborted   *)
(* after its last chunk or either connection is torn down (rows.rs         *)
(* mark_cancelled_remote, transfer.rs send_file_on_channel).               *)
THEOREM TransferSavedMeansDone == Spec => []SavedMeansDone
<1>1. RowsInv => SavedMeansDone
  BY DEF RowsInv, RowInv, EndSent, SavedMeansDone
<1> QED BY <1>1, TransferRowsInvariant, PTL

(* A Cancelled outgoing row stays Cancelled as long as the connection is   *)
(* kept: a task that was parked or reading when the cancel came finds its  *)
(* flag before it reports progress, and no late Reject reaches the row     *)
(* (the checks of is_cancelled in transfer.rs).                            *)
THEOREM TransferCancelledSticks == Spec => CancelledSticks
<1> DEFINE Sticks == \A f \in DOMAIN srow :
                        srow[f] = "Cancelled" /\ link["S"] # "torn" => srow'[f] = "Cancelled"
<1>1. ASSUME RowsInv, [Next]_vars PROVE [Sticks]_vars
  <2> SUFFICES ASSUME NEW f \in DOMAIN srow, srow[f] = "Cancelled", link["S"] # "torn"
               PROVE  srow'[f] = "Cancelled"
    OBVIOUS
  <2>1. f \in File
    BY <1>1 DEF RowsInv, TransferInv, TypeOK, SenderType
  <2>2. RowMoves(f)
    BY <1>1, <2>1, RowsStep
  <2>3. f \in accepted /\ (task[f] = "returned" \/ f \in cancelled)
    BY <1>1, <2>1 DEF RowsInv, RowInv
  <2> QED BY <2>2, <2>3 DEF RowMoves, Running
<1>2. Spec => [][Sticks]_vars
  BY <1>1, TransferRowsInvariant, PTL DEF Spec
<1> QED BY <1>2 DEF CancelledSticks

(* A task whose connection is open shows Done only when it has sent the    *)
(* last chunk, if no read fails.                                           *)
LEMMA TaskDone ==
  ASSUME "read" \notin Failures, TypeOK, link["S"] = "open", NEW f \in File, Task(f) \/ ReadFails(f)
  PROVE  /\ f \in DOMAIN srow' /\ srow'[f] = "Done" =>
               \/ sent'[f] = Size[f]
               \/ f \in DOMAIN srow /\ srow[f] = "Done" /\ sent' = sent
         /\ \A g \in File : g # f =>
               /\ sent'[g] = sent[g]
               /\ g \in DOMAIN srow' => g \in DOMAIN srow /\ srow'[g] = srow[g]
<1> DEFINE Own == f \in DOMAIN srow' /\ srow'[f] = "Done" =>
                     \/ sent'[f] = Size[f]
                     \/ f \in DOMAIN srow /\ srow[f] = "Done" /\ sent' = sent
           Others == \A g \in File : g # f =>
                        /\ sent'[g] = sent[g]
                        /\ g \in DOMAIN srow' => g \in DOMAIN srow /\ srow'[g] = srow[g]
<1>0. Size[f] \in Nat /\ sent \in [File -> Nat] /\ sent[f] <= Size[f]
  BY TransferAssumption DEF TypeOK, SenderType
<1>1. ASSUME srow' = srow, sent' = sent PROVE Own /\ Others
  BY <1>1
<1>2. ASSUME NEW m, NEW n, srow' = send_progress(srow, f, m, n) \/ srow' = srow,
             \A g \in File : g # f => sent'[g] = sent[g]
      PROVE  Others
  BY <1>2 DEF send_progress, Put
<1>3. ASSUME NEW d, Returns(f, d), f \in cancelled, sent' = sent PROVE Own /\ Others
  BY <1>1, <1>3 DEF Returns
<1>4. ASSUME NEW d, Returns(f, d), sent'[f] = Size[f], \A g \in File : g # f => sent'[g] = sent[g]
      PROVE  Own /\ Others
  BY <1>2, <1>4 DEF Returns
<1>5. ASSUME NEW n \in Nat, Streams(f, n), sent[f] <= n PROVE Own /\ Others
  <2>1. sent'[f] = n /\ \A g \in File : g # f => sent'[g] = sent[g]
    BY <1>0, <1>5 DEF Streams
  <2>2. CASE n = Size[f] /\ Returns(f, Append(Chunks(sent[f], n), End))
    BY <1>4, <2>1, <2>2
  <2>3. CASE n < Size[f] /\ srow' = IF n = sent[f] THEN srow ELSE send_progress(srow, f, n, Size[f])
    <3>1. Others
      BY <1>2, <2>1, <2>3
    <3>2. CASE n = sent[f]
      <4>1. sent' = sent
        BY <1>0, <1>5, <3>2 DEF Streams
      <4> QED BY <1>1, <2>3, <3>2, <4>1
    <3>3. CASE n # sent[f]
      <4>1. srow'[f] = "Active"
        BY <1>0, <2>3, <3>3 DEF send_progress, Put
      <4> QED BY <3>1, <4>1
    <3> QED BY <3>2, <3>3
  <2> QED BY <1>5, <2>2, <2>3 DEF Streams
<1>6. CASE ChannelOpens(f)
  <2>1. sent' = sent
    BY <1>6 DEF ChannelOpens
  <2>2. Size[f] = 0 => sent'[f] = Size[f]
    BY <1>0, <2>1
  <2> QED BY <1>1, <1>3, <1>4, <1>6, <2>1, <2>2 DEF ChannelOpens
<1>7. CASE SlabRead(f)
  <2>1. \A n \in sent[f]..SlabEnd(f, sent[f]) : n \in Nat /\ sent[f] <= n
    BY <1>0
  <2> QED BY <1>3, <1>5, <1>7, <2>1 DEF SlabRead
<1>8. CASE BufferLow(f)
  <2>1. \A n \in (sent[f] + 1)..SlabEnd(f, sent[f]) : n \in Nat /\ sent[f] <= n
    BY <1>0
  <2> QED BY <1>3, <1>5, <1>8, <2>1 DEF BufferLow
<1>9. ~ReadFails(f)
  BY DEF ReadFails
<1> QED BY <1>6, <1>7, <1>8, <1>9 DEF Task

(* Before ctrl opens no task exists; until the connection is lost or torn  *)
(* down, Done means sent.                                                  *)
DoneInv ==
    /\ link["S"] = "new" => \A f \in File : task[f] = "none"
    /\ link["S"] \in {"new", "open"} => DoneMeansSent

(* Every step keeps that, if no read fails. *)
LEMMA NextDone ==
  ASSUME "read" \notin Failures, RowsInv, DoneInv, [Next]_vars
  PROVE  DoneInv'
<1>0. TypeOK /\ DOMAIN srow \subseteq File /\ link \in [{"S", "R"} -> LinkState]
  BY DEF RowsInv, TransferInv, TypeOK, SenderType, WireType
<1>1. ASSUME UNCHANGED <<task, sent>>, link'["S"] = "new" => link["S"] = "new",
             link'["S"] \in {"new", "open"} => link["S"] \in {"new", "open"},
             \A f \in DOMAIN srow' : srow'[f] = "Done" => f \in DOMAIN srow /\ srow[f] = "Done"
      PROVE  DoneInv'
  BY <1>1 DEF DoneInv, DoneMeansSent
<1>2. ASSUME NEW n \in File, OnFiles(n) PROVE DoneInv'
  <2>1. UNCHANGED <<link, task, sent>>
    BY <1>2 DEF OnFiles, tasks
  <2>2. \A f \in DOMAIN srow' : srow'[f] = "Done" => f \in DOMAIN srow /\ srow[f] = "Done"
    BY <1>2 DEF OnFiles, push_outgoing_pending, mark_offered, SetState
  <2> QED BY <1>1, <2>1, <2>2
<1>3. ASSUME CtrlOpens PROVE DoneInv'
  <2>1. UNCHANGED <<task, sent>> /\ link["S"] = "new" /\ link'["S"] = "open"
    BY <1>0, <1>3 DEF CtrlOpens, tasks
  <2>2. \A f \in DOMAIN srow' : srow'[f] = "Done" => f \in DOMAIN srow /\ srow[f] = "Done"
    BY <1>3 DEF CtrlOpens, mark_offered, SetState
  <2> QED BY <1>1, <2>1, <2>2
<1>4. ASSUME NEW f \in File, OnReject(f) \/ OnCancel(f) \/ UserAborts(f) PROVE DoneInv'
  <2>1. UNCHANGED <<link, task, sent>>
    BY <1>4 DEF OnReject, OnCancel, UserAborts, tasks
  <2>2. \A g \in DOMAIN srow' : srow'[g] = "Done" => g \in DOMAIN srow /\ srow[g] = "Done"
    BY <1>4 DEF OnReject, OnCancel, UserAborts, mark_rejected, mark_cancelled_remote, SetState
  <2> QED BY <1>1, <2>1, <2>2
<1>5. ASSUME NEW f \in File, OnAccept(f) PROVE DoneInv'
  <2>1. link["S"] = "open" /\ UNCHANGED <<link, sent, srow>>
    BY <1>5 DEF OnAccept, ReadsS, rows
  <2> QED BY <2>1 DEF DoneInv, DoneMeansSent
<1>6. ASSUME NEW f \in File, Task(f) \/ ReadFails(f) PROVE DoneInv'
  <2>1. link' = link /\ task[f] # "none"
    BY <1>6 DEF Task, ChannelOpens, SlabRead, BufferLow, ReadFails
  <2>2. link["S"] # "new"
    BY <2>1 DEF DoneInv
  <2>3. CASE link["S"] = "open"
    <3>1. DoneMeansSent
      BY <2>3 DEF DoneInv
    <3>2. ASSUME NEW g \in DOMAIN srow', srow'[g] = "Done" PROVE sent'[g] = Size[g]
      <4>1. g \in File
        BY RowsStep DEF RowsInv, TransferInv, TypeOK, SenderType
      <4> QED BY <1>0, <1>6, <2>3, <3>1, <3>2, <4>1, TaskDone DEF DoneMeansSent
    <3> QED BY <2>1, <2>2, <3>2 DEF DoneInv, DoneMeansSent
  <2>4. CASE link["S"] # "open"
    BY <2>1, <2>2, <2>4 DEF DoneInv
  <2> QED BY <2>3, <2>4
<1>7. ASSUME NEW side \in {"S", "R"}, Disconnects(side) \/ PeerLeft(side) \/ LinkLost(side) PROVE DoneInv'
  <2>1. /\ UNCHANGED <<task, sent>>
        /\ link'["S"] = "new" => link["S"] = "new"
        /\ link'["S"] \in {"new", "open"} => link["S"] \in {"new", "open"}
    BY <1>0, <1>7 DEF Disconnects, PeerLeft, LinkLost, tasks
  <2>2. \A f \in DOMAIN srow' : srow'[f] = "Done" => f \in DOMAIN srow /\ srow[f] = "Done"
    BY <1>7 DEF Disconnects, PeerLeft, LinkLost, rows, mark_all_active_cancelled, SetState
  <2> QED BY <1>1, <2>1, <2>2
<1>8. ASSUME NEW f \in File, CtrlR(f) \/ Frames(f) \/ UserAccepts(f) \/ UserDeclines(f) \/ UserCancels(f)
      PROVE  DoneInv'
  <2>1. UNCHANGED <<link, task, sent, srow>>
    BY <1>8 DEF CtrlR, OnOffer, OnAbort, Frames, RecvStart, RecvChunk, RecvEnd,
                UserAccepts, UserDeclines, UserCancels, tasks, rows
  <2> QED BY <1>1, <2>1
<1>9. ASSUME UserAcceptsAll \/ UNCHANGED vars PROVE DoneInv'
  <2>1. UNCHANGED <<link, task, sent, srow>>
    BY <1>9 DEF UserAcceptsAll, vars, tasks, rows
  <2> QED BY <1>1, <2>1
<1> QED BY <1>2, <1>3, <1>4, <1>5, <1>6, <1>7, <1>8, <1>9 DEF Next, CtrlS

(* If no read fails, an outgoing row that says Done belongs to a file of   *)
(* which every chunk was handed to the channel, as long as the sender's    *)
(* connection has been neither lost nor torn down, whatever happens to the *)
(* receiver's: the only ways to a false Done are the two errors of         *)
(* send_file that its caller ignores (transfer.rs send_file_on_channel).   *)
THEOREM TransferDoneWhileLinked ==
  ASSUME "read" \notin Failures
  PROVE  Spec => [](link["S"] \in {"new", "open"} => DoneMeansSent)
<1>1. Init => DoneInv
  BY DEF Init, DoneInv, DoneMeansSent, NoRows
<1>2. RowsInv /\ DoneInv /\ [Next]_vars => DoneInv'
  BY NextDone
<1>3. DoneInv => (link["S"] \in {"new", "open"} => DoneMeansSent)
  BY DEF DoneInv
<1> QED BY <1>1, <1>2, <1>3, TransferRowsInvariant, PTL DEF Spec

(* So where nothing fails, Done always means sent. *)
THEOREM TransferDoneMeansSent ==
  ASSUME Failures = {}
  PROVE  Spec => []DoneMeansSent
<1> DEFINE Kept == link["S"] \in {"new", "open"}
<1>1. Init => Kept
  BY DEF Init
<1>2. ASSUME TypeOK, Kept, [Next]_vars PROVE Kept'
  BY <1>2 DEF Next, vars, OnFiles, CtrlOpens, UserAcceptsAll, CtrlS, OnAccept, OnReject, OnCancel, UserAborts,
              Task, ChannelOpens, SlabRead, BufferLow, ReadFails, CtrlR, OnOffer, OnAbort,
              Frames, RecvStart, RecvChunk, RecvEnd, UserAccepts, UserDeclines, UserCancels,
              Disconnects, PeerLeft, LinkLost, TypeOK, WireType
<1>3. Spec => [](Kept => DoneMeansSent)
  <2>1. "read" \notin Failures
    OBVIOUS
  <2> QED BY <2>1, TransferDoneWhileLinked
<1> HIDE DEF Kept
<1> QED BY <1>1, <1>2, <1>3, TransferTypeOK, PTL DEF Spec

=============================================================================
