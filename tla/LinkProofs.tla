----------------------------- MODULE LinkProofs -----------------------------
(***************************************************************************)
(* Proofs about the link between two tabs, for any number of tabs,         *)
(* connections, rooms and mishaps: a tab that shows Connected is           *)
(* (ConnectedIsMutual), and two tabs with the same room in their URL end   *)
(* up together (PairMeets).                                                *)
(***************************************************************************)
EXTENDS RendezvousProofs

(* What is on its way: a message of type y, one behind position q, one     *)
(* that names peer connection n.                                           *)
Has(s, y) == \E i \in 1..Len(s) : s[i].type = y
After(s, q, y) == \E r \in 1..Len(s) : q < r /\ s[r].type = y
Sent(s, n) == \E i \in 1..Len(s) : s[i].type \in Relays /\ s[i].pc = n

(* A PeerLeft comes, and no answer of n before it. *)
Spared(s, n) ==
    \E q \in 1..Len(s) :
        /\ s[q].type = "PeerLeft"
        /\ \A p \in 1..Len(s) : p < q => ~(s[p].type = "Answer" /\ s[p].pc = n)

(* The replies s on their way to a tab whose peer connection is of kind k  *)
(* ("None", "Offer", "Answer").  A PeerJoined finds it without a peer      *)
(* connection: a PeerLeft comes before it.  Offers come first of all, to   *)
(* one that makes none.                                                    *)
Flow(k, s) ==
    /\ \A i \in 1..Len(s) : s[i].type = "PeerJoined" =>
          /\ k # "None" => \E r \in 1..Len(s) : r < i /\ s[r].type = "PeerLeft"
          /\ \A q \in 1..Len(s) : q < i /\ s[q].type \in {"PeerJoined", "Offer"} =>
                \E r \in 1..Len(s) : q < r /\ r < i /\ s[r].type = "PeerLeft"
    /\ \A i \in 1..Len(s) : s[i].type = "Offer" =>
          /\ k # "Offer"
          /\ \A q \in 1..Len(s) : q < i => s[q].type \notin {"PeerJoined", "PeerLeft"}
    /\ \A i \in 1..Len(s) : s[i].type = "Created" => i = 1 /\ k = "None"

(* The same, by the place of the tab: what it has of a peer that left ends *)
(* with a PeerLeft; the first of two was told of the second, and has a     *)
(* peer connection for it unless it failed to build one (st is the status);*)
(* the second hears of nobody coming or leaving and makes no offer.        *)
Seat(k, st, s, first, alone) ==
    /\ alone => /\ k # "None" => Has(s, "PeerLeft")
                /\ \A q \in 1..Len(s) : s[q].type \in {"PeerJoined", "Offer"} => After(s, q, "PeerLeft")
    /\ ~alone /\ first =>
          /\ k = "Answer" => Has(s, "PeerLeft")
          /\ \A q \in 1..Len(s) : s[q].type = "Offer" => After(s, q, "PeerLeft")
          /\ \A q \in 1..Len(s) : s[q].type = "PeerLeft" => After(s, q, "PeerJoined")
          /\ Has(s, "PeerJoined") \/ (~Has(s, "Created") /\ (k # "None" \/ st = "Error"))
    /\ ~first => /\ ~Has(s, "PeerJoined") /\ ~Has(s, "PeerLeft") /\ ~Has(s, "Created")
                 /\ k # "Offer"

-----------------------------------------------------------------------------
(* Reading and sending. *)

(* Nothing is in an empty box. *)
LEMMA Nothing ==
  ASSUME NEW k, NEW st, NEW first, NEW alone
  PROVE  /\ \A y : ~Has(<<>>, y)
         /\ \A n : ~Sent(<<>>, n)
         /\ Flow(k, <<>>)
         /\ k = "None" /\ (alone \/ ~first) => Seat(k, st, <<>>, first, alone)
<1>1. Len(<<>>) = 0 /\ \A i \in 1..Len(<<>>) : FALSE
  OBVIOUS
<1> QED BY <1>1 DEF Has, Sent, Flow, Seat

(* What is left when the head is taken. *)
LEMMA Taken ==
  ASSUME NEW S, NEW s \in Seq(S), s # <<>>
  PROVE  /\ \A y : Has(Tail(s), y) => Has(s, y)
         /\ \A y : Has(s, y) /\ Head(s).type # y => Has(Tail(s), y)
         /\ Has(s, Head(s).type)
         /\ \A y : \A i \in 1..Len(Tail(s)) : After(Tail(s), i, y) <=> After(s, i + 1, y)
         /\ \A n : Sent(Tail(s), n) => Sent(s, n)
         /\ \A n : Sent(s, n) /\ ~(Head(s).type \in Relays /\ Head(s).pc = n) => Sent(Tail(s), n)
         /\ \A n : Spared(s, n) => /\ ~(Head(s).type = "Answer" /\ Head(s).pc = n)
                                   /\ Head(s).type # "PeerLeft" => Spared(Tail(s), n)
<1> DEFINE v == Tail(s)
           m == Head(s)
<1>1. /\ Len(s) \in Nat \ {0} /\ Len(v) = Len(s) - 1 /\ m = s[1] /\ 1 \in 1..Len(s)
      /\ \A i \in 1..Len(v) : i + 1 \in 1..Len(s) /\ v[i] = s[i + 1]
  BY Parts
<1>2. \A i \in 1..Len(s) : i = 1 \/ (i - 1 \in 1..Len(v) /\ v[i - 1] = s[i] /\ (i - 1) + 1 = i)
  BY <1>1
<1> HIDE DEF v, m
<1>3. \A y : Has(v, y) => Has(s, y)
  BY <1>1 DEF Has
<1>4. \A y : Has(s, y) /\ m.type # y => Has(v, y)
  BY <1>1, <1>2 DEF Has
<1>5. Has(s, m.type)
  BY <1>1 DEF Has
<1>6. ASSUME NEW y, NEW i \in 1..Len(v) PROVE After(v, i, y) <=> After(s, i + 1, y)
  <2>1. ASSUME After(v, i, y) PROVE After(s, i + 1, y)
    <3>1. PICK r \in 1..Len(v) : i < r /\ v[r].type = y
      BY <2>1 DEF After
    <3>2. r + 1 \in 1..Len(s) /\ i + 1 < r + 1 /\ s[r + 1].type = y
      BY <1>1, <3>1
    <3> QED BY <3>2 DEF After
  <2>2. ASSUME After(s, i + 1, y) PROVE After(v, i, y)
    <3>1. PICK r \in 1..Len(s) : i + 1 < r /\ s[r].type = y
      BY <2>2 DEF After
    <3>2. r - 1 \in 1..Len(v) /\ i < r - 1 /\ v[r - 1].type = y
      BY <1>1, <1>2, <3>1
    <3> QED BY <3>2 DEF After
  <2> QED BY <2>1, <2>2
<1>7. \A n : Sent(v, n) => Sent(s, n)
  BY <1>1 DEF Sent
<1>8. \A n : Sent(s, n) /\ ~(m.type \in Relays /\ m.pc = n) => Sent(v, n)
  BY <1>1, <1>2 DEF Sent
<1>9. ASSUME NEW n, Spared(s, n)
      PROVE  ~(m.type = "Answer" /\ m.pc = n) /\ (m.type # "PeerLeft" => Spared(v, n))
  <2>1. PICK q \in 1..Len(s) : /\ s[q].type = "PeerLeft"
                               /\ \A p \in 1..Len(s) : p < q => ~(s[p].type = "Answer" /\ s[p].pc = n)
    BY <1>9 DEF Spared
  <2>2. ~(m.type = "Answer" /\ m.pc = n)
    BY <1>1, <2>1
  <2>3. ASSUME m.type # "PeerLeft" PROVE Spared(v, n)
    <3>1. q - 1 \in 1..Len(v) /\ v[q - 1].type = "PeerLeft"
      BY <1>1, <1>2, <2>1, <2>3
    <3>2. \A p \in 1..Len(v) : p < q - 1 => ~(v[p].type = "Answer" /\ v[p].pc = n)
      BY <1>1, <2>1
    <3> QED BY <3>1, <3>2 DEF Spared
  <2> QED BY <2>2, <2>3
<1> QED BY <1>3, <1>4, <1>5, <1>6, <1>7, <1>8, <1>9 DEF v, m

(* A description that is not at the head is under way still. *)
LEMMA SentOn ==
  ASSUME NEW S, NEW s \in Seq(S), s # <<>>, NEW n, Sent(s, n),
         Head(s).type \in Relays => Head(s).pc # n
  PROVE  Sent(Tail(s), n)
  BY Taken

(* What is behind the head. *)
LEMMA Behind ==
  ASSUME NEW S, NEW s \in Seq(S), s # <<>>, NEW y, Has(Tail(s), y)
  PROVE  After(s, 1, y)
<1>1. /\ Len(s) \in Nat \ {0} /\ Len(Tail(s)) = Len(s) - 1
      /\ \A i \in 1..Len(Tail(s)) : i + 1 \in 1..Len(s) /\ Tail(s)[i] = s[i + 1]
  BY Parts
<1>2. PICK i \in 1..Len(Tail(s)) : Tail(s)[i].type = y
  BY DEF Has
<1>3. i \in Int /\ 1 <= i
  BY <1>1
<1>4. 1 < i + 1 /\ i + 1 \in 1..Len(s) /\ s[i + 1].type = y
  BY <1>1, <1>2, <1>3
<1> QED BY <1>4 DEF After

(* What is there when m is added. *)
LEMMA Added ==
  ASSUME NEW S, NEW s \in Seq(S), NEW m \in S
  PROVE  /\ \A y : Has(Append(s, m), y) <=> Has(s, y) \/ m.type = y
         /\ \A y : \A i \in 1..Len(s) : After(Append(s, m), i, y) <=> After(s, i, y) \/ m.type = y
         /\ \A y : ~After(Append(s, m), Len(s) + 1, y)
         /\ \A n : Sent(Append(s, m), n) <=> Sent(s, n) \/ (m.type \in Relays /\ m.pc = n)
         /\ \A n : Spared(s, n) => Spared(Append(s, m), n)
<1> DEFINE v == Append(s, m)
<1>1. /\ Len(s) \in Nat /\ Len(v) = Len(s) + 1 /\ v[Len(s) + 1] = m
      /\ \A i \in 1..Len(s) : i \in 1..Len(v) /\ v[i] = s[i]
      /\ \A i \in 1..Len(v) : i \in 1..Len(s) \/ i = Len(s) + 1
      /\ Len(s) + 1 \in 1..Len(v)
  BY Grown
<1> HIDE DEF v
<1>2. \A y : Has(v, y) <=> Has(s, y) \/ m.type = y
  BY <1>1 DEF Has
<1>3. \A y : \A i \in 1..Len(s) : After(v, i, y) <=> After(s, i, y) \/ m.type = y
  BY <1>1 DEF After
<1>4. \A y : ~After(v, Len(s) + 1, y)
  BY <1>1 DEF After
<1>5. \A n : Sent(v, n) <=> Sent(s, n) \/ (m.type \in Relays /\ m.pc = n)
  BY <1>1 DEF Sent
<1>6. ASSUME NEW n, Spared(s, n) PROVE Spared(v, n)
  BY <1>1, <1>6 DEF Spared
<1> QED BY <1>2, <1>3, <1>4, <1>5, <1>6 DEF v

(* A PeerLeft behind every answer of n is before them all. *)
LEMMA Sparing ==
  ASSUME NEW s, NEW n, Has(s, "PeerLeft"),
         \A i \in 1..Len(s) : s[i].type = "Answer" /\ s[i].pc = n => ~After(s, i, "PeerLeft")
  PROVE  Spared(s, n)
  BY DEF Has, After, Spared

(* A tab reads the head of its replies: how the flow goes on. *)
LEMMA FlowTaken ==
  ASSUME NEW k, NEW s \in Seq(Reply), s # <<>>, Flow(k, s)
  PROVE  LET m == Head(s)
             v == Tail(s)
         IN
         /\ m.type = "PeerJoined" => k = "None" /\ Flow("Offer", v) /\ Flow("None", v)
         /\ m.type = "Offer" => k # "Offer" /\ Flow("Answer", v) /\ Flow(k, v)
         /\ m.type = "PeerLeft" => Flow("None", v)
         /\ m.type = "Created" => k = "None" /\ Flow("None", v)
         /\ m.type \in {"Answer"} \cup Refusals => Flow(k, v)
<1> DEFINE v == Tail(s)
           m == Head(s)
<1>1. /\ Len(s) \in Nat \ {0} /\ Len(v) = Len(s) - 1 /\ m = s[1] /\ 1 \in 1..Len(s)
      /\ \A i \in 1..Len(v) : i + 1 \in 1..Len(s) /\ v[i] = s[i + 1]
  BY Parts
<1>2. \A i \in 1..Len(s) : i = 1 \/ (i - 1 \in 1..Len(v) /\ v[i - 1] = s[i])
  BY <1>1
<1> HIDE DEF v, m
<1>3. \A i \in 1..Len(v) : v[i].type # "Created"
  <2>1. \A i \in 1..Len(v) : i + 1 # 1
    BY <1>1
  <2> QED BY <1>1, <2>1 DEF Flow
<1>4. ASSUME NEW i \in 1..Len(v), v[i].type = "PeerJoined", NEW q \in 1..Len(v), q < i,
             v[q].type \in {"PeerJoined", "Offer"}
      PROVE  \E r \in 1..Len(v) : q < r /\ r < i /\ v[r].type = "PeerLeft"
  <2>1. /\ i + 1 \in 1..Len(s) /\ q + 1 \in 1..Len(s) /\ s[i + 1].type = "PeerJoined"
        /\ q + 1 < i + 1 /\ s[q + 1].type \in {"PeerJoined", "Offer"}
    BY <1>1, <1>4
  <2>2. PICK r \in 1..Len(s) : q + 1 < r /\ r < i + 1 /\ s[r].type = "PeerLeft"
    BY <2>1 DEF Flow
  <2>3. r - 1 \in 1..Len(v) /\ q < r - 1 /\ r - 1 < i /\ v[r - 1].type = "PeerLeft"
    BY <1>1, <1>2, <2>2
  <2> QED BY <2>3
<1>5. \A i \in 1..Len(v) : v[i].type = "Offer" =>
          /\ k # "Offer" /\ m.type \notin {"PeerJoined", "PeerLeft"}
          /\ \A q \in 1..Len(v) : q < i => v[q].type \notin {"PeerJoined", "PeerLeft"}
  <2> SUFFICES ASSUME NEW i \in 1..Len(v), v[i].type = "Offer"
               PROVE  /\ k # "Offer" /\ m.type \notin {"PeerJoined", "PeerLeft"}
                      /\ \A q \in 1..Len(v) : q < i => v[q].type \notin {"PeerJoined", "PeerLeft"}
    OBVIOUS
  <2>1. i + 1 \in 1..Len(s) /\ s[i + 1].type = "Offer" /\ 1 < i + 1
    BY <1>1
  <2>2. k # "Offer" /\ \A q \in 1..Len(s) : q < i + 1 => s[q].type \notin {"PeerJoined", "PeerLeft"}
    BY <2>1 DEF Flow
  <2> QED BY <1>1, <2>1, <2>2
<1>6. ASSUME NEW i \in 1..Len(v), v[i].type = "PeerJoined", m.type # "PeerLeft",
             k # "None" \/ m.type \in {"PeerJoined", "Offer"}
      PROVE  \E r \in 1..Len(v) : r < i /\ v[r].type = "PeerLeft"
  <2>1. i + 1 \in 1..Len(s) /\ s[i + 1].type = "PeerJoined" /\ 1 < i + 1
    BY <1>1, <1>6
  <2>2. PICK r \in 1..Len(s) : r < i + 1 /\ s[r].type = "PeerLeft"
    BY <1>1, <1>6, <2>1 DEF Flow
  <2>3. r - 1 \in 1..Len(v) /\ r - 1 < i /\ v[r - 1].type = "PeerLeft"
    BY <1>1, <1>2, <1>6, <2>2
  <2> QED BY <2>3
<1>7. ASSUME m.type = "PeerJoined" PROVE k = "None" /\ Flow("Offer", v) /\ Flow("None", v)
  <2>1. k = "None"
    <3> SUFFICES ASSUME k # "None" PROVE FALSE
      OBVIOUS
    <3>1. \E r \in 1..Len(s) : r < 1 /\ s[r].type = "PeerLeft"
      BY <1>1, <1>7 DEF Flow
    <3> QED BY <1>1, <3>1
  <2> QED BY <1>3, <1>4, <1>5, <1>6, <1>7, <2>1 DEF Flow
<1>8. ASSUME m.type = "Offer" PROVE k # "Offer" /\ Flow("Answer", v) /\ Flow(k, v)
  <2>1. k # "Offer"
    BY <1>1, <1>8 DEF Flow
  <2> QED BY <1>3, <1>4, <1>5, <1>6, <1>8, <2>1 DEF Flow
<1>9. ASSUME m.type = "PeerLeft" PROVE Flow("None", v)
  BY <1>3, <1>4, <1>5, <1>9 DEF Flow
<1>10. ASSUME m.type \in {"Answer", "Created"} \cup Refusals PROVE Flow(k, v)
  BY <1>3, <1>4, <1>5, <1>6, <1>10 DEF Flow, Refusals
<1>11. m.type = "Created" => k = "None"
  BY <1>1 DEF Flow
<1> QED BY <1>7, <1>8, <1>9, <1>10, <1>11 DEF v, m

(* The same by the place of the tab. *)
LEMMA SeatTaken ==
  ASSUME NEW k, NEW st, NEW st2, NEW s \in Seq(Reply), s # <<>>, Flow(k, s),
         NEW first \in BOOLEAN, NEW alone \in BOOLEAN, alone => first, Seat(k, st, s, first, alone)
  PROVE  LET m == Head(s)
             v == Tail(s)
         IN
         /\ m.type = "PeerJoined" => /\ first /\ Seat("Offer", st2, v, first, alone)
                                     /\ Seat("None", "Error", v, first, alone)
         /\ m.type = "Offer" => Seat("Answer", st2, v, first, alone) /\ Seat(k, "Error", v, first, alone)
         /\ m.type = "PeerLeft" => first /\ Seat("None", st2, v, first, alone)
         /\ m.type = "Created" => first /\ Seat("None", st2, v, first, alone)
         /\ m.type = "Answer" => Seat(k, st, v, first, alone)
<1> DEFINE v == Tail(s)
           m == Head(s)
<1>1. /\ Len(s) \in Nat \ {0} /\ m = s[1] /\ 1 \in 1..Len(s)
      /\ \A i \in 1..Len(v) : i + 1 \in 1..Len(s) /\ v[i] = s[i + 1]
  BY Parts
<1>2. /\ \A y : Has(v, y) => Has(s, y)
      /\ \A y : Has(s, y) /\ m.type # y => Has(v, y)
      /\ Has(s, m.type)
      /\ \A y : \A i \in 1..Len(v) : After(v, i, y) <=> After(s, i + 1, y)
  BY Taken
<1>3. \A y : After(s, 1, y) => Has(v, y)
  <2> SUFFICES ASSUME NEW y, After(s, 1, y) PROVE Has(v, y)
    OBVIOUS
  <2>1. PICK r \in 1..Len(s) : 1 < r /\ s[r].type = y
    BY DEF After
  <2>2. Len(v) = Len(s) - 1
    BY Parts
  <2>3. r - 1 \in 1..Len(v) /\ v[r - 1] = s[r]
    BY <1>1, <2>1, <2>2
  <2> QED BY <2>1, <2>3 DEF Has
<1> HIDE DEF v, m
<1>4. CASE alone
  <2>1. \A q \in 1..Len(v) : v[q].type \in {"PeerJoined", "Offer"} => After(v, q, "PeerLeft")
    BY <1>1, <1>2, <1>4 DEF Seat
  <2>2. m.type \in {"PeerJoined", "Offer"} => Has(v, "PeerLeft")
    BY <1>1, <1>3, <1>4 DEF Seat
  <2>3. k # "None" /\ m.type # "PeerLeft" => Has(v, "PeerLeft")
    BY <1>2, <1>4 DEF Seat
  <2> QED BY <1>4, <2>1, <2>2, <2>3 DEF Seat, v, m
<1>5. CASE ~alone /\ first
  <2>1. \A q \in 1..Len(v) : v[q].type = "Offer" => After(v, q, "PeerLeft")
    BY <1>1, <1>2, <1>5 DEF Seat
  <2>2. \A q \in 1..Len(v) : v[q].type = "PeerLeft" => After(v, q, "PeerJoined")
    BY <1>1, <1>2, <1>5 DEF Seat
  <2>3. /\ m.type = "Offer" => Has(v, "PeerLeft")
        /\ m.type = "PeerLeft" => Has(v, "PeerJoined")
    BY <1>1, <1>3, <1>5 DEF Seat
  <2>4. k = "Answer" /\ m.type # "PeerLeft" => Has(v, "PeerLeft")
    BY <1>2, <1>5 DEF Seat
  <2>5. m.type = "Created" => Has(v, "PeerJoined")
    BY <1>2, <1>5 DEF Seat
  <2>6. m.type = "Answer" => Has(v, "PeerJoined") \/ (~Has(v, "Created") /\ (k # "None" \/ st = "Error"))
    BY <1>2, <1>5 DEF Seat
  <2>7. ~Has(v, "Created")
    <3>1. \A i \in 1..Len(v) : i + 1 # 1
      BY <1>1
    <3> QED BY <1>1, <3>1 DEF Flow, Has
  <2> QED BY <1>5, <2>1, <2>2, <2>3, <2>4, <2>5, <2>6, <2>7 DEF Seat, v, m
<1>6. CASE ~first
  <2>1. ~Has(v, "PeerJoined") /\ ~Has(v, "PeerLeft") /\ ~Has(v, "Created") /\ k # "Offer"
    BY <1>2, <1>6 DEF Seat
  <2>2. m.type \notin {"PeerJoined", "PeerLeft", "Created"}
    BY <1>2, <1>6 DEF Seat
  <2> QED BY <1>6, <2>1, <2>2 DEF Seat, v, m
<1> QED BY <1>4, <1>5, <1>6

(* The server adds a notice: that a peer joined one that was alone, that   *)
(* the other left, an offer for the second of two, an answer for any.      *)
LEMMA FlowAdded ==
  ASSUME NEW k, NEW st, NEW s \in Seq(Reply), Flow(k, s), NEW m \in Reply,
         NEW first \in BOOLEAN, NEW alone \in BOOLEAN, alone => first, Seat(k, st, s, first, alone)
  PROVE  LET v == Append(s, m) IN
         /\ m.type = "PeerJoined" /\ alone => Flow(k, v) /\ Seat(k, st, v, TRUE, FALSE)
         /\ m.type = "PeerLeft" => Flow(k, v) /\ Seat(k, st, v, TRUE, TRUE)
         /\ m.type = "Offer" /\ ~first => Flow(k, v) /\ Seat(k, st, v, first, alone)
         /\ m.type = "Answer" => Flow(k, v) /\ Seat(k, st, v, first, alone)
<1> DEFINE v == Append(s, m)
           l == Len(s) + 1
<1>1. /\ Len(s) \in Nat /\ Len(v) = l /\ v[l] = m /\ l \in 1..Len(v)
      /\ \A i \in 1..Len(s) : i \in 1..Len(v) /\ v[i] = s[i] /\ i < l
      /\ \A i \in 1..Len(v) : i \in 1..Len(s) \/ i = l
  BY Grown
<1>2. /\ \A y : Has(v, y) <=> Has(s, y) \/ m.type = y
      /\ \A y : \A i \in 1..Len(s) : After(v, i, y) <=> After(s, i, y) \/ m.type = y
  BY Added
<1> HIDE DEF v, l
<1>3. ASSUME NEW i \in 1..Len(s), s[i].type = "PeerJoined"
      PROVE  /\ k # "None" => \E r \in 1..Len(v) : r < i /\ v[r].type = "PeerLeft"
             /\ \A q \in 1..Len(v) : q < i /\ v[q].type \in {"PeerJoined", "Offer"} =>
                   \E r \in 1..Len(v) : q < r /\ r < i /\ v[r].type = "PeerLeft"
  <2>1. ASSUME k # "None" PROVE \E r \in 1..Len(v) : r < i /\ v[r].type = "PeerLeft"
    <3>1. PICK r \in 1..Len(s) : r < i /\ s[r].type = "PeerLeft"
      BY <1>3, <2>1 DEF Flow
    <3> QED BY <1>1, <3>1
  <2>2. ASSUME NEW q \in 1..Len(v), q < i, v[q].type \in {"PeerJoined", "Offer"}
        PROVE  \E r \in 1..Len(v) : q < r /\ r < i /\ v[r].type = "PeerLeft"
    <3>1. q \in 1..Len(s) /\ s[q].type \in {"PeerJoined", "Offer"}
      BY <1>1, <2>2
    <3>2. PICK r \in 1..Len(s) : q < r /\ r < i /\ s[r].type = "PeerLeft"
      BY <1>3, <2>2, <3>1 DEF Flow
    <3> QED BY <1>1, <3>2
  <2> QED BY <2>1, <2>2
<1>4. ASSUME NEW i \in 1..Len(s), s[i].type = "Offer"
      PROVE  k # "Offer" /\ \A q \in 1..Len(v) : q < i => v[q].type \notin {"PeerJoined", "PeerLeft"}
  BY <1>1, <1>4 DEF Flow
<1>5. \A i \in 1..Len(s) : s[i].type = "Created" => i = 1 /\ k = "None"
  BY DEF Flow
<1>6. m.type \in {"PeerLeft", "Answer"} => Flow(k, v)
  <2> SUFFICES ASSUME m.type \in {"PeerLeft", "Answer"} PROVE Flow(k, v)
    OBVIOUS
  <2>1. \A i \in 1..Len(v) : v[i].type \in {"PeerJoined", "Offer", "Created"} => i \in 1..Len(s) /\ v[i] = s[i]
    BY <1>1
  <2> QED BY <1>3, <1>4, <1>5, <2>1 DEF Flow
<1>7. m.type = "PeerJoined" /\ alone => Flow(k, v)
  <2> SUFFICES ASSUME m.type = "PeerJoined", alone PROVE Flow(k, v)
    OBVIOUS
  <2>1. k # "None" => \E r \in 1..Len(v) : r < l /\ v[r].type = "PeerLeft"
    BY <1>1 DEF Seat, Has
  <2>2. ASSUME NEW q \in 1..Len(v), q < l, v[q].type \in {"PeerJoined", "Offer"}
        PROVE  \E r \in 1..Len(v) : q < r /\ r < l /\ v[r].type = "PeerLeft"
    <3>1. q \in 1..Len(s) /\ s[q].type \in {"PeerJoined", "Offer"}
      BY <1>1, <2>2
    <3>2. After(s, q, "PeerLeft")
      BY <3>1 DEF Seat
    <3> QED BY <1>1, <3>2 DEF After
  <2>3. \A i \in 1..Len(v) : v[i].type \in {"Offer", "Created"} => i \in 1..Len(s) /\ v[i] = s[i]
    BY <1>1
  <2> QED BY <1>1, <1>3, <1>4, <1>5, <2>1, <2>2, <2>3 DEF Flow
<1>8. m.type = "Offer" /\ ~first => Flow(k, v)
  <2> SUFFICES ASSUME m.type = "Offer", ~first PROVE Flow(k, v)
    OBVIOUS
  <2>1. k # "Offer" /\ \A q \in 1..Len(s) : s[q].type \notin {"PeerJoined", "PeerLeft"}
    BY DEF Seat, Has
  <2>2. \A q \in 1..Len(v) : v[q].type \notin {"PeerJoined", "PeerLeft"}
    BY <1>1, <2>1
  <2>3. \A i \in 1..Len(v) : v[i].type = "Created" => i \in 1..Len(s) /\ v[i] = s[i]
    BY <1>1
  <2> QED BY <1>5, <2>1, <2>2, <2>3 DEF Flow
<1>9. m.type = "PeerJoined" /\ alone => Seat(k, st, v, TRUE, FALSE)
  <2> SUFFICES ASSUME m.type = "PeerJoined", alone PROVE Seat(k, st, v, TRUE, FALSE)
    OBVIOUS
  <2>1. k = "Answer" => Has(v, "PeerLeft")
    BY <1>2 DEF Seat
  <2>2. \A q \in 1..Len(v) : v[q].type = "Offer" => After(v, q, "PeerLeft")
    BY <1>1, <1>2 DEF Seat
  <2>3. \A q \in 1..Len(v) : v[q].type = "PeerLeft" => After(v, q, "PeerJoined")
    BY <1>1, <1>2
  <2>4. Has(v, "PeerJoined")
    BY <1>2
  <2> QED BY <2>1, <2>2, <2>3, <2>4 DEF Seat
<1>10. m.type = "PeerLeft" => Seat(k, st, v, TRUE, TRUE)
  BY <1>1, <1>2 DEF Seat
<1>11. m.type = "Offer" /\ ~first => Seat(k, st, v, first, alone)
  BY <1>2 DEF Seat
<1>12. m.type = "Answer" => Seat(k, st, v, first, alone)
  <2> SUFFICES ASSUME m.type = "Answer" PROVE Seat(k, st, v, first, alone)
    OBVIOUS
  <2>1. \A y : y # "Answer" => (Has(v, y) <=> Has(s, y))
    BY <1>2
  <2>2. \A y : \A q \in 1..Len(v) : v[q].type # "Answer" => q \in 1..Len(s) /\ v[q] = s[q]
    BY <1>1
  <2>3. \A q \in 1..Len(s) : \A y : After(s, q, y) => After(v, q, y)
    BY <1>2
  <2> QED BY <2>1, <2>2, <2>3 DEF Seat
<1> QED BY <1>6, <1>7, <1>8, <1>9, <1>10, <1>11, <1>12 DEF v

(* Without a peer connection, the only reply. *)
LEMMA FlowReply ==
  ASSUME NEW st, NEW m \in Reply, m.type \in {"Created"} \cup Refusals
  PROVE  /\ Flow("None", <<m>>)
         /\ m.type = "Created" => Seat("None", st, <<m>>, TRUE, TRUE)
<1>1. Len(<<m>>) = 1 /\ <<m>>[1] = m /\ \A i \in 1..Len(<<m>>) : i = 1
  OBVIOUS
<1>2. \A i \in 1..Len(<<m>>) : <<m>>[i].type \notin {"PeerJoined", "Offer", "PeerLeft"}
  BY <1>1 DEF Refusals
<1> QED BY <1>1, <1>2 DEF Flow, Seat

(* What a tab shows matters only as long as it has no peer connection. *)
LEMMA SeatShown ==
  ASSUME NEW k, k # "None", NEW st, NEW st2, NEW s, NEW first, NEW alone, Seat(k, st, s, first, alone)
  PROVE  Seat(k, st2, s, first, alone)
  BY DEF Seat

-----------------------------------------------------------------------------
(* The invariant. *)

(* The kind of the peer connection that the page of t holds. *)
Kind(t) == IF tab[t].pc = 0 THEN "None" ELSE pcs[tab[t].pc].role

Mate(c) == Partner(registry, c)
Early(c) == First(registry, c)

(* The page of t is on connection c.  Peer connection n lives at c: it is  *)
(* the one of its page, which is on c, and c has a place in a room.        *)
On(t, c) == tab[t].ws = "OPEN" /\ tab[t].sock = c

Lives(n, c) == n \in 1..Len(pcs) /\ tab[pcs[n].tab].pc = n /\ On(pcs[n].tab, c) /\ Housed(c)

(* What the types say. *)
Sorts ==
    /\ Len(pcs) \in Nat
    /\ \A n \in 1..Len(pcs) :
          /\ pcs[n].tab \in Tab /\ pcs[n].role \in {"Offer", "Answer"} /\ pcs[n].remote \in 0..Len(pcs)
          /\ pcs[n].local \in BOOLEAN /\ pcs[n].opened \in BOOLEAN /\ pcs[n].closed \in BOOLEAN
    /\ \A t \in Tab : tab[t].pc \in 0..Len(pcs)
    /\ \A c \in Peer : /\ inbox[c] \in Seq(Request) /\ outbox[c] \in Seq(Reply)
                       /\ \A i \in 1..Len(inbox[c]) : inbox[c][i] \in Request
                       /\ \A i \in 1..Len(outbox[c]) : outbox[c][i] \in Reply
    /\ \A c : Housed(c) => c \in Peer /\ srv[c] = "up"
    /\ \A t \in Tab : \A c : On(t, c) => c \in Peer /\ Holders(c) = {t}
    /\ \A n, c : Lives(n, c) => /\ n \in 1..Len(pcs) /\ pcs[n].tab \in Tab /\ c \in Peer /\ Housed(c)
                                /\ On(pcs[n].tab, c) /\ tab[pcs[n].tab].pc = n
    /\ \A t \in Tab : \A c : On(t, c) =>
          \A i \in 1..Len(outbox[c]) :
              /\ outbox[c][i].type \in Notices \cup {"Created"} => Housed(c)
              /\ outbox[c][i].type \in Refusals => ~Housed(c)

(* They follow from the invariant of RendezvousProofs. *)
LEMMA SortsHold == MeetInv => Sorts
<1> SUFFICES ASSUME MeetInv PROVE Sorts
  OBVIOUS
<1>1. Types /\ Built /\ SockInv /\ TellInv /\ WellFormed(registry)
  BY DEF MeetInv
<1>2. Len(pcs) \in Nat /\ \A n \in 1..Len(pcs) : pcs[n] \in PcType
  BY <1>1, PcsKept DEF PcsOK, Types, Built
<1>3. \A n \in 1..Len(pcs) :
          /\ pcs[n].tab \in Tab /\ pcs[n].role \in {"Offer", "Answer"} /\ pcs[n].remote \in 0..Len(pcs)
          /\ pcs[n].local \in BOOLEAN /\ pcs[n].opened \in BOOLEAN /\ pcs[n].closed \in BOOLEAN
  BY <1>1, <1>2 DEF PcType, Built
<1>4. \A t \in Tab : tab[t].pc \in 0..Len(pcs) /\ (tab[t].ws = "OPEN" => tab[t].sock \in Peer)
  BY <1>1, <1>2 DEF Types, PageType, Built, SockInv
<1>5. ASSUME NEW c \in Peer
      PROVE  /\ inbox[c] \in Seq(Request) /\ outbox[c] \in Seq(Reply)
             /\ \A i \in 1..Len(inbox[c]) : inbox[c][i] \in Request
             /\ \A i \in 1..Len(outbox[c]) : outbox[c][i] \in Reply
  <2>1. inbox[c] \in Seq(Request) /\ outbox[c] \in Seq(Reply)
    BY <1>1 DEF Types
  <2> QED BY <2>1, ElementOfSeq
<1>6. \A c : Housed(c) => c \in Peer /\ srv[c] = "up"
  BY <1>1 DEF Housed, SockInv, WellFormed
<1>7. ASSUME NEW t \in Tab, NEW c, On(t, c) PROVE c \in Peer /\ Holders(c) = {t}
  <2>1. c \in Peer /\ c # NoPeer
    BY <1>4, <1>7, NoPeerIsNone DEF On
  <2>2. \A u \in Tab : tab[u].sock = c => u = t
    BY <1>1, <1>7, <2>1 DEF SockInv, On
  <2> QED BY <1>7, <2>1, <2>2 DEF Holders, On
<1>8. \A n, c : Lives(n, c) => /\ n \in 1..Len(pcs) /\ pcs[n].tab \in Tab /\ c \in Peer /\ Housed(c)
                               /\ On(pcs[n].tab, c) /\ tab[pcs[n].tab].pc = n
  BY <1>3, <1>6 DEF Lives
<1>9. ASSUME NEW t \in Tab, NEW c, On(t, c), NEW i \in 1..Len(outbox[c])
      PROVE  /\ outbox[c][i].type \in Notices \cup {"Created"} => Housed(c)
             /\ outbox[c][i].type \in Refusals => ~Housed(c)
  <2>1. Told(c, inbox[c], outbox[c], tab[t].session.room_in_hash, registry.peer_room)
    BY <1>1, <1>9 DEF TellInv, On
  <2> QED BY <1>9, <2>1 DEF Told, HasRefusal, Housed
<1> QED BY <1>2, <1>3, <1>4, <1>5, <1>6, <1>7, <1>8, <1>9 DEF Sorts

(* A description under way is of a peer connection that made it; two that  *)
(* have each other's are of different roles; a channel that opened joins   *)
(* two that have each other's.                                             *)
In(m, s) == \E i \in 1..Len(s) : s[i] = m

Names(m) ==
    m.type \in Relays => m.pc \in 1..Len(pcs) /\ pcs[m.pc].local /\ pcs[m.pc].role = m.type

Matches(n) ==
    LET m == pcs[n].remote IN
    /\ pcs[n].role = "Answer" => m # 0
    /\ m # 0 => pcs[m].local /\ pcs[m].role # pcs[n].role
    /\ pcs[n].opened => m # 0 /\ pcs[m].remote = n

NamedInv ==
    /\ \A c \in Peer : \A m : In(m, inbox[c]) \/ In(m, outbox[c]) => Names(m)
    /\ \A n \in 1..Len(pcs) : Matches(n)

(* A page holds a peer connection only on a socket, and with a place if    *)
(* the server is there; it shows Connected if and only if it opened.       *)
Holds(t) ==
    LET n == tab[t].pc IN
    /\ tab[t].ws \in {"OPEN", "CLOSING"} /\ pcs[n].tab = t /\ ~pcs[n].closed /\ tab[t].session.has_pc
    /\ \A c : On(t, c) /\ srv[c] = "up" => Housed(c)
    /\ pcs[n].role = "Offer" \/ pcs[n].opened => tab[t].transfer = n

ShowsTruth(t) == tab[t].status = "Connected" <=> tab[t].pc # 0 /\ pcs[tab[t].pc].opened

ShownInv == \A t \in Tab : (tab[t].pc # 0 => Holds(t)) /\ ShowsTruth(t)

(* What is on its way to a tab fits what it holds and where it is. *)
Fits(t, c) ==
    /\ Flow(Kind(t), outbox[c]) /\ (outbox[c] # <<>> => srv[c] = "up")
    /\ Housed(c) => Seat(Kind(t), tab[t].status, outbox[c], Early(c), Mate(c) = NoPeer)

StreamInv == \A t \in Tab : \A c : On(t, c) => Fits(t, c)

(* Only the first of a room offers. *)
OfferInv == \A c \in Peer : Has(inbox[c], "Offer") => Early(c)

(* The description of the peer connection of a page goes from its own      *)
(* connection to the partner of that, and is its latest.                   *)
Asking(c, i) ==
    inbox[c][i].type \in Relays =>
        \A n, d : inbox[c][i].pc = n /\ Lives(n, d) =>
            /\ d = c
            /\ inbox[c][i].type = "Offer" => ~After(inbox[c], i, "Offer")

Hearing(c, i) ==
    outbox[c][i].type \in Relays =>
        \A n, d : outbox[c][i].pc = n /\ Lives(n, d) =>
            /\ Mate(c) = d /\ ~After(outbox[c], i, "PeerLeft")
            /\ outbox[c][i].type = "Offer" => ~After(outbox[c], i, "Offer") /\ ~Has(inbox[d], "Offer")

OwnInv ==
    /\ \A c \in Peer : \A i \in 1..Len(inbox[c]) : Asking(c, i)
    /\ \A t \in Tab : \A c : On(t, c) => \A i \in 1..Len(outbox[c]) : Hearing(c, i)

(* A peer connection that was replaced, which is not closed: it answered,  *)
(* and its answer was not and will not be taken by the one it answered.    *)
Stray(n) ==
    /\ pcs[n].role = "Answer" /\ pcs[pcs[n].remote].remote # n
    /\ \A i, c : i = pcs[n].remote /\ Lives(i, c) => Spared(outbox[c], n)

StrayInv == \A n \in 1..Len(pcs) : ~pcs[n].closed /\ tab[pcs[n].tab].pc # n => Stray(n)

(* Peer connection m has the description of one that lives at c, whose     *)
(* partner is d: m lives there, and nothing will part them before c is     *)
(* told that d left.                                                       *)
Bond(m, c, d) ==
    /\ ~Has(outbox[c], "Offer")
    /\ \/ Has(outbox[c], "PeerLeft")
       \/ /\ d # NoPeer /\ ~Has(inbox[c], "Offer") /\ ~Has(inbox[d], "Offer")
          /\ \/ Lives(m, d) /\ ~Has(outbox[d], "Offer") /\ ~Has(outbox[d], "PeerLeft")
             \/ Holders(d) = {} /\ \A e : ~Lives(m, e)

Bonded(n, m) == pcs[m].remote = n /\ (pcs[n].role = "Offer" \/ pcs[n].remote = m)

BondInv ==
    \A n, m \in 1..Len(pcs) : \A c, d : Lives(n, c) /\ Mate(c) = d /\ Bonded(n, m) => Bond(m, c, d)

(* A tab that does not say that it was refused has a place, or asks for    *)
(* one, or is about to hear.                                               *)
HasPlace(c) == Housed(c) \/ HasAsk(inbox[c]) \/ HasRefusal(outbox[c])

PlaceInv ==
    \A t \in Tab : \A c : On(t, c) /\ srv[c] = "up" /\ tab[t].status \notin Refusals => HasPlace(c)

(* Tab t, on c, offers to its partner u, on d: the offer, then the answer, *)
(* is being made, is under way, or has arrived, unless u failed to answer. *)
Answering(t, u, c, d) ==
    LET m == tab[u].pc IN
    /\ m # 0 /\ pcs[m].remote = tab[t].pc
    /\ \/ ~pcs[m].local \/ Sent(inbox[d], m) \/ Sent(outbox[c], m)
       \/ pcs[tab[t].pc].remote # 0

Offering(t, u, c, d) ==
    LET n == tab[t].pc IN
    \/ ~pcs[n].local \/ Sent(inbox[c], n) \/ Sent(outbox[d], n)
    \/ tab[u].status = "Error" \/ Answering(t, u, c, d)

Offers(t, u, c, d) ==
    /\ On(t, c) /\ On(u, d) /\ Mate(c) = d /\ Kind(t) = "Offer" /\ ~Has(outbox[c], "PeerLeft")

HandshakeInv == \A t, u \in Tab : \A c, d : Offers(t, u, c, d) => Offering(t, u, c, d)

LinkInv ==
    /\ Seated(registry) /\ NamedInv /\ ShownInv /\ StreamInv /\ OfferInv /\ OwnInv
    /\ StrayInv /\ BondInv /\ PlaceInv /\ HandshakeInv

LinkedInv == unseen \/ LinkInv

-----------------------------------------------------------------------------
(* Moves of a page. *)

(* Partners, and which of them is first. *)
LEMMA Mates ==
  ASSUME MeetInv, Seated(registry), NEW c
  PROVE  /\ Early(c) => Housed(c)
         /\ Housed(c) /\ Mate(c) = NoPeer => Early(c)
         /\ Mate(c) # NoPeer => /\ Housed(c) /\ Housed(Mate(c)) /\ Mate(c) \in Peer /\ Mate(c) # c
                                /\ Mate(Mate(c)) = c /\ (Early(c) <=> ~Early(Mate(c)))
<1>1. WellFormed(registry) /\ NoPeer \notin Peer
  BY NoPeerIsNone DEF MeetInv
<1>2. Early(c) => Housed(c)
  BY DEF Early, First, Housed
<1>3. Mate(c) # NoPeer => Housed(c)
  BY DEF Mate, Partner, Housed
<1>4. ASSUME Housed(c)
      PROVE  /\ Mate(c) = NoPeer => Early(c)
             /\ Mate(c) # NoPeer => /\ Housed(Mate(c)) /\ Mate(c) # c
                                    /\ Mate(Mate(c)) = c /\ (Early(c) <=> ~Early(Mate(c)))
  <2>1. c \in DOMAIN registry.peer_room
    BY <1>4 DEF Housed
  <2> QED BY <1>1, <2>1, FirstOfTwo DEF Mate, Early, Housed
<1>5. \A d : Housed(d) => d \in Peer
  BY <1>1 DEF Housed, WellFormed
<1> QED BY <1>2, <1>3, <1>4, <1>5

(* Every description in b is in a, at the same place. *)
Thin(b, a) == \A i \in 1..Len(b) : b[i].type \in Relays => i \in 1..Len(a) /\ b[i] = a[i]

(* What of descriptions is not in a is not in b. *)
LEMMA Thinned ==
  ASSUME NEW a, NEW b, Thin(b, a)
  PROVE  /\ Has(b, "Offer") => Has(a, "Offer")
         /\ \A i : After(b, i, "Offer") => After(a, i, "Offer")
         /\ \A n : Sent(b, n) => Sent(a, n)
<1>1. \A i \in 1..Len(b) : b[i].type = "Offer" => i \in 1..Len(a) /\ b[i] = a[i]
  BY DEF Thin, Relays
<1> QED BY <1>1 DEF Has, After, Sent, Thin

(* What the page of t does with the replies to it on c: it was just        *)
(* opened, or it reads the next one, or none.                              *)
Stays(t, c) ==
    \/ ~Housed(c) /\ outbox'[c] = <<>> /\ tab'[t].pc = 0
    \/ /\ On(t, c)
       /\ \/ outbox'[c] = outbox[c] /\ tab'[t].pc = tab[t].pc
          \/ /\ outbox[c] # <<>> /\ outbox'[c] = Tail(outbox[c])
             /\ \/ tab'[t].pc = tab[t].pc /\ Head(outbox[c]).type # "PeerLeft"
                \/ tab'[t].pc = 0 /\ Head(outbox[c]).type = "PeerLeft"
                \/ tab'[t].pc = Len(pcs) + 1 /\ Head(outbox[c]).type \in {"PeerJoined", "Offer"}

(* Peer connection n, of t, takes the answer that the page reads. *)
Takes(t, n) ==
    \E c \in Peer :
        /\ On(t, c) /\ On(t, c)' /\ outbox[c] # <<>> /\ Head(outbox[c]).type = "Answer"
        /\ tab[t].pc = n /\ pcs[n].role = "Offer" /\ pcs[n].local /\ pcs[n].remote = 0
        /\ pcs'[n].remote = Head(outbox[c]).pc

Move(t) ==
    /\ Others(t) /\ registry' = registry
    /\ \A d \in Peer : Thin(inbox'[d], inbox[d])
    /\ \A u \in Tab \ {t} : \A d : On(u, d) =>
          srv'[d] = srv[d] /\ inbox'[d] = inbox[d] /\ outbox'[d] = outbox[d]
    /\ \A d \in Peer : \A m : In(m, outbox'[d]) => In(m, outbox[d])
    /\ Len(pcs) <= Len(pcs')
    /\ \A n \in 1..Len(pcs) :
          /\ pcs'[n].tab = pcs[n].tab /\ pcs'[n].role = pcs[n].role /\ pcs'[n].local = pcs[n].local
          /\ pcs[n].closed => pcs'[n].closed
          /\ pcs[n].tab # t => pcs'[n] = pcs[n]
          /\ pcs'[n].remote = pcs[n].remote \/ Takes(t, n)
    /\ \A n \in 1..Len(pcs') : n \in 1..Len(pcs) \/ (n = tab'[t].pc /\ n = Len(pcs) + 1 /\ pcs'[n].tab = t)
    /\ \A c : On(t, c)' => Stays(t, c)

(* In a move, only a peer connection that is new comes to life. *)
LEMMA MoveFades ==
  ASSUME MeetInv, MeetInv', NEW t \in Tab, Move(t)
  PROVE  /\ \A c : (Mate(c)' = Mate(c)) /\ (Early(c)' = Early(c)) /\ (Housed(c)' <=> Housed(c))
         /\ \A n, c : Lives(n, c)' => \/ n \in 1..Len(pcs)
                                      \/ n = tab'[t].pc /\ n = Len(pcs) + 1 /\ pcs'[n].tab = t
         /\ \A n \in 1..Len(pcs) : \A c :
               /\ Lives(n, c)' => Lives(n, c)
               /\ pcs[n].tab # t /\ Lives(n, c) => Lives(n, c)'
         /\ \A u \in Tab \ {t} : \A c : On(u, c)' <=> On(u, c)
         /\ \A c : Housed(c) => (Holders(c))' \subseteq Holders(c)
<1>1. Sorts
  BY SortsHold
<1>2. (MeetInv => Sorts)'
  BY SortsHold, PTL
<1>3. Sorts'
  BY <1>2
<1>4. \A c : (Mate(c)' = Mate(c)) /\ (Early(c)' = Early(c)) /\ (Housed(c)' <=> Housed(c))
  BY DEF Move, Mate, Early, Housed
<1>5. \A n, c : Lives(n, c)' => \/ n \in 1..Len(pcs)
                                \/ n = tab'[t].pc /\ n = Len(pcs) + 1 /\ pcs'[n].tab = t
  BY DEF Lives, Move
<1>6. \A u \in Tab \ {t} : \A c : On(u, c)' <=> On(u, c)
  BY DEF Move, Others, On
<1>7. ASSUME NEW n \in 1..Len(pcs), pcs[n].tab # t, NEW c PROVE Lives(n, c)' <=> Lives(n, c)
  <2>1. pcs'[n].tab = pcs[n].tab /\ n \in 1..Len(pcs') /\ pcs[n].tab \in Tab
    BY <1>1, <1>3 DEF Move, Sorts
  <2>2. tab'[pcs[n].tab] = tab[pcs[n].tab]
    BY <1>7, <2>1 DEF Move, Others
  <2> QED BY <1>4, <2>1, <2>2 DEF Lives, On
<1>8. ASSUME NEW n \in 1..Len(pcs), pcs[n].tab = t, NEW c, Lives(n, c)' PROVE Lives(n, c)
  <2>1. pcs'[n].tab = t /\ n # 0 /\ n # Len(pcs) + 1
    BY <1>1, <1>8 DEF Move, Sorts
  <2>2. tab'[t].pc = n /\ On(t, c)' /\ Housed(c)
    BY <1>4, <1>8, <2>1 DEF Lives, On
  <2>3. On(t, c) /\ tab[t].pc = n
    BY <2>1, <2>2 DEF Move, Stays
  <2> QED BY <1>8, <2>2, <2>3 DEF Lives
<1>9. ASSUME NEW c, Housed(c), NEW u \in (Holders(c))' PROVE u \in Holders(c)
  <2>1. u \in Tab /\ On(u, c)'
    BY <1>9 DEF Holders, On
  <2>2. CASE u = t
    BY <1>9, <2>1, <2>2 DEF Move, Stays, Holders, On
  <2>3. CASE u # t
    BY <2>1, <2>3 DEF Move, Others, Holders, On
  <2> QED BY <2>2, <2>3
<1> QED BY <1>4, <1>5, <1>6, <1>7, <1>8, <1>9

(* Descriptions stay what they are in a move. *)
LEMMA MoveOwn ==
  ASSUME MeetInv, MeetInv', LinkInv, NEW t \in Tab, Move(t)
  PROVE  /\ OfferInv' /\ OwnInv'
         /\ (\A c \in Peer : \A m : In(m, inbox[c]) \/ In(m, outbox[c]) => Names(m))'
<1>1. Sorts /\ NamedInv /\ OfferInv /\ OwnInv
  BY SortsHold DEF LinkInv
<1>2. (MeetInv => Sorts)'
  BY SortsHold, PTL
<1>3. Sorts'
  BY <1>2
<1>4. \A c : (Mate(c)' = Mate(c)) /\ (Early(c)' = Early(c))
  BY MoveFades
<1>5. \A n \in 1..Len(pcs) : \A c : Lives(n, c)' => Lives(n, c)
  BY MoveFades
<1>6. \A c \in Peer :
          /\ Has(inbox'[c], "Offer") => Has(inbox[c], "Offer")
          /\ \A i : After(inbox'[c], i, "Offer") => After(inbox[c], i, "Offer")
  BY Thinned DEF Move
<1>7. OfferInv'
  BY <1>1, <1>4, <1>6 DEF OfferInv
<1>8. \A m : Names(m) => Names(m)' /\ (m.type \in Relays => m.pc \in 1..Len(pcs))
  BY <1>1, <1>3 DEF Move, Names, Sorts
<1>9. ASSUME NEW c \in Peer, NEW m, In(m, inbox'[c]) \/ In(m, outbox'[c]) PROVE Names(m)'
  <2> SUFFICES ASSUME m.type \in Relays PROVE In(m, inbox[c]) \/ In(m, outbox[c])
    BY <1>1, <1>8 DEF NamedInv, Names
  <2> QED BY <1>9, SMTT(60) DEF Move, Thin, In
<1>10. ASSUME NEW c \in Peer, NEW i \in 1..Len(inbox'[c]) PROVE Asking(c, i)'
  <2> SUFFICES ASSUME inbox'[c][i].type \in Relays, NEW n, NEW d, inbox'[c][i].pc = n, Lives(n, d)'
               PROVE  /\ d = c
                      /\ inbox'[c][i].type = "Offer" => ~After(inbox'[c], i, "Offer")
    BY DEF Asking
  <2>1. i \in 1..Len(inbox[c]) /\ inbox'[c][i] = inbox[c][i]
    BY DEF Move, Thin
  <2>2. Names(inbox[c][i])
    BY <1>1, <2>1 DEF NamedInv, In
  <2>3. n \in 1..Len(pcs)
    BY <1>8, <2>1, <2>2
  <2>4. Lives(n, d) /\ Asking(c, i)
    BY <1>1, <1>5, <2>1, <2>3 DEF OwnInv
  <2> QED BY <1>6, <2>1, <2>4 DEF Asking
<1>11. ASSUME NEW u \in Tab, NEW c, On(u, c)', NEW i \in 1..Len(outbox'[c]) PROVE Hearing(c, i)'
  <2>1. c \in Peer
    BY <1>3, <1>11 DEF Sorts
  <2>2. PICK j \in 1..Len(outbox[c]) :
            /\ outbox'[c][i] = outbox[c][j] /\ On(u, c)
            /\ \A y : After(outbox'[c], i, y) => After(outbox[c], j, y)
    <3>1. CASE u # t
      <4>1. On(u, c)
        BY <1>11, <3>1, MoveFades
      <4>2. outbox'[c] = outbox[c]
        BY <3>1, <4>1 DEF Move
      <4> QED BY <1>11, <4>1, <4>2
    <3>2. CASE u = t
      <4>1. Stays(t, c)
        BY <1>11, <3>2 DEF Move
      <4>2. outbox'[c] # <<>>
        BY <1>11
      <4>3. CASE outbox'[c] = outbox[c] /\ On(t, c)
        BY <1>11, <3>2, <4>3
      <4>4. CASE On(t, c) /\ outbox[c] # <<>> /\ outbox'[c] = Tail(outbox[c])
        <5>1. outbox[c] \in Seq(Reply)
          BY <1>1, <2>1 DEF Sorts
        <5>2. /\ i + 1 \in 1..Len(outbox[c]) /\ outbox'[c][i] = outbox[c][i + 1]
          BY <1>11, <4>4, <5>1, Parts
        <5>3. \A y : After(outbox'[c], i, y) => After(outbox[c], i + 1, y)
          BY <1>11, <4>4, <5>1, Taken
        <5> QED BY <3>2, <4>4, <5>2, <5>3
      <4> QED BY <4>1, <4>2, <4>3, <4>4 DEF Stays
    <3> QED BY <3>1, <3>2
  <2> SUFFICES ASSUME outbox'[c][i].type \in Relays, NEW n, NEW d, outbox'[c][i].pc = n, Lives(n, d)'
               PROVE  /\ Mate(c)' = d /\ ~After(outbox'[c], i, "PeerLeft")
                      /\ outbox'[c][i].type = "Offer" =>
                            ~After(outbox'[c], i, "Offer") /\ ~Has(inbox'[d], "Offer")
    BY DEF Hearing
  <2>3. Hearing(c, j) /\ Names(outbox[c][j])
    BY <1>1, <2>1, <2>2 DEF OwnInv, NamedInv, In
  <2>4. n \in 1..Len(pcs)
    BY <1>8, <2>2, <2>3
  <2>5. Lives(n, d)
    BY <1>5, <2>4
  <2>6. d \in Peer
    BY <1>1, <2>5 DEF Sorts
  <2> QED BY <1>4, <1>6, <2>2, <2>3, <2>5, <2>6 DEF Hearing
<1> QED BY <1>7, <1>9, <1>10, <1>11 DEF OwnInv

(* The other pages do not notice. *)
LEMMA MoveOthers ==
  ASSUME MeetInv, MeetInv', LinkInv, NEW t \in Tab, Move(t)
  PROVE  /\ \A u \in Tab \ {t} : (tab'[u].pc # 0 => Holds(u)') /\ ShowsTruth(u)'
         /\ \A u \in Tab \ {t} : \A c : On(u, c)' =>
               /\ Fits(u, c)'
               /\ srv'[c] = "up" /\ tab'[u].status \notin Refusals => HasPlace(c)'
         /\ \A u, w \in Tab \ {t} : \A c, d : Offers(u, w, c, d)' => Offering(u, w, c, d)'
<1>1. Sorts /\ ShownInv /\ StreamInv /\ PlaceInv /\ HandshakeInv
  BY SortsHold DEF LinkInv
<1>2. \A c : (Mate(c)' = Mate(c)) /\ (Housed(c)' <=> Housed(c))
  BY MoveFades
<1>3. ASSUME NEW u \in Tab \ {t}
      PROVE  /\ tab'[u] = tab[u] /\ \A c : On(u, c)' <=> On(u, c)
             /\ \A c : On(u, c) => srv'[c] = srv[c] /\ inbox'[c] = inbox[c] /\ outbox'[c] = outbox[c]
             /\ tab[u].pc # 0 => Holds(u) /\ tab[u].pc \in 1..Len(pcs) /\ pcs'[tab[u].pc] = pcs[tab[u].pc]
             /\ Kind(u)' = Kind(u)
  <2>1. tab'[u] = tab[u] /\ \A c : On(u, c)' <=> On(u, c)
    BY MoveFades DEF Move, Others
  <2>2. \A c : On(u, c) => srv'[c] = srv[c] /\ inbox'[c] = inbox[c] /\ outbox'[c] = outbox[c]
    BY DEF Move
  <2>3. ASSUME tab[u].pc # 0
        PROVE  Holds(u) /\ tab[u].pc \in 1..Len(pcs) /\ pcs'[tab[u].pc] = pcs[tab[u].pc]
    <3>1. Holds(u) /\ tab[u].pc \in 1..Len(pcs)
      BY <1>1, <2>3 DEF ShownInv, Sorts
    <3>2. pcs[tab[u].pc].tab # t
      BY <3>1 DEF Holds
    <3> QED BY <3>1, <3>2 DEF Move
  <2>4. Kind(u)' = Kind(u)
    BY <2>1, <2>3 DEF Kind
  <2> QED BY <2>1, <2>2, <2>3, <2>4
<1>4. ASSUME NEW u \in Tab \ {t} PROVE (tab'[u].pc # 0 => Holds(u)') /\ ShowsTruth(u)'
  <2>1. tab'[u] = tab[u]
    BY <1>3
  <2>2. ASSUME tab[u].pc # 0 PROVE Holds(u)'
    <3>1. Holds(u) /\ pcs'[tab[u].pc] = pcs[tab[u].pc]
      BY <1>3, <2>2
    <3>2. \A c : On(u, c)' /\ srv'[c] = "up" => Housed(c)'
      BY <1>2, <1>3, <3>1 DEF Holds
    <3> QED BY <2>1, <3>1, <3>2 DEF Holds
  <2>3. ShowsTruth(u)'
    BY <1>1, <1>3 DEF ShownInv, ShowsTruth
  <2> QED BY <2>1, <2>2, <2>3
<1>5. ASSUME NEW u \in Tab \ {t}, NEW c, On(u, c)'
      PROVE  /\ Fits(u, c)'
             /\ srv'[c] = "up" /\ tab'[u].status \notin Refusals => HasPlace(c)'
  <2>1. On(u, c) /\ tab'[u] = tab[u] /\ Kind(u)' = Kind(u)
    BY <1>3, <1>5
  <2>2. srv'[c] = srv[c] /\ inbox'[c] = inbox[c] /\ outbox'[c] = outbox[c]
    BY <1>3, <2>1
  <2>3. Fits(u, c) /\ (srv[c] = "up" /\ tab[u].status \notin Refusals => HasPlace(c))
    BY <1>1, <2>1 DEF StreamInv, PlaceInv
  <2>4. Fits(u, c)'
    <3>1. registry' = registry
      BY DEF Move
    <3> QED BY <2>1, <2>2, <2>3, <3>1 DEF Fits, Housed, Early, Mate
  <2> QED BY <1>2, <2>1, <2>2, <2>3, <2>4 DEF HasPlace
<1>6. ASSUME NEW u \in Tab \ {t}, NEW w \in Tab \ {t}, NEW c, NEW d, Offers(u, w, c, d)'
      PROVE  Offering(u, w, c, d)'
  <2>1. On(u, c) /\ On(w, d) /\ tab'[u] = tab[u] /\ tab'[w] = tab[w] /\ Kind(u)' = Kind(u)
    BY <1>3, <1>6 DEF Offers
  <2>2. inbox'[c] = inbox[c] /\ outbox'[c] = outbox[c] /\ inbox'[d] = inbox[d] /\ outbox'[d] = outbox[d]
    BY <1>3, <2>1
  <2>3. Offers(u, w, c, d)
    BY <1>2, <1>6, <2>1, <2>2 DEF Offers
  <2>4. Offering(u, w, c, d)
    BY <1>1, <2>3 DEF HandshakeInv
  <2>5. pcs'[tab[u].pc] = pcs[tab[u].pc]
    BY <1>3, <2>3 DEF Offers, Kind
  <2>6. tab[w].pc # 0 => pcs'[tab[w].pc] = pcs[tab[w].pc]
    BY <1>3
  <2>7. Answering(u, w, c, d) => Answering(u, w, c, d)'
    BY <2>1, <2>2, <2>5, <2>6 DEF Answering
  <2> QED BY <2>1, <2>2, <2>4, <2>5, <2>7 DEF Offering
<1> QED BY <1>4, <1>5, <1>6

(* A stray stays one: who takes its answer would have read it before the   *)
(* PeerLeft.                                                               *)
LEMMA MoveStray ==
  ASSUME MeetInv, MeetInv', LinkInv, NEW t \in Tab, Move(t),
         NEW n \in 1..Len(pcs), ~pcs[n].closed, tab[pcs[n].tab].pc # n
  PROVE  Stray(n)'
<1>1. Sorts /\ Stray(n) /\ Matches(n)
  BY SortsHold DEF LinkInv, StrayInv, NamedInv
<1>2. (MeetInv => Sorts)'
  BY SortsHold, PTL
<1>3. Sorts'
  BY <1>2
<1>4. PICK i \in 1..Len(pcs) : i = pcs[n].remote /\ pcs[n].role = "Answer" /\ pcs[i].remote # n
  BY <1>1 DEF Stray, Matches, Sorts
<1>5. pcs'[n].remote = i /\ pcs'[n].role = "Answer"
  <2>1. ~Takes(t, n)
    BY <1>4 DEF Takes
  <2> QED BY <1>4, <2>1 DEF Move
<1>6. \A c : Lives(i, c)' => Lives(i, c)
  BY <1>4, MoveFades
<1>7. ASSUME NEW c, Lives(i, c) PROVE Spared(outbox[c], n) /\ c \in Peer /\ outbox[c] \in Seq(Reply)
  BY <1>1, <1>4, <1>7 DEF Stray, Sorts
<1>8. pcs'[i].remote # n
  <2>1. CASE pcs'[i].remote = pcs[i].remote
    BY <1>4, <2>1
  <2>2. CASE Takes(t, i)
    <3>1. PICK c \in Peer : /\ On(t, c) /\ outbox[c] # <<>> /\ Head(outbox[c]).type = "Answer"
                            /\ tab[t].pc = i /\ pcs'[i].remote = Head(outbox[c]).pc
      BY <2>2 DEF Takes
    <3>2. outbox[c] \in Seq(Reply) /\ Housed(c)
      <4>1. outbox[c] \in Seq(Reply)
        BY <1>1 DEF Sorts
      <4>2. 1 \in 1..Len(outbox[c]) /\ outbox[c][1] = Head(outbox[c])
        BY <3>1, <4>1, Parts
      <4> QED BY <1>1, <3>1, <4>1, <4>2 DEF Sorts, Notices, Relays
    <3>3. pcs[i].tab = t
      BY <1>1, <1>4, <3>1 DEF LinkInv, ShownInv, Holds, Sorts
    <3>4. Lives(i, c)
      BY <1>4, <3>1, <3>2, <3>3 DEF Lives
    <3>5. Spared(outbox[c], n)
      BY <1>7, <3>4
    <3>6. Head(outbox[c]).pc # n
      BY <3>1, <3>2, <3>5, Taken
    <3> QED BY <3>1, <3>6
  <2> QED BY <1>4, <2>1, <2>2 DEF Move
<1>9. ASSUME NEW c, Lives(i, c)' PROVE Spared(outbox'[c], n)
  <2>1. Lives(i, c) /\ Spared(outbox[c], n) /\ c \in Peer /\ outbox[c] \in Seq(Reply)
    BY <1>6, <1>7, <1>9
  <2>2. CASE pcs[i].tab # t
    <3>1. outbox'[c] = outbox[c]
      BY <1>1, <1>4, <2>1, <2>2 DEF Move, Lives, Sorts
    <3> QED BY <2>1, <3>1
  <2>3. CASE pcs[i].tab = t
    <3>1. pcs'[i].tab = t /\ i # 0 /\ i # Len(pcs) + 1
      BY <1>1, <1>4, <2>3 DEF Move, Sorts
    <3>2. tab'[t].pc = i /\ On(t, c)' /\ Housed(c)
      BY <1>9, <2>1, <3>1 DEF Lives
    <3>3. \/ outbox'[c] = outbox[c]
          \/ outbox[c] # <<>> /\ outbox'[c] = Tail(outbox[c]) /\ Head(outbox[c]).type # "PeerLeft"
      BY <3>1, <3>2 DEF Move, Stays
    <3> QED BY <2>1, <3>3, Taken
  <2> QED BY <2>2, <2>3
<1> QED BY <1>5, <1>8, <1>9 DEF Stray

(* A bond holds, until the one is told or gone. *)
LEMMA MoveBond ==
  ASSUME MeetInv, MeetInv', LinkInv, NEW t \in Tab, Move(t),
         NEW n \in 1..Len(pcs), NEW m \in 1..Len(pcs), NEW c, NEW d,
         Lives(n, c)', Mate(c) = d, Bond(m, c, d)
  PROVE  Bond(m, c, d)'
<1>1. Sorts /\ ShownInv /\ StreamInv
  BY SortsHold DEF LinkInv
<1>2. (MeetInv => Sorts)'
  BY SortsHold, PTL
<1>3. Sorts'
  BY <1>2
<1>4. Lives(n, c) /\ c \in Peer /\ outbox[c] \in Seq(Reply)
  BY <1>1, MoveFades DEF Sorts
<1>5. \A e \in Peer : Has(inbox'[e], "Offer") => Has(inbox[e], "Offer")
  BY Thinned DEF Move
<1>6. ASSUME NEW u \in Tab, NEW e, On(u, e), On(u, e)', e \in Peer, Housed(e)
      PROVE  \/ outbox'[e] = outbox[e] /\ (u = t => tab'[t].pc = tab[t].pc)
             \/ /\ u = t /\ outbox[e] # <<>> /\ outbox'[e] = Tail(outbox[e])
                /\ \/ tab'[t].pc = tab[t].pc /\ Head(outbox[e]).type # "PeerLeft"
                   \/ tab'[t].pc = 0 /\ Head(outbox[e]).type = "PeerLeft"
                   \/ tab'[t].pc = Len(pcs) + 1 /\ Head(outbox[e]).type \in {"PeerJoined", "Offer"}
  BY <1>6 DEF Move, Stays
<1>7. ASSUME NEW u \in Tab, NEW e, On(u, e), On(u, e)', e \in Peer, Housed(e), NEW y, Has(outbox'[e], y)
      PROVE  Has(outbox[e], y)
  <2>1. outbox[e] \in Seq(Reply)
    BY <1>1, <1>7 DEF Sorts
  <2> QED BY <1>6, <1>7, <2>1, Taken
<1>8. PICK u \in Tab : /\ u = pcs[n].tab /\ On(u, c) /\ On(u, c)' /\ Housed(c) /\ tab[u].pc = n
                       /\ tab'[u].pc = n /\ n # 0 /\ n # Len(pcs) + 1
  <2>1. pcs'[n].tab = pcs[n].tab /\ pcs[n].tab \in Tab /\ n # 0 /\ n # Len(pcs) + 1
    BY <1>1 DEF Move, Sorts
  <2> QED BY <1>4, <2>1 DEF Lives, On
<1>9. ~Has(outbox'[c], "Offer")
  BY <1>4, <1>7, <1>8 DEF Bond
<1>10. CASE Has(outbox[c], "PeerLeft")
  <2>1. \/ outbox'[c] = outbox[c]
        \/ outbox[c] # <<>> /\ outbox'[c] = Tail(outbox[c]) /\ Head(outbox[c]).type # "PeerLeft"
    BY <1>4, <1>6, <1>8
  <2>2. Has(outbox'[c], "PeerLeft")
    BY <1>4, <1>10, <2>1, Taken
  <2> QED BY <1>9, <2>2 DEF Bond
<1>11. CASE ~Has(outbox[c], "PeerLeft")
  <2>1. /\ d # NoPeer /\ ~Has(inbox[c], "Offer") /\ ~Has(inbox[d], "Offer")
        /\ \/ Lives(m, d) /\ ~Has(outbox[d], "Offer") /\ ~Has(outbox[d], "PeerLeft")
           \/ Holders(d) = {} /\ \A e : ~Lives(m, e)
    BY <1>11 DEF Bond
  <2>2. d \in Peer /\ Housed(d)
    BY <2>1, Mates DEF LinkInv
  <2>3. ~Has(inbox'[c], "Offer") /\ ~Has(inbox'[d], "Offer")
    BY <1>4, <1>5, <2>1, <2>2
  <2>4. CASE Holders(d) = {} /\ \A e : ~Lives(m, e)
    <3>1. (Holders(d))' = {} /\ \A e : ~Lives(m, e)'
      BY <2>2, <2>4, MoveFades
    <3> QED BY <1>9, <2>1, <2>3, <3>1 DEF Bond
  <2>5. CASE Lives(m, d) /\ ~Has(outbox[d], "Offer") /\ ~Has(outbox[d], "PeerLeft")
    <3>1. PICK w \in Tab : w = pcs[m].tab /\ On(w, d) /\ tab[w].pc = m /\ pcs'[m].tab = w /\ m # 0
      BY <1>1, <2>5 DEF Lives, Sorts, Move
    <3>2. CASE On(w, d)'
      <4>1. tab'[w].pc = m
        <5>1. CASE w # t
          BY <3>1, <5>1 DEF Move, Others
        <5>2. CASE w = t
          <6>1. outbox[d] \in Seq(Reply)
            BY <1>1, <2>2 DEF Sorts
          <6>2. outbox[d] # <<>> => Head(outbox[d]).type \notin {"PeerLeft", "Offer"}
            BY <2>5, <6>1, Taken
          <6>3. outbox[d] # <<>> => Head(outbox[d]).type # "PeerJoined"
            <7>1. Flow(Kind(t), outbox[d]) /\ Kind(t) # "None"
              BY <1>1, <3>1, <5>2 DEF StreamInv, Fits, Kind, Sorts
            <7> QED BY <6>1, <7>1, FlowTaken
          <6> QED BY <1>6, <2>2, <3>1, <3>2, <5>2, <6>2, <6>3
        <5> QED BY <5>1, <5>2
      <4>2. Lives(m, d)'
        <5>1. Housed(d)'
          BY <2>2, MoveFades
        <5>2. m \in 1..Len(pcs')
          BY <1>1, <1>3 DEF Move, Sorts
        <5> QED BY <3>1, <3>2, <4>1, <5>1, <5>2 DEF Lives, On
      <4>3. ~Has(outbox'[d], "Offer") /\ ~Has(outbox'[d], "PeerLeft")
        BY <1>7, <2>2, <2>5, <3>1, <3>2
      <4> QED BY <1>9, <2>1, <2>3, <4>2, <4>3 DEF Bond
    <3>3. CASE ~On(w, d)'
      <4>1. (Holders(d))' \subseteq {w}
        BY <1>1, <2>2, <3>1, MoveFades DEF Sorts
      <4>2. (Holders(d))' = {}
        BY <3>3, <4>1 DEF Holders, On
      <4>3. ASSUME NEW e, Lives(m, e)' PROVE FALSE
        <5>1. Lives(m, e)
          BY <4>3, MoveFades
        <5>2. On(w, e) /\ On(w, e)'
          BY <3>1, <4>3, <5>1 DEF Lives
        <5>3. e = d
          BY <3>1, <5>2 DEF On
        <5> QED BY <3>3, <5>2, <5>3
      <4> QED BY <1>9, <2>1, <2>3, <4>2, <4>3 DEF Bond
    <3> QED BY <3>2, <3>3
  <2> QED BY <2>1, <2>4, <2>5
<1> QED BY <1>10, <1>11

(* A move keeps the invariant if what its page holds, shows, takes and     *)
(* leaves behind does.                                                     *)
LEMMA MoveKeeps ==
  ASSUME MeetInv, MeetInv', LinkInv, NEW t \in Tab, Move(t),
         \A n \in 1..Len(pcs') : Matches(n)',
         (tab'[t].pc # 0 => Holds(t)') /\ ShowsTruth(t)',
         \A c : On(t, c)' => /\ Fits(t, c)'
                             /\ srv'[c] = "up" /\ tab'[t].status \notin Refusals => HasPlace(c)',
         \A n \in 1..Len(pcs) : tab[t].pc = n /\ tab'[t].pc # n => pcs'[n].closed \/ Stray(n)',
         \A n \in 1..Len(pcs), m \in 1..Len(pcs') : \A c, d :
             Lives(n, c)' /\ Mate(c) = d /\ Bonded(n, m)' /\ (m \notin 1..Len(pcs) \/ pcs[m].remote # n)
                 => Bond(m, c, d)',
         \A u \in Tab : \A c, d : /\ Offers(t, u, c, d)' => Offering(t, u, c, d)'
                                  /\ Offers(u, t, c, d)' => Offering(u, t, c, d)'
  PROVE  LinkInv'
<1>1. Sorts /\ LinkInv
  BY SortsHold
<1>2. (MeetInv => Sorts)'
  BY SortsHold, PTL
<1>3. Sorts'
  BY <1>2
<1>4. Seated(registry)'
  BY DEF LinkInv, Move
<1>5. NamedInv'
  BY MoveOwn DEF NamedInv
<1>6. ShownInv'
  <2>1. \A u \in Tab \ {t} : (tab'[u].pc # 0 => Holds(u)') /\ ShowsTruth(u)'
    BY MoveOthers
  <2>2. \A u \in Tab : (tab'[u].pc # 0 => Holds(u)') /\ ShowsTruth(u)'
    BY <2>1
  <2> QED BY <2>2 DEF ShownInv
<1>7. StreamInv' /\ PlaceInv'
  <2>1. \A u \in Tab \ {t} : \A c : On(u, c)' =>
            /\ Fits(u, c)'
            /\ srv'[c] = "up" /\ tab'[u].status \notin Refusals => HasPlace(c)'
    BY MoveOthers
  <2>2. \A u \in Tab : \A c : On(u, c)' =>
            /\ Fits(u, c)'
            /\ srv'[c] = "up" /\ tab'[u].status \notin Refusals => HasPlace(c)'
    BY <2>1
  <2> QED BY <2>2 DEF StreamInv, PlaceInv
<1>8. OfferInv' /\ OwnInv'
  BY MoveOwn
<1>9. StrayInv'
  <2> SUFFICES ASSUME NEW n \in 1..Len(pcs'), ~pcs'[n].closed, tab'[pcs'[n].tab].pc # n PROVE Stray(n)'
    BY DEF StrayInv
  <2>1. n \in 1..Len(pcs) /\ pcs'[n].tab = pcs[n].tab /\ ~pcs[n].closed
    BY <1>1 DEF Move, Sorts
  <2>2. CASE tab[pcs[n].tab].pc # n
    BY <2>1, <2>2, MoveStray
  <2>3. CASE tab[pcs[n].tab].pc = n
    <3>1. pcs[n].tab = t
      BY <1>1, <2>1, <2>3 DEF Move, Others, Sorts
    <3> QED BY <2>1, <2>3, <3>1
  <2> QED BY <2>2, <2>3
<1>10. BondInv'
  <2> SUFFICES ASSUME NEW n \in 1..Len(pcs'), NEW m \in 1..Len(pcs'), NEW c, NEW d,
                      Lives(n, c)', Mate(c)' = d, Bonded(n, m)'
               PROVE  Bond(m, c, d)'
    BY DEF BondInv
  <2>1. n \in 1..Len(pcs)
    <3> SUFFICES ASSUME n \notin 1..Len(pcs) PROVE FALSE
      OBVIOUS
    <3>1. n = Len(pcs) + 1 /\ pcs'[m].remote = n /\ n # 0
      BY <1>1 DEF Move, Bonded, Sorts
    <3>2. m # n
      BY <3>1 DEF Matches
    <3>3. m \in 1..Len(pcs)
      BY <3>1, <3>2 DEF Move
    <3>4. pcs[m].remote # n
      BY <1>1, <3>1, <3>3 DEF Sorts
    <3>5. Takes(t, m)
      BY <3>1, <3>3, <3>4 DEF Move
    <3>6. PICK e \in Peer : outbox[e] # <<>> /\ n = Head(outbox[e]).pc
      BY <3>1, <3>5 DEF Takes
    <3>7. 1 \in 1..Len(outbox[e]) /\ outbox[e][1].pc = n
      BY <1>1, <3>6, Parts DEF Sorts
    <3>8. n <= Len(pcs)
      BY <3>7 DEF MeetInv, Built
    <3> QED BY <1>1, <3>1, <3>8 DEF Sorts
  <2>2. Mate(c) = d /\ Lives(n, c)
    BY <2>1, MoveFades
  <2>3. CASE m \notin 1..Len(pcs) \/ pcs[m].remote # n
    BY <2>1, <2>2, <2>3
  <2>4. CASE m \in 1..Len(pcs) /\ pcs[m].remote = n
    <3>1. pcs'[n].role = pcs[n].role
      BY <2>1 DEF Move
    <3>2. pcs[n].role = "Offer" \/ pcs[n].remote = m
      <4>1. pcs[n].role = "Offer" \/ pcs'[n].remote = m
        BY <3>1 DEF Bonded
      <4>2. pcs[n].role # "Offer" => pcs'[n].remote = pcs[n].remote
        BY <2>1 DEF Move, Takes
      <4> QED BY <4>1, <4>2
    <3>3. Bond(m, c, d)
      BY <2>1, <2>2, <2>4, <3>2 DEF LinkInv, BondInv, Bonded
    <3> QED BY <2>1, <2>2, <2>4, <3>3, MoveBond
  <2> QED BY <2>3, <2>4
<1>11. HandshakeInv'
  <2>1. \A u, w \in Tab \ {t} : \A c, d : Offers(u, w, c, d)' => Offering(u, w, c, d)'
    BY MoveOthers
  <2>2. \A u, w \in Tab : \A c, d : Offers(u, w, c, d)' => Offering(u, w, c, d)'
    BY <2>1
  <2> QED BY <2>2 DEF HandshakeInv
<1> QED BY <1>4, <1>5, <1>6, <1>7, <1>8, <1>9, <1>10, <1>11 DEF LinkInv

-----------------------------------------------------------------------------
(* Pages that leave, come, and read. *)

(* Peer connection n stays as it is or, if it is of t, is closed. *)
Shut(t, n) ==
    pcs'[n] = pcs[n] \/ (pcs[n].tab = t /\ pcs'[n] = [pcs[n] EXCEPT !.closed = TRUE])

(* The page of t is on no connection any more: it let go of its peer       *)
(* connection, which is closed, or it waits for its socket to close.       *)
Going(t) ==
    /\ Len(pcs') = Len(pcs) /\ \A n \in 1..Len(pcs) : Shut(t, n)
    /\ \/ /\ tab'[t].pc = 0 /\ tab'[t].status # "Connected"
          /\ \A n \in 1..Len(pcs) : tab[t].pc = n => pcs'[n].closed
       \/ /\ tab'[t].ws = "CLOSING" /\ pcs' = pcs /\ tab'[t].pc = tab[t].pc
          /\ tab'[t].status = tab[t].status /\ tab'[t].transfer = tab[t].transfer
          /\ tab'[t].session = tab[t].session

(* A page that closes its peer connection, or all that it has built. *)
LEMMA Closings ==
  ASSUME MeetInv, LinkInv, NEW t \in Tab, NEW S, pcs' = Close(S),
         S = {tab[t].pc} \/ S = {i \in 1..Len(pcs) : pcs[i].tab = t}
  PROVE  /\ Len(pcs') = Len(pcs) /\ \A n \in 1..Len(pcs) : Shut(t, n)
         /\ \A n \in 1..Len(pcs) : tab[t].pc = n => pcs'[n].closed
<1>1. Sorts /\ Types /\ Built /\ PcsOK
  BY SortsHold DEF MeetInv, PcsOK, Types, Built
<1>2. Len(pcs') = Len(pcs)
  BY <1>1, PcsKept
<1>3. \A n \in 1..Len(pcs) : pcs[n] \in PcType
  BY <1>1, PcsKept
<1>4. \A n \in 1..Len(pcs) : tab[t].pc = n => pcs[n].tab = t
  BY <1>1 DEF LinkInv, ShownInv, Holds, Sorts
<1>5. \A n \in 1..Len(pcs) : pcs'[n] = IF n \in S THEN [pcs[n] EXCEPT !.closed = TRUE] ELSE pcs[n]
  BY DEF Close
<1>6. \A n \in 1..Len(pcs) : Shut(t, n)
  BY <1>4, <1>5 DEF Shut
<1>7. \A n \in 1..Len(pcs) : tab[t].pc = n => pcs'[n].closed
  BY <1>3, <1>4, <1>5 DEF PcType
<1> QED BY <1>2, <1>6, <1>7

(* Every way in which a page loses its socket, unless the socket was       *)
(* replaced before its onclose.                                            *)
LEMMA GoingPage ==
  ASSUME MeetInv, LinkInv, ~unseen', NEW t \in Tab,
         \/ Closes(t) \/ Reconnects(t) \/ User(t)
         \/ Drops(t, "drop") \/ Drops(t, "sleep") \/ CloseStarts(t) \/ ConnectFails(t)
  PROVE  Going(t)
<1>1. Sorts /\ Types /\ Built /\ ShownInv
  BY SortsHold DEF MeetInv, LinkInv
<1>2. tab[t] \in PageType /\ Len(pcs) \in Nat /\ tab \in [Tab -> PageType]
  BY <1>1 DEF Types, Sorts
<1>3. /\ tab[t].pc = 0 => tab[t].status # "Connected"
      /\ tab[t].pc # 0 => tab[t].ws \in {"OPEN", "CLOSING"}
  BY <1>1 DEF ShownInv, ShowsTruth, Holds
<1>4. ASSUME on_disconnect(t) PROVE Going(t)
  <2>1. pcs' = Close({tab[t].pc}) /\ tab'[t].pc = 0 /\ tab'[t].status = "Reconnecting"
    BY <1>2, <1>4 DEF on_disconnect, PageType
  <2> QED BY <2>1, Closings DEF Going
<1>5. ASSUME NEW page, Unloads(t, page), page.pc = 0, page.status # "Connected" PROVE Going(t)
  <2>1. /\ pcs' = Close({i \in 1..Len(pcs) : pcs[i].tab = t})
        /\ tab'[t].pc = 0 /\ tab'[t].status # "Connected"
    BY <1>2, <1>5 DEF Unloads
  <2> QED BY <2>1, Closings DEF Going
<1>6. \A hash, stored : Mounted(hash, stored).pc = 0 /\ Mounted(hash, stored).status = "Connecting"
  BY DEF Mounted
<1>7. NoPage.pc = 0 /\ NoPage.status = "Idle"
  BY DEF NoPage, Mounted
<1>8. CASE Reconnects(t)
  <2>1. /\ tab' = [tab EXCEPT ![t].ws = "CONNECTING", ![t].sock = NoPeer] /\ pcs' = pcs
        /\ unseen' = (unseen \/ tab[t].ws = "CLOSING") /\ tab[t].ws \notin {"CONNECTING", "OPEN"}
    BY <1>8 DEF Reconnects, Link!Replace, Link!Live
  <2>2. tab[t].pc = 0 /\ tab'[t].pc = 0 /\ tab'[t].status = tab[t].status
    BY <1>2, <1>3, <2>1 DEF PageType
  <2> QED BY <1>2, <1>3, <2>1, <2>2 DEF Going, Shut
<1>9. CASE Visits(t)
  <2>1. /\ tab[t].ws = "OFF" /\ pcs' = pcs
        /\ \E hash, stored : tab' = [tab EXCEPT ![t] = Mounted(hash, stored)]
    BY <1>9 DEF Visits
  <2>2. tab[t].pc = 0 /\ tab'[t].pc = 0 /\ tab'[t].status = "Connecting"
    BY <1>2, <1>3, <1>6, <2>1
  <2> QED BY <1>2, <2>1, <2>2 DEF Going, Shut
<1>10. CASE CloseStarts(t)
  <2>1. tab' = [tab EXCEPT ![t].ws = "CLOSING"] /\ pcs' = pcs
    BY <1>10 DEF CloseStarts
  <2> QED BY <1>2, <2>1 DEF Going, Shut, PageType
<1>11. CASE Closes(t) \/ Drops(t, "drop") \/ Drops(t, "sleep") \/ ConnectFails(t)
  BY <1>4, <1>11 DEF Closes, Drops, ConnectFails
<1>12. CASE Reloads(t) \/ JoinsByCode(t) \/ StartsOver(t) \/ Leaves(t)
  BY <1>5, <1>6, <1>7, <1>12 DEF Reloads, JoinsByCode, StartsOver, Leaves
<1> QED BY <1>8, <1>9, <1>10, <1>11, <1>12 DEF User

(* A page that leaves. *)
LEMMA GoingKeeps ==
  ASSUME MeetInv, MeetInv', LinkInv, NEW t \in Tab, Quits(t), Going(t)
  PROVE  LinkInv'
<1>1. Sorts /\ ShownInv /\ NamedInv /\ Types
  BY SortsHold DEF LinkInv, MeetInv
<1>2. \A c : ~On(t, c)'
  BY DEF Quits, On
<1>3. \A n \in 1..Len(pcs) : pcs[n] \in PcType
  BY PcsKept DEF PcsOK, MeetInv, Types, Built
<1>4. \A n \in 1..Len(pcs) :
          /\ pcs'[n].tab = pcs[n].tab /\ pcs'[n].role = pcs[n].role /\ pcs'[n].local = pcs[n].local
          /\ pcs'[n].remote = pcs[n].remote /\ pcs'[n].opened = pcs[n].opened
          /\ pcs[n].closed => pcs'[n].closed
          /\ pcs[n].tab # t => pcs'[n] = pcs[n]
  BY <1>3, ZenonT(60) DEF Going, Shut, PcType
<1>5. \A d \in Peer : /\ Thin(inbox'[d], inbox[d])
                      /\ \A m : In(m, outbox'[d]) => In(m, outbox[d])
                      /\ d # tab[t].sock => inbox'[d] = inbox[d] /\ outbox'[d] = outbox[d]
  <2> SUFFICES ASSUME NEW d \in Peer
               PROVE  /\ Thin(inbox'[d], inbox[d])
                      /\ \A m : In(m, outbox'[d]) => In(m, outbox[d])
                      /\ d # tab[t].sock => inbox'[d] = inbox[d] /\ outbox'[d] = outbox[d]
    OBVIOUS
  <2>1. inbox \in [Peer -> Seq(Request)] /\ outbox \in [Peer -> Seq(Reply)]
    BY <1>1 DEF Types
  <2>2. \/ inbox'[d] = inbox[d]
        \/ d = tab[t].sock /\ \E k \in 0..Len(inbox[d]) : inbox'[d] = SubSeq(inbox[d], 1, k)
    BY <2>1, ZenonT(60) DEF Quits
  <2>3. outbox'[d] = outbox[d] \/ (d = tab[t].sock /\ outbox'[d] = <<>>)
    BY <2>1 DEF Quits
  <2>4. \A k \in 0..Len(inbox[d]) : Thin(SubSeq(inbox[d], 1, k), inbox[d])
    BY <2>1, CutOff DEF Thin
  <2>5. Thin(inbox'[d], inbox[d])
    BY <2>2, <2>4 DEF Thin
  <2> QED BY <2>2, <2>3, <2>5 DEF In
<1>6. \A u \in Tab \ {t} : \A d : On(u, d) =>
          srv'[d] = srv[d] /\ inbox'[d] = inbox[d] /\ outbox'[d] = outbox[d]
  <2> SUFFICES ASSUME NEW u \in Tab \ {t}, NEW d, On(u, d)
               PROVE  srv'[d] = srv[d] /\ inbox'[d] = inbox[d] /\ outbox'[d] = outbox[d]
    OBVIOUS
  <2>1. d \in Peer /\ d # NoPeer
    BY <1>1, NoPeerIsNone DEF Sorts
  <2>2. d # tab[t].sock
    BY <2>1 DEF MeetInv, SockInv, On
  <2> QED BY <1>5, <2>1, <2>2 DEF Quits
<1>7. Move(t)
  <2>1. Others(t) /\ registry' = registry
    BY DEF Quits
  <2>2. Len(pcs') = Len(pcs) /\ Len(pcs) <= Len(pcs')
    BY <1>1 DEF Going, Sorts
  <2> QED BY <1>2, <1>4, <1>5, <1>6, <2>1, <2>2 DEF Move
<1>8. \A n \in 1..Len(pcs') : Matches(n)'
  BY <1>1, <1>4 DEF NamedInv, Matches, Sorts, Going
<1>9. (tab'[t].pc # 0 => Holds(t)') /\ ShowsTruth(t)'
  <2>1. CASE tab'[t].pc = 0 /\ tab'[t].status # "Connected"
    BY <2>1 DEF ShowsTruth
  <2>2. CASE /\ tab'[t].ws = "CLOSING" /\ pcs' = pcs /\ tab'[t].pc = tab[t].pc
             /\ tab'[t].status = tab[t].status /\ tab'[t].transfer = tab[t].transfer
             /\ tab'[t].session = tab[t].session
    BY <1>1, <1>2, <2>2 DEF ShownInv, ShowsTruth, Holds
  <2> QED BY <2>1, <2>2 DEF Going
<1>10. \A n \in 1..Len(pcs) : tab[t].pc = n /\ tab'[t].pc # n => pcs'[n].closed
  BY DEF Going
<1>11. \A u \in Tab : \A c, d : ~Offers(t, u, c, d)' /\ ~Offers(u, t, c, d)'
  BY <1>2 DEF Offers
<1>12. \A n \in 1..Len(pcs), m \in 1..Len(pcs') : Bonded(n, m)' => m \in 1..Len(pcs) /\ pcs[m].remote = n
  BY <1>4 DEF Going, Bonded
<1> QED BY <1>2, <1>7, <1>8, <1>9, <1>10, <1>11, <1>12, MoveKeeps

(* A page whose socket opens. *)
LEMMA OpensLinks ==
  ASSUME MeetInv, MeetInv', LinkInv, NEW t \in Tab, Opens(t)
  PROVE  LinkInv'
<1>1. Sorts /\ ShownInv /\ NamedInv /\ Types /\ SockInv
  BY SortsHold DEF LinkInv, MeetInv
<1>0. PICK c \in Peer : c = Cardinality({d \in Peer : srv[d] # "off"}) + 1
  BY DEF Opens
<1>2. PICK m :
          /\ c = Cardinality({d \in Peer : srv[d] # "off"}) + 1 /\ m.type \in Asks
          /\ tab' = [tab EXCEPT ![t].ws = "OPEN", ![t].sock = c]
          /\ srv' = [srv EXCEPT ![c] = "up"] /\ inbox' = [inbox EXCEPT ![c] = <<m>>]
          /\ UNCHANGED <<pcs, registry, outbox>> /\ tab[t].ws = "CONNECTING"
  <2> DEFINE s == tab[t].session
             y == IF OnOpen(s) = "SendCreate" THEN "Create" ELSE "Join"
  <2>1. Msg(y, s.room_in_hash, 0).type \in Asks
    BY MsgFields DEF Asks
  <2> QED BY <1>0, <2>1 DEF Opens, Link!Open
<1>3. srv[c] = "off"
  <2>1. PICK n \in Nat : {d \in Peer : srv[d] # "off"} = 1..n
    BY <1>1 DEF SockInv
  <2>2. Cardinality(1..n) = IF 1 > n THEN 0 ELSE n - 1 + 1
    BY FS_Interval
  <2>3. Cardinality(1..n) = n
    BY <2>2
  <2>4. c = n + 1
    <3>1. c = Cardinality({d \in Peer : srv[d] # "off"}) + 1
      BY <1>2
    <3> QED BY <2>1, <2>3, <3>1
  <2>5. c \notin 1..n
    BY <2>4
  <2> QED BY <2>1, <2>5
<1>4. inbox[c] = <<>> /\ outbox[c] = <<>> /\ ~Housed(c) /\ \A u \in Tab : tab[u].sock # c
  BY <1>1, <1>3 DEF SockInv
<1>5. /\ Others(t) /\ tab'[t].ws = "OPEN" /\ tab'[t].sock = c /\ tab'[t].status = tab[t].status
      /\ tab'[t].pc = 0 /\ tab[t].pc = 0
  <2>1. tab[t].pc = 0
    BY <1>1, <1>2 DEF ShownInv, Holds
  <2> QED BY <1>1, <1>2, <2>1 DEF Types, PageType, Others
<1>6. \A d : On(t, d)' <=> d = c
  BY <1>5 DEF On
<1>7. pcs' = pcs /\ registry' = registry /\ outbox' = outbox
  BY <1>2
<1>8. inbox'[c] = <<m>> /\ srv'[c] = "up" /\ \A d \in Peer \ {c} : inbox'[d] = inbox[d] /\ srv'[d] = srv[d]
  BY <1>1, <1>2 DEF Types
<1>9. Move(t)
  <2>1. \A d \in Peer : Thin(inbox'[d], inbox[d])
    <3>1. ~(m.type \in Relays) /\ \A i \in 1..Len(<<m>>) : <<m>>[i] = m
      BY <1>2 DEF Asks, Relays
    <3> QED BY <1>8, <3>1 DEF Thin
  <2>2. \A u \in Tab \ {t} : \A d : On(u, d) =>
            srv'[d] = srv[d] /\ inbox'[d] = inbox[d] /\ outbox'[d] = outbox[d]
    <3>1. \A u \in Tab : \A d : On(u, d) => d \in Peer \ {c}
      BY <1>1, <1>4 DEF Sorts, On
    <3> QED BY <1>7, <1>8, <3>1
  <2>3. Stays(t, c)
    BY <1>4, <1>5, <1>7 DEF Stays
  <2>4. Len(pcs) <= Len(pcs)
    BY <1>1 DEF Sorts
  <2> QED BY <1>5, <1>6, <1>7, <2>1, <2>2, <2>3, <2>4 DEF Move
<1>10. \A n \in 1..Len(pcs') : Matches(n)'
  BY <1>1, <1>7 DEF NamedInv, Matches
<1>11. (tab'[t].pc # 0 => Holds(t)') /\ ShowsTruth(t)'
  BY <1>1, <1>5 DEF ShownInv, ShowsTruth
<1>12. Fits(t, c)' /\ HasPlace(c)'
  <2>1. Flow("None", <<>>)
    BY Nothing
  <2>2. Kind(t)' = "None" /\ ~Housed(c)'
    BY <1>4, <1>5, <1>7 DEF Kind, Housed
  <2>3. HasAsk(<<m>>)
    BY <1>2 DEF HasAsk
  <2> QED BY <1>4, <1>7, <1>8, <2>1, <2>2, <2>3 DEF Fits, HasPlace
<1>13. \A u \in Tab : \A e, d : ~Offers(t, u, e, d)' /\ ~Offers(u, t, e, d)'
  <2>1. Mate(c)' = NoPeer /\ ~Housed(c)' /\ c # NoPeer
    BY <1>4, <1>7, NoPeerIsNone DEF Mate, Partner, Housed
  <2>2. \A e : Mate(e)' = c => FALSE
    <3>1. \A e : Mate(e) # NoPeer => Housed(Mate(e))
      BY Mates DEF LinkInv
    <3>2. \A e : Mate(e)' = Mate(e)
      BY <1>7 DEF Mate
    <3> QED BY <1>4, <2>1, <3>1, <3>2
  <2>3. Kind(t)' = "None"
    BY <1>5 DEF Kind
  <2> QED BY <1>6, <2>1, <2>2, <2>3 DEF Offers
<1>14. \A n \in 1..Len(pcs), k \in 1..Len(pcs') : Bonded(n, k)' => k \in 1..Len(pcs) /\ pcs[k].remote = n
  BY <1>7 DEF Bonded
<1> QED BY <1>5, <1>6, <1>9, <1>10, <1>11, <1>12, <1>13, <1>14, MoveKeeps

(* What a read does to the peer connection of the page. *)
Same(t) == tab'[t].pc = tab[t].pc /\ tab'[t].transfer = tab[t].transfer /\ pcs' = pcs

New(t, role, n) ==
    /\ pcs' = Build(t, role, n) /\ tab'[t].pc = Len(pcs) + 1 /\ tab'[t].session.has_pc
    /\ tab'[t].status = tab[t].status

Fails(t) == Same(t) /\ tab'[t].status = "Error" /\ tab'[t].session.has_pc

(* What each reply does to them. *)
LEMMA ReadsMore ==
  ASSUME Types, Built, SockInv, NEW t \in Tab, Delivers(t) \/ BuildFails(t), NEW c, c = tab[t].sock,
         NEW m, m = Head(outbox[c])
  PROVE  /\ m.type = "PeerJoined" =>
               (New(t, "Offer", 0) /\ tab'[t].transfer = Len(pcs) + 1) \/ Fails(t)
         /\ m.type = "Offer" =>
               (New(t, "Answer", m.pc) /\ tab'[t].transfer = tab[t].transfer) \/ Fails(t)
         /\ m.type = "Answer" =>
               /\ tab'[t].pc = tab[t].pc /\ tab'[t].transfer = tab[t].transfer
               /\ tab'[t].session = tab[t].session /\ tab'[t].status = tab[t].status
               /\ pcs' = IF tab[t].session.has_pc THEN SetRemote(tab[t].pc, m) ELSE pcs
         /\ m.type = "PeerLeft" =>
               /\ tab'[t].pc = 0 /\ pcs' = Close({tab[t].pc}) /\ tab'[t].status = "PeerLeft"
         /\ m.type = "Created" => Same(t) /\ tab'[t].status = "WaitingForPeer"
         /\ m.type \in Refusals =>
               /\ Same(t)
               /\ \/ tab'[t].status \in Refusals
                  \/ /\ tab'[t].status = tab[t].status /\ m.type = "RoomNotFound"
                     /\ MayReclaim(tab[t].session)
<1> DEFINE s == tab[t].session
           z == Updated(s, m.type, m.room)
<1>0. tab \in [Tab -> PageType]
  BY DEF Types
<1>1. tab[t] \in PageType /\ s \in SessionType /\ tab[t].pc \in Nat /\ tab[t].transfer \in Nat /\ tab[t].status \in Status
  BY DEF Types, PageType
<1>2. tab[t].ws = "OPEN" /\ outbox[c] # <<>>
  BY DEF Delivers, BuildFails
<1>3. c \in Peer
  BY <1>1, <1>2 DEF SockInv, PageType
<1>4. m \in Reply
  BY <1>2, <1>3, Parts DEF Types
<1>5. m.type \in {"Created"} \cup Refusals \cup Notices /\ m.room \in RoomOrNone /\ m.pc \in Nat
  BY <1>4 DEF Reply
<1>6. z \in SessionType
  BY <1>1, <1>5, Updates
<1>7. /\ m.type \in {"PeerJoined", "Offer"} => z.has_pc
      /\ m.type = "Answer" => z = s
  BY <1>1 DEF Updated, SessionType
<1>8. Len(pcs) \in Nat
  BY LenProperties DEF Types
<1> HIDE DEF s, z
<1>9. CASE Delivers(t)
  <2>1. Execute(t, Actions(s, m.type), z, m)
    BY <1>9 DEF Delivers, s, z
  <2>2. StatusAfter(t, s, m) \in Status
    BY <1>1 DEF StatusAfter, Status
  <2>3. ASSUME NEW pc \in Nat, NEW tr \in Nat, tab' = Turned(t, z, StatusAfter(t, s, m), pc, tr)
        PROVE  /\ tab'[t].session = z /\ tab'[t].status = StatusAfter(t, s, m)
               /\ tab'[t].pc = pc /\ tab'[t].transfer = tr
    <3>1. PICK st \in Status : st = StatusAfter(t, s, m)
      BY <2>2
    <3>2. tab' = Turned(t, z, st, pc, tr)
      BY <2>3, <3>1
    <3>3. tab'[t].session = z /\ tab'[t].status = st /\ tab'[t].pc = pc /\ tab'[t].transfer = tr
      BY <1>6, <1>0, <3>2, Turns
    <3> QED BY <3>1, <3>3
  <2>4. CASE m.type = "PeerJoined"
    <3>1. pcs' = Build(t, "Offer", 0) /\ tab' = Turned(t, z, StatusAfter(t, s, m), Len(pcs) + 1, Len(pcs) + 1)
      BY <1>5, <2>1, <2>4, Executes
    <3>2. StatusAfter(t, s, m) = tab[t].status
      BY <2>4 DEF StatusAfter
    <3>3. /\ tab'[t].session = z /\ tab'[t].status = tab[t].status
          /\ tab'[t].pc = Len(pcs) + 1 /\ tab'[t].transfer = Len(pcs) + 1
      <4>1. Len(pcs) + 1 \in Nat
        BY <1>8
      <4> QED BY <2>3, <3>1, <3>2, <4>1
    <3> QED BY <1>7, <2>4, <3>1, <3>3 DEF New, Refusals
  <2>5. CASE m.type = "Offer"
    <3>1. pcs' = Build(t, "Answer", m.pc) /\ tab' = Turned(t, z, StatusAfter(t, s, m), Len(pcs) + 1, tab[t].transfer)
      BY <1>5, <2>1, <2>5, Executes
    <3>2. StatusAfter(t, s, m) = tab[t].status
      BY <2>5 DEF StatusAfter
    <3>3. /\ tab'[t].session = z /\ tab'[t].status = tab[t].status
          /\ tab'[t].pc = Len(pcs) + 1 /\ tab'[t].transfer = tab[t].transfer
      <4>1. Len(pcs) + 1 \in Nat /\ tab[t].transfer \in Nat
        BY <1>1, <1>8
      <4> QED BY <2>3, <3>1, <3>2, <4>1
    <3> QED BY <1>7, <2>5, <3>1, <3>3 DEF New, Refusals
  <2>6. CASE m.type = "Answer"
    <3>1. tab' = Turned(t, z, StatusAfter(t, s, m), tab[t].pc, tab[t].transfer)
      BY <1>5, <2>1, <2>6, Executes
    <3>2. StatusAfter(t, s, m) = tab[t].status
      BY <2>6 DEF StatusAfter
    <3>3. pcs' = IF s.has_pc THEN SetRemote(tab[t].pc, m) ELSE pcs
      <4>1. Actions(s, m.type) = IF s.has_pc THEN <<"SetRemoteAnswer">> ELSE <<>>
        BY <2>6 DEF Actions
      <4>2. \A x, y : y = <<x>> => 1 \in 1..Len(y) /\ \A k \in 1..Len(y) : y[k] = x
        OBVIOUS
      <4>3. CASE s.has_pc
        <5>1. Actions(s, m.type) = <<"SetRemoteAnswer">>
          BY <4>1, <4>3
        <5>2. /\ \E k \in 1..Len(Actions(s, m.type)) : Actions(s, m.type)[k] = "SetRemoteAnswer"
              /\ \A k \in 1..Len(Actions(s, m.type)) : Actions(s, m.type)[k] = "SetRemoteAnswer"
          BY <4>2, <5>1
        <5> QED BY <2>1, <4>3, <5>2 DEF Execute
      <4>4. CASE ~s.has_pc
        <5>1. Actions(s, m.type) = <<>>
          BY <4>1, <4>4
        <5>2. \A k \in 1..Len(Actions(s, m.type)) : FALSE
          BY <5>1
        <5> QED BY <2>1, <4>4, <5>2 DEF Execute
      <4> QED BY <4>3, <4>4
    <3>4. /\ tab'[t].session = s /\ tab'[t].status = tab[t].status
          /\ tab'[t].pc = tab[t].pc /\ tab'[t].transfer = tab[t].transfer
      BY <1>1, <1>7, <2>3, <2>6, <3>1, <3>2
    <3> QED BY <2>6, <3>3, <3>4 DEF s, Refusals
  <2>7. CASE m.type = "PeerLeft"
    <3>1. pcs' = Close({tab[t].pc}) /\ tab' = Turned(t, z, StatusAfter(t, s, m), 0, 0)
      BY <1>5, <2>1, <2>7, Executes
    <3>2. StatusAfter(t, s, m) = "PeerLeft"
      BY <2>7 DEF StatusAfter
    <3> QED BY <2>3, <2>7, <3>1, <3>2 DEF Refusals
  <2>8. CASE m.type \in Refusals \cup {"Created"}
    <3>1. pcs' = pcs /\ tab' = Turned(t, z, StatusAfter(t, s, m), tab[t].pc, tab[t].transfer)
      BY <1>5, <2>1, <2>8, Executes
    <3>2. /\ m.type = "Created" => StatusAfter(t, s, m) = "WaitingForPeer"
          /\ m.type \in Refusals => \/ StatusAfter(t, s, m) \in Refusals
                                    \/ /\ StatusAfter(t, s, m) = tab[t].status
                                       /\ m.type = "RoomNotFound" /\ MayReclaim(s)
      BY <2>8 DEF StatusAfter, Refusals
    <3>3. Same(t) /\ tab'[t].status = StatusAfter(t, s, m)
      BY <1>1, <2>3, <3>1 DEF Same
    <3> QED BY <2>8, <3>2, <3>3 DEF Refusals, s
  <2> QED BY <1>5, <2>4, <2>5, <2>6, <2>7, <2>8 DEF Notices, Relays
<1>10. CASE BuildFails(t)
  <2>1. /\ m.type \in {"PeerJoined", "Offer"} /\ pcs' = pcs
        /\ tab' = [tab EXCEPT ![t].session = Updated(@, m.type, m.room), ![t].status = "Error"]
    BY <1>10 DEF BuildFails
  <2>2. tab' = Turned(t, z, "Error", tab[t].pc, tab[t].transfer)
    BY <1>1, <2>1, ZenonT(60) DEF Turned, z, s, Types, PageType
  <2>3. /\ tab'[t].session = z /\ tab'[t].status = "Error" /\ tab'[t].pc = tab[t].pc
        /\ tab'[t].transfer = tab[t].transfer
    <3>1. PICK st \in Status, pc \in Nat, tr \in Nat : st = "Error" /\ pc = tab[t].pc /\ tr = tab[t].transfer
      BY <1>1 DEF Status
    <3>2. tab' = Turned(t, z, st, pc, tr)
      BY <2>2, <3>1
    <3>3. tab'[t].session = z /\ tab'[t].status = st /\ tab'[t].pc = pc /\ tab'[t].transfer = tr
      BY <1>6, <1>0, <3>2, Turns
    <3> QED BY <3>1, <3>3
  <2> QED BY <1>7, <2>1, <2>3 DEF Fails, Same, Refusals
<1> QED BY <1>9, <1>10

(* What the page finds, and what it leaves. *)
LEMMA ReadsBase ==
  ASSUME MeetInv, LinkInv, NEW t \in Tab, Reads(t), NEW c, c = tab[t].sock, NEW m, m = Head(outbox[c])
  PROVE  /\ c \in Peer /\ c # NoPeer /\ On(t, c) /\ Others(t) /\ registry' = registry /\ srv' = srv
         /\ \A d : On(t, d)' <=> d = c
         /\ outbox[c] \in Seq(Reply) /\ outbox[c] # <<>> /\ srv[c] = "up"
         /\ outbox'[c] = Tail(outbox[c]) /\ Head(outbox[c]) = m
         /\ \A d \in Peer \ {c} : outbox'[d] = outbox[d] /\ inbox'[d] = inbox[d]
         /\ \A d \in Peer : Thin(inbox'[d], inbox[d])
         /\ m.type # "RoomNotFound" => inbox' = inbox
         /\ m.type = "RoomNotFound" /\ MayReclaim(tab[t].session) => HasAsk(inbox'[c])
         /\ 1 \in 1..Len(outbox[c]) /\ outbox[c][1] = m /\ Names(m) /\ Hearing(c, 1)
         /\ m.type \in Notices \cup {"Created"} => Housed(c)
         /\ m.type \in Refusals => ~Housed(c)
         /\ m.type \in {"Created"} \cup Refusals \cup Notices
         /\ Flow(Kind(t), outbox[c])
         /\ Housed(c) => Seat(Kind(t), tab[t].status, outbox[c], Early(c), Mate(c) = NoPeer)
         /\ Early(c) \in BOOLEAN /\ (Housed(c) /\ Mate(c) = NoPeer => Early(c))
<1>1. Sorts /\ NamedInv /\ StreamInv /\ OwnInv /\ Types /\ Seated(registry)
  BY SortsHold DEF LinkInv, MeetInv
<1>2. /\ tab[t].ws = "OPEN" /\ outbox[c] # <<>> /\ Others(t) /\ tab'[t].ws = "OPEN" /\ tab'[t].sock = c
      /\ registry' = registry /\ srv' = srv /\ outbox' = [outbox EXCEPT ![c] = Tail(@)]
  BY DEF Reads
<1>3. On(t, c) /\ \A d : On(t, d)' <=> d = c
  BY <1>2 DEF On
<1>4. c \in Peer /\ c # NoPeer /\ outbox[c] \in Seq(Reply) /\ inbox[c] \in Seq(Request)
  BY <1>1, <1>3, NoPeerIsNone DEF Sorts
<1>5. 1 \in 1..Len(outbox[c]) /\ outbox[c][1] = m /\ m \in Reply
  BY <1>2, <1>4, Parts
<1>6. outbox'[c] = Tail(outbox[c]) /\ \A d \in Peer \ {c} : outbox'[d] = outbox[d]
  BY <1>1, <1>2, <1>4 DEF Types
<1>7. Fits(t, c) /\ Hearing(c, 1) /\ Names(m)
  BY <1>1, <1>3, <1>4, <1>5 DEF StreamInv, OwnInv, NamedInv, In
<1>8. m.type \in {"Created"} \cup Refusals \cup Notices
  BY <1>5 DEF Reply
<1>9. /\ m.type \in Notices \cup {"Created"} => Housed(c)
      /\ m.type \in Refusals => ~Housed(c)
  BY <1>1, <1>3, <1>5 DEF Sorts
<1>10. srv[c] = "up"
  BY <1>2, <1>7 DEF Fits
<1>11. /\ m.type # "RoomNotFound" => inbox' = inbox
       /\ m.type = "RoomNotFound" /\ MayReclaim(tab[t].session) => HasAsk(inbox'[c])
       /\ \A d \in Peer \ {c} : inbox'[d] = inbox[d]
       /\ \A d \in Peer : Thin(inbox'[d], inbox[d])
  <2> DEFINE a == Msg("Reclaim", tab[t].session.room_in_hash, 0)
  <2>1. a \in Request /\ a.type = "Reclaim"
    <3>1. tab[t].session.room_in_hash \in RoomOrNone
      BY <1>1 DEF Types, PageType, SessionType
    <3> QED BY <3>1, MsgFields DEF Asks
  <2> HIDE DEF a
  <2>2. CASE m.type = "RoomNotFound" /\ MayReclaim(tab[t].session)
    <3>1. inbox' = [inbox EXCEPT ![c] = Append(inbox[c], a)]
      BY <1>2, <1>10, <2>2 DEF Reads, Send, a
    <3>2. inbox'[c] = Append(inbox[c], a) /\ \A d \in Peer \ {c} : inbox'[d] = inbox[d]
      BY <1>1, <1>4, <3>1 DEF Types
    <3>3. /\ Len(inbox[c]) \in Nat /\ Len(inbox'[c]) = Len(inbox[c]) + 1 /\ inbox'[c][Len(inbox[c]) + 1] = a
          /\ \A i \in 1..Len(inbox[c]) : inbox'[c][i] = inbox[c][i]
          /\ \A i \in 1..Len(inbox'[c]) : i \in 1..Len(inbox[c]) \/ i = Len(inbox[c]) + 1
      BY <1>4, <2>1, <3>2, Grown
    <3>4. HasAsk(inbox'[c])
      <4>1. Len(inbox[c]) + 1 \in 1..Len(inbox'[c])
        BY <3>3
      <4> QED BY <2>1, <3>3, <4>1 DEF HasAsk, Asks
    <3>5. Thin(inbox'[c], inbox[c])
      BY <2>1, <3>3 DEF Thin, Relays
    <3>6. \A d \in Peer \ {c} : Thin(inbox'[d], inbox[d])
      BY <3>2 DEF Thin
    <3> QED BY <2>2, <3>2, <3>4, <3>5, <3>6
  <2>3. CASE ~(m.type = "RoomNotFound" /\ MayReclaim(tab[t].session))
    <3>1. inbox' = inbox
      BY <2>3 DEF Reads
    <3> QED BY <2>3, <3>1 DEF Thin
  <2> QED BY <2>2, <2>3
<1>12. Early(c) \in BOOLEAN /\ (Housed(c) /\ Mate(c) = NoPeer => Early(c))
  BY <1>1, Mates DEF Early, First
<1> QED BY <1>2, <1>3, <1>4, <1>5, <1>6, <1>7, <1>8, <1>9, <1>10, <1>11, <1>12 DEF Fits

(* A tab that offers is the first of its room. *)
LEMMA FirstOffers ==
  ASSUME MeetInv, LinkInv, NEW u \in Tab, NEW e, On(u, e), Kind(u) = "Offer", Mate(e) # NoPeer
  PROVE  /\ Early(e) /\ ~Early(Mate(e)) /\ Mate(Mate(e)) = e /\ Mate(e) # e /\ Mate(e) \in Peer /\ e \in Peer
         /\ ~Has(outbox[e], "Offer") /\ ~Has(inbox[Mate(e)], "Offer")
<1>1. Sorts /\ StreamInv /\ OfferInv
  BY SortsHold DEF LinkInv
<1>2. /\ Housed(e) /\ Mate(Mate(e)) = e /\ Mate(e) # e /\ Mate(e) \in Peer
      /\ Early(e) <=> ~Early(Mate(e))
  BY Mates DEF LinkInv
<1>3. Fits(u, e) /\ e \in Peer
  BY <1>1 DEF StreamInv, Sorts
<1>4. Early(e)
  BY <1>2, <1>3 DEF Fits, Seat
<1>5. ~Has(outbox[e], "Offer")
  BY <1>3 DEF Fits, Flow, Has
<1> QED BY <1>1, <1>2, <1>3, <1>4, <1>5 DEF OfferInv

(* One that offers to t, in a move of t, did so before. *)
LEMMA OffersBefore ==
  ASSUME MeetInv, MeetInv', LinkInv, NEW t \in Tab, Move(t), NEW u \in Tab \ {t}, NEW w \in Tab,
         NEW e, NEW d, Offers(u, w, e, d)'
  PROVE  /\ On(u, e) /\ Mate(e) = d /\ Kind(u) = "Offer" /\ ~Has(outbox[e], "PeerLeft") /\ tab'[u] = tab[u]
         /\ outbox'[e] = outbox[e] /\ inbox'[e] = inbox[e] /\ tab[u].pc \in 1..Len(pcs)
         /\ pcs'[tab[u].pc] = pcs[tab[u].pc] /\ Holds(u)
         /\ d \in Peer /\ e \in Peer /\ d # NoPeer /\ e # d
<1>1. Sorts /\ ShownInv
  BY SortsHold DEF LinkInv
<1>2. (MeetInv => Sorts)'
  BY SortsHold, PTL
<1>3. Sorts'
  BY <1>2
<1>4. On(u, e) /\ Mate(e) = d /\ On(w, d)'
  BY MoveFades DEF Offers
<1>5. tab'[u] = tab[u] /\ outbox'[e] = outbox[e] /\ inbox'[e] = inbox[e]
  BY <1>4 DEF Move, Others
<1>6. Kind(u)' = "Offer" /\ ~Has(outbox'[e], "PeerLeft")
  BY DEF Offers
<1>7. tab[u].pc # 0
  BY <1>5, <1>6 DEF Kind
<1>8. Holds(u) /\ tab[u].pc \in 1..Len(pcs)
  BY <1>1, <1>7 DEF ShownInv, Sorts
<1>9. pcs'[tab[u].pc] = pcs[tab[u].pc]
  BY <1>8 DEF Move, Holds
<1>10. Kind(u) = "Offer"
  BY <1>5, <1>6, <1>9 DEF Kind
<1>11. d \in Peer /\ e \in Peer /\ d # NoPeer
  BY <1>1, <1>3, <1>4, NoPeerIsNone DEF Sorts
<1>12. e # d
  BY <1>4, <1>11, Mates DEF LinkInv
<1> QED BY <1>4, <1>5, <1>6, <1>8, <1>9, <1>10, <1>11, <1>12

(* A read that leaves the peer connection of the page, which does not      *)
(* offer, as it is.                                                        *)
LEMMA ReadsSame ==
  ASSUME MeetInv, MeetInv', LinkInv, NEW t \in Tab, Reads(t), NEW c, c = tab[t].sock,
         Same(t), Head(outbox[c]).type # "PeerLeft", Kind(t) # "Offer",
         tab[t].pc # 0 => tab'[t].session.has_pc,
         tab'[t].status # "Connected", ~(tab[t].pc # 0 /\ pcs[tab[t].pc].opened),
         Flow(Kind(t), Tail(outbox[c])),
         Housed(c) => /\ Seat(Kind(t), tab'[t].status, Tail(outbox[c]), Early(c), Mate(c) = NoPeer)
                      /\ Early(c) \/ tab'[t].status = "Error",
         Housed(c) \/ HasAsk(inbox'[c]) \/ tab'[t].status \in Refusals
  PROVE  LinkInv'
<1>1. Sorts /\ ShownInv /\ NamedInv
  BY SortsHold DEF LinkInv
<1>2. /\ c \in Peer /\ c # NoPeer /\ On(t, c) /\ Others(t) /\ registry' = registry /\ srv' = srv
      /\ \A d : On(t, d)' <=> d = c
      /\ outbox[c] \in Seq(Reply) /\ outbox[c] # <<>> /\ srv[c] = "up"
      /\ outbox'[c] = Tail(outbox[c])
      /\ \A d \in Peer \ {c} : outbox'[d] = outbox[d] /\ inbox'[d] = inbox[d]
      /\ \A d \in Peer : Thin(inbox'[d], inbox[d])
  BY ReadsBase
<1>3. pcs' = pcs /\ tab'[t].pc = tab[t].pc /\ tab'[t].transfer = tab[t].transfer
  BY DEF Same
<1>4. \A d \in Peer : \A m : In(m, outbox'[d]) => In(m, outbox[d])
  <2>1. \A i \in 1..Len(Tail(outbox[c])) : i + 1 \in 1..Len(outbox[c]) /\ Tail(outbox[c])[i] = outbox[c][i + 1]
    BY <1>2, Parts
  <2>2. \A m : In(m, outbox'[c]) => In(m, outbox[c])
    BY <1>2, <2>1 DEF In
  <2> QED BY <1>2, <2>2
<1>5. \A u \in Tab \ {t} : \A d : On(u, d) => d \in Peer /\ d # c
  <2>1. \A u \in Tab \ {t} : \A d : On(u, d) => d \in Peer /\ Holders(d) = {u}
    BY <1>1 DEF Sorts
  <2>2. Holders(c) = {t}
    BY <1>1, <1>2 DEF Sorts
  <2> QED BY <2>1, <2>2
<1>6. Move(t)
  <2>1. \A u \in Tab \ {t} : \A d : On(u, d) =>
            srv'[d] = srv[d] /\ inbox'[d] = inbox[d] /\ outbox'[d] = outbox[d]
    BY <1>2, <1>5
  <2>2. Stays(t, c)
    BY <1>2, <1>3 DEF Stays
  <2>3. Len(pcs) <= Len(pcs)
    BY <1>1 DEF Sorts
  <2> QED BY <1>2, <1>3, <1>4, <2>1, <2>2, <2>3 DEF Move
<1>7. \A n \in 1..Len(pcs') : Matches(n)'
  BY <1>1, <1>3 DEF NamedInv, Matches
<1>8. (tab'[t].pc # 0 => Holds(t)') /\ ShowsTruth(t)'
  <2>1. ASSUME tab[t].pc # 0 PROVE Holds(t)'
    <3>1. Holds(t) /\ tab'[t].ws = "OPEN"
      BY <1>1, <1>2, <2>1 DEF ShownInv, On
    <3>2. \A d : On(t, d)' /\ srv'[d] = "up" => Housed(d)'
      BY <1>2, <3>1 DEF Holds, Housed
    <3> QED BY <1>3, <2>1, <3>1, <3>2 DEF Holds
  <2>2. ShowsTruth(t)'
    BY <1>3 DEF ShowsTruth
  <2> QED BY <1>3, <2>1, <2>2
<1>9. Kind(t)' = Kind(t) /\ (Housed(c)' <=> Housed(c)) /\ (Early(c)' <=> Early(c)) /\ Mate(c)' = Mate(c)
  BY <1>2, <1>3 DEF Kind, Housed, Early, Mate
<1>10. Fits(t, c)' /\ (tab'[t].status \notin Refusals => HasPlace(c)')
  <2>1. Fits(t, c)'
    <3>1. Early(c)' = Early(c)
      BY <1>2 DEF Early
    <3> QED BY <1>2, <1>9, <3>1 DEF Fits
  <2> QED BY <1>9, <2>1 DEF HasPlace
<1>11. \A u \in Tab : \A e, d : ~Offers(t, u, e, d)'
  BY <1>9 DEF Offers
<1>12. ASSUME NEW u \in Tab, NEW e, NEW d, Offers(u, t, e, d)' PROVE Offering(u, t, e, d)'
  <2>1. u \in Tab \ {t} /\ d = c
    BY <1>2, <1>11, <1>12 DEF Offers
  <2>2. On(u, e) /\ Mate(e) = c /\ Kind(u) = "Offer" /\ d # NoPeer
    BY <1>6, <1>12, <2>1, OffersBefore
  <2>3. ~Early(c) /\ Housed(c)
    BY <1>2, <2>2, FirstOffers, Mates DEF LinkInv
  <2> QED BY <2>3 DEF Offering
<1>13. \A n \in 1..Len(pcs), m \in 1..Len(pcs') : Bonded(n, m)' => m \in 1..Len(pcs) /\ pcs[m].remote = n
  BY <1>3 DEF Bonded
<1> QED BY <1>2, <1>3, <1>6, <1>7, <1>8, <1>10, <1>11, <1>12, <1>13, MoveKeeps

(* How the replies go on, by the place of the tab. *)
LEMMA ReadsSeat ==
  ASSUME MeetInv, LinkInv, NEW t \in Tab, Reads(t), NEW c, c = tab[t].sock,
         NEW m, m = Head(outbox[c]), Housed(c), NEW st
  PROVE  LET v == Tail(outbox[c])
             In2(k, x) == Seat(k, x, v, Early(c), Mate(c) = NoPeer)
         IN
         /\ m.type = "PeerJoined" => Early(c) /\ In2("Offer", st) /\ In2("None", "Error")
         /\ m.type = "Offer" => In2("Answer", st) /\ In2(Kind(t), "Error")
         /\ m.type = "PeerLeft" => Early(c) /\ In2("None", st)
         /\ m.type = "Created" => Early(c) /\ In2("None", st)
         /\ m.type = "Answer" => In2(Kind(t), tab[t].status)
<1> DEFINE f == Early(c)
           a == Mate(c) = NoPeer
           s == outbox[c]
<1>1. /\ s \in Seq(Reply) /\ s # <<>> /\ Head(s) = m /\ Flow(Kind(t), s)
      /\ Seat(Kind(t), tab[t].status, s, f, a) /\ f \in BOOLEAN /\ a \in BOOLEAN /\ (a => f)
  BY ReadsBase
<1> HIDE DEF f, a, s
<1>2. /\ m.type = "PeerJoined" => /\ f /\ Seat("Offer", st, Tail(s), f, a)
                                  /\ Seat("None", "Error", Tail(s), f, a)
      /\ m.type = "Offer" => Seat("Answer", st, Tail(s), f, a) /\ Seat(Kind(t), "Error", Tail(s), f, a)
      /\ m.type = "PeerLeft" => f /\ Seat("None", st, Tail(s), f, a)
      /\ m.type = "Created" => f /\ Seat("None", st, Tail(s), f, a)
      /\ m.type = "Answer" => Seat(Kind(t), tab[t].status, Tail(s), f, a)
  BY <1>1, SeatTaken
<1> QED BY <1>2 DEF f, a, s

(* Created, and the refusals. *)
LEMMA ReadsReply ==
  ASSUME MeetInv, MeetInv', LinkInv, NEW t \in Tab, Delivers(t) \/ BuildFails(t), Reads(t),
         NEW c, c = tab[t].sock, NEW m, m = Head(outbox[c]), m.type \in {"Created"} \cup Refusals
  PROVE  LinkInv'
<1>1. Types /\ Built /\ SockInv /\ ShownInv
  BY DEF MeetInv, LinkInv
<1>2. /\ On(t, c) /\ outbox[c] \in Seq(Reply) /\ outbox[c] # <<>> /\ srv[c] = "up"
      /\ m.type = "RoomNotFound" /\ MayReclaim(tab[t].session) => HasAsk(inbox'[c])
      /\ m.type \in Notices \cup {"Created"} => Housed(c)
      /\ m.type \in Refusals => ~Housed(c)
      /\ Flow(Kind(t), outbox[c])
      /\ Housed(c) => Seat(Kind(t), tab[t].status, outbox[c], Early(c), Mate(c) = NoPeer)
      /\ Early(c) \in BOOLEAN /\ (Housed(c) /\ Mate(c) = NoPeer => Early(c))
  BY ReadsBase
<1>3. m.type # "PeerLeft" /\ "Connected" \notin Refusals /\ (m.type \in Refusals => m.type # "Created")
  BY DEF Refusals
<1>4. tab[t].pc = 0
  <2>1. CASE m.type = "Created"
    <3>1. Kind(t) = "None"
      BY <1>2, <2>1, FlowTaken
    <3>2. tab[t].pc \in 1..Len(pcs) => pcs[tab[t].pc].role \in {"Offer", "Answer"}
      BY SortsHold DEF Sorts
    <3> QED BY <3>1, <3>2, SortsHold DEF Sorts, Kind
  <2>2. CASE m.type \in Refusals
    BY <1>1, <1>2, <2>2 DEF ShownInv, Holds
  <2> QED BY <2>1, <2>2
<1>5. Kind(t) = "None" /\ tab[t].status # "Connected"
  BY <1>1, <1>4 DEF Kind, ShownInv, ShowsTruth
<1>6. Flow(Kind(t), Tail(outbox[c]))
  BY <1>2, <1>5, FlowTaken
<1>7. CASE m.type = "Created"
  <2>1. Same(t) /\ tab'[t].status = "WaitingForPeer"
    BY <1>1, <1>7, ReadsMore
  <2>2. Early(c) /\ Seat("None", tab'[t].status, Tail(outbox[c]), Early(c), Mate(c) = NoPeer)
    BY <1>2, <1>7, ReadsSeat
  <2> QED BY <1>2, <1>3, <1>4, <1>5, <1>6, <1>7, <2>1, <2>2, ReadsSame
<1>8. CASE m.type \in Refusals
  <2>1. /\ Same(t)
        /\ \/ tab'[t].status \in Refusals
           \/ /\ tab'[t].status = tab[t].status /\ m.type = "RoomNotFound"
              /\ MayReclaim(tab[t].session)
    BY <1>1, <1>8, ReadsMore
  <2>2. tab'[t].status # "Connected" /\ (HasAsk(inbox'[c]) \/ tab'[t].status \in Refusals)
    BY <1>2, <1>3, <1>5, <2>1
  <2> QED BY <1>2, <1>3, <1>4, <1>5, <1>6, <1>8, <2>1, <2>2, ReadsSame
<1> QED BY <1>7, <1>8

(* An offer finds a page whose peer connection, if any, answered to one    *)
(* that did not take it.                                                   *)
LEMMA OfferFinds ==
  ASSUME MeetInv, LinkInv, NEW t \in Tab, NEW c, On(t, c), Housed(c), Has(outbox[c], "Offer"),
         Kind(t) # "Offer", NEW n \in 1..Len(pcs), tab[t].pc = n
  PROVE  /\ pcs[n].role = "Answer" /\ pcs[n].tab = t /\ ~pcs[n].opened /\ Lives(n, c)
         /\ pcs[n].remote \in 1..Len(pcs) /\ pcs[pcs[n].remote].role = "Offer"
         /\ pcs[pcs[n].remote].remote # n
<1>1. Sorts /\ ShownInv /\ BondInv /\ Matches(n)
  BY SortsHold DEF LinkInv, NamedInv
<1>2. n # 0 /\ pcs[n].role = "Answer"
  BY <1>1 DEF Kind, Sorts
<1>3. pcs[n].tab = t
  BY <1>1, <1>2 DEF ShownInv, Holds
<1>4. Lives(n, c)
  BY <1>3 DEF Lives
<1>5. PICK i \in 1..Len(pcs) : i = pcs[n].remote /\ pcs[i].role = "Offer"
  BY <1>1, <1>2 DEF Matches, Sorts
<1>6. pcs[i].remote # n
  <2> SUFFICES ASSUME pcs[i].remote = n PROVE FALSE
    OBVIOUS
  <2>1. Bonded(n, i)
    BY <1>5 DEF Bonded
  <2>2. Bond(i, c, Mate(c))
    BY <1>1, <1>4, <2>1 DEF BondInv
  <2> QED BY <2>2 DEF Bond
<1> QED BY <1>1, <1>2, <1>3, <1>4, <1>5, <1>6 DEF Matches

(* A peer connection that could not be built. *)
LEMMA ReadsFails ==
  ASSUME MeetInv, MeetInv', LinkInv, NEW t \in Tab, Reads(t), NEW c, c = tab[t].sock,
         NEW m, m = Head(outbox[c]), m.type \in {"PeerJoined", "Offer"}, Fails(t)
  PROVE  LinkInv'
<1>1. /\ On(t, c) /\ outbox[c] \in Seq(Reply) /\ outbox[c] # <<>> /\ Flow(Kind(t), outbox[c])
      /\ m.type \in Notices \cup {"Created"} => Housed(c)
  BY ReadsBase
<1>2. Housed(c)
  BY <1>1 DEF Notices, Relays
<1>3. Same(t) /\ tab'[t].status = "Error" /\ tab'[t].session.has_pc
  BY DEF Fails
<1>4. /\ Kind(t) # "Offer" /\ Flow(Kind(t), Tail(outbox[c]))
      /\ m.type = "PeerJoined" => Kind(t) = "None"
  BY <1>1, FlowTaken
<1>5. Seat(Kind(t), "Error", Tail(outbox[c]), Early(c), Mate(c) = NoPeer)
  <2>1. CASE m.type = "PeerJoined"
    BY <1>2, <1>4, <2>1, ReadsSeat
  <2>2. CASE m.type = "Offer"
    BY <1>2, <2>2, ReadsSeat
  <2> QED BY <2>1, <2>2
<1>6. ~(tab[t].pc # 0 /\ pcs[tab[t].pc].opened)
  <2> SUFFICES ASSUME NEW n, n = tab[t].pc, n # 0 PROVE ~pcs[n].opened
    OBVIOUS
  <2>1. n \in 1..Len(pcs) /\ Kind(t) # "None"
    BY SortsHold DEF Sorts, Kind
  <2>2. Has(outbox[c], "Offer")
    BY <1>1, <1>4, <2>1, Taken
  <2> QED BY <1>1, <1>2, <1>4, <2>1, <2>2, OfferFinds
<1> QED BY <1>2, <1>3, <1>4, <1>5, <1>6, ReadsSame

(* A peer connection is built. *)
LEMMA ReadsNew ==
  ASSUME MeetInv, LinkInv, NEW t \in Tab, Reads(t), NEW c, c = tab[t].sock,
         Head(outbox[c]).type \in {"PeerJoined", "Offer"},
         NEW role \in {"Offer", "Answer"}, NEW r \in 0..Len(pcs), New(t, role, r),
         NEW n, n = Len(pcs) + 1
  PROVE  /\ n \in Nat \ {0} /\ Len(pcs') = n /\ n \notin 1..Len(pcs) /\ tab'[t].pc = n
         /\ pcs'[n].tab = t /\ pcs'[n].role = role /\ pcs'[n].remote = r
         /\ ~pcs'[n].local /\ ~pcs'[n].opened /\ ~pcs'[n].closed
         /\ \A i \in 1..Len(pcs) : i \in 1..Len(pcs') /\ pcs'[i] = pcs[i]
         /\ \A i \in 1..Len(pcs') : i \in 1..Len(pcs) \/ i = n
         /\ Move(t) /\ Kind(t)' = role
<1> DEFINE p == [tab |-> t, role |-> role, remote |-> r, local |-> FALSE, opened |-> FALSE, closed |-> FALSE]
<1>1. Sorts /\ Types
  BY SortsHold DEF MeetInv
<1>2. /\ c \in Peer /\ On(t, c) /\ Others(t) /\ registry' = registry /\ srv' = srv
      /\ \A d : On(t, d)' <=> d = c
      /\ outbox[c] \in Seq(Reply) /\ outbox[c] # <<>> /\ outbox'[c] = Tail(outbox[c])
      /\ \A d \in Peer \ {c} : outbox'[d] = outbox[d] /\ inbox'[d] = inbox[d]
      /\ \A d \in Peer : Thin(inbox'[d], inbox[d])
  BY ReadsBase
<1>3. Len(pcs) \in Nat /\ n \in Nat \ {0} /\ n \notin 1..Len(pcs)
  BY <1>1 DEF Sorts
<1>4. p \in PcType /\ pcs' = Append(pcs, p) /\ pcs \in Seq(PcType) /\ tab'[t].pc = n
  BY <1>1, <1>3 DEF New, Build, PcType, Types
<1>5. /\ p.tab = t /\ p.role = role /\ p.remote = r /\ ~p.local /\ ~p.opened /\ ~p.closed
  OBVIOUS
<1> HIDE DEF p
<1>6. /\ Len(pcs') = n /\ pcs'[n] = p
      /\ \A i \in 1..Len(pcs) : i \in 1..Len(pcs') /\ pcs'[i] = pcs[i]
      /\ \A i \in 1..Len(pcs') : i \in 1..Len(pcs) \/ i = n
  BY <1>4, Grown
<1>7. \A d \in Peer : \A x : In(x, outbox'[d]) => In(x, outbox[d])
  <2>1. \A i \in 1..Len(Tail(outbox[c])) : i + 1 \in 1..Len(outbox[c]) /\ Tail(outbox[c])[i] = outbox[c][i + 1]
    BY <1>2, Parts
  <2>2. \A x : In(x, outbox'[c]) => In(x, outbox[c])
    BY <1>2, <2>1 DEF In
  <2> QED BY <1>2, <2>2
<1>8. \A u \in Tab \ {t} : \A d : On(u, d) => d \in Peer /\ d # c
  <2>1. \A u \in Tab \ {t} : \A d : On(u, d) => d \in Peer /\ Holders(d) = {u}
    BY <1>1 DEF Sorts
  <2>2. Holders(c) = {t}
    BY <1>1, <1>2 DEF Sorts
  <2> QED BY <2>1, <2>2
<1>9. Move(t)
  <2>1. \A u \in Tab \ {t} : \A d : On(u, d) =>
            srv'[d] = srv[d] /\ inbox'[d] = inbox[d] /\ outbox'[d] = outbox[d]
    BY <1>2, <1>8
  <2>2. Stays(t, c)
    BY <1>2, <1>4 DEF Stays
  <2>3. Len(pcs) <= Len(pcs')
    BY <1>3, <1>6
  <2>4. \A i \in 1..Len(pcs') : i \in 1..Len(pcs) \/ (i = tab'[t].pc /\ i = Len(pcs) + 1 /\ pcs'[i].tab = t)
    BY <1>4, <1>5, <1>6
  <2> QED BY <1>2, <1>6, <1>7, <2>1, <2>2, <2>3, <2>4 DEF Move
<1>10. Kind(t)' = role
  BY <1>3, <1>4, <1>5, <1>6 DEF Kind
<1> QED BY <1>3, <1>4, <1>5, <1>6, <1>9, <1>10

(* The first of two is told of the second, and makes an offer. *)
LEMMA ReadsJoined ==
  ASSUME MeetInv, MeetInv', LinkInv, NEW t \in Tab, Reads(t), NEW c, c = tab[t].sock,
         NEW m, m = Head(outbox[c]), m.type = "PeerJoined",
         New(t, "Offer", 0), tab'[t].transfer = Len(pcs) + 1
  PROVE  LinkInv'
<1>1. Sorts /\ ShownInv /\ NamedInv
  BY SortsHold DEF LinkInv
<1>2. /\ c \in Peer /\ c # NoPeer /\ On(t, c) /\ Others(t) /\ registry' = registry /\ srv' = srv
      /\ \A d : On(t, d)' <=> d = c
      /\ outbox[c] \in Seq(Reply) /\ outbox[c] # <<>> /\ srv[c] = "up" /\ outbox'[c] = Tail(outbox[c])
      /\ Flow(Kind(t), outbox[c])
      /\ m.type \in Notices \cup {"Created"} => Housed(c)
  BY ReadsBase
<1>3. Housed(c)
  BY <1>2 DEF Notices
<1>4. PICK n : n = Len(pcs) + 1
  OBVIOUS
<1>5. 0 \in 0..Len(pcs)
  BY <1>1 DEF Sorts
<1>6. /\ n \in Nat \ {0} /\ Len(pcs') = n /\ n \notin 1..Len(pcs) /\ tab'[t].pc = n
      /\ pcs'[n].tab = t /\ pcs'[n].role = "Offer" /\ pcs'[n].remote = 0
      /\ ~pcs'[n].local /\ ~pcs'[n].opened /\ ~pcs'[n].closed
      /\ \A i \in 1..Len(pcs) : i \in 1..Len(pcs') /\ pcs'[i] = pcs[i]
      /\ \A i \in 1..Len(pcs') : i \in 1..Len(pcs) \/ i = n
      /\ Move(t) /\ Kind(t)' = "Offer"
  BY <1>4, <1>5, ReadsNew
<1>7. Kind(t) = "None" /\ Flow("Offer", Tail(outbox[c]))
  BY <1>2, FlowTaken
<1>8. Early(c) /\ Seat("Offer", tab'[t].status, Tail(outbox[c]), Early(c), Mate(c) = NoPeer)
  BY <1>3, ReadsSeat
<1>9. tab[t].pc = 0 /\ tab[t].status # "Connected"
  <2>1. tab[t].pc \in 1..Len(pcs) => pcs[tab[t].pc].role \in {"Offer", "Answer"}
    BY <1>1 DEF Sorts
  <2>2. tab[t].pc = 0
    BY <1>1, <1>7, <2>1 DEF Sorts, Kind
  <2> QED BY <1>1, <2>2 DEF ShownInv, ShowsTruth
<1>10. \A i \in 1..Len(pcs') : Matches(i)'
  <2>1. Matches(n)'
    BY <1>6 DEF Matches
  <2>2. ASSUME NEW i \in 1..Len(pcs) PROVE Matches(i)'
    BY <1>1, <1>6, <2>2 DEF NamedInv, Matches, Sorts
  <2> QED BY <1>6, <2>1, <2>2
<1>11. Holds(t)' /\ ShowsTruth(t)'
  <2>1. tab'[t].ws = "OPEN" /\ \A d : On(t, d)' => Housed(d)'
    BY <1>2, <1>3 DEF On, Housed
  <2>2. tab'[t].session.has_pc /\ tab'[t].status # "Connected" /\ tab'[t].transfer = n
    BY <1>4, <1>9 DEF New
  <2> QED BY <1>6, <2>1, <2>2 DEF Holds, ShowsTruth
<1>12. Fits(t, c)' /\ HasPlace(c)'
  <2>1. Housed(c)' /\ Early(c)' = Early(c) /\ Mate(c)' = Mate(c)
    BY <1>2, <1>3 DEF Housed, Early, Mate
  <2> QED BY <1>2, <1>6, <1>7, <1>8, <2>1 DEF Fits, HasPlace
<1>13. \A u \in Tab : \A e, d : Offers(t, u, e, d)' => Offering(t, u, e, d)'
  BY <1>6 DEF Offering
<1>14. ASSUME NEW u \in Tab \ {t}, NEW e, NEW d, Offers(u, t, e, d)' PROVE FALSE
  <2>1. d = c
    BY <1>2, <1>14 DEF Offers
  <2>2. On(u, e) /\ Mate(e) = c /\ Kind(u) = "Offer"
    BY <1>6, <1>14, <2>1, OffersBefore
  <2> QED BY <1>2, <1>8, <2>2, FirstOffers
<1>15. \A i \in 1..Len(pcs), k \in 1..Len(pcs') : Bonded(i, k)' => k \in 1..Len(pcs) /\ pcs[k].remote = i
  BY <1>6 DEF Bonded
<1>16. \A u \in Tab : \A e, d : Offers(u, t, e, d)' => Offering(u, t, e, d)'
  BY <1>13, <1>14
<1>17. ~(\E i \in 1..Len(pcs) : tab[t].pc = i)
  BY <1>1, <1>9 DEF Sorts
<1> QED BY <1>2, <1>6, <1>10, <1>11, <1>12, <1>13, <1>15, <1>16, <1>17, MoveKeeps

(* The second of two gets an offer, and answers: a peer connection that it *)
(* replaces becomes a stray, and the new one is bound to the one that      *)
(* offered if that still lives.                                            *)
LEMMA ReadsOffered ==
  ASSUME MeetInv, MeetInv', LinkInv, NEW t \in Tab, Reads(t), NEW c, c = tab[t].sock,
         NEW m, m = Head(outbox[c]), m.type = "Offer", New(t, "Answer", m.pc)
  PROVE  LinkInv'
<1>1. Sorts /\ ShownInv /\ NamedInv /\ StreamInv /\ BondInv /\ OwnInv
  BY SortsHold DEF LinkInv
<1>2. /\ c \in Peer /\ c # NoPeer /\ On(t, c) /\ Others(t) /\ registry' = registry /\ srv' = srv
      /\ \A d : On(t, d)' <=> d = c
      /\ outbox[c] \in Seq(Reply) /\ outbox[c] # <<>> /\ srv[c] = "up" /\ outbox'[c] = Tail(outbox[c])
      /\ \A d \in Peer \ {c} : outbox'[d] = outbox[d] /\ inbox'[d] = inbox[d]
      /\ m.type # "RoomNotFound" => inbox' = inbox
      /\ 1 \in 1..Len(outbox[c]) /\ outbox[c][1] = m /\ Names(m) /\ Hearing(c, 1)
      /\ Flow(Kind(t), outbox[c])
      /\ m.type \in Notices \cup {"Created"} => Housed(c)
  BY ReadsBase
<1>3. Housed(c) /\ inbox' = inbox /\ Has(outbox[c], "Offer") /\ m.type \in Relays
  BY <1>2 DEF Notices, Relays, Has
<1>4. PICK o \in 1..Len(pcs) : o = m.pc /\ pcs[o].local /\ pcs[o].role = "Offer"
  BY <1>1, <1>2, <1>3 DEF Names
<1>0. PICK n : n = Len(pcs) + 1
  OBVIOUS
<1>5. o \in 0..Len(pcs) /\ o # 0
  BY <1>1, <1>4 DEF Sorts
<1>6. /\ n \in Nat \ {0} /\ Len(pcs') = n /\ n \notin 1..Len(pcs) /\ tab'[t].pc = n
      /\ pcs'[n].tab = t /\ pcs'[n].role = "Answer" /\ pcs'[n].remote = o
      /\ ~pcs'[n].local /\ ~pcs'[n].opened /\ ~pcs'[n].closed
      /\ \A i \in 1..Len(pcs) : i \in 1..Len(pcs') /\ pcs'[i] = pcs[i]
      /\ \A i \in 1..Len(pcs') : i \in 1..Len(pcs) \/ i = n
      /\ Move(t) /\ Kind(t)' = "Answer"
  <2>1. New(t, "Answer", o)
    BY <1>4
  <2> QED BY <1>0, <1>5, <2>1, ReadsNew
<1>7. Kind(t) # "Offer" /\ Flow("Answer", Tail(outbox[c]))
  BY <1>2, FlowTaken
<1>8. Seat("Answer", tab'[t].status, Tail(outbox[c]), Early(c), Mate(c) = NoPeer)
  BY <1>3, ReadsSeat
<1>9. ASSUME NEW i \in 1..Len(pcs), tab[t].pc = i
      PROVE  /\ pcs[i].role = "Answer" /\ ~pcs[i].opened /\ Lives(i, c) /\ pcs[i].tab = t
             /\ pcs[i].remote \in 1..Len(pcs) /\ pcs[pcs[i].remote].role = "Offer"
             /\ pcs[pcs[i].remote].remote # i
  BY <1>2, <1>3, <1>7, <1>9, OfferFinds
<1>10. tab[t].status # "Connected"
  BY <1>1, <1>9 DEF ShownInv, ShowsTruth, Sorts
<1>11. \A i \in 1..Len(pcs') : Matches(i)'
  <2>1. Matches(n)'
    BY <1>4, <1>5, <1>6 DEF Matches
  <2>2. ASSUME NEW i \in 1..Len(pcs) PROVE Matches(i)'
    BY <1>1, <1>6, <2>2 DEF NamedInv, Matches, Sorts
  <2> QED BY <1>6, <2>1, <2>2
<1>12. Holds(t)' /\ ShowsTruth(t)'
  <2>1. tab'[t].ws = "OPEN" /\ \A d : On(t, d)' => Housed(d)'
    BY <1>2, <1>3 DEF On, Housed
  <2>2. tab'[t].session.has_pc /\ tab'[t].status # "Connected"
    BY <1>10 DEF New
  <2> QED BY <1>6, <2>1, <2>2 DEF Holds, ShowsTruth
<1>13. Fits(t, c)' /\ HasPlace(c)'
  <2>1. Housed(c)' /\ Early(c)' = Early(c) /\ Mate(c)' = Mate(c)
    BY <1>2, <1>3 DEF Housed, Early, Mate
  <2> QED BY <1>2, <1>6, <1>7, <1>8, <2>1 DEF Fits, HasPlace
<1>14. ASSUME NEW i \in 1..Len(pcs), tab[t].pc = i PROVE Stray(i)'
  <2>1. PICK j \in 1..Len(pcs) :
            /\ j = pcs[i].remote /\ pcs[j].role = "Offer" /\ pcs[j].remote # i /\ pcs[i].role = "Answer"
            /\ Lives(i, c) /\ pcs[i].tab = t
    BY <1>9, <1>14
  <2>2. ASSUME NEW e, Lives(j, e)' PROVE Spared(outbox'[e], i)
    <3>1. Lives(j, e)
      BY <1>6, <2>2, MoveFades
    <3>2. e \in Peer /\ On(pcs[j].tab, e) /\ pcs[j].tab \in Tab /\ tab[pcs[j].tab].pc = j
      BY <1>1, <3>1 DEF Sorts
    <3>3. e # c
      <4>1. pcs[j].tab # t
        BY <1>14, <2>1, <3>2
      <4>2. Holders(c) = {t} /\ Holders(e) = {pcs[j].tab}
        BY <1>1, <1>2, <3>2 DEF Sorts
      <4> QED BY <4>1, <4>2
    <3>4. Bond(i, e, Mate(e))
      BY <1>1, <2>1, <3>1 DEF BondInv, Bonded
    <3>5. Has(outbox[e], "PeerLeft")
      <4> SUFFICES ASSUME ~Has(outbox[e], "PeerLeft") PROVE FALSE
        OBVIOUS
      <4>1. PICK d : /\ d = Mate(e)
                     /\ Lives(i, d) /\ ~Has(outbox[d], "Offer")
        BY <2>1, <3>4 DEF Bond
      <4>2. d = c
        BY <2>1, <4>1 DEF Lives, On
      <4> QED BY <1>3, <4>1, <4>2
    <3>6. ASSUME NEW q \in 1..Len(outbox[e]), outbox[e][q].type = "Answer" /\ outbox[e][q].pc = i
          PROVE  ~After(outbox[e], q, "PeerLeft")
      <4>1. Hearing(e, q)
        BY <1>1, <3>2 DEF OwnInv
      <4> QED BY <2>1, <3>6, <4>1 DEF Hearing, Relays
    <3>7. Spared(outbox[e], i)
      BY <3>5, <3>6, Sparing
    <3> QED BY <1>2, <3>2, <3>3, <3>7
  <2>3. pcs'[i] = pcs[i] /\ pcs'[j] = pcs[j]
    BY <1>6
  <2> QED BY <2>1, <2>2, <2>3 DEF Stray
<1>15. ASSUME NEW i \in 1..Len(pcs), NEW k \in 1..Len(pcs'), NEW e, NEW d,
              Lives(i, e)', Mate(e) = d, Bonded(i, k)', k \notin 1..Len(pcs) \/ pcs[k].remote # i
       PROVE  Bond(k, e, d)'
  <2>1. k = n /\ i = o
    BY <1>6, <1>15 DEF Bonded
  <2>2. Lives(o, e)
    BY <1>6, <1>15, <2>1, MoveFades
  <2>3. PICK u \in Tab : u = pcs[o].tab /\ On(u, e) /\ tab[u].pc = o /\ e \in Peer /\ Housed(e)
    BY <1>1, <2>2 DEF Sorts
  <2>4. /\ Mate(c) = e /\ ~After(outbox[c], 1, "PeerLeft") /\ ~After(outbox[c], 1, "Offer")
        /\ ~Has(inbox[e], "Offer")
    BY <1>2, <1>3, <1>4, <2>2 DEF Hearing
  <2>5. Mate(e) = c /\ e # c /\ d = c
    BY <1>15, <2>3, <2>4, Mates, NoPeerIsNone DEF LinkInv
  <2>6. Kind(u) = "Offer"
    BY <1>4, <1>5, <2>3 DEF Kind
  <2>7. ~Has(outbox[e], "Offer") /\ ~Has(inbox[c], "Offer")
    BY <1>2, <2>3, <2>5, <2>6, FirstOffers
  <2>8. ~Has(outbox'[c], "Offer") /\ ~Has(outbox'[c], "PeerLeft")
    BY <1>2, <2>4, Behind
  <2>9. Lives(n, c)'
    <3>1. n \in 1..Len(pcs') /\ Housed(c)' /\ On(t, c)'
      BY <1>2, <1>3, <1>6 DEF Housed
    <3> QED BY <1>6, <3>1 DEF Lives, On
  <2>10. outbox'[e] = outbox[e]
    BY <1>2, <2>3, <2>5
  <2> QED BY <1>2, <1>3, <2>1, <2>4, <2>5, <2>7, <2>8, <2>9, <2>10 DEF Bond
<1>16. \A u \in Tab : \A e, d : ~Offers(t, u, e, d)'
  BY <1>6 DEF Offers
<1>17. ASSUME NEW u \in Tab, NEW e, NEW d, Offers(u, t, e, d)' PROVE Offering(u, t, e, d)'
  <2>1. u \in Tab \ {t} /\ d = c
    BY <1>2, <1>16, <1>17 DEF Offers
  <2>2. PICK i \in 1..Len(pcs) :
            /\ i = tab[u].pc /\ tab'[u] = tab[u] /\ pcs'[i] = pcs[i] /\ On(u, e) /\ Mate(e) = c
            /\ Kind(u) = "Offer" /\ ~Has(outbox[e], "PeerLeft") /\ outbox'[e] = outbox[e] /\ Holds(u)
            /\ e # c /\ e \in Peer
    BY <1>6, <1>17, <2>1, OffersBefore
  <2>3. Offering(u, t, e, c)
    BY <1>2, <2>1, <2>2 DEF LinkInv, HandshakeInv, Offers
  <2>4. CASE Answering(u, t, e, c)
    <3>1. PICK k \in 1..Len(pcs) : k = tab[t].pc /\ pcs[k].remote = i
      BY <1>1, <2>2, <2>4 DEF Answering, Sorts
    <3>2. pcs[i].role = "Offer" /\ pcs[i].tab = u
      BY <2>2 DEF Kind, Holds
    <3>3. Lives(i, e)
      <4>1. Housed(e)
        BY <1>2, <2>2, Mates DEF LinkInv
      <4> QED BY <2>2, <3>2, <4>1 DEF Lives
    <3>4. Bond(k, e, c)
      BY <1>1, <2>2, <3>1, <3>2, <3>3 DEF BondInv, Bonded
    <3>5. t \in Holders(c)
      BY <1>2 DEF Holders, On
    <3> QED BY <1>3, <2>2, <3>4, <3>5 DEF Bond
  <2>5. CASE Sent(outbox[c], i)
    <3>1. CASE i = o
      <4>1. Answering(u, t, e, c)'
        BY <1>5, <1>6, <2>2, <3>1 DEF Answering
      <4> QED BY <2>1, <4>1 DEF Offering
    <3>2. CASE i # o
      <4>1. Sent(outbox'[c], i)
        <5>1. Head(outbox[c]).type \in Relays => Head(outbox[c]).pc # i
          BY <1>4, <3>2
        <5>2. Sent(Tail(outbox[c]), i)
          BY <1>2, <2>5, <5>1, SentOn
        <5> QED BY <1>2, <5>2
      <4> QED BY <2>1, <2>2, <4>1 DEF Offering
    <3> QED BY <3>1, <3>2
  <2>6. CASE ~pcs[i].local \/ Sent(inbox[e], i) \/ tab[t].status = "Error"
    <3>1. tab'[t].status = tab[t].status
      BY DEF New
    <3> QED BY <1>3, <2>2, <2>6, <3>1 DEF Offering
  <2> QED BY <2>2, <2>3, <2>4, <2>5, <2>6 DEF Offering
<1> QED BY <1>2, <1>6, <1>11, <1>12, <1>13, <1>14, <1>15, <1>16, <1>17, MoveKeeps

(* A read after which the page has the peer connections it had: what of    *)
(* them changes is that one takes an answer or is closed.                  *)
LEMMA ReadsMoves ==
  ASSUME MeetInv, LinkInv, NEW t \in Tab, Reads(t), NEW c, c = tab[t].sock,
         Len(pcs') = Len(pcs),
         \A n \in 1..Len(pcs) :
             /\ pcs'[n].tab = pcs[n].tab /\ pcs'[n].role = pcs[n].role /\ pcs'[n].local = pcs[n].local
             /\ pcs[n].closed => pcs'[n].closed
             /\ pcs[n].tab # t => pcs'[n] = pcs[n]
             /\ pcs'[n].remote = pcs[n].remote \/ Takes(t, n),
         \/ tab'[t].pc = tab[t].pc /\ Head(outbox[c]).type # "PeerLeft"
         \/ tab'[t].pc = 0 /\ Head(outbox[c]).type = "PeerLeft"
  PROVE  Move(t)
<1>1. Sorts
  BY SortsHold
<1>2. /\ c \in Peer /\ On(t, c) /\ Others(t) /\ registry' = registry /\ srv' = srv
      /\ \A d : On(t, d)' <=> d = c
      /\ outbox[c] \in Seq(Reply) /\ outbox[c] # <<>> /\ outbox'[c] = Tail(outbox[c])
      /\ \A d \in Peer \ {c} : outbox'[d] = outbox[d] /\ inbox'[d] = inbox[d]
      /\ \A d \in Peer : Thin(inbox'[d], inbox[d])
  BY ReadsBase
<1>3. \A d \in Peer : \A x : In(x, outbox'[d]) => In(x, outbox[d])
  <2>1. \A i \in 1..Len(Tail(outbox[c])) : i + 1 \in 1..Len(outbox[c]) /\ Tail(outbox[c])[i] = outbox[c][i + 1]
    BY <1>2, Parts
  <2>2. \A x : In(x, outbox'[c]) => In(x, outbox[c])
    BY <1>2, <2>1 DEF In
  <2> QED BY <1>2, <2>2
<1>4. \A u \in Tab \ {t} : \A d : On(u, d) => d \in Peer /\ d # c
  <2>1. \A u \in Tab \ {t} : \A d : On(u, d) => d \in Peer /\ Holders(d) = {u}
    BY <1>1 DEF Sorts
  <2>2. Holders(c) = {t}
    BY <1>1, <1>2 DEF Sorts
  <2> QED BY <2>1, <2>2
<1>5. \A u \in Tab \ {t} : \A d : On(u, d) =>
          srv'[d] = srv[d] /\ inbox'[d] = inbox[d] /\ outbox'[d] = outbox[d]
  BY <1>2, <1>4
<1>6. Stays(t, c)
  BY <1>2 DEF Stays
<1>7. Len(pcs) <= Len(pcs') /\ \A n \in 1..Len(pcs') : n \in 1..Len(pcs)
  BY <1>1 DEF Sorts
<1> QED BY <1>2, <1>3, <1>5, <1>6, <1>7 DEF Move

(* The peer is gone. *)
LEMMA ReadsLeft ==
  ASSUME MeetInv, MeetInv', LinkInv, NEW t \in Tab, Reads(t), NEW c, c = tab[t].sock,
         NEW m, m = Head(outbox[c]), m.type = "PeerLeft",
         tab'[t].pc = 0, tab'[t].status = "PeerLeft", Len(pcs') = Len(pcs),
         \A n \in 1..Len(pcs) : Shut(t, n) /\ (tab[t].pc = n => pcs'[n].closed)
  PROVE  LinkInv'
<1>1. Sorts /\ NamedInv
  BY SortsHold DEF LinkInv
<1>2. /\ c \in Peer /\ c # NoPeer /\ On(t, c) /\ registry' = registry /\ srv' = srv
      /\ \A d : On(t, d)' <=> d = c
      /\ outbox[c] \in Seq(Reply) /\ outbox[c] # <<>> /\ srv[c] = "up" /\ outbox'[c] = Tail(outbox[c])
      /\ Flow(Kind(t), outbox[c])
      /\ m.type \in Notices \cup {"Created"} => Housed(c)
  BY ReadsBase
<1>3. Housed(c)
  BY <1>2 DEF Notices
<1>4. Len(pcs') = Len(pcs) /\ \A n \in 1..Len(pcs) : tab[t].pc = n => pcs'[n].closed
  OBVIOUS
<1>5. \A n \in 1..Len(pcs) : pcs[n] \in PcType
  BY PcsKept DEF PcsOK, MeetInv, Types, Built
<1>6. \A n \in 1..Len(pcs) :
          /\ pcs'[n].tab = pcs[n].tab /\ pcs'[n].role = pcs[n].role /\ pcs'[n].local = pcs[n].local
          /\ pcs'[n].remote = pcs[n].remote /\ pcs'[n].opened = pcs[n].opened
          /\ pcs[n].closed => pcs'[n].closed
          /\ pcs[n].tab # t => pcs'[n] = pcs[n]
  BY <1>5, ZenonT(60) DEF Shut, PcType
<1>7. Move(t)
  BY <1>4, <1>6, ReadsMoves
<1>8. \A n \in 1..Len(pcs') : Matches(n)'
  BY <1>1, <1>4, <1>6 DEF NamedInv, Matches, Sorts
<1>9. ShowsTruth(t)' /\ Kind(t)' = "None"
  BY DEF ShowsTruth, Kind
<1>10. Flow("None", Tail(outbox[c]))
  BY <1>2, FlowTaken
<1>11. Early(c) /\ Seat("None", tab'[t].status, Tail(outbox[c]), Early(c), Mate(c) = NoPeer)
  BY <1>3, ReadsSeat
<1>12. Fits(t, c)' /\ HasPlace(c)'
  <2>1. Housed(c)' /\ Early(c)' = Early(c) /\ Mate(c)' = Mate(c)
    BY <1>2, <1>3 DEF Housed, Early, Mate
  <2> QED BY <1>2, <1>9, <1>10, <1>11, <2>1 DEF Fits, HasPlace
<1>13. \A u \in Tab : \A e, d : ~Offers(t, u, e, d)'
  BY <1>9 DEF Offers
<1>14. ASSUME NEW u \in Tab, NEW e, NEW d, Offers(u, t, e, d)' PROVE FALSE
  <2>1. u \in Tab \ {t} /\ d = c
    BY <1>2, <1>13, <1>14 DEF Offers
  <2>2. On(u, e) /\ Mate(e) = c /\ Kind(u) = "Offer"
    BY <1>7, <1>14, <2>1, OffersBefore
  <2> QED BY <1>2, <1>11, <2>2, FirstOffers
<1>15. \A i \in 1..Len(pcs), k \in 1..Len(pcs') : Bonded(i, k)' => k \in 1..Len(pcs) /\ pcs[k].remote = i
  BY <1>4, <1>6 DEF Bonded
<1> QED BY <1>2, <1>4, <1>7, <1>8, <1>9, <1>12, <1>13, <1>14, <1>15, MoveKeeps

(* Peer connection n, of the page of t, waits for an answer. *)
Waits(t, n) == tab[t].pc = n /\ pcs[n].role = "Offer" /\ pcs[n].local /\ pcs[n].remote = 0

(* It gets that of peer connection a; the others stay as they are. *)
Answered(t, a) ==
    \A n \in 1..Len(pcs) :
        /\ pcs'[n].tab = pcs[n].tab /\ pcs'[n].role = pcs[n].role /\ pcs'[n].local = pcs[n].local
        /\ pcs'[n].opened = pcs[n].opened /\ pcs'[n].closed = pcs[n].closed
        /\ Waits(t, n) => pcs'[n].remote = a
        /\ ~Waits(t, n) => pcs'[n] = pcs[n]

(* An answer, which the peer connection of the page takes if it waits for  *)
(* one: it is then bound to the one that answered, if that still lives.    *)
LEMMA ReadsAnswered ==
  ASSUME MeetInv, MeetInv', LinkInv, NEW t \in Tab, Reads(t), NEW c, c = tab[t].sock,
         NEW m, m = Head(outbox[c]), m.type = "Answer",
         tab'[t].pc = tab[t].pc, tab'[t].transfer = tab[t].transfer,
         tab'[t].session = tab[t].session, tab'[t].status = tab[t].status,
         NEW a \in 1..Len(pcs), a = m.pc, Len(pcs') = Len(pcs),
         Answered(t, a)
  PROVE  LinkInv'
<1> DEFINE took(n) == tab[t].pc = n /\ pcs[n].role = "Offer" /\ pcs[n].local /\ pcs[n].remote = 0
<1>1. Sorts /\ ShownInv /\ NamedInv /\ BondInv
  BY SortsHold DEF LinkInv
<1>2. /\ c \in Peer /\ c # NoPeer /\ On(t, c) /\ Others(t) /\ registry' = registry /\ srv' = srv
      /\ \A d : On(t, d)' <=> d = c
      /\ outbox[c] \in Seq(Reply) /\ outbox[c] # <<>> /\ srv[c] = "up" /\ outbox'[c] = Tail(outbox[c])
      /\ \A d \in Peer \ {c} : outbox'[d] = outbox[d] /\ inbox'[d] = inbox[d]
      /\ m.type # "RoomNotFound" => inbox' = inbox
      /\ 1 \in 1..Len(outbox[c]) /\ outbox[c][1] = m /\ Names(m) /\ Hearing(c, 1)
      /\ Flow(Kind(t), outbox[c])
      /\ m.type \in Notices \cup {"Created"} => Housed(c)
  BY ReadsBase
<1>3. Housed(c) /\ inbox' = inbox /\ m.type \in Relays
  BY <1>2 DEF Notices, Relays
<1>4. a # 0 /\ pcs[a].local /\ pcs[a].role = "Answer"
  <2>1. a # 0
    BY <1>1 DEF Sorts
  <2>2. Names(m) /\ m.type \in Relays
    BY <1>2, <1>3
  <2> QED BY <2>1, <2>2 DEF Names
<1>6. \A n \in 1..Len(pcs) :
          /\ pcs'[n].tab = pcs[n].tab /\ pcs'[n].role = pcs[n].role /\ pcs'[n].local = pcs[n].local
          /\ pcs'[n].opened = pcs[n].opened /\ pcs'[n].closed = pcs[n].closed
          /\ took(n) => pcs'[n].remote = a
          /\ ~took(n) => pcs'[n] = pcs[n]
  BY DEF Waits, Answered
<1>7. \A n \in 1..Len(pcs) : tab[t].pc = n => pcs[n].tab = t
  BY <1>1 DEF ShownInv, Holds, Sorts
<1>8. Move(t)
  <2>1. \A n \in 1..Len(pcs) : took(n) => Takes(t, n)
    <3> SUFFICES ASSUME NEW n \in 1..Len(pcs), took(n) PROVE Takes(t, n)
      OBVIOUS
    <3>1. On(t, c) /\ On(t, c)' /\ outbox[c] # <<>> /\ Head(outbox[c]).type = "Answer" /\ c \in Peer
      BY <1>2
    <3>2. pcs'[n].remote = Head(outbox[c]).pc
      BY <1>6
    <3> QED BY <3>1, <3>2 DEF Takes
  <2> QED BY <1>6, <1>7, <2>1, ReadsMoves
<1>9. ASSUME NEW n \in 1..Len(pcs) PROVE Matches(n)'
  <2>1. CASE took(n)
    <3>1. Matches(n) /\ pcs'[n].remote = a /\ ~pcs'[n].opened /\ pcs'[n].role = "Offer"
      BY <1>1, <1>6, <2>1 DEF NamedInv, Matches
    <3>2. pcs'[a].local /\ pcs'[a].role = "Answer"
      BY <1>4, <1>6
    <3> QED BY <1>4, <3>1, <3>2 DEF Matches
  <2>2. CASE ~took(n)
    <3>1. Matches(n) /\ pcs'[n] = pcs[n]
      BY <1>1, <1>6, <2>2 DEF NamedInv
    <3>2. pcs[n].remote # 0 => pcs[n].remote \in 1..Len(pcs)
      BY <1>1 DEF Sorts
    <3>3. ASSUME NEW k \in 1..Len(pcs), k = pcs[n].remote
          PROVE  /\ pcs'[k].local = pcs[k].local /\ pcs'[k].role = pcs[k].role
                 /\ pcs[n].opened => pcs'[k].remote = n
      <4>1. pcs[n].opened => pcs[k].remote = n /\ n # 0
        BY <1>1, <3>1, <3>3 DEF Matches, Sorts
      <4> QED BY <1>6, <4>1
    <3> QED BY <3>1, <3>2, <3>3 DEF Matches
  <2> QED BY <2>1, <2>2
<1>10. (tab'[t].pc # 0 => Holds(t)') /\ ShowsTruth(t)'
  <2>1. ASSUME NEW n \in 1..Len(pcs), n = tab[t].pc PROVE Holds(t)' /\ ShowsTruth(t)'
    <3>0. n # 0
      BY <1>1, <2>1 DEF Sorts
    <3>9. tab'[t].ws = "OPEN"
      BY <1>2 DEF On
    <3>1. Holds(t) /\ tab'[t].ws = "OPEN" /\ ShowsTruth(t) /\ n # 0
      BY <1>1, <2>1, <3>0, <3>9 DEF ShownInv
    <3>2. \A d : On(t, d)' /\ srv'[d] = "up" => Housed(d)'
      BY <1>2, <1>3 DEF Housed
    <3>3. Holds(t)'
      BY <1>6, <2>1, <3>1, <3>2 DEF Holds
    <3>4. ShowsTruth(t)'
      BY <1>6, <2>1, <3>1 DEF ShowsTruth
    <3> QED BY <3>3, <3>4
  <2>2. tab[t].pc = 0 => ShowsTruth(t)'
    BY <1>1 DEF ShownInv, ShowsTruth
  <2>3. tab[t].pc # 0 => tab[t].pc \in 1..Len(pcs)
    BY <1>1 DEF Sorts
  <2> QED BY <2>1, <2>2, <2>3
<1>11. Kind(t)' = Kind(t)
  BY <1>1, <1>6 DEF Kind, Sorts
<1>12. Fits(t, c)' /\ HasPlace(c)'
  <2>1. Housed(c)' /\ Early(c)' = Early(c) /\ Mate(c)' = Mate(c)
    BY <1>2, <1>3 DEF Housed, Early, Mate
  <2>2. Flow(Kind(t), Tail(outbox[c]))
    BY <1>2, FlowTaken
  <2>3. Seat(Kind(t), tab[t].status, Tail(outbox[c]), Early(c), Mate(c) = NoPeer)
    BY <1>3, ReadsSeat
  <2> QED BY <1>2, <1>11, <2>1, <2>2, <2>3 DEF Fits, HasPlace
<1>13. ASSUME NEW i \in 1..Len(pcs), NEW k \in 1..Len(pcs), NEW e, NEW d,
              Lives(i, e)', Mate(e) = d, Bonded(i, k)', pcs[k].remote # i
       PROVE  Bond(k, e, d)'
  <2>1. took(k) /\ i = a
    BY <1>6, <1>13 DEF Bonded
  <2>2. i # k /\ ~took(i) /\ pcs[i].remote = k
    <3>1. pcs'[i].role = "Answer" /\ ~took(i)
      BY <1>4, <1>6, <2>1
    <3> QED BY <1>6, <1>13, <2>1, <3>1 DEF Bonded
  <2>3. Lives(i, e) /\ e \in Peer /\ Housed(e)
    BY <1>1, <1>8, <1>13, MoveFades DEF Sorts
  <2>4. Mate(c) = e /\ ~After(outbox[c], 1, "PeerLeft")
    <3>1. Hearing(c, 1) /\ outbox[c][1].type \in Relays /\ outbox[c][1].pc = i
      BY <1>2, <1>3, <2>1
    <3> QED BY <2>3, <3>1 DEF Hearing
  <2>5. d = c /\ e # c /\ e # NoPeer
    BY <1>13, <2>3, <2>4, Mates, NoPeerIsNone DEF LinkInv
  <2>6. Lives(k, c)
    BY <1>2, <1>3, <1>7, <2>1 DEF Lives
  <2>7. Bond(i, c, e)
    BY <1>1, <2>1, <2>2, <2>4, <2>6 DEF BondInv, Bonded
  <2>8. ~Has(outbox'[c], "PeerLeft") /\ ~Has(outbox[c], "PeerLeft")
    <3>1. ~Has(Tail(outbox[c]), "PeerLeft")
      BY <1>2, <2>4, Behind
    <3> QED BY <1>2, <3>1, Taken
  <2>9. /\ ~Has(inbox[c], "Offer") /\ ~Has(inbox[e], "Offer")
        /\ ~Has(outbox[e], "Offer") /\ ~Has(outbox[c], "Offer")
    BY <2>3, <2>7, <2>8 DEF Bond
  <2>10. ~Has(outbox'[c], "Offer") /\ outbox'[e] = outbox[e]
    BY <1>2, <2>3, <2>5, <2>9, Taken
  <2>11. Lives(k, c)'
    <3>1. Housed(c)' /\ On(t, c)'
      BY <1>2, <1>3 DEF Housed
    <3>2. k \in 1..Len(pcs') /\ pcs'[k].tab = t /\ tab'[t].pc = k
      BY <1>6, <1>7, <2>1
    <3> QED BY <3>1, <3>2 DEF Lives, On
  <2> QED BY <1>2, <1>3, <2>5, <2>8, <2>9, <2>10, <2>11 DEF Bond
<1>14. ASSUME NEW u \in Tab, NEW e, NEW d, Offers(t, u, e, d)' PROVE Offering(t, u, e, d)'
  <2>1. e = c /\ Kind(t) = "Offer" /\ Mate(c) = d /\ ~Has(outbox'[c], "PeerLeft") /\ On(u, d)'
    BY <1>2, <1>8, <1>11, <1>14, MoveFades DEF Offers
  <2>2. PICK n \in 1..Len(pcs) : n = tab[t].pc /\ pcs[n].role = "Offer"
    BY <1>1, <2>1 DEF Kind, Sorts
  <2>3. d # NoPeer /\ d # c /\ d \in Peer
    <3>1. (MeetInv => Sorts)'
      BY SortsHold, PTL
    <3>2. d \in Peer
      BY <2>1, <3>1 DEF Sorts
    <3> QED BY <2>1, <3>2, Mates, NoPeerIsNone DEF LinkInv
  <2>4. u # t
    BY <1>2, <2>1, <2>3
  <2>5. On(u, d) /\ tab'[u] = tab[u]
    BY <1>2, <1>8, <2>1, <2>4, MoveFades DEF Others
  <2>6. ~Has(outbox[c], "PeerLeft")
    BY <1>2, <2>1, Taken
  <2>7. Offering(t, u, c, d)
    BY <1>2, <2>1, <2>5, <2>6 DEF LinkInv, HandshakeInv, Offers
  <2>8. outbox'[d] = outbox[d] /\ tab'[t].pc = n /\ pcs'[n].local = pcs[n].local
    BY <1>2, <1>6, <2>2, <2>3
  <2>9. CASE Answering(t, u, c, d)
    <3>1. PICK k \in 1..Len(pcs) : /\ k = tab[u].pc /\ k # 0 /\ pcs[k].remote = n
                                   /\ \/ ~pcs[k].local \/ Sent(inbox[d], k) \/ Sent(outbox[c], k)
                                      \/ pcs[n].remote # 0
      BY <1>1, <2>2, <2>9 DEF Answering, Sorts
    <3>2. pcs'[k] = pcs[k]
      <4>1. n # 0
        BY <1>1, <2>2 DEF Sorts
      <4> QED BY <1>6, <3>1, <4>1
    <3>3. pcs[n].remote # 0 => pcs'[n].remote # 0
      BY <1>6
    <3>4. CASE Sent(outbox[c], k) /\ k # a
      <4>1. Sent(outbox'[c], k)
        <5>1. Sent(Tail(outbox[c]), k)
          BY <1>2, <3>4, SentOn
        <5> QED BY <1>2, <5>1
      <4> QED BY <2>1, <2>5, <2>8, <3>1, <3>2, <4>1 DEF Offering, Answering
    <3>5. CASE Sent(outbox[c], k) /\ k = a
      <4>1. ~pcs'[n].local \/ pcs'[n].remote # 0
        BY <1>4, <1>6, <2>2
      <4> QED BY <2>1, <2>5, <2>8, <3>1, <3>2, <4>1 DEF Offering, Answering
    <3> QED BY <1>3, <2>1, <2>5, <2>8, <3>1, <3>2, <3>3, <3>4, <3>5 DEF Offering, Answering
  <2> QED BY <1>3, <2>1, <2>2, <2>5, <2>7, <2>8, <2>9 DEF Offering
<1>15. ASSUME NEW u \in Tab \ {t}, NEW e, NEW d, Offers(u, t, e, d)' PROVE Offering(u, t, e, d)'
  <2>1. d = c
    BY <1>2, <1>15 DEF Offers
  <2>2. PICK n \in 1..Len(pcs) :
            /\ n = tab[u].pc /\ tab'[u] = tab[u] /\ pcs'[n] = pcs[n] /\ On(u, e) /\ Mate(e) = c
            /\ Kind(u) = "Offer" /\ ~Has(outbox[e], "PeerLeft") /\ outbox'[e] = outbox[e]
    BY <1>8, <1>15, <2>1, OffersBefore
  <2>3. Offering(u, t, e, c)
    BY <1>2, <2>1, <2>2 DEF LinkInv, HandshakeInv, Offers
  <2>4. pcs[n].role = "Offer" /\ n # 0
    BY <1>1, <2>2 DEF Kind, Sorts
  <2>5. Sent(outbox[c], n) => Sent(outbox'[c], n)
    <3>1. Head(outbox[c]).pc # n
      BY <1>4, <2>4
    <3>2. Sent(outbox[c], n) => Sent(Tail(outbox[c]), n)
      BY <1>2, <3>1, SentOn
    <3> QED BY <1>2, <3>2
  <2>6. Answering(u, t, e, c) => Answering(u, t, e, c)'
    <3> SUFFICES ASSUME Answering(u, t, e, c) PROVE Answering(u, t, e, c)'
      OBVIOUS
    <3>1. PICK k \in 1..Len(pcs) : k = tab[t].pc /\ k # 0 /\ pcs[k].remote = n
      BY <1>1, <2>2 DEF Answering, Sorts
    <3>2. pcs'[k] = pcs[k]
      BY <1>6, <2>4, <3>1
    <3> QED BY <1>3, <2>2, <3>1, <3>2 DEF Answering
  <2> QED BY <1>3, <2>1, <2>2, <2>3, <2>5, <2>6 DEF Offering
<1>16. \A u \in Tab : \A e, d : Offers(u, t, e, d)' => Offering(u, t, e, d)'
  BY <1>14, <1>15
<1> QED BY <1>2, <1>8, <1>9, <1>10, <1>12, <1>13, <1>14, <1>16, MoveKeeps

(* A page reads the next reply. *)
LEMMA ReadsLinks ==
  ASSUME MeetInv, MeetInv', LinkInv, NEW t \in Tab, Delivers(t) \/ BuildFails(t)
  PROVE  LinkInv'
<1>1. Types /\ Built /\ SockInv /\ Sorts /\ ShownInv
  BY SortsHold DEF MeetInv, LinkInv
<1>2. Reads(t)
  BY <1>1, ReadsPage
<1>3. PICK c : c = tab[t].sock
  OBVIOUS
<1>4. PICK m : m = Head(outbox[c])
  OBVIOUS
<1>5. m.type \in {"Created"} \cup Refusals \cup Notices /\ Names(m) /\ outbox[c] \in Seq(Reply) /\ outbox[c] # <<>>
  BY <1>2, <1>3, <1>4, ReadsBase
<1>6. CASE m.type \in {"Created"} \cup Refusals
  BY <1>2, <1>3, <1>4, <1>6, ReadsReply
<1>7. CASE m.type = "PeerJoined"
  <2>1. (New(t, "Offer", 0) /\ tab'[t].transfer = Len(pcs) + 1) \/ Fails(t)
    BY <1>1, <1>3, <1>4, <1>7, ReadsMore
  <2>2. CASE Fails(t)
    BY <1>2, <1>3, <1>4, <1>7, <2>2, ReadsFails
  <2>3. CASE New(t, "Offer", 0) /\ tab'[t].transfer = Len(pcs) + 1
    BY <1>2, <1>3, <1>4, <1>7, <2>3, ReadsJoined
  <2> QED BY <2>1, <2>2, <2>3
<1>8. CASE m.type = "Offer"
  <2>1. New(t, "Answer", m.pc) \/ Fails(t)
    BY <1>1, <1>3, <1>4, <1>8, ReadsMore
  <2>2. CASE Fails(t)
    BY <1>2, <1>3, <1>4, <1>8, <2>2, ReadsFails
  <2>3. CASE New(t, "Answer", m.pc)
    BY <1>2, <1>3, <1>4, <1>8, <2>3, ReadsOffered
  <2> QED BY <2>1, <2>2, <2>3
<1>9. CASE m.type = "PeerLeft"
  <2>1. tab'[t].pc = 0 /\ pcs' = Close({tab[t].pc}) /\ tab'[t].status = "PeerLeft"
    BY <1>1, <1>3, <1>4, <1>9, ReadsMore
  <2>2. /\ Len(pcs') = Len(pcs) /\ \A n \in 1..Len(pcs) : Shut(t, n)
        /\ \A n \in 1..Len(pcs) : tab[t].pc = n => pcs'[n].closed
    BY <2>1, Closings
  <2>3. \A n \in 1..Len(pcs) : Shut(t, n) /\ (tab[t].pc = n => pcs'[n].closed)
    BY <2>2
  <2> QED BY <1>2, <1>3, <1>4, <1>9, <2>1, <2>2, <2>3, ReadsLeft
<1>10. CASE m.type = "Answer"
  <2>1. /\ tab'[t].pc = tab[t].pc /\ tab'[t].transfer = tab[t].transfer
        /\ tab'[t].session = tab[t].session /\ tab'[t].status = tab[t].status
        /\ pcs' = IF tab[t].session.has_pc THEN SetRemote(tab[t].pc, m) ELSE pcs
    BY <1>1, <1>3, <1>4, <1>10, ReadsMore
  <2>2. PICK a \in 1..Len(pcs) : a = m.pc
    BY <1>5, <1>10 DEF Names, Relays
  <2>3. m \in Reply /\ PcsOK /\ tab[t].pc \in 0..Len(pcs) /\ Len(pcs) \in Nat
    BY <1>1, <1>4, <1>5, Parts DEF PcsOK, Types, Built, Sorts
  <2>4. tab[t].pc # 0 => tab[t].session.has_pc
    BY <1>1 DEF ShownInv, Holds
  <2>5. pcs' = SetRemote(tab[t].pc, m)
    BY <2>1, <2>4 DEF SetRemote
  <2>6. Len(pcs') = Len(pcs)
    <3>1. a <= Len(pcs)
      BY <2>2, <2>3
    <3> QED BY <2>2, <2>3, <2>5, <3>1, PcsAnswered
  <2>7. ASSUME NEW n \in 1..Len(pcs)
        PROVE  /\ pcs'[n].tab = pcs[n].tab /\ pcs'[n].role = pcs[n].role /\ pcs'[n].local = pcs[n].local
               /\ pcs'[n].opened = pcs[n].opened /\ pcs'[n].closed = pcs[n].closed
               /\ Waits(t, n) => pcs'[n].remote = a
               /\ ~Waits(t, n) => pcs'[n] = pcs[n]
    <3>1. pcs[n] \in PcType /\ n # 0
      BY <2>3, PcsKept
    <3>2. pcs = [j \in 1..Len(pcs) |-> pcs[j]]
      BY <2>3 DEF PcsOK
    <3>3. CASE Waits(t, n)
      <4>1. pcs' = [pcs EXCEPT ![n].remote = a]
        BY <2>2, <2>5, <3>1, <3>3 DEF SetRemote, Waits
      <4>2. pcs'[n] = [pcs[n] EXCEPT !.remote = a]
        BY <3>2, <4>1
      <4> QED BY <3>1, <3>3, <4>2 DEF PcType
    <3>4. CASE ~Waits(t, n)
      <4>1. pcs' = pcs \/ (tab[t].pc # n /\ pcs' = [pcs EXCEPT ![tab[t].pc].remote = m.pc])
        BY <2>5, <3>4 DEF SetRemote, Waits
      <4>2. pcs'[n] = pcs[n]
        BY <3>2, <4>1
      <4> QED BY <3>4, <4>2
    <3> QED BY <3>3, <3>4
  <2>8. Answered(t, a)
    BY <2>7 DEF Answered
  <2> QED BY <1>2, <1>3, <1>4, <1>10, <2>1, <2>2, <2>6, <2>8, ReadsAnswered
<1> QED BY <1>5, <1>6, <1>7, <1>8, <1>9, <1>10 DEF Notices, Relays

(* A control channel opens: on the peer connection that the page holds, as *)
(* the answer of one that was replaced is not taken.                       *)
LEMMA CtrlOpensLinks ==
  ASSUME MeetInv, MeetInv', LinkInv, NEW i \in 1..Len(pcs), CtrlOpens(i)
  PROVE  LinkInv'
<1>1. Sorts /\ NamedInv /\ ShownInv /\ StreamInv /\ StrayInv /\ BondInv /\ Types
  BY SortsHold DEF LinkInv, MeetInv
<1>2. PICK t \in Tab : t = pcs[i].tab
  BY <1>1 DEF Sorts
<1>3. PICK j \in 1..Len(pcs) : j = pcs[i].remote /\ j # 0 /\ pcs[j].remote = i
  <2>1. Linked(i)
    BY DEF CtrlOpens
  <2> QED BY <1>1, <2>1 DEF Linked, Sorts
<1>4. i # 0 /\ ~pcs[i].closed
  BY <1>1 DEF CtrlOpens, Linked, Sorts
<1>5. tab[t].pc = i
  BY <1>1, <1>2, <1>3, <1>4 DEF StrayInv, Stray
<1>6. Holds(t)
  BY <1>1, <1>4, <1>5 DEF ShownInv
<1>7. PcsOK /\ pcs[i] \in PcType /\ tab[t] \in PageType /\ pcs = [n \in 1..Len(pcs) |-> pcs[n]]
  BY <1>1, PcsKept DEF PcsOK, Types, MeetInv, Built
<1>8. /\ pcs' = [pcs EXCEPT ![i].opened = TRUE] /\ Len(pcs') = Len(pcs)
      /\ tab' = [tab EXCEPT ![t].status = "Connected",
                            ![t].transfer = IF pcs[i].role = "Answer" THEN i ELSE @]
      /\ registry' = registry /\ srv' = srv /\ inbox' = inbox /\ outbox' = outbox
  BY <1>2, <1>7, PcsKept DEF CtrlOpens
<1>9. /\ Others(t) /\ tab'[t].ws = tab[t].ws /\ tab'[t].sock = tab[t].sock /\ tab'[t].pc = i
      /\ tab'[t].session = tab[t].session /\ tab'[t].status = "Connected"
      /\ tab'[t].transfer = IF pcs[i].role = "Answer" THEN i ELSE tab[t].transfer
  BY <1>1, <1>5, <1>7, <1>8 DEF Others, PageType, Types
<1>10. /\ pcs'[i].tab = t /\ pcs'[i].role = pcs[i].role /\ pcs'[i].remote = j
       /\ pcs'[i].local = pcs[i].local /\ ~pcs'[i].closed /\ pcs'[i].opened
       /\ pcs'[i].closed = pcs[i].closed
       /\ \A n \in 1..Len(pcs) : n # i => pcs'[n] = pcs[n]
  BY <1>2, <1>3, <1>4, <1>7, <1>8 DEF PcType
<1>11. \A n \in 1..Len(pcs) :
           /\ pcs'[n].tab = pcs[n].tab /\ pcs'[n].role = pcs[n].role /\ pcs'[n].remote = pcs[n].remote
           /\ pcs'[n].local = pcs[n].local /\ pcs'[n].closed = pcs[n].closed
  BY <1>2, <1>3, <1>4, <1>10
<1>12. \A c : On(t, c)' <=> On(t, c)
  BY <1>9 DEF On
<1>13. Move(t)
  <2>1. Len(pcs) <= Len(pcs')
    BY <1>1, <1>8 DEF Sorts
  <2>2. \A c : On(t, c)' => Stays(t, c)
    BY <1>5, <1>8, <1>9, <1>12 DEF Stays
  <2>3. \A d \in Peer : Thin(inbox'[d], inbox[d])
    BY <1>8 DEF Thin
  <2>4. \A n \in 1..Len(pcs) : pcs[n].tab # t => pcs'[n] = pcs[n]
    BY <1>2, <1>10
  <2> QED BY <1>8, <1>9, <1>11, <2>1, <2>2, <2>3, <2>4 DEF Move
<1>14. ASSUME NEW n \in 1..Len(pcs) PROVE Matches(n)'
  <2>1. Matches(n) /\ pcs'[n].remote = pcs[n].remote /\ pcs'[n].role = pcs[n].role
    BY <1>1, <1>11 DEF NamedInv
  <2>2. pcs[n].remote # 0 => pcs[n].remote \in 1..Len(pcs)
    BY <1>1 DEF Sorts
  <2>3. ASSUME NEW k \in 1..Len(pcs), k = pcs[n].remote
        PROVE  /\ pcs'[k].local = pcs[k].local /\ pcs'[k].role = pcs[k].role
               /\ pcs'[n].opened => pcs'[k].remote = n
    <3>1. CASE n = i
      BY <1>3, <1>11, <2>3, <3>1
    <3>2. CASE n # i
      <4>1. pcs'[n].opened => pcs[k].remote = n
        BY <1>10, <2>1, <2>3, <3>2 DEF Matches
      <4> QED BY <1>11, <4>1
    <3> QED BY <3>1, <3>2
  <2>4. pcs'[n].opened => pcs[n].remote # 0
    BY <1>3, <1>10, <2>1 DEF Matches
  <2> QED BY <2>1, <2>2, <2>3, <2>4 DEF Matches
<1>15. Kind(t)' = Kind(t) /\ Kind(t) # "None"
  BY <1>1, <1>4, <1>5, <1>9, <1>10 DEF Kind, Sorts
<1>16. Holds(t)' /\ ShowsTruth(t)'
  <2>1. \A c : On(t, c)' /\ srv'[c] = "up" => Housed(c)'
    BY <1>6, <1>8, <1>12 DEF Holds, Housed
  <2>2. tab'[t].transfer = i
    BY <1>1, <1>5, <1>6, <1>9 DEF Holds, Sorts
  <2>3. Holds(t)'
    BY <1>6, <1>9, <1>10, <2>1, <2>2 DEF Holds
  <2> QED BY <1>4, <1>9, <1>10, <2>3 DEF ShowsTruth
<1>17. ASSUME NEW c, On(t, c) PROVE Fits(t, c)' /\ (srv'[c] = "up" => HasPlace(c)')
  <2>1. Fits(t, c) /\ (srv[c] = "up" => Housed(c))
    BY <1>1, <1>6, <1>17 DEF StreamInv, Holds
  <2>2. (Housed(c)' <=> Housed(c)) /\ Early(c)' = Early(c) /\ Mate(c)' = Mate(c)
    BY <1>8 DEF Housed, Early, Mate
  <2>3. Housed(c) => Seat(Kind(t), "Connected", outbox[c], Early(c), Mate(c) = NoPeer)
    BY <1>15, <2>1, SeatShown DEF Fits
  <2> QED BY <1>8, <1>9, <1>15, <2>1, <2>2, <2>3 DEF Fits, HasPlace
<1>18. ASSUME NEW u \in Tab, NEW c, NEW d, Offers(t, u, c, d)' PROVE Offering(t, u, c, d)'
  <2>1. On(t, c) /\ Kind(t) = "Offer" /\ Mate(c) = d /\ ~Has(outbox[c], "PeerLeft") /\ On(u, d)'
    BY <1>8, <1>12, <1>15, <1>18 DEF Offers, Mate
  <2>2. On(u, d) /\ d \in Peer
    <3>1. On(u, d)
      BY <1>9, <2>1 DEF On, Others
    <3> QED BY <1>1, <3>1 DEF Sorts
  <2>3. u # t /\ tab'[u] = tab[u]
    <3>1. d # NoPeer /\ c # d
      BY <2>1, <2>2, Mates, NoPeerIsNone DEF LinkInv
    <3>2. u # t
      BY <2>1, <2>2, <3>1 DEF On
    <3> QED BY <1>9, <3>2 DEF Others
  <2>4. Offering(t, u, c, d)
    BY <2>1, <2>2 DEF LinkInv, HandshakeInv, Offers
  <2>5. Answering(t, u, c, d) => Answering(t, u, c, d)'
    <3> SUFFICES ASSUME Answering(t, u, c, d) PROVE Answering(t, u, c, d)'
      OBVIOUS
    <3>1. PICK k \in 1..Len(pcs) : k = tab[u].pc /\ k # 0 /\ pcs[k].remote = i
      BY <1>1, <1>5 DEF Answering, Sorts
    <3> QED BY <1>5, <1>8, <1>9, <1>11, <2>3, <3>1 DEF Answering
  <2> QED BY <1>5, <1>8, <1>9, <1>11, <2>3, <2>4, <2>5 DEF Offering
<1>19. ASSUME NEW u \in Tab \ {t}, NEW c, NEW d, Offers(u, t, c, d)' PROVE Offering(u, t, c, d)'
  <2>1. PICK n \in 1..Len(pcs) :
            /\ n = tab[u].pc /\ tab'[u] = tab[u] /\ On(u, c) /\ Mate(c) = d
            /\ Kind(u) = "Offer" /\ ~Has(outbox[c], "PeerLeft") /\ d # NoPeer
    BY <1>13, <1>19, OffersBefore
  <2>2. On(t, d) /\ On(u, c)
    BY <1>12, <1>19, <2>1 DEF Offers
  <2>3. ~Early(d) /\ Mate(d) = c /\ Housed(d)
    BY <2>1, FirstOffers, Mates DEF LinkInv
  <2>4. ~Has(outbox[d], "PeerLeft")
    BY <1>1, <2>2, <2>3 DEF StreamInv, Fits, Seat
  <2>5. Lives(i, d) /\ Bonded(i, j)
    BY <1>2, <1>3, <1>5, <2>2, <2>3 DEF Lives, Bonded
  <2>6. Bond(j, d, c)
    BY <1>1, <2>3, <2>5 DEF BondInv
  <2>7. Lives(j, c)
    BY <2>2, <2>4, <2>6 DEF Bond, Holders, On
  <2>8. pcs[j].tab = u
    <3>1. Holders(c) = {u} /\ Holders(c) = {pcs[j].tab}
      BY <1>1, <2>2, <2>7 DEF Sorts
    <3> QED BY <3>1
  <2>9. n = j
    BY <1>1, <2>1, <2>7, <2>8 DEF Sorts
  <2> QED BY <1>3, <1>4, <1>9, <1>11, <2>1, <2>9 DEF Offering, Answering
<1>20. \A u \in Tab : \A c, d : Offers(u, t, c, d)' => Offering(u, t, c, d)'
  BY <1>18, <1>19
<1> QED BY <1>5, <1>8, <1>9, <1>11, <1>12, <1>13, <1>14, <1>16, <1>17, <1>18, <1>20, MoveKeeps DEF Bonded

(* A description is made, which nobody has yet; it is sent if the page is  *)
(* on a socket.  One that offers is that of its page, which has its place. *)
LEMMA DescribesBase ==
  ASSUME MeetInv, LinkInv, NEW i \in 1..Len(pcs), Describes(i), NEW t, t = pcs[i].tab
  PROVE  /\ t \in Tab /\ i # 0 /\ ~pcs[i].local /\ Len(pcs') = Len(pcs) /\ pcs'[i].local
         /\ tab' = tab /\ registry' = registry /\ srv' = srv /\ outbox' = outbox
         /\ \A n \in 1..Len(pcs) :
               /\ pcs'[n].tab = pcs[n].tab /\ pcs'[n].role = pcs[n].role /\ pcs'[n].remote = pcs[n].remote
               /\ pcs'[n].closed = pcs[n].closed /\ pcs'[n].opened = pcs[n].opened
               /\ n # i => pcs'[n] = pcs[n]
         /\ \A n \in 1..Len(pcs) : pcs[n].remote # i
         /\ \A c \in Peer : \A m : (In(m, inbox[c]) \/ In(m, outbox[c])) /\ m.type \in Relays => m.pc # i
         /\ \A c \in Peer : IF On(t, c) /\ srv[c] = "up"
               THEN inbox'[c] = Append(inbox[c], Msg(pcs[i].role, NoRoom, i)) ELSE inbox'[c] = inbox[c]
         /\ Msg(pcs[i].role, NoRoom, i) \in Request
         /\ pcs[i].role = "Offer" => /\ tab[t].pc = i
                                     /\ \A c : On(t, c) /\ srv[c] = "up" => Housed(c) /\ Early(c) /\ Lives(i, c)
<1> DEFINE x == Msg(pcs[i].role, NoRoom, i)
<1>1. Sorts /\ NamedInv /\ ShownInv /\ StreamInv /\ StrayInv /\ Types
  BY SortsHold DEF LinkInv, MeetInv
<1>2. t \in Tab /\ i \in Nat /\ i # 0 /\ pcs[i].role \in {"Offer", "Answer"}
  BY <1>1 DEF Sorts
<1>3. ~pcs[i].local /\ ~pcs[i].closed
  BY DEF Describes
<1>4. PcsOK /\ pcs[i] \in PcType /\ pcs = [n \in 1..Len(pcs) |-> pcs[n]]
  BY <1>1, PcsKept DEF PcsOK, Types, MeetInv, Built
<1>5. /\ pcs' = [pcs EXCEPT ![i].local = TRUE] /\ Len(pcs') = Len(pcs)
      /\ tab' = tab /\ registry' = registry /\ srv' = srv /\ outbox' = outbox
      /\ Send(t, x)
  BY <1>4, PcsKept DEF Describes
<1>6. /\ \A n \in 1..Len(pcs) :
            /\ pcs'[n].tab = pcs[n].tab /\ pcs'[n].role = pcs[n].role /\ pcs'[n].remote = pcs[n].remote
            /\ pcs'[n].closed = pcs[n].closed /\ pcs'[n].opened = pcs[n].opened
            /\ n # i => pcs'[n] = pcs[n]
      /\ pcs'[i].local
  BY <1>4, <1>5 DEF PcType
<1>7. \A n \in 1..Len(pcs) : pcs[n].remote # i
  BY <1>1, <1>2, <1>3 DEF NamedInv, Matches
<1>8. \A c \in Peer : \A m : (In(m, inbox[c]) \/ In(m, outbox[c])) /\ m.type \in Relays => m.pc # i
  BY <1>1, <1>3 DEF NamedInv, Names
<1>9. x \in Request
  BY <1>2, MsgFields DEF RoomOrNone, Relays
<1> HIDE DEF x
<1>10. \A c \in Peer : IF On(t, c) /\ srv[c] = "up" THEN inbox'[c] = Append(inbox[c], x) ELSE inbox'[c] = inbox[c]
  <2>1. tab[t].ws = "OPEN" => tab[t].sock \in Peer
    BY <1>1, <1>2 DEF Sorts, On
  <2> QED BY <1>1, <1>5, <2>1 DEF Send, On, Types
<1>11. ASSUME pcs[i].role = "Offer" PROVE tab[t].pc = i
  BY <1>1, <1>3, <1>11 DEF StrayInv, Stray
<1>12. ASSUME pcs[i].role = "Offer", NEW c, On(t, c), srv[c] = "up" PROVE Housed(c) /\ Early(c) /\ Lives(i, c)
  <2>1. Holds(t) /\ Fits(t, c)
    BY <1>1, <1>2, <1>11, <1>12 DEF ShownInv, StreamInv
  <2>2. Housed(c) /\ Kind(t) = "Offer"
    BY <1>2, <1>11, <1>12, <2>1 DEF Holds, Kind
  <2> QED BY <1>11, <1>12, <2>1, <2>2 DEF Fits, Seat, Lives
<1> QED BY <1>2, <1>3, <1>5, <1>6, <1>7, <1>8, <1>9, <1>10, <1>11, <1>12 DEF x

(* Whoever the description is for, it is the latest of a peer connection   *)
(* that lives, or nobody waits for it.                                     *)
LEMMA DescribesLinks ==
  ASSUME MeetInv, MeetInv', LinkInv, NEW i \in 1..Len(pcs), Describes(i)
  PROVE  LinkInv'
<1>1. Sorts /\ NamedInv /\ ShownInv /\ StreamInv /\ OfferInv /\ OwnInv /\ StrayInv /\ BondInv
      /\ PlaceInv /\ HandshakeInv
  BY SortsHold DEF LinkInv
<1>2. (MeetInv => Sorts)'
  BY SortsHold, PTL
<1>3. Sorts'
  BY <1>2
<1>4. PICK t : t = pcs[i].tab
  OBVIOUS
<1>5. PICK x \in Request : x = Msg(pcs[i].role, NoRoom, i)
  BY <1>4, DescribesBase
<1>6. /\ t \in Tab /\ i # 0 /\ ~pcs[i].local /\ Len(pcs') = Len(pcs) /\ pcs'[i].local
      /\ tab' = tab /\ registry' = registry /\ srv' = srv /\ outbox' = outbox
  BY <1>4, DescribesBase
<1>7. \A n \in 1..Len(pcs) :
          /\ pcs'[n].tab = pcs[n].tab /\ pcs'[n].role = pcs[n].role /\ pcs'[n].remote = pcs[n].remote
          /\ pcs'[n].closed = pcs[n].closed /\ pcs'[n].opened = pcs[n].opened
          /\ n # i => pcs'[n] = pcs[n]
  BY <1>4, DescribesBase
<1>8. \A n \in 1..Len(pcs) : pcs[n].remote # i
  BY <1>4, DescribesBase
<1>9. \A c \in Peer : \A m : (In(m, inbox[c]) \/ In(m, outbox[c])) /\ m.type \in Relays => m.pc # i
  BY <1>4, DescribesBase
<1>10. \A c \in Peer : IF On(t, c) /\ srv[c] = "up"
           THEN inbox'[c] = Append(inbox[c], x) ELSE inbox'[c] = inbox[c]
  BY <1>4, <1>5, DescribesBase
<1>11. ASSUME pcs[i].role = "Offer", NEW c, On(t, c), srv[c] = "up"
       PROVE  Housed(c) /\ Early(c) /\ Lives(i, c) /\ tab[t].pc = i
  BY <1>4, <1>11, DescribesBase
<1>12. x.type = pcs[i].role /\ x.pc = i /\ x.type \in Relays
  BY <1>1, <1>5, MsgFields DEF Sorts, Relays
<1>13. /\ \A n, c : Lives(n, c)' <=> Lives(n, c)
       /\ \A c : (Mate(c)' = Mate(c)) /\ (Early(c)' = Early(c)) /\ (Housed(c)' <=> Housed(c))
       /\ \A u, c : On(u, c)' <=> On(u, c)
       /\ \A c : Holders(c)' = Holders(c)
  BY <1>6, <1>7 DEF Lives, Mate, Early, Housed, On, Holders
<1>14. ASSUME NEW c \in Peer
       PROVE  /\ Has(inbox'[c], "Offer") => \/ Has(inbox[c], "Offer")
                                            \/ pcs[i].role = "Offer" /\ On(t, c) /\ srv[c] = "up"
              /\ \A n : Sent(inbox[c], n) => Sent(inbox'[c], n)
              /\ On(t, c) /\ srv[c] = "up" => Sent(inbox'[c], i)
              /\ HasAsk(inbox[c]) => HasAsk(inbox'[c])
  <2>1. inbox[c] \in Seq(Request)
    BY <1>1 DEF Sorts
  <2>2. CASE On(t, c) /\ srv[c] = "up"
    <3>1. inbox'[c] = Append(inbox[c], x)
      BY <1>10, <2>2
    <3>2. HasAsk(inbox[c]) => HasAsk(inbox'[c])
      BY <2>1, <3>1, Grown DEF HasAsk
    <3> QED BY <1>12, <2>1, <2>2, <3>1, <3>2, Added
  <2>3. CASE ~(On(t, c) /\ srv[c] = "up")
    BY <1>10, <2>3
  <2> QED BY <2>2, <2>3
<1>15. ASSUME NEW c \in Peer, pcs[i].role = "Offer", On(t, c), srv[c] = "up", NEW n, Lives(n, c)
       PROVE  n = i
  <2>1. Lives(i, c) /\ On(pcs[n].tab, c) /\ tab[pcs[n].tab].pc = n /\ tab[t].pc = i /\ pcs[n].tab \in Tab
    BY <1>1, <1>11, <1>15 DEF Sorts
  <2>2. Holders(c) = {t} /\ Holders(c) = {pcs[n].tab}
    BY <1>1, <1>6, <1>15, <2>1 DEF Sorts
  <2> QED BY <2>1, <2>2
<1>16. NamedInv'
  <2>1. ASSUME NEW m, Names(m) PROVE Names(m)'
    BY <1>6, <1>7, <2>1 DEF Names
  <2>2. Names(x)'
    BY <1>6, <1>7, <1>12 DEF Names
  <2>3. ASSUME NEW c \in Peer, NEW m, In(m, inbox'[c]) \/ In(m, outbox'[c]) PROVE Names(m)'
    <3>1. In(m, inbox[c]) \/ In(m, outbox[c]) \/ m = x
      <4>1. inbox[c] \in Seq(Request)
        BY <1>1 DEF Sorts
      <4>2. CASE inbox'[c] = Append(inbox[c], x) /\ In(m, inbox'[c])
        <5>1. /\ inbox'[c][Len(inbox[c]) + 1] = x
              /\ \A k \in 1..Len(inbox[c]) : inbox'[c][k] = inbox[c][k]
              /\ \A k \in 1..Len(inbox'[c]) : k \in 1..Len(inbox[c]) \/ k = Len(inbox[c]) + 1
          BY <4>1, <4>2, Grown
        <5> QED BY <4>2, <5>1 DEF In
      <4> QED BY <1>6, <1>10, <2>3, <4>2
    <3> QED BY <1>1, <2>1, <2>2, <3>1 DEF NamedInv
  <2>4. ASSUME NEW n \in 1..Len(pcs) PROVE Matches(n)'
    <3>1. Matches(n) /\ (pcs[n].remote # 0 => pcs[n].remote \in 1..Len(pcs))
      BY <1>1 DEF NamedInv, Sorts
    <3>2. \A k \in 1..Len(pcs) : pcs[k].local => pcs'[k].local
      BY <1>6, <1>7
    <3> QED BY <1>7, <3>1, <3>2 DEF Matches
  <2> QED BY <1>6, <2>3, <2>4 DEF NamedInv
<1>17. \A u \in Tab : Kind(u)' = Kind(u)
  BY <1>1, <1>6, <1>7 DEF Kind, Sorts
<1>18. ShownInv'
  <2> SUFFICES ASSUME NEW u \in Tab PROVE (tab'[u].pc # 0 => Holds(u)') /\ ShowsTruth(u)'
    BY DEF ShownInv
  <2>1. (tab[u].pc # 0 => Holds(u)) /\ ShowsTruth(u) /\ (tab[u].pc # 0 => tab[u].pc \in 1..Len(pcs))
    BY <1>1 DEF ShownInv, Sorts
  <2>2. tab'[u].pc # 0 => Holds(u)'
    BY <1>6, <1>7, <1>13, <2>1 DEF Holds
  <2> QED BY <1>6, <1>7, <2>1, <2>2 DEF ShowsTruth
<1>19. StreamInv'
  BY <1>1, <1>6, <1>13, <1>17 DEF StreamInv, Fits
<1>20. OfferInv'
  BY <1>1, <1>11, <1>13, <1>14 DEF OfferInv
<1>21. OwnInv'
  <2>1. ASSUME NEW c \in Peer, NEW k \in 1..Len(inbox'[c]) PROVE Asking(c, k)'
    <3>1. inbox[c] \in Seq(Request)
      BY <1>1 DEF Sorts
    <3>2. CASE On(t, c) /\ srv[c] = "up"
      <4>1. inbox'[c] = Append(inbox[c], x)
        BY <1>10, <3>2
      <4>2. /\ Len(inbox[c]) \in Nat /\ inbox'[c][Len(inbox[c]) + 1] = x
            /\ k \in 1..Len(inbox[c]) \/ k = Len(inbox[c]) + 1
            /\ k \in 1..Len(inbox[c]) => inbox'[c][k] = inbox[c][k]
        BY <2>1, <3>1, <4>1, Grown
      <4>3. CASE k \in 1..Len(inbox[c])
        <5> SUFFICES ASSUME NEW n, NEW d, inbox'[c][k].type \in Relays, inbox'[c][k].pc = n, Lives(n, d)'
                     PROVE  d = c /\ (inbox'[c][k].type = "Offer" => ~After(inbox'[c], k, "Offer"))
          BY DEF Asking
        <5>1. inbox[c][k].type \in Relays /\ inbox[c][k].pc = n /\ Lives(n, d) /\ n # i
          BY <1>9, <1>13, <4>2, <4>3 DEF In
        <5>2. Asking(c, k)
          BY <1>1, <4>3 DEF OwnInv
        <5>3. d = c /\ (inbox[c][k].type = "Offer" => ~After(inbox[c], k, "Offer"))
          BY <5>1, <5>2 DEF Asking
        <5>4. x.type # "Offer"
          BY <1>12, <1>15, <3>2, <5>1, <5>3
        <5>5. After(inbox'[c], k, "Offer") => After(inbox[c], k, "Offer")
          BY <3>1, <4>1, <4>3, <5>4, Added
        <5> QED BY <4>2, <4>3, <5>3, <5>5
      <4>4. CASE k = Len(inbox[c]) + 1
        <5>1. inbox'[c][k] = x /\ ~After(inbox'[c], k, "Offer")
          BY <3>1, <4>1, <4>2, <4>4, Added
        <5>2. \A d : Lives(i, d) => d = c
          BY <1>4, <3>2 DEF Lives, On
        <5> QED BY <1>12, <1>13, <5>1, <5>2 DEF Asking
      <4> QED BY <4>2, <4>3, <4>4
    <3>3. CASE ~(On(t, c) /\ srv[c] = "up")
      <4>1. inbox'[c] = inbox[c]
        BY <1>10, <3>3
      <4>2. Asking(c, k)
        BY <1>1, <2>1, <4>1 DEF OwnInv
      <4> QED BY <1>13, <4>1, <4>2 DEF Asking
    <3> QED BY <3>2, <3>3
  <2>2. ASSUME NEW u \in Tab, NEW c, On(u, c), NEW k \in 1..Len(outbox[c]) PROVE Hearing(c, k)'
    <3>1. Hearing(c, k) /\ c \in Peer
      BY <1>1, <2>2 DEF OwnInv, Sorts
    <3> SUFFICES ASSUME NEW n, NEW d, outbox[c][k].type \in Relays, outbox[c][k].pc = n, Lives(n, d)
                 PROVE  /\ Mate(c) = d /\ ~After(outbox[c], k, "PeerLeft")
                        /\ outbox[c][k].type = "Offer" => ~After(outbox[c], k, "Offer") /\ ~Has(inbox'[d], "Offer")
      BY <1>6, <1>13 DEF Hearing
    <3>2. d \in Peer /\ n # i
      BY <1>1, <1>9, <2>2, <3>1 DEF Sorts, In
    <3>3. Has(inbox'[d], "Offer") => Has(inbox[d], "Offer")
      BY <1>14, <1>15, <3>2
    <3> QED BY <3>1, <3>3 DEF Hearing
  <2> QED BY <1>6, <1>13, <2>1, <2>2 DEF OwnInv
<1>22. StrayInv'
  <2> SUFFICES ASSUME NEW n \in 1..Len(pcs), ~pcs[n].closed, tab[pcs[n].tab].pc # n PROVE Stray(n)'
    BY <1>6, <1>7 DEF StrayInv
  <2>1. Stray(n)
    BY <1>1 DEF StrayInv
  <2>2. pcs[n].remote \in 1..Len(pcs)
    BY <1>1, <2>1 DEF Stray, NamedInv, Matches, Sorts
  <2> QED BY <1>6, <1>7, <1>13, <2>1, <2>2 DEF Stray
<1>23. BondInv'
  <2> SUFFICES ASSUME NEW n \in 1..Len(pcs), NEW m \in 1..Len(pcs), NEW c, NEW d,
                      Lives(n, c), Mate(c) = d, Bonded(n, m)
               PROVE  Bond(m, c, d)'
    BY <1>6, <1>7, <1>13 DEF BondInv, Bonded
  <2>1. Bond(m, c, d) /\ c \in Peer
    BY <1>1 DEF BondInv, Sorts
  <2>2. CASE Has(outbox[c], "PeerLeft")
    BY <1>6, <2>1, <2>2 DEF Bond
  <2>3. CASE ~Has(outbox[c], "PeerLeft")
    <3>1. d # NoPeer /\ d \in Peer /\ Mate(d) = c
      BY <2>1, <2>3, Mates DEF Bond, LinkInv
    <3>2. n # i /\ (m = i => pcs[n].remote # m /\ pcs[n].role = "Offer")
      BY <1>8 DEF Bonded
    <3>3. ~Has(inbox'[c], "Offer")
      BY <1>14, <1>15, <2>1, <2>3, <3>2 DEF Bond
    <3>4. ~(pcs[i].role = "Offer" /\ On(t, d) /\ srv[d] = "up")
      <4> SUFFICES ASSUME pcs[i].role = "Offer", On(t, d), srv[d] = "up" PROVE FALSE
        OBVIOUS
      <4>1. Lives(m, d)
        BY <1>6, <2>1, <2>3 DEF Bond, Holders, On
      <4>2. m = i
        BY <1>15, <3>1, <4>1
      <4>3. Matches(m) /\ pcs[m].remote = n /\ n # 0
        BY <1>1 DEF NamedInv, Bonded, Sorts
      <4> QED BY <3>2, <4>2, <4>3 DEF Matches
    <3>5. ~Has(inbox'[d], "Offer")
      BY <1>14, <2>1, <2>3, <3>1, <3>4 DEF Bond
    <3> QED BY <1>6, <1>13, <2>1, <2>3, <3>3, <3>5 DEF Bond
  <2> QED BY <2>2, <2>3
<1>24. PlaceInv'
  <2> SUFFICES ASSUME NEW u \in Tab, NEW c, On(u, c), srv[c] = "up", tab[u].status \notin Refusals
               PROVE  HasPlace(c)'
    BY <1>6, <1>13 DEF PlaceInv
  <2>1. HasPlace(c) /\ c \in Peer
    BY <1>1 DEF PlaceInv, Sorts
  <2> QED BY <1>6, <1>13, <1>14, <2>1 DEF HasPlace
<1>25. HandshakeInv'
  <2> SUFFICES ASSUME NEW w \in Tab, NEW u \in Tab, NEW c, NEW d, Offers(w, u, c, d)'
               PROVE  Offering(w, u, c, d)'
    BY DEF HandshakeInv
  <2>1. Offers(w, u, c, d)
    BY <1>6, <1>13, <1>17 DEF Offers
  <2>2. Offering(w, u, c, d)
    BY <1>1, <2>1 DEF HandshakeInv
  <2>3. On(w, c) /\ On(u, d) /\ c \in Peer /\ d \in Peer /\ srv[c] = "up" /\ srv[d] = "up"
    <3>1. On(w, c) /\ On(u, d) /\ Mate(c) = d
      BY <2>1 DEF Offers
    <3>2. c \in Peer /\ d \in Peer /\ d # NoPeer
      BY <1>1, <3>1, NoPeerIsNone DEF Sorts
    <3>3. Housed(c) /\ Housed(d)
      BY <3>1, <3>2, Mates DEF LinkInv
    <3> QED BY <1>1, <3>1, <3>2, <3>3 DEF Sorts
  <2>4. PICK n \in 1..Len(pcs) : n = tab[w].pc /\ pcs[n].tab = w
    <3>1. tab[w].pc # 0
      BY <2>1 DEF Offers, Kind
    <3> QED BY <1>1, <3>1 DEF Sorts, ShownInv, Holds
  <2>5. ~pcs[n].local => ~pcs'[n].local \/ Sent(inbox'[c], n)
    BY <1>4, <1>7, <1>14, <2>3, <2>4
  <2>6. Answering(w, u, c, d) => Answering(w, u, c, d)'
    <3> SUFFICES ASSUME Answering(w, u, c, d) PROVE Answering(w, u, c, d)'
      OBVIOUS
    <3>1. PICK m \in 1..Len(pcs) :
              /\ m = tab[u].pc /\ m # 0 /\ pcs[m].remote = n /\ pcs[m].tab = u
              /\ \/ ~pcs[m].local \/ Sent(inbox[d], m) \/ Sent(outbox[c], m)
                 \/ pcs[n].remote # 0
      BY <1>1, <2>4 DEF Answering, Sorts, ShownInv, Holds
    <3>2. ~pcs[m].local => ~pcs'[m].local \/ Sent(inbox'[d], m)
      BY <1>4, <1>7, <1>14, <2>3, <3>1
    <3> QED BY <1>6, <1>7, <1>14, <2>3, <2>4, <3>1, <3>2, ZenonT(60) DEF Answering
  <2> QED BY <1>6, <1>14, <2>2, <2>3, <2>4, <2>5, <2>6 DEF Offering
<1> QED BY <1>1, <1>6, <1>16, <1>18, <1>19, <1>20, <1>21, <1>22, <1>23, <1>24, <1>25 DEF LinkInv

-----------------------------------------------------------------------------
(* The server. *)

(* A step of the server for connection c: it may read a request of c, give *)
(* it a place or forget it, and it sends a to q.                           *)
Tends(c, q, a) ==
    /\ tab' = tab /\ pcs' = pcs
    /\ \A d \in Peer : outbox'[d] = IF d = q /\ Holders(d) # {} THEN Append(outbox[d], a) ELSE outbox[d]
    /\ \A d \in Peer \ {c} : inbox'[d] = inbox[d] /\ srv'[d] = srv[d]
    /\ inbox'[c] = inbox[c] \/ (inbox[c] # <<>> /\ inbox'[c] = Tail(inbox[c]))
    /\ Holders(c) # {} => srv'[c] = srv[c]
    /\ \A d : Housed(d) /\ ~Housed(d)' => d = c /\ Holders(c) = {} /\ inbox[c] = <<>>
    /\ \A d : Housed(d)' /\ ~Housed(d) => d = c /\ srv[c] = "up"
    /\ \A d : Housed(d)' /\ Early(d) => Early(d)'
    /\ \A d \in Peer \ {c, q} : Mate(d)' = Mate(d) /\ (Early(d)' <=> Early(d))
    /\ Seated(registry')

(* The same peer connections live. *)
LEMMA TendsLives ==
  ASSUME MeetInv, MeetInv', LinkInv, NEW c \in Peer, NEW q, NEW a, Tends(c, q, a)
  PROVE  /\ \A n, e : Lives(n, e)' <=> Lives(n, e)
         /\ \A u, e : On(u, e)' <=> On(u, e)
         /\ \A e : Holders(e)' = Holders(e)
         /\ \A u : Kind(u)' = Kind(u)
<1>1. Sorts /\ ShownInv
  BY SortsHold DEF LinkInv
<1>2. /\ \A u, e : On(u, e)' <=> On(u, e)
      /\ \A e : Holders(e)' = Holders(e)
      /\ \A u : Kind(u)' = Kind(u)
  BY DEF Tends, On, Holders, Kind
<1>3. ASSUME NEW n, NEW e, Lives(n, e) PROVE Lives(n, e)'
  <2>1. Housed(e) /\ Holders(e) = {pcs[n].tab}
    BY <1>1, <1>3 DEF Sorts
  <2>2. Housed(e)'
    BY <2>1 DEF Tends
  <2> QED BY <1>2, <1>3, <2>2 DEF Lives, Tends
<1>4. ASSUME NEW n, NEW e, Lives(n, e)' PROVE Lives(n, e)
  <2>1. n \in 1..Len(pcs) /\ tab[pcs[n].tab].pc = n /\ On(pcs[n].tab, e) /\ Housed(e)'
    BY <1>2, <1>4 DEF Lives, Tends
  <2>2. pcs[n].tab \in Tab /\ n # 0
    BY <1>1, <2>1 DEF Sorts
  <2>3. Holds(pcs[n].tab)
    BY <1>1, <2>1, <2>2 DEF ShownInv
  <2>4. Housed(e)
    BY <2>1, <2>3 DEF Tends, Holds
  <2> QED BY <2>1, <2>4 DEF Lives
<1> QED BY <1>2, <1>3, <1>4

(* What is to be shown of such a step: what becomes of c and q. *)
LEMMA TendsKeeps ==
  ASSUME MeetInv, MeetInv', LinkInv, NEW c \in Peer, NEW q, NEW a \in Reply, Tends(c, q, a), Names(a),
         \A t \in Tab, e \in {c, q} : On(t, e) =>
             Fits(t, e)' /\ \A i \in 1..Len(outbox'[e]) : Hearing(e, i)',
         \A t \in Tab : On(t, c) /\ srv[c] = "up" /\ tab[t].status \notin Refusals => HasPlace(c)',
         \A n, m \in 1..Len(pcs) : \A e, d :
             Lives(n, e) /\ Mate(e)' = d /\ Bonded(n, m) /\ (e \in {c, q} \/ Mate(e) \in {c, q} \ {NoPeer})
                 => Bond(m, e, d)',
         \A t, u \in Tab : \A e, d : Offers(t, u, e, d)' /\ (e \in {c, q} \/ d \in {c, q}) => Offering(t, u, e, d)'
  PROVE  LinkInv'
<1>1. Sorts /\ NamedInv /\ ShownInv /\ StreamInv /\ OfferInv /\ OwnInv /\ StrayInv /\ BondInv
      /\ PlaceInv /\ HandshakeInv
  BY SortsHold DEF LinkInv
<1>2. (MeetInv => Sorts)'
  BY SortsHold, PTL
<1>3. Sorts'
  BY <1>2
<1>4. tab' = tab /\ pcs' = pcs
  BY DEF Tends
<1>5. \A d \in Peer : outbox'[d] = IF d = q /\ Holders(d) # {} THEN Append(outbox[d], a) ELSE outbox[d]
  BY DEF Tends
<1>6. /\ \A d \in Peer \ {c} : inbox'[d] = inbox[d] /\ srv'[d] = srv[d]
      /\ inbox'[c] = inbox[c] \/ (inbox[c] # <<>> /\ inbox'[c] = Tail(inbox[c]))
  BY DEF Tends
<1>7. /\ \A n, e : Lives(n, e)' <=> Lives(n, e)
      /\ \A u, e : On(u, e)' <=> On(u, e)
      /\ \A e : Holders(e)' = Holders(e)
      /\ \A u : Kind(u)' = Kind(u)
  BY TendsLives
<1>8. /\ \A d \in Peer : inbox[d] \in Seq(Request) /\ outbox[d] \in Seq(Reply)
      /\ \A u \in Tab : \A e : On(u, e) => e \in Peer /\ Holders(e) # {}
  <2>1. \A u \in Tab : \A e : On(u, e) => e \in Peer /\ Holders(e) = {u}
    BY <1>1 DEF Sorts
  <2>2. \A u \in Tab : \A e : On(u, e) => e \in Peer /\ Holders(e) # {}
    BY <2>1
  <2>3. \A d \in Peer : inbox[d] \in Seq(Request) /\ outbox[d] \in Seq(Reply)
    BY <1>1 DEF Sorts
  <2> QED BY <2>2, <2>3
<1>9. ASSUME NEW d \in Peer
      PROVE  /\ \A m : In(m, inbox'[d]) => In(m, inbox[d])
             /\ \A m : In(m, outbox'[d]) => In(m, outbox[d]) \/ m = a
  <2>1. ASSUME NEW m, In(m, inbox'[d]) PROVE In(m, inbox[d])
    <3>1. CASE inbox'[d] = inbox[d]
      BY <2>1, <3>1
    <3>2. CASE inbox[d] # <<>> /\ inbox'[d] = Tail(inbox[d])
      <4>1. PICK i \in 1..Len(Tail(inbox[d])) : Tail(inbox[d])[i] = m
        BY <2>1, <3>2 DEF In
      <4>2. i + 1 \in 1..Len(inbox[d]) /\ inbox[d][i + 1] = m
        BY <1>8, <3>2, <4>1, Parts
      <4> QED BY <4>2 DEF In
    <3> QED BY <1>6, <3>1, <3>2
  <2>2. ASSUME NEW m, In(m, outbox'[d]) PROVE In(m, outbox[d]) \/ m = a
    <3>1. CASE outbox'[d] = Append(outbox[d], a)
      <4>1. /\ outbox'[d][Len(outbox[d]) + 1] = a
            /\ \A k \in 1..Len(outbox[d]) : outbox'[d][k] = outbox[d][k]
            /\ \A k \in 1..Len(outbox'[d]) : k \in 1..Len(outbox[d]) \/ k = Len(outbox[d]) + 1
        BY <1>8, <3>1, Grown
      <4> QED BY <2>2, <4>1 DEF In
    <3> QED BY <1>5, <2>2, <3>1
  <2> QED BY <2>1, <2>2
<1>10. \A d \in Peer : Has(inbox'[d], "Offer") => Has(inbox[d], "Offer")
  BY <1>6, <1>8, Taken
<1>11. NamedInv'
  <2>1. \A m : Names(m)' <=> Names(m)
    BY <1>4 DEF Names
  <2>2. \A n : Matches(n)' <=> Matches(n)
    BY <1>4 DEF Matches
  <2> QED BY <1>1, <1>4, <1>9, <2>1, <2>2 DEF NamedInv
<1>12. ShownInv'
  <2> SUFFICES ASSUME NEW u \in Tab PROVE (tab'[u].pc # 0 => Holds(u)') /\ ShowsTruth(u)'
    BY DEF ShownInv
  <2>1. (tab[u].pc # 0 => Holds(u)) /\ ShowsTruth(u)
    BY <1>1 DEF ShownInv
  <2>2. ASSUME NEW e, On(u, e), srv'[e] = "up", srv[e] = "up" => Housed(e) PROVE Housed(e)'
    <3>1. srv[e] = "up" /\ Holders(e) # {}
      BY <1>8, <2>2 DEF Tends
    <3> QED BY <2>2, <3>1 DEF Tends
  <2>3. tab'[u].pc # 0 => Holds(u)'
    BY <1>4, <1>7, <2>1, <2>2 DEF Holds
  <2> QED BY <1>4, <2>1, <2>3 DEF ShowsTruth
<1>13. StreamInv'
  <2> SUFFICES ASSUME NEW u \in Tab, NEW e, On(u, e) PROVE Fits(u, e)'
    BY <1>7 DEF StreamInv
  <2>1. CASE e \in {c, q}
    BY <2>1
  <2>2. CASE e \notin {c, q}
    <3>1. Fits(u, e) /\ e \in Peer \ {c, q}
      BY <1>1, <1>8, <2>2 DEF StreamInv
    <3>2. /\ outbox'[e] = outbox[e] /\ srv'[e] = srv[e] /\ (Housed(e)' <=> Housed(e))
          /\ Mate(e)' = Mate(e) /\ (Early(e)' <=> Early(e))
      BY <3>1 DEF Tends
    <3>3. Seat(Kind(u), tab[u].status, outbox[e], Early(e), Mate(e) = NoPeer)
          => Seat(Kind(u), tab[u].status, outbox[e], Early(e)', Mate(e)' = NoPeer)
      BY <3>2 DEF Seat
    <3> QED BY <1>4, <1>7, <3>1, <3>2, <3>3 DEF Fits
  <2> QED BY <2>1, <2>2
<1>14. OfferInv'
  <2> SUFFICES ASSUME NEW d \in Peer, Has(inbox'[d], "Offer") PROVE Early(d)'
    BY DEF OfferInv
  <2>1. Early(d) /\ Has(inbox[d], "Offer")
    BY <1>1, <1>10 DEF OfferInv
  <2>2. Housed(d) /\ inbox[d] # <<>>
    BY <2>1, Mates, Nothing DEF LinkInv
  <2> QED BY <2>1, <2>2 DEF Tends
<1>15. OwnInv'
  <2>1. ASSUME NEW d \in Peer, NEW i \in 1..Len(inbox'[d]) PROVE Asking(d, i)'
    <3>1. CASE inbox'[d] = inbox[d]
      <4>1. Asking(d, i)
        BY <1>1, <2>1, <3>1 DEF OwnInv
      <4> QED BY <1>7, <3>1, <4>1 DEF Asking
    <3>2. CASE inbox[d] # <<>> /\ inbox'[d] = Tail(inbox[d])
      <4>1. i + 1 \in 1..Len(inbox[d]) /\ inbox'[d][i] = inbox[d][i + 1]
        BY <1>8, <2>1, <3>2, Parts
      <4>2. Asking(d, i + 1)
        BY <1>1, <4>1 DEF OwnInv
      <4>3. After(inbox'[d], i, "Offer") => After(inbox[d], i + 1, "Offer")
        BY <1>8, <2>1, <3>2, Taken
      <4> QED BY <1>7, <4>1, <4>2, <4>3 DEF Asking
    <3> QED BY <1>6, <3>1, <3>2
  <2>2. ASSUME NEW u \in Tab, NEW e, On(u, e), NEW i \in 1..Len(outbox'[e]) PROVE Hearing(e, i)'
    <3>1. CASE e \in {c, q}
      BY <2>2, <3>1
    <3>2. CASE e \notin {c, q}
      <4>1. e \in Peer \ {c, q} /\ outbox'[e] = outbox[e] /\ Mate(e)' = Mate(e)
        BY <1>5, <1>8, <2>2, <3>2 DEF Tends
      <4>2. Hearing(e, i)
        BY <1>1, <2>2, <4>1 DEF OwnInv
      <4>3. \A n, d : Lives(n, d) /\ Has(inbox'[d], "Offer") => Has(inbox[d], "Offer")
        BY <1>1, <1>10 DEF Sorts
      <4> QED BY <1>7, <4>1, <4>2, <4>3 DEF Hearing
    <3> QED BY <3>1, <3>2
  <2> QED BY <1>7, <2>1, <2>2 DEF OwnInv
<1>16. StrayInv'
  <2> SUFFICES ASSUME NEW n \in 1..Len(pcs), ~pcs[n].closed, tab[pcs[n].tab].pc # n PROVE Stray(n)'
    BY <1>4 DEF StrayInv
  <2>1. Stray(n)
    BY <1>1 DEF StrayInv
  <2>2. ASSUME NEW i, NEW e, Lives(i, e), Spared(outbox[e], n) PROVE Spared(outbox'[e], n)
    <3>1. e \in Peer
      BY <1>1, <2>2 DEF Sorts
    <3> QED BY <1>5, <1>8, <2>2, <3>1, Added
  <2> QED BY <1>4, <1>7, <2>1, <2>2 DEF Stray
<1>17. BondInv'
  <2> SUFFICES ASSUME NEW n \in 1..Len(pcs), NEW m \in 1..Len(pcs), NEW e, NEW d,
                      Lives(n, e), Mate(e)' = d, Bonded(n, m), ~(e \in {c, q} \/ Mate(e) \in {c, q} \ {NoPeer})
               PROVE  Bond(m, e, d)'
    BY <1>4, <1>7 DEF BondInv, Bonded
  <2>1. e \in Peer \ {c, q} /\ Mate(e) = d
    BY <1>1 DEF Sorts, Tends
  <2>2. Bond(m, e, d)
    BY <1>1, <2>1 DEF BondInv
  <2>3. d # NoPeer => d \in Peer \ {c, q}
    BY <2>1, Mates DEF LinkInv
  <2>4. outbox'[e] = outbox[e] /\ inbox'[e] = inbox[e]
    BY <1>5, <1>6, <2>1
  <2>5. d # NoPeer => outbox'[d] = outbox[d] /\ inbox'[d] = inbox[d]
    BY <1>5, <1>6, <2>3
  <2> QED BY <1>7, <2>2, <2>4, <2>5 DEF Bond
<1>18. PlaceInv'
  <2> SUFFICES ASSUME NEW u \in Tab, NEW e, On(u, e), srv'[e] = "up", tab[u].status \notin Refusals
               PROVE  HasPlace(e)'
    BY <1>4, <1>7 DEF PlaceInv
  <2>1. e \in Peer /\ Holders(e) # {} /\ srv[e] = "up"
    BY <1>8 DEF Tends
  <2>2. CASE e = c
    BY <2>1, <2>2
  <2>3. CASE e # c
    <3>1. HasPlace(e)
      BY <1>1, <2>1 DEF PlaceInv
    <3>2. inbox'[e] = inbox[e] /\ (Housed(e) => Housed(e)')
      BY <2>1, <2>3 DEF Tends
    <3>3. HasRefusal(outbox[e]) => HasRefusal(outbox'[e])
      <4>1. CASE outbox'[e] = Append(outbox[e], a)
        <5>1. \A i \in 1..Len(outbox[e]) : i \in 1..Len(outbox'[e]) /\ outbox'[e][i] = outbox[e][i]
          BY <1>8, <2>1, <4>1, Grown
        <5> QED BY <5>1 DEF HasRefusal
      <4> QED BY <1>5, <2>1, <4>1
    <3> QED BY <3>1, <3>2, <3>3 DEF HasPlace
  <2> QED BY <2>2, <2>3
<1>19. HandshakeInv'
  <2> SUFFICES ASSUME NEW w \in Tab, NEW u \in Tab, NEW e, NEW d, Offers(w, u, e, d)',
                      e \notin {c, q}, d \notin {c, q}
               PROVE  Offering(w, u, e, d)'
    BY DEF HandshakeInv
  <2>1. On(w, e) /\ On(u, d) /\ e \in Peer \ {c, q} /\ d \in Peer \ {c, q}
    BY <1>7, <1>8 DEF Offers
  <2>2. outbox'[e] = outbox[e] /\ inbox'[e] = inbox[e] /\ outbox'[d] = outbox[d] /\ inbox'[d] = inbox[d]
    BY <1>5, <1>6, <2>1
  <2>3. Mate(e)' = Mate(e)
    BY <2>1 DEF Tends
  <2>4. Offers(w, u, e, d)
    BY <1>7, <2>1, <2>2, <2>3 DEF Offers
  <2>5. Offering(w, u, e, d)
    BY <1>1, <2>4 DEF HandshakeInv
  <2> QED BY <1>4, <2>2, <2>5 DEF Offering, Answering
<1> QED BY <1>11, <1>12, <1>13, <1>14, <1>15, <1>16, <1>17, <1>18, <1>19 DEF LinkInv, Tends

(* A connection that asks for a place has none, and nothing is on its way  *)
(* to it.                                                                  *)
LEMMA AsksAlone ==
  ASSUME MeetInv, LinkInv, NEW c \in Peer, srv[c] = "up", inbox[c] # <<>>, Head(inbox[c]).type \in Asks
  PROVE  /\ ~Housed(c) /\ (\A n : ~Lives(n, c)) /\ (\A e : Mate(e) # c)
         /\ \A t \in Tab : On(t, c) => outbox[c] = <<>> /\ tab[t].pc = 0 /\ Kind(t) = "None" /\ Holders(c) # {}
<1>1. Sorts /\ ShownInv /\ AskInv
  BY SortsHold DEF LinkInv, MeetInv
<1>2. Asked(c, inbox[c], registry.peer_room) /\ 1 \in 1..Len(inbox[c]) /\ inbox[c][1] = Head(inbox[c])
  BY <1>1, Parts DEF Sorts, AskInv
<1>3. ~Housed(c)
  BY <1>2 DEF Asked, HasAsk, Housed
<1>4. \A n : ~Lives(n, c)
  BY <1>3 DEF Lives
<1>5. \A e : Mate(e) # c
  BY <1>3, Mates, NoPeerIsNone DEF LinkInv
<1>6. ASSUME NEW t \in Tab, On(t, c) PROVE outbox[c] = <<>> /\ tab[t].pc = 0 /\ Kind(t) = "None" /\ Holders(c) # {}
  <2>1. outbox[c] = <<>> /\ Holders(c) # {}
    BY <1>6, OnlyReply DEF On
  <2>2. tab[t].pc = 0
    BY <1>1, <1>3, <1>6 DEF ShownInv, Holds
  <2> QED BY <2>1, <2>2 DEF Kind
<1> QED BY <1>3, <1>4, <1>5, <1>6

(* The reply to a request: a place of its own, or a refusal. *)
LEMMA ReplyLinks ==
  ASSUME MeetInv, MeetInv', LinkInv, NEW c \in Peer, srv[c] = "up", inbox[c] # <<>>,
         Head(inbox[c]).type \in Asks, NEW a \in Reply, a.type \in {"Created"} \cup Refusals, Tends(c, c, a),
         a.type = "Created" => Housed(c)' /\ Early(c)' /\ Mate(c)' = NoPeer,
         a.type \in Refusals => ~Housed(c)'
  PROVE  LinkInv'
<1>1. Sorts
  BY SortsHold
<1>2. /\ ~Housed(c) /\ (\A n : ~Lives(n, c)) /\ (\A e : Mate(e) # c)
      /\ \A t \in Tab : On(t, c) => outbox[c] = <<>> /\ tab[t].pc = 0 /\ Kind(t) = "None" /\ Holders(c) # {}
  BY AsksAlone
<1>3. tab' = tab /\ \A u : Kind(u)' = Kind(u)
  <2>1. \A u : Kind(u)' = Kind(u)
    BY TendsLives
  <2> QED BY <2>1 DEF Tends
<1>4. \A t \in Tab : On(t, c) => outbox'[c] = <<a>>
  <2>1. Append(<<>>, a) = <<a>>
    OBVIOUS
  <2> QED BY <1>2, <2>1 DEF Tends
<1>5. Names(a) /\ a.type \notin Relays
  BY DEF Names, Relays, Refusals
<1>6. ASSUME NEW t \in Tab, On(t, c) PROVE Fits(t, c)' /\ \A i \in 1..Len(outbox'[c]) : Hearing(c, i)'
  <2>1. outbox'[c] = <<a>> /\ srv'[c] = "up" /\ Kind(t)' = "None"
    BY <1>2, <1>3, <1>4, <1>6 DEF Tends
  <2>2. Flow("None", <<a>>) /\ (a.type = "Created" => Seat("None", tab[t].status, <<a>>, TRUE, TRUE))
    BY FlowReply
  <2>3. ASSUME Housed(c)' PROVE Seat("None", tab[t].status, <<a>>, Early(c)', Mate(c)' = NoPeer)
    <3>1. a.type = "Created" /\ Early(c)' /\ Mate(c)' = NoPeer
      BY <2>3
    <3> QED BY <2>2, <3>1 DEF Seat
  <2>4. Fits(t, c)'
    BY <1>3, <2>1, <2>2, <2>3 DEF Fits
  <2>5. \A i \in 1..Len(outbox'[c]) : outbox'[c][i] = a
    BY <2>1
  <2> QED BY <1>5, <2>4, <2>5 DEF Hearing
<1>7. ASSUME NEW t \in Tab, On(t, c) PROVE HasPlace(c)'
  <2>1. outbox'[c] = <<a>> /\ Len(<<a>>) = 1 /\ <<a>>[1] = a /\ 1 \in 1..Len(<<a>>)
    BY <1>4, <1>7
  <2>2. a.type \in Refusals => HasRefusal(outbox'[c])
    BY <2>1 DEF HasRefusal
  <2> QED BY <2>2 DEF HasPlace
<1>8. ASSUME NEW t \in Tab, NEW u \in Tab, NEW e, NEW d, Offers(t, u, e, d)', e = c \/ d = c
      PROVE  FALSE
  <2>1. On(t, e) /\ Mate(e)' = d /\ Kind(t) = "Offer" /\ e \in Peer
    <3>1. On(t, e)
      BY <1>8, TendsLives DEF Offers
    <3> QED BY <1>1, <1>3, <1>8, <3>1 DEF Offers, Sorts
  <2>2. e # c
    BY <1>2, <2>1
  <2>3. Mate(e) = d /\ d = c
    BY <1>8, <2>1, <2>2 DEF Tends
  <2> QED BY <1>2, <2>3
<1> QED BY <1>2, <1>5, <1>6, <1>7, <1>8, TendsKeeps

(* One that joins finds another alone, who hears of it. *)
LEMMA JoinLinks ==
  ASSUME MeetInv, MeetInv', LinkInv, NEW c \in Peer, srv[c] = "up", inbox[c] # <<>>,
         Head(inbox[c]).type \in Asks, NEW a \in Reply, a.type = "PeerJoined", NEW q \in Peer, Tends(c, q, a),
         q # c, Housed(q), Early(q), Mate(q) = NoPeer, Mate(q)' = c, Housed(q)', Early(q)',
         Housed(c)', Mate(c)' = q, ~Early(c)'
  PROVE  LinkInv'
<1>1. Sorts /\ StreamInv /\ OwnInv /\ BondInv
  BY SortsHold DEF LinkInv
<1>2. /\ ~Housed(c) /\ (\A n : ~Lives(n, c)) /\ (\A e : Mate(e) # c)
      /\ \A t \in Tab : On(t, c) => outbox[c] = <<>> /\ tab[t].pc = 0 /\ Kind(t) = "None" /\ Holders(c) # {}
  BY AsksAlone
<1>3. tab' = tab /\ (\A u : Kind(u)' = Kind(u)) /\ \A n, e : Lives(n, e)' <=> Lives(n, e)
  <2>1. (\A u : Kind(u)' = Kind(u)) /\ \A n, e : Lives(n, e)' <=> Lives(n, e)
    BY TendsLives
  <2> QED BY <2>1 DEF Tends
<1>4. Names(a) /\ a.type \notin Relays
  BY DEF Names, Relays
<1>5. outbox[q] \in Seq(Reply) /\ srv[q] = "up" /\ NoPeer \notin Peer
  BY <1>1, NoPeerIsNone DEF Sorts
<1>6. ASSUME NEW t \in Tab, On(t, c) PROVE Fits(t, c)' /\ \A i \in 1..Len(outbox'[c]) : Hearing(c, i)'
  <2>1. outbox'[c] = <<>> /\ Kind(t)' = "None"
    BY <1>2, <1>3, <1>6 DEF Tends
  <2>2. Flow("None", <<>>) /\ Seat("None", tab[t].status, <<>>, FALSE, FALSE)
    BY Nothing
  <2>3. Seat("None", tab[t].status, <<>>, Early(c)', Mate(c)' = NoPeer)
    BY <1>5, <2>2 DEF Seat
  <2> QED BY <1>3, <2>1, <2>2, <2>3 DEF Fits
<1>7. ASSUME Holders(q) # {}
      PROVE  /\ outbox'[q] = Append(outbox[q], a)
             /\ \A y : Has(outbox'[q], y) <=> Has(outbox[q], y) \/ y = "PeerJoined"
  <2>1. outbox'[q] = Append(outbox[q], a)
    BY <1>7 DEF Tends
  <2> QED BY <1>5, <2>1, Added
<1>8. ASSUME NEW t \in Tab, On(t, q) PROVE Holders(q) # {}
  BY <1>8 DEF Holders, On
<1>9. ASSUME NEW t \in Tab, On(t, q) PROVE Fits(t, q)' /\ \A i \in 1..Len(outbox'[q]) : Hearing(q, i)'
  <2>1. outbox'[q] = Append(outbox[q], a) /\ srv'[q] = "up"
    BY <1>5, <1>7, <1>8, <1>9 DEF Tends
  <2>2. Flow(Kind(t), outbox[q]) /\ Seat(Kind(t), tab[t].status, outbox[q], Early(q), Mate(q) = NoPeer)
    BY <1>1, <1>9 DEF StreamInv, Fits
  <2>3. Seat(Kind(t), tab[t].status, outbox[q], TRUE, TRUE)
    BY <2>2 DEF Seat
  <2>4. Flow(Kind(t), outbox'[q]) /\ Seat(Kind(t), tab[t].status, outbox'[q], TRUE, FALSE)
    BY <1>5, <2>1, <2>2, <2>3, FlowAdded
  <2>5. Seat(Kind(t), tab[t].status, outbox'[q], Early(q)', Mate(q)' = NoPeer)
    BY <1>5, <2>4 DEF Seat
  <2>6. Fits(t, q)'
    BY <1>3, <2>1, <2>4, <2>5 DEF Fits
  <2>7. ASSUME NEW i \in 1..Len(outbox'[q]) PROVE Hearing(q, i)'
    <3>1. /\ outbox'[q][Len(outbox[q]) + 1] = a
          /\ i \in 1..Len(outbox[q]) => outbox'[q][i] = outbox[q][i]
          /\ i \in 1..Len(outbox[q]) \/ i = Len(outbox[q]) + 1
      BY <1>5, <2>1, <2>7, Grown
    <3>2. CASE i \in 1..Len(outbox[q])
      <4>1. Hearing(q, i)
        BY <1>1, <1>9, <3>2 DEF OwnInv
      <4>2. \A n, d : Lives(n, d) => d # NoPeer
        BY <1>1, <1>5 DEF Sorts
      <4> QED BY <1>3, <3>1, <3>2, <4>1, <4>2 DEF Hearing
    <3>3. CASE i = Len(outbox[q]) + 1
      BY <1>4, <3>1, <3>3 DEF Hearing
    <3> QED BY <3>1, <3>2, <3>3
  <2> QED BY <2>6, <2>7
<1>10. HasPlace(c)'
  BY DEF HasPlace
<1>11. \A e : Housed(e) => Mate(e) # q
  <2> SUFFICES ASSUME NEW e, Housed(e), Mate(e) = q PROVE FALSE
    OBVIOUS
  <2>1. e \in Peer
    BY <1>1 DEF Sorts
  <2>2. Mate(Mate(e)) = e
    BY <1>5, Mates DEF LinkInv
  <2> QED BY <1>5, <2>1, <2>2
<1>12. ASSUME NEW n \in 1..Len(pcs), NEW m \in 1..Len(pcs), NEW e, NEW d, Lives(n, e), Mate(e)' = d, Bonded(n, m),
              e \in {c, q} \/ Mate(e) \in {c, q} \ {NoPeer}
       PROVE  Bond(m, e, d)'
  <2>1. Housed(e) /\ Holders(e) = {pcs[n].tab}
    BY <1>1, <1>12 DEF Sorts
  <2>2. e = q
    BY <1>2, <1>11, <1>12, <2>1
  <2>3. Bond(m, q, NoPeer)
    BY <1>1, <1>12, <2>2 DEF BondInv
  <2>4. Has(outbox'[q], "PeerLeft") /\ ~Has(outbox'[q], "Offer")
    BY <1>7, <2>1, <2>2, <2>3 DEF Bond
  <2> QED BY <2>2, <2>4 DEF Bond
<1>13. ASSUME NEW t \in Tab, NEW u \in Tab, NEW e, NEW d, Offers(t, u, e, d)', e \in {c, q} \/ d \in {c, q}
       PROVE  FALSE
  <2>1. On(t, e)
    BY <1>13, TendsLives DEF Offers
  <2>2. Mate(e)' = d /\ Kind(t) = "Offer" /\ e \in Peer /\ ~Has(outbox'[e], "PeerLeft")
    BY <1>1, <1>3, <1>13, <2>1 DEF Offers, Sorts
  <2>3. e # c
    BY <1>2, <2>1, <2>2
  <2>4. e # q
    <3> SUFFICES ASSUME e = q PROVE FALSE
      OBVIOUS
    <3>1. Seat(Kind(t), tab[t].status, outbox[q], Early(q), Mate(q) = NoPeer)
      BY <1>1, <2>1 DEF StreamInv, Fits
    <3>2. Has(outbox[q], "PeerLeft")
      BY <2>2, <3>1 DEF Seat
    <3> QED BY <1>7, <1>8, <2>1, <2>2, <3>2
  <2>5. Mate(e) = d /\ d \in {c, q}
    BY <1>13, <2>2, <2>3, <2>4 DEF Tends
  <2>6. Housed(e)
    BY <1>5, <2>5, Mates DEF LinkInv
  <2> QED BY <1>2, <1>11, <2>5, <2>6
<1> QED BY <1>4, <1>6, <1>9, <1>10, <1>12, <1>13, TendsKeeps

(* One that has gone is forgotten, and its partner hears of it. *)
LEMMA LeftLinks ==
  ASSUME MeetInv, MeetInv', LinkInv, NEW c \in Peer, Holders(c) = {},
         NEW a \in Reply, a.type = "PeerLeft", NEW q, q = Mate(c), Tends(c, q, a),
         q # NoPeer => Mate(q)' = NoPeer /\ Early(q)' /\ Housed(q)'
  PROVE  LinkInv'
<1>1. Sorts /\ StreamInv /\ OwnInv /\ BondInv
  BY SortsHold DEF LinkInv
<1>2. /\ \A t \in Tab : ~On(t, c)
      /\ \A n : ~Lives(n, c)
  <2>1. \A t \in Tab : ~On(t, c)
    BY DEF On, Holders
  <2> QED BY <1>1, <2>1 DEF Sorts
<1>3. tab' = tab /\ (\A u : Kind(u)' = Kind(u)) /\ \A n, e : Lives(n, e)' <=> Lives(n, e)
  <2>1. (\A u : Kind(u)' = Kind(u)) /\ \A n, e : Lives(n, e)' <=> Lives(n, e)
    BY TendsLives
  <2> QED BY <2>1 DEF Tends
<1>4. Names(a) /\ a.type \notin Relays
  BY DEF Names, Relays
<1>5. NoPeer \notin Peer /\ (q # NoPeer => /\ q \in Peer /\ q # c /\ Mate(q) = c /\ Housed(q)
                                           /\ outbox[q] \in Seq(Reply) /\ srv[q] = "up" /\ srv'[q] = "up")
  <2>1. q # NoPeer => q \in Peer /\ q # c /\ Mate(q) = c /\ Housed(q)
    BY Mates DEF LinkInv
  <2>2. \A d \in Peer : outbox[d] \in Seq(Reply) /\ (Housed(d) => srv[d] = "up")
    BY <1>1 DEF Sorts
  <2> QED BY <2>1, <2>2, NoPeerIsNone DEF Tends
<1>6. \A e : e \in Peer /\ Mate(e) = q /\ q # NoPeer => e = c
  <2> SUFFICES ASSUME NEW e \in Peer, Mate(e) = q, q # NoPeer PROVE e = c
    OBVIOUS
  <2>1. Mate(Mate(e)) = e
    BY Mates DEF LinkInv
  <2> QED BY <1>5, <2>1
<1>7. ASSUME Holders(q) # {}, q # NoPeer
      PROVE  /\ outbox'[q] = Append(outbox[q], a)
             /\ \A y : Has(outbox'[q], y) <=> Has(outbox[q], y) \/ y = "PeerLeft"
  <2>1. outbox'[q] = Append(outbox[q], a)
    BY <1>5, <1>7 DEF Tends
  <2> QED BY <1>5, <1>7, <2>1, Added
<1>9. ASSUME NEW t \in Tab, On(t, q) PROVE Fits(t, q)' /\ \A i \in 1..Len(outbox'[q]) : Hearing(q, i)'
  <2>0. q # NoPeer /\ Holders(q) # {}
    <3>1. q \in Peer /\ Holders(q) = {t}
      BY <1>1, <1>9 DEF Sorts
    <3> QED BY <1>5, <3>1
  <2>1. outbox'[q] = Append(outbox[q], a) /\ srv'[q] = "up"
    BY <1>5, <1>7, <2>0
  <2>2. Flow(Kind(t), outbox[q]) /\ Seat(Kind(t), tab[t].status, outbox[q], Early(q), Mate(q) = NoPeer)
    BY <1>1, <1>5, <1>9, <2>0 DEF StreamInv, Fits
  <2>3. Flow(Kind(t), outbox'[q]) /\ Seat(Kind(t), tab[t].status, outbox'[q], TRUE, TRUE)
    <3> DEFINE f == Early(q)
    <3>1. f \in BOOLEAN /\ Seat(Kind(t), tab[t].status, outbox[q], f, FALSE)
      BY <1>5, <2>0, <2>2 DEF Seat, Early, First
    <3> HIDE DEF f
    <3>2. outbox[q] \in Seq(Reply)
      BY <1>5, <2>0
    <3> QED BY <2>1, <2>2, <3>1, <3>2, FlowAdded, ZenonT(60)
  <2>5. Seat(Kind(t), tab[t].status, outbox'[q], Early(q)', Mate(q)' = NoPeer)
    BY <2>0, <2>3 DEF Seat
  <2>6. Fits(t, q)'
    BY <1>3, <2>1, <2>3, <2>5 DEF Fits
  <2>7. ASSUME NEW i \in 1..Len(outbox'[q]) PROVE Hearing(q, i)'
    <3>1. /\ outbox'[q][Len(outbox[q]) + 1] = a
          /\ i \in 1..Len(outbox[q]) => outbox'[q][i] = outbox[q][i]
          /\ i \in 1..Len(outbox[q]) \/ i = Len(outbox[q]) + 1
      BY <1>5, <2>0, <2>1, <2>7, Grown
    <3>2. CASE i \in 1..Len(outbox[q])
      <4>1. Hearing(q, i)
        BY <1>1, <1>9, <3>2 DEF OwnInv
      <4> QED BY <1>2, <1>3, <1>5, <2>0, <3>1, <3>2, <4>1 DEF Hearing
    <3>3. CASE i = Len(outbox[q]) + 1
      BY <1>4, <3>1, <3>3 DEF Hearing
    <3> QED BY <3>1, <3>2, <3>3
  <2> QED BY <2>6, <2>7
<1>12. ASSUME NEW n \in 1..Len(pcs), NEW m \in 1..Len(pcs), NEW e, NEW d, Lives(n, e), Mate(e)' = d, Bonded(n, m),
              e \in {c, q} \/ Mate(e) \in {c, q} \ {NoPeer}
       PROVE  Bond(m, e, d)'
  <2>1. Housed(e) /\ Holders(e) = {pcs[n].tab} /\ e \in Peer
    BY <1>1, <1>12 DEF Sorts
  <2>2. e = q /\ q # NoPeer
    <3>1. e # c
      BY <1>2, <1>12
    <3>2. Mate(e) # c \/ e = q
      <4>1. Mate(e) = c => Mate(Mate(e)) = e
        BY <1>5, Mates DEF LinkInv
      <4> QED BY <4>1
    <3> QED BY <1>5, <1>6, <1>12, <2>1, <3>1, <3>2
  <2>3. Bond(m, q, c)
    BY <1>1, <1>5, <1>12, <2>2 DEF BondInv
  <2>4. Has(outbox'[q], "PeerLeft") /\ ~Has(outbox'[q], "Offer")
    BY <1>7, <2>1, <2>2, <2>3 DEF Bond
  <2> QED BY <2>2, <2>4 DEF Bond
<1>13. ASSUME NEW t \in Tab, NEW u \in Tab, NEW e, NEW d, Offers(t, u, e, d)', e \in {c, q} \/ d \in {c, q}
       PROVE  FALSE
  <2>1. On(t, e) /\ On(u, d)
    BY <1>13, TendsLives DEF Offers
  <2>2. Mate(e)' = d /\ e \in Peer /\ d \in Peer
    BY <1>1, <1>13, <2>1 DEF Offers, Sorts
  <2>3. e # c /\ d # c
    BY <1>2, <2>1
  <2>4. e # q
    BY <1>5, <2>2
  <2>5. Mate(e) = d /\ d = q
    BY <1>13, <2>2, <2>3, <2>4 DEF Tends
  <2> QED BY <1>5, <1>6, <2>2, <2>3, <2>5
<1> QED BY <1>2, <1>4, <1>9, <1>12, <1>13, TendsKeeps

(* A description is relayed: an offer to the second of two, who has taken  *)
(* none of the same peer connection before it.                             *)
LEMMA RelayLinks ==
  ASSUME MeetInv, MeetInv', LinkInv, NEW c \in Peer, srv[c] = "up", inbox[c] # <<>>,
         NEW a \in Reply, a = Head(inbox[c]), a.type \in Relays, inbox'[c] = Tail(inbox[c]),
         registry' = registry, NEW q, q = Mate(c), Tends(c, q, a)
  PROVE  LinkInv'
<1>1. Sorts /\ NamedInv /\ StreamInv /\ OfferInv /\ OwnInv /\ BondInv /\ PlaceInv /\ HandshakeInv
  BY SortsHold DEF LinkInv
<1>2. /\ \A e : (Mate(e)' = Mate(e)) /\ (Early(e)' = Early(e)) /\ (Housed(e)' <=> Housed(e))
  BY DEF Mate, Early, Housed
<1>3. /\ tab' = tab /\ pcs' = pcs /\ (\A u : Kind(u)' = Kind(u)) /\ (\A n, e : Lives(n, e)' <=> Lives(n, e))
      /\ (\A e : Holders(e)' = Holders(e)) /\ \A u, e : On(u, e)' <=> On(u, e)
  <2>1. /\ (\A u : Kind(u)' = Kind(u)) /\ \A n, e : Lives(n, e)' <=> Lives(n, e)
        /\ (\A e : Holders(e)' = Holders(e)) /\ \A u, e : On(u, e)' <=> On(u, e)
    BY TendsLives
  <2> QED BY <2>1 DEF Tends
<1>4. NoPeer \notin Peer /\ (q # NoPeer => /\ q \in Peer /\ q # c /\ Mate(q) = c /\ Housed(q)
                                           /\ (Early(c) <=> ~Early(q))
                                           /\ outbox[q] \in Seq(Reply) /\ srv[q] = "up" /\ srv'[q] = "up")
  <2>1. q # NoPeer => q \in Peer /\ q # c /\ Mate(q) = c /\ Housed(q) /\ (Early(c) <=> ~Early(q))
    BY Mates DEF LinkInv
  <2>2. \A d \in Peer : outbox[d] \in Seq(Reply) /\ (Housed(d) => srv[d] = "up")
    BY <1>1 DEF Sorts
  <2> QED BY <2>1, <2>2, NoPeerIsNone DEF Tends
<1>5. /\ inbox[c] \in Seq(Request) /\ 1 \in 1..Len(inbox[c]) /\ inbox[c][1] = a
      /\ Names(a) /\ Asking(c, 1)
  <2>1. inbox[c] \in Seq(Request)
    BY <1>1 DEF Sorts
  <2>2. 1 \in 1..Len(inbox[c]) /\ inbox[c][1] = a
    BY <2>1, Parts
  <2> QED BY <1>1, <2>1, <2>2 DEF NamedInv, OwnInv, In
<1>6. a.type = "Offer" => /\ Has(inbox[c], "Offer") /\ Early(c) /\ (q # NoPeer => ~Early(q))
  BY <1>1, <1>4, <1>5 DEF OfferInv, Has
<1>7. \A d \in Peer : Has(inbox'[d], "Offer") => Has(inbox[d], "Offer")
  BY <1>5, Taken DEF Tends
<1>8. \A d \in Peer : d # q => outbox'[d] = outbox[d]
  BY DEF Tends
<1>9. ASSUME q # NoPeer, Holders(q) # {}
      PROVE  /\ outbox'[q] = Append(outbox[q], a)
             /\ \A y : Has(outbox'[q], y) <=> Has(outbox[q], y) \/ y = a.type
  <2>1. outbox'[q] = Append(outbox[q], a)
    BY <1>4, <1>9 DEF Tends
  <2> QED BY <1>4, <1>9, <2>1, Added
<1>10. ASSUME NEW t \in Tab, On(t, c) PROVE Fits(t, c)' /\ \A i \in 1..Len(outbox'[c]) : Hearing(c, i)'
  <2>1. outbox'[c] = outbox[c] /\ srv'[c] = srv[c]
    <3>1. Holders(c) # {} /\ c # q
      BY <1>4, <1>10 DEF Holders, On
    <3> QED BY <3>1 DEF Tends
  <2>2. Fits(t, c) /\ \A i \in 1..Len(outbox[c]) : Hearing(c, i)
    BY <1>1, <1>10 DEF StreamInv, OwnInv
  <2>3. Fits(t, c)'
    BY <1>2, <1>3, <2>1, <2>2 DEF Fits
  <2>4. \A n, d : Lives(n, d) /\ Has(inbox'[d], "Offer") => Has(inbox[d], "Offer")
    BY <1>1, <1>7 DEF Sorts
  <2> QED BY <1>2, <1>3, <2>1, <2>2, <2>3, <2>4 DEF Hearing
<1>11. ASSUME NEW t \in Tab, On(t, q) PROVE Fits(t, q)' /\ \A i \in 1..Len(outbox'[q]) : Hearing(q, i)'
  <2>0. q # NoPeer /\ Holders(q) # {}
    <3>1. q \in Peer /\ Holders(q) = {t}
      BY <1>1, <1>11 DEF Sorts
    <3> QED BY <1>4, <3>1
  <2>1. outbox'[q] = Append(outbox[q], a) /\ srv'[q] = "up"
    BY <1>4, <1>9, <2>0
  <2>2. Flow(Kind(t), outbox[q]) /\ Seat(Kind(t), tab[t].status, outbox[q], Early(q), Mate(q) = NoPeer)
    BY <1>1, <1>4, <1>11, <2>0 DEF StreamInv, Fits
  <2>3. Flow(Kind(t), outbox'[q]) /\ Seat(Kind(t), tab[t].status, outbox'[q], Early(q), Mate(q) = NoPeer)
    <3> DEFINE f == Early(q)
               o == Mate(q) = NoPeer
    <3>1. f \in BOOLEAN /\ o \in BOOLEAN /\ (o => f) /\ (a.type = "Offer" => ~f)
      BY <1>4, <1>6, <2>0, Mates DEF Early, First, LinkInv
    <3>2. Seat(Kind(t), tab[t].status, outbox[q], f, o)
      BY <2>2
    <3>3. outbox[q] \in Seq(Reply) /\ a.type \in {"Offer", "Answer"}
      BY <1>4, <2>0 DEF Relays
    <3> HIDE DEF f, o
    <3>4. Flow(Kind(t), outbox'[q]) /\ Seat(Kind(t), tab[t].status, outbox'[q], f, o)
      BY <2>1, <2>2, <3>1, <3>2, <3>3, FlowAdded, ZenonT(60)
    <3> QED BY <3>4 DEF f, o
  <2>4. Fits(t, q)'
    BY <1>2, <1>3, <2>1, <2>3 DEF Fits
  <2>5. ASSUME NEW i \in 1..Len(outbox'[q]) PROVE Hearing(q, i)'
    <3>1. /\ outbox'[q][Len(outbox[q]) + 1] = a
          /\ i \in 1..Len(outbox[q]) => outbox'[q][i] = outbox[q][i]
          /\ i \in 1..Len(outbox[q]) \/ i = Len(outbox[q]) + 1
      BY <1>4, <2>0, <2>1, <2>5, Grown
    <3> SUFFICES ASSUME NEW n, NEW d, outbox'[q][i].type \in Relays, outbox'[q][i].pc = n, Lives(n, d)
                 PROVE  /\ Mate(q) = d /\ ~After(outbox'[q], i, "PeerLeft")
                        /\ outbox'[q][i].type = "Offer" => ~After(outbox'[q], i, "Offer") /\ ~Has(inbox'[d], "Offer")
      BY <1>2, <1>3 DEF Hearing
    <3>2. d \in Peer
      BY <1>1 DEF Sorts
    <3>3. CASE i \in 1..Len(outbox[q])
      <4>1. Hearing(q, i)
        BY <1>1, <1>11, <3>3 DEF OwnInv
      <4>2. /\ Mate(q) = d /\ ~After(outbox[q], i, "PeerLeft")
            /\ outbox[q][i].type = "Offer" => ~After(outbox[q], i, "Offer") /\ ~Has(inbox[d], "Offer")
        BY <3>1, <3>3, <4>1 DEF Hearing
      <4>3. \A y : After(outbox'[q], i, y) <=> After(outbox[q], i, y) \/ a.type = y
        BY <1>4, <2>0, <2>1, <3>3, Added
      <4>4. d = c
        BY <1>4, <2>0, <4>2
      <4> QED BY <1>6, <1>7, <3>1, <3>2, <3>3, <4>2, <4>3, <4>4 DEF Relays
    <3>4. CASE i = Len(outbox[q]) + 1
      <4>1. \A y : ~After(outbox'[q], i, y)
        BY <1>4, <2>0, <2>1, <3>4, Added
      <4>2. a.pc = n /\ d = c /\ (a.type = "Offer" => ~After(inbox[c], 1, "Offer"))
        BY <1>5, <3>1, <3>4 DEF Asking
      <4>3. a.type = "Offer" => ~Has(inbox'[c], "Offer")
        BY <1>5, <4>2, Behind
      <4> QED BY <1>4, <2>0, <3>1, <3>4, <4>1, <4>2, <4>3
    <3> QED BY <3>1, <3>3, <3>4
  <2> QED BY <2>4, <2>5
<1>12. ASSUME NEW t \in Tab, On(t, c), tab[t].status \notin Refusals PROVE HasPlace(c)'
  <2>1. HasPlace(c)
    BY <1>1, <1>12 DEF PlaceInv
  <2>2. HasAsk(inbox[c]) => HasAsk(inbox'[c])
    <3>1. \A i \in 1..Len(inbox[c]) : i = 1 \/ (i - 1 \in 1..Len(inbox'[c]) /\ inbox'[c][i - 1] = inbox[c][i])
      BY <1>5, Parts
    <3>2. a.type \notin Asks
      BY DEF Asks, Relays
    <3> QED BY <1>5, <3>1, <3>2 DEF HasAsk
  <2>3. outbox'[c] = outbox[c]
    BY <1>4, <1>8
  <2> QED BY <1>2, <2>1, <2>2, <2>3 DEF HasPlace
<1>13. \A d \in Peer \ {c} : inbox'[d] = inbox[d]
  BY DEF Tends
<1>14. ASSUME NEW n \in 1..Len(pcs), NEW m \in 1..Len(pcs), NEW e, NEW d, Lives(n, e), Mate(e) = d, Bonded(n, m)
       PROVE  Bond(m, e, d)'
  <2>1. e \in Peer /\ Holders(e) # {} /\ Bond(m, e, d) /\ On(pcs[n].tab, e) /\ pcs[n].tab \in Tab /\ Housed(e)
    <3>1. e \in Peer /\ Holders(e) = {pcs[n].tab} /\ On(pcs[n].tab, e) /\ pcs[n].tab \in Tab /\ Housed(e)
      BY <1>1, <1>14 DEF Sorts
    <3> QED BY <1>1, <1>14, <3>1 DEF BondInv
  <2>2. e = q /\ a.type = "Offer" => FALSE
    <3> SUFFICES ASSUME e = q, a.type = "Offer" PROVE FALSE
      OBVIOUS
    <3>1. q # NoPeer /\ d = c
      BY <1>4, <1>14, <2>1
    <3>2. Seat(Kind(pcs[n].tab), tab[pcs[n].tab].status, outbox[q], Early(q), Mate(q) = NoPeer)
      BY <1>1, <2>1 DEF StreamInv, Fits
    <3>3. ~Has(outbox[q], "PeerLeft")
      BY <1>6, <3>1, <3>2 DEF Seat
    <3> QED BY <1>6, <2>1, <3>1, <3>3 DEF Bond
  <2>3. ~Has(outbox'[e], "Offer") /\ (Has(outbox[e], "PeerLeft") => Has(outbox'[e], "PeerLeft"))
    <3>1. CASE e = q
      BY <1>4, <1>9, <2>1, <2>2, <3>1 DEF Bond
    <3>2. CASE e # q
      BY <1>8, <2>1, <3>2 DEF Bond
    <3> QED BY <3>1, <3>2
  <2>4. CASE Has(outbox[e], "PeerLeft")
    BY <2>3, <2>4 DEF Bond
  <2>5. CASE ~Has(outbox[e], "PeerLeft")
    <3>1. d # NoPeer /\ d \in Peer /\ Mate(d) = e
      BY <1>14, <2>1, <2>5, Mates DEF Bond, LinkInv
    <3>2. ~Has(inbox'[e], "Offer") /\ ~Has(inbox'[d], "Offer")
      BY <1>7, <2>1, <2>5, <3>1 DEF Bond
    <3>3. d = q => a.type # "Offer"
      <4> SUFFICES ASSUME d = q, a.type = "Offer" PROVE FALSE
        OBVIOUS
      <4>1. e = c
        BY <1>4, <3>1
      <4> QED BY <1>6, <2>1, <2>5, <4>1 DEF Bond
    <3>4. /\ ~Has(outbox[d], "Offer") => ~Has(outbox'[d], "Offer")
          /\ ~Has(outbox[d], "PeerLeft") => ~Has(outbox'[d], "PeerLeft")
      <4>1. CASE d = q /\ Holders(q) # {}
        <5>1. a.type # "PeerLeft"
          BY DEF Relays
        <5> QED BY <1>9, <3>1, <3>3, <4>1, <5>1
      <4>2. CASE ~(d = q /\ Holders(q) # {})
        BY <3>1, <4>2 DEF Tends
      <4> QED BY <4>1, <4>2
    <3> QED BY <1>3, <2>1, <2>3, <2>5, <3>1, <3>2, <3>4 DEF Bond
  <2> QED BY <2>4, <2>5
<1>15. ASSUME NEW t \in Tab, NEW u \in Tab, NEW e, NEW d, Offers(t, u, e, d)' PROVE Offering(t, u, e, d)'
  <2>1. On(t, e) /\ On(u, d) /\ Mate(e) = d /\ Kind(t) = "Offer" /\ ~Has(outbox'[e], "PeerLeft")
    BY <1>2, <1>3, <1>15 DEF Offers
  <2>2. e \in Peer /\ d \in Peer /\ Holders(e) # {} /\ Holders(d) # {} /\ Mate(d) = e
    <3>1. e \in Peer /\ d \in Peer /\ Holders(e) = {t} /\ Holders(d) = {u}
      BY <1>1, <2>1 DEF Sorts
    <3> QED BY <1>4, <2>1, <3>1, Mates DEF LinkInv
  <2>3. ASSUME NEW k \in Peer, Holders(k) # {}
        PROVE  \A n : Sent(outbox[k], n) => Sent(outbox'[k], n)
    <3>1. outbox[k] \in Seq(Reply)
      BY <1>1 DEF Sorts
    <3>2. outbox'[k] = outbox[k] \/ outbox'[k] = Append(outbox[k], a)
      BY DEF Tends
    <3>3. \A n : Sent(outbox[k], n) => Sent(Append(outbox[k], a), n)
      BY <3>1, Added
    <3> QED BY <3>2, <3>3
  <2>4. ASSUME NEW k \in Peer, Holders(k) # {}, NEW o \in Peer, Holders(o) # {}, Mate(k) = o
        PROVE  \A n : Sent(inbox[k], n) => Sent(inbox'[k], n) \/ Sent(outbox'[o], n)
    <3>1. CASE k = c
      <4>1. o = q /\ q # NoPeer /\ outbox'[q] = Append(outbox[q], a)
        BY <1>4, <1>9, <2>4, <3>1
      <4>2. \A n : a.pc = n => Sent(outbox'[q], n)
        BY <1>4, <4>1, Added
      <4>3. \A n : Sent(inbox[c], n) /\ a.pc # n => Sent(inbox'[c], n)
        BY <1>5, Taken
      <4> QED BY <3>1, <4>1, <4>2, <4>3
    <3>2. CASE k # c
      BY <1>13, <2>4, <3>2
    <3> QED BY <3>1, <3>2
  <2>5. ~Has(outbox[e], "PeerLeft")
    <3>1. outbox[e] \in Seq(Reply)
      BY <1>1, <2>2 DEF Sorts
    <3>2. outbox'[e] = outbox[e] \/ outbox'[e] = Append(outbox[e], a)
      BY <2>2 DEF Tends
    <3>3. Has(outbox[e], "PeerLeft") => Has(Append(outbox[e], a), "PeerLeft")
      BY <3>1, Added
    <3> QED BY <2>1, <3>2, <3>3
  <2>6. Offering(t, u, e, d)
    BY <1>1, <2>1, <2>5 DEF HandshakeInv, Offers
  <2>7. /\ \A n : Sent(outbox[d], n) => Sent(outbox'[d], n)
        /\ \A n : Sent(outbox[e], n) => Sent(outbox'[e], n)
        /\ \A n : Sent(inbox[e], n) => Sent(inbox'[e], n) \/ Sent(outbox'[d], n)
        /\ \A n : Sent(inbox[d], n) => Sent(inbox'[d], n) \/ Sent(outbox'[e], n)
    BY <2>1, <2>2, <2>3, <2>4
  <2> QED BY <1>3, <2>6, <2>7 DEF Offering, Answering
<1> QED BY <1>2, <1>5, <1>10, <1>11, <1>12, <1>14, <1>15, TendsKeeps

(* The server handles the next request of c. *)
LEMMA HandlesLinks ==
  ASSUME MeetInv, MeetInv', LinkInv, NEW c \in Peer, Handles(c)
  PROVE  LinkInv'
<1>1. Types /\ Sorts /\ AskInv /\ WellFormed(registry) /\ Seated(registry) /\ NoPeer \notin Peer
  BY SortsHold, NoPeerIsNone DEF MeetInv, LinkInv
<1>2. PICK m : m = Head(inbox[c])
  OBVIOUS
<1>3. /\ srv[c] = "up" /\ inbox[c] # <<>> /\ inbox' = [inbox EXCEPT ![c] = Tail(@)]
      /\ tab' = tab /\ pcs' = pcs /\ srv' = srv
  BY DEF Handles
<1>4. inbox'[c] = Tail(inbox[c]) /\ \A d \in Peer \ {c} : inbox'[d] = inbox[d]
  BY <1>1, <1>3 DEF Types
<1>5. m \in Request /\ m = inbox[c][1] /\ 1 \in 1..Len(inbox[c]) /\ inbox[c] \in Seq(Request)
  <2>1. inbox[c] \in Seq(Request)
    BY <1>1 DEF Sorts
  <2> QED BY <1>2, <1>3, <2>1, Parts
<1>6. m.type \in Asks => ~Housed(c)
  BY <1>2, <1>3, AsksAlone
<1>7. /\ \A d : ~Housed(d) => Mate(d) = NoPeer /\ ~Early(d)
      /\ \A d : ~Housed(d)' => Mate(d)' = NoPeer /\ ~Early(d)'
  BY DEF Housed, Mate, Partner, Early, First
<1>8. ASSUME NEW q \in Peer \cup {NoPeer}, NEW a \in Reply, outbox' = SendTo(outbox, q, a),
             \A d : Housed(d) => Housed(d)',
             \A d : Housed(d)' /\ ~Housed(d) => d = c,
             \A d : Housed(d)' /\ Early(d) => Early(d)',
             \A d \in Peer \ {c, q} : Mate(d)' = Mate(d) /\ (Early(d)' <=> Early(d)),
             Seated(registry')
      PROVE  Tends(c, q, a)
  <2>1. \A d \in Peer : outbox'[d] = IF d = q /\ Holders(d) # {} THEN Append(outbox[d], a) ELSE outbox[d]
    BY <1>1, <1>8, SendToAdds
  <2> QED BY <1>3, <1>4, <1>8, <2>1 DEF Tends
<1>9. ASSUME NEW r \in Room, m.type \in Asks, ~Contains(registry, r), registry' = Create(registry, c, r),
             outbox' = SendTo(outbox, c, Msg("Created", r, 0))
      PROVE  LinkInv'
  <2>1. PICK a \in Reply : a = Msg("Created", r, 0) /\ a.type = "Created"
    BY MsgFields DEF RoomOrNone
  <2>2. c \notin DOMAIN registry.peer_room
    BY <1>6, <1>9 DEF Housed
  <2>3. /\ Seated(registry') /\ Mate(c)' = NoPeer /\ Early(c)'
        /\ \A d \in DOMAIN registry.peer_room : Mate(d)' = Mate(d) /\ (Early(d)' <=> Early(d))
    BY <1>1, <1>9, <2>2, CreateSeats DEF Mate, Early
  <2>4. \A d : Housed(d)' <=> Housed(d) \/ d = c
    BY <1>9, CreatePlaces DEF Housed
  <2>5. \A d \in Peer \ {c} : Mate(d)' = Mate(d) /\ (Early(d)' <=> Early(d))
    BY <1>7, <2>3, <2>4 DEF Housed
  <2>6. \A d : Early(d) => Early(d)'
    BY <1>7, <2>3 DEF Housed
  <2>7. Tends(c, c, a)
    BY <1>8, <1>9, <2>1, <2>3, <2>4, <2>5, <2>6
  <2>8. a.type \notin Refusals
    BY <2>1 DEF Refusals
  <2> QED BY <1>2, <1>3, <1>9, <2>1, <2>3, <2>4, <2>7, <2>8, ReplyLinks
<1>10. ASSUME NEW y \in Refusals, m.type \in Asks, registry' = registry,
              outbox' = SendTo(outbox, c, Msg(y, NoRoom, 0))
       PROVE  LinkInv'
  <2>1. PICK a \in Reply : a = Msg(y, NoRoom, 0) /\ a.type = y
    BY MsgFields DEF RoomOrNone
  <2>2. \A d : Mate(d)' = Mate(d) /\ (Early(d)' <=> Early(d)) /\ (Housed(d)' <=> Housed(d))
    BY <1>10 DEF Mate, Early, Housed
  <2>3. Tends(c, c, a)
    BY <1>1, <1>8, <1>10, <2>1, <2>2
  <2>4. a.type # "Created" /\ ~Housed(c)'
    BY <1>6, <1>10, <2>1, <2>2 DEF Refusals
  <2> QED BY <1>2, <1>3, <1>10, <2>1, <2>3, <2>4, ReplyLinks
<1>11. ASSUME m.type = "Join", JoinOutcome(registry, m.room) = "Joined",
              registry' = Join(registry, c, m.room),
              outbox' = SendTo(outbox, Partner(registry', c), Msg("PeerJoined", NoRoom, 0))
       PROVE  LinkInv'
  <2>1. PICK a \in Reply : a = Msg("PeerJoined", NoRoom, 0) /\ a.type = "PeerJoined"
    BY MsgFields DEF RoomOrNone, Notices
  <2>2. m.type \in Asks /\ c \notin DOMAIN registry.peer_room
    BY <1>6, <1>11 DEF Housed, Asks
  <2>3. PICK q : q = Mate(c)'
    OBVIOUS
  <2>4. /\ Seated(registry') /\ Housed(q) /\ Mate(q) = NoPeer /\ Early(q) /\ Mate(q)' = c /\ ~Early(c)'
        /\ \A d \in DOMAIN registry.peer_room : Early(d)' <=> Early(d)
        /\ \A d \in DOMAIN registry.peer_room \ {q} : Mate(d)' = Mate(d)
    BY <1>1, <1>11, <2>2, <2>3, JoinSeats DEF Mate, Early, Housed
  <2>5. \A d : Housed(d)' <=> Housed(d) \/ d = c
    BY <1>1, <1>11, JoinPlaces DEF Housed
  <2>6. q \in Peer /\ q # c
    BY <1>1, <2>2, <2>4 DEF Sorts, Housed
  <2>7. \A d \in Peer \ {c, q} : Mate(d)' = Mate(d) /\ (Early(d)' <=> Early(d))
    BY <1>7, <2>4, <2>5 DEF Housed
  <2>8. \A d : Early(d) => Early(d)'
    BY <1>7, <2>4 DEF Housed
  <2>9. outbox' = SendTo(outbox, q, a)
    BY <1>11, <2>1, <2>3 DEF Mate
  <2>10. Tends(c, q, a)
    BY <1>8, <2>4, <2>5, <2>6, <2>7, <2>8, <2>9
  <2>11. Early(q)' /\ Housed(q)' /\ Housed(c)' /\ Mate(c)' = q
    BY <2>3, <2>4, <2>5, <2>8
  <2> QED BY <1>2, <1>3, <2>1, <2>2, <2>4, <2>6, <2>10, <2>11, JoinLinks
<1>12. ASSUME m.type \in Relays, registry' = registry, outbox' = SendTo(outbox, Partner(registry, c), m)
       PROVE  LinkInv'
  <2>1. m \in Reply
    BY <1>5, <1>12 DEF Request, Reply, Notices
  <2>2. PICK q : q = Mate(c)
    OBVIOUS
  <2>3. q \in Peer \cup {NoPeer}
    BY <1>1, <2>2, Mates
  <2>4. \A d : Mate(d)' = Mate(d) /\ (Early(d)' <=> Early(d)) /\ (Housed(d)' <=> Housed(d))
    BY <1>12 DEF Mate, Early, Housed
  <2>5. outbox' = SendTo(outbox, q, m)
    BY <1>12, <2>2 DEF Mate
  <2>6. Tends(c, q, m)
    BY <1>1, <1>8, <1>12, <2>1, <2>3, <2>4, <2>5
  <2> QED BY <1>2, <1>3, <1>4, <1>12, <2>1, <2>2, <2>6, RelayLinks
<1>13. CASE m.type = "Create" /\ (\E r \in Room : Unused(r)) /\ registry' = Create(registry, c, gen_room_id)
            /\ outbox' = SendTo(outbox, c, Msg("Created", gen_room_id, 0))
  <2>1. gen_room_id \in Room /\ Unused(gen_room_id)
    BY <1>13 DEF gen_room_id
  <2>2. ~Contains(registry, gen_room_id) /\ m.type \in Asks
    BY <1>13, <2>1 DEF Unused, Contains, Asks
  <2> QED BY <1>9, <1>13, <2>1, <2>2
<1>14. CASE m.type = "Reclaim" /\ ~Contains(registry, m.room) /\ registry' = Create(registry, c, m.room)
            /\ outbox' = SendTo(outbox, c, Msg("Created", m.room, 0))
  <2>1. m.room \in Room /\ m.type \in Asks
    BY <1>1, <1>5, <1>14 DEF AskInv, Asked, Asks
  <2> QED BY <1>9, <1>14, <2>1
<1>15. CASE m.type \in {"Reclaim", "Join"} /\ registry' = registry
            /\ \E y \in Refusals : outbox' = SendTo(outbox, c, Msg(y, NoRoom, 0))
  BY <1>10, <1>15 DEF Asks
<1>16. m.type = "Join" /\ JoinOutcome(registry, m.room) = "Joined" /\ registry' = Join(registry, c, m.room)
          /\ outbox' = SendTo(outbox, Partner(registry', c), Msg("PeerJoined", NoRoom, 0))
       => LinkInv'
  BY <1>11
<1>17. m.type \in Relays /\ registry' = registry /\ outbox' = SendTo(outbox, Partner(registry, c), m)
       => LinkInv'
  BY <1>12
<1>18. "RoomFull" \in Refusals /\ "RoomNotFound" \in Refusals /\ Relays = {"Offer", "Answer"}
  BY DEF Refusals, Relays
<1> QED BY <1>2, <1>13, <1>14, <1>15, <1>16, <1>17, <1>18 DEF Handles

(* The server cleans up after c and tells the partner, if c had one. *)
LEMMA CleanupLinks ==
  ASSUME MeetInv, MeetInv', LinkInv, NEW c \in Peer, Cleanup(c)
  PROVE  LinkInv'
<1>1. Types /\ Sorts /\ WellFormed(registry) /\ Seated(registry) /\ NoPeer \notin Peer
  BY SortsHold, NoPeerIsNone DEF MeetInv, LinkInv
<1>2. PICK q : q = Mate(c)
  OBVIOUS
<1>3. PICK a \in Reply : a = Msg("PeerLeft", NoRoom, 0) /\ a.type = "PeerLeft"
  BY MsgFields DEF RoomOrNone, Notices
<1>4. /\ Holders(c) = {} /\ inbox[c] = <<>> /\ srv' = [srv EXCEPT ![c] = "gone"]
      /\ registry' = Remove(registry, c) /\ outbox' = SendTo(outbox, q, a)
      /\ tab' = tab /\ pcs' = pcs /\ inbox' = inbox
  BY <1>2, <1>3 DEF Cleanup, Mate
<1>5. q \in Peer \cup {NoPeer}
  BY <1>1, <1>2, Mates
<1>6. /\ Seated(registry') /\ (q # NoPeer => Mate(q)' = NoPeer /\ Early(q)')
      /\ \A d \in DOMAIN registry.peer_room \ {c, q} : Mate(d)' = Mate(d) /\ (Early(d)' <=> Early(d))
  BY <1>1, <1>2, <1>4, RemoveSeats DEF Mate, Early
<1>7. \A d : Housed(d)' <=> Housed(d) /\ d # c
  BY <1>1, <1>4, RemovePlaces DEF Housed
<1>8. /\ \A d : ~Housed(d) => Mate(d) = NoPeer /\ ~Early(d)
      /\ \A d : ~Housed(d)' => Mate(d)' = NoPeer /\ ~Early(d)'
  BY DEF Housed, Mate, Partner, Early, First
<1>9. \A d \in Peer \ {c, q} : Mate(d)' = Mate(d) /\ (Early(d)' <=> Early(d))
  BY <1>6, <1>7, <1>8 DEF Housed
<1>10. \A d : Housed(d)' /\ Early(d) => Early(d)'
  <2> SUFFICES ASSUME NEW d, Housed(d)', Early(d) PROVE Early(d)'
    OBVIOUS
  <2>1. d \in Peer \ {c}
    BY <1>1, <1>7 DEF Sorts
  <2> QED BY <1>1, <1>6, <1>9, <2>1
<1>11. \A d \in Peer : outbox'[d] = IF d = q /\ Holders(d) # {} THEN Append(outbox[d], a) ELSE outbox[d]
  BY <1>1, <1>4, <1>5, SendToAdds
<1>12. \A d \in Peer \ {c} : srv'[d] = srv[d]
  BY <1>1, <1>4 DEF Types
<1>13. Tends(c, q, a)
  BY <1>4, <1>6, <1>7, <1>9, <1>10, <1>11, <1>12 DEF Tends
<1>14. q # NoPeer => Housed(q)'
  BY <1>1, <1>2, <1>7, Mates
<1> QED BY <1>2, <1>3, <1>4, <1>6, <1>13, <1>14, LeftLinks

-----------------------------------------------------------------------------
(* Every step. *)

(* A new server knows nobody: nothing lives there, nothing is under way. *)
LEMMA RestartLinks ==
  ASSUME MeetInv, MeetInv', LinkInv, ServerRestarts
  PROVE  LinkInv'
<1>1. Sorts /\ NamedInv /\ ShownInv /\ StrayInv /\ NoPeer \notin Peer
  BY SortsHold, NoPeerIsNone DEF LinkInv
<1>2. /\ registry' = EmptyRegistry /\ tab' = tab /\ pcs' = pcs
      /\ srv' = [c \in Peer |-> IF srv[c] = "off" THEN "off" ELSE "gone"]
      /\ inbox' = [c \in Peer |-> <<>>] /\ outbox' = [c \in Peer |-> <<>>]
  BY DEF ServerRestarts
<1>3. \A c \in Peer : inbox'[c] = <<>> /\ outbox'[c] = <<>> /\ srv'[c] # "up"
  BY <1>2
<1>4. \A c : ~Housed(c)' /\ Mate(c)' = NoPeer
  BY <1>2, EmptyWellFormed DEF Housed, Mate, Partner
<1>5. \A n, c : ~Lives(n, c)'
  BY <1>4 DEF Lives
<1>6. \A t \in Tab : \A c : On(t, c)' => c \in Peer
  BY <1>1, <1>2 DEF On, Sorts
<1>7. Seated(registry')
  BY <1>2, EmptyWellFormed DEF Seated
<1>8. NamedInv'
  <2>1. \A n \in 1..Len(pcs') : Matches(n)'
    BY <1>1, <1>2 DEF NamedInv, Matches
  <2>2. \A m : ~In(m, <<>>)
    BY DEF In
  <2> QED BY <1>3, <2>1, <2>2 DEF NamedInv
<1>9. ShownInv'
  <2>1. \A t \in Tab : ShowsTruth(t)'
    BY <1>1, <1>2 DEF ShownInv, ShowsTruth
  <2>2. \A t \in Tab : tab'[t].pc # 0 => Holds(t)'
    BY <1>1, <1>2, <1>3, <1>6 DEF ShownInv, Holds
  <2> QED BY <2>1, <2>2 DEF ShownInv
<1>10. StreamInv'
  <2>1. \A k : Flow(k, <<>>)
    BY Nothing
  <2> QED BY <1>3, <1>4, <1>6, <2>1 DEF StreamInv, Fits
<1>11. OfferInv'
  <2>1. \A y : ~Has(<<>>, y)
    BY Nothing
  <2> QED BY <1>3, <2>1 DEF OfferInv
<1>12. OwnInv'
  BY <1>5 DEF OwnInv, Asking, Hearing
<1>13. StrayInv'
  <2> SUFFICES ASSUME NEW n \in 1..Len(pcs)', ~pcs'[n].closed, tab'[pcs'[n].tab].pc # n PROVE Stray(n)'
    BY DEF StrayInv
  <2>1. Stray(n)
    BY <1>1, <1>2 DEF StrayInv
  <2> QED BY <1>2, <1>5, <2>1 DEF Stray
<1>14. BondInv'
  BY <1>5 DEF BondInv
<1>15. PlaceInv'
  BY <1>3, <1>6 DEF PlaceInv
<1>16. HandshakeInv'
  BY <1>1, <1>4, <1>6 DEF HandshakeInv, Offers
<1> QED BY <1>7, <1>8, <1>9, <1>10, <1>11, <1>12, <1>13, <1>14, <1>15, <1>16 DEF LinkInv

(* A step that changes nothing. *)
LEMMA StutterLinks ==
  ASSUME LinkInv, UNCHANGED vars
  PROVE  LinkInv'
<1>1. tab' = tab /\ pcs' = pcs /\ registry' = registry /\ srv' = srv /\ inbox' = inbox /\ outbox' = outbox
  BY DEF vars
<1>2. Seated(registry') /\ NamedInv' /\ ShownInv'
  BY <1>1 DEF LinkInv, NamedInv, ShownInv, Names, Matches, Holds, ShowsTruth, On, Housed
<1>3. StreamInv' /\ OfferInv'
  BY <1>1 DEF LinkInv, StreamInv, OfferInv, On, Fits, Kind, Early, Mate, Housed
<1>4. OwnInv' /\ StrayInv'
  BY <1>1 DEF LinkInv, OwnInv, StrayInv, Stray, Asking, Hearing, Lives, On, Mate, Housed
<1>5. BondInv'
  BY <1>1 DEF LinkInv, BondInv, Bond, Bonded, Lives, On, Mate, Housed, Holders
<1>6. PlaceInv'
  BY <1>1 DEF LinkInv, PlaceInv, HasPlace, On, Housed
<1>7. HandshakeInv'
  BY <1>1 DEF LinkInv, HandshakeInv, Offers, Offering, Answering, On, Mate, Kind
<1> QED BY <1>2, <1>3, <1>4, <1>5, <1>6, <1>7 DEF LinkInv

(* At the start there is no page, no peer connection and no room. *)
LEMMA LinkInit == Init => LinkInv
<1> SUFFICES ASSUME Init PROVE LinkInv
  OBVIOUS
<1>1. /\ tab = [t \in Tab |-> NoPage] /\ pcs = <<>> /\ registry = EmptyRegistry
      /\ inbox = [c \in Peer |-> <<>>] /\ outbox = [c \in Peer |-> <<>>]
  BY DEF Init
<1>2. NoPage.ws = "OFF" /\ NoPage.pc = 0 /\ NoPage.status = "Idle"
  BY DEF NoPage, Mounted
<1>3. \A t \in Tab : tab[t].ws = "OFF" /\ tab[t].pc = 0 /\ tab[t].status = "Idle"
  BY <1>1, <1>2
<1>4. \A c \in Peer : inbox[c] = <<>> /\ outbox[c] = <<>>
  BY <1>1
<1>5. \A t \in Tab : \A c : ~On(t, c)
  BY <1>3 DEF On
<1>6. 1..Len(pcs) = {} /\ \A n, c : ~Lives(n, c)
  <2>1. Len(pcs) = 0
    BY <1>1
  <2>2. 1..Len(pcs) = {}
    BY <2>1
  <2> QED BY <2>2 DEF Lives
<1>7. (\A y : ~Has(<<>>, y)) /\ \A m : ~In(m, <<>>)
  BY Nothing DEF In
<1>8. Seated(registry)
  BY <1>1, EmptyWellFormed DEF Seated
<1>9. NamedInv /\ OfferInv
  BY <1>4, <1>6, <1>7 DEF NamedInv, OfferInv
<1>10. ShownInv
  BY <1>3 DEF ShownInv, ShowsTruth
<1>11. StreamInv /\ PlaceInv /\ HandshakeInv
  BY <1>5 DEF StreamInv, PlaceInv, HandshakeInv, Offers
<1>12. OwnInv /\ StrayInv /\ BondInv
  BY <1>5, <1>6 DEF OwnInv, Asking, StrayInv, BondInv
<1> QED BY <1>8, <1>9, <1>10, <1>11, <1>12 DEF LinkInv

(* Every step keeps the invariant, up to a socket that is replaced before  *)
(* its onclose.                                                            *)
LEMMA LinkStep ==
  ASSUME MeetInv, MeetInv', LinkedInv, Next \/ UNCHANGED vars
  PROVE  LinkedInv'
<1> SUFFICES ASSUME ~unseen' PROVE LinkInv'
  BY DEF LinkedInv
<1>1. LinkInv
  <2>1. UNCHANGED unseen \/ \E t \in Tab : Reconnects(t)
    BY DEF Next, Page, User, Trouble, Rtc, vars, bounds, Delivers, Opens, Closes, Visits, Unloads,
           Reloads, JoinsByCode, StartsOver, Leaves, Drops, CloseStarts, ConnectFails, BuildFails,
           Describes, CtrlOpens, Handles, Cleanup, ServerRestarts
  <2>2. ~unseen
    BY <2>1 DEF Reconnects
  <2> QED BY <2>2 DEF LinkedInv
<1>2. ASSUME NEW t \in Tab, Delivers(t) \/ BuildFails(t) PROVE LinkInv'
  BY <1>1, <1>2, ReadsLinks
<1>3. ASSUME NEW t \in Tab,
             \/ Closes(t) \/ Reconnects(t) \/ User(t)
             \/ Drops(t, "drop") \/ Drops(t, "sleep") \/ CloseStarts(t) \/ ConnectFails(t)
      PROVE  LinkInv'
  <2>1. Going(t)
    BY <1>1, <1>3, GoingPage
  <2>2. Types /\ Built /\ SockInv
    BY DEF MeetInv
  <2>3. Quits(t)
    BY <1>3, <2>2, QuitsPage
  <2> QED BY <1>1, <2>1, <2>3, GoingKeeps
<1>4. ASSUME NEW t \in Tab, Opens(t) PROVE LinkInv'
  BY <1>1, <1>4, OpensLinks
<1>5. ASSUME NEW t \in Tab, Page(t) \/ User(t) \/ Trouble(t) PROVE LinkInv'
  BY <1>2, <1>3, <1>4, <1>5 DEF Page, Trouble
<1>6. ASSUME NEW i \in 1..Len(pcs), Describes(i) \/ CtrlOpens(i) PROVE LinkInv'
  BY <1>1, <1>6, DescribesLinks, CtrlOpensLinks
<1>7. CASE Rtc
  BY <1>6, <1>7 DEF Rtc
<1>8. ASSUME NEW c \in Peer, Handles(c) \/ Cleanup(c) PROVE LinkInv'
  BY <1>1, <1>8, HandlesLinks, CleanupLinks
<1>9. CASE ServerRestarts
  BY <1>1, <1>9, RestartLinks
<1>10. CASE UNCHANGED vars
  BY <1>1, <1>10, StutterLinks
<1> QED BY <1>5, <1>7, <1>8, <1>9, <1>10 DEF Next

(* Until a socket is replaced before its onclose, the link invariant holds:*)
(* the peer connection that a page holds, what is under way to and from    *)
(* its connection, and its place in the server's registry fit each other,  *)
(* whatever drops, reloads, restarts and failures there are (app.rs        *)
(* 204-300, 325-388, ws.rs 218-256).                                       *)
THEOREM RendezvousLinkInvariant == Spec => []LinkedInv
<1>1. Init => LinkedInv
  BY LinkInit DEF LinkedInv
<1>2. MeetInv /\ MeetInv' /\ LinkedInv /\ [Next]_vars => LinkedInv'
  BY LinkStep
<1> QED BY <1>1, <1>2, RendezvousInvariant, PTL DEF Spec

-----------------------------------------------------------------------------
(* At rest. *)

(* Nothing is under way, every peer connection that a page holds lives     *)
(* somewhere, and every place is of a page.                                *)
LEMMA Resting ==
  ASSUME MeetInv, LinkInv, AtRest, silent = {}
  PROVE  /\ \A c \in Peer : /\ inbox[c] = <<>> /\ outbox[c] = <<>>
                            /\ \A y : ~Has(inbox[c], y) /\ ~Has(outbox[c], y)
                            /\ \A n : ~Sent(inbox[c], n) /\ ~Sent(outbox[c], n)
         /\ \A t \in Tab : \A c : On(t, c) => srv[c] = "up"
         /\ \A t \in Tab : tab[t].pc # 0 =>
               /\ tab[t].pc \in 1..Len(pcs) /\ pcs[tab[t].pc].tab = t
               /\ Lives(tab[t].pc, tab[t].sock) /\ On(t, tab[t].sock)
         /\ \A c : Housed(c) => Holders(c) # {}
<1>1. Sorts /\ ShownInv
  BY SortsHold DEF LinkInv
<1>2. \A c \in Peer : /\ inbox[c] = <<>> /\ outbox[c] = <<>>
                      /\ \A y : ~Has(inbox[c], y) /\ ~Has(outbox[c], y)
                      /\ \A n : ~Sent(inbox[c], n) /\ ~Sent(outbox[c], n)
  <2>1. \A c \in Peer : inbox[c] = <<>> /\ outbox[c] = <<>>
    BY DEF AtRest
  <2>2. (\A y : ~Has(<<>>, y)) /\ \A n : ~Sent(<<>>, n)
    BY Nothing
  <2> QED BY <2>1, <2>2
<1>3. \A t \in Tab : \A c : On(t, c) => srv[c] = "up"
  BY DEF AtRest, On
<1>4. ASSUME NEW t \in Tab, tab[t].pc # 0
      PROVE  /\ tab[t].pc \in 1..Len(pcs) /\ pcs[tab[t].pc].tab = t
             /\ Lives(tab[t].pc, tab[t].sock) /\ On(t, tab[t].sock)
  <2>1. tab[t].pc \in 1..Len(pcs)
    BY <1>1, <1>4 DEF Sorts
  <2>2. Holds(t) /\ pcs[tab[t].pc].tab = t /\ tab[t].ws \in {"OPEN", "CLOSING"}
    BY <1>1, <1>4 DEF ShownInv, Holds
  <2>3. On(t, tab[t].sock)
    BY <2>2 DEF AtRest, On
  <2>4. Housed(tab[t].sock)
    BY <1>3, <2>2, <2>3 DEF Holds
  <2> QED BY <2>1, <2>2, <2>3, <2>4 DEF Lives
<1>5. \A c : Housed(c) => Holders(c) # {}
  BY <1>1 DEF Sorts, AtRest
<1> QED BY <1>2, <1>3, <1>4, <1>5

(* Two pages whose peer connections have each other's descriptions are     *)
(* together.                                                               *)
LEMMA Meeting ==
  ASSUME MeetInv, LinkInv, AtRest, silent = {}, NEW t \in Tab, NEW u \in Tab,
         tab[t].pc # 0, tab[u].pc # 0,
         pcs[tab[t].pc].remote = tab[u].pc, pcs[tab[u].pc].remote = tab[t].pc
  PROVE  Together(t, u) /\ tab[t].status = "Connected" /\ tab[u].status = "Connected"
<1> DEFINE n == tab[t].pc
           m == tab[u].pc
<1>1. Sorts /\ ShownInv /\ Holds(t) /\ Holds(u) /\ ShowsTruth(t) /\ ShowsTruth(u)
  BY SortsHold DEF LinkInv, ShownInv
<1>2. n \in 1..Len(pcs) /\ m \in 1..Len(pcs) /\ ~pcs[n].closed /\ ~pcs[m].closed
  BY <1>1 DEF Sorts, Holds
<1>3. pcs[n].local /\ pcs[m].local /\ ~Linked(n) /\ ~Linked(m)
  BY <1>2 DEF AtRest
<1>4. pcs[n].opened /\ pcs[m].opened
  BY <1>2, <1>3 DEF Linked
<1> QED BY <1>1, <1>4 DEF Holds, ShowsTruth, Together

(* A tab that shows Connected is, for any number of tabs and after any     *)
(* sequence of drops, reloads, restarts and failures: at rest the peer     *)
(* connection that it holds, and its Transfer, reach those of another tab  *)
(* that shows Connected too (app.rs 204-225, 283-295, 465-477).            *)
THEOREM RendezvousConnectedIsMutual == Spec => []ConnectedIsMutual
<1>1. ASSUME MeetInv, LinkedInv PROVE ConnectedIsMutual
  <2> SUFFICES ASSUME AtRest, Reported, NEW t \in Tab, tab[t].status = "Connected"
               PROVE  \E u \in Tab \ {t} : tab[u].status = "Connected" /\ Together(t, u)
    BY DEF ConnectedIsMutual
  <2>1. LinkInv /\ silent = {}
    BY <1>1 DEF LinkedInv, Reported
  <2>2. Sorts /\ NamedInv /\ ShownInv /\ BondInv /\ Seated(registry)
    BY <1>1, <2>1, SortsHold DEF LinkInv
  <2>3. PICK n, c, d : n = tab[t].pc /\ c = tab[t].sock /\ d = Mate(c)
    OBVIOUS
  <2>4. n # 0 /\ pcs[n].opened
    BY <2>2, <2>3 DEF ShownInv, ShowsTruth
  <2>5. n \in 1..Len(pcs) /\ Lives(n, c) /\ On(t, c)
    BY <1>1, <2>1, <2>3, <2>4, Resting
  <2>6. PICK m : m = pcs[n].remote
    OBVIOUS
  <2>7. m \in 1..Len(pcs) /\ pcs[m].remote = n
    <3>1. Matches(n) /\ pcs[n].remote \in 0..Len(pcs)
      BY <2>2, <2>5 DEF NamedInv, Sorts
    <3>2. m # 0 /\ pcs[m].remote = n
      BY <2>4, <2>6, <3>1 DEF Matches
    <3> QED BY <2>2, <2>6, <3>1, <3>2 DEF Sorts
  <2>8. Bond(m, c, d)
    BY <2>2, <2>3, <2>5, <2>6, <2>7 DEF BondInv, Bonded
  <2>9. d # NoPeer /\ (Lives(m, d) \/ Holders(d) = {})
    BY <1>1, <2>1, <2>2, <2>5, <2>8, Resting DEF Bond, Sorts
  <2>10. Housed(d) /\ d # c
    BY <1>1, <2>2, <2>3, <2>9, Mates
  <2>11. Lives(m, d)
    BY <1>1, <2>1, <2>9, <2>10, Resting
  <2>12. PICK u \in Tab : tab[u].pc = m /\ On(u, d)
    BY <2>2, <2>11 DEF Sorts
  <2>13. u # t
    BY <2>5, <2>10, <2>12 DEF On
  <2>14. m # 0
    BY <2>2, <2>7 DEF Sorts
  <2>15. Together(t, u) /\ tab[u].status = "Connected"
    BY <1>1, <2>1, <2>3, <2>4, <2>6, <2>7, <2>12, <2>14, Meeting
  <2> QED BY <2>13, <2>15
<1>2. MeetInv /\ LinkedInv => ConnectedIsMutual
  BY <1>1
<1> QED BY <1>2, RendezvousInvariant, RendezvousLinkInvariant, PTL

(* The first of two in a room has made its offer, the second has answered  *)
(* it, and the answer has arrived, or another came first.                  *)
LEMMA PairRests ==
  ASSUME MeetInv, LinkInv, AtRest, silent = {}, NEW t \in Tab, NEW u \in Tab, NEW c, NEW d,
         On(t, c), On(u, d), Mate(c) = d, d # NoPeer, Early(c),
         tab[t].status # "Error", tab[u].status # "Error"
  PROVE  Together(t, u) \/ Crossed(t)
<1>1. Sorts /\ ShownInv /\ StreamInv /\ BondInv /\ HandshakeInv /\ Seated(registry)
  BY SortsHold DEF LinkInv
<1>2. /\ c \in Peer /\ d \in Peer /\ Housed(c) /\ Housed(d)
  BY <1>1, Mates DEF Sorts
<1>3. PICK n, m : n = tab[t].pc /\ m = tab[u].pc
  OBVIOUS
<1>4. /\ \A y : ~Has(outbox[c], y)
      /\ \A i : ~Sent(inbox[c], i) /\ ~Sent(inbox[d], i) /\ ~Sent(outbox[c], i) /\ ~Sent(outbox[d], i)
  BY <1>2, Resting
<1>5. Kind(t) = "Offer"
  <2>1. Seat(Kind(t), tab[t].status, outbox[c], Early(c), Mate(c) = NoPeer)
    BY <1>1, <1>2 DEF StreamInv, Fits
  <2>2. Kind(t) # "Answer" /\ Kind(t) # "None"
    BY <1>4, <2>1 DEF Seat
  <2>3. Kind(t) \in {"None", "Offer", "Answer"}
    BY <1>1 DEF Kind, Sorts
  <2> QED BY <2>2, <2>3
<1>6. n # 0 /\ pcs[n].role = "Offer"
  BY <1>3, <1>5 DEF Kind
<1>7. n \in 1..Len(pcs) /\ pcs[n].local /\ Lives(n, c)
  <2>1. n \in 1..Len(pcs) /\ Lives(n, c)
    BY <1>3, <1>6, Resting DEF On
  <2>2. ~pcs[n].closed
    BY <1>1, <1>3, <1>6 DEF ShownInv, Holds
  <2> QED BY <2>1, <2>2 DEF AtRest
<1>8. Answering(t, u, c, d)
  <2>1. Offers(t, u, c, d)
    BY <1>4, <1>5 DEF Offers
  <2>2. Offering(t, u, c, d)
    BY <1>1, <2>1 DEF HandshakeInv
  <2> QED BY <1>3, <1>4, <1>7, <2>2 DEF Offering
<1>9. m # 0 /\ pcs[m].remote = n
  BY <1>3, <1>8 DEF Answering
<1>10. m \in 1..Len(pcs) /\ pcs[m].local
  <2>1. m \in 1..Len(pcs)
    BY <1>3, <1>9, Resting
  <2>2. ~pcs[m].closed
    BY <1>1, <1>3, <1>9 DEF ShownInv, Holds
  <2> QED BY <2>1, <2>2 DEF AtRest
<1>11. pcs[n].remote # 0
  BY <1>3, <1>4, <1>8, <1>10 DEF Answering
<1>12. CASE pcs[n].remote = m
  BY <1>3, <1>6, <1>9, <1>12, Meeting
<1>13. CASE pcs[n].remote # m
  <2>1. PICK k : k = pcs[n].remote
    OBVIOUS
  <2>2. k \in 1..Len(pcs)
    BY <1>1, <1>7, <1>11, <2>1 DEF Sorts
  <2>3. ASSUME pcs[k].remote = n PROVE FALSE
    <3>1. Bond(k, c, d)
      BY <1>1, <1>6, <1>7, <2>2, <2>3 DEF BondInv, Bonded
    <3>2. Lives(k, d) \/ Holders(d) = {}
      BY <1>4, <3>1 DEF Bond
    <3>3. Lives(k, d)
      BY <1>2, <3>2, Resting
    <3>4. tab[pcs[k].tab].pc = k /\ On(pcs[k].tab, d) /\ pcs[k].tab \in Tab
      BY <1>1, <3>3 DEF Sorts
    <3>5. Holders(d) = {pcs[k].tab} /\ Holders(d) = {u}
      BY <1>1, <3>4 DEF Sorts
    <3>6. pcs[k].tab = u
      BY <3>5
    <3> QED BY <1>3, <1>13, <2>1, <3>4, <3>6
  <2> QED BY <1>3, <1>6, <1>11, <2>1, <2>3 DEF Crossed
<1> QED BY <1>12, <1>13

(* Two tabs with the same room in their URL end up together, for any       *)
(* number of tabs and after any sequence of drops, reloads, restarts and   *)
(* failures, unless one shows that it has given up, or an answer met the   *)
(* wrong offer (app.rs 325-388, ws.rs 218-256).                            *)
THEOREM RendezvousPairMeets == Spec => []PairMeets
<1>1. ASSUME MeetInv, LinkedInv PROVE PairMeets
  <2> SUFFICES ASSUME AtRest, Reported, NEW t \in Tab, NEW u \in Tab, Roommates(t, u),
                      tab[t].status \notin DeadEnd, tab[u].status \notin DeadEnd
               PROVE  Together(t, u) \/ Crossed(t) \/ Crossed(u)
    BY DEF PairMeets
  <2>1. LinkInv /\ silent = {}
    BY <1>1 DEF LinkedInv, Reported
  <2>2. Sorts /\ PlaceInv /\ Seated(registry) /\ WellFormed(registry) /\ TellInv /\ SockInv /\ NoPeer \notin Peer
    BY <1>1, <2>1, SortsHold, NoPeerIsNone DEF LinkInv, MeetInv
  <2>3. ASSUME NEW v \in Tab, tab[v].ws = "OPEN", tab[v].status \notin DeadEnd, NEW e, e = tab[v].sock
        PROVE  /\ On(v, e) /\ e \in Peer
               /\ e \in Inside(registry, tab[v].session.room_in_hash)
    <3>1. On(v, e) /\ e \in Peer /\ srv[e] = "up"
      BY <2>2, <2>3 DEF On, Sorts, AtRest
    <3>2. inbox[e] = <<>> /\ outbox[e] = <<>>
      BY <3>1 DEF AtRest
    <3>3. ~HasAsk(<<>>) /\ ~HasRefusal(<<>>)
      BY DEF HasAsk, HasRefusal
    <3>4. tab[v].status \notin Refusals
      BY <2>3 DEF DeadEnd, Refusals
    <3>5. HasPlace(e)
      BY <2>2, <3>1, <3>4 DEF PlaceInv
    <3>6. e \in DOMAIN registry.peer_room
      BY <3>2, <3>3, <3>5 DEF HasPlace, Housed
    <3>7. Told(e, inbox[e], outbox[e], tab[v].session.room_in_hash, registry.peer_room)
      BY <2>2, <2>3 DEF TellInv
    <3>8. registry.peer_room[e] = tab[v].session.room_in_hash
      BY <3>2, <3>6, <3>7 DEF Told
    <3> QED BY <2>2, <3>1, <3>6, <3>8 DEF Seated
  <2>4. PICK c, d : c = tab[t].sock /\ d = tab[u].sock
    OBVIOUS
  <2>5. /\ t # u /\ tab[t].ws = "OPEN" /\ tab[u].ws = "OPEN"
        /\ tab[u].session.room_in_hash = tab[t].session.room_in_hash
    BY DEF Roommates
  <2>6. /\ On(t, c) /\ c \in Peer /\ c \in Inside(registry, tab[t].session.room_in_hash)
        /\ On(u, d) /\ d \in Peer /\ d \in Inside(registry, tab[t].session.room_in_hash)
    BY <2>3, <2>4, <2>5
  <2>7. c # d /\ c # NoPeer /\ d # NoPeer
    BY <2>2, <2>4, <2>5, <2>6 DEF SockInv
  <2>8. Mate(c) = d /\ Mate(d) = c
    BY <2>2, <2>6, <2>7, PartnersPair DEF Mate
  <2>9. Early(c) \/ Early(d)
    BY <1>1, <2>2, <2>7, <2>8, Mates
  <2>10. tab[t].status # "Error" /\ tab[u].status # "Error"
    BY DEF DeadEnd
  <2>11. CASE Early(c)
    BY <1>1, <2>1, <2>6, <2>7, <2>8, <2>10, <2>11, PairRests
  <2>12. CASE Early(d)
    <3>1. Together(u, t) \/ Crossed(u)
      BY <1>1, <2>1, <2>6, <2>7, <2>8, <2>10, <2>12, PairRests
    <3> QED BY <3>1 DEF Together
  <2> QED BY <2>9, <2>11, <2>12
<1>2. MeetInv /\ LinkedInv => PairMeets
  BY <1>1
<1> QED BY <1>2, RendezvousInvariant, RendezvousLinkInvariant, PTL

=============================================================================
