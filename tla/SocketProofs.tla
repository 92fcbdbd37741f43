---------------------------- MODULE SocketProofs ----------------------------
(* Theorems about the reconnecting socket, for every bound on the attempts *)
(* and on the timers pending at a time.                                    *)
EXTENDS Socket, TLAPS

(* RetryPending with what a step needs to know to count timers. *)
RetryInv == ws \in Link!ReadyState /\ timers \in Nat /\ RetryPending

(* What SignalingLink promises, but for its fairness. *)
LinkSafe == Link!Init /\ [][Link!Next]_ws

USE DEF Link!Live, Link!ReadyState

LEMMA RetryInit == Init => RetryInv
BY DEF Init, RetryInv, RetryPending

(* reconnect_now leaves a socket that is not closed, or sets a timeout. *)
LEMMA ReconnectRetries ==
    ASSUME NEW n, NEW pending \in Nat, ws \in Link!ReadyState,
           reconnect_now(n, pending)
    PROVE  /\ ws' \in Link!ReadyState /\ timers' \in Nat
           /\ ws' = ws \/ (ws \notin Link!Live /\ ws' = "CONNECTING")
           /\ ws' = "CLOSED" => timers' > 0
<1>1. CASE ws \in Link!Live /\ timers' = pending /\ attempt' = n /\ UNCHANGED <<ws, delay>>
  BY <1>1
<1>2. CASE /\ ws \notin Link!Live /\ ws' = "CONNECTING"
           /\ timers' = pending /\ attempt' = n /\ UNCHANGED delay
  BY <1>2
<1>3. CASE ws \notin Link!Live /\ schedule_reconnect(n, pending) /\ UNCHANGED ws
  <2>1. timers' = pending + 1 /\ ws' = ws
    BY <1>3 DEF schedule_reconnect
  <2> QED BY <2>1
<1> QED BY <1>1, <1>2, <1>3 DEF reconnect_now

LEMMA RetryStep ==
    ASSUME RetryInv, [Next]_vars
    PROVE  RetryInv' /\ [Link!Next]_ws
<1> USE DEF RetryInv, RetryPending
<1>1. CASE OnOpen
  BY <1>1 DEF OnOpen, Link!Next, Link!Open
<1>2. CASE OnClose
  <2>1. ws # "CLOSED" /\ ws' = "CLOSED"
    BY <1>2 DEF OnClose, Closable
  <2>2. timers' = timers + 1
    BY <1>2 DEF OnClose, schedule_reconnect
  <2> QED BY <2>1, <2>2 DEF Link!Next, Link!Close
<1>3. CASE CloseStarts
  BY <1>3 DEF CloseStarts, Link!Next, Link!Closing
<1>4. CASE TimerFires
  <2>1. timers - 1 \in Nat /\ reconnect_now(attempt, timers - 1)
    BY <1>4 DEF TimerFires
  <2> QED BY <2>1, ReconnectRetries DEF Link!Next, Link!Replace
<1>5. CASE Online
  <2>1. reconnect_now(0, timers)
    BY <1>5 DEF Online
  <2> QED BY <2>1, ReconnectRetries DEF Link!Next, Link!Replace
<1>6. CASE ReachChanges
  BY <1>6 DEF ReachChanges
<1>7. CASE UNCHANGED vars
  BY <1>7 DEF vars
<1> QED BY <1>1, <1>2, <1>3, <1>4, <1>5, <1>6, <1>7 DEF Next

(* A closed socket always has a timeout pending (signaling.rs 161-212). *)
THEOREM SocketRetryPending == Spec => []RetryPending
<1>1. RetryInv /\ [Next]_vars => RetryInv'
  BY RetryStep
<1>2. RetryInv => RetryPending
  BY DEF RetryInv
<1> QED BY RetryInit, <1>1, <1>2, PTL DEF Spec

(* Socket implements the safety part of SignalingLink: a socket is         *)
(* replaced only when it is closing or closed (signaling.rs 174-189).      *)
THEOREM SocketImplementsLink == Spec => LinkSafe
<1>1. Init => Link!Init
  BY DEF Init, Link!Init
<1>2. RetryInv /\ [Next]_vars => RetryInv'
  BY RetryStep
<1>3. RetryInv /\ [Next]_vars => [Link!Next]_ws
  BY RetryStep
<1> QED BY RetryInit, <1>1, <1>2, <1>3, PTL DEF Spec, LinkSafe

-----------------------------------------------------------------------------
(* The backoff.                                                            *)

(* The powers of two that next_backoff computes with. *)
LEMMA PowerOf ==
    ASSUME NEW k
    PROVE  /\ (k = 0 => 2^k = 1) /\ (k = 1 => 2^k = 2) /\ (k = 2 => 2^k = 4) /\ (k = 3 => 2^k = 8)
           /\ (k = 4 => 2^k = 16) /\ (k = 5 => 2^k = 32) /\ (k = 6 => 2^k = 64) /\ (k = 7 => 2^k = 128)
           /\ (k = 8 => 2^k = 256) /\ (k = 9 => 2^k = 512) /\ (k = 10 => 2^k = 1024) /\ (k = 11 => 2^k = 2048)
           /\ (k = 12 => 2^k = 4096) /\ (k = 13 => 2^k = 8192)
<1>1. /\ 2^0 = 1 /\ 2^1 = 2 /\ 2^2 = 4 /\ 2^3 = 8
  OBVIOUS
<1>2. /\ (k = 0 => 2^k = 1) /\ (k = 1 => 2^k = 2) /\ (k = 2 => 2^k = 4) /\ (k = 3 => 2^k = 8)
  BY <1>1, Zenon
<1>3. /\ 2^4 = 16 /\ 2^5 = 32 /\ 2^6 = 64 /\ 2^7 = 128
  OBVIOUS
<1>4. /\ (k = 4 => 2^k = 16) /\ (k = 5 => 2^k = 32) /\ (k = 6 => 2^k = 64) /\ (k = 7 => 2^k = 128)
  BY <1>3, Zenon
<1>5. ASSUME k = 8 PROVE 2^k = 256
  BY <1>5
<1>6. ASSUME k = 9 PROVE 2^k = 512
  BY <1>6
<1>7. ASSUME k = 10 PROVE 2^k = 1024
  BY <1>7
<1>8. ASSUME k = 11 PROVE 2^k = 2048
  BY <1>8
<1>9. ASSUME k = 12 PROVE 2^k = 4096
  BY <1>9
<1>10. ASSUME k = 13 PROVE 2^k = 8192
  BY <1>10
<1> QED BY <1>2, <1>4, <1>5, <1>6, <1>7, <1>8, <1>9, <1>10

(* Of the nine bits of 500, bit 2 is the lowest that is set. *)
LEMMA BitsKept ==
    ASSUME NEW k \in Nat \ {0}
    PROVE  /\ LowBits(500, k) \in 0..500
           /\ k >= 3 => LowBits(500, k) # 0
           /\ k >= 9 => LowBits(500, k) = 500
<1>1. CASE k >= 9
  BY <1>1 DEF LowBits
<1>2. CASE k < 9
  <2>1. LowBits(500, k) = 500 % 2^k
    BY <1>2 DEF LowBits
  <2>2. 2^k \in {2, 4, 8, 16, 32, 64, 128, 256} /\ (k >= 3 => 2^k \notin {2, 4})
    BY <1>2, PowerOf
  <2>3. \A p \in {2, 4, 8, 16, 32, 64, 128, 256} : 500 % p \in 0..500 /\ (p \notin {2, 4} => 500 % p # 0)
    OBVIOUS
  <2> QED BY <1>2, <2>1, <2>2, <2>3
<1> QED BY <1>1, <1>2

(* No delay is above the cap, whatever the width. *)
LEMMA BackoffCapped ==
    ASSUME NEW n \in Nat
    PROVE  next_backoff(n) \in 0..BACKOFF_CAP_MS
<1> DEFINE kept == LowBits(500, Width - n)
<1>1. n < Width => kept \in 0..500
  <2>1. n < Width => Width - n \in Nat \ {0}
    BY SocketAssumption
  <2> QED BY <2>1, BitsKept
<1>2. next_backoff(n) = CASE n >= Width              -> 15000
                          [] n < Width /\ kept = 0   -> 0
                          [] n < Width /\ kept # 0 /\ n >= 14 -> 15000
                          [] OTHER -> IF kept * 2^n < 15000 THEN kept * 2^n ELSE 15000
  BY DEF next_backoff, BACKOFF_BASE_MS, BACKOFF_CAP_MS
<1> HIDE DEF kept
<1>3. ASSUME n < Width, n < 14 PROVE kept * 2^n \in Nat
  <2>1. 2^n \in Nat
    BY <1>3, PowerOf
  <2>2. \A a, b \in Nat : a * b \in Nat
    OBVIOUS
  <2> QED BY <1>1, <1>3, <2>1, <2>2
<1>4. CASE n >= Width
  BY <1>2, <1>4, SocketAssumption DEF BACKOFF_CAP_MS
<1>5. CASE n < Width
  <2>1. CASE kept = 0
    BY <1>2, <1>5, <2>1, SocketAssumption DEF BACKOFF_CAP_MS
  <2>2. CASE kept # 0 /\ n >= 14
    BY <1>2, <1>5, <2>2, SocketAssumption DEF BACKOFF_CAP_MS
  <2>3. CASE kept # 0 /\ n < 14
    <3> DEFINE v == kept * 2^n
    <3>1. next_backoff(n) = IF v < 15000 THEN v ELSE 15000
      BY <1>2, <1>5, <2>3, SocketAssumption
    <3>2. v \in Nat
      BY <1>3, <1>5, <2>3
    <3> HIDE DEF v
    <3> QED BY <3>1, <3>2 DEF BACKOFF_CAP_MS
  <2> QED BY <2>1, <2>2, <2>3
<1> QED BY <1>4, <1>5, SocketAssumption

(* While enough bits are left, the delay doubles up to the cap. *)
LEMMA BackoffDoubles ==
    ASSUME NEW n \in Nat, n + 3 <= Width, Width >= 22
    PROVE  next_backoff(n) = CASE n = 0 -> 500 [] n = 1 -> 1000 [] n = 2 -> 2000
                               [] n = 3 -> 4000 [] n = 4 -> 8000 [] OTHER -> BACKOFF_CAP_MS
<1> DEFINE kept == LowBits(500, Width - n)
<1>1. kept # 0 /\ (n < 14 => kept = 500)
  <2>1. Width - n \in Nat \ {0} /\ Width - n >= 3 /\ (n < 14 => Width - n >= 9)
    BY SocketAssumption
  <2> QED BY <2>1, BitsKept
<1>2. next_backoff(n) = CASE n >= Width              -> 15000
                          [] n < Width /\ kept = 0   -> 0
                          [] n < Width /\ kept # 0 /\ n >= 14 -> 15000
                          [] OTHER -> IF kept * 2^n < 15000 THEN kept * 2^n ELSE 15000
  BY DEF next_backoff, BACKOFF_BASE_MS, BACKOFF_CAP_MS
<1> HIDE DEF kept
<1>3. CASE n >= 14
  <2>1. next_backoff(n) = 15000
    BY <1>1, <1>2, <1>3, SocketAssumption
  <2> QED BY <1>3, <2>1 DEF BACKOFF_CAP_MS
<1>4. CASE n < 14
  <2>1. next_backoff(n) = IF 500 * 2^n < 15000 THEN 500 * 2^n ELSE 15000
    BY <1>1, <1>2, <1>4, SocketAssumption
  <2> QED BY <1>4, <2>1, PowerOf DEF BACKOFF_CAP_MS
<1> QED BY <1>3, <1>4

(* The delay is that of the last attempt. *)
BackoffInv ==
    /\ TypeOK /\ attempt <= MaxAttempt
    /\ attempt > 0 => delay = next_backoff(attempt - 1)

(* What one more attempt, or none, does to the backoff. *)
Backs(n) ==
    \/ attempt' = n /\ delay' = delay
    \/ n < MaxAttempt /\ attempt' = n + 1 /\ delay' = next_backoff(n)

(* Every step is such a step, of the attempts made so far or of none. *)
LEMMA StepBacks ==
    ASSUME TypeOK, [Next]_vars
    PROVE  Backs(attempt) \/ Backs(0)
BY DEF Next, vars, OnOpen, OnClose, CloseStarts, TimerFires, Online, ReachChanges,
       reconnect_now, schedule_reconnect, Backs

(* So every step keeps the invariant. *)
LEMMA BackoffStep ==
    ASSUME BackoffInv, [Next]_vars
    PROVE  BackoffInv'
<1>0. /\ TypeOK
      /\ attempt \in Nat /\ timers \in Nat /\ MaxAttempt \in Nat
  BY SocketAssumption DEF BackoffInv, TypeOK
<1>1. PICK n \in {attempt, 0} : Backs(n)
  BY <1>0, StepBacks
<1>2. n \in Nat /\ n <= MaxAttempt /\ (n > 0 => delay = next_backoff(n - 1))
  BY <1>0 DEF BackoffInv
<1>3. attempt' \in Nat /\ attempt' <= MaxAttempt /\ (attempt' > 0 => delay' = next_backoff(attempt' - 1))
  <2>1. CASE attempt' = n /\ delay' = delay
    BY <1>2, <2>1
  <2>2. CASE n < MaxAttempt /\ attempt' = n + 1 /\ delay' = next_backoff(n)
    <3>1. n + 1 \in Nat /\ n + 1 <= MaxAttempt /\ (n + 1) - 1 = n
      BY <1>0, <1>2, <2>2
    <3> QED BY <2>2, <3>1
  <2> QED BY <1>1, <2>1, <2>2 DEF Backs
<1>4. delay' \in 0..BACKOFF_CAP_MS
  BY <1>0, <1>1, <1>2, BackoffCapped DEF Backs, TypeOK
<1>5. ws' \in Link!ReadyState /\ timers' \in Nat /\ reachable' \in BOOLEAN
  <2>1. ASSUME NEW m, NEW pending \in Nat, reconnect_now(m, pending)
        PROVE  ws' \in Link!ReadyState /\ timers' \in Nat
    BY <1>0, <2>1, ReconnectRetries DEF TypeOK
  <2>2. CASE TimerFires
    <3>1. timers - 1 \in Nat /\ reconnect_now(attempt, timers - 1) /\ reachable' = reachable
      BY <1>0, <2>2 DEF TimerFires
    <3> QED BY <1>0, <2>1, <3>1 DEF TypeOK
  <2>3. CASE Online
    <3>1. reconnect_now(0, timers) /\ reachable' = reachable
      BY <2>3 DEF Online
    <3> QED BY <1>0, <2>1, <3>1 DEF TypeOK
  <2>4. CASE OnClose
    BY <1>0, <2>4 DEF OnClose, schedule_reconnect, TypeOK
  <2>5. CASE OnOpen \/ CloseStarts \/ ReachChanges \/ UNCHANGED vars
    BY <1>0, <2>5 DEF OnOpen, CloseStarts, ReachChanges, vars, TypeOK
  <2> QED BY <2>2, <2>3, <2>4, <2>5 DEF Next
<1> QED BY <1>3, <1>4, <1>5 DEF BackoffInv, TypeOK

(* It holds in every reachable state. *)
THEOREM SocketBackoffInvariant == Spec => []BackoffInv
<1>1. Init => BackoffInv
  BY SocketAssumption DEF Init, BackoffInv, TypeOK, BACKOFF_CAP_MS
<1>2. BackoffInv /\ [Next]_vars => BackoffInv'
  BY BackoffStep
<1> QED BY <1>1, <1>2, PTL DEF Spec

(* Type correctness of the socket, which includes that no delay is above   *)
(* the cap, for an integer of any width (signaling.rs 16-23).              *)
THEOREM SocketTypeOK == Spec => []TypeOK
<1>1. BackoffInv => TypeOK
  BY DEF BackoffInv
<1> QED BY <1>1, SocketBackoffInvariant, PTL

(* From one failed reconnect to the next the delay does not shrink, as     *)
(* long as two bits more than the attempts are left in the integer: with   *)
(* the 64 bits of the code, for 62 attempts in a row.  (After that the     *)
(* shift pushes out every bit of the base, which the code does not notice.)*)
THEOREM SocketBackoffRamps ==
    ASSUME Width >= 22, MaxAttempt + 2 <= Width
    PROVE  Spec => BackoffRamps
<1> DEFINE Ramps == attempt > 0 /\ attempt' > attempt =>
                       delay <= delay' /\ delay' <= BACKOFF_CAP_MS
<1>1. ASSUME BackoffInv, [Next]_vars PROVE [Ramps]_vars
  <2> SUFFICES ASSUME attempt > 0, attempt' > attempt
               PROVE  delay <= delay' /\ delay' <= BACKOFF_CAP_MS
    OBVIOUS
  <2>1. TypeOK /\ attempt \in Nat /\ delay = next_backoff(attempt - 1) /\ attempt - 1 \in Nat
    BY <1>1 DEF BackoffInv, TypeOK
  <2>2. attempt < MaxAttempt /\ delay' = next_backoff(attempt)
    BY <1>1, <2>1, StepBacks DEF Backs
  <2>3. attempt + 3 <= Width /\ (attempt - 1) + 3 <= Width
    BY <2>1, <2>2, SocketAssumption
  <2>4. next_backoff(attempt) = CASE attempt = 0 -> 500 [] attempt = 1 -> 1000 [] attempt = 2 -> 2000
                                  [] attempt = 3 -> 4000 [] attempt = 4 -> 8000 [] OTHER -> BACKOFF_CAP_MS
    BY <2>1, <2>3, BackoffDoubles
  <2> DEFINE m == attempt - 1
  <2>5. next_backoff(m) = CASE m = 0 -> 500 [] m = 1 -> 1000 [] m = 2 -> 2000
                            [] m = 3 -> 4000 [] m = 4 -> 8000 [] OTHER -> BACKOFF_CAP_MS
    <3>1. m \in Nat /\ m + 3 <= Width
      BY <2>1, <2>3
    <3> HIDE DEF m
    <3> QED BY <3>1, BackoffDoubles
  <2> QED BY <2>1, <2>2, <2>4, <2>5 DEF BACKOFF_CAP_MS
<1>2. Spec => [][Ramps]_vars
  BY <1>1, SocketBackoffInvariant, PTL DEF Spec
<1> QED BY <1>2 DEF BackoffRamps

=============================================================================
