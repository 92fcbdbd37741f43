------------------------------- MODULE Socket -------------------------------
(***************************************************************************)
(* The self-reconnecting WebSocket of a page (crates/client/src/           *)
(* signaling.rs).  A page is single-threaded, so a callback is one step.   *)
(* Timers and events come in any order; the delay of a timer is recorded   *)
(* and otherwise not modelled.  No one sets `closed`, so the tests of it   *)
(* are left out.                                                           *)
(*                                                                         *)
(* wire_socket drops the closures of the socket it replaces.  A replaced   *)
(* socket can only be closing or closed, so nothing more is heard of it.   *)
(***************************************************************************)
EXTENDS Integers

CONSTANTS
    Width,         \* bits of the integer that next_backoff shifts: u64
    MaxAttempt,    \* bound: consecutive reconnects
    MaxTimers      \* bound: timeouts pending at a time

ASSUME SocketAssumption ==
    /\ Width \in Nat \ {0} /\ MaxAttempt \in Nat /\ MaxTimers \in Nat \ {0}

VARIABLES
    ws,         \* readyState of inner.ws
    attempt,    \* inner.attempt
    timers,     \* timeouts that will call reconnect_now
    delay,      \* history: the delay of the timeout set last
    reachable   \* whether the server can be reached

vars == <<ws, attempt, timers, delay, reachable>>

Link == INSTANCE SignalingLink

-----------------------------------------------------------------------------
BACKOFF_BASE_MS == 500
BACKOFF_CAP_MS == 15000

(* The low n bits of x, for x below 2^9. *)
LowBits(x, n) == IF n >= 9 THEN x ELSE x % 2^n

(* Mutant: the shift is by the low bits of the attempt (wrapping_shl). *)
next_backoff_masked(n) == BACKOFF_BASE_MS * 2^(n % 4)

(* Mutant: the cap is forgotten. *)
next_backoff_uncapped(n) == BACKOFF_BASE_MS * 2^n

(* checked_shl gives None only for a shift by the width or more; a shift   *)
(* below that drops the bits it pushes out.  A number that is not 0 is     *)
(* above the cap once it has been shifted by 14.                           *)
next_backoff(n) ==
    LET kept == LowBits(BACKOFF_BASE_MS, Width - n) IN
    CASE n >= Width              -> BACKOFF_CAP_MS
      [] n < Width /\ kept = 0   -> 0
      [] n < Width /\ kept # 0 /\ n >= 14 -> BACKOFF_CAP_MS
      [] OTHER -> IF kept * 2^n < BACKOFF_CAP_MS THEN kept * 2^n ELSE BACKOFF_CAP_MS

(* schedule_reconnect, when inner.attempt is n and `pending` other         *)
(* timeouts are outstanding.                                               *)
schedule_reconnect(n, pending) ==
    /\ n < MaxAttempt /\ pending < MaxTimers
    /\ delay' = next_backoff(n)
    /\ attempt' = n + 1
    /\ timers' = pending + 1

(* Signaling::connect. *)
Init ==
    /\ ws = "CONNECTING"
    /\ attempt = 0 /\ timers = 0 /\ delay = 0
    /\ reachable \in BOOLEAN

(* onopen: the backoff starts over.  (What on_open and on_disconnect do in *)
(* the page is in Rendezvous.)                                             *)
OnOpen ==
    /\ ws = "CONNECTING" /\ reachable
    /\ ws' = "OPEN"
    /\ attempt' = 0
    /\ UNCHANGED <<timers, delay, reachable>>

(* What can close: any socket that is open, and one that cannot connect. *)
Closable == ws \in {"OPEN", "CLOSING"} \/ (ws = "CONNECTING" /\ ~reachable)

(* Mutant: a connect that fails is not retried. *)
OnCloseOpened ==
    /\ Closable
    /\ ws' = "CLOSED"
    /\ IF ws = "CONNECTING" THEN UNCHANGED <<attempt, timers, delay>>
       ELSE schedule_reconnect(attempt, timers)
    /\ UNCHANGED reachable

(* onclose: a timeout is set. *)
OnClose ==
    /\ Closable
    /\ ws' = "CLOSED"
    /\ schedule_reconnect(attempt, timers)
    /\ UNCHANGED reachable

(* The server or a proxy starts the closing handshake; no event is fired.  *)
CloseStarts ==
    /\ ws = "OPEN" /\ ws' = "CLOSING"
    /\ UNCHANGED <<attempt, timers, delay, reachable>>

(* Mutant: an open socket does not stop a timeout that comes late. *)
reconnect_now_eager(n, pending) ==
    IF ws = "CONNECTING" THEN timers' = pending /\ attempt' = n /\ UNCHANGED <<ws, delay>>
    ELSE ws' = "CONNECTING" /\ timers' = pending /\ attempt' = n /\ UNCHANGED delay

(* Mutant: a constructor that throws is not retried. *)
reconnect_now_once(n, pending) ==
    /\ timers' = pending /\ attempt' = n /\ UNCHANGED delay
    /\ IF ws \in Link!Live THEN UNCHANGED ws ELSE ws' \in {ws, "CONNECTING"}

(* reconnect_now: nothing while a socket is open or connecting; else a new *)
(* socket, or another timeout if the constructor throws.                   *)
reconnect_now(n, pending) ==
    \/ /\ ws \in Link!Live
       /\ timers' = pending /\ attempt' = n /\ UNCHANGED <<ws, delay>>
    \/ /\ ws \notin Link!Live
       /\ ws' = "CONNECTING"
       /\ timers' = pending /\ attempt' = n /\ UNCHANGED delay
    \/ /\ ws \notin Link!Live
       /\ schedule_reconnect(n, pending) /\ UNCHANGED ws

TimerFires ==
    /\ timers > 0
    /\ reconnect_now(attempt, timers - 1)
    /\ UNCHANGED reachable

(* The online event: the backoff starts over; a pending timeout stays.     *)
Online ==
    /\ ws \notin Link!Live
    /\ reconnect_now(0, timers)
    /\ UNCHANGED reachable

(* The network and the server come and go. *)
ReachChanges ==
    /\ reachable' = ~reachable
    /\ UNCHANGED <<ws, attempt, timers, delay>>

Next == OnOpen \/ OnClose \/ CloseStarts \/ TimerFires \/ Online \/ ReachChanges

Spec == Init /\ [][Next]_vars

(* The browser dispatches its events and timers and a connect comes to an  *)
(* end; the constructor, which has worked for this URL, does not throw for *)
(* ever.  Nothing obliges an open socket to close, or an online event.     *)
Fairness ==
    /\ WF_vars(OnOpen) /\ WF_vars(ws # "OPEN" /\ OnClose)
    /\ WF_vars(TimerFires)
    /\ SF_vars(TimerFires /\ ws \notin Link!Live /\ ws' = "CONNECTING")

FairSpec == Spec /\ Fairness

-----------------------------------------------------------------------------
(* Properties. *)

(* Every variable has its type, and no delay is above the cap. *)
TypeOK ==
    /\ ws \in Link!ReadyState
    /\ attempt \in Nat /\ timers \in Nat /\ delay \in 0..BACKOFF_CAP_MS
    /\ reachable \in BOOLEAN

(* A page whose socket is closed has a timeout pending that will try again,*)
(* whichever of timers, online events and failing constructors came before *)
(* (signaling.rs 161-212): no interleaving uses up the last one.           *)
RetryPending == ws = "CLOSED" => timers > 0

(* From one failed reconnect to the next the delay does not shrink, and it *)
(* stays within the cap: 500, 1000, ... 15000, 15000 (signaling.rs 16-23,  *)
(* and its test at 229: "Large attempts never overflow or drop below the   *)
(* cap").                                                                  *)
BackoffRamps ==
    [][attempt > 0 /\ attempt' > attempt =>
          delay <= delay' /\ delay' <= BACKOFF_CAP_MS]_vars

(* The socket implements the link it promises: it is replaced only when it *)
(* is closing or closed, and is replaced in the end (signaling.rs 54-57).  *)
LinkSpec == Link!Spec

(* A page that can reach the server for good is connected again and again, *)
(* whatever drops its socket meanwhile (signaling.rs 159-189).             *)
Recovers == <>[]reachable => []<>(ws = "OPEN")

=============================================================================
