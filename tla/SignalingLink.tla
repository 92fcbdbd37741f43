--------------------------- MODULE SignalingLink ---------------------------
(***************************************************************************)
(* What the signaling client (crates/client/src/signaling.rs) promises to  *)
(* the page: a WebSocket that always comes back.  The link is the          *)
(* readyState of the page's socket.  There is one socket at a time; a new  *)
(* one is made only in place of one that is closed or closing, and a       *)
(* closed one is always replaced in the end.  How often, after what delay  *)
(* and on whose initiative is left open: Socket says that.                 *)
(***************************************************************************)
VARIABLE ws

Live == {"CONNECTING", "OPEN"}
ReadyState == Live \cup {"CLOSING", "CLOSED"}

Init == ws = "CONNECTING"

Open == ws = "CONNECTING" /\ ws' = "OPEN"

(* The other end, or a proxy on the way, starts the closing handshake. *)
Closing == ws = "OPEN" /\ ws' = "CLOSING"

Close == ws # "CLOSED" /\ ws' = "CLOSED"

Replace == ws \notin Live /\ ws' = "CONNECTING"

Next == Open \/ Closing \/ Close \/ Replace

(* The page never gives up on a socket that has closed. *)
Spec == Init /\ [][Next]_ws /\ WF_ws(Replace)

=============================================================================
