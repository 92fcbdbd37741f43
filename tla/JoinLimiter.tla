---------------------------- MODULE JoinLimiter ----------------------------
(***************************************************************************)
(* The per-IP limiter of failed join attempts (crates/server/src/          *)
(* limiter.rs).  For every address the program keeps a Vec of timestamps   *)
(* of which it only ever asks the length and the age of the elements; here *)
(* it is the set of the failed attempts, each a record whose field at is   *)
(* the timestamp, so that two attempts in one millisecond are two elements.*)
(* An address with no entry in the map has the empty set.                  *)
(***************************************************************************)
EXTENDS Integers, FiniteSets

CONSTANTS Window,      \* JOIN_WINDOW_MS
          MaxFailures  \* JOIN_MAX_FAILURES

ASSUME LimiterAssumption == Window \in Nat \ {0} /\ MaxFailures \in Nat \ {0}

(* u64::saturating_sub. *)
SaturatingSub(a, b) == IF a >= b THEN a - b ELSE 0

(* JoinLimiter::prune. *)
Prune(fs, now) == {f \in fs : SaturatingSub(now, f.at) < Window}

(* Mutant: the limit off by one. *)
AllowedOneMore(fs, now) == Cardinality(Prune(fs, now)) <= MaxFailures

(* JoinLimiter::allowed: its answer (it also leaves the pruned set). *)
Allowed(fs, now) == Cardinality(Prune(fs, now)) < MaxFailures

(* JoinLimiter::record_failure. *)
RecordFailure(fs, f) == Prune(fs, f.at) \cup {f}

=============================================================================
