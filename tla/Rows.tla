-------------------------------- MODULE Rows --------------------------------
(***************************************************************************)
(* The transfer rows of the UI (crates/client/src/rows.rs).  The program   *)
(* keeps a Vec<Row> keyed by (id, incoming).  Here the rows of one         *)
(* direction are a function from the ids that have a row to the            *)
(* TransferState shown; name, size, fraction and speed are display only.   *)
(* An operation on a missing row is a no-op unless it upserts.             *)
(***************************************************************************)
EXTENDS Collections

TransferState == {"Pending", "Offered", "Active", "Done", "Declined", "Cancelled"}

NoRows == [id \in {} |-> "Pending"]

(* list.iter_mut().find(..) and an assignment to the state. *)
SetState(rows, ids, state) ==
    [id \in DOMAIN rows |-> IF id \in ids THEN state ELSE rows[id]]

incoming_offer(rows, id) == IF id \in DOMAIN rows THEN rows ELSE Put(rows, id, "Offered")

recv_progress(rows, id) == Put(rows, id, "Active")

recv_complete(rows, id) == Put(rows, id, "Done")

(* Mutant: a row is Done one chunk early. *)
send_progress_early(rows, id, sent, total) ==
    Put(rows, id, IF sent + 1 >= total THEN "Done" ELSE "Active")

(* frac is 1 for an empty file and sent / total otherwise. *)
send_progress(rows, id, sent, total) ==
    Put(rows, id, IF sent >= total THEN "Done" ELSE "Active")

(* The loop of on_files pushes one row per file of the batch. *)
push_outgoing_pending(rows, ids) ==
    [id \in DOMAIN rows \cup ids |-> IF id \in ids THEN "Pending" ELSE rows[id]]

mark_offered(rows, ids) ==
    SetState(rows, {id \in ids \cap DOMAIN rows : rows[id] = "Pending"}, "Offered")

mark_rejected(rows, id) == SetState(rows, {id}, "Declined")

(* Mutant: a cancel that comes late overwrites Done. *)
mark_cancelled_always(rows, id) == SetState(rows, {id}, "Cancelled")

mark_cancelled_remote(rows, id) ==
    SetState(rows, {x \in {id} \cap DOMAIN rows : rows[x] # "Done"}, "Cancelled")

mark_all_active_cancelled(rows) ==
    SetState(rows, {id \in DOMAIN rows : rows[id] = "Active"}, "Cancelled")

accept(rows, id) == SetState(rows, {id}, "Active")

decline(rows, id) == Drop(rows, id)

cancel(rows, id) == SetState(rows, {id}, "Cancelled")

pending_incoming_ids(rows) == {id \in DOMAIN rows : rows[id] = "Offered"}

accept_all(rows, ids) == SetState(rows, ids, "Active")

=============================================================================
