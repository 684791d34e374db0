--------------------------- MODULE QueueLifecycle ---------------------------
(***************************************************************************)
(* What the acquisition queue promises: the state machine that the header  *)
(* of tasks/download_watch.py and the docstring of models.QueueItem state, *)
(*                                                                         *)
(*      queued -> downloading -> importing -> imported | failed            *)
(*                                                                         *)
(* read over the COMMITTED rows of queue_items.  One commit may move       *)
(* several rows, and a row may take several arrows in one commit           *)
(* ("importing" is written and overwritten inside one transaction), so a   *)
(* step moves every row along the reflexive-transitive closure of the      *)
(* arrows.  "absent" is a release that has no row yet.                     *)
(***************************************************************************)
CONSTANT Releases

VARIABLE status

Statuses == {"absent", "queued", "downloading", "importing", "imported", "failed"}

(* What a row may become in one commit; the two terminal states have no    *)
(* way out and nothing goes back.                                          *)
Reachable(s) ==
  CASE s = "absent"      -> {"absent", "queued"}
    [] s = "queued"      -> {"queued", "downloading", "failed"}
    [] s = "downloading" -> {"downloading", "importing", "imported", "failed"}
    [] s = "importing"   -> {"importing", "imported", "failed"}
    [] s = "imported"    -> {"imported"}
    [] s = "failed"      -> {"failed"}

Init == status = [r \in Releases |-> "absent"]

Commit ==
  /\ status' \in [Releases -> Statuses]
  /\ \A r \in Releases : status'[r] \in Reachable(status[r])

Next == Commit

Spec == Init /\ [][Next]_status
=============================================================================
