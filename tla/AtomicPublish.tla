---------------------------- MODULE AtomicPublish ----------------------------
(***************************************************************************)
(* What a publish of the corpus promises (persist.py:158: "Production      *)
(* publish always updates snapshots AND manifest in one transaction"): the *)
(* pair of the snapshots and the manifest changes in one step, from what   *)
(* it was to the staged bundle, or not at all.  Of a publish that reports  *)
(* a failed rollback, or that never reports, nothing is promised.          *)
(***************************************************************************)
CONSTANT Bundles

VARIABLES production,  \* <<snapshots, bundle of the manifest>>
          outcome      \* of the last publish

\* A directory holding the 18 snapshots of bundle b
Whole(b) == [kind |-> "whole", bundle |-> b]

Unchanged == outcome' \in {"refused", "rolled_back"} /\ UNCHANGED production

Publish(b) == production' = <<Whole(b), b>> /\ outcome' = "published"

Broken == outcome' \in {"rollback_failed", "crashed"}

Init == production[2] \in Bundles /\ outcome = "none"

Next == Unchanged \/ Broken \/ \E b \in Bundles : Publish(b)

Spec == Init /\ [][Next]_<<production, outcome>>
==============================================================================
