---------------------------- MODULE MCReconciler ----------------------------
(***************************************************************************)
(* Model-checking instance of Reconciler: two alerts, one of them under a  *)
(* silence, so that a reading can omit one and still be believed.          *)
(***************************************************************************)
EXTENDS Reconciler

CONSTANTS a1, a2, s1

MCCovers == [s \in {s1} |-> {a1}]

\* Without silences there is nothing to refresh.
NoCovers == [s \in {} |-> {}]
=============================================================================
