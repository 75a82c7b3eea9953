---------------------------- MODULE MCEventStream ----------------------------
(***************************************************************************)
(* Model-checking instance of EventStream: two writers that can overtake   *)
(* each other, a poll limit of one so that windows split, an event the     *)
(* client may not see in the middle, and two sweepers whose batches lock   *)
(* different rows and commit in either order.                              *)
(***************************************************************************)
EXTENDS EventStream

CONSTANTS w1, w2, p1, p2
=============================================================================
