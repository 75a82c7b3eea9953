---------------------------- MODULE MCAlertStore ----------------------------
(***************************************************************************)
(* Model-checking instance of AlertStore: one alert taken through every    *)
(* combination of delivery, judgement, suppression and age.  Rows are      *)
(* independent of each other in every transaction, so one alert reaches    *)
(* every row state; two operators have different scopes.                   *)
(***************************************************************************)
EXTENDS AlertStore

CONSTANTS a1, s1, l1, l2, op1, op2

MCSourceOf == [a \in {a1} |-> s1]
MCScope == [op \in {op1, op2} |-> IF op = op1 THEN {l1, l2} ELSE {l2}]

\* l1 carries a timeout label of 1, l2 none.
MCTimeout == [l \in {l1, l2} |-> IF l = l1 THEN 1 ELSE NoWindow]
MCStaleAfter == [s \in {s1} |-> NoWindow]
=============================================================================
