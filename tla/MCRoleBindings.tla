--------------------------- MODULE MCRoleBindings ---------------------------
(***************************************************************************)
(* Model-checking instance of RoleBindings: two bindings and two           *)
(* requests at once.                                                       *)
(***************************************************************************)
EXTENDS RoleBindings, TLC

CONSTANTS n1, n2, c1, c2

\* Names are interchangeable, and so are the requests.
Symmetric == Permutations({n1, n2}) \cup Permutations({c1, c2})
=============================================================================
