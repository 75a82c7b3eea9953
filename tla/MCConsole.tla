----------------------------- MODULE MCConsole -----------------------------
(* Two queries under different views, so that a change of query also closes *)
(* and reopens the stream, and a list of three pages.                      *)
EXTENDS Console

MCQueries == {"mine", "all"}
MCViewOf == [q \in MCQueries |-> q]
=============================================================================
