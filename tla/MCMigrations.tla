---------------------------- MODULE MCMigrations ----------------------------
(***************************************************************************)
(* Two jobs and two servers of an older release (last version 3) and a     *)
(* newer one (5), on every legacy volume up to version 3.  As in the code, *)
(* the version known by a column is looked for last.                       *)
(***************************************************************************)
EXTENDS Migrations

CONSTANTS oldJob, newJob, oldServer, newServer

MCLatest == [p \in {oldJob, newJob, oldServer, newServer} |->
                IF p \in {oldJob, oldServer} THEN 3 ELSE 5]
MCKnown == [i \in 1..3 |-> IF i = 1 THEN 1 ELSE 5 - i]
=============================================================================
