---------------------------- MODULE RoleBindings ----------------------------
(***************************************************************************)
(* Administration of role bindings: SetRoleBinding and DeleteRoleBinding   *)
(* as transactions of several administrators at once, with the guard that  *)
(* refuses to remove the last administrator.                               *)
(*                                                                         *)
(* The guard is two plain SELECTs and the write is a third statement, all  *)
(* at READ COMMITTED: each sees what is committed when it runs.  A binding *)
(* is its role; subjects and matchers play no part in the guard.  The      *)
(* write and the commit are one step, since nothing reads in between.      *)
(***************************************************************************)
EXTENDS Naturals, FiniteSets

CONSTANTS
    Names,    \* binding names
    Clerks    \* concurrent requests that administer them

ASSUME NamesFinite == IsFiniteSet(Names)

VARIABLES
    bindings, \* role_bindings: the role of each name
    tx        \* per clerk, its transaction

vars == <<bindings, tx>>

Roles == {"administrator", "operator", "viewer"}
NoBinding == "none"

\* A request: a role to set, or NoBinding to delete.
Request == [name: Names, role: Roles \cup {NoBinding}]

Administrators(b) == {n \in Names : b[n] = "administrator"}

\* stale is a ghost: another transaction committed after this one counted.
NoTransaction == [phase |-> "idle", count |-> 0, stale |-> FALSE]

Init ==
    /\ bindings \in [Names -> Roles \cup {NoBinding}]
    /\ tx = [c \in Clerks |-> NoTransaction]

\* The first SELECT of guardLastAdministrator.
CountAdministrators(c, request) ==
    /\ tx[c].phase = "idle"
    /\ tx' = [tx EXCEPT ![c] = [phase |-> "counted", request |-> request,
                                count |-> Cardinality(Administrators(bindings)),
                                stale |-> FALSE]]
    /\ UNCHANGED bindings

\* Mutant: demoting is not treated like deleting.
Refused_DeletesOnly(c) ==
    /\ bindings[tx[c].request.name] = "administrator"
    /\ tx[c].count = 1
    /\ tx[c].request.role = NoBinding

\* The second SELECT: is the binding named an administrator's, and the only one?
Refused(c) ==
    /\ bindings[tx[c].request.name] = "administrator"
    /\ tx[c].count = 1
    /\ tx[c].request.role # "administrator"

guardLastAdministrator(c) ==
    /\ tx[c].phase = "counted"
    /\ tx' = [tx EXCEPT ![c] = IF Refused(c) THEN NoTransaction
                               ELSE [tx[c] EXCEPT !.phase = "guarded"]]
    /\ UNCHANGED bindings

\* The INSERT ... ON CONFLICT or the DELETE, and the commit.
WriteBinding(c) ==
    /\ tx[c].phase = "guarded"
    /\ bindings' = [bindings EXCEPT ![tx[c].request.name] = tx[c].request.role]
    /\ tx' = [d \in Clerks |->
          IF d = c THEN NoTransaction
          ELSE IF tx[d].phase = "idle" THEN tx[d]
          ELSE [tx[d] EXCEPT !.stale = TRUE]]

\* An invalid selector, a lost connection: nothing is written.
Rollback(c) ==
    /\ tx[c].phase # "idle"
    /\ tx' = [tx EXCEPT ![c] = NoTransaction]
    /\ UNCHANGED bindings

Next ==
    \E c \in Clerks : \/ \E request \in Request : CountAdministrators(c, request)
                      \/ guardLastAdministrator(c)
                      \/ WriteBinding(c)
                      \/ Rollback(c)

Spec == Init /\ [][Next]_vars

-----------------------------------------------------------------------------
Open == [phase: {"counted", "guarded"}, request: Request, count: Nat, stale: BOOLEAN]

\* Bindings and transactions have their types; every transaction is idle,
\* counted or guarded.
TypeOK ==
    /\ bindings \in [Names -> Roles \cup {NoBinding}]
    /\ tx \in [Clerks -> Open \cup {NoTransaction}]

\* The guard holds but for a race: the write that leaves no administrator is
\* one whose count another transaction has made stale.
LockoutNeedsARace ==
    [][Administrators(bindings) # {} /\ Administrators(bindings') = {}
          => \E c \in Clerks : tx[c].phase = "guarded" /\ tx[c].stale
                               /\ tx'[c] = NoTransaction]_vars

=============================================================================
