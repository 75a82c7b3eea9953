------------------------- MODULE RoleBindingsProofs -------------------------
(***************************************************************************)
(* The last-administrator guard for any number of bindings and of requests *)
(* at once: a request nobody overtook never leaves the system without an   *)
(* administrator.                                                          *)
(*                                                                         *)
(* The property is not inductive: it needs to know that a count nobody     *)
(* made stale is still the number of administrators, and that a request    *)
(* past the guard was not one to refuse.                                   *)
(***************************************************************************)
EXTENDS RoleBindings, FiniteSetTheorems, TLAPS

\* What an open transaction nobody overtook may still rely on.
Reliable(c) ==
    (tx[c].phase # "idle" /\ ~tx[c].stale) =>
        /\ tx[c].count = Cardinality(Administrators(bindings))
        /\ tx[c].phase = "guarded" => ~Refused(c)

IInv == TypeOK /\ \A c \in Clerks : Reliable(c)

\* The number of administrators is a number: the names are finite.
LEMMA CountIsNat == ASSUME NEW b PROVE Cardinality(Administrators(b)) \in Nat
<1>1. Administrators(b) \subseteq Names BY DEF Administrators
<1>2. IsFiniteSet(Administrators(b)) BY <1>1, NamesFinite, FS_Subset
<1>3. QED BY <1>2, FS_CardinalityType

LEMMA IdleIsNotOpen == NoTransaction \notin Open /\ NoTransaction.phase = "idle"
BY DEF NoTransaction, Open

LEMMA OpenByPhase ==
    ASSUME TypeOK, NEW c \in Clerks, tx[c].phase # "idle"
    PROVE  tx[c] \in Open
BY DEF TypeOK, NoTransaction

LEMMA InitInv == Init => IInv
<1>. SUFFICES ASSUME Init PROVE IInv OBVIOUS
<1>1. TypeOK BY DEF Init, TypeOK
<1>2. ASSUME NEW c \in Clerks PROVE Reliable(c)
  BY DEF Init, Reliable, NoTransaction
<1>. QED BY <1>1, <1>2 DEF IInv

\* Every step keeps the types.
LEMMA TypeStep == TypeOK /\ [Next]_vars => TypeOK'
<1>. SUFFICES ASSUME TypeOK, [Next]_vars PROVE TypeOK' OBVIOUS
<1>1. CASE UNCHANGED vars BY <1>1 DEF vars, TypeOK
<1>2. ASSUME NEW c \in Clerks, NEW request \in Request, CountAdministrators(c, request)
      PROVE  TypeOK'
  <2>1. Cardinality(Administrators(bindings)) \in Nat BY CountIsNat
  <2>2. [phase |-> "counted", request |-> request,
         count |-> Cardinality(Administrators(bindings)), stale |-> FALSE] \in Open
    BY <2>1 DEF Open
  <2>. QED BY <1>2, <2>2 DEF CountAdministrators, TypeOK
<1>3. ASSUME NEW c \in Clerks, guardLastAdministrator(c) PROVE TypeOK'
  <2>1. tx[c] \in Open BY <1>3, OpenByPhase DEF guardLastAdministrator
  <2>2. [tx[c] EXCEPT !.phase = "guarded"] \in Open BY <2>1 DEF Open
  <2>. QED BY <1>3, <2>2 DEF guardLastAdministrator, TypeOK
<1>4. ASSUME NEW c \in Clerks, WriteBinding(c) PROVE TypeOK'
  <2>1. tx[c] \in Open BY <1>4, OpenByPhase DEF WriteBinding
  <2>2. tx[c].request.name \in Names /\ tx[c].request.role \in Roles \cup {NoBinding}
    BY <2>1 DEF Open, Request
  <2>3. ASSUME NEW d \in Clerks, tx[d].phase # "idle"
        PROVE  [tx[d] EXCEPT !.stale = TRUE] \in Open
    BY <2>3, OpenByPhase DEF Open
  <2>4. bindings' \in [Names -> Roles \cup {NoBinding}]
    BY <1>4, <2>2 DEF WriteBinding, TypeOK
  <2>5. tx' \in [Clerks -> Open \cup {NoTransaction}]
    BY <1>4, <2>3 DEF WriteBinding, TypeOK
  <2>. QED BY <2>4, <2>5 DEF TypeOK
<1>5. ASSUME NEW c \in Clerks, Rollback(c) PROVE TypeOK'
  BY <1>5 DEF Rollback, TypeOK
<1>. QED BY <1>1, <1>2, <1>3, <1>4, <1>5 DEF Next

\* Every step keeps what the transactions rely on.
LEMMA ReliableStep == IInv /\ [Next]_vars => \A d \in Clerks : Reliable(d)'
<1>. SUFFICES ASSUME IInv, [Next]_vars, NEW d \in Clerks PROVE Reliable(d)' OBVIOUS
<1>. TypeOK /\ Reliable(d) BY DEF IInv
<1>0. ASSUME tx'[d] = tx[d], bindings' = bindings PROVE Reliable(d)'
  BY <1>0 DEF Reliable, Refused
<1>1. CASE UNCHANGED vars BY <1>0, <1>1 DEF vars
<1>2. ASSUME NEW c \in Clerks, NEW request \in Request, CountAdministrators(c, request)
      PROVE  Reliable(d)'
  <2>1. CASE d # c BY <1>0, <1>2, <2>1 DEF CountAdministrators, TypeOK
  <2>2. CASE d = c
    <3>1. /\ tx'[d].count = Cardinality(Administrators(bindings))
          /\ tx'[d].phase = "counted"
          /\ bindings' = bindings
      BY <1>2, <2>2 DEF CountAdministrators, TypeOK
    <3>. QED BY <3>1 DEF Reliable
  <2>. QED BY <2>1, <2>2
<1>3. ASSUME NEW c \in Clerks, guardLastAdministrator(c) PROVE Reliable(d)'
  <2>1. CASE d # c BY <1>0, <1>3, <2>1 DEF guardLastAdministrator, TypeOK
  <2>2. CASE d = c /\ Refused(c)
    <3>1. tx'[d].phase = "idle"
      BY <1>3, <2>2 DEF guardLastAdministrator, TypeOK, NoTransaction
    <3>. QED BY <3>1 DEF Reliable
  <2>3. CASE d = c /\ ~Refused(c)
    <3>1. tx[c] \in Open BY <1>3, OpenByPhase DEF guardLastAdministrator
    <3>2. tx[c].phase = "counted" /\ bindings' = bindings
          /\ tx'[d] = [tx[c] EXCEPT !.phase = "guarded"]
      BY <1>3, <2>3 DEF guardLastAdministrator, TypeOK
    <3>3. /\ tx'[d].phase = "guarded"
          /\ tx'[d].count = tx[d].count
          /\ tx'[d].stale = tx[d].stale
          /\ tx'[d].request = tx[d].request
      BY <2>3, <3>1, <3>2 DEF Open
    <3>. QED BY <2>3, <3>2, <3>3 DEF Reliable, Refused
  <2>. QED BY <2>1, <2>2, <2>3
<1>4. ASSUME NEW c \in Clerks, WriteBinding(c) PROVE Reliable(d)'
  <2>1. CASE d = c \/ tx[d].phase = "idle"
    <3>1. tx'[d].phase = "idle"
      BY <1>4, <2>1 DEF WriteBinding, NoTransaction
    <3>. QED BY <3>1 DEF Reliable
  <2>2. CASE d # c /\ tx[d].phase # "idle"
    <3>1. tx[d] \in Open BY <2>2, OpenByPhase
    <3>2. tx'[d] = [tx[d] EXCEPT !.stale = TRUE] BY <1>4, <2>2 DEF WriteBinding
    <3>3. tx'[d].stale BY <3>1, <3>2 DEF Open
    <3>. QED BY <3>3 DEF Reliable
  <2>. QED BY <2>1, <2>2
<1>5. ASSUME NEW c \in Clerks, Rollback(c) PROVE Reliable(d)'
  <2>1. CASE d # c BY <1>0, <1>5, <2>1 DEF Rollback, TypeOK
  <2>2. CASE d = c
    <3>1. tx'[d].phase = "idle" BY <1>5, <2>2 DEF Rollback, TypeOK, NoTransaction
    <3>. QED BY <3>1 DEF Reliable
  <2>. QED BY <2>1, <2>2
<1>. QED BY <1>1, <1>2, <1>3, <1>4, <1>5 DEF Next

\* IInv is an invariant of the specification.
THEOREM Invariance == Spec => []IInv
<1>1. IInv /\ [Next]_vars => IInv'
  <2>. SUFFICES ASSUME IInv, [Next]_vars PROVE IInv' OBVIOUS
  <2>1. TypeOK' BY TypeStep DEF IInv
  <2>2. \A c \in Clerks : Reliable(c)' BY ReliableStep
  <2>. QED BY <2>1, <2>2 DEF IInv
<1>. QED BY InitInv, <1>1, PTL DEF Spec

\* Bindings and transactions keep their types, whoever administers them.
THEOREM TypeCorrect == Spec => []TypeOK
<1>1. IInv => TypeOK BY DEF IInv
<1>. QED BY Invariance, <1>1, PTL

\* A write that takes away the last administrator was overtaken.
LEMMA LockingWrite ==
    ASSUME IInv, NEW c \in Clerks, WriteBinding(c),
           Administrators(bindings) # {}, Administrators(bindings)' = {}
    PROVE  tx[c].phase = "guarded" /\ tx[c].stale /\ tx'[c] = NoTransaction
<1>. DEFINE n == tx[c].request.name
<1>0. TypeOK /\ Reliable(c) BY DEF IInv
<1>1. tx[c].phase = "guarded" /\ tx'[c] = NoTransaction BY DEF WriteBinding
<1>2. tx[c] \in Open BY <1>0, <1>1, OpenByPhase
<1>3. n \in Names /\ tx[c].stale \in BOOLEAN BY <1>2 DEF Open, Request
<1>4. bindings' = [bindings EXCEPT ![n] = tx[c].request.role] BY DEF WriteBinding
<1>5. \A m \in Names : bindings'[m] # "administrator" BY DEF Administrators
<1>6. tx[c].request.role # "administrator" BY <1>0, <1>3, <1>4, <1>5 DEF TypeOK
<1>7. \A m \in Names \ {n} : bindings[m] # "administrator"
  BY <1>0, <1>3, <1>4, <1>5 DEF TypeOK
<1>8. Administrators(bindings) = {n} BY <1>3, <1>7 DEF Administrators
<1>9. bindings[n] = "administrator" BY <1>8 DEF Administrators
<1>10. Cardinality(Administrators(bindings)) = 1 BY <1>8, FS_Singleton
<1>11. ASSUME ~tx[c].stale PROVE FALSE
  <2>1. tx[c].count = 1 /\ ~Refused(c) BY <1>0, <1>1, <1>10, <1>11 DEF Reliable
  <2>. QED BY <2>1, <1>6, <1>9 DEF Refused
<1>. QED BY <1>1, <1>3, <1>11

\* Only a write whose count was overtaken can leave no administrator: alone,
\* guardLastAdministrator keeps its promise.
THEOREM LockoutNeedsRace == Spec => LockoutNeedsARace
<1>. DEFINE Step ==
        Administrators(bindings) # {} /\ Administrators(bindings') = {}
          => \E c \in Clerks : tx[c].phase = "guarded" /\ tx[c].stale
                               /\ tx'[c] = NoTransaction
<1>1. IInv /\ [Next]_vars => [Step]_vars
  <2>. SUFFICES ASSUME IInv, [Next]_vars, Administrators(bindings) # {},
                       Administrators(bindings') = {}
                PROVE  \E c \in Clerks : tx[c].phase = "guarded" /\ tx[c].stale
                                         /\ tx'[c] = NoTransaction
    OBVIOUS
  <2>1. bindings' # bindings OBVIOUS
  <2>2. PICK c \in Clerks : WriteBinding(c)
    BY <2>1 DEF Next, vars, CountAdministrators, guardLastAdministrator, Rollback
  <2>3. Administrators(bindings)' = {} OBVIOUS
  <2>. QED BY <2>2, <2>3, LockingWrite
<1>. QED BY Invariance, <1>1, PTL DEF Spec, LockoutNeedsARace
=============================================================================
