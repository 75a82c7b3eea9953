---------------------- MODULE StoreTransactionsProofs ----------------------
(***************************************************************************)
(* Proofs about StoreTransactions, for any alerts, sources, requests and   *)
(* any interleaving of their steps.  Two things are shown: that overlapping*)
(* transactions still amount to the atomic ones of AlertStore, and what a  *)
(* deadlock takes.  Both rest on the locks: a lock has one holder, and     *)
(* what a transaction is about to write is what it would write to the      *)
(* committed row, because nobody else can have changed that row.           *)
(***************************************************************************)
EXTENDS StoreTransactions, FiniteSetTheorems, TLAPS

Fields == {"phase", "list", "at", "locks", "queued", "work"}
Resting == {"idle", "done", "failed"}
Locks == {Identity(a) : a \in Alerts} \cup {RowLock(a) : a \in Alerts}

\* A transaction record has its fields.
Shape(x) ==
    /\ DOMAIN x = Fields
    /\ x.phase \in Resting \cup {"locking", "selected", "vouching"}
    /\ x.list \in Seq(Alerts)
    /\ x.at \in Nat \ {0}
    /\ x.locks \subseteq Locks
    /\ DOMAIN x.work = Alerts

\* A phase belongs to a kind of transaction; one that rests has nothing; one
\* that queues has an alert to lock; a pass waits for rows its reading lists.
PhaseOK(t, x) ==
    /\ x.phase \in Resting => x.locks = {} /\ \A a \in Alerts : x.work[a] = Untouched
    /\ x.phase = "locking" => Kind(t) \in {"ingest", "bulk"} /\ x.list = RequestOf[t].list
    /\ x.phase = "selected" => Kind(t) \in {"sweep", "reconcile"}
    /\ x.phase = "vouching" =>
          /\ Kind(t) = "reconcile"
          /\ \A i \in 1..Len(x.list) : /\ SourceOf[x.list[i]] = RequestOf[t].source
                                       /\ RequestOf[t].live[x.list[i]] # NotHeld
    /\ x.queued => x.phase \in {"locking", "vouching"} /\ x.at <= Len(x.list)

\* Nothing is written without its row lock; a webhook has the advisory lock of
\* every row it has locked, and nobody else takes advisory locks.
LocksOK(t, x) ==
    /\ \A a \in Alerts : x.work[a] # Untouched => RowLock(a) \in x.locks
    /\ Kind(t) = "ingest" =>
          \A a \in Alerts : RowLock(a) \in x.locks => Identity(a) \in x.locks
    /\ Kind(t) # "ingest" => \A a \in Alerts : Identity(a) \notin x.locks

\* The uncommitted effect e is the one on the committed row as it is now.
Right(t, phase, a, e) ==
    /\ Kind(t) = "ingest" =>
          /\ e = Ingested(table[a], RequestOf[t].deliveries[a])
          /\ \E i \in DOMAIN RequestOf[t].list : RequestOf[t].list[i] = a
    /\ Kind(t) = "bulk" =>
          e = Changed(RequestOf[t], table[a]) /\ InScope(RequestOf[t].by, a)
    /\ Kind(t) = "sweep" =>
          e = Expired(table[a]) /\ Store!IsStale(a) /\ DefaultStaleAfter > 0
    /\ Kind(t) = "reconcile" =>
          LET q == RequestOf[t]
          IN  /\ SourceOf[a] = q.source
              /\ phase = "selected" =>
                    e = ReconciledRow(table[a], q.live[a], a \in q.missing, q.active, FALSE)
              /\ phase # "selected" =>
                    \E skipped \in BOOLEAN :
                       e = Reconciled(table[a], q.live[a], a \in q.missing, q.active, skipped)

WorkOK(t, x) ==
    \A a \in Alerts : x.work[a] # Untouched => Right(t, x.phase, a, x.work[a])

Good(t, x) == Shape(x) /\ PhaseOK(t, x) /\ LocksOK(t, x) /\ WorkOK(t, x)

Exclusive == \A t, u \in Requests : t # u => tx[t].locks \cap tx[u].locks = {}

IInv ==
    /\ DOMAIN tx = Requests
    /\ table = [a \in Alerts |-> table[a]] /\ audit = [a \in Alerts |-> audit[a]]
    /\ \A t \in Requests : Good(t, tx[t])
    /\ Exclusive

-----------------------------------------------------------------------------
(***************************************************************************)
(* Operators.                                                              *)
(***************************************************************************)

\* The names of locks tell them apart.
LEMMA LockNames ==
    ASSUME NEW a, NEW b
    PROVE  /\ Identity(a) = Identity(b) => a = b
           /\ RowLock(a) = RowLock(b) => a = b
           /\ Identity(a) # RowLock(b)
  BY DEF Identity, RowLock

\* What a request may be.
LEMMA RequestTypes ==
    ASSUME NEW t \in Requests
    PROVE  /\ Kind(t) \in {"ingest", "bulk", "sweep", "reconcile"}
           /\ Kind(t) = "ingest" => RequestOf[t] \in IngestRequest
           /\ Kind(t) = "bulk" => RequestOf[t] \in BulkRequest
           /\ Kind(t) = "sweep" => RequestOf[t] \in SweepRequest
           /\ Kind(t) = "reconcile" => RequestOf[t] \in ReconcileRequest
  <1>1. RequestOf[t] \in IngestRequest \cup BulkRequest \cup SweepRequest
                             \cup ReconcileRequest
    BY TransactionConstants
  <1>2. /\ \A q \in IngestRequest : q.kind = "ingest"
        /\ \A q \in BulkRequest : q.kind = "bulk"
        /\ \A q \in SweepRequest : q.kind = "sweep"
        /\ \A q \in ReconcileRequest : q.kind = "reconcile"
    BY DEF IngestRequest, BulkRequest, SweepRequest, ReconcileRequest
  <1>3. QED
    BY <1>1, <1>2 DEF Kind

\* The lock asked for next: a webhook's advisory lock and then its row, every
\* other transaction's row.
LEMMA NextLock ==
    ASSUME NEW t \in Requests, NEW l, IsNextLock(t, l)
    PROVE  /\ l \notin tx[t].locks
           /\ Kind(t) = "ingest" =>
                 \/ l = Identity(Current(t))
                 \/ l = RowLock(Current(t)) /\ Identity(Current(t)) \in tx[t].locks
           /\ Kind(t) # "ingest" => l = RowLock(Current(t))
  <1>1. PICK i \in DOMAIN PlanOf(t) : /\ l = PlanOf(t)[i] /\ l \notin tx[t].locks
                                      /\ \A j \in 1..(i - 1) : PlanOf(t)[j] \in tx[t].locks
    BY DEF IsNextLock
  <1>2. CASE Kind(t) = "ingest"
    <2>1. PlanOf(t) = <<Identity(Current(t)), RowLock(Current(t))>>
      BY <1>2 DEF PlanOf, LockPlan
    <2>2. DOMAIN PlanOf(t) = 1..2 /\ PlanOf(t)[1] = Identity(Current(t))
          /\ PlanOf(t)[2] = RowLock(Current(t))
      BY <2>1
    <2>3. CASE i = 1
      BY <1>1, <1>2, <2>2, <2>3
    <2>4. CASE i = 2
      BY <1>1, <1>2, <2>2, <2>4
    <2>5. QED
      BY <1>1, <2>2, <2>3, <2>4
  <1>3. CASE Kind(t) # "ingest"
    <2>1. PlanOf(t) = <<RowLock(Current(t))>>
      BY <1>3 DEF PlanOf, LockPlan
    <2>2. DOMAIN PlanOf(t) = 1..1 /\ PlanOf(t)[1] = RowLock(Current(t))
      BY <2>1
    <2>3. QED
      BY <1>1, <1>3, <2>2
  <1>4. QED
    BY <1>2, <1>3

\* The alert being locked is one of the list.
LEMMA CurrentInList ==
    ASSUME NEW t \in Requests, Shape(tx[t]), tx[t].at <= Len(tx[t].list)
    PROVE  /\ Current(t) \in Alerts
           /\ tx[t].at \in 1..Len(tx[t].list) /\ tx[t].at \in DOMAIN tx[t].list
  BY DEF Shape, Current

\* A record a transaction rests with.
LEMMA RestGood ==
    ASSUME NEW t \in Requests, NEW phase \in Resting
    PROVE  Good(t, Ended(phase)) /\ Ended(phase).locks = {}
  <1>1. /\ DOMAIN Ended(phase) = Fields /\ Ended(phase).phase = phase
        /\ Ended(phase).list = <<>> /\ Ended(phase).at = 1 /\ Ended(phase).locks = {}
        /\ Ended(phase).queued = FALSE
        /\ Ended(phase).work = [a \in Alerts |-> Untouched]
    BY DEF Ended, Idle, Fields
  <1>2. Shape(Ended(phase))
    BY <1>1 DEF Shape
  <1>3. PhaseOK(t, Ended(phase))
    BY <1>1 DEF PhaseOK, Resting
  <1>4. LocksOK(t, Ended(phase)) /\ WorkOK(t, Ended(phase))
    BY <1>1 DEF LocksOK, WorkOK
  <1>5. QED
    BY <1>1, <1>2, <1>3, <1>4 DEF Good

-----------------------------------------------------------------------------
(***************************************************************************)
(* What a deadlock takes.                                                  *)
(***************************************************************************)

\* Who holds a lock of the alert another waits for, waits itself and holds no
\* other alert is a webhook with the advisory lock that waits for the row.
LEMMA HolderWaits ==
    ASSUME IInv, NEW t \in Requests, NEW u \in Requests, WaitsFor(t, u),
           NEW m, IsNextLock(u, m), ~HoldsAnother(u)
    PROVE  /\ Kind(t) = "ingest" /\ IsNextLock(t, Identity(Current(t)))
           /\ Current(t) \in Alerts
           /\ m = RowLock(Current(t)) /\ m # Identity(Current(u))
  <1>1. PICK l \in tx[u].locks : IsNextLock(t, l)
    BY DEF WaitsFor
  <1>2. Good(u, tx[u])
    BY DEF IInv
  <1>3. /\ Kind(t) = "ingest" => l \in {Identity(Current(t)), RowLock(Current(t))}
        /\ Kind(t) # "ingest" => l = RowLock(Current(t))
    BY <1>1, NextLock
  <1>4. PICK a \in Alerts : l = Identity(a) \/ l = RowLock(a)
    BY <1>1, <1>2 DEF Good, Shape, Locks
  <1>5. a = Current(t)
    BY <1>3, <1>4, LockNames
  <1>6. a = Current(u)
    BY <1>1, <1>4 DEF HoldsAnother
  <1>7. /\ m \notin tx[u].locks
        /\ Kind(u) = "ingest" => m \in {Identity(a), RowLock(a)}
        /\ Kind(u) # "ingest" => m = RowLock(a)
    BY <1>6, NextLock
  <1>8. l = Identity(a)
    <2>1. SUFFICES ASSUME l = RowLock(a)
                   PROVE  FALSE
      BY <1>4
    <2>2. Kind(u) = "ingest" => Identity(a) \in tx[u].locks
      BY <1>1, <1>2, <2>1 DEF Good, LocksOK
    <2>3. QED
      BY <1>1, <1>7, <2>1, <2>2
  <1>9. Kind(u) = "ingest"
    BY <1>1, <1>2, <1>8 DEF Good, LocksOK
  <1>10. m = RowLock(a)
    BY <1>1, <1>7, <1>8, <1>9
  <1>11. QED
    BY <1>1, <1>3, <1>5, <1>6, <1>8, <1>10, LockNames

\* Behind a member that holds one alert only stands one that holds two, and
\* it is not the member in front.
LEMMA BatchBehind ==
    ASSUME IInv, NEW t \in Requests, NEW u \in Requests, NEW w \in Requests,
           NEW v \in Requests, WaitsFor(t, u), WaitsFor(u, w), WaitsFor(w, v),
           ~HoldsAnother(u)
    PROVE  HoldsAnother(w) /\ w # t
  <1>1. PICK m \in tx[w].locks : IsNextLock(u, m)
    BY DEF WaitsFor
  <1>2. /\ Kind(t) = "ingest" /\ IsNextLock(t, Identity(Current(t)))
        /\ Current(t) \in Alerts
        /\ m = RowLock(Current(t)) /\ m # Identity(Current(u))
    BY <1>1, HolderWaits
  <1>3. HoldsAnother(w)
    <2>1. SUFFICES ASSUME ~HoldsAnother(w)
                   PROVE  FALSE
      OBVIOUS
    <2>2. PICK n : IsNextLock(w, n)
      BY DEF WaitsFor
    <2>3. IsNextLock(u, Identity(Current(u)))
      BY <2>1, <2>2, HolderWaits
    <2>4. Identity(Current(u)) = RowLock(Current(t))
      BY <2>3, HolderWaits
    <2>5. QED
      BY <2>4, LockNames
  <1>4. w # t
    <2>1. SUFFICES ASSUME w = t
                   PROVE  FALSE
      OBVIOUS
    <2>2. RowLock(Current(t)) \in tx[t].locks /\ Good(t, tx[t])
      BY <1>1, <1>2, <2>1 DEF IInv
    <2>3. Identity(Current(t)) \in tx[t].locks
      BY <1>2, <2>2 DEF Good, LocksOK
    <2>4. QED
      BY <1>2, <2>3, NextLock
  <1>5. QED
    BY <1>3, <1>4

\* A wait cycle has two members that hold another alert than the one they
\* wait for, and every member that is not a webhook does.
LEMMA CycleNeedsBatches ==
    ASSUME IInv
    PROVE  DeadlockTakesTwoBatches
  <1> SUFFICES ASSUME NEW D \in SUBSET Waiting, WaitCycle(D)
               PROVE  /\ \E t, u \in D : t # u /\ HoldsAnother(t) /\ HoldsAnother(u)
                      /\ \A t \in D : Kind(t) # "ingest" => HoldsAnother(t)
    BY DEF DeadlockTakesTwoBatches
  <1>1. D \subseteq Requests
    BY DEF Waiting
  <1>2. \A t \in D : \E u \in D : WaitsFor(t, u)
    BY DEF WaitCycle
  <1>3. ASSUME NEW t \in D
        PROVE  \E w \in D : HoldsAnother(w) /\ w # t
    <2>1. PICK u \in D : WaitsFor(t, u)
      BY <1>2
    <2>2. PICK w \in D : WaitsFor(u, w)
      BY <1>2
    <2>3. PICK v \in D : WaitsFor(w, v)
      BY <1>2
    <2>4. CASE HoldsAnother(u)
      BY <2>1, <2>4 DEF WaitsFor
    <2>5. CASE ~HoldsAnother(u)
      BY <1>1, <2>1, <2>2, <2>3, <2>5, BatchBehind
    <2>6. QED
      BY <2>4, <2>5
  <1>4. \E t, u \in D : t # u /\ HoldsAnother(t) /\ HoldsAnother(u)
    <2>1. PICK t \in D : TRUE
      BY DEF WaitCycle
    <2>2. PICK u \in D : HoldsAnother(u)
      BY <1>3, <2>1
    <2>3. PICK w \in D : HoldsAnother(w) /\ w # u
      BY <1>3
    <2>4. QED
      BY <2>2, <2>3
  <1>5. ASSUME NEW t \in D, Kind(t) # "ingest"
        PROVE  HoldsAnother(t)
    <2>1. PICK s \in D : WaitsFor(s, t)
      BY DEF WaitCycle
    <2>2. PICK l \in tx[t].locks : TRUE
      BY <2>1 DEF WaitsFor
    <2>3. Good(t, tx[t]) /\ t \in Requests
      BY <1>1 DEF IInv
    <2>4. PICK a \in Alerts : l = RowLock(a)
      BY <1>5, <2>2, <2>3 DEF Good, Shape, Locks, LocksOK
    <2>5. PICK u \in D : WaitsFor(t, u)
      BY <1>2
    <2>6. RowLock(Current(t)) \notin tx[t].locks
      BY <1>5, <2>3, <2>5, NextLock DEF WaitsFor
    <2>7. QED
      BY <2>2, <2>4, <2>6 DEF HoldsAnother
  <1>6. QED
    BY <1>4, <1>5

-----------------------------------------------------------------------------
(***************************************************************************)
(* The inductive step: a transaction moves on, and the others do not       *)
(* notice.                                                                 *)
(***************************************************************************)

\* An effect stays the right one while the row it is on stays.
LEMMA RightStays ==
    ASSUME NEW t \in Requests, NEW phase, NEW a \in Alerts, NEW e,
           table'[a] = table[a], Right(t, phase, a, e)
    PROVE  Right(t, phase, a, e)'
  <1>1. CASE Kind(t) = "ingest"
    BY <1>1 DEF Right, Kind
  <1>2. CASE Kind(t) = "bulk"
    BY <1>2 DEF Right, Kind, InScope
  <1>3. CASE Kind(t) = "sweep"
    BY <1>3 DEF Right, Kind, Store!IsStale, Store!expiryWindow
  <1>4. CASE Kind(t) = "reconcile"
    BY <1>4 DEF Right, Kind
  <1>5. QED
    BY <1>1, <1>2, <1>3, <1>4, RequestTypes

\* So is a record, while the rows it has written stay.
LEMMA GoodStays ==
    ASSUME NEW t \in Requests, NEW x, Good(t, x),
           \A a \in Alerts : x.work[a] # Untouched => table'[a] = table[a]
    PROVE  Good(t, x)'
  <1>1. Shape(x)' /\ PhaseOK(t, x)' /\ LocksOK(t, x)'
    BY DEF Good, Shape, PhaseOK, LocksOK, Kind
  <1>2. ASSUME NEW a \in Alerts, (x.work[a] # Untouched)'
        PROVE  Right(t, x.phase, a, x.work[a])'
    <2>1. PICK e, p : e = x.work[a] /\ p = x.phase
      OBVIOUS
    <2>2. e # Untouched
      BY <1>2, <2>1 DEF Untouched
    <2>3. Right(t, p, a, e)
      BY <2>1, <2>2 DEF Good, WorkOK
    <2>4. Right(t, p, a, e)'
      BY <2>1, <2>2, <2>3, RightStays
    <2>5. QED
      BY <2>1, <2>4
  <1>3. QED
    BY <1>1, <1>2 DEF Good, WorkOK

\* One transaction goes on to a good record, and takes only free locks.
LEMMA OneMoves ==
    ASSUME IInv, NEW t \in Requests, NEW x, tx' = [tx EXCEPT ![t] = x], Good(t, x),
           \A l \in x.locks \ tx[t].locks : ~HeldElsewhere(t, l),
           UNCHANGED <<table, audit>>
    PROVE  IInv'
  <1>1. /\ DOMAIN tx' = Requests /\ tx'[t] = x
        /\ \A u \in Requests \ {t} : tx'[u] = tx[u]
    BY DEF IInv
  <1>2. ASSUME NEW u \in Requests
        PROVE  Good(u, tx[u])'
    <2>1. PICK y : y = tx'[u]
      OBVIOUS
    <2>2. Good(u, y)
      BY <1>1, <2>1 DEF IInv
    <2>3. Good(u, y)'
      BY <2>2, GoodStays
    <2>4. QED
      BY <2>1, <2>3
  <1>4. Exclusive'
    <2> SUFFICES ASSUME NEW u \in Requests \ {t}
                 PROVE  x.locks \cap tx[u].locks = {}
      BY <1>1 DEF Exclusive, IInv
    <2>1. \A l \in tx[u].locks : l \notin tx[t].locks /\ HeldElsewhere(t, l)
      BY DEF IInv, Exclusive, HeldElsewhere
    <2>2. QED
      BY <2>1
  <1>5. QED
    BY <1>1, <1>2, <1>4 DEF IInv

\* A request that begins holds nothing.
LEMMA BeginKeeps ==
    ASSUME IInv, NEW t \in Requests, Begin(t)
    PROVE  IInv'
  <1>1. PICK x : x = [Idle EXCEPT !.phase = "locking", !.list = RequestOf[t].list]
    OBVIOUS
  <1>2. /\ DOMAIN x = Fields /\ x.phase = "locking" /\ x.list = RequestOf[t].list
        /\ x.at = 1 /\ x.locks = {} /\ x.queued = FALSE
        /\ x.work = [a \in Alerts |-> Untouched]
    BY <1>1 DEF Idle, Fields
  <1>3. Kind(t) \in {"ingest", "bulk"} /\ tx' = [tx EXCEPT ![t] = x]
        /\ UNCHANGED <<table, audit>>
    BY <1>1 DEF Begin
  <1>4. RequestOf[t].list \in Seq(Alerts)
    BY <1>3, RequestTypes DEF IngestRequest, BulkRequest
  <1>5. Good(t, x)
    BY <1>2, <1>3, <1>4 DEF Good, Shape, PhaseOK, LocksOK, WorkOK, Resting
  <1>6. QED
    BY <1>2, <1>3, <1>5, OneMoves

\* A statement that queues, or passes an alert over, changes no lock and no
\* effect.
LEMMA WaitKeeps ==
    ASSUME IInv, NEW t \in Requests, Enqueue(t) \/ PassOver(t)
    PROVE  IInv'
  <1>1. Good(t, tx[t]) /\ Running(t) /\ tx[t].at <= Len(tx[t].list)
    BY DEF IInv, Enqueue, PassOver, PassesOver, Scanning
  <1>2. PICK x : /\ tx' = [tx EXCEPT ![t] = x] /\ DOMAIN x = Fields
                 /\ x.phase = tx[t].phase /\ x.list = tx[t].list
                 /\ x.at \in {tx[t].at, tx[t].at + 1} /\ x.locks = tx[t].locks
                 /\ x.work = tx[t].work /\ x.queued \in BOOLEAN
                 /\ x.queued => x.at = tx[t].at
    <2>1. CASE Enqueue(t)
      <3>1. PICK y : y = [tx[t] EXCEPT !.queued = TRUE]
        OBVIOUS
      <3>2. tx' = [tx EXCEPT ![t] = y]
        BY <2>1, <3>1 DEF Enqueue
      <3>3. /\ DOMAIN y = Fields /\ y.phase = tx[t].phase /\ y.list = tx[t].list
            /\ y.at = tx[t].at /\ y.locks = tx[t].locks /\ y.work = tx[t].work
            /\ y.queued = TRUE
        BY <1>1, <3>1 DEF Good, Shape, Fields
      <3>4. QED
        BY <3>2, <3>3
    <2>2. CASE PassOver(t)
      <3>1. PICK y : y = [tx[t] EXCEPT !.at = tx[t].at + 1, !.queued = FALSE]
        OBVIOUS
      <3>2. tx' = [tx EXCEPT ![t] = y]
        BY <2>2, <3>1 DEF PassOver, IInv
      <3>3. /\ DOMAIN y = Fields /\ y.phase = tx[t].phase /\ y.list = tx[t].list
            /\ y.at = tx[t].at + 1 /\ y.locks = tx[t].locks /\ y.work = tx[t].work
            /\ y.queued = FALSE
        BY <1>1, <3>1 DEF Good, Shape, Fields
      <3>4. QED
        BY <3>2, <3>3
    <2>3. QED
      BY <2>1, <2>2
  <1>3. x.phase \in {"locking", "vouching"} /\ x.at \in Nat \ {0}
    BY <1>1, <1>2 DEF Running, Good, Shape
  <1>4. Good(t, x)
    BY <1>1, <1>2, <1>3 DEF Good, Shape, PhaseOK, LocksOK, WorkOK
  <1>5. UNCHANGED <<table, audit>>
    BY DEF Enqueue, PassOver
  <1>6. QED
    BY <1>2, <1>4, <1>5, OneMoves

\* A rollback leaves nothing behind.
LEMMA RollbackKeeps ==
    ASSUME IInv, NEW t \in Requests, Rollback(t)
    PROVE  IInv'
  <1>1. AfterFailure(t) \in Resting
    BY DEF AfterFailure, Resting
  <1>2. Good(t, Ended(AfterFailure(t))) /\ Ended(AfterFailure(t)).locks = {}
    BY <1>1, RestGood
  <1>3. PICK x : x = Ended(AfterFailure(t))
    OBVIOUS
  <1>4. QED
    BY <1>2, <1>3, OneMoves DEF Rollback

\* The two records a granted lock leads to.
LEMMA GrantedFields ==
    ASSUME IInv, NEW t \in Requests, NEW l, Scanning(t)
    PROVE  LET x == Granted(t, l)
           IN  /\ DOMAIN x = Fields /\ x.phase = tx[t].phase /\ x.list = tx[t].list
               /\ x.locks = tx[t].locks \cup {l} /\ x.queued = FALSE
               /\ \/ x.at = tx[t].at /\ x.work = tx[t].work
                  \/ /\ \A i \in DOMAIN PlanOf(t) : PlanOf(t)[i] \in tx[t].locks \cup {l}
                     /\ x.at = tx[t].at + 1
                     /\ x.work = [tx[t].work EXCEPT ![Current(t)] = Written(t, Current(t))]
  <1>1. DOMAIN tx[t] = Fields
    BY DEF IInv, Good, Shape
  <1>2. CASE \E i \in DOMAIN PlanOf(t) : PlanOf(t)[i] \notin tx[t].locks \cup {l}
    BY <1>1, <1>2 DEF Granted, Fields
  <1>3. CASE ~\E i \in DOMAIN PlanOf(t) : PlanOf(t)[i] \notin tx[t].locks \cup {l}
    BY <1>1, <1>3 DEF Granted, Fields
  <1>4. QED
    BY <1>2, <1>3

\* Under the row lock, a statement computes the right effect.
LEMMA WrittenRight ==
    ASSUME IInv, NEW t \in Requests, Scanning(t), ~PassesOver(t),
           RowLock(Current(t)) \notin tx[t].locks \/ Kind(t) = "ingest"
    PROVE  Right(t, tx[t].phase, Current(t), Written(t, Current(t)))
  <1>1. /\ Good(t, tx[t]) /\ Running(t) /\ tx[t].at <= Len(tx[t].list)
        /\ tx[t].phase \in {"locking", "vouching"}
    BY DEF IInv, Scanning, Running
  <1>2. Current(t) \in Alerts /\ tx[t].at \in DOMAIN tx[t].list
    BY <1>1, CurrentInList DEF Good
  <1>3. CASE Kind(t) = "ingest"
    <2>1. tx[t].list = RequestOf[t].list
      BY <1>1, <1>3 DEF Good, PhaseOK
    <2>2. QED
      BY <1>2, <1>3, <2>1 DEF Right, Written, Current
  <1>4. CASE Kind(t) = "bulk"
    <2>1. Selects(t, Current(t))
      BY <1>4 DEF PassesOver
    <2>2. QED
      BY <1>4, <2>1 DEF Right, Written, Selects
  <1>5. CASE Kind(t) = "reconcile"
    <2>1. Selects(t, Current(t))
      BY <1>5 DEF PassesOver
    <2>2. table[Current(t)].status = "firing"
      BY <1>5, <2>1 DEF Selects
    <2>3. tx[t].phase = "vouching"
      BY <1>1, <1>5 DEF Good, PhaseOK
    <2>4. /\ SourceOf[Current(t)] = RequestOf[t].source
          /\ RequestOf[t].live[Current(t)] # NotHeld
      BY <1>1, <1>2, <2>3, CurrentInList DEF Good, PhaseOK, Current
    <2>5. Written(t, Current(t)) = NoEffect(Vouched(table[Current(t)]))
      BY <1>5 DEF Written
    <2>6. ASSUME NEW l, l # NotHeld, NEW m, NEW v, NEW r
          PROVE  NoEffect(Vouched(r)) = Reconciled(r, l, m, v, TRUE)
      <3>1. ReconciledRow(r, l, m, v, TRUE) = NoEffect(r)
        BY DEF ReconciledRow
      <3>2. NoEffect(r).row = r /\ NoEffect(r).history = NoEntry /\ NoEffect(r).stream = NoEvent
        BY DEF NoEffect, Effect
      <3>3. Reconciled(r, l, m, v, TRUE) = Effect(Vouched(r), NoEntry, NoEvent)
        BY <2>6, <3>1, <3>2 DEF Reconciled
      <3>4. QED
        BY <3>3 DEF NoEffect
    <2>7. QED
      BY <1>5, <2>3, <2>4, <2>5, <2>6 DEF Right
  <1>6. CASE Kind(t) = "sweep"
    BY <1>1, <1>6 DEF Good, PhaseOK
  <1>7. QED
    BY <1>3, <1>4, <1>5, <1>6, RequestTypes

\* A granted lock was free, and the last one of an alert is its row's.
LEMMA TakeLockKeeps ==
    ASSUME IInv, NEW t \in Requests, TakeLock(t)
    PROVE  IInv'
  <1>1. PICK l : /\ IsNextLock(t, l) /\ ~HeldElsewhere(t, l)
                 /\ l \in {Identity(Current(t)), RowLock(Current(t))}
                 /\ tx' = [tx EXCEPT ![t] = Granted(t, l)]
    BY DEF TakeLock
  <1>2. Scanning(t) /\ ~PassesOver(t) /\ UNCHANGED <<table, audit>>
    BY DEF TakeLock
  <1>3. /\ Good(t, tx[t]) /\ tx[t].phase \in {"locking", "vouching"}
        /\ Current(t) \in Alerts
    BY <1>2, CurrentInList DEF IInv, Good, Scanning, Running
  <1>4. PICK x : x = Granted(t, l)
    OBVIOUS
  <1>5. /\ DOMAIN x = Fields /\ x.phase = tx[t].phase /\ x.list = tx[t].list
        /\ x.locks = tx[t].locks \cup {l} /\ x.queued = FALSE
    BY <1>2, <1>4, GrantedFields
  <1>6. \/ x.at = tx[t].at /\ x.work = tx[t].work
        \/ /\ \A i \in DOMAIN PlanOf(t) : PlanOf(t)[i] \in x.locks
           /\ x.at = tx[t].at + 1
           /\ x.work = [tx[t].work EXCEPT ![Current(t)] = Written(t, Current(t))]
    BY <1>2, <1>4, <1>5, GrantedFields
  <1>7. DOMAIN tx[t].work = Alerts
    BY <1>3 DEF Good, Shape
  <1>8. x.at \in {tx[t].at, tx[t].at + 1} /\ DOMAIN x.work = Alerts
    BY <1>6, <1>7
  <1>9. \A a \in Alerts : a # Current(t) => x.work[a] = tx[t].work[a]
    BY <1>6, <1>7
  <1>10. \/ x.work[Current(t)] = tx[t].work[Current(t)]
         \/ /\ x.work[Current(t)] = Written(t, Current(t))
            /\ \A i \in DOMAIN PlanOf(t) : PlanOf(t)[i] \in x.locks
    BY <1>3, <1>6, <1>7
  <1>11. (\A i \in DOMAIN PlanOf(t) : PlanOf(t)[i] \in x.locks) => RowLock(Current(t)) \in x.locks
    <2>1. CASE Kind(t) = "ingest"
      <3>1. PlanOf(t) = <<Identity(Current(t)), RowLock(Current(t))>>
        BY <2>1 DEF PlanOf, LockPlan
      <3>2. QED
        BY <3>1
    <2>2. CASE Kind(t) # "ingest"
      <3>1. PlanOf(t) = <<RowLock(Current(t))>>
        BY <2>2 DEF PlanOf, LockPlan
      <3>2. QED
        BY <3>1
    <2>3. QED
      BY <2>1, <2>2
  <1>12. /\ l \notin tx[t].locks
         /\ Kind(t) = "ingest" =>
               \/ l = Identity(Current(t))
               \/ l = RowLock(Current(t)) /\ Identity(Current(t)) \in tx[t].locks
         /\ Kind(t) # "ingest" => l = RowLock(Current(t))
    BY <1>1, NextLock
  <1>13. Shape(x)
    BY <1>1, <1>3, <1>5, <1>8 DEF Good, Shape, Locks
  <1>14. PhaseOK(t, x)
    BY <1>3, <1>5 DEF Good, PhaseOK, Resting
  <1>15. LocksOK(t, x)
    <2>1. \A a \in Alerts : x.work[a] # Untouched => RowLock(a) \in x.locks
      BY <1>3, <1>5, <1>9, <1>10, <1>11 DEF Good, LocksOK
    <2>2. ASSUME Kind(t) = "ingest", NEW a \in Alerts, RowLock(a) \in x.locks
          PROVE  Identity(a) \in x.locks
      <3>1. CASE RowLock(a) \in tx[t].locks
        BY <1>3, <1>5, <2>2, <3>1 DEF Good, LocksOK
      <3>2. CASE RowLock(a) = l
        BY <1>5, <1>12, <2>2, <3>2, LockNames
      <3>3. QED
        BY <1>5, <2>2, <3>1, <3>2
    <2>3. ASSUME Kind(t) # "ingest", NEW a \in Alerts
          PROVE  Identity(a) \notin x.locks
      BY <1>3, <1>5, <1>12, <2>3, LockNames DEF Good, LocksOK
    <2>4. QED
      BY <2>1, <2>2, <2>3 DEF LocksOK
  <1>16. WorkOK(t, x)
    <2>1. Right(t, tx[t].phase, Current(t), Written(t, Current(t)))
      BY <1>2, <1>12, WrittenRight
    <2>2. ASSUME NEW a \in Alerts, x.work[a] # Untouched
          PROVE  Right(t, x.phase, a, x.work[a])
      <3>1. CASE x.work[a] = tx[t].work[a]
        BY <1>3, <1>5, <2>2, <3>1 DEF Good, WorkOK
      <3>2. CASE x.work[a] # tx[t].work[a]
        BY <1>5, <1>9, <1>10, <2>1, <3>2
      <3>3. QED
        BY <3>1, <3>2
    <2>3. QED
      BY <2>2 DEF WorkOK
  <1>17. Good(t, x)
    BY <1>13, <1>14, <1>15, <1>16 DEF Good
  <1>18. QED
    BY <1>1, <1>2, <1>4, <1>5, <1>17, OneMoves

\* A SELECT ... SKIP LOCKED takes free rows only.
LEMMA SelectedKeeps ==
    ASSUME IInv, NEW t \in Requests, Kind(t) \in {"sweep", "reconcile"},
           NEW S \in SUBSET Unlocked(t), NEW effects, DOMAIN effects = S,
           \A a \in S : Right(t, "selected", a, effects[a]),
           tx' = [tx EXCEPT ![t] = Selected(effects)], UNCHANGED <<table, audit>>
    PROVE  IInv'
  <1>1. PICK x : x = Selected(effects)
    OBVIOUS
  <1>2. /\ DOMAIN x = Fields /\ x.phase = "selected" /\ x.list = <<>> /\ x.at = 1
        /\ x.queued = FALSE /\ x.locks = {RowLock(a) : a \in S}
        /\ x.work = [a \in Alerts |-> IF a \in S THEN effects[a] ELSE Untouched]
    BY <1>1 DEF Selected, Idle, Fields
  <1>3. S \subseteq Alerts /\ \A a \in S : ~HeldElsewhere(t, RowLock(a))
    BY DEF Unlocked
  <1>4. Shape(x) /\ PhaseOK(t, x)
    BY <1>2, <1>3 DEF Shape, PhaseOK, Resting, Locks
  <1>5. LocksOK(t, x)
    BY <1>2, <1>3, LockNames DEF LocksOK
  <1>6. WorkOK(t, x)
    BY <1>2 DEF WorkOK
  <1>7. Good(t, x)
    BY <1>4, <1>5, <1>6 DEF Good
  <1>8. QED
    BY <1>1, <1>2, <1>3, <1>7, OneMoves

\* The sweep takes stale rows.
LEMMA SweepKeeps ==
    ASSUME IInv, NEW t \in Requests, SweepSelects(t)
    PROVE  IInv'
  <1>1. PICK S \in SUBSET Unlocked(t) :
           /\ S \subseteq {a \in Unlocked(t) : Exists(table[a]) /\ Store!IsStale(a)}
           /\ tx' = [tx EXCEPT ![t] = Selected([a \in S |-> Expired(table[a])])]
    BY DEF SweepSelects
  <1>2. PICK e : e = [a \in S |-> Expired(table[a])]
    OBVIOUS
  <1>3. Kind(t) = "sweep" /\ DefaultStaleAfter > 0 /\ UNCHANGED <<table, audit>>
    BY DEF SweepSelects
  <1>4. \A a \in S : Right(t, "selected", a, e[a])
    BY <1>1, <1>2, <1>3 DEF Right
  <1>5. QED
    BY <1>1, <1>2, <1>3, <1>4, SelectedKeeps

\* The pass takes rows of its source.
LEMMA ReconcileKeeps ==
    ASSUME IInv, NEW t \in Requests, ReconcileSelects(t)
    PROVE  IInv'
  <1>1. PICK q, S, e :
           /\ q = RequestOf[t] /\ S = {a \in Unlocked(t) : Examined(q, a)}
           /\ e = [a \in S |->
                 ReconciledRow(table[a], q.live[a], a \in q.missing, q.active, FALSE)]
    OBVIOUS
  <1>2. /\ Kind(t) = "reconcile" /\ UNCHANGED <<table, audit>>
        /\ tx' = [tx EXCEPT ![t] = Selected(e)]
    BY <1>1 DEF ReconcileSelects
  <1>3. \A a \in S : Right(t, "selected", a, e[a])
    BY <1>1, <1>2 DEF Right, Examined
  <1>4. QED
    BY <1>1, <1>2, <1>3, SelectedKeeps

\* The order the closing UPDATE waits in is a list of alerts.
LEMMA OrderIsList ==
    ASSUME NEW S \in SUBSET Alerts, NEW order \in Orders(S)
    PROVE  order \in Seq(Alerts) /\ \A i \in 1..Len(order) : order[i] \in S
  <1>1. IsFiniteSet(S)
    BY TransactionConstants, FS_Subset
  <1>2. Cardinality(S) \in Nat
    BY <1>1, FS_CardinalityType
  <1>3. order \in [1..Cardinality(S) -> S]
    BY DEF Orders
  <1>4. order \in Seq(S)
    BY <1>2, <1>3
  <1>5. QED
    BY <1>4

\* Stamping the rows the pass holds makes each effect the one AlertStore
\* computes for a row that was not skipped.
LEMMA StampKeeps ==
    ASSUME IInv, NEW t \in Requests, ReconcileStamps(t)
    PROVE  IInv'
  <1>1. PICK q, rest :
           /\ q = RequestOf[t]
           /\ rest = {a \in Alerts : /\ SourceOf[a] = q.source
                                     /\ q.live[a] # NotHeld
                                     /\ tx[t].work[a] = Untouched
                                     /\ table[a].status = "firing"}
    OBVIOUS
  <1>2. /\ Kind(t) = "reconcile" /\ tx[t].phase = "selected"
        /\ UNCHANGED <<table, audit>>
    BY DEF ReconcileStamps
  <1>3. PICK order \in Orders(rest) :
           tx' = [tx EXCEPT ![t].phase = "vouching", ![t].list = order,
                            ![t].work = [a \in Alerts |-> Stamped(q, a, tx[t].work[a])]]
    BY <1>1 DEF ReconcileStamps
  <1>4. PICK x : x = [tx[t] EXCEPT !.phase = "vouching", !.list = order,
                            !.work = [a \in Alerts |-> Stamped(q, a, tx[t].work[a])]]
    OBVIOUS
  <1>5. tx' = [tx EXCEPT ![t] = x]
    BY <1>3, <1>4 DEF IInv
  <1>6. Good(t, tx[t])
    BY DEF IInv
  <1>7. /\ DOMAIN x = Fields /\ x.phase = "vouching" /\ x.list = order
        /\ x.at = tx[t].at /\ x.locks = tx[t].locks /\ x.queued = tx[t].queued
        /\ x.work = [a \in Alerts |-> Stamped(q, a, tx[t].work[a])]
    BY <1>4, <1>6 DEF Good, Shape, Fields
  <1>8. order \in Seq(Alerts) /\ \A i \in 1..Len(order) : order[i] \in rest
    BY <1>1, OrderIsList
  <1>9. ~x.queued
    BY <1>2, <1>6, <1>7 DEF Good, PhaseOK
  <1>10. Shape(x)
    BY <1>6, <1>7, <1>8 DEF Good, Shape
  <1>11. PhaseOK(t, x)
    BY <1>1, <1>2, <1>7, <1>8, <1>9 DEF PhaseOK, Resting
  <1>12. ASSUME NEW a \in Alerts, x.work[a] # Untouched
         PROVE  tx[t].work[a] # Untouched /\ x.work[a] = Stamped(q, a, tx[t].work[a])
    BY <1>7, <1>12 DEF Stamped
  <1>13. LocksOK(t, x)
    BY <1>6, <1>7, <1>12 DEF Good, LocksOK
  <1>14. ASSUME NEW a \in Alerts, x.work[a] # Untouched
         PROVE  Right(t, x.phase, a, x.work[a])
    <2>1. PICK e : e = tx[t].work[a]
      OBVIOUS
    <2>2. e # Untouched /\ x.work[a] = Stamped(q, a, e)
      BY <1>12, <1>14, <2>1
    <2>3. /\ SourceOf[a] = q.source
          /\ e = ReconciledRow(table[a], q.live[a], a \in q.missing, q.active, FALSE)
      BY <1>1, <1>2, <1>6, <2>1, <2>2 DEF Good, WorkOK, Right
    <2>4. Stamped(q, a, e)
             = Reconciled(table[a], q.live[a], a \in q.missing, q.active, FALSE)
      BY <2>2, <2>3 DEF Stamped, Reconciled
    <2>5. QED
      BY <1>1, <1>2, <1>7, <2>2, <2>3, <2>4 DEF Right
  <1>15. Good(t, x)
    BY <1>10, <1>11, <1>13, <1>14 DEF Good, WorkOK
  <1>16. QED
    BY <1>2, <1>5, <1>7, <1>15, OneMoves

\* A commit writes only rows it holds: nobody else has an effect on them.
LEMMA CommitKeeps ==
    ASSUME IInv, NEW t \in Requests, CommitTransaction(t)
    PROVE  IInv'
  <1>1. PICK x : x = Ended(AfterCommit(t))
    OBVIOUS
  <1>2. AfterCommit(t) \in Resting
    BY DEF AfterCommit, Resting
  <1>3. tx' = [tx EXCEPT ![t] = x]
    BY <1>1 DEF CommitTransaction
  <1>4. /\ DOMAIN tx' = Requests /\ tx'[t] = x
        /\ \A u \in Requests \ {t} : tx'[u] = tx[u]
    BY <1>3 DEF IInv
  <1>5. /\ table' = [a \in Alerts |-> table'[a]]
        /\ audit' = [a \in Alerts |-> audit'[a]]
        /\ \A a \in Alerts : tx[t].work[a] = Untouched => table'[a] = table[a]
    BY DEF CommitTransaction
  <1>6. Good(t, x)' /\ x.locks = {}
    <2>1. Good(t, x) /\ x.locks = {}
      BY <1>1, <1>2, RestGood
    <2>2. \A a \in Alerts : x.work[a] = Untouched
      BY <1>1 DEF Ended, Idle
    <2>3. QED
      BY <2>1, <2>2, GoodStays
  <1>7. ASSUME NEW u \in Requests \ {t}
        PROVE  Good(u, tx[u])'
    <2>1. PICK y : y = tx[u]
      OBVIOUS
    <2>2. Good(u, y) /\ Good(t, tx[t])
      BY <2>1 DEF IInv
    <2>3. ASSUME NEW a \in Alerts, y.work[a] # Untouched
          PROVE  table'[a] = table[a]
      <3>1. RowLock(a) \in tx[u].locks
        BY <2>1, <2>2, <2>3 DEF Good, LocksOK
      <3>2. RowLock(a) \notin tx[t].locks
        BY <3>1 DEF IInv, Exclusive
      <3>3. tx[t].work[a] = Untouched
        BY <2>2, <3>2 DEF Good, LocksOK
      <3>4. QED
        BY <1>5, <3>3
    <2>4. Good(u, y)'
      BY <2>2, <2>3, GoodStays
    <2>5. QED
      BY <1>4, <2>1, <2>4
  <1>8. Exclusive'
    BY <1>4, <1>6 DEF Exclusive, IInv
  <1>9. QED
    BY <1>4, <1>5, <1>6, <1>7, <1>8 DEF IInv

\* Time passes only while nothing is in flight.
LEMMA TickKeeps ==
    ASSUME IInv, Tick
    PROVE  IInv'
  <1>1. /\ UNCHANGED tx /\ UNCHANGED audit /\ table' = [a \in Alerts |-> table'[a]]
        /\ \A t \in Requests : tx[t].phase \in Resting
    BY DEF Tick, Resting
  <1>2. ASSUME NEW t \in Requests
        PROVE  Good(t, tx[t])'
    <2>1. PICK y : y = tx[t]
      OBVIOUS
    <2>2. Good(t, y) /\ \A a \in Alerts : y.work[a] = Untouched
      BY <1>1, <2>1 DEF IInv, Good, PhaseOK
    <2>3. Good(t, y)'
      BY <2>2, GoodStays
    <2>4. QED
      BY <1>1, <2>1, <2>3
  <1>3. QED
    BY <1>1, <1>2 DEF IInv, Exclusive

\* IInv holds throughout: locks have one holder, and every uncommitted effect
\* is the right one for the committed row.
THEOREM Invariance == Spec => []IInv
  <1>1. Init => IInv
    <2> SUFFICES ASSUME Init
                 PROVE  IInv
      OBVIOUS
    <2>1. /\ DOMAIN Idle = Fields /\ Idle.phase = "idle" /\ Idle.list = <<>> /\ Idle.at = 1
          /\ Idle.locks = {} /\ Idle.queued = FALSE
          /\ Idle.work = [a \in Alerts |-> Untouched]
      BY DEF Idle, Fields
    <2>2. \A t \in Requests : Good(t, Idle)
      BY <2>1 DEF Good, Shape, PhaseOK, LocksOK, WorkOK, Resting
    <2>3. \A t \in Requests : Good(t, tx[t]) /\ tx[t].locks = {}
      BY <2>1, <2>2 DEF Init
    <2>4. QED
      BY <2>3 DEF Init, IInv, Exclusive
  <1>2. IInv /\ [Next]_vars => IInv'
    <2> SUFFICES ASSUME IInv, [Next]_vars
                 PROVE  IInv'
      OBVIOUS
    <2>1. CASE UNCHANGED vars
      <3>1. UNCHANGED table /\ UNCHANGED audit /\ UNCHANGED tx
        BY <2>1 DEF vars
      <3>2. ASSUME NEW t \in Requests
            PROVE  Good(t, tx[t])'
        <4>1. PICK y : y = tx[t]
          OBVIOUS
        <4>2. Good(t, y)'
          BY <3>1, <4>1, GoodStays DEF IInv
        <4>3. QED
          BY <3>1, <4>1, <4>2
      <3>3. QED
        BY <3>1, <3>2 DEF IInv, Exclusive
    <2>2. CASE Tick
      BY <2>2, TickKeeps
    <2>3. ASSUME NEW t \in Requests, Begin(t) \/ SweepSelects(t) \/ ReconcileSelects(t)
          PROVE  IInv'
      BY <2>3, BeginKeeps, SweepKeeps, ReconcileKeeps
    <2>4. ASSUME NEW t \in Requests, TakeLock(t) \/ Enqueue(t) \/ PassOver(t)
          PROVE  IInv'
      BY <2>4, TakeLockKeeps, WaitKeeps
    <2>5. ASSUME NEW t \in Requests, ReconcileStamps(t) \/ CommitTransaction(t)
          PROVE  IInv'
      BY <2>5, StampKeeps, CommitKeeps
    <2>6. ASSUME NEW t \in Requests, TransactionFails(t) \/ DeadlockDetected(t)
          PROVE  IInv'
      BY <2>6, RollbackKeeps DEF TransactionFails, DeadlockDetected
    <2>7. QED
      BY <2>1, <2>2, <2>3, <2>4, <2>5, <2>6 DEF Next, Step
  <1>3. QED
    BY <1>1, <1>2, PTL DEF Spec

\* Whatever the batches name and however they interleave, a deadlock needs two
\* transactions that hold one alert while they wait for another: with single
\* alerts (Ingest, applyToAlerts) there is none.
THEOREM Deadlocks == Spec => []DeadlockTakesTwoBatches
  BY Invariance, CycleNeedsBatches, PTL

-----------------------------------------------------------------------------
(***************************************************************************)
(* AlertStore's operators are those of AlertRow.                           *)
(***************************************************************************)

\* Store!X and X are the same rows, events and effects.
LEMMA SameValues ==
    /\ Store!Absent = Absent /\ Store!NoEvent = NoEvent /\ Store!NoEntry = NoEntry
    /\ Store!NotHeld = NotHeld /\ Store!Delivery = Delivery
    /\ Store!Listings = Listings /\ Store!LiveState = LiveState
  BY DEF Store!Absent, Absent, Store!NoEvent, NoEvent, Store!NoEntry, NoEntry,
         Store!NotHeld, NotHeld, Store!Delivery, Delivery,
         Store!Listings, Listings, Store!NoListing, NoListing, Store!LiveState, LiveState

LEMMA SameEffects ==
    ASSUME NEW r, NEW d, NEW op, NEW on
    PROVE  /\ Store!Exists(r) <=> Exists(r)
           /\ Store!NoEffect(r) = NoEffect(r)
           /\ Store!Ingested(r, d) = Ingested(r, d)
           /\ Store!Acknowledged(r, op, on) = Acknowledged(r, op, on)
           /\ Store!Assigned(r, op, on) = Assigned(r, op, on)
           /\ Store!Closed(r, op, on) = Closed(r, op, on)
           /\ Store!Noted(r, op) = Noted(r, op)
           /\ Store!Expired(r) = Expired(r)
  <1>1. \A x, y, z : Store!Effect(x, y, z) = Effect(x, y, z)
    BY DEF Store!Effect, Effect
  <1>2. \A x, y, z, w : Store!Entry(x, y, z, w) = Entry(x, y, z, w)
    BY DEF Store!Entry, Entry
  <1>3. \A x : Store!NoEffect(x) = NoEffect(x)
    BY <1>1, SameValues DEF Store!NoEffect, NoEffect
  <1>4. \A x, y, z : Store!SystemEffect(x, y, z) = SystemEffect(x, y, z)
    BY <1>1, <1>2 DEF Store!SystemEffect, SystemEffect
  <1>5. /\ Store!Exists(r) <=> Exists(r)
        /\ Store!Reopens(r, d) <=> Reopens(r, d)
        /\ Store!alertMateriallyChanged(r, d) <=> alertMateriallyChanged(r, d)
    BY DEF Store!Exists, Exists, Store!Reopens, Reopens, Store!alertMateriallyChanged,
           alertMateriallyChanged
  <1>6. Store!DeliveredRow(r, d) = DeliveredRow(r, d)
    BY DEF Store!DeliveredRow, DeliveredRow, Store!DeliveredWith, DeliveredWith,
           Store!Unless, Unless, Store!UndoesClose, UndoesClose, Store!Reopens, Reopens,
           Store!alertMateriallyChanged, alertMateriallyChanged
  <1>7. /\ Store!InsertedRow(d) = InsertedRow(d)
        /\ Store!IngestHistoryType(r, d) = IngestHistoryType(r, d)
    BY DEF Store!InsertedRow, InsertedRow, Store!IngestHistoryType, IngestHistoryType,
           Store!Reopens, Reopens
  <1>8. Store!Ingested(r, d) = Ingested(r, d)
    BY <1>3, <1>4, <1>5, <1>6, <1>7 DEF Store!Ingested, Ingested
  <1>9. /\ Store!Acknowledged(r, op, on) = Acknowledged(r, op, on)
        /\ Store!Assigned(r, op, on) = Assigned(r, op, on)
        /\ Store!Closed(r, op, on) = Closed(r, op, on)
        /\ Store!Noted(r, op) = Noted(r, op)
    BY <1>1, <1>2, <1>3 DEF Store!Acknowledged, Acknowledged, Store!Assigned, Assigned,
       Store!Closed, Closed, Store!Noted, Noted
  <1>10. Store!Expired(r) = Expired(r)
    BY <1>4 DEF Store!Expired, Expired
  <1>11. QED
    BY <1>3, <1>5, <1>8, <1>9, <1>10

LEMMA SameReconciled ==
    ASSUME NEW r, NEW l, NEW m, NEW v, NEW k
    PROVE  Store!Reconciled(r, l, m, v, k) = Reconciled(r, l, m, v, k)
  <1>1. /\ \A x, y, z : Store!Effect(x, y, z) = Effect(x, y, z)
        /\ \A x, y, z : Store!SystemEffect(x, y, z) = SystemEffect(x, y, z)
        /\ \A x : Store!NoEffect(x) = NoEffect(x)
    BY DEF Store!Effect, Effect, Store!SystemEffect, SystemEffect, Store!Entry, Entry,
           Store!NoEffect, NoEffect, Store!NoEntry, NoEntry, Store!NoEvent, NoEvent
  <1>2. /\ Store!Revived(r, l) = Revived(r, l)
        /\ Store!ReconciledAway(r) = ReconciledAway(r)
        /\ Store!Released(r, v) = Released(r, v)
        /\ Store!SuppressionSynced(r, l) = SuppressionSynced(r, l)
    BY <1>1, SameValues DEF Store!Revived, Revived, Store!ReconciledAway, ReconciledAway,
       Store!Released, Released, Store!SuppressionSynced, SuppressionSynced
  <1>3. Store!ReconciledRow(r, l, m, v, k) = ReconciledRow(r, l, m, v, k)
    BY <1>1, <1>2, SameValues DEF Store!ReconciledRow, ReconciledRow
  <1>4. \A x : Store!Vouched(x) = Vouched(x)
    BY DEF Store!Vouched, Vouched
  <1>5. QED
    BY <1>1, <1>3, <1>4, SameValues DEF Store!Reconciled, Reconciled

-----------------------------------------------------------------------------
(***************************************************************************)
(* Overlapping transactions implement the atomic ones.                     *)
(***************************************************************************)

\* AlertStore is explored up to MaxOccurrence and MaxNotes; the transactions
\* are not bounded.
WithinBounds ==
    \A a \in Alerts : Exists(table[a]) => /\ table[a].occurrence < MaxOccurrence
                                          /\ table[a].notes < MaxNotes

\* What the commit of t writes to alert a.
EffectOf(t, a) ==
    IF tx[t].work[a] # Untouched THEN tx[t].work[a] ELSE NoEffect(table[a])

\* A commit is AlertStore's commit of those effects.
LEMMA CommitIsAtomic ==
    ASSUME IInv, NEW t \in Requests, CommitTransaction(t),
           NEW effect, \A a \in Alerts : effect[a] = EffectOf(t, a)
    PROVE  Store!Commit(effect)
  <1>1. \A r : /\ NoEffect(r).row = r /\ NoEffect(r).history = NoEntry
               /\ NoEffect(r).stream = NoEvent
    BY DEF NoEffect, Effect
  <1>2. table' = [a \in Alerts |-> effect[a].row]
    BY <1>1 DEF CommitTransaction, EffectOf
  <1>3. audit' = [a \in Alerts |-> Store!Replay(audit[a], effect[a].history)]
    <2>1. \A h : Store!Replay(h, NoEntry) = h
      BY SameValues DEF Store!Replay
    <2>2. QED
      BY <1>1, <2>1 DEF CommitTransaction, EffectOf
  <1>4. ASSUME NEW a \in Alerts
        PROVE  announced'[a] = IF effect[a].stream = NoEvent THEN announced[a]
                               ELSE [event |-> effect[a].stream,
                                     row |-> Store!Visible(effect[a].row)]
    BY <1>1 DEF CommitTransaction, EffectOf
  <1>5. ASSUME NEW a \in Alerts
        PROVE  /\ announced'[a].row = IF effect[a].stream = NoEvent THEN announced[a].row
                                      ELSE Store!Visible(effect[a].row)
               /\ announced'[a].event = IF effect[a].stream = NoEvent
                                        THEN announced[a].event ELSE effect[a].stream
    <2>1. CASE effect[a].stream = NoEvent
      BY <1>4, <2>1
    <2>2. CASE effect[a].stream # NoEvent
      <3>1. announced'[a] = [event |-> effect[a].stream,
                             row |-> Store!Visible(effect[a].row)]
        BY <1>4, <2>2
      <3>2. QED
        BY <2>2, <3>1
    <2>3. QED
      BY <2>1, <2>2
  <1>6. QED
    BY <1>2, <1>3, <1>5, SameValues DEF Store!Commit

\* A commit that wrote nothing leaves the store as it is.
LEMMA EmptyCommit ==
    ASSUME IInv, NEW t \in Requests, CommitTransaction(t),
           \A a \in Alerts : tx[t].work[a] = Untouched
    PROVE  UNCHANGED Store!vars
  <1>1. table' = [a \in Alerts |-> table[a]] /\ audit' = [a \in Alerts |-> audit[a]]
        /\ \A a \in Alerts : announced'[a] = announced[a]
    BY DEF CommitTransaction
  <1>2. UNCHANGED table /\ UNCHANGED audit
    BY <1>1 DEF IInv
  <1>3. QED
    BY <1>1, <1>2 DEF Store!vars

\* A webhook's commit is an ingestion of the alerts it wrote.
LEMMA IngestCommits ==
    ASSUME IInv, WithinBounds, NEW t \in Requests, CommitTransaction(t), Kind(t) = "ingest"
    PROVE  [Store!Next]_(Store!vars)
  <1>1. PICK q, batch : q = RequestOf[t] /\ batch = {a \in Alerts : tx[t].work[a] # Untouched}
    OBVIOUS
  <1>2. CASE batch = {}
    BY <1>1, <1>2, EmptyCommit
  <1>3. CASE batch # {}
    <2>1. q \in IngestRequest
      BY <1>1, RequestTypes
    <2>2. /\ q.deliveries \in [Alerts -> Store!Delivery]
          /\ \A i, j \in DOMAIN q.list : SourceOf[q.list[i]] = SourceOf[q.list[j]]
      BY <2>1, SameValues DEF IngestRequest
    <2>3. \A a \in batch : /\ tx[t].work[a] = Ingested(table[a], q.deliveries[a])
                           /\ \E i \in DOMAIN q.list : q.list[i] = a
      BY <1>1 DEF IInv, Good, WorkOK, Right
    <2>4. \E s \in Sources : \A a \in batch : SourceOf[a] = s
      <3>1. PICK b \in batch : TRUE
        BY <1>3
      <3>2. SourceOf[b] \in Sources
        BY <1>1, TransactionConstants
      <3>3. \A a \in batch : SourceOf[a] = SourceOf[b]
        BY <2>2, <2>3
      <3>4. QED
        BY <3>2, <3>3
    <2>5. PICK effect : effect = [a \in Alerts |->
             IF a \in batch THEN Store!Ingested(table[a], q.deliveries[a])
             ELSE Store!NoEffect(table[a])]
      OBVIOUS
    <2>6. ASSUME NEW a \in Alerts
          PROVE  effect[a] = EffectOf(t, a)
      <3>1. CASE a \in batch
        <4>1. effect[a] = Ingested(table[a], q.deliveries[a])
          BY <2>5, <3>1, SameEffects
        <4>2. EffectOf(t, a) = tx[t].work[a]
          BY <1>1, <3>1 DEF EffectOf
        <4>3. QED
          BY <2>3, <3>1, <4>1, <4>2
      <3>2. CASE a \notin batch
        <4>1. effect[a] = NoEffect(table[a])
          BY <2>5, <3>2, SameEffects
        <4>2. EffectOf(t, a) = NoEffect(table[a])
          BY <1>1, <3>2 DEF EffectOf
        <4>3. QED
          BY <4>1, <4>2
      <3>3. QED
        BY <3>1, <3>2
    <2>7. Store!Commit([a \in Alerts |->
             IF a \in batch THEN Store!Ingested(table[a], q.deliveries[a])
             ELSE Store!NoEffect(table[a])])
      <3>1. Store!Commit(effect)
        BY <2>6, CommitIsAtomic
      <3>2. QED
        BY <2>5, <3>1 DEF Store!Commit
    <2>8. \A a \in batch : Store!Exists(table[a]) => table[a].occurrence < MaxOccurrence
      BY <1>1, SameEffects DEF WithinBounds
    <2>9. Store!Ingest(batch, q.deliveries)
      BY <1>3, <2>4, <2>7, <2>8 DEF Store!Ingest
    <2>10. batch \in SUBSET Alerts
      BY <1>1
    <2>11. QED
      BY <2>2, <2>9, <2>10 DEF Store!Next
  <1>4. QED
    BY <1>2, <1>3

\* A bulk action's commit is the same action on the alerts it reached.
LEMMA BulkCommits ==
    ASSUME IInv, WithinBounds, NEW t \in Requests, CommitTransaction(t), Kind(t) = "bulk"
    PROVE  [Store!Next]_(Store!vars)
  <1>1. PICK q, ids, effect :
           /\ q = RequestOf[t] /\ ids = {a \in Alerts : tx[t].work[a] # Untouched}
           /\ effect = [a \in Alerts |-> EffectOf(t, a)]
    OBVIOUS
  <1>2. /\ q.by \in Operators /\ q.assignee \in Assignees \cup {NoOne}
        /\ q.change \in {"acknowledge", "unacknowledge", "assign", "close", "reopen", "note"}
    BY <1>1, RequestTypes DEF BulkRequest
  <1>3. effect = [a \in Alerts |-> effect[a]]
        /\ \A a \in Alerts : a \notin ids => effect[a] = Store!NoEffect(table[a])
    BY <1>1, SameEffects DEF EffectOf
  <1>4. \A a \in ids : effect[a] = Changed(q, table[a])
    BY <1>1 DEF EffectOf, IInv, Good, WorkOK, Right
  <1>5. \A a \in ids : Store!InScope(q.by, a)
    BY <1>1, SameEffects DEF IInv, Good, WorkOK, Right, InScope, Store!InScope
  <1>6. Store!Commit(effect)
    BY <1>1, CommitIsAtomic
  <1>7. ids \in SUBSET Alerts
    BY <1>1
  <1>8. \A a \in ids : table[a].notes < MaxNotes
    BY <1>1, <1>5, SameEffects DEF WithinBounds, Store!InScope
  <1>9. CASE q.change = "acknowledge"
    <2>1. \A a \in ids : effect[a] = Store!Acknowledged(table[a], q.by, TRUE)
      <3>1. \A a \in ids : effect[a] = Acknowledged(table[a], q.by, TRUE)
        BY <1>9, <1>4 DEF Changed
      <3>2. QED
        BY <3>1, SameEffects
    <2>2. effect = [a \in Alerts |-> IF a \in ids /\ Store!InScope(q.by, a)
                                     THEN Store!Acknowledged(table[a], q.by, TRUE)
                                     ELSE Store!NoEffect(table[a])]
      BY <1>3, <1>5, <2>1
    <2>3. Store!AcknowledgeAlerts(q.by, ids, TRUE)
      BY <1>6, <2>2 DEF Store!AcknowledgeAlerts, Store!Commit
    <2>4. QED
      BY <1>2, <1>7, <2>3 DEF Store!Next
  <1>10. CASE q.change = "unacknowledge"
    <2>1. \A a \in ids : effect[a] = Store!Acknowledged(table[a], q.by, FALSE)
      BY <1>10, <1>4, SameEffects DEF Changed
    <2>2. effect = [a \in Alerts |-> IF a \in ids /\ Store!InScope(q.by, a)
                                     THEN Store!Acknowledged(table[a], q.by, FALSE)
                                     ELSE Store!NoEffect(table[a])]
      BY <1>3, <1>5, <2>1
    <2>3. Store!AcknowledgeAlerts(q.by, ids, FALSE)
      BY <1>6, <2>2 DEF Store!AcknowledgeAlerts, Store!Commit
    <2>4. QED
      BY <1>2, <1>7, <2>3 DEF Store!Next
  <1>11. CASE q.change = "assign"
    <2>1. \A a \in ids : effect[a] = Store!Assigned(table[a], q.by, q.assignee)
      BY <1>11, <1>4, SameEffects DEF Changed
    <2>2. effect = [a \in Alerts |-> IF a \in ids /\ Store!InScope(q.by, a)
                                     THEN Store!Assigned(table[a], q.by, q.assignee)
                                     ELSE Store!NoEffect(table[a])]
      BY <1>3, <1>5, <2>1
    <2>3. Store!AssignAlerts(q.by, ids, q.assignee)
      BY <1>6, <2>2 DEF Store!AssignAlerts, Store!Commit
    <2>4. QED
      BY <1>2, <1>7, <2>3 DEF Store!Next
  <1>12. CASE q.change = "close"
    <2>1. \A a \in ids : effect[a] = Store!Closed(table[a], q.by, TRUE)
      BY <1>12, <1>4, SameEffects DEF Changed
    <2>2. effect = [a \in Alerts |-> IF a \in ids /\ Store!InScope(q.by, a)
                                     THEN Store!Closed(table[a], q.by, TRUE)
                                     ELSE Store!NoEffect(table[a])]
      BY <1>3, <1>5, <2>1
    <2>3. Store!CloseAlerts(q.by, ids, TRUE)
      BY <1>6, <2>2 DEF Store!CloseAlerts, Store!Commit
    <2>4. QED
      BY <1>2, <1>7, <2>3 DEF Store!Next
  <1>13. CASE q.change = "reopen"
    <2>1. \A a \in ids : effect[a] = Store!Closed(table[a], q.by, FALSE)
      BY <1>13, <1>4, SameEffects DEF Changed
    <2>2. effect = [a \in Alerts |-> IF a \in ids /\ Store!InScope(q.by, a)
                                     THEN Store!Closed(table[a], q.by, FALSE)
                                     ELSE Store!NoEffect(table[a])]
      BY <1>3, <1>5, <2>1
    <2>3. Store!CloseAlerts(q.by, ids, FALSE)
      BY <1>6, <2>2 DEF Store!CloseAlerts, Store!Commit
    <2>4. QED
      BY <1>2, <1>7, <2>3 DEF Store!Next
  <1>14. CASE q.change = "note"
    <2>1. \A a \in ids : effect[a] = Store!Noted(table[a], q.by)
      BY <1>14, <1>4, SameEffects DEF Changed
    <2>2. effect = [a \in Alerts |-> IF a \in ids /\ Store!InScope(q.by, a)
                                     THEN Store!Noted(table[a], q.by)
                                     ELSE Store!NoEffect(table[a])]
      BY <1>3, <1>5, <2>1
    <2>3. Store!AddNotes(q.by, ids)
      BY <1>6, <2>2, <1>8 DEF Store!AddNotes, Store!Commit
    <2>4. QED
      BY <1>2, <1>7, <2>3 DEF Store!Next
  <1>15. QED
    BY <1>2, <1>9, <1>10, <1>11, <1>12, <1>13, <1>14

\* A sweep's commit expires the stale rows it did not skip.
LEMMA SweepCommits ==
    ASSUME IInv, NEW t \in Requests, CommitTransaction(t), Kind(t) = "sweep"
    PROVE  [Store!Next]_(Store!vars)
  <1>1. PICK skipped, effect :
           /\ skipped = {a \in Alerts : tx[t].work[a] = Untouched}
           /\ effect = [a \in Alerts |-> EffectOf(t, a)]
    OBVIOUS
  <1>2. CASE skipped = Alerts
    BY <1>1, <1>2, EmptyCommit
  <1>3. CASE skipped # Alerts
    <2>1. \A a \in Alerts \ skipped : /\ Store!IsStale(a) /\ DefaultStaleAfter > 0
                                      /\ effect[a] = Store!Expired(table[a])
      <3>1. \A a \in Alerts \ skipped : Right(t, tx[t].phase, a, effect[a])
        BY <1>1 DEF EffectOf, IInv, Good, WorkOK
      <3>2. QED
        BY <3>1, SameEffects DEF Right
    <2>2. \A a \in skipped : effect[a] = Store!NoEffect(table[a])
      BY <1>1, SameEffects DEF EffectOf
    <2>3. effect = [a \in Alerts |-> IF Store!IsStale(a) /\ a \notin skipped
                                     THEN Store!Expired(table[a])
                                     ELSE Store!NoEffect(table[a])]
      BY <1>1, <2>1, <2>2
    <2>4. Store!Commit(effect)
      BY <1>1, CommitIsAtomic
    <2>5. DefaultStaleAfter > 0 /\ \E a \in Alerts : Store!IsStale(a) /\ a \notin skipped
      BY <1>1, <1>3, <2>1
    <2>6. Store!ExpireStaleAlerts(skipped)
      BY <2>3, <2>4, <2>5 DEF Store!ExpireStaleAlerts, Store!Commit
    <2>7. QED
      BY <1>1, <2>6 DEF Store!Next
  <1>4. QED
    BY <1>2, <1>3

\* A pass's commit reconciles the rows it reached, each as skipped or not; the
\* rows it did not reach count as skipped rows the reading does not list.
LEMMA ReconcileCommits ==
    ASSUME IInv, NEW t \in Requests, CommitTransaction(t), Kind(t) = "reconcile"
    PROVE  [Store!Next]_(Store!vars)
  <1>1. PICK q, effect : q = RequestOf[t] /\ effect = [a \in Alerts |-> EffectOf(t, a)]
    OBVIOUS
  <1>2. PICK live, skipped :
           /\ live = [a \in Alerts |->
                 IF tx[t].work[a] = Untouched THEN NotHeld ELSE q.live[a]]
           /\ skipped = {a \in Alerts : \/ tx[t].work[a] = Untouched
                                        \/ effect[a] # Reconciled(table[a], q.live[a],
                                              a \in q.missing, q.active, FALSE)}
    OBVIOUS
  <1>3. /\ q.source \in Sources /\ q.live \in [Alerts -> LiveState \cup {NotHeld}]
        /\ q.missing \in SUBSET Alerts /\ q.active \in Listings
        /\ \A a \in q.missing : q.live[a] = NotHeld
    BY <1>1, RequestTypes DEF ReconcileRequest
  <1>4. /\ live \in [Alerts -> Store!Readings] /\ skipped \in SUBSET Alerts
        /\ q.active \in Store!Listings
        /\ \A a \in q.missing : live[a] = Store!NotHeld
    BY <1>2, <1>3, SameValues DEF Store!Readings
  <1>5. Good(t, tx[t]) /\ tx[t].phase # "selected"
    BY DEF IInv, CommitTransaction, Complete, Running
  <1>6. ASSUME NEW a \in Alerts, tx[t].work[a] # Untouched
        PROVE  /\ SourceOf[a] = q.source
               /\ effect[a] = Reconciled(table[a], live[a], a \in q.missing, q.active,
                                         a \in skipped)
    <2>1. /\ SourceOf[a] = q.source /\ effect[a] = tx[t].work[a] /\ live[a] = q.live[a]
          /\ \E k \in BOOLEAN :
                effect[a] = Reconciled(table[a], q.live[a], a \in q.missing, q.active, k)
      BY <1>1, <1>2, <1>5, <1>6 DEF EffectOf, Good, WorkOK, Right
    <2>2. CASE a \in skipped
      <3>1. effect[a] # Reconciled(table[a], q.live[a], a \in q.missing, q.active, FALSE)
        BY <1>2, <1>6, <2>2
      <3>2. effect[a] = Reconciled(table[a], q.live[a], a \in q.missing, q.active, TRUE)
        BY <2>1, <3>1
      <3>3. (a \in skipped) = TRUE
        BY <2>2
      <3>4. QED
        BY <2>1, <3>2, <3>3
    <2>3. CASE a \notin skipped
      <3>1. effect[a] = Reconciled(table[a], q.live[a], a \in q.missing, q.active, FALSE)
        BY <1>2, <1>6, <2>3
      <3>2. (a \in skipped) = FALSE
        BY <2>3
      <3>3. QED
        BY <2>1, <3>1, <3>2
    <2>4. QED
      BY <2>2, <2>3
  <1>7. ASSUME NEW a \in Alerts, tx[t].work[a] = Untouched
        PROVE  /\ effect[a] = NoEffect(table[a])
               /\ effect[a] = Reconciled(table[a], live[a], a \in q.missing, q.active,
                                         a \in skipped)
    <2>1. effect[a] = NoEffect(table[a]) /\ live[a] = NotHeld /\ a \in skipped
      BY <1>1, <1>2, <1>7 DEF EffectOf
    <2>2. ReconciledRow(table[a], NotHeld, a \in q.missing, q.active, a \in skipped)
             = NoEffect(table[a])
      BY <2>1 DEF ReconciledRow
    <2>3. QED
      BY <2>1, <2>2 DEF Reconciled
  <1>8. effect = [a \in Alerts |->
           IF SourceOf[a] = q.source
           THEN Store!Reconciled(table[a], live[a], a \in q.missing, q.active, a \in skipped)
           ELSE Store!NoEffect(table[a])]
    BY <1>1, <1>6, <1>7, SameReconciled, SameEffects
  <1>9. Store!Commit(effect)
    BY <1>1, CommitIsAtomic
  <1>10. Store!ReconcileSource(q.source, live, q.missing, q.active, skipped)
    BY <1>4, <1>8, <1>9 DEF Store!ReconcileSource, Store!Commit
  <1>11. QED
    BY <1>3, <1>4, <1>10 DEF Store!Next

\* The steps that write nothing committed.
LEMMA OthersStutter ==
    ASSUME UNCHANGED <<table, audit, announced>>
    PROVE  UNCHANGED Store!vars
  BY DEF Store!vars

\* Webhook batches, operator actions, sweeps and reconciliation passes may
\* overlap, wait, fail and be cancelled in any way: what is committed to the
\* table, the history and the stream is what AlertStore's atomic transactions
\* would have written, as long as its exploration bounds are not reached.
THEOREM Refinement == Spec /\ []WithinBounds => ImplementsStore
  <1>1. Init => Store!Init
    BY SameValues DEF Init, Store!Init
  <1>2. IInv /\ WithinBounds /\ [Next]_vars => [Store!Next]_(Store!vars)
    <2> SUFFICES ASSUME IInv, WithinBounds, [Next]_vars
                 PROVE  [Store!Next]_(Store!vars)
      OBVIOUS
    <2>1. CASE UNCHANGED vars
      BY <2>1, OthersStutter DEF vars
    <2>2. CASE Tick
      <3>1. table' = [a \in Alerts |->
               IF Store!Exists(table[a])
               THEN [table[a] EXCEPT !.seen = Store!Older(table[a].seen),
                                     !.vouched = Store!Older(table[a].vouched)]
               ELSE table[a]]
        BY <2>2, SameEffects DEF Tick
      <3>2. Store!Tick
        BY <2>2, <3>1 DEF Tick, Store!Tick
      <3>3. QED
        BY <3>2 DEF Store!Next
    <2>3. ASSUME NEW t \in Requests, CommitTransaction(t)
          PROVE  [Store!Next]_(Store!vars)
      BY <2>3, RequestTypes, IngestCommits, BulkCommits, SweepCommits, ReconcileCommits
    <2>4. ASSUME NEW t \in Requests, Begin(t) \/ SweepSelects(t) \/ ReconcileSelects(t)
          PROVE  UNCHANGED Store!vars
      BY <2>4, OthersStutter DEF Begin, SweepSelects, ReconcileSelects
    <2>5. ASSUME NEW t \in Requests,
                 TakeLock(t) \/ Enqueue(t) \/ PassOver(t) \/ ReconcileStamps(t)
          PROVE  UNCHANGED Store!vars
      BY <2>5, OthersStutter DEF TakeLock, Enqueue, PassOver, ReconcileStamps
    <2>6. ASSUME NEW t \in Requests, TransactionFails(t) \/ DeadlockDetected(t)
          PROVE  UNCHANGED Store!vars
      BY <2>6, OthersStutter DEF TransactionFails, DeadlockDetected, Rollback
    <2>7. QED
      BY <2>1, <2>2, <2>3, <2>4, <2>5, <2>6 DEF Next, Step
  <1>3. Spec /\ []WithinBounds => Store!Init /\ [][Store!Next]_(Store!vars)
    BY <1>1, <1>2, Invariance, PTL DEF Spec
  <1>4. QED
    BY <1>3, PTL DEF ImplementsStore, Store!Spec
=============================================================================
