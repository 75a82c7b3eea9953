------------------------- MODULE StoreTransactions -------------------------
(***************************************************************************)
(* The transactions of internal/postgres that write the alerts table, lock *)
(* by lock.                                                                *)
(*                                                                         *)
(* AlertStore takes each transaction as one step.  Here a transaction is   *)
(* what the code runs: a webhook batch takes the advisory lock and then    *)
(* the row lock of each alert in the order of its payload, a bulk action   *)
(* the row locks in the order of the request, the sweep and the            *)
(* reconciliation pass skip what is locked - and the pass then waits, in   *)
(* its closing UPDATE, for the very rows it skipped.  All of them overlap, *)
(* fail, are cancelled by PostgreSQL's deadlock detector and are retried.  *)
(* ImplementsStore says that AlertStore is still what comes out.           *)
(*                                                                         *)
(* READ COMMITTED: a statement sees committed rows, and a locking          *)
(* statement that waited re-reads the row and its WHERE clause.  The only  *)
(* other lock of Ingest, the row of its source, is taken last and held     *)
(* over no further wait, so it is part of the commit.                      *)
(***************************************************************************)
EXTENDS AlertRow, Sequences, FiniteSets

CONSTANTS
    Sources, SourceOf, OperateScope, NoWindow, Timeout, StaleAfter,
    DefaultStaleAfter, MaxNotes,    \* as in AlertStore
    Requests,         \* the transactions of the run
    RequestOf,        \* what each asks for
    expiryBatchSize,  \* rows one sweep transaction takes
    MaxFailures       \* bound: errors other than deadlocks

\* Ingest: the alerts of a payload, in its order.  An Alertmanager group
\* names a fingerprint once.
IngestRequest ==
    {q \in [kind: {"ingest"}, list: Seq(Alerts), deliveries: [Alerts -> Delivery]] :
        /\ q.list # <<>>
        /\ \A i, j \in DOMAIN q.list : q.list[i] = q.list[j] => i = j
        /\ \A i, j \in DOMAIN q.list : SourceOf[q.list[i]] = SourceOf[q.list[j]]}

\* A bulk action; a selection of one alert is the single-alert endpoint.
BulkRequest ==
    [kind: {"bulk"}, list: Seq(Alerts), by: Operators,
     change: {"acknowledge", "unacknowledge", "assign", "close", "reopen", "note"},
     assignee: Assignees \cup {NoOne}]

SweepRequest == [kind: {"sweep"}, list: {<<>>}]

\* A reconciliation pass with the reading it took beforehand.
ReconcileRequest ==
    {q \in [kind: {"reconcile"}, list: {<<>>}, source: Sources,
            live: [Alerts -> LiveState \cup {NotHeld}],
            missing: SUBSET Alerts, active: Listings] :
        \A a \in q.missing : q.live[a] = NotHeld}

ASSUME TransactionConstants ==
    /\ \A t \in Requests :
          RequestOf[t] \in IngestRequest \cup BulkRequest \cup SweepRequest
                               \cup ReconcileRequest
    /\ SourceOf \in [Alerts -> Sources] /\ IsFiniteSet(Alerts)
    /\ expiryBatchSize \in Nat \ {0}
    /\ MaxFailures \in Nat

VARIABLES
    table,      \* the committed rows of alerts
    audit,      \* per alert, the replay of its committed alert_history
    announced,  \* per alert, its latest committed stream event and what it shows
    tx,         \* the transactions
    failures    \* errors so far

vars == <<table, audit, announced, tx, failures>>

Store == INSTANCE AlertStore
    WITH alerts <- table,
         trail <- audit,
         shown <- [a \in Alerts |-> announced[a].row],
         lastEvent <- [a \in Alerts |-> announced[a].event]

\* The row is not written by the transaction.
Untouched == [touched |-> FALSE]

\* at: the position in list of the alert being locked; locks: the advisory
\* and row locks held; queued: in the queue of the lock it asks for; work:
\* the uncommitted effects.
Idle == [phase |-> "idle", list |-> <<>>, at |-> 1, locks |-> {}, queued |-> FALSE,
         work |-> [a \in Alerts |-> Untouched]]

Ended(phase) == [Idle EXCEPT !.phase = phase]

Init ==
    /\ table = [a \in Alerts |-> Absent]
    /\ audit = [a \in Alerts |-> Absent]
    /\ announced = [a \in Alerts |-> [event |-> NoEvent, row |-> Absent]]
    /\ tx = [t \in Requests |-> Idle]
    /\ failures = 0

-----------------------------------------------------------------------------
(***************************************************************************)
(* Locks.                                                                  *)
(***************************************************************************)
Identity(a) == <<"identity", a>>
RowLock(a) == <<"row", a>>

\* Mutant: a bulk action takes the advisory lock too, after the row.
LockPlan_BulkTakesIdentity(kind, a) ==
    IF kind = "ingest" THEN <<Identity(a), RowLock(a)>>
    ELSE IF kind = "bulk" THEN <<RowLock(a), Identity(a)>>
    ELSE <<RowLock(a)>>

\* What a transaction locks before it reads and writes an alert, in order.
LockPlan(kind, a) ==
    IF kind = "ingest" THEN <<Identity(a), RowLock(a)>> ELSE <<RowLock(a)>>

Kind(t) == RequestOf[t].kind
Running(t) == tx[t].phase \in {"locking", "vouching"}
Scanning(t) == Running(t) /\ tx[t].at <= Len(tx[t].list)
Current(t) == tx[t].list[tx[t].at]
PlanOf(t) == LockPlan(Kind(t), Current(t))

\* The lock the transaction asks for now.
IsNextLock(t, l) ==
    \E i \in DOMAIN PlanOf(t) :
        /\ l = PlanOf(t)[i]
        /\ l \notin tx[t].locks
        /\ \A j \in 1..(i - 1) : PlanOf(t)[j] \in tx[t].locks

HeldElsewhere(t, l) == \E u \in Requests \ {t} : l \in tx[u].locks

\* The WHERE clause of the locking statement, on the committed row.
InScope(op, a) == Exists(table[a]) /\ table[a].labels \in OperateScope[op]

Selects(t, a) ==
    CASE Kind(t) = "ingest"    -> TRUE
      [] Kind(t) = "bulk"      -> InScope(RequestOf[t].by, a)
      [] Kind(t) = "reconcile" -> table[a].status = "firing"
      [] Kind(t) = "sweep"     -> FALSE

\* The alert came earlier in the same selection.
Seen(t) == \E j \in 1..(tx[t].at - 1) : tx[t].list[j] = Current(t)

\* An id seen before, out of scope or gone, or a row no longer firing.
PassesOver(t) ==
    /\ Scanning(t)
    /\ RowLock(Current(t)) \notin tx[t].locks \/ Seen(t)
    /\ Seen(t) \/ ~Selects(t, Current(t))

\* t waits for a lock that u holds.
WaitsFor(t, u) ==
    /\ u # t
    /\ tx[t].queued
    /\ \E l \in tx[u].locks : IsNextLock(t, l)

\* Somebody queues for the lock already: a newcomer does not overtake.
Contended(t, l) == \E u \in Requests \ {t} : tx[u].queued /\ IsNextLock(u, l)

\* Locks are exclusive, so a set in which everybody waits for a member and
\* everybody is waited for is made of wait cycles.
WaitCycle(D) ==
    /\ D # {}
    /\ \A t \in D : \E u \in D : WaitsFor(t, u)
    /\ \A u \in D : \E t \in D : WaitsFor(t, u)

Waiting == {t \in Requests : \E u \in Requests : WaitsFor(t, u)}

InWaitCycle(t) == \E D \in SUBSET Waiting : t \in D /\ WaitCycle(D)

-----------------------------------------------------------------------------
(***************************************************************************)
(* Steps of a transaction.                                                 *)
(***************************************************************************)

\* A webhook is accepted or an operator's request passes its gate.
Begin(t) ==
    /\ Kind(t) \in {"ingest", "bulk"}
    /\ tx[t].phase = "idle"
    /\ tx' = [tx EXCEPT ![t] = [Idle EXCEPT !.phase = "locking",
                                            !.list = RequestOf[t].list]]
    /\ UNCHANGED <<table, audit, announced, failures>>

\* The change a bulk action makes to one locked row.
Changed(q, r) ==
    CASE q.change = "acknowledge"   -> Acknowledged(r, q.by, TRUE)
      [] q.change = "unacknowledge" -> Acknowledged(r, q.by, FALSE)
      [] q.change = "assign"        -> Assigned(r, q.by, q.assignee)
      [] q.change = "close"         -> Closed(r, q.by, TRUE)
      [] q.change = "reopen"        -> Closed(r, q.by, FALSE)
      [] q.change = "note"          -> Noted(r, q.by)

\* What the transaction writes to alert a, once it has locked it.
Written(t, a) ==
    CASE Kind(t) = "ingest" -> Ingested(table[a], RequestOf[t].deliveries[a])
      [] Kind(t) = "bulk"   -> Changed(RequestOf[t], table[a])
      [] OTHER              -> NoEffect(Vouched(table[a]))

\* The state after lock l is granted: the last lock of an alert's plan is the
\* one its row is read and written under.
Granted(t, l) ==
    IF \E i \in DOMAIN PlanOf(t) : PlanOf(t)[i] \notin tx[t].locks \cup {l}
    THEN [tx[t] EXCEPT !.locks = @ \cup {l}, !.queued = FALSE]
    ELSE [tx[t] EXCEPT !.locks = @ \cup {l}, !.queued = FALSE,
                       !.work[Current(t)] = Written(t, Current(t)),
                       !.at = @ + 1]

\* Mutant: the row is read without waiting for its lock (no FOR UPDATE).
TakeLock_Unlocked(t) ==
    /\ Scanning(t) /\ ~PassesOver(t)
    /\ \E l \in {Identity(Current(t)), RowLock(Current(t))} :
          /\ IsNextLock(t, l)
          /\ tx' = [tx EXCEPT ![t] = Granted(t, l)]
    /\ UNCHANGED <<table, audit, announced, failures>>

\* pg_advisory_xact_lock, or SELECT ... FOR UPDATE of one row and what the
\* loop does with it.
TakeLock(t) ==
    /\ Scanning(t) /\ ~PassesOver(t)
    /\ \E l \in {Identity(Current(t)), RowLock(Current(t))} :
          /\ IsNextLock(t, l)
          /\ ~HeldElsewhere(t, l)
          /\ tx[t].queued \/ ~Contended(t, l)
          /\ tx' = [tx EXCEPT ![t] = Granted(t, l)]
    /\ UNCHANGED <<table, audit, announced, failures>>

\* The lock is taken: the statement queues for it.
Enqueue(t) ==
    /\ Scanning(t) /\ ~PassesOver(t) /\ ~tx[t].queued
    /\ \E l \in {Identity(Current(t)), RowLock(Current(t))} :
          /\ IsNextLock(t, l)
          /\ HeldElsewhere(t, l)
    /\ tx' = [tx EXCEPT ![t].queued = TRUE]
    /\ UNCHANGED <<table, audit, announced, failures>>

PassOver(t) ==
    /\ PassesOver(t)
    /\ tx' = [tx EXCEPT ![t].at = @ + 1, ![t].queued = FALSE]
    /\ UNCHANGED <<table, audit, announced, failures>>

\* A SELECT ... FOR UPDATE SKIP LOCKED, with the effects on the rows it took
\* that the loop after it writes.
Selected(effects) ==
    [Idle EXCEPT !.phase = "selected",
                 !.locks = {RowLock(a) : a \in DOMAIN effects},
                 !.work = [a \in Alerts |-> IF a \in DOMAIN effects THEN effects[a]
                                                                    ELSE Untouched]]

Unlocked(t) == {a \in Alerts : ~HeldElsewhere(t, RowLock(a))}

\* One batch of the sweep: the quietest rows first (ORDER BY last_seen).  A
\* batch that finds nothing writes nothing and is no step.
SweepSelects(t) ==
    /\ Kind(t) = "sweep" /\ DefaultStaleAfter > 0
    /\ tx[t].phase = "idle"
    /\ \E S \in SUBSET Unlocked(t) :
          LET stale == {a \in Unlocked(t) : Exists(table[a]) /\ Store!IsStale(a)}
          IN  /\ S # {} /\ S \subseteq stale
              /\ S = stale \/ Cardinality(S) = expiryBatchSize
              /\ Cardinality(S) <= expiryBatchSize
              /\ \A a \in S, b \in stale \ S : table[a].seen >= table[b].seen
              /\ tx' = [tx EXCEPT ![t] = Selected([a \in S |-> Expired(table[a])])]
    /\ UNCHANGED <<table, audit, announced, failures>>

\* Firing rows of the source, and expired ones the reading lists.
Examined(q, a) ==
    /\ SourceOf[a] = q.source
    /\ \/ table[a].status = "firing"
       \/ table[a].status = "expired" /\ q.live[a] # NotHeld

ReconcileSelects(t) ==
    /\ Kind(t) = "reconcile"
    /\ tx[t].phase = "idle"
    /\ LET q == RequestOf[t]
           S == {a \in Unlocked(t) : Examined(q, a)}
           effects == [a \in S |->
              ReconciledRow(table[a], q.live[a], a \in q.missing, q.active, FALSE)]
       IN  tx' = [tx EXCEPT ![t] = Selected(effects)]
    /\ UNCHANGED <<table, audit, announced, failures>>

\* The closing UPDATE stamps the rows the pass holds at once; the firing rows
\* of the reading that it does not hold are waited for, in some order.
Stamped(q, a, e) ==
    IF e # Untouched /\ q.live[a] # NotHeld
    THEN Effect(Vouched(e.row), e.history, e.stream) ELSE e

Orders(S) == {f \in [1..Cardinality(S) -> S] : \A a \in S : \E i \in DOMAIN f : f[i] = a}

ReconcileStamps(t) ==
    /\ Kind(t) = "reconcile"
    /\ tx[t].phase = "selected"
    /\ LET q == RequestOf[t]
           rest == {a \in Alerts : /\ SourceOf[a] = q.source
                                   /\ q.live[a] # NotHeld
                                   /\ tx[t].work[a] = Untouched
                                   /\ table[a].status = "firing"}
       IN  \E order \in Orders(rest) :
              tx' = [tx EXCEPT ![t].phase = "vouching",
                               ![t].list = order,
                               ![t].work = [a \in Alerts |-> Stamped(q, a, tx[t].work[a])]]
    /\ UNCHANGED <<table, audit, announced, failures>>

\* A full batch is followed by another.
AfterCommit(t) ==
    IF /\ Kind(t) = "sweep"
       /\ Cardinality({a \in Alerts : tx[t].work[a] # Untouched}) = expiryBatchSize
    THEN "idle" ELSE "done"

Complete(t) ==
    \/ Running(t) /\ tx[t].at > Len(tx[t].list)
    \/ tx[t].phase = "selected" /\ Kind(t) = "sweep"

CommitTransaction(t) ==
    /\ Complete(t)
    /\ LET w == tx[t].work
           touched == {a \in Alerts : w[a] # Untouched}
       IN  /\ table' = [a \in Alerts |-> IF a \in touched THEN w[a].row ELSE table[a]]
           /\ audit' = [a \in Alerts |-> IF a \in touched
                                         THEN Store!Replay(audit[a], w[a].history)
                                         ELSE audit[a]]
           /\ announced' = [a \in Alerts |->
                 IF a \in touched /\ w[a].stream # NoEvent
                 THEN [event |-> w[a].stream, row |-> Store!Visible(w[a].row)]
                 ELSE announced[a]]
    /\ tx' = [tx EXCEPT ![t] = Ended(AfterCommit(t))]
    /\ UNCHANGED failures

\* Mutant: a failed batch is answered as accepted.
AfterFailure_Accepted(t) == "failed"

\* A failed webhook answers 500 and Alertmanager sends it again; an operator
\* sees the error; the sweep and the pass log it and leave it to a later tick.
AfterFailure(t) == IF Kind(t) = "ingest" THEN "idle" ELSE "failed"

Rollback(t) ==
    /\ tx' = [tx EXCEPT ![t] = Ended(AfterFailure(t))]
    /\ UNCHANGED <<table, audit, announced>>

\* A lost connection, a cancelled request, the process stopping.
TransactionFails(t) ==
    /\ tx[t].phase \in {"locking", "selected", "vouching"}
    /\ failures < MaxFailures
    /\ failures' = failures + 1
    /\ Rollback(t)

\* PostgreSQL cancels one member of a wait cycle.
DeadlockDetected(t) ==
    /\ InWaitCycle(t)
    /\ Rollback(t)
    /\ UNCHANGED failures

\* Ages are counted in expiry windows, which a transaction does not last.
Tick ==
    /\ \A t \in Requests : tx[t].phase \in {"idle", "done", "failed"}
    /\ table' = [a \in Alerts |->
          IF Exists(table[a])
          THEN [table[a] EXCEPT !.seen = Store!Older(table[a].seen),
                                !.vouched = Store!Older(table[a].vouched)]
          ELSE table[a]]
    /\ UNCHANGED <<audit, announced, tx, failures>>

-----------------------------------------------------------------------------
Step(t) ==
    \/ TakeLock(t)
    \/ Enqueue(t)
    \/ PassOver(t)
    \/ ReconcileStamps(t)
    \/ CommitTransaction(t)
    \/ DeadlockDetected(t)

Next ==
    \/ \E t \in Requests :
          \/ Begin(t) \/ Step(t)
          \/ SweepSelects(t) \/ ReconcileSelects(t)
          \/ TransactionFails(t)
    \/ Tick

\* A running transaction goes on, a queued lock is granted once it is free, a
\* wait cycle is broken, and Alertmanager retries a delivery answered with 500.
Fairness ==
    \A t \in Requests :
        /\ WF_vars(Step(t))
        /\ Kind(t) = "ingest" => WF_vars(Begin(t))

Spec == Init /\ [][Next]_vars
FairSpec == Spec /\ Fairness

-----------------------------------------------------------------------------
(***************************************************************************)
(* Properties.                                                             *)
(***************************************************************************)

\* The committed table, history and stream change exactly as AlertStore says:
\* whatever overlaps, every commit is one of its atomic transactions, applied
\* to the rows as they are at that moment, so no write is lost or half made.
ImplementsStore == Store!Spec

\* The transaction holds a lock of another alert than the one it is at.
HoldsAnother(t) ==
    \E a \in Alerts : /\ a # Current(t)
                      /\ Identity(a) \in tx[t].locks \/ RowLock(a) \in tx[t].locks

\* A deadlock takes two batches: two members of every wait cycle hold one
\* alert while they wait for another, and so does every member that is not a
\* webhook.  Transactions on a single alert never deadlock among themselves,
\* and an operator's action on one alert is never the detector's victim (a
\* webhook of one alert, which holds its advisory lock while it waits for the
\* row, can be: Ingest, applyToAlerts, the closing UPDATE of ReconcileSource).
DeadlockTakesTwoBatches ==
    \A D \in SUBSET Waiting : WaitCycle(D) =>
        /\ \E t, u \in D : t # u /\ HoldsAnother(t) /\ HoldsAnother(u)
        /\ \A t \in D : Kind(t) # "ingest" => HoldsAnother(t)

\* Every webhook batch is committed in the end, however it collides: a wait
\* cycle is broken, and a batch that was rolled back is delivered again.
EveryDeliveryLands ==
    \A t \in Requests : Kind(t) = "ingest" => (tx[t].phase = "locking" ~> tx[t].phase = "done")
=============================================================================
