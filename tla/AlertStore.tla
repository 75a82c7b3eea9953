----------------------------- MODULE AlertStore -----------------------------
(***************************************************************************)
(* The alerts table as a state machine: every transaction of the store     *)
(* that writes it, from webhook ingestion to the background sweeps.        *)
(*                                                                         *)
(* A transaction holds the lock of every row it touches until it commits   *)
(* (advisory lock and FOR UPDATE), so transactions on a row are serial and *)
(* each is one step.  SKIP LOCKED in the sweeps is the set `skipped'.      *)
(*                                                                         *)
(* alert_history and stream_events are represented by what their readers   *)
(* make of them: `trail' is the state an auditor reconstructs by replaying *)
(* the history entries in order, and `shown'/`lastEvent' what a console    *)
(* shows that refetches an alert exactly when the stream announces it.     *)
(***************************************************************************)
EXTENDS AlertRow, FiniteSets

CONSTANTS
    Sources,
    SourceOf,       \* the source of each identity
    OperateScope,   \* the label sets each operator's grants let it act on
    NoWindow,       \* no timeout label / no stale_after of the source
    Timeout,        \* the timeout label of each label set
    StaleAfter,     \* alert_sources.stale_after
    DefaultStaleAfter,
    MaxNotes        \* bound: notes explored per alert

ASSUME StoreConstants ==
    /\ SourceOf \in [Alerts -> Sources]
    /\ OperateScope \in [Operators -> SUBSET Labels]
    /\ NoWindow \notin Nat
    /\ Timeout \in [Labels -> Nat \cup {NoWindow}]
    /\ StaleAfter \in [Sources -> Nat \cup {NoWindow}]
    /\ DefaultStaleAfter \in Nat
    /\ MaxOccurrence \in Nat
    /\ MaxNotes \in Nat

VARIABLES
    alerts,     \* the alerts table
    trail,      \* per alert, the replay of its alert_history
    shown,      \* per alert, what its latest stream event announced
    lastEvent   \* per alert, the type of its latest stream event

vars == <<alerts, trail, shown, lastEvent>>

-----------------------------------------------------------------------------
(***************************************************************************)
(* Readers of the history and of the stream.                               *)
(***************************************************************************)

\* Who did something, and in which occurrence the history dates it.
Mark == [by: Operators \cup {NoOne}, occurrence: Nat]
NoMark == [by |-> NoOne, occurrence |-> 0]
MarkOf(h) == [by |-> h.actor, occurrence |-> h.occurrence]

Trail == [status: Statuses, occurrence: Nat \ {0}, notes: Nat,
          acknowledged: Mark, closed: Mark,
          assigned: Mark, assignedTo: Assignees \cup {NoOne}]

\* The mark a field carries after entry h, given the entry types that set
\* and that clear it.
Remarked(mark, h, set, clear) ==
    IF h.type = set THEN MarkOf(h) ELSE IF h.type \in clear THEN NoMark ELSE mark

\* Entries after which nothing is assigned or acknowledged.
Fresh == {"alert.created", "alert.reopened"}

\* An alert.updated entry is only written for a material change, and one that
\* leaves the alert firing undoes a close.
ClearsClose(h) == \/ h.type \in Fresh \cup {"alert.reopened.local"}
                  \/ h.type = "alert.updated" /\ h.status = "firing"

\* One history entry read on top of what was reconstructed so far.
Replay(t, h) ==
    IF h = NoEntry THEN t
    ELSE [status |-> h.status,
          occurrence |-> h.occurrence,
          notes |-> IF h.type = "alert.created" THEN 0
                    ELSE IF h.type = "alert.note" THEN t.notes + 1 ELSE t.notes,
          acknowledged |-> Remarked(t.acknowledged, h, "alert.acknowledged",
                                    Fresh \cup {"alert.unacknowledged"}),
          closed |-> IF ClearsClose(h) THEN NoMark
                     ELSE IF h.type = "alert.closed" THEN MarkOf(h) ELSE t.closed,
          assigned |-> Remarked(t.assigned, h, "alert.assigned",
                                Fresh \cup {"alert.unassigned"}),
          assignedTo |-> IF h.type = "alert.assigned" THEN h.subject
                         ELSE IF h.type \in Fresh \cup {"alert.unassigned"} THEN NoOne
                         ELSE t.assignedTo]

\* The columns of the list a console renders; the ids behind a suppression
\* and the freshness columns are not news.
Visible(r) ==
    IF ~Exists(r) THEN Absent
    ELSE [status |-> r.status, labels |-> r.labels, annotations |-> r.annotations,
          occurrence |-> r.occurrence, acknowledgedBy |-> r.acknowledgedBy,
          assignedTo |-> r.assignedTo, assignedBy |-> r.assignedBy,
          closedBy |-> r.closedBy, suppressed |-> r.suppressed, notes |-> r.notes]

\* The default list: firing and not closed.
InFiringView(r) == r.status = "firing" /\ r.closedBy = NoOne

\* Commit of a transaction whose effect on each alert is given.
Commit(effect) ==
    /\ alerts' = [a \in Alerts |-> effect[a].row]
    /\ trail' = [a \in Alerts |-> Replay(trail[a], effect[a].history)]
    /\ shown' = [a \in Alerts |->
          IF effect[a].stream = NoEvent THEN shown[a] ELSE Visible(effect[a].row)]
    /\ lastEvent' = [a \in Alerts |->
          IF effect[a].stream = NoEvent THEN lastEvent[a] ELSE effect[a].stream]

Init ==
    /\ alerts = [a \in Alerts |-> Absent]
    /\ trail = [a \in Alerts |-> Absent]
    /\ shown = [a \in Alerts |-> Absent]
    /\ lastEvent = [a \in Alerts |-> NoEvent]

-----------------------------------------------------------------------------
(***************************************************************************)
(* Transactions.                                                           *)
(***************************************************************************)

\* One webhook batch: the payload of one source, committed as a whole.  The
\* delivery may be late, repeated or out of order; nothing compares startsAt.
Ingest(batch, d) ==
    /\ batch # {}
    /\ \E s \in Sources : \A a \in batch : SourceOf[a] = s
    /\ \A a \in batch : Exists(alerts[a]) /\ Reopens(alerts[a], d[a])
                            => alerts[a].occurrence < MaxOccurrence
    /\ Commit([a \in Alerts |-> IF a \in batch THEN Ingested(alerts[a], d[a])
                                ELSE NoEffect(alerts[a])])

\* applyToAlerts: the ids the operator's scope reaches are changed one by one
\* in a single transaction, the others are reported notFound.  A selection of
\* one id is the single-alert endpoint.
InScope(op, a) == Exists(alerts[a]) /\ alerts[a].labels \in OperateScope[op]

AcknowledgeAlerts(op, ids, on) ==
    Commit([a \in Alerts |-> IF a \in ids /\ InScope(op, a)
                             THEN Acknowledged(alerts[a], op, on)
                             ELSE NoEffect(alerts[a])])

AssignAlerts(op, ids, assignee) ==
    Commit([a \in Alerts |-> IF a \in ids /\ InScope(op, a)
                             THEN Assigned(alerts[a], op, assignee)
                             ELSE NoEffect(alerts[a])])

CloseAlerts(op, ids, on) ==
    Commit([a \in Alerts |-> IF a \in ids /\ InScope(op, a)
                             THEN Closed(alerts[a], op, on)
                             ELSE NoEffect(alerts[a])])

AddNotes(op, ids) ==
    /\ \A a \in ids : InScope(op, a) => alerts[a].notes < MaxNotes
    /\ Commit([a \in Alerts |-> IF a \in ids /\ InScope(op, a)
                                THEN Noted(alerts[a], op)
                                ELSE NoEffect(alerts[a])])

expiryWindow(a) ==
    IF Timeout[alerts[a].labels] # NoWindow THEN Timeout[alerts[a].labels]
    ELSE IF StaleAfter[SourceOf[a]] # NoWindow THEN StaleAfter[SourceOf[a]]
    ELSE DefaultStaleAfter

IsStale(a) ==
    /\ alerts[a].status = "firing"
    /\ expiryWindow(a) > 0
    /\ EvidenceAge(alerts[a]) > expiryWindow(a)

\* Mutant: the sweep reads only the source's own window, never the default.
ExpireStaleAlerts_NoDefault(skipped) ==
    /\ \E a \in Alerts : IsStale(a) /\ a \notin skipped
    /\ Commit([a \in Alerts |->
          IF IsStale(a) /\ a \notin skipped /\ StaleAfter[SourceOf[a]] # NoWindow
          THEN Expired(alerts[a])
          ELSE NoEffect(alerts[a])])

\* A zero default disables the sweep altogether (runExpirySweeps).
ExpireStaleAlerts(skipped) ==
    /\ DefaultStaleAfter > 0
    /\ \E a \in Alerts : IsStale(a) /\ a \notin skipped
    /\ Commit([a \in Alerts |-> IF IsStale(a) /\ a \notin skipped
                                THEN Expired(alerts[a])
                                ELSE NoEffect(alerts[a])])

\* The caller resolves nothing its own reading lists.
ReconcileSource(s, live, missing, active, skipped) ==
    /\ \A a \in missing : live[a] = NotHeld
    /\ Commit([a \in Alerts |->
          IF SourceOf[a] = s
          THEN Reconciled(alerts[a], live[a], a \in missing, active, a \in skipped)
          ELSE NoEffect(alerts[a])])

\* Time passes: every row's evidence ages, up to the cap.
Older(age) == IF age < AgeCap THEN age + 1 ELSE age

Tick ==
    /\ alerts' = [a \in Alerts |->
          IF Exists(alerts[a])
          THEN [alerts[a] EXCEPT !.seen = Older(alerts[a].seen),
                                 !.vouched = Older(alerts[a].vouched)]
          ELSE alerts[a]]
    /\ UNCHANGED <<trail, shown, lastEvent>>

-----------------------------------------------------------------------------
Readings == LiveState \cup {NotHeld}

Next ==
    \/ \E batch \in SUBSET Alerts, d \in [Alerts -> Delivery] : Ingest(batch, d)
    \/ \E op \in Operators, ids \in SUBSET Alerts, on \in BOOLEAN :
          AcknowledgeAlerts(op, ids, on)
    \/ \E op \in Operators, ids \in SUBSET Alerts, to \in Assignees \cup {NoOne} :
          AssignAlerts(op, ids, to)
    \/ \E op \in Operators, ids \in SUBSET Alerts, on \in BOOLEAN :
          CloseAlerts(op, ids, on)
    \/ \E op \in Operators, ids \in SUBSET Alerts : AddNotes(op, ids)
    \/ \E skipped \in SUBSET Alerts : ExpireStaleAlerts(skipped)
    \/ \E s \in Sources, live \in [Alerts -> Readings],
          missing, skipped \in SUBSET Alerts,
          active \in Listings :
          ReconcileSource(s, live, missing, active, skipped)
    \/ Tick

\* The sweep runs on a ticker for as long as the server does, and a row lock
\* is only held for one short transaction, so no row is skipped forever.
SweepFairness ==
    \A a \in Alerts :
        WF_vars(\E skipped \in SUBSET (Alerts \ {a}) :
                    IsStale(a) /\ ExpireStaleAlerts(skipped))

Spec == Init /\ [][Next]_vars
FairSpec == Spec /\ SweepFairness

-----------------------------------------------------------------------------
(***************************************************************************)
(* Properties.                                                             *)
(***************************************************************************)

\* The table, the replayed history and the announced rows have their types.
TypeOK ==
    /\ alerts \in [Alerts -> Row \cup {Absent}]
    /\ trail \in [Alerts -> Trail \cup {Absent}]
    /\ lastEvent \in [Alerts -> StreamTypes \cup {NoEvent}]

\* The audit trail is complete: replaying an alert's history from the start
\* gives its current status, occurrence, acknowledgement, assignment, close
\* and note count, with who decided each.
TrailMatches(r, t) ==
    /\ Exists(r) <=> t # Absent
    /\ Exists(r) =>
          /\ t.status = r.status
          /\ t.occurrence = r.occurrence
          /\ t.notes = r.notes
          /\ t.acknowledged.by = r.acknowledgedBy
          /\ t.assigned.by = r.assignedBy
          /\ t.assignedTo = r.assignedTo
          /\ t.closed.by = r.closedBy

HistoryExplainsRow == \A a \in Alerts : TrailMatches(alerts[a], trail[a])

\* An operator's judgement never outlives its occurrence: whoever the row
\* says acknowledged, assigned or closed it did so, by the history's own
\* dating, during the occurrence the row is in now (README: "that is a new
\* occurrence, and the previous owner did not agree to own it").
DatedNow(who, mark, r) ==
    who # NoOne => mark = [by |-> who, occurrence |-> r.occurrence]

JudgementsAreCurrent(r, t) ==
    Exists(r) => /\ DatedNow(r.acknowledgedBy, t.acknowledged, r)
                 /\ DatedNow(r.assignedBy, t.assigned, r)
                 /\ DatedNow(r.closedBy, t.closed, r)

JudgementsOfThisOccurrence ==
    \A a \in Alerts : JudgementsAreCurrent(alerts[a], trail[a])

\* Nothing a console renders changes without a stream event: a console that
\* refetches an alert on each of its events is never stale.
ChangesAreAnnounced == \A a \in Alerts : shown[a] = Visible(alerts[a])

\* alert.resolved means the alert left the firing view, and it cannot slip
\* back in without another event.
ResolvedEventMeansGone ==
    \A a \in Alerts : lastEvent[a] = "alert.resolved" => ~InFiringView(alerts[a])

\* The other way round: whatever takes an alert out of the firing view
\* (resolution, expiry, reconciliation, a close) is streamed as alert.resolved.
LeavingIsStreamedAsResolved ==
    [][\A a \in Alerts :
          Exists(alerts[a]) /\ InFiringView(alerts[a]) /\ ~InFiringView(alerts'[a])
              => lastEvent'[a] = "alert.resolved"]_vars

\* A resolved alert never expires and is never revived: it leaves that status
\* only by firing again, as a new occurrence; and no other step starts one.
ResolvedOnlyReopens ==
    [][\A a \in Alerts : Exists(alerts[a]) =>
          LET r == alerts[a]
              q == alerts'[a]
          IN  IF r.status = "resolved" /\ q.status # "resolved"
              THEN q.status = "firing" /\ q.occurrence = r.occurrence + 1
              ELSE q.occurrence = r.occurrence]_vars

\* A row listing silences reads as suppressed, so a release never leaves ids
\* behind and a sync never leaves the flag behind.
SilencesImplySuppressed ==
    \A a \in Alerts : Exists(alerts[a]) /\ alerts[a].silencedBy # {}
                          => alerts[a].suppressed

\* A firing alert without evidence past its window does not stay that way:
\* it is expired, resolved, or vouched for again.
QuietAlertsLeaveFiring ==
    \A a \in Alerts : IsStale(a) ~> ~IsStale(a)
=============================================================================
