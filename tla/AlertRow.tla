------------------------------ MODULE AlertRow ------------------------------
(***************************************************************************)
(* One row of the alerts table and what each store operation writes to it. *)
(*                                                                         *)
(* Every write of internal/postgres locks the row (FOR UPDATE) and then,   *)
(* in the same transaction, updates it, may insert one alert_history entry *)
(* and may insert one stream_events row.  An operation is therefore an     *)
(* EFFECT: the new row, the history entry (or NoEntry) and the stream      *)
(* event type (or NoEvent).  The state machines that apply these effects   *)
(* are AlertStore and Reconciler.                                          *)
(*                                                                         *)
(* Left out of the row because no property tells their values apart:       *)
(* starts_at, ends_at, the URLs, raw_data and repeat_count.  The triples   *)
(* (acknowledged, _at, _by), (assigned_to, _at, _by) and (closed, _at,     *)
(* _by) are always written together, so NoOne in the actor stands for the  *)
(* unset triple.  last_seen and reconciled_at are kept as ages, capped at  *)
(* AgeCap.                                                                 *)
(***************************************************************************)
EXTENDS Naturals

CONSTANTS
    Alerts,       \* (source_slug, fingerprint) identities
    Labels,       \* label sets an alert can carry
    Annotations,  \* annotation sets an alert can carry
    Silences,     \* Alertmanager silence ids
    Operators,    \* principals with an operator or administrator grant
    Assignees,    \* names an alert can be assigned to
    NoOne,        \* the empty acknowledged_by / assigned_to / closed_by
    AgeCap,       \* ages are told apart only up to here
    MaxOccurrence \* bound of the state machines: reopenings explored per alert

ASSUME RowConstants ==
    /\ NoOne \notin Operators
    /\ NoOne \notin Assignees
    /\ AgeCap \in Nat \ {0}

Statuses == {"firing", "resolved", "expired"}
Ages == 0..AgeCap

Row == [status: Statuses, labels: Labels, annotations: Annotations,
        occurrence: Nat \ {0},
        acknowledgedBy: Operators \cup {NoOne},
        assignedTo: Assignees \cup {NoOne}, assignedBy: Operators \cup {NoOne},
        closedBy: Operators \cup {NoOne},
        suppressed: BOOLEAN, silencedBy: SUBSET Silences,
        notes: Nat, seen: Ages, vouched: Ages]

\* No row with this (source_slug, fingerprint) has been inserted yet.
Absent == [status |-> "absent"]

Exists(r) == r.status # "absent"

\* One alert of a webhook payload, after Normalize.
Delivery == [status: {"firing", "resolved"}, labels: Labels, annotations: Annotations]

\* What the Alertmanager reports of an alert it holds.  A suppressed alert
\* with no silence ids is inhibited; an active one has none.
LiveState == {l \in [suppressed: BOOLEAN, silencedBy: SUBSET Silences] :
                 l.silencedBy # {} => l.suppressed}

\* The Alertmanager's reading does not list the alert.
NotHeld == [held |-> FALSE]

\* The active silence ids, or nil (NoListing) when the listing failed.
NoListing == [ok |-> FALSE, ids |-> {}]
Listings == [ok: {TRUE}, ids: SUBSET Silences] \cup {NoListing}

(***************************************************************************)
(* History entries and effects.                                            *)
(***************************************************************************)
HistoryTypes ==
    {"alert.created", "alert.reopened", "alert.updated", "alert.resolved",
     "alert.expired", "alert.reconciled", "alert.revived",
     "alert.acknowledged", "alert.unacknowledged", "alert.assigned",
     "alert.unassigned", "alert.closed", "alert.reopened.local", "alert.note"}

StreamTypes == {"alert.created", "alert.updated", "alert.resolved"}

NoEntry == [type |-> "none"]
NoEvent == "none"

\* The alert_history row: the subject is the assignee named by the message.
Entry(type, r, actor, subject) ==
    [type |-> type, occurrence |-> r.occurrence, status |-> r.status,
     actor |-> actor, subject |-> subject]

Effect(r, entry, event) == [row |-> r, history |-> entry, stream |-> event]

NoEffect(r) == Effect(r, NoEntry, NoEvent)

\* A system write: history carries no actor.
SystemEffect(r, type, event) == Effect(r, Entry(type, r, NoOne, NoOne), event)

(***************************************************************************)
(* Store.Ingest, one delivery of the batch.                                *)
(***************************************************************************)
InsertedRow(d) ==
    [status |-> d.status, labels |-> d.labels, annotations |-> d.annotations,
     occurrence |-> 1, acknowledgedBy |-> NoOne,
     assignedTo |-> NoOne, assignedBy |-> NoOne, closedBy |-> NoOne,
     suppressed |-> FALSE, silencedBy |-> {}, notes |-> 0,
     seen |-> 0, vouched |-> AgeCap]

alertMateriallyChanged(r, d) ==
    \/ r.status # d.status
    \/ r.labels # d.labels
    \/ r.annotations # d.annotations

Reopens(r, d) == r.status = "resolved" /\ d.status = "firing"

IngestHistoryType(r, d) ==
    IF Reopens(r, d) THEN "alert.reopened"
    ELSE IF d.status = "resolved" /\ r.status # "resolved" THEN "alert.resolved"
    ELSE "alert.updated"

Unless(cleared, value) == IF cleared THEN NoOne ELSE value

\* The UPDATE of Ingest, given the acknowledgement and the close it leaves.
DeliveredWith(r, d, acknowledgedBy, closedBy) ==
    [status |-> d.status, labels |-> d.labels, annotations |-> d.annotations,
     occurrence |-> IF Reopens(r, d) THEN r.occurrence + 1 ELSE r.occurrence,
     acknowledgedBy |-> acknowledgedBy,
     assignedTo |-> Unless(Reopens(r, d), r.assignedTo),
     assignedBy |-> Unless(Reopens(r, d), r.assignedBy),
     closedBy |-> closedBy,
     suppressed |-> r.suppressed, silencedBy |-> r.silencedBy, notes |-> r.notes,
     seen |-> 0, vouched |-> r.vouched]

\* A material change that leaves the alert firing undoes a close.
UndoesClose(r, d) == alertMateriallyChanged(r, d) /\ d.status = "firing"

\* Mutant: the acknowledgement survives into the next occurrence.
DeliveredRow_KeepsAcknowledgement(r, d) ==
    DeliveredWith(r, d, r.acknowledgedBy, Unless(UndoesClose(r, d), r.closedBy))

\* Mutant: every firing delivery reopens a closed alert, identical repeats too.
DeliveredRow_RepeatReopens(r, d) ==
    DeliveredWith(r, d, Unless(Reopens(r, d), r.acknowledgedBy),
                  Unless(d.status = "firing", r.closedBy))

\* A reopening clears the acknowledgement and the assignment.
DeliveredRow(r, d) ==
    DeliveredWith(r, d, Unless(Reopens(r, d), r.acknowledgedBy),
                  Unless(UndoesClose(r, d), r.closedBy))

Ingested(r, d) ==
    IF ~Exists(r)
    THEN SystemEffect(InsertedRow(d), "alert.created", "alert.created")
    ELSE IF alertMateriallyChanged(r, d)
    THEN SystemEffect(DeliveredRow(r, d), IngestHistoryType(r, d),
                      IF IngestHistoryType(r, d) = "alert.resolved"
                      THEN "alert.resolved" ELSE "alert.updated")
    ELSE NoEffect(DeliveredRow(r, d))

(***************************************************************************)
(* Operator actions, single and bulk.  Asking for the state the row is     *)
(* already in writes nothing.                                              *)
(***************************************************************************)
Acknowledged(r, op, on) ==
    IF (r.acknowledgedBy # NoOne) = on THEN NoEffect(r)
    ELSE Effect([r EXCEPT !.acknowledgedBy = IF on THEN op ELSE NoOne],
                Entry(IF on THEN "alert.acknowledged" ELSE "alert.unacknowledged",
                      r, op, NoOne),
                "alert.updated")

\* An empty assignee (NoOne) unassigns.
Assigned(r, op, assignee) ==
    IF r.assignedTo = assignee THEN NoEffect(r)
    ELSE Effect([r EXCEPT !.assignedTo = assignee,
                          !.assignedBy = IF assignee = NoOne THEN NoOne ELSE op],
                Entry(IF assignee = NoOne THEN "alert.unassigned" ELSE "alert.assigned",
                      r, op, assignee),
                "alert.updated")

Closed(r, op, on) ==
    IF (r.closedBy # NoOne) = on THEN NoEffect(r)
    ELSE Effect([r EXCEPT !.closedBy = IF on THEN op ELSE NoOne],
                Entry(IF on THEN "alert.closed" ELSE "alert.reopened.local",
                      r, op, NoOne),
                IF on THEN "alert.resolved" ELSE "alert.updated")

Noted(r, op) ==
    Effect([r EXCEPT !.notes = r.notes + 1],
           Entry("alert.note", r, op, NoOne), "alert.updated")

(***************************************************************************)
(* The background writers.                                                 *)
(***************************************************************************)
\* lastEvidence, as an age: the later of last_seen and reconciled_at.
EvidenceAge(r) == IF r.vouched < r.seen THEN r.vouched ELSE r.seen

Expired(r) ==
    SystemEffect([r EXCEPT !.status = "expired"], "alert.expired", "alert.resolved")

\* Mutant: a revival is streamed like the expiry it corrects.
Revived_AsResolved(r, l) ==
    SystemEffect([r EXCEPT !.status = "firing", !.suppressed = l.suppressed,
                           !.silencedBy = l.silencedBy],
                 "alert.revived", "alert.resolved")

\* An expired alert the source still holds goes back to firing, keeping its
\* occurrence and its acknowledgement.
Revived(r, l) ==
    SystemEffect([r EXCEPT !.status = "firing", !.suppressed = l.suppressed,
                           !.silencedBy = l.silencedBy],
                 "alert.revived", "alert.updated")

ReconciledAway(r) ==
    SystemEffect([r EXCEPT !.status = "resolved", !.suppressed = FALSE,
                           !.silencedBy = {}],
                 "alert.reconciled", "alert.resolved")

\* Mutant: a release drops the flag and keeps the silence ids.
Released_KeepsIds(r, active) ==
    IF \/ ~active.ok
       \/ ~r.suppressed
       \/ r.silencedBy = {}
       \/ r.silencedBy \cap active.ids # {}
    THEN NoEffect(r)
    ELSE Effect([r EXCEPT !.suppressed = FALSE], NoEntry, "alert.updated")

\* Not listed, not yet missing: released once none of its silences is active.
Released(r, active) ==
    IF \/ ~active.ok
       \/ ~r.suppressed
       \/ r.silencedBy = {}
       \/ r.silencedBy \cap active.ids # {}
    THEN NoEffect(r)
    ELSE Effect([r EXCEPT !.suppressed = FALSE, !.silencedBy = {}],
                NoEntry, "alert.updated")

\* Mutant: only a new suppression is announced, its end is not.
SuppressionSynced_SilentRelease(r, l) ==
    Effect([r EXCEPT !.suppressed = l.suppressed, !.silencedBy = l.silencedBy],
           NoEntry,
           IF l.suppressed /\ ~r.suppressed THEN "alert.updated" ELSE NoEvent)

\* Mutant: a listed alert is only ever marked, never unmarked.
SuppressionSynced_NeverClears(r, l) ==
    IF ~l.suppressed THEN NoEffect(r)
    ELSE Effect([r EXCEPT !.suppressed = TRUE, !.silencedBy = l.silencedBy], NoEntry,
                IF r.suppressed THEN NoEvent ELSE "alert.updated")

\* Listed: suppression follows the source; a silence id that moved under an
\* unchanged flag is not announced.
SuppressionSynced(r, l) ==
    Effect([r EXCEPT !.suppressed = l.suppressed, !.silencedBy = l.silencedBy],
           NoEntry,
           IF l.suppressed # r.suppressed THEN "alert.updated" ELSE NoEvent)

\* The closing UPDATE of reconciled_at covers every firing row the reading lists.
Vouched(r) == IF r.status = "firing" THEN [r EXCEPT !.vouched = 0] ELSE r

\* Store.ReconcileSource on one row of the source: l is the reading (or
\* NotHeld), skipped a row SKIP LOCKED passed over, which only the closing
\* reconciled_at update reaches once its lock is free.
ReconciledRow(r, l, missing, active, skipped) ==
    IF skipped \/ r.status \notin {"firing", "expired"} THEN NoEffect(r)
    ELSE IF r.status = "expired" THEN
        IF l = NotHeld THEN NoEffect(r) ELSE Revived(r, l)
    ELSE IF missing THEN ReconciledAway(r)
    ELSE IF l = NotHeld THEN Released(r, active)
    ELSE SuppressionSynced(r, l)

Reconciled(r, l, missing, active, skipped) ==
    LET e == ReconciledRow(r, l, missing, active, skipped)
    IN  IF l = NotHeld THEN e ELSE Effect(Vouched(e.row), e.history, e.stream)
=============================================================================
