-------------------------- MODULE AlertStoreProofs --------------------------
(***************************************************************************)
(* Proofs about AlertStore, for every set of alerts, labels, operators and *)
(* silences and every window.                                              *)
(*                                                                         *)
(* The argument is per row: RowOK relates one row to the replay of its     *)
(* history and to its announcements, and every effect of AlertRow takes an *)
(* OK row to an OK row.  The inductive invariant is RowOK of every alert.  *)
(*                                                                         *)
(* At the end, proofs about Reconciler, whose loops call ReconcileSource,  *)
(* and of what AlertStore takes for granted of them.                       *)
(***************************************************************************)
EXTENDS AlertStore, Reconciler, TLAPS

\* The inductive invariant of one row r, with its replayed history t, its
\* announced columns s and its latest event e.
RowOK(r, t, s, e) ==
    /\ r \in Row \cup {Absent}
    /\ t \in Trail \cup {Absent}
    /\ e \in StreamTypes \cup {NoEvent}
    /\ TrailMatches(r, t)
    /\ JudgementsAreCurrent(r, t)
    /\ s = Visible(r)
    /\ Exists(r) /\ r.silencedBy # {} => r.suppressed
    /\ e = "alert.resolved" => ~InFiringView(r)

\* What Commit makes of one row, given its effect x.
EffectOK(t, s, e, x) ==
    RowOK(x.row, Replay(t, x.history),
          IF x.stream = NoEvent THEN s ELSE Visible(x.row),
          IF x.stream = NoEvent THEN e ELSE x.stream)

RowsOK == \A a \in Alerts : RowOK(alerts[a], trail[a], shown[a], lastEvent[a])

IInv == TypeOK /\ RowsOK

USE RowConstants

-----------------------------------------------------------------------------
(***************************************************************************)
(* Effects preserve RowOK.                                                 *)
(***************************************************************************)

\* Not touching a row (early returns, rows outside the transaction) is safe.
LEMMA NoEffectOK ==
    ASSUME NEW r, NEW t, NEW s, NEW e, RowOK(r, t, s, e)
    PROVE  EffectOK(t, s, e, NoEffect(r))
  BY DEF EffectOK, NoEffect, Effect, NoEntry, NoEvent, Replay

\* An OK row that exists has a row's type, and its history has been written.
LEMMA OKTypes ==
    ASSUME NEW r, NEW t, NEW s, NEW e, RowOK(r, t, s, e), Exists(r)
    PROVE  r \in Row /\ t \in Trail
  <1>1. r # Absent
    BY DEF Exists, Absent
  <1>2. t # Absent
    BY DEF RowOK, TrailMatches
  <1>3. QED
    BY <1>1, <1>2 DEF RowOK

\* The first delivery of an alert inserts an OK row.
LEMMA InsertOK ==
    ASSUME NEW t, NEW s, NEW e, NEW d \in Delivery
    PROVE  EffectOK(t, s, e, SystemEffect(InsertedRow(d), "alert.created", "alert.created"))
  <1> DEFINE r == InsertedRow(d)
             h == Entry("alert.created", r, NoOne, NoOne)
             q == Replay(t, h)
  <1>1. r \in Row
    BY DEF InsertedRow, Row, Delivery, Statuses, Ages
  <1>2. h # NoEntry
    BY DEF Entry, NoEntry
  <1>3. q = [status |-> r.status, occurrence |-> r.occurrence, notes |-> 0,
             acknowledged |-> NoMark, closed |-> NoMark,
             assigned |-> NoMark, assignedTo |-> NoOne]
    BY <1>2 DEF Replay, Entry, Remarked, ClearsClose, Fresh
  <1>4. q \in Trail
    BY <1>1, <1>3 DEF Trail, Row, Mark, NoMark
  <1>5. Exists(r) /\ r # Absent /\ q # Absent
    BY <1>1, <1>4 DEF Exists, Absent, Row, Trail, Statuses
  <1>6. TrailMatches(r, q) /\ JudgementsAreCurrent(r, q)
    BY <1>3, <1>5 DEF TrailMatches, JudgementsAreCurrent, DatedNow, NoMark, InsertedRow
  <1>7. RowOK(r, q, Visible(r), "alert.created")
    BY <1>1, <1>4, <1>6 DEF RowOK, InsertedRow, StreamTypes
  <1>8. QED
    BY <1>7 DEF EffectOK, SystemEffect, Effect, NoEvent

\* A later delivery, material or not, keeps the row OK: this is where a
\* reopening has to clear what the previous occurrence was judged to be.
LEMMA DeliverOK ==
    ASSUME NEW r, NEW t, NEW s, NEW e, NEW d \in Delivery,
           RowOK(r, t, s, e), Exists(r)
    PROVE  EffectOK(t, s, e, Ingested(r, d))
  <1> DEFINE n == DeliveredRow(r, d)
             h == Entry(IngestHistoryType(r, d), n, NoOne, NoOne)
             ev == IF IngestHistoryType(r, d) = "alert.resolved"
                   THEN "alert.resolved" ELSE "alert.updated"
  <1>1. r \in Row /\ t \in Trail
    BY OKTypes
  <1>2. /\ n.status = d.status /\ n.labels = d.labels /\ n.annotations = d.annotations
        /\ n.occurrence = IF Reopens(r, d) THEN r.occurrence + 1 ELSE r.occurrence
        /\ n.acknowledgedBy = IF Reopens(r, d) THEN NoOne ELSE r.acknowledgedBy
        /\ n.assignedTo = IF Reopens(r, d) THEN NoOne ELSE r.assignedTo
        /\ n.assignedBy = IF Reopens(r, d) THEN NoOne ELSE r.assignedBy
        /\ n.closedBy = IF UndoesClose(r, d) THEN NoOne ELSE r.closedBy
        /\ n.suppressed = r.suppressed /\ n.silencedBy = r.silencedBy
        /\ n.notes = r.notes
    BY DEF DeliveredRow, DeliveredWith, Unless
  <1>3. n \in Row
    BY <1>1 DEF DeliveredRow, DeliveredWith, Unless, Row, Delivery, Statuses, Ages
  <1>4. Exists(n)
    BY <1>3 DEF Exists, Row, Statuses
  <1> HIDE DEF n
  <1>5. CASE ~alertMateriallyChanged(r, d)
    <2>1. Ingested(r, d) = NoEffect(n)
      BY <1>5 DEF Ingested, n
    <2>2. ~Reopens(r, d) /\ ~UndoesClose(r, d)
      BY <1>5 DEF alertMateriallyChanged, Reopens, UndoesClose
    <2>3. r.status = d.status /\ r.labels = d.labels /\ r.annotations = d.annotations
      BY <1>5 DEF alertMateriallyChanged
    <2>4. Visible(n) = Visible(r) /\ (InFiringView(n) <=> InFiringView(r))
      BY <1>2, <1>4, <2>2, <2>3 DEF Visible, InFiringView
    <2>5. TrailMatches(n, t)
      BY <1>2, <1>4, <2>2, <2>3 DEF RowOK, TrailMatches
    <2>6. JudgementsAreCurrent(n, t)
      BY <1>2, <1>4, <2>2, <2>3 DEF RowOK, JudgementsAreCurrent, DatedNow
    <2>7. RowOK(n, t, s, e)
      BY <1>2, <1>3, <2>4, <2>5, <2>6 DEF RowOK
    <2>8. QED
      BY <2>1, <2>7, NoEffectOK
  <1>6. CASE alertMateriallyChanged(r, d)
    <2> DEFINE q == Replay(t, h)
    <2>1. Ingested(r, d) = Effect(n, h, ev)
      BY <1>6 DEF Ingested, SystemEffect, n
    <2>2. h # NoEntry
      BY DEF Entry, NoEntry
    <2>3. q = [status |-> d.status, occurrence |-> n.occurrence, notes |-> t.notes,
               acknowledged |-> IF Reopens(r, d) THEN NoMark ELSE t.acknowledged,
               closed |-> IF d.status = "firing" THEN NoMark ELSE t.closed,
               assigned |-> IF Reopens(r, d) THEN NoMark ELSE t.assigned,
               assignedTo |-> IF Reopens(r, d) THEN NoOne ELSE t.assignedTo]
      BY <1>2, <2>2
      DEF Replay, Entry, Remarked, ClearsClose, Fresh, IngestHistoryType, Reopens, Delivery
    <2>4. UndoesClose(r, d) <=> d.status = "firing"
      BY <1>6 DEF UndoesClose
    <2>5. q \in Trail
      BY <1>1, <1>3, <2>3 DEF Trail, Row, Mark, NoMark, Delivery, Statuses
    <2>6. q # Absent
      BY <2>5 DEF Absent, Trail, Statuses
    <2>7. TrailMatches(n, q)
      BY <1>2, <1>4, <2>3, <2>4, <2>6 DEF TrailMatches, RowOK, NoMark
    <2>8. JudgementsAreCurrent(n, q)
      <3>1. Reopens(r, d) => d.status = "firing"
        BY DEF Reopens
      <3>2. QED
        BY <1>2, <2>3, <2>4, <3>1 DEF JudgementsAreCurrent, DatedNow, RowOK
    <2>9. ev = "alert.resolved" => ~InFiringView(n)
      BY <1>2 DEF InFiringView, IngestHistoryType, Reopens
    <2>10. RowOK(n, q, Visible(n), ev)
      BY <1>2, <1>3, <2>5, <2>7, <2>8, <2>9 DEF RowOK, StreamTypes
    <2>11. ev # NoEvent
      BY DEF NoEvent
    <2>12. QED
      BY <2>1, <2>10, <2>11 DEF EffectOK, Effect
  <1>7. QED
    BY <1>5, <1>6

\* Store.Ingest on one alert.
LEMMA IngestedOK ==
    ASSUME NEW r, NEW t, NEW s, NEW e, NEW d \in Delivery, RowOK(r, t, s, e)
    PROVE  EffectOK(t, s, e, Ingested(r, d))
  <1>1. CASE Exists(r)
    BY <1>1, DeliverOK
  <1>2. CASE ~Exists(r)
    BY <1>2, InsertOK DEF Ingested
  <1>3. QED
    BY <1>1, <1>2

-----------------------------------------------------------------------------
(***************************************************************************)
(* Operator actions and background writes.  None of them changes the       *)
(* occurrence, so what has to be shown of each is what its history entry   *)
(* makes of the trail.                                                     *)
(***************************************************************************)

\* An effect with a history entry is OK when the entry leads the trail to the
\* new row and the event tells no console a lie.
LEMMA EntryEffectOK ==
    ASSUME NEW t, NEW s, NEW e, NEW n \in Row, NEW h, NEW ev \in StreamTypes,
           Replay(t, h) \in Trail,
           TrailMatches(n, Replay(t, h)),
           JudgementsAreCurrent(n, Replay(t, h)),
           n.silencedBy # {} => n.suppressed,
           ev = "alert.resolved" => ~InFiringView(n)
    PROVE  EffectOK(t, s, e, Effect(n, h, ev))
  <1> DEFINE q == Replay(t, h)
  <1>1. ev # NoEvent
    BY DEF StreamTypes, NoEvent
  <1> HIDE DEF q
  <1>2. RowOK(n, q, Visible(n), ev)
    BY DEF RowOK, q
  <1>3. QED
    BY <1>1, <1>2 DEF EffectOK, Effect, q

\* What an OK row's trail says of it.
LEMMA OKFacts ==
    ASSUME NEW r, NEW t, NEW s, NEW e, RowOK(r, t, s, e), Exists(r)
    PROVE  /\ t.status = r.status /\ t.occurrence = r.occurrence /\ t.notes = r.notes
           /\ t.acknowledged.by = r.acknowledgedBy
           /\ t.assigned.by = r.assignedBy /\ t.assignedTo = r.assignedTo
           /\ t.closed.by = r.closedBy
           /\ DatedNow(r.acknowledgedBy, t.acknowledged, r)
           /\ DatedNow(r.assignedBy, t.assigned, r)
           /\ DatedNow(r.closedBy, t.closed, r)
           /\ r.silencedBy # {} => r.suppressed
  BY DEF RowOK, TrailMatches, JudgementsAreCurrent

\* How a judgement and its mark come out of a step that starts no occurrence:
\* both untouched, both set now, or both cleared.
Follows(who, mark, who0, mark0, occurrence) ==
    \/ who = who0 /\ mark = mark0
    \/ mark = [by |-> who, occurrence |-> occurrence]
    \/ who = NoOne /\ mark = NoMark

\* A step within the occurrence is OK when each judgement follows its entry.
LEMMA SameOccurrenceOK ==
    ASSUME NEW r, NEW t, NEW s, NEW e, RowOK(r, t, s, e), Exists(r),
           NEW n \in Row, NEW h, NEW ev \in StreamTypes,
           NEW q \in Trail, q = Replay(t, h),
           n.occurrence = r.occurrence, q.occurrence = r.occurrence,
           q.status = n.status, q.notes = n.notes, q.assignedTo = n.assignedTo,
           Follows(n.acknowledgedBy, q.acknowledged,
                   r.acknowledgedBy, t.acknowledged, r.occurrence),
           Follows(n.assignedBy, q.assigned, r.assignedBy, t.assigned, r.occurrence),
           Follows(n.closedBy, q.closed, r.closedBy, t.closed, r.occurrence),
           n.silencedBy # {} => n.suppressed,
           ev = "alert.resolved" => ~InFiringView(n)
    PROVE  EffectOK(t, s, e, Effect(n, h, ev))
  <1>1. q # Absent /\ Exists(n)
    BY DEF Absent, Trail, Row, Statuses, Exists
  <1>2. q.acknowledged.by = n.acknowledgedBy /\ DatedNow(n.acknowledgedBy, q.acknowledged, n)
    <2>1. t.acknowledged.by = r.acknowledgedBy /\ DatedNow(r.acknowledgedBy, t.acknowledged, r)
      BY OKFacts
    <2>2. QED
      BY <2>1 DEF Follows, DatedNow, NoMark
  <1>3. q.assigned.by = n.assignedBy /\ DatedNow(n.assignedBy, q.assigned, n)
    <2>1. t.assigned.by = r.assignedBy /\ DatedNow(r.assignedBy, t.assigned, r)
      BY OKFacts
    <2>2. QED
      BY <2>1 DEF Follows, DatedNow, NoMark
  <1>4. q.closed.by = n.closedBy /\ DatedNow(n.closedBy, q.closed, n)
    <2>1. t.closed.by = r.closedBy /\ DatedNow(r.closedBy, t.closed, r)
      BY OKFacts
    <2>2. QED
      BY <2>1 DEF Follows, DatedNow, NoMark
  <1>5. TrailMatches(n, q)
    BY <1>1, <1>2, <1>3, <1>4 DEF TrailMatches
  <1>6. JudgementsAreCurrent(n, q)
    BY <1>2, <1>3, <1>4 DEF JudgementsAreCurrent
  <1>7. QED
    BY <1>5, <1>6, EntryEffectOK

\* Acknowledging and unacknowledging.
LEMMA AcknowledgedOK ==
    ASSUME NEW r, NEW t, NEW s, NEW e, NEW op \in Operators, NEW on \in BOOLEAN,
           RowOK(r, t, s, e), Exists(r)
    PROVE  EffectOK(t, s, e, Acknowledged(r, op, on))
  <1> DEFINE n == [r EXCEPT !.acknowledgedBy = IF on THEN op ELSE NoOne]
             h == Entry(IF on THEN "alert.acknowledged" ELSE "alert.unacknowledged",
                        r, op, NoOne)
             q == Replay(t, h)
  <1>1. r \in Row /\ t \in Trail
    BY OKTypes
  <1>2. t.notes = r.notes /\ t.assignedTo = r.assignedTo /\ (r.silencedBy # {} => r.suppressed)
    BY OKFacts
  <1>3. q = [status |-> r.status, occurrence |-> r.occurrence, notes |-> t.notes,
             acknowledged |-> IF on THEN [by |-> op, occurrence |-> r.occurrence]
                              ELSE NoMark,
             closed |-> t.closed, assigned |-> t.assigned, assignedTo |-> t.assignedTo]
    <2>1. h # NoEntry
      BY DEF Entry, NoEntry
    <2>2. QED
      BY <2>1 DEF Replay, Entry, Remarked, ClearsClose, Fresh, MarkOf
  <1>4. n \in Row
    BY <1>1 DEF Row
  <1>5. q \in Trail
    BY <1>1, <1>3 DEF Trail, Row, Mark, NoMark
  <1>6. /\ n.status = r.status /\ n.occurrence = r.occurrence /\ n.notes = r.notes
        /\ n.acknowledgedBy = IF on THEN op ELSE NoOne
        /\ n.assignedTo = r.assignedTo /\ n.assignedBy = r.assignedBy
        /\ n.closedBy = r.closedBy
        /\ n.suppressed = r.suppressed /\ n.silencedBy = r.silencedBy
    BY <1>1 DEF Row
  <1>7. Acknowledged(r, op, on) \in {NoEffect(r), Effect(n, h, "alert.updated")}
    BY DEF Acknowledged
  <1> HIDE DEF n, q
  <1>8. EffectOK(t, s, e, Effect(n, h, "alert.updated"))
    <2>1. /\ Follows(n.acknowledgedBy, q.acknowledged,
                     r.acknowledgedBy, t.acknowledged, r.occurrence)
          /\ Follows(n.assignedBy, q.assigned, r.assignedBy, t.assigned, r.occurrence)
          /\ Follows(n.closedBy, q.closed, r.closedBy, t.closed, r.occurrence)
      BY <1>3, <1>6 DEF Follows
    <2>2. /\ q.occurrence = r.occurrence /\ q.status = n.status
          /\ q.notes = n.notes /\ q.assignedTo = n.assignedTo
          /\ n.silencedBy # {} => n.suppressed
      BY <1>2, <1>3, <1>6
    <2>3. q = Replay(t, h) /\ "alert.updated" \in StreamTypes
      BY DEF q, StreamTypes
    <2> HIDE DEF h
    <2>4. QED
      BY <1>4, <1>5, <1>6, <2>1, <2>2, <2>3, SameOccurrenceOK
  <1>9. QED
    BY <1>7, <1>8, NoEffectOK

\* Assigning and unassigning.
LEMMA AssignedOK ==
    ASSUME NEW r, NEW t, NEW s, NEW e, NEW op \in Operators,
           NEW assignee \in Assignees \cup {NoOne},
           RowOK(r, t, s, e), Exists(r)
    PROVE  EffectOK(t, s, e, Assigned(r, op, assignee))
  <1> DEFINE n == [r EXCEPT !.assignedTo = assignee,
                           !.assignedBy = IF assignee = NoOne THEN NoOne ELSE op]
             h == Entry(IF assignee = NoOne THEN "alert.unassigned" ELSE "alert.assigned",
                        r, op, assignee)
             ev == "alert.updated"
             q == Replay(t, h)
  <1>1. r \in Row /\ t \in Trail
    BY OKTypes
  <1>2. t.notes = r.notes /\ t.assignedTo = r.assignedTo /\ (r.silencedBy # {} => r.suppressed)
    BY OKFacts
  <1>3. q = [status |-> r.status, occurrence |-> r.occurrence, notes |-> t.notes,
             acknowledged |-> t.acknowledged, closed |-> t.closed,
             assigned |-> IF assignee = NoOne THEN NoMark
                          ELSE [by |-> op, occurrence |-> r.occurrence], assignedTo |-> assignee]
    <2>1. h # NoEntry
      BY DEF Entry, NoEntry
    <2>2. QED
      BY <1>1, <2>1 DEF Replay, Entry, Remarked, ClearsClose, Fresh, MarkOf, Row
  <1>4. n \in Row
    BY <1>1 DEF Row, Statuses, LiveState
  <1>5. q \in Trail
    BY <1>1, <1>3 DEF Trail, Row, Mark, NoMark, Statuses
  <1>6. /\ n.status = r.status /\ n.occurrence = r.occurrence /\ n.notes = r.notes
        /\ n.acknowledgedBy = r.acknowledgedBy
        /\ n.assignedTo = assignee /\ n.assignedBy = (IF assignee = NoOne THEN NoOne ELSE op)
        /\ n.closedBy = r.closedBy
        /\ n.suppressed = r.suppressed /\ n.silencedBy = r.silencedBy
    BY <1>1 DEF Row
  <1>7. Assigned(r, op, assignee) \in {NoEffect(r), Effect(n, h, ev)}
    BY DEF Assigned
  <1>8. ev \in StreamTypes /\ (ev = "alert.resolved" => ~InFiringView(n))
    BY <1>6 DEF StreamTypes, InFiringView
  <1> HIDE DEF n, q, ev
  <1>9. EffectOK(t, s, e, Effect(n, h, ev))
    <2>1. /\ Follows(n.acknowledgedBy, q.acknowledged,
                     r.acknowledgedBy, t.acknowledged, r.occurrence)
          /\ Follows(n.assignedBy, q.assigned, r.assignedBy, t.assigned, r.occurrence)
          /\ Follows(n.closedBy, q.closed, r.closedBy, t.closed, r.occurrence)
      BY <1>3, <1>6 DEF Follows
    <2>2. /\ q.occurrence = r.occurrence /\ q.status = n.status
          /\ q.notes = n.notes /\ q.assignedTo = n.assignedTo
          /\ n.silencedBy # {} => n.suppressed
      BY <1>2, <1>3, <1>6 DEF LiveState
    <2>3. q = Replay(t, h)
      BY DEF q
    <2> HIDE DEF h
    <2>4. QED
      BY <1>4, <1>5, <1>6, <1>8, <2>1, <2>2, <2>3, SameOccurrenceOK
  <1>10. QED
    BY <1>7, <1>9, NoEffectOK

\* Closing and reopening locally.
LEMMA ClosedOK ==
    ASSUME NEW r, NEW t, NEW s, NEW e, NEW op \in Operators, NEW on \in BOOLEAN,
           RowOK(r, t, s, e), Exists(r)
    PROVE  EffectOK(t, s, e, Closed(r, op, on))
  <1> DEFINE n == [r EXCEPT !.closedBy = IF on THEN op ELSE NoOne]
             h == Entry(IF on THEN "alert.closed" ELSE "alert.reopened.local", r, op, NoOne)
             ev == IF on THEN "alert.resolved" ELSE "alert.updated"
             q == Replay(t, h)
  <1>1. r \in Row /\ t \in Trail
    BY OKTypes
  <1>2. t.notes = r.notes /\ t.assignedTo = r.assignedTo /\ (r.silencedBy # {} => r.suppressed)
    BY OKFacts
  <1>3. q = [status |-> r.status, occurrence |-> r.occurrence, notes |-> t.notes,
             acknowledged |-> t.acknowledged, closed |-> IF on THEN [by |-> op, occurrence |-> r.occurrence] ELSE NoMark,
             assigned |-> t.assigned, assignedTo |-> t.assignedTo]
    <2>1. h # NoEntry
      BY DEF Entry, NoEntry
    <2>2. QED
      BY <1>1, <2>1 DEF Replay, Entry, Remarked, ClearsClose, Fresh, MarkOf, Row
  <1>4. n \in Row
    BY <1>1 DEF Row, Statuses, LiveState
  <1>5. q \in Trail
    BY <1>1, <1>3 DEF Trail, Row, Mark, NoMark, Statuses
  <1>6. /\ n.status = r.status /\ n.occurrence = r.occurrence /\ n.notes = r.notes
        /\ n.acknowledgedBy = r.acknowledgedBy
        /\ n.assignedTo = r.assignedTo /\ n.assignedBy = r.assignedBy
        /\ n.closedBy = IF on THEN op ELSE NoOne
        /\ n.suppressed = r.suppressed /\ n.silencedBy = r.silencedBy
    BY <1>1 DEF Row
  <1>7. Closed(r, op, on) \in {NoEffect(r), Effect(n, h, ev)}
    BY DEF Closed
  <1>8. ev \in StreamTypes /\ (ev = "alert.resolved" => ~InFiringView(n))
    BY <1>6 DEF StreamTypes, InFiringView
  <1> HIDE DEF n, q, ev
  <1>9. EffectOK(t, s, e, Effect(n, h, ev))
    <2>1. /\ Follows(n.acknowledgedBy, q.acknowledged,
                     r.acknowledgedBy, t.acknowledged, r.occurrence)
          /\ Follows(n.assignedBy, q.assigned, r.assignedBy, t.assigned, r.occurrence)
          /\ Follows(n.closedBy, q.closed, r.closedBy, t.closed, r.occurrence)
      BY <1>3, <1>6 DEF Follows
    <2>2. /\ q.occurrence = r.occurrence /\ q.status = n.status
          /\ q.notes = n.notes /\ q.assignedTo = n.assignedTo
          /\ n.silencedBy # {} => n.suppressed
      BY <1>2, <1>3, <1>6 DEF LiveState
    <2>3. q = Replay(t, h)
      BY DEF q
    <2> HIDE DEF h
    <2>4. QED
      BY <1>4, <1>5, <1>6, <1>8, <2>1, <2>2, <2>3, SameOccurrenceOK
  <1>10. QED
    BY <1>7, <1>9, NoEffectOK

\* Adding a note.
LEMMA NotedOK ==
    ASSUME NEW r, NEW t, NEW s, NEW e, NEW op \in Operators,
           RowOK(r, t, s, e), Exists(r)
    PROVE  EffectOK(t, s, e, Noted(r, op))
  <1> DEFINE n == [r EXCEPT !.notes = r.notes + 1]
             h == Entry("alert.note", r, op, NoOne)
             ev == "alert.updated"
             q == Replay(t, h)
  <1>1. r \in Row /\ t \in Trail
    BY OKTypes
  <1>2. t.notes = r.notes /\ t.assignedTo = r.assignedTo /\ (r.silencedBy # {} => r.suppressed)
    BY OKFacts
  <1>3. q = [status |-> r.status, occurrence |-> r.occurrence, notes |-> t.notes + 1,
             acknowledged |-> t.acknowledged, closed |-> t.closed,
             assigned |-> t.assigned, assignedTo |-> t.assignedTo]
    <2>1. h # NoEntry
      BY DEF Entry, NoEntry
    <2>2. QED
      BY <1>1, <2>1 DEF Replay, Entry, Remarked, ClearsClose, Fresh, MarkOf, Row
  <1>4. n \in Row
    BY <1>1 DEF Row, Statuses, LiveState
  <1>5. q \in Trail
    BY <1>1, <1>3 DEF Trail, Row, Mark, NoMark, Statuses
  <1>6. /\ n.status = r.status /\ n.occurrence = r.occurrence /\ n.notes = r.notes + 1
        /\ n.acknowledgedBy = r.acknowledgedBy
        /\ n.assignedTo = r.assignedTo /\ n.assignedBy = r.assignedBy
        /\ n.closedBy = r.closedBy
        /\ n.suppressed = r.suppressed /\ n.silencedBy = r.silencedBy
    BY <1>1 DEF Row
  <1>7. Noted(r, op) = Effect(n, h, ev)
    BY DEF Noted
  <1>8. ev \in StreamTypes /\ (ev = "alert.resolved" => ~InFiringView(n))
    BY <1>6 DEF StreamTypes, InFiringView
  <1> HIDE DEF n, q, ev
  <1>9. EffectOK(t, s, e, Effect(n, h, ev))
    <2>1. /\ Follows(n.acknowledgedBy, q.acknowledged,
                     r.acknowledgedBy, t.acknowledged, r.occurrence)
          /\ Follows(n.assignedBy, q.assigned, r.assignedBy, t.assigned, r.occurrence)
          /\ Follows(n.closedBy, q.closed, r.closedBy, t.closed, r.occurrence)
      BY <1>3, <1>6 DEF Follows
    <2>2. /\ q.occurrence = r.occurrence /\ q.status = n.status
          /\ q.notes = n.notes /\ q.assignedTo = n.assignedTo
          /\ n.silencedBy # {} => n.suppressed
      BY <1>2, <1>3, <1>6 DEF LiveState
    <2>3. q = Replay(t, h)
      BY DEF q
    <2> HIDE DEF h
    <2>4. QED
      BY <1>4, <1>5, <1>6, <1>8, <2>1, <2>2, <2>3, SameOccurrenceOK
  <1>10. QED
    BY <1>7, <1>9

\* Expiring.
LEMMA ExpiredOK ==
    ASSUME NEW r, NEW t, NEW s, NEW e,
           RowOK(r, t, s, e), Exists(r)
    PROVE  EffectOK(t, s, e, Expired(r))
  <1> DEFINE n == [r EXCEPT !.status = "expired"]
             h == Entry("alert.expired", n, NoOne, NoOne)
             ev == "alert.resolved"
             q == Replay(t, h)
  <1>1. r \in Row /\ t \in Trail
    BY OKTypes
  <1>2. t.notes = r.notes /\ t.assignedTo = r.assignedTo /\ (r.silencedBy # {} => r.suppressed)
    BY OKFacts
  <1>3. q = [status |-> "expired", occurrence |-> r.occurrence, notes |-> t.notes,
             acknowledged |-> t.acknowledged, closed |-> t.closed,
             assigned |-> t.assigned, assignedTo |-> t.assignedTo]
    <2>1. h # NoEntry
      BY DEF Entry, NoEntry
    <2>2. QED
      BY <1>1, <2>1 DEF Replay, Entry, Remarked, ClearsClose, Fresh, MarkOf, Row
  <1>4. n \in Row
    BY <1>1 DEF Row, Statuses, LiveState
  <1>5. q \in Trail
    BY <1>1, <1>3 DEF Trail, Row, Mark, NoMark, Statuses
  <1>6. /\ n.status = "expired" /\ n.occurrence = r.occurrence /\ n.notes = r.notes
        /\ n.acknowledgedBy = r.acknowledgedBy
        /\ n.assignedTo = r.assignedTo /\ n.assignedBy = r.assignedBy
        /\ n.closedBy = r.closedBy
        /\ n.suppressed = r.suppressed /\ n.silencedBy = r.silencedBy
    BY <1>1 DEF Row
  <1>7. Expired(r) = Effect(n, h, ev)
    BY DEF Expired, SystemEffect
  <1>8. ev \in StreamTypes /\ (ev = "alert.resolved" => ~InFiringView(n))
    BY <1>6 DEF StreamTypes, InFiringView
  <1> HIDE DEF n, q, ev
  <1>9. EffectOK(t, s, e, Effect(n, h, ev))
    <2>1. /\ Follows(n.acknowledgedBy, q.acknowledged,
                     r.acknowledgedBy, t.acknowledged, r.occurrence)
          /\ Follows(n.assignedBy, q.assigned, r.assignedBy, t.assigned, r.occurrence)
          /\ Follows(n.closedBy, q.closed, r.closedBy, t.closed, r.occurrence)
      BY <1>3, <1>6 DEF Follows
    <2>2. /\ q.occurrence = r.occurrence /\ q.status = n.status
          /\ q.notes = n.notes /\ q.assignedTo = n.assignedTo
          /\ n.silencedBy # {} => n.suppressed
      BY <1>2, <1>3, <1>6 DEF LiveState
    <2>3. q = Replay(t, h)
      BY DEF q
    <2> HIDE DEF h
    <2>4. QED
      BY <1>4, <1>5, <1>6, <1>8, <2>1, <2>2, <2>3, SameOccurrenceOK
  <1>10. QED
    BY <1>7, <1>9

\* Reviving an expired alert the source still holds.
LEMMA RevivedOK ==
    ASSUME NEW r, NEW t, NEW s, NEW e, NEW l \in LiveState,
           RowOK(r, t, s, e), Exists(r)
    PROVE  EffectOK(t, s, e, Revived(r, l))
  <1> DEFINE n == [r EXCEPT !.status = "firing", !.suppressed = l.suppressed,
                        !.silencedBy = l.silencedBy]
             h == Entry("alert.revived", n, NoOne, NoOne)
             ev == "alert.updated"
             q == Replay(t, h)
  <1>1. r \in Row /\ t \in Trail
    BY OKTypes
  <1>2. t.notes = r.notes /\ t.assignedTo = r.assignedTo /\ (r.silencedBy # {} => r.suppressed)
    BY OKFacts
  <1>3. q = [status |-> "firing", occurrence |-> r.occurrence, notes |-> t.notes,
             acknowledged |-> t.acknowledged, closed |-> t.closed,
             assigned |-> t.assigned, assignedTo |-> t.assignedTo]
    <2>1. h # NoEntry
      BY DEF Entry, NoEntry
    <2>2. QED
      BY <1>1, <2>1 DEF Replay, Entry, Remarked, ClearsClose, Fresh, MarkOf, Row
  <1>4. n \in Row
    BY <1>1 DEF Row, Statuses, LiveState
  <1>5. q \in Trail
    BY <1>1, <1>3 DEF Trail, Row, Mark, NoMark, Statuses
  <1>6. /\ n.status = "firing" /\ n.occurrence = r.occurrence /\ n.notes = r.notes
        /\ n.acknowledgedBy = r.acknowledgedBy
        /\ n.assignedTo = r.assignedTo /\ n.assignedBy = r.assignedBy
        /\ n.closedBy = r.closedBy
        /\ n.suppressed = l.suppressed /\ n.silencedBy = l.silencedBy
    BY <1>1 DEF Row
  <1>7. Revived(r, l) = Effect(n, h, ev)
    BY DEF Revived, SystemEffect
  <1>8. ev \in StreamTypes /\ (ev = "alert.resolved" => ~InFiringView(n))
    BY <1>6 DEF StreamTypes, InFiringView
  <1> HIDE DEF n, q, ev
  <1>9. EffectOK(t, s, e, Effect(n, h, ev))
    <2>1. /\ Follows(n.acknowledgedBy, q.acknowledged,
                     r.acknowledgedBy, t.acknowledged, r.occurrence)
          /\ Follows(n.assignedBy, q.assigned, r.assignedBy, t.assigned, r.occurrence)
          /\ Follows(n.closedBy, q.closed, r.closedBy, t.closed, r.occurrence)
      BY <1>3, <1>6 DEF Follows
    <2>2. /\ q.occurrence = r.occurrence /\ q.status = n.status
          /\ q.notes = n.notes /\ q.assignedTo = n.assignedTo
          /\ n.silencedBy # {} => n.suppressed
      BY <1>2, <1>3, <1>6 DEF LiveState
    <2>3. q = Replay(t, h)
      BY DEF q
    <2> HIDE DEF h
    <2>4. QED
      BY <1>4, <1>5, <1>6, <1>8, <2>1, <2>2, <2>3, SameOccurrenceOK
  <1>10. QED
    BY <1>7, <1>9

\* Resolving an alert the source no longer holds.
LEMMA ReconciledAwayOK ==
    ASSUME NEW r, NEW t, NEW s, NEW e,
           RowOK(r, t, s, e), Exists(r)
    PROVE  EffectOK(t, s, e, ReconciledAway(r))
  <1> DEFINE n == [r EXCEPT !.status = "resolved", !.suppressed = FALSE, !.silencedBy = {}]
             h == Entry("alert.reconciled", n, NoOne, NoOne)
             ev == "alert.resolved"
             q == Replay(t, h)
  <1>1. r \in Row /\ t \in Trail
    BY OKTypes
  <1>2. t.notes = r.notes /\ t.assignedTo = r.assignedTo /\ (r.silencedBy # {} => r.suppressed)
    BY OKFacts
  <1>3. q = [status |-> "resolved", occurrence |-> r.occurrence, notes |-> t.notes,
             acknowledged |-> t.acknowledged, closed |-> t.closed,
             assigned |-> t.assigned, assignedTo |-> t.assignedTo]
    <2>1. h # NoEntry
      BY DEF Entry, NoEntry
    <2>2. QED
      BY <1>1, <2>1 DEF Replay, Entry, Remarked, ClearsClose, Fresh, MarkOf, Row
  <1>4. n \in Row
    BY <1>1 DEF Row, Statuses, LiveState
  <1>5. q \in Trail
    BY <1>1, <1>3 DEF Trail, Row, Mark, NoMark, Statuses
  <1>6. /\ n.status = "resolved" /\ n.occurrence = r.occurrence /\ n.notes = r.notes
        /\ n.acknowledgedBy = r.acknowledgedBy
        /\ n.assignedTo = r.assignedTo /\ n.assignedBy = r.assignedBy
        /\ n.closedBy = r.closedBy
        /\ n.suppressed = FALSE /\ n.silencedBy = {}
    BY <1>1 DEF Row
  <1>7. ReconciledAway(r) = Effect(n, h, ev)
    BY DEF ReconciledAway, SystemEffect
  <1>8. ev \in StreamTypes /\ (ev = "alert.resolved" => ~InFiringView(n))
    BY <1>6 DEF StreamTypes, InFiringView
  <1> HIDE DEF n, q, ev
  <1>9. EffectOK(t, s, e, Effect(n, h, ev))
    <2>1. /\ Follows(n.acknowledgedBy, q.acknowledged,
                     r.acknowledgedBy, t.acknowledged, r.occurrence)
          /\ Follows(n.assignedBy, q.assigned, r.assignedBy, t.assigned, r.occurrence)
          /\ Follows(n.closedBy, q.closed, r.closedBy, t.closed, r.occurrence)
      BY <1>3, <1>6 DEF Follows
    <2>2. /\ q.occurrence = r.occurrence /\ q.status = n.status
          /\ q.notes = n.notes /\ q.assignedTo = n.assignedTo
          /\ n.silencedBy # {} => n.suppressed
      BY <1>2, <1>3, <1>6 DEF LiveState
    <2>3. q = Replay(t, h)
      BY DEF q
    <2> HIDE DEF h
    <2>4. QED
      BY <1>4, <1>5, <1>6, <1>8, <2>1, <2>2, <2>3, SameOccurrenceOK
  <1>10. QED
    BY <1>7, <1>9

\* A write that only moves suppression leaves no history entry;
\* it is OK when a changed flag is announced.
LEMMA SuppressionOK ==
    ASSUME NEW r, NEW t, NEW s, NEW e, RowOK(r, t, s, e), Exists(r),
           NEW suppressed \in BOOLEAN, NEW silencedBy \in SUBSET Silences,
           silencedBy # {} => suppressed,
           NEW ev \in {NoEvent, "alert.updated"},
           suppressed # r.suppressed => ev = "alert.updated",
           NEW n, n = [r EXCEPT !.suppressed = suppressed, !.silencedBy = silencedBy]
    PROVE  EffectOK(t, s, e, Effect(n, NoEntry, ev))
  <1>1. r \in Row
    BY OKTypes
  <1>2. n \in Row
    BY <1>1 DEF Row
  <1>3. /\ n.status = r.status /\ n.occurrence = r.occurrence /\ n.notes = r.notes
        /\ n.labels = r.labels /\ n.annotations = r.annotations
        /\ n.acknowledgedBy = r.acknowledgedBy
        /\ n.assignedTo = r.assignedTo /\ n.assignedBy = r.assignedBy
        /\ n.closedBy = r.closedBy
        /\ n.suppressed = suppressed /\ n.silencedBy = silencedBy
    BY <1>1 DEF Row
  <1>4. Exists(n)
    BY <1>3 DEF Exists
  <1>5. TrailMatches(n, t)
    BY <1>3, <1>4 DEF RowOK, TrailMatches
  <1>6. JudgementsAreCurrent(n, t)
    BY <1>3, <1>4 DEF RowOK, JudgementsAreCurrent, DatedNow
  <1>7. ev = NoEvent => Visible(n) = Visible(r)
    BY <1>3, <1>4 DEF Visible, NoEvent
  <1>8. InFiringView(n) <=> InFiringView(r)
    BY <1>3 DEF InFiringView
  <1>9. CASE ev = NoEvent
    <2>1. RowOK(n, t, s, e)
      BY <1>2, <1>3, <1>5, <1>6, <1>7, <1>8, <1>9 DEF RowOK
    <2>2. QED
      BY <1>9, <2>1 DEF EffectOK, Effect, Replay
  <1>10. CASE ev = "alert.updated"
    <2>1. RowOK(n, t, Visible(n), ev)
      BY <1>2, <1>3, <1>5, <1>6, <1>10 DEF RowOK, StreamTypes
    <2>2. ev # NoEvent
      BY <1>10 DEF NoEvent
    <2>3. QED
      BY <2>1, <2>2 DEF EffectOK, Effect, Replay
  <1>11. QED
    BY <1>9, <1>10

\* Freshness columns are outside everything RowOK relates.
LEMMA FreshnessOK ==
    ASSUME NEW t, NEW s, NEW e, NEW x, EffectOK(t, s, e, x), Exists(x.row),
           NEW seen \in Ages, NEW vouched \in Ages
    PROVE  EffectOK(t, s, e, Effect([x.row EXCEPT !.seen = seen, !.vouched = vouched],
                                    x.history, x.stream))
  <1> DEFINE r == x.row
             n == [r EXCEPT !.seen = seen, !.vouched = vouched]
             q == Replay(t, x.history)
             sh == IF x.stream = NoEvent THEN s ELSE Visible(r)
             ev == IF x.stream = NoEvent THEN e ELSE x.stream
  <1>1. RowOK(r, q, sh, ev)
    BY DEF EffectOK
  <1> HIDE DEF q, sh, ev
  <1>2. r \in Row /\ q \in Trail
    BY <1>1, OKTypes
  <1>3. n \in Row
    BY <1>2 DEF Row
  <1>4. /\ n.status = r.status /\ n.occurrence = r.occurrence /\ n.notes = r.notes
        /\ n.labels = r.labels /\ n.annotations = r.annotations
        /\ n.acknowledgedBy = r.acknowledgedBy
        /\ n.assignedTo = r.assignedTo /\ n.assignedBy = r.assignedBy
        /\ n.closedBy = r.closedBy
        /\ n.suppressed = r.suppressed /\ n.silencedBy = r.silencedBy
    BY <1>2 DEF Row
  <1> HIDE DEF n
  <1>5. Exists(n)
    BY <1>4 DEF Exists
  <1>6. Visible(n) = Visible(r)
    BY <1>4, <1>5 DEF Visible
  <1>7. RowOK(n, q, sh, ev)
    <2>1. TrailMatches(n, q)
      BY <1>1, <1>4, <1>5 DEF RowOK, TrailMatches
    <2>2. JudgementsAreCurrent(n, q)
      BY <1>1, <1>4, <1>5 DEF RowOK, JudgementsAreCurrent, DatedNow
    <2>3. QED
      BY <1>1, <1>3, <1>4, <1>6, <2>1, <2>2 DEF RowOK, InFiringView
  <1>8. QED
    BY <1>6, <1>7 DEF EffectOK, Effect, q, sh, ev, n

\* Store.ReconcileSource on one row, before its closing reconciled_at update.
LEMMA ReconciledRowOK ==
    ASSUME NEW r, NEW t, NEW s, NEW e, RowOK(r, t, s, e),
           NEW l \in LiveState \cup {NotHeld}, NEW gone \in BOOLEAN,
           NEW listing \in Listings, NEW skipped \in BOOLEAN
    PROVE  EffectOK(t, s, e, ReconciledRow(r, l, gone, listing, skipped))
  <1>1. CASE skipped \/ r.status \notin {"firing", "expired"}
    BY <1>1, NoEffectOK DEF ReconciledRow
  <1>2. CASE ~skipped /\ r.status \in {"firing", "expired"}
    <2>1. Exists(r)
      BY <1>2 DEF Exists
    <2>2. CASE r.status = "expired"
      BY <1>2, <2>1, <2>2, NoEffectOK, RevivedOK DEF ReconciledRow
    <2>3. CASE r.status = "firing" /\ gone
      BY <1>2, <2>1, <2>3, ReconciledAwayOK DEF ReconciledRow
    <2>4. CASE r.status = "firing" /\ ~gone /\ l = NotHeld
      <3> DEFINE n == [r EXCEPT !.suppressed = FALSE, !.silencedBy = {}]
      <3>1. Released(r, listing) \in {NoEffect(r), Effect(n, NoEntry, "alert.updated")}
        BY DEF Released
      <3>2. EffectOK(t, s, e, Effect(n, NoEntry, "alert.updated"))
        BY <2>1, SuppressionOK
      <3>3. ReconciledRow(r, l, gone, listing, skipped) = Released(r, listing)
        BY <1>2, <2>4 DEF ReconciledRow
      <3>4. QED
        BY <3>1, <3>2, <3>3, NoEffectOK
    <2>5. CASE r.status = "firing" /\ ~gone /\ l # NotHeld
      <3> DEFINE n == [r EXCEPT !.suppressed = l.suppressed, !.silencedBy = l.silencedBy]
                 ev == IF l.suppressed # r.suppressed THEN "alert.updated" ELSE NoEvent
      <3>1. l.suppressed \in BOOLEAN /\ l.silencedBy \in SUBSET Silences
            /\ (l.silencedBy # {} => l.suppressed)
        BY <2>5 DEF LiveState
      <3>2. ReconciledRow(r, l, gone, listing, skipped) = Effect(n, NoEntry, ev)
        BY <1>2, <2>5 DEF ReconciledRow, SuppressionSynced
      <3>3. EffectOK(t, s, e, Effect(n, NoEntry, ev))
        BY <2>1, <3>1, SuppressionOK
      <3>4. QED
        BY <3>2, <3>3
    <2>6. QED
      BY <1>2, <2>2, <2>3, <2>4, <2>5
  <1>3. QED
    BY <1>1, <1>2

\* Store.ReconcileSource on one row.
LEMMA ReconciledOK ==
    ASSUME NEW r, NEW t, NEW s, NEW e, RowOK(r, t, s, e),
           NEW l \in LiveState \cup {NotHeld}, NEW gone \in BOOLEAN,
           NEW listing \in Listings, NEW skipped \in BOOLEAN
    PROVE  EffectOK(t, s, e, Reconciled(r, l, gone, listing, skipped))
  <1> DEFINE x == ReconciledRow(r, l, gone, listing, skipped)
             n == x.row
  <1>1. EffectOK(t, s, e, x)
    BY ReconciledRowOK
  <1>2. x = Effect(x.row, x.history, x.stream)
    BY DEF ReconciledRow, Revived, ReconciledAway, Released, SuppressionSynced,
           SystemEffect, NoEffect, Effect
  <1> HIDE DEF x
  <1>3. CASE l = NotHeld \/ n.status # "firing"
    <2>1. Reconciled(r, l, gone, listing, skipped) = x
      BY <1>2, <1>3 DEF Reconciled, Vouched, x
    <2>2. QED
      BY <1>1, <2>1
  <1>4. CASE l # NotHeld /\ n.status = "firing"
    <2>1. Exists(n)
      BY <1>4 DEF Exists
    <2>2. n \in Row
      BY <1>1, <2>1, OKTypes DEF EffectOK
    <2>3. 0 \in Ages /\ n.seen \in Ages
      BY <2>2 DEF Ages, Row
    <2>4. [n EXCEPT !.seen = n.seen, !.vouched = 0] = [n EXCEPT !.vouched = 0]
      BY <2>2 DEF Row
    <2>5. Reconciled(r, l, gone, listing, skipped)
            = Effect([n EXCEPT !.seen = n.seen, !.vouched = 0], x.history, x.stream)
      BY <1>4, <2>4 DEF Reconciled, Vouched, x
    <2>6. EffectOK(t, s, e, Effect([x.row EXCEPT !.seen = x.row.seen, !.vouched = 0],
                                   x.history, x.stream))
      BY <1>1, <2>1, <2>3, FreshnessOK
    <2>7. QED
      BY <2>5, <2>6
  <1>5. QED
    BY <1>3, <1>4

-----------------------------------------------------------------------------
(***************************************************************************)
(* The inductive invariant.                                                *)
(***************************************************************************)

\* OK rows make a well-typed table.
LEMMA RowsType ==
    ASSUME RowsOK',
           alerts' = [a \in Alerts |-> alerts'[a]],
           trail' = [a \in Alerts |-> trail'[a]],
           lastEvent' = [a \in Alerts |-> lastEvent'[a]]
    PROVE  TypeOK'
  BY DEF RowsOK, RowOK, TypeOK

\* A transaction whose effect on every row is OK preserves the invariant.
LEMMA CommitOK ==
    ASSUME NEW effect,
           \A a \in Alerts : EffectOK(trail[a], shown[a], lastEvent[a], effect[a]),
           Commit(effect)
    PROVE  IInv'
  <1>0. ASSUME NEW a \in Alerts
        PROVE  RowOK(alerts'[a], trail'[a], shown'[a], lastEvent'[a])
    <2>1. /\ alerts'[a] = effect[a].row
          /\ trail'[a] = Replay(trail[a], effect[a].history)
          /\ shown'[a] = IF effect[a].stream = NoEvent THEN shown[a]
                         ELSE Visible(effect[a].row)
          /\ lastEvent'[a] = IF effect[a].stream = NoEvent THEN lastEvent[a]
                             ELSE effect[a].stream
      BY DEF Commit
    <2>2. QED
      BY <2>1 DEF EffectOK
  <1>1. RowsOK'
    BY <1>0 DEF RowsOK
  <1>2. QED
    BY <1>1, RowsType DEF IInv, Commit

\* The empty table satisfies it.
LEMMA InitOK == Init => IInv
  BY DEF Init, IInv, TypeOK, RowsOK, RowOK, TrailMatches, JudgementsAreCurrent, Visible, Exists,
         Absent, NoEvent, InFiringView

\* Every step preserves it: one case per transaction.
LEMMA NextOK ==
    ASSUME IInv, [Next]_vars
    PROVE  IInv'
  <1> DEFINE OK(a, x) == EffectOK(trail[a], shown[a], lastEvent[a], x)
  <1>0. \A a \in Alerts : /\ RowOK(alerts[a], trail[a], shown[a], lastEvent[a])
                          /\ OK(a, NoEffect(alerts[a]))
    BY NoEffectOK DEF IInv, RowsOK
  <1>1. ASSUME NEW batch \in SUBSET Alerts, NEW d \in [Alerts -> Delivery],
               Ingest(batch, d)
        PROVE  IInv'
    <2> DEFINE f == [a \in Alerts |-> IF a \in batch THEN Ingested(alerts[a], d[a])
                                      ELSE NoEffect(alerts[a])]
    <2>1. \A a \in Alerts : OK(a, f[a])
      BY <1>0, IngestedOK
    <2>2. Commit(f)
      BY <1>1 DEF Ingest
    <2> HIDE DEF f
    <2>3. QED
      BY <2>1, <2>2, CommitOK
  <1>2. ASSUME NEW op \in Operators, NEW ids \in SUBSET Alerts, NEW on \in BOOLEAN,
               AcknowledgeAlerts(op, ids, on)
        PROVE  IInv'
    <2> DEFINE f == [a \in Alerts |-> IF a \in ids /\ InScope(op, a)
                                      THEN Acknowledged(alerts[a], op, on)
                                      ELSE NoEffect(alerts[a])]
    <2>1. \A a \in Alerts : OK(a, f[a])
      BY <1>0, AcknowledgedOK DEF InScope
    <2>2. Commit(f)
      BY <1>2 DEF AcknowledgeAlerts
    <2> HIDE DEF f
    <2>3. QED
      BY <2>1, <2>2, CommitOK
  <1>3. ASSUME NEW op \in Operators, NEW ids \in SUBSET Alerts,
               NEW to \in Assignees \cup {NoOne}, AssignAlerts(op, ids, to)
        PROVE  IInv'
    <2> DEFINE f == [a \in Alerts |-> IF a \in ids /\ InScope(op, a)
                                      THEN Assigned(alerts[a], op, to)
                                      ELSE NoEffect(alerts[a])]
    <2>1. \A a \in Alerts : OK(a, f[a])
      BY <1>0, AssignedOK DEF InScope
    <2>2. Commit(f)
      BY <1>3 DEF AssignAlerts
    <2> HIDE DEF f
    <2>3. QED
      BY <2>1, <2>2, CommitOK
  <1>4. ASSUME NEW op \in Operators, NEW ids \in SUBSET Alerts, NEW on \in BOOLEAN,
               CloseAlerts(op, ids, on)
        PROVE  IInv'
    <2> DEFINE f == [a \in Alerts |-> IF a \in ids /\ InScope(op, a)
                                      THEN Closed(alerts[a], op, on)
                                      ELSE NoEffect(alerts[a])]
    <2>1. \A a \in Alerts : OK(a, f[a])
      BY <1>0, ClosedOK DEF InScope
    <2>2. Commit(f)
      BY <1>4 DEF CloseAlerts
    <2> HIDE DEF f
    <2>3. QED
      BY <2>1, <2>2, CommitOK
  <1>5. ASSUME NEW op \in Operators, NEW ids \in SUBSET Alerts, AddNotes(op, ids)
        PROVE  IInv'
    <2> DEFINE f == [a \in Alerts |-> IF a \in ids /\ InScope(op, a)
                                      THEN Noted(alerts[a], op)
                                      ELSE NoEffect(alerts[a])]
    <2>1. \A a \in Alerts : OK(a, f[a])
      BY <1>0, NotedOK DEF InScope
    <2>2. Commit(f)
      BY <1>5 DEF AddNotes
    <2> HIDE DEF f
    <2>3. QED
      BY <2>1, <2>2, CommitOK
  <1>6. ASSUME NEW skipped \in SUBSET Alerts, ExpireStaleAlerts(skipped)
        PROVE  IInv'
    <2> DEFINE f == [a \in Alerts |-> IF IsStale(a) /\ a \notin skipped
                                      THEN Expired(alerts[a])
                                      ELSE NoEffect(alerts[a])]
    <2>1. \A a \in Alerts : OK(a, f[a])
      <3>1. \A a \in Alerts : IsStale(a) => Exists(alerts[a])
        BY DEF IsStale, Exists
      <3>2. QED
        BY <1>0, <3>1, ExpiredOK
    <2>2. Commit(f)
      BY <1>6 DEF ExpireStaleAlerts
    <2> HIDE DEF f
    <2>3. QED
      BY <2>1, <2>2, CommitOK
  <1>7. ASSUME NEW s \in Sources, NEW live \in [Alerts -> Readings],
               NEW gone \in SUBSET Alerts, NEW skipped \in SUBSET Alerts,
               NEW listing \in Listings,
               ReconcileSource(s, live, gone, listing, skipped)
        PROVE  IInv'
    <2> DEFINE f == [a \in Alerts |->
                        IF SourceOf[a] = s
                        THEN Reconciled(alerts[a], live[a], a \in gone, listing,
                                        a \in skipped)
                        ELSE NoEffect(alerts[a])]
    <2>1. ASSUME NEW a \in Alerts
          PROVE  OK(a, f[a])
      <3>1. live[a] \in LiveState \cup {NotHeld}
        BY DEF Readings
      <3>2. (a \in gone) \in BOOLEAN /\ (a \in skipped) \in BOOLEAN
        OBVIOUS
      <3>3. RowOK(alerts[a], trail[a], shown[a], lastEvent[a])
        BY <1>0
      <3>4. OK(a, Reconciled(alerts[a], live[a], a \in gone, listing, a \in skipped))
        BY <3>1, <3>2, <3>3, ReconciledOK
      <3>5. QED
        BY <1>0, <3>4
    <2>2. Commit(f)
      BY <1>7 DEF ReconcileSource
    <2> HIDE DEF f
    <2>3. QED
      BY <2>1, <2>2, CommitOK
  <1>8. ASSUME Tick
        PROVE  IInv'
    <2>0. TypeOK
      BY DEF IInv
    <2> SUFFICES ASSUME NEW a \in Alerts
                 PROVE  RowOK(alerts'[a], trail'[a], shown'[a], lastEvent'[a])
      <3>1. /\ alerts' = [a \in Alerts |-> alerts'[a]]
            /\ trail' = [a \in Alerts |-> trail'[a]]
            /\ lastEvent' = [a \in Alerts |-> lastEvent'[a]]
        BY <1>8, <2>0 DEF Tick, TypeOK
      <3>2. QED
        BY <3>1, RowsType DEF IInv, RowsOK
    <2> DEFINE r == alerts[a]
               n == [r EXCEPT !.seen = Older(r.seen), !.vouched = Older(r.vouched)]
               x == Effect(n, NoEntry, NoEvent)
    <2>1. trail'[a] = trail[a] /\ shown'[a] = shown[a] /\ lastEvent'[a] = lastEvent[a]
      BY <1>8 DEF Tick
    <2>2. CASE ~Exists(r)
      BY <1>0, <1>8, <2>1, <2>2 DEF Tick
    <2>3. CASE Exists(r)
      <3>1. r \in Row
        BY <1>0, <2>3, OKTypes
      <3>2. Older(r.seen) \in Ages /\ Older(r.vouched) \in Ages
        BY <3>1 DEF Row, Ages, Older
      <3>3. OK(a, Effect(n, NoEntry, NoEvent))
        <4>1. OK(a, NoEffect(r)) /\ NoEffect(r).row = r
              /\ NoEffect(r).history = NoEntry /\ NoEffect(r).stream = NoEvent
          BY <1>0 DEF NoEffect, Effect
        <4> DEFINE y == NoEffect(r)
        <4> HIDE DEF y
        <4>2. EffectOK(trail[a], shown[a], lastEvent[a], y) /\ Exists(y.row)
          BY <2>3, <4>1 DEF y
        <4>3. EffectOK(trail[a], shown[a], lastEvent[a],
                 Effect([y.row EXCEPT !.seen = Older(r.seen), !.vouched = Older(r.vouched)],
                        y.history, y.stream))
          BY <3>2, <4>2, FreshnessOK
        <4>4. QED
          BY <4>1, <4>3 DEF y
      <3>4. alerts'[a] = n
        BY <1>8, <2>3 DEF Tick
      <3> HIDE DEF n
      <3>5. QED
        BY <2>1, <3>3, <3>4 DEF EffectOK, Effect, Replay
    <2>4. QED
      BY <2>2, <2>3
  <1>9. CASE UNCHANGED vars
    BY <1>9 DEF vars, IInv, TypeOK, RowsOK
  <1>10. QED
    BY <1>1, <1>2, <1>3, <1>4, <1>5, <1>6, <1>7, <1>8, <1>9 DEF Next


-----------------------------------------------------------------------------
(***************************************************************************)
(* What a step may do to one row, by effect.                               *)
(***************************************************************************)

\* Leaving the firing view is streamed as alert.resolved, and only a resolved
\* row that fires again starts an occurrence.
StepOK(r, q, ev) ==
    Exists(r) =>
       /\ InFiringView(r) /\ ~InFiringView(q) => ev = "alert.resolved"
       /\ IF r.status = "resolved" /\ q.status # "resolved"
          THEN q.status = "firing" /\ q.occurrence = r.occurrence + 1
          ELSE q.occurrence = r.occurrence

\* Every effect a transaction applies to a row is such a step.
LEMMA EffectsAreSteps ==
    ASSUME NEW r \in Row
    PROVE  /\ StepOK(r, NoEffect(r).row, NoEffect(r).stream)
           /\ \A d \in Delivery : StepOK(r, Ingested(r, d).row, Ingested(r, d).stream)
           /\ \A op \in Operators, on \in BOOLEAN :
                 /\ StepOK(r, Acknowledged(r, op, on).row, Acknowledged(r, op, on).stream)
                 /\ StepOK(r, Closed(r, op, on).row, Closed(r, op, on).stream)
           /\ \A op \in Operators, to \in Assignees \cup {NoOne} :
                 StepOK(r, Assigned(r, op, to).row, Assigned(r, op, to).stream)
           /\ \A op \in Operators : StepOK(r, Noted(r, op).row, Noted(r, op).stream)
           /\ r.status # "resolved" => StepOK(r, Expired(r).row, Expired(r).stream)
           /\ \A l, gone, listing, skipped :
                 StepOK(r, Reconciled(r, l, gone, listing, skipped).row,
                           Reconciled(r, l, gone, listing, skipped).stream)
  <1> USE DEF StepOK, InFiringView, NoEffect, Effect, SystemEffect
  <1>1. StepOK(r, NoEffect(r).row, NoEffect(r).stream)
    OBVIOUS
  <1>2. ASSUME NEW d \in Delivery
        PROVE  StepOK(r, Ingested(r, d).row, Ingested(r, d).stream)
    <2> DEFINE n == DeliveredRow(r, d)
    <2>1. /\ n.status = d.status
          /\ n.occurrence = IF Reopens(r, d) THEN r.occurrence + 1 ELSE r.occurrence
          /\ n.closedBy = IF UndoesClose(r, d) THEN NoOne ELSE r.closedBy
      BY DEF DeliveredRow, DeliveredWith, Unless
    <2>2. d.status \in {"firing", "resolved"}
      BY DEF Delivery
    <2>3. Ingested(r, d) =
            IF ~Exists(r) THEN Ingested(r, d)
            ELSE IF alertMateriallyChanged(r, d)
            THEN SystemEffect(n, IngestHistoryType(r, d),
                              IF IngestHistoryType(r, d) = "alert.resolved"
                              THEN "alert.resolved" ELSE "alert.updated")
            ELSE NoEffect(n)
      BY DEF Ingested
    <2> HIDE DEF n
    <2>4. CASE Exists(r)
      BY <2>1, <2>2, <2>3, <2>4
      DEF alertMateriallyChanged, IngestHistoryType, Reopens, UndoesClose, Row, Statuses
    <2>5. QED
      BY <2>4
  <1>3. ASSUME NEW op \in Operators, NEW on \in BOOLEAN
        PROVE  /\ StepOK(r, Acknowledged(r, op, on).row, Acknowledged(r, op, on).stream)
               /\ StepOK(r, Closed(r, op, on).row, Closed(r, op, on).stream)
    BY DEF Acknowledged, Closed, Row
  <1>4. ASSUME NEW op \in Operators, NEW to \in Assignees \cup {NoOne}
        PROVE  StepOK(r, Assigned(r, op, to).row, Assigned(r, op, to).stream)
    BY DEF Assigned, Row
  <1>5. ASSUME NEW op \in Operators
        PROVE  StepOK(r, Noted(r, op).row, Noted(r, op).stream)
    BY DEF Noted, Row
  <1>6. r.status # "resolved" => StepOK(r, Expired(r).row, Expired(r).stream)
    BY DEF Expired, Row
  <1>7. ASSUME NEW l, NEW gone, NEW listing, NEW skipped
        PROVE  StepOK(r, Reconciled(r, l, gone, listing, skipped).row,
                         Reconciled(r, l, gone, listing, skipped).stream)
    <2> DEFINE x == ReconciledRow(r, l, gone, listing, skipped)
    <2>1. StepOK(r, x.row, x.stream)
      BY DEF ReconciledRow, Revived, ReconciledAway, Released, SuppressionSynced, Row
    <2>2. QED
      BY <2>1 DEF Reconciled, Vouched
  <1>8. QED
    BY <1>1, <1>2, <1>3, <1>4, <1>5, <1>6, <1>7

-----------------------------------------------------------------------------
(***************************************************************************)
(* Theorems.                                                               *)
(***************************************************************************)

\* Every reachable table is well typed and every one of its rows is OK.
THEOREM Invariance == Spec => []IInv
  <1>1. Init => IInv
    BY InitOK
  <1>2. IInv /\ [Next]_vars => IInv'
    BY NextOK
  <1>3. QED
    BY <1>1, <1>2, PTL DEF Spec

\* The table, the replayed history and the event types keep their types
\* under every transaction of the store.
THEOREM TypeCorrect == Spec => []TypeOK
  <1>1. IInv => TypeOK
    BY DEF IInv
  <1>2. QED
    BY <1>1, Invariance, PTL

\* insertHistoryEvent is called for every change of status, occurrence,
\* acknowledgement, assignment, close and notes, with enough to replay it.
THEOREM HistoryComplete == Spec => []HistoryExplainsRow
  <1>1. IInv => HistoryExplainsRow
    BY DEF IInv, RowsOK, RowOK, HistoryExplainsRow
  <1>2. QED
    BY <1>1, Invariance, PTL

\* No acknowledgement, assignment or close survives a reopening by Ingest.
THEOREM JudgementsCurrent == Spec => []JudgementsOfThisOccurrence
  <1>1. IInv => JudgementsOfThisOccurrence
    BY DEF IInv, RowsOK, RowOK, JudgementsOfThisOccurrence
  <1>2. QED
    BY <1>1, Invariance, PTL

\* insertStreamEvent is called for every change a console renders.
THEOREM ChangesAnnounced == Spec => []ChangesAreAnnounced
  <1>1. IInv => ChangesAreAnnounced
    BY DEF IInv, RowsOK, RowOK, ChangesAreAnnounced
  <1>2. QED
    BY <1>1, Invariance, PTL

\* An alert whose latest stream event is alert.resolved is not in the firing
\* view.
THEOREM ResolvedEventsTruthful == Spec => []ResolvedEventMeansGone
  <1>1. IInv => ResolvedEventMeansGone
    BY DEF IInv, RowsOK, RowOK, ResolvedEventMeansGone
  <1>2. QED
    BY <1>1, Invariance, PTL

\* suppressed and silenced_by agree under every interleaving of ingestion and
\* reconciliation.
THEOREM SuppressionConsistent == Spec => []SilencesImplySuppressed
  <1>1. IInv => SilencesImplySuppressed
    BY DEF IInv, RowsOK, RowOK, SilencesImplySuppressed
  <1>2. QED
    BY <1>1, Invariance, PTL

\* The steps of every transaction, row by row.
LEMMA NextSteps ==
    ASSUME IInv, [Next]_vars, NEW a \in Alerts
    PROVE  StepOK(alerts[a], alerts'[a], lastEvent'[a])
  <1> DEFINE r == alerts[a]
             AppliedTo(x) == /\ alerts'[a] = x.row
                           /\ lastEvent'[a] = IF x.stream = NoEvent THEN lastEvent[a]
                                              ELSE x.stream
  <1>1. CASE ~Exists(r)
    BY <1>1 DEF StepOK
  <1>2. CASE Exists(r)
    <2>1. r \in Row
      BY <1>2, OKTypes DEF IInv, RowsOK
    <2>2. CASE \E x : AppliedTo(x) /\ StepOK(r, x.row, x.stream)
      BY <2>2 DEF StepOK, NoEvent
    <2>3. CASE alerts'[a].status = r.status /\ alerts'[a].closedBy = r.closedBy
               /\ alerts'[a].occurrence = r.occurrence
      BY <2>3 DEF StepOK, InFiringView
    <2>4. CASE UNCHANGED vars \/ Tick
      BY <2>1, <2>3, <2>4 DEF vars, Tick, Row
    <2>5. CASE Next /\ ~Tick
      <3>1. PICK f : Commit(f) /\ StepOK(r, f[a].row, f[a].stream)
        <4> HIDE DEF r
        <4>1. ASSUME NEW batch \in SUBSET Alerts, NEW d \in [Alerts -> Delivery],
                     Ingest(batch, d)
              PROVE  \E f : Commit(f) /\ StepOK(r, f[a].row, f[a].stream)
          BY <2>1, <4>1, EffectsAreSteps DEF Ingest, r
        <4>2. ASSUME NEW op \in Operators, NEW ids \in SUBSET Alerts, NEW on \in BOOLEAN,
                     AcknowledgeAlerts(op, ids, on) \/ CloseAlerts(op, ids, on)
              PROVE  \E f : Commit(f) /\ StepOK(r, f[a].row, f[a].stream)
          BY <2>1, <4>2, EffectsAreSteps DEF AcknowledgeAlerts, CloseAlerts, r
        <4>3. ASSUME NEW op \in Operators, NEW ids \in SUBSET Alerts,
                     NEW to \in Assignees \cup {NoOne}, AssignAlerts(op, ids, to)
              PROVE  \E f : Commit(f) /\ StepOK(r, f[a].row, f[a].stream)
          BY <2>1, <4>3, EffectsAreSteps DEF AssignAlerts, r
        <4>4. ASSUME NEW op \in Operators, NEW ids \in SUBSET Alerts, AddNotes(op, ids)
              PROVE  \E f : Commit(f) /\ StepOK(r, f[a].row, f[a].stream)
          BY <2>1, <4>4, EffectsAreSteps DEF AddNotes, r
        <4>5. ASSUME NEW skipped \in SUBSET Alerts, ExpireStaleAlerts(skipped)
              PROVE  \E f : Commit(f) /\ StepOK(r, f[a].row, f[a].stream)
          BY <2>1, <4>5, EffectsAreSteps DEF ExpireStaleAlerts, IsStale, r
        <4>6. ASSUME NEW s \in Sources, NEW live \in [Alerts -> Readings],
                     NEW gone \in SUBSET Alerts, NEW skipped \in SUBSET Alerts,
                     NEW listing \in Listings,
                     ReconcileSource(s, live, gone, listing, skipped)
              PROVE  \E f : Commit(f) /\ StepOK(r, f[a].row, f[a].stream)
          BY <2>1, <4>6, EffectsAreSteps DEF ReconcileSource, r
        <4>7. QED
          BY <2>5, <4>1, <4>2, <4>3, <4>4, <4>5, <4>6 DEF Next
      <3>2. AppliedTo(f[a])
        BY <3>1 DEF Commit
      <3>3. QED
        BY <2>2, <3>1, <3>2
    <2>6. QED
      BY <2>4, <2>5
  <1>3. QED
    BY <1>1, <1>2

\* Whatever takes an alert out of the firing view is streamed as
\* alert.resolved.
THEOREM LeavingStreamed == Spec => LeavingIsStreamedAsResolved
  <1>1. IInv /\ [Next]_vars =>
           [\A a \in Alerts :
              Exists(alerts[a]) /\ InFiringView(alerts[a]) /\ ~InFiringView(alerts'[a])
                  => lastEvent'[a] = "alert.resolved"]_vars
    BY NextSteps DEF StepOK
  <1>2. QED
    BY <1>1, Invariance, PTL DEF Spec, LeavingIsStreamedAsResolved

\* Only a firing delivery to a resolved alert starts an occurrence, and a
\* resolved alert changes status in no other way.
THEOREM OccurrencesStartByReopening == Spec => ResolvedOnlyReopens
  <1>1. IInv /\ [Next]_vars =>
           [\A a \in Alerts : Exists(alerts[a]) =>
              LET r == alerts[a]
                  q == alerts'[a]
              IN  IF r.status = "resolved" /\ q.status # "resolved"
                  THEN q.status = "firing" /\ q.occurrence = r.occurrence + 1
                  ELSE q.occurrence = r.occurrence]_vars
    BY NextSteps DEF StepOK
  <1>2. QED
    BY <1>1, Invariance, PTL DEF Spec, ResolvedOnlyReopens

-----------------------------------------------------------------------------
(***************************************************************************)
(* The loops that call ReconcileSource (Reconciler).                       *)
(*                                                                         *)
(* ReconInv is inductive: MissesOK ties the in-memory counters to the      *)
(* readings they were counted from, WaitingOK keeps the refresher's        *)
(* countdown from going below zero.                                        *)
(***************************************************************************)
USE ReconcilerConstants

\* What one reading can say of an alert it lists.
Reported == [suppressed: BOOLEAN, silencedBy: SUBSET Silences]

\* ReconcilerTypeOK in parts.
SourceType ==
    /\ held \in SUBSET Alerts
    /\ active \in SUBSET Silences
    /\ mail \in SUBSET Mail
    /\ changes \in 0..MaxChanges
    /\ restarts \in 0..MaxRestarts
    /\ queue \in 0..QueueCap

PassType == [phase: {"idle", "live", "stored", "listed"}, live: Reading,
             stored: SUBSET Alerts, listing: Listings]

RefreshType == [phase: {"idle", "waiting", "live", "listed"}, left: 0..2,
                live: Reading, listing: Listings]

CounterType ==
    /\ misses \in [Alerts -> 0..2]
    /\ previous \in SUBSET Alerts

TableType == rows \in [Alerts -> Row \cup {Absent}]

ReconTypes ==
    /\ SourceType /\ CounterType /\ TableType
    /\ pass \in PassType /\ refresh \in RefreshType

\* A refresh waits only while it has a read to go.
WaitingOK == refresh.phase = "waiting" => refresh.left # 0

\* A counter counts the readings in a row that omitted an alert, so one that
\* is up was raised by the last reading counted.
MissesOK == \A a \in Alerts : misses[a] > 0 => a \in previous

ReconInv == ReconTypes /\ WaitingOK /\ MissesOK

-----------------------------------------------------------------------------
(***************************************************************************)
(* What a reading makes of a row and of the table.                         *)
(***************************************************************************)
\* A reading lists an alert with its suppression, or does not list it.
LEMMA LiveInType ==
    ASSUME NEW reading \in Reading, NEW a
    PROVE  LiveIn(reading, a) \in Reported \cup {NotHeld}
  <1> DEFINE by == {s \in reading.active : a \in Covers[s]}
  <1>1. by \in SUBSET Silences
    BY DEF Reading
  <1>2. [suppressed |-> by # {}, silencedBy |-> by] \in Reported
    BY <1>1 DEF Reported
  <1>3. QED
    BY <1>2 DEF LiveIn

\* Writing the suppression columns keeps a row a row, in its status.
LEMMA SuppressionWritten ==
    ASSUME NEW r \in Row, NEW l \in Reported, NEW e,
           e = [r EXCEPT !.suppressed = l.suppressed, !.silencedBy = l.silencedBy]
    PROVE  e \in Row /\ e.status = r.status
  BY DEF Row, Reported

\* Writing the status with them keeps a row a row.
LEMMA StatusWritten ==
    ASSUME NEW r \in Row, NEW l \in Reported, NEW status \in Statuses, NEW e,
           e = [r EXCEPT !.status = status, !.suppressed = l.suppressed,
                         !.silencedBy = l.silencedBy]
    PROVE  e \in Row
  BY DEF Row, Reported

\* An alert that is resolved or released is under no silence.
LEMMA Unsuppressed ==
    \E l \in Reported : l.suppressed = FALSE /\ l.silencedBy = {}
  <1>1. [suppressed |-> FALSE, silencedBy |-> {}] \in Reported
    BY DEF Reported
  <1>2. QED
    BY <1>1

\* Vouching for a row changes no status.
LEMMA VouchedType ==
    ASSUME NEW r \in Row \cup {Absent}
    PROVE  /\ Vouched(r) \in Row \cup {Absent}
           /\ Vouched(r).status = r.status
  <1>1. CASE r.status = "firing"
    <2>1. r \in Row /\ 0 \in Ages
      BY <1>1 DEF Absent, Ages
    <2>2. /\ [r EXCEPT !.vouched = 0] \in Row
          /\ [r EXCEPT !.vouched = 0].status = r.status
      BY <2>1 DEF Row
    <2>3. QED
      BY <1>1, <2>2 DEF Vouched
  <1>2. CASE r.status # "firing"
    BY <1>2 DEF Vouched
  <1>3. QED
    BY <1>1, <1>2

\* ReconcileSource leaves a row, and a firing one firing unless it is missing.
LEMMA ReconciledRowType ==
    ASSUME NEW r \in Row \cup {Absent},
           NEW l \in Reported \cup {NotHeld},
           NEW gone \in BOOLEAN, NEW listing, NEW skipped \in BOOLEAN
    PROVE  LET e == ReconciledRow(r, l, gone, listing, skipped).row
           IN  /\ e \in Row \cup {Absent}
               /\ r.status = "firing" /\ ~gone => e.status = "firing"
  <1> DEFINE x == ReconciledRow(r, l, gone, listing, skipped)
             e == x.row
  <1>1. CASE skipped \/ r.status \notin {"firing", "expired"}
    <2>1. e = r
      BY <1>1 DEF ReconciledRow, NoEffect, Effect
    <2>2. QED
      BY <2>1
  <1>2. CASE ~skipped /\ r.status = "expired"
    <2>1. r \in Row
      BY <1>2 DEF Absent
    <2>2. CASE l = NotHeld
      <3>1. e = r
        BY <1>2, <2>2 DEF ReconciledRow, NoEffect, Effect
      <3>2. QED
        BY <1>2, <3>1
    <2>3. CASE l # NotHeld
      <3>1. e = [r EXCEPT !.status = "firing", !.suppressed = l.suppressed,
                          !.silencedBy = l.silencedBy]
        BY <1>2, <2>3 DEF ReconciledRow, Revived, SystemEffect, Effect
      <3>2. l \in Reported /\ "firing" \in Statuses
        BY <2>3 DEF Statuses
      <3>3. e \in Row
        BY <2>1, <3>1, <3>2, StatusWritten
      <3>4. QED
        BY <1>2, <3>3
    <2>4. QED
      BY <2>2, <2>3
  <1>3. CASE ~skipped /\ r.status = "firing" /\ gone
    <2>1. r \in Row
      BY <1>3 DEF Absent
    <2>2. e = [r EXCEPT !.status = "resolved", !.suppressed = FALSE, !.silencedBy = {}]
      BY <1>3 DEF ReconciledRow, ReconciledAway, SystemEffect, Effect
    <2>3. PICK k \in Reported : k.suppressed = FALSE /\ k.silencedBy = {}
      BY Unsuppressed
    <2>4. e = [r EXCEPT !.status = "resolved", !.suppressed = k.suppressed,
                        !.silencedBy = k.silencedBy]
      BY <2>2, <2>3
    <2>5. e \in Row
      BY <2>1, <2>4, StatusWritten DEF Statuses
    <2>6. QED
      BY <1>3, <2>5
  <1>4. CASE ~skipped /\ r.status = "firing" /\ ~gone
    <2>1. r \in Row
      BY <1>4 DEF Absent
    <2>2. CASE l = NotHeld
      <3>1. \/ e = r
            \/ e = [r EXCEPT !.suppressed = FALSE, !.silencedBy = {}]
        BY <1>4, <2>2 DEF ReconciledRow, Released, NoEffect, Effect
      <3>2. PICK k \in Reported : k.suppressed = FALSE /\ k.silencedBy = {}
        BY Unsuppressed
      <3>3. \/ e = r
            \/ e = [r EXCEPT !.suppressed = k.suppressed, !.silencedBy = k.silencedBy]
        BY <3>1, <3>2
      <3>4. e \in Row /\ e.status = r.status
        BY <2>1, <3>3, SuppressionWritten
      <3>5. QED
        BY <1>4, <3>4
    <2>3. CASE l # NotHeld
      <3>1. e = [r EXCEPT !.suppressed = l.suppressed, !.silencedBy = l.silencedBy]
        BY <1>4, <2>3 DEF ReconciledRow, SuppressionSynced, Effect
      <3>2. l \in Reported
        BY <2>3
      <3>3. e \in Row /\ e.status = r.status
        BY <2>1, <3>1, <3>2, SuppressionWritten
      <3>4. QED
        BY <1>4, <3>3
    <2>4. QED
      BY <2>2, <2>3
  <1>5. QED
    BY <1>1, <1>2, <1>3, <1>4

\* So it does with the closing update of reconciled_at.
LEMMA ReconciledType ==
    ASSUME NEW r \in Row \cup {Absent},
           NEW l \in Reported \cup {NotHeld},
           NEW gone \in BOOLEAN, NEW listing, NEW skipped \in BOOLEAN
    PROVE  /\ Reconciled(r, l, gone, listing, skipped).row
                 \in Row \cup {Absent}
           /\ r.status = "firing" /\ ~gone =>
                 Reconciled(r, l, gone, listing, skipped).row.status = "firing"
  <1> DEFINE x == ReconciledRow(r, l, gone, listing, skipped).row
             e == Reconciled(r, l, gone, listing, skipped).row
  <1>1. /\ x \in Row \cup {Absent}
        /\ r.status = "firing" /\ ~gone => x.status = "firing"
    BY ReconciledRowType
  <1>2. e = x \/ e = Vouched(x)
    BY DEF Reconciled, Effect
  <1>3. QED
    BY <1>1, <1>2, VouchedType

\* A delivery leaves a row.
LEMMA IngestedType ==
    ASSUME NEW r \in Row \cup {Absent}, NEW d \in Delivery
    PROVE  Ingested(r, d).row \in Row
  <1>1. CASE ~Exists(r)
    <2>1. Ingested(r, d).row = InsertedRow(d)
      BY <1>1 DEF Ingested, SystemEffect, Effect
    <2>2. InsertedRow(d) \in Row
      BY DEF InsertedRow, Row, Delivery, Statuses, Ages
    <2>3. QED
      BY <2>1, <2>2
  <1>2. CASE Exists(r)
    <2>1. r \in Row
      BY <1>2 DEF Exists, Absent
    <2>2. Ingested(r, d).row = DeliveredRow(r, d)
      BY <1>2 DEF Ingested, SystemEffect, NoEffect, Effect
    <2>3. DeliveredRow(r, d) \in Row
      BY <2>1 DEF DeliveredRow, DeliveredWith, Unless, Row,
                  Delivery, Statuses, Ages
    <2>4. QED
      BY <2>2, <2>3
  <1>3. QED
    BY <1>1, <1>2

\* The table after a reading is applied: no row outside the missing set is
\* resolved.
LEMMA AppliedRows ==
    ASSUME TableType, NEW reading \in Reading, NEW gone \in SUBSET Alerts,
           NEW listing, NEW skipped \in SUBSET Alerts,
           NEW after, after = Applied(reading, gone, listing, skipped)
    PROVE  /\ after \in [Alerts -> Row \cup {Absent}]
           /\ \A a \in Alerts \ gone :
                 rows[a].status = "firing" => after[a].status = "firing"
  <1>1. after = [a \in Alerts |->
                   Reconciled(rows[a], LiveIn(reading, a), a \in gone,
                                    listing, a \in skipped).row]
    BY DEF Applied
  <1>2. ASSUME NEW a \in Alerts
        PROVE  /\ after[a] \in Row \cup {Absent}
               /\ a \notin gone /\ rows[a].status = "firing"
                     => after[a].status = "firing"
    <2>1. (a \in gone) \in BOOLEAN /\ (a \in skipped) \in BOOLEAN
      OBVIOUS
    <2>2. LiveIn(reading, a) \in Reported \cup {NotHeld}
      BY LiveInType
    <2>3. rows[a] \in Row \cup {Absent}
      BY DEF TableType
    <2>4. after[a] = Reconciled(rows[a], LiveIn(reading, a), a \in gone,
                                      listing, a \in skipped).row
      BY <1>1
    <2>5. PICK r \in Row \cup {Absent}, l \in Reported \cup {NotHeld} :
             r = rows[a] /\ l = LiveIn(reading, a)
      BY <2>2, <2>3
    <2>6. \A m \in BOOLEAN, k \in BOOLEAN :
             /\ Reconciled(r, l, m, listing, k).row \in Row \cup {Absent}
             /\ r.status = "firing" /\ ~m =>
                   Reconciled(r, l, m, listing, k).row.status = "firing"
      BY ReconciledType
    <2>7. after[a] = Reconciled(r, l, a \in gone, listing, a \in skipped).row
      BY <2>4, <2>5
    <2>8. QED
      BY <2>1, <2>5, <2>6, <2>7
  <1>3. QED
    BY <1>1, <1>2

\* The parts are the type invariant.
LEMMA TypeParts ==
    ReconcilerTypeOK <=> /\ SourceType /\ CounterType /\ TableType
                     /\ pass \in PassType /\ refresh \in RefreshType
  BY DEF ReconcilerTypeOK, SourceType, CounterType, TableType, PassType, RefreshType,
         missesBeforeResolving, refreshReads

-----------------------------------------------------------------------------
(***************************************************************************)
(* Every step preserves every part.                                        *)
(***************************************************************************)
\* Alertmanager, mail, bounds and the refresher's channel keep their types.
LEMMA SourceStep ==
    ASSUME SourceType, ReconcilerNext
    PROVE  SourceType'
  <1> USE DEF SourceType, source
  <1>0. MaxChanges \in Nat /\ MaxRestarts \in Nat /\ QueueCap \in Nat
    OBVIOUS
  <1>1. ASSUME NEW b \in Alerts, AlertFires(b)
        PROVE  SourceType'
    BY <1>1, <1>0 DEF AlertFires, Change, Mail
  <1>2. ASSUME NEW b \in Alerts, AlertEnds(b)
        PROVE  SourceType'
    BY <1>2, <1>0 DEF AlertEnds, Change, Mail
  <1>3. CASE AlertmanagerRestarts
    BY <1>3, <1>0 DEF AlertmanagerRestarts, Change
  <1>4. ASSUME NEW m \in Mail, WebhookLost(m)
        PROVE  SourceType'
    BY <1>4, <1>0 DEF WebhookLost
  <1>5. ASSUME NEW m \in Mail, WebhookDelivered(m)
        PROVE  SourceType'
    BY <1>5, <1>0 DEF WebhookDelivered
  <1>6. ASSUME NEW s \in Silences, WriteSilence(s)
        PROVE  SourceType'
    BY <1>6, <1>0 DEF WriteSilence, Change, refreshURL
  <1>7. ASSUME NEW s \in Silences, SilenceChangesUnannounced(s)
        PROVE  SourceType'
    BY <1>7, <1>0 DEF SilenceChangesUnannounced, Change
  <1>8. CASE PassFindsSourceDisabled
    BY <1>8, <1>0 DEF PassFindsSourceDisabled
  <1>9. CASE PassReadsLive
    BY <1>9, <1>0 DEF PassReadsLive
  <1>10. CASE PassReadsStored
    BY <1>10, <1>0 DEF PassReadsStored
  <1>11. CASE PassAbandoned
    BY <1>11, <1>0 DEF PassAbandoned
  <1>12. ASSUME NEW listing \in Listings, PassListsSilences(listing)
        PROVE  SourceType'
    BY <1>12, <1>0 DEF PassListsSilences
  <1>13. ASSUME NEW skipped \in SUBSET Alerts, PassReconciles(skipped)
        PROVE  SourceType'
    BY <1>13, <1>0 DEF PassReconciles
  <1>14. CASE PassFails
    BY <1>14, <1>0 DEF PassFails
  <1>15. CASE RefreshClaimed
    BY <1>15, <1>0 DEF RefreshClaimed
  <1>16. CASE RefreshReadsLive
    BY <1>16, <1>0 DEF RefreshReadsLive
  <1>17. CASE RefreshUnreadable
    BY <1>17, <1>0 DEF RefreshUnreadable
  <1>18. CASE RefreshAbandoned
    BY <1>18, <1>0 DEF RefreshAbandoned
  <1>19. ASSUME NEW listing \in Listings, RefreshListsSilences(listing)
        PROVE  SourceType'
    BY <1>19, <1>0 DEF RefreshListsSilences
  <1>20. ASSUME NEW skipped \in SUBSET Alerts, RefreshReconciles(skipped)
        PROVE  SourceType'
    BY <1>20, <1>0 DEF RefreshReconciles
  <1>21. CASE RefreshFails
    BY <1>21, <1>0 DEF RefreshFails
  <1>22. CASE Restart
    BY <1>22, <1>0 DEF Restart
  <1>23. QED
    BY <1>1, <1>2, <1>3, <1>4, <1>5, <1>6, <1>7, <1>8, <1>9, <1>10, <1>11,
       <1>12, <1>13, <1>14, <1>15, <1>16, <1>17, <1>18, <1>19, <1>20, <1>21,
       <1>22
         DEF ReconcilerNext

\* Deliveries, passes and refreshes leave a table of rows.
LEMMA TableStep ==
    ASSUME ReconTypes, ReconcilerNext
    PROVE  TableType'
  <1> USE DEF TableType
  <1>0. TableType /\ pass \in PassType /\ refresh \in RefreshType
    BY DEF ReconTypes
  <1>1. ASSUME NEW b \in Alerts, AlertFires(b)
        PROVE  TableType'
    BY <1>1, <1>0 DEF AlertFires, Change
  <1>2. ASSUME NEW b \in Alerts, AlertEnds(b)
        PROVE  TableType'
    BY <1>2, <1>0 DEF AlertEnds, Change
  <1>3. CASE AlertmanagerRestarts
    BY <1>3, <1>0 DEF AlertmanagerRestarts, Change
  <1>4. ASSUME NEW m \in Mail, WebhookLost(m)
        PROVE  TableType'
    BY <1>4, <1>0 DEF WebhookLost
  <1>5. ASSUME NEW m \in Mail, WebhookDelivered(m)
        PROVE  TableType'
    <2> DEFINE a == m[1]
               d == [status |-> m[2], labels |-> CHOOSE l \in Labels : TRUE,
                     annotations |-> CHOOSE n \in Annotations : TRUE]
    <2>1. a \in Alerts /\ m[2] \in {"firing", "resolved"}
      BY DEF Mail
    <2>2. /\ (CHOOSE l \in Labels : TRUE) \in Labels
          /\ (CHOOSE n \in Annotations : TRUE) \in Annotations
      OBVIOUS
    <2>3. d \in Delivery
      BY <2>1, <2>2 DEF Delivery
    <2>4. rows' = [rows EXCEPT ![a] = Ingested(rows[a], d).row]
      BY <1>5 DEF WebhookDelivered
    <2> HIDE DEF a, d
    <2>5. Ingested(rows[a], d).row \in Row
      BY <1>0, <2>1, <2>3, IngestedType
    <2>6. QED
      BY <1>0, <2>1, <2>4, <2>5
  <1>6. ASSUME NEW s \in Silences, WriteSilence(s)
        PROVE  TableType'
    BY <1>6, <1>0 DEF WriteSilence, Change
  <1>7. ASSUME NEW s \in Silences, SilenceChangesUnannounced(s)
        PROVE  TableType'
    BY <1>7, <1>0 DEF SilenceChangesUnannounced, Change
  <1>8. CASE PassFindsSourceDisabled
    BY <1>8, <1>0 DEF PassFindsSourceDisabled
  <1>9. CASE PassReadsLive
    BY <1>9, <1>0 DEF PassReadsLive
  <1>10. CASE PassReadsStored
    BY <1>10, <1>0 DEF PassReadsStored
  <1>11. CASE PassAbandoned
    BY <1>11, <1>0 DEF PassAbandoned
  <1>12. ASSUME NEW listing \in Listings, PassListsSilences(listing)
        PROVE  TableType'
    BY <1>12, <1>0 DEF PassListsSilences
  <1>13. ASSUME NEW skipped \in SUBSET Alerts, PassReconciles(skipped)
        PROVE  TableType'
    <2>1. pass.live \in Reading /\ missing \subseteq Alerts
      BY <1>0 DEF PassType, missing
    <2>2. rows' = Applied(pass.live, missing, pass.listing, skipped)
      BY <1>13 DEF PassReconciles
    <2>3. QED
      BY <1>0, <2>1, <2>2, AppliedRows
  <1>14. CASE PassFails
    BY <1>14, <1>0 DEF PassFails
  <1>15. CASE RefreshClaimed
    BY <1>15, <1>0 DEF RefreshClaimed
  <1>16. CASE RefreshReadsLive
    BY <1>16, <1>0 DEF RefreshReadsLive
  <1>17. CASE RefreshUnreadable
    BY <1>17, <1>0 DEF RefreshUnreadable
  <1>18. CASE RefreshAbandoned
    BY <1>18, <1>0 DEF RefreshAbandoned
  <1>19. ASSUME NEW listing \in Listings, RefreshListsSilences(listing)
        PROVE  TableType'
    BY <1>19, <1>0 DEF RefreshListsSilences
  <1>20. ASSUME NEW skipped \in SUBSET Alerts, RefreshReconciles(skipped)
        PROVE  TableType'
    <2>1. refresh.live \in Reading
      BY <1>0 DEF RefreshType
    <2>2. rows' = Applied(refresh.live, {}, refresh.listing, skipped)
      BY <1>20 DEF RefreshReconciles
    <2>3. QED
      BY <1>0, <2>1, <2>2, AppliedRows
  <1>21. CASE RefreshFails
    BY <1>21, <1>0 DEF RefreshFails
  <1>22. CASE Restart
    BY <1>22, <1>0 DEF Restart
  <1>23. QED
    BY <1>1, <1>2, <1>3, <1>4, <1>5, <1>6, <1>7, <1>8, <1>9, <1>10, <1>11,
       <1>12, <1>13, <1>14, <1>15, <1>16, <1>17, <1>18, <1>19, <1>20, <1>21,
       <1>22
         DEF ReconcilerNext

\* A counter that a pass leaves up belongs to an alert its reading omitted,
\* and one at the threshold was up before.
LEMMA CountedType ==
    ASSUME CounterType, pass \in PassType, NEW a \in Alerts
    PROVE  /\ Counted(a) \in 0..2
           /\ Counted(a) > 0 => a \in Omitted
           /\ Counted(a) >= 2 => misses[a] > 0
           /\ Kept(a) \in 0..2
           /\ Kept(a) > 0 => a \in Omitted
  <1>1. misses[a] \in 0..2
    BY DEF CounterType
  <1>2. /\ Counted(a) \in 0..2
        /\ Counted(a) > 0 => a \in Omitted
        /\ Counted(a) >= 2 => misses[a] > 0
    BY <1>1 DEF Counted, Omitted, missesBeforeResolving
  <1>3. Kept(a) \in {0, Counted(a)}
    BY DEF Kept
  <1>4. QED
    BY <1>2, <1>3

\* Counters and the last counted reading move together, through failed
\* transactions, disabled sources and restarts.
LEMMA CounterStep ==
    ASSUME ReconTypes, MissesOK, ReconcilerNext
    PROVE  CounterType' /\ MissesOK'
  <1> USE DEF CounterType, MissesOK
  <1>0. CounterType /\ pass \in PassType
    BY DEF ReconTypes
  <1>1. ASSUME NEW b \in Alerts, AlertFires(b)
        PROVE  CounterType' /\ MissesOK'
    BY <1>1, <1>0 DEF AlertFires, Change
  <1>2. ASSUME NEW b \in Alerts, AlertEnds(b)
        PROVE  CounterType' /\ MissesOK'
    BY <1>2, <1>0 DEF AlertEnds, Change
  <1>3. CASE AlertmanagerRestarts
    BY <1>3, <1>0 DEF AlertmanagerRestarts, Change
  <1>4. ASSUME NEW m \in Mail, WebhookLost(m)
        PROVE  CounterType' /\ MissesOK'
    BY <1>4, <1>0 DEF WebhookLost
  <1>5. ASSUME NEW m \in Mail, WebhookDelivered(m)
        PROVE  CounterType' /\ MissesOK'
    BY <1>5, <1>0 DEF WebhookDelivered
  <1>6. ASSUME NEW s \in Silences, WriteSilence(s)
        PROVE  CounterType' /\ MissesOK'
    BY <1>6, <1>0 DEF WriteSilence, Change
  <1>7. ASSUME NEW s \in Silences, SilenceChangesUnannounced(s)
        PROVE  CounterType' /\ MissesOK'
    BY <1>7, <1>0 DEF SilenceChangesUnannounced, Change
  <1>8. CASE PassFindsSourceDisabled
    BY <1>8, <1>0 DEF PassFindsSourceDisabled
  <1>9. CASE PassReadsLive
    BY <1>9, <1>0 DEF PassReadsLive
  <1>10. CASE PassReadsStored
    BY <1>10, <1>0 DEF PassReadsStored
  <1>11. CASE PassAbandoned
    BY <1>11, <1>0 DEF PassAbandoned
  <1>12. ASSUME NEW listing \in Listings, PassListsSilences(listing)
        PROVE  CounterType' /\ MissesOK'
    BY <1>12, <1>0 DEF PassListsSilences
  <1>13. ASSUME NEW skipped \in SUBSET Alerts, PassReconciles(skipped)
        PROVE  CounterType' /\ MissesOK'
    <2>1. Omitted \subseteq Alerts
      BY <1>0 DEF PassType, Omitted
    <2>2. misses' = [a \in Alerts |-> Kept(a)] /\ previous' = Omitted
      BY <1>13 DEF PassReconciles
    <2>3. \A a \in Alerts : /\ Kept(a) \in 0..2
                            /\ Kept(a) > 0 => a \in Omitted
      BY <1>0, CountedType
    <2>4. QED
      BY <2>1, <2>2, <2>3
  <1>14. CASE PassFails
    <2>1. Omitted \subseteq Alerts
      BY <1>0 DEF PassType, Omitted
    <2>2. misses' = [a \in Alerts |-> Counted(a)] /\ previous' = Omitted
      BY <1>14 DEF PassFails
    <2>3. \A a \in Alerts : /\ Counted(a) \in 0..2
                            /\ Counted(a) > 0 => a \in Omitted
      BY <1>0, CountedType
    <2>4. QED
      BY <2>1, <2>2, <2>3
  <1>15. CASE RefreshClaimed
    BY <1>15, <1>0 DEF RefreshClaimed
  <1>16. CASE RefreshReadsLive
    BY <1>16, <1>0 DEF RefreshReadsLive
  <1>17. CASE RefreshUnreadable
    BY <1>17, <1>0 DEF RefreshUnreadable
  <1>18. CASE RefreshAbandoned
    BY <1>18, <1>0 DEF RefreshAbandoned
  <1>19. ASSUME NEW listing \in Listings, RefreshListsSilences(listing)
        PROVE  CounterType' /\ MissesOK'
    BY <1>19, <1>0 DEF RefreshListsSilences
  <1>20. ASSUME NEW skipped \in SUBSET Alerts, RefreshReconciles(skipped)
        PROVE  CounterType' /\ MissesOK'
    BY <1>20, <1>0 DEF RefreshReconciles
  <1>21. CASE RefreshFails
    BY <1>21, <1>0 DEF RefreshFails
  <1>22. CASE Restart
    BY <1>22, <1>0 DEF Restart
  <1>23. QED
    BY <1>1, <1>2, <1>3, <1>4, <1>5, <1>6, <1>7, <1>8, <1>9, <1>10, <1>11,
       <1>12, <1>13, <1>14, <1>15, <1>16, <1>17, <1>18, <1>19, <1>20, <1>21,
       <1>22
         DEF ReconcilerNext

\* A pass holds readings of the source and of the table.
LEMMA PassStep ==
    ASSUME ReconTypes, ReconcilerNext
    PROVE  (pass \in PassType)'
  <1>0. /\ pass \in PassType /\ Now \in Reading
        /\ Firing \in SUBSET Alerts
    BY DEF ReconTypes, SourceType, Now, Reading, Firing
  <1> USE DEF PassType
  <1>1. ASSUME NEW b \in Alerts, AlertFires(b)
        PROVE  (pass \in PassType)'
    BY <1>1, <1>0 DEF AlertFires, Change
  <1>2. ASSUME NEW b \in Alerts, AlertEnds(b)
        PROVE  (pass \in PassType)'
    BY <1>2, <1>0 DEF AlertEnds, Change
  <1>3. CASE AlertmanagerRestarts
    BY <1>3, <1>0 DEF AlertmanagerRestarts, Change
  <1>4. ASSUME NEW m \in Mail, WebhookLost(m)
        PROVE  (pass \in PassType)'
    BY <1>4, <1>0 DEF WebhookLost
  <1>5. ASSUME NEW m \in Mail, WebhookDelivered(m)
        PROVE  (pass \in PassType)'
    BY <1>5, <1>0 DEF WebhookDelivered
  <1>6. ASSUME NEW s \in Silences, WriteSilence(s)
        PROVE  (pass \in PassType)'
    BY <1>6, <1>0 DEF WriteSilence, Change
  <1>7. ASSUME NEW s \in Silences, SilenceChangesUnannounced(s)
        PROVE  (pass \in PassType)'
    BY <1>7, <1>0 DEF SilenceChangesUnannounced, Change
  <1>8. CASE PassFindsSourceDisabled
    BY <1>8, <1>0 DEF PassFindsSourceDisabled
  <1>9. CASE PassReadsLive
    BY <1>9, <1>0 DEF PassReadsLive
  <1>10. CASE PassReadsStored
    BY <1>10, <1>0 DEF PassReadsStored
  <1>11. CASE PassAbandoned
    <2>1. IdlePass \in PassType
      BY DEF IdlePass, Empty, Reading, Listings
    <2>2. QED
      BY <1>11, <2>1 DEF PassAbandoned
  <1>12. ASSUME NEW listing \in Listings, PassListsSilences(listing)
        PROVE  (pass \in PassType)'
    BY <1>12, <1>0 DEF PassListsSilences
  <1>13. ASSUME NEW skipped \in SUBSET Alerts, PassReconciles(skipped)
        PROVE  (pass \in PassType)'
    <2>1. IdlePass \in PassType
      BY DEF IdlePass, Empty, Reading, Listings
    <2>2. QED
      BY <1>13, <2>1 DEF PassReconciles
  <1>14. CASE PassFails
    <2>1. IdlePass \in PassType
      BY DEF IdlePass, Empty, Reading, Listings
    <2>2. QED
      BY <1>14, <2>1 DEF PassFails
  <1>15. CASE RefreshClaimed
    BY <1>15, <1>0 DEF RefreshClaimed
  <1>16. CASE RefreshReadsLive
    BY <1>16, <1>0 DEF RefreshReadsLive
  <1>17. CASE RefreshUnreadable
    BY <1>17, <1>0 DEF RefreshUnreadable
  <1>18. CASE RefreshAbandoned
    BY <1>18, <1>0 DEF RefreshAbandoned
  <1>19. ASSUME NEW listing \in Listings, RefreshListsSilences(listing)
        PROVE  (pass \in PassType)'
    BY <1>19, <1>0 DEF RefreshListsSilences
  <1>20. ASSUME NEW skipped \in SUBSET Alerts, RefreshReconciles(skipped)
        PROVE  (pass \in PassType)'
    BY <1>20, <1>0 DEF RefreshReconciles
  <1>21. CASE RefreshFails
    BY <1>21, <1>0 DEF RefreshFails
  <1>22. CASE Restart
    <2>1. IdlePass \in PassType
      BY DEF IdlePass, Empty, Reading, Listings
    <2>2. QED
      BY <1>22, <2>1 DEF Restart
  <1>23. QED
    BY <1>1, <1>2, <1>3, <1>4, <1>5, <1>6, <1>7, <1>8, <1>9, <1>10, <1>11,
       <1>12, <1>13, <1>14, <1>15, <1>16, <1>17, <1>18, <1>19, <1>20, <1>21,
       <1>22
         DEF ReconcilerNext

\* What is left of a refresh is a refresh, waiting only with a read to go.
LEMMA ContinuedType ==
    ASSUME NEW n \in 0..2
    PROVE  /\ Continued(n) \in RefreshType
           /\ Continued(n).phase = "waiting" => Continued(n).left # 0
           /\ IdleRefresh \in RefreshType
           /\ IdleRefresh.phase # "waiting"
  <1>1. IdleRefresh \in RefreshType /\ IdleRefresh.phase # "waiting"
    BY DEF IdleRefresh, RefreshType, Empty, Reading, Listings
  <1>2. CASE n = 0
    BY <1>1, <1>2 DEF Continued
  <1>3. CASE n # 0
    <2>1. Continued(n) = [IdleRefresh EXCEPT !.phase = "waiting", !.left = n]
      BY <1>3 DEF Continued
    <2>2. Continued(n) \in RefreshType /\ Continued(n).left = n
      BY <1>1, <2>1 DEF RefreshType
    <2>3. QED
      BY <1>1, <1>3, <2>2
  <1>4. QED
    BY <1>2, <1>3

\* A refresh holds a reading and a countdown that ends.
LEMMA RefreshStep ==
    ASSUME ReconTypes, WaitingOK, ReconcilerNext
    PROVE  (refresh \in RefreshType)' /\ WaitingOK'
  <1>0. refresh \in RefreshType /\ Now \in Reading
    BY DEF ReconTypes, SourceType, Now, Reading
  <1>c. /\ refresh.left \in 0..2
        /\ \A n \in 0..2 :
              /\ Continued(n) \in RefreshType
              /\ Continued(n).phase = "waiting" => Continued(n).left # 0
        /\ IdleRefresh \in RefreshType /\ IdleRefresh.phase # "waiting"
    BY <1>0, ContinuedType DEF RefreshType
  <1> USE DEF WaitingOK
  <1>1. ASSUME NEW b \in Alerts, AlertFires(b)
        PROVE  (refresh \in RefreshType)' /\ WaitingOK'
    BY <1>1, <1>0, <1>c DEF AlertFires, Change
  <1>2. ASSUME NEW b \in Alerts, AlertEnds(b)
        PROVE  (refresh \in RefreshType)' /\ WaitingOK'
    BY <1>2, <1>0, <1>c DEF AlertEnds, Change
  <1>3. CASE AlertmanagerRestarts
    BY <1>3, <1>0, <1>c DEF AlertmanagerRestarts, Change
  <1>4. ASSUME NEW m \in Mail, WebhookLost(m)
        PROVE  (refresh \in RefreshType)' /\ WaitingOK'
    BY <1>4, <1>0, <1>c DEF WebhookLost
  <1>5. ASSUME NEW m \in Mail, WebhookDelivered(m)
        PROVE  (refresh \in RefreshType)' /\ WaitingOK'
    BY <1>5, <1>0, <1>c DEF WebhookDelivered
  <1>6. ASSUME NEW s \in Silences, WriteSilence(s)
        PROVE  (refresh \in RefreshType)' /\ WaitingOK'
    BY <1>6, <1>0, <1>c DEF WriteSilence, Change
  <1>7. ASSUME NEW s \in Silences, SilenceChangesUnannounced(s)
        PROVE  (refresh \in RefreshType)' /\ WaitingOK'
    BY <1>7, <1>0, <1>c DEF SilenceChangesUnannounced, Change
  <1>8. CASE PassFindsSourceDisabled
    BY <1>8, <1>0, <1>c DEF PassFindsSourceDisabled
  <1>9. CASE PassReadsLive
    BY <1>9, <1>0, <1>c DEF PassReadsLive
  <1>10. CASE PassReadsStored
    BY <1>10, <1>0, <1>c DEF PassReadsStored
  <1>11. CASE PassAbandoned
    BY <1>11, <1>0, <1>c DEF PassAbandoned
  <1>12. ASSUME NEW listing \in Listings, PassListsSilences(listing)
        PROVE  (refresh \in RefreshType)' /\ WaitingOK'
    BY <1>12, <1>0, <1>c DEF PassListsSilences
  <1>13. ASSUME NEW skipped \in SUBSET Alerts, PassReconciles(skipped)
        PROVE  (refresh \in RefreshType)' /\ WaitingOK'
    BY <1>13, <1>0, <1>c DEF PassReconciles
  <1>14. CASE PassFails
    BY <1>14, <1>0, <1>c DEF PassFails
  <1>15. CASE RefreshClaimed
    BY <1>15, <1>0, <1>c DEF RefreshClaimed, refreshReads
  <1>16. CASE RefreshReadsLive
    <2>1. refresh.left - 1 \in 0..2
      BY <1>16, <1>c DEF RefreshReadsLive
    <2>2. refresh' = [refresh EXCEPT !.phase = "live", !.left = refresh.left - 1,
                                     !.live = Now]
      BY <1>16 DEF RefreshReadsLive
    <2>3. QED
      BY <1>0, <2>1, <2>2 DEF RefreshType
  <1>17. CASE RefreshUnreadable
    <2>1. refresh.left - 1 \in 0..2
      BY <1>17, <1>c DEF RefreshUnreadable
    <2>2. QED
      BY <1>17, <1>c, <2>1 DEF RefreshUnreadable
  <1>18. CASE RefreshAbandoned
    BY <1>18, <1>0, <1>c DEF RefreshAbandoned
  <1>19. ASSUME NEW listing \in Listings, RefreshListsSilences(listing)
        PROVE  (refresh \in RefreshType)' /\ WaitingOK'
    BY <1>19, <1>0, <1>c DEF RefreshListsSilences, RefreshType
  <1>20. ASSUME NEW skipped \in SUBSET Alerts, RefreshReconciles(skipped)
        PROVE  (refresh \in RefreshType)' /\ WaitingOK'
    BY <1>20, <1>0, <1>c DEF RefreshReconciles
  <1>21. CASE RefreshFails
    BY <1>21, <1>0, <1>c DEF RefreshFails
  <1>22. CASE Restart
    BY <1>22, <1>0, <1>c DEF Restart
  <1>23. QED
    BY <1>1, <1>2, <1>3, <1>4, <1>5, <1>6, <1>7, <1>8, <1>9, <1>10, <1>11,
       <1>12, <1>13, <1>14, <1>15, <1>16, <1>17, <1>18, <1>19, <1>20, <1>21,
       <1>22
         DEF ReconcilerNext

-----------------------------------------------------------------------------
(***************************************************************************)
(* Theorems about the loops.                                               *)
(***************************************************************************)
\* The invariant of the reconciler and the refresher holds for any alerts,
\* silences, channel capacity and interleaving with webhooks and restarts.
THEOREM ReconInvariance ==
    ReconcilerSpec => []ReconInv
  <1>1. ReconcilerInit => ReconInv
    <2> SUFFICES ASSUME ReconcilerInit
                 PROVE  ReconInv
      OBVIOUS
    <2>1. SourceType
      BY DEF ReconcilerInit, SourceType
    <2>2. CounterType /\ MissesOK
      BY DEF ReconcilerInit, CounterType, MissesOK
    <2>3. TableType
      BY DEF ReconcilerInit, TableType
    <2>4. pass \in PassType
      BY DEF ReconcilerInit, PassType, IdlePass, Empty, Reading, Listings
    <2>5. refresh \in RefreshType /\ WaitingOK
      BY ContinuedType DEF ReconcilerInit, WaitingOK
    <2>6. QED
      BY <2>1, <2>2, <2>3, <2>4, <2>5 DEF ReconInv, ReconTypes
  <1>2. ReconInv /\ [ReconcilerNext]_reconcilerVars => ReconInv'
    <2> SUFFICES ASSUME ReconInv, [ReconcilerNext]_reconcilerVars
                 PROVE  ReconInv'
      OBVIOUS
    <2>0. ReconTypes /\ WaitingOK /\ MissesOK
      BY DEF ReconInv
    <2>1. CASE ReconcilerNext
      <3>1. SourceType' /\ TableType'
        BY <2>0, <2>1, SourceStep, TableStep DEF ReconTypes
      <3>2. CounterType' /\ MissesOK'
        BY <2>0, <2>1, CounterStep
      <3>3. (pass \in PassType)'
        BY <2>0, <2>1, PassStep
      <3>4. (refresh \in RefreshType)' /\ WaitingOK'
        BY <2>0, <2>1, RefreshStep
      <3>5. QED
        BY <3>1, <3>2, <3>3, <3>4 DEF ReconInv, ReconTypes
    <2>2. CASE UNCHANGED reconcilerVars
      BY <2>0, <2>2 DEF ReconInv, ReconTypes, WaitingOK, MissesOK, SourceType, CounterType,
                        TableType, PassType, RefreshType, reconcilerVars, source
    <2>3. QED
      BY <2>1, <2>2
  <1>3. QED
    BY <1>1, <1>2, PTL DEF ReconcilerSpec

\* Counters, readings, countdown and table keep their types
\* (reconcileSource, refresh).
THEOREM ReconTypeCorrect ==
    ReconcilerSpec => []ReconcilerTypeOK
  <1>1. ReconInv => ReconcilerTypeOK
    BY TypeParts DEF ReconInv, ReconTypes
  <1>2. QED
    BY <1>1, ReconInvariance, PTL

\* A step that does not write the table, or takes a delivery off the wire,
\* resolves nothing without a webhook.
LEMMA NotResolvedHere ==
    ASSUME rows' = rows \/ mail' # mail
    PROVE  \A a \in Alerts : ~ResolvedHere(a)
  BY DEF ResolvedHere

\* The one step that resolves without a webhook is a pass, and it resolves
\* what it and the reading before it omitted.
LEMMA AbsenceStep ==
    ASSUME ReconInv, ReconcilerNext, NEW b \in Alerts, ResolvedHere(b)
    PROVE  b \in previous /\ b \in previous' /\ pass.live.held # {}
  <1>0. /\ TableType /\ CounterType /\ MissesOK
        /\ pass \in PassType /\ refresh \in RefreshType
        /\ rows' # rows /\ mail' = mail
        /\ rows[b].status = "firing" /\ rows'[b].status = "resolved"
    BY NotResolvedHere DEF ReconInv, ReconTypes, ResolvedHere
  <1>1. ASSUME NEW c \in Alerts, AlertFires(c)
        PROVE  b \in previous /\ b \in previous' /\ pass.live.held # {}
    BY <1>1, <1>0 DEF AlertFires, Change
  <1>2. ASSUME NEW c \in Alerts, AlertEnds(c)
        PROVE  b \in previous /\ b \in previous' /\ pass.live.held # {}
    BY <1>2, <1>0 DEF AlertEnds, Change
  <1>3. CASE AlertmanagerRestarts
    BY <1>3, <1>0 DEF AlertmanagerRestarts, Change
  <1>4. ASSUME NEW m \in Mail, WebhookLost(m)
        PROVE  b \in previous /\ b \in previous' /\ pass.live.held # {}
    BY <1>4, <1>0 DEF WebhookLost
  <1>5. ASSUME NEW m \in Mail, WebhookDelivered(m)
        PROVE  b \in previous /\ b \in previous' /\ pass.live.held # {}
    BY <1>5, <1>0 DEF WebhookDelivered
  <1>6. ASSUME NEW s \in Silences, WriteSilence(s)
        PROVE  b \in previous /\ b \in previous' /\ pass.live.held # {}
    BY <1>6, <1>0 DEF WriteSilence, Change
  <1>7. ASSUME NEW s \in Silences, SilenceChangesUnannounced(s)
        PROVE  b \in previous /\ b \in previous' /\ pass.live.held # {}
    BY <1>7, <1>0 DEF SilenceChangesUnannounced, Change
  <1>8. CASE PassFindsSourceDisabled
    BY <1>8, <1>0 DEF PassFindsSourceDisabled
  <1>9. CASE PassReadsLive
    BY <1>9, <1>0 DEF PassReadsLive
  <1>10. CASE PassReadsStored
    BY <1>10, <1>0 DEF PassReadsStored
  <1>11. CASE PassAbandoned
    BY <1>11, <1>0 DEF PassAbandoned
  <1>12. ASSUME NEW listing \in Listings, PassListsSilences(listing)
        PROVE  b \in previous /\ b \in previous' /\ pass.live.held # {}
    BY <1>12, <1>0 DEF PassListsSilences
  <1>13. ASSUME NEW skipped \in SUBSET Alerts, PassReconciles(skipped)
        PROVE  b \in previous /\ b \in previous' /\ pass.live.held # {}
    <2>1. pass.live \in Reading /\ missing \subseteq Alerts
      BY <1>0 DEF PassType, missing
    <2>2. rows' = Applied(pass.live, missing, pass.listing, skipped)
      BY <1>13 DEF PassReconciles
    <2>3. b \in missing
      BY <1>0, <2>1, <2>2, AppliedRows
    <2>4. Counted(b) >= 2
      BY <2>3 DEF missing, missesBeforeResolving
    <2>5. b \in Omitted /\ misses[b] > 0
      BY <1>0, <2>4, CountedType
    <2>6. b \in previous /\ b \in previous'
      BY <1>13, <1>0, <2>5 DEF MissesOK, PassReconciles
    <2>7. pass.live.held # {}
      BY <2>5 DEF Omitted, trustworthy
    <2>8. QED
      BY <2>6, <2>7
  <1>14. CASE PassFails
    BY <1>14, <1>0 DEF PassFails
  <1>15. CASE RefreshClaimed
    BY <1>15, <1>0 DEF RefreshClaimed
  <1>16. CASE RefreshReadsLive
    BY <1>16, <1>0 DEF RefreshReadsLive
  <1>17. CASE RefreshUnreadable
    BY <1>17, <1>0 DEF RefreshUnreadable
  <1>18. CASE RefreshAbandoned
    BY <1>18, <1>0 DEF RefreshAbandoned
  <1>19. ASSUME NEW listing \in Listings, RefreshListsSilences(listing)
        PROVE  b \in previous /\ b \in previous' /\ pass.live.held # {}
    BY <1>19, <1>0 DEF RefreshListsSilences
  <1>20. ASSUME NEW skipped \in SUBSET Alerts, RefreshReconciles(skipped)
        PROVE  b \in previous /\ b \in previous' /\ pass.live.held # {}
    <2>1. refresh.live \in Reading
      BY <1>0 DEF RefreshType
    <2>2. rows' = Applied(refresh.live, {}, refresh.listing, skipped)
      BY <1>20 DEF RefreshReconciles
    <2>3. rows'[b].status = "firing"
      BY <1>0, <2>1, <2>2, AppliedRows
    <2>4. QED
      BY <1>0, <2>3
  <1>21. CASE RefreshFails
    BY <1>21, <1>0 DEF RefreshFails
  <1>22. CASE Restart
    BY <1>22, <1>0 DEF Restart
  <1>23. QED
    BY <1>1, <1>2, <1>3, <1>4, <1>5, <1>6, <1>7, <1>8, <1>9, <1>10, <1>11,
       <1>12, <1>13, <1>14, <1>15, <1>16, <1>17, <1>18, <1>19, <1>20, <1>21,
       <1>22
         DEF ReconcilerNext

\* What is resolved without a webhook was stored and absent from the two
\* latest readings counted, the deciding one not empty (reconcileSource,
\* missesBeforeResolving).
THEOREM TwoAbsences ==
    ReconcilerSpec => ResolvedAfterTwoAbsences
  <1>1. ReconInv /\ [ReconcilerNext]_reconcilerVars =>
           [\A a \in Alerts : ResolvedHere(a) =>
               a \in previous /\ a \in previous' /\ pass.live.held # {}]_reconcilerVars
    BY AbsenceStep
  <1>2. QED
    BY <1>1, ReconInvariance, PTL DEF ReconcilerSpec, ResolvedAfterTwoAbsences

-----------------------------------------------------------------------------
(***************************************************************************)
(* What AlertStore takes for granted of its callers: the guard of          *)
(* ReconcileSource, and that readings and listings are of the given sets.  *)
(***************************************************************************)
\* f is the effect on the table of Ingest or ReconcileSource as AlertStore's
\* Next calls them, its bound on occurrences aside: one delivery, or a reading
\* applied by a caller that resolves nothing the reading lists.
StoreWrites(table, f) ==
    \/ \E b \in Alerts, d \in Delivery :
          f = [a \in Alerts |-> IF a = b THEN Ingested(table[a], d)
                                ELSE NoEffect(table[a])]
    \/ \E reading \in [Alerts -> Readings], gone, skipped \in SUBSET Alerts,
          listing \in Listings :
          /\ \A a \in gone : reading[a] = NotHeld
          /\ f = [a \in Alerts |-> Reconciled(table[a], reading[a], a \in gone,
                                              listing, a \in skipped)]

\* A reading of the Alertmanager is one AlertStore foresees.
LEMMA LiveInReadings ==
    ASSUME NEW reading \in Reading, NEW a
    PROVE  /\ LiveIn(reading, a) \in Readings
           /\ a \notin reading.held => LiveIn(reading, a) = NotHeld
  <1> DEFINE by == {s \in reading.active : a \in Covers[s]}
  <1>1. by \in SUBSET Silences
    BY DEF Reading
  <1>2. [suppressed |-> by # {}, silencedBy |-> by] \in LiveState
    <2>1. CASE by = {}
      BY <2>1 DEF LiveState
    <2>2. CASE by # {}
      BY <1>1, <2>2 DEF LiveState
    <2>3. QED
      BY <2>1, <2>2
  <1>3. QED
    BY <1>2 DEF LiveIn, NotHeld, Readings

\* Applying a reading that lists none of the alerts to resolve is a write
\* AlertStore allows.
LEMMA AppliedIsStoreWrite ==
    ASSUME NEW reading \in Reading, NEW gone \in SUBSET Alerts,
           gone \cap reading.held = {},
           NEW listing \in Listings, NEW skipped \in SUBSET Alerts,
           NEW after, after = Applied(reading, gone, listing, skipped)
    PROVE  \E f : StoreWrites(rows, f) /\ after = [a \in Alerts |-> f[a].row]
  <1>1. PICK live : live = [a \in Alerts |-> LiveIn(reading, a)]
    OBVIOUS
  <1>2. /\ live \in [Alerts -> Readings]
        /\ \A a \in gone : live[a] = NotHeld
    BY <1>1, LiveInReadings
  <1>3. listing \in Listings
    BY DEF Listings, NoListing
  <1>4. PICK f : f = [a \in Alerts |-> Reconciled(rows[a], live[a], a \in gone, listing,
                                                  a \in skipped)]
    OBVIOUS
  <1>5. StoreWrites(rows, f)
    <2> SUFFICES \E r \in [Alerts -> Readings], m, k \in SUBSET Alerts, l \in Listings :
                    /\ \A a \in m : r[a] = NotHeld
                    /\ f = [a \in Alerts |-> Reconciled(rows[a], r[a], a \in m, l, a \in k)]
      BY Zenon DEF StoreWrites
    <2> USE <1>2, <1>3, <1>4
    <2> WITNESS live \in [Alerts -> Readings], gone \in SUBSET Alerts,
                skipped \in SUBSET Alerts, listing \in Listings
    <2> QED
      OBVIOUS
  <1>6. ASSUME NEW a \in Alerts
        PROVE  Reconciled(rows[a], LiveIn(reading, a), a \in gone, listing,
                                a \in skipped).row = f[a].row
    BY <1>1, <1>4
  <1>7. after = [a \in Alerts |-> f[a].row]
    BY <1>6 DEF Applied
  <1>8. QED
    BY <1>5, <1>7

\* A pass resolves nothing its own reading lists.
LEMMA MissingNotListed ==
    missing \subseteq Alerts /\ missing \cap pass.live.held = {}
  <1>1. \A a \in Alerts : a \in pass.live.held => Counted(a) = 0
    BY DEF Counted
  <1>2. QED
    BY <1>1 DEF missing, missesBeforeResolving

\* A step of the loops or of a webhook that writes the table is a write
\* AlertStore allows.
LEMMA WritesStep ==
    ASSUME ReconInv, ReconcilerNext, rows' # rows
    PROVE  \E f : StoreWrites(rows, f) /\ rows' = [a \in Alerts |-> f[a].row]
  <1>0. TableType /\ pass \in PassType /\ refresh \in RefreshType
    BY DEF ReconInv, ReconTypes
  <1>1. ASSUME NEW b \in Alerts, AlertFires(b)
        PROVE  \E f : StoreWrites(rows, f) /\ rows' = [a \in Alerts |-> f[a].row]
    BY <1>1 DEF AlertFires, Change
  <1>2. ASSUME NEW b \in Alerts, AlertEnds(b)
        PROVE  \E f : StoreWrites(rows, f) /\ rows' = [a \in Alerts |-> f[a].row]
    BY <1>2 DEF AlertEnds, Change
  <1>3. CASE AlertmanagerRestarts
    BY <1>3 DEF AlertmanagerRestarts, Change
  <1>4. ASSUME NEW m \in Mail, WebhookLost(m)
        PROVE  \E f : StoreWrites(rows, f) /\ rows' = [a \in Alerts |-> f[a].row]
    BY <1>4 DEF WebhookLost
  <1>5. ASSUME NEW m \in Mail, WebhookDelivered(m)
        PROVE  \E f : StoreWrites(rows, f) /\ rows' = [a \in Alerts |-> f[a].row]
    <2> DEFINE b == m[1]
               d == [status |-> m[2], labels |-> CHOOSE l \in Labels : TRUE,
                     annotations |-> CHOOSE n \in Annotations : TRUE]
    <2>1. b \in Alerts /\ m[2] \in {"firing", "resolved"}
      BY DEF Mail
    <2>2. /\ (CHOOSE l \in Labels : TRUE) \in Labels
          /\ (CHOOSE n \in Annotations : TRUE) \in Annotations
      OBVIOUS
    <2>3. d \in Delivery
      BY <2>1, <2>2 DEF Delivery
    <2>4. rows' = [rows EXCEPT ![b] = Ingested(rows[b], d).row]
      BY <1>5 DEF WebhookDelivered
    <2> HIDE DEF b, d
    <2>5. PICK f : f = [a \in Alerts |-> IF a = b THEN Ingested(rows[a], d)
                                         ELSE NoEffect(rows[a])]
      OBVIOUS
    <2>6. StoreWrites(rows, f)
      BY <2>1, <2>3, <2>5, Zenon DEF StoreWrites
    <2>7. f[b].row = Ingested(rows[b], d).row
      BY <2>1, <2>5
    <2>8. \A a \in Alerts \ {b} : f[a].row = rows[a]
      BY <2>5 DEF NoEffect, Effect
    <2>9. rows' = [a \in Alerts |-> f[a].row]
      BY <1>0, <2>1, <2>4, <2>7, <2>8 DEF TableType
    <2>10. QED
      BY <2>6, <2>9
  <1>6. ASSUME NEW s \in Silences, WriteSilence(s)
        PROVE  \E f : StoreWrites(rows, f) /\ rows' = [a \in Alerts |-> f[a].row]
    BY <1>6 DEF WriteSilence, Change
  <1>7. ASSUME NEW s \in Silences, SilenceChangesUnannounced(s)
        PROVE  \E f : StoreWrites(rows, f) /\ rows' = [a \in Alerts |-> f[a].row]
    BY <1>7 DEF SilenceChangesUnannounced, Change
  <1>8. CASE PassFindsSourceDisabled
    BY <1>8 DEF PassFindsSourceDisabled
  <1>9. CASE PassReadsLive
    BY <1>9 DEF PassReadsLive
  <1>10. CASE PassReadsStored
    BY <1>10 DEF PassReadsStored
  <1>11. CASE PassAbandoned
    BY <1>11 DEF PassAbandoned
  <1>12. ASSUME NEW listing \in Listings, PassListsSilences(listing)
        PROVE  \E f : StoreWrites(rows, f) /\ rows' = [a \in Alerts |-> f[a].row]
    BY <1>12 DEF PassListsSilences
  <1>13. ASSUME NEW skipped \in SUBSET Alerts, PassReconciles(skipped)
        PROVE  \E f : StoreWrites(rows, f) /\ rows' = [a \in Alerts |-> f[a].row]
    <2>1. pass.live \in Reading /\ pass.listing \in Listings
      BY <1>0 DEF PassType
    <2>2. rows' = Applied(pass.live, missing, pass.listing, skipped)
      BY <1>13 DEF PassReconciles
    <2>3. PICK reading, gone, listing, after :
             /\ reading = pass.live /\ gone = missing /\ listing = pass.listing
             /\ after = rows'
      OBVIOUS
    <2>4. /\ reading \in Reading /\ listing \in Listings
          /\ gone \in SUBSET Alerts /\ gone \cap reading.held = {}
      BY <2>1, <2>3, MissingNotListed
    <2>5. after = Applied(reading, gone, listing, skipped)
      BY <2>2, <2>3
    <2>6. \E f : StoreWrites(rows, f) /\ after = [a \in Alerts |-> f[a].row]
      BY <2>4, <2>5, AppliedIsStoreWrite
    <2>7. QED
      BY <2>3, <2>6
  <1>14. CASE PassFails
    BY <1>14 DEF PassFails
  <1>15. CASE RefreshClaimed
    BY <1>15 DEF RefreshClaimed
  <1>16. CASE RefreshReadsLive
    BY <1>16 DEF RefreshReadsLive
  <1>17. CASE RefreshUnreadable
    BY <1>17 DEF RefreshUnreadable
  <1>18. CASE RefreshAbandoned
    BY <1>18 DEF RefreshAbandoned
  <1>19. ASSUME NEW listing \in Listings, RefreshListsSilences(listing)
        PROVE  \E f : StoreWrites(rows, f) /\ rows' = [a \in Alerts |-> f[a].row]
    BY <1>19 DEF RefreshListsSilences
  <1>20. ASSUME NEW skipped \in SUBSET Alerts, RefreshReconciles(skipped)
        PROVE  \E f : StoreWrites(rows, f) /\ rows' = [a \in Alerts |-> f[a].row]
    <2>1. refresh.live \in Reading /\ refresh.listing \in Listings
      BY <1>0 DEF RefreshType
    <2>2. rows' = Applied(refresh.live, {}, refresh.listing, skipped)
      BY <1>20 DEF RefreshReconciles
    <2>3. PICK reading, gone, listing, after :
             /\ reading = refresh.live /\ gone = {} /\ listing = refresh.listing
             /\ after = rows'
      OBVIOUS
    <2>4. /\ reading \in Reading /\ listing \in Listings
          /\ gone \in SUBSET Alerts /\ gone \cap reading.held = {}
      BY <2>1, <2>3
    <2>5. after = Applied(reading, gone, listing, skipped)
      BY <2>2, <2>3
    <2>6. \E f : StoreWrites(rows, f) /\ after = [a \in Alerts |-> f[a].row]
      BY <2>4, <2>5, AppliedIsStoreWrite
    <2>7. QED
      BY <2>3, <2>6
  <1>21. CASE RefreshFails
    BY <1>21 DEF RefreshFails
  <1>22. CASE Restart
    BY <1>22 DEF Restart
  <1>23. QED
    BY <1>1, <1>2, <1>3, <1>4, <1>5, <1>6, <1>7, <1>8, <1>9, <1>10, <1>11,
       <1>12, <1>13, <1>14, <1>15, <1>16, <1>17, <1>18, <1>19, <1>20, <1>21,
       <1>22
         DEF ReconcilerNext

\* The loops keep what AlertStore assumes of the callers of ReconcileSource:
\* every write of the table, theirs and the webhooks', is one AlertStore's
\* Next allows, so a pass never resolves an alert its own reading lists
\* (reconcileSource, refresh, Store.ReconcileSource).
THEOREM LoopsKeepStoreContract ==
    ReconcilerSpec =>
       [][rows' # rows =>
             \E f : StoreWrites(rows, f) /\ rows' = [a \in Alerts |-> f[a].row]
         ]_reconcilerVars
  <1>1. ReconInv /\ [ReconcilerNext]_reconcilerVars =>
           [rows' # rows =>
               \E f : StoreWrites(rows, f) /\ rows' = [a \in Alerts |-> f[a].row]
           ]_reconcilerVars
    BY WritesStep
  <1>2. QED
    BY <1>1, ReconInvariance, PTL DEF ReconcilerSpec
=============================================================================
