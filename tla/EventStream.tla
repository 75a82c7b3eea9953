---------------------------- MODULE EventStream ----------------------------
(***************************************************************************)
(* The resumable alert stream, from the stream_events table to one         *)
(* console: writers whose ids are allocated before they commit, retention  *)
(* sweeps and their watermark, the polling SSE handler, a connection that  *)
(* drops, and a client that resumes from its cursor and re-snapshots when  *)
(* it is told of a gap.                                                    *)
(*                                                                         *)
(* An event stands for the change of the alert row committed with it: a    *)
(* snapshot read after the commit holds the change.  `known' is the set of *)
(* changes the client was told of, by an event or by a snapshot.           *)
(*                                                                         *)
(* The statements of one Postgres connection run at READ COMMITTED, so     *)
(* the two statements of ListAlerts and the two of StreamEvents are steps  *)
(* of their own.                                                           *)
(***************************************************************************)
EXTENDS Naturals, FiniteSets

CONSTANTS
    Writers,       \* transactions that write alerts concurrently
    Sweepers,      \* replicas running the retention sweep
    Visible,       \* the events whose labels the client's grants let it read
    PollLimit,     \* events scanned by one poll (100 in streamAlerts)
    PruneLimit,    \* streamPruneBatchSize
    MaxEvents,     \* bound: ids allocated
    MaxDrops       \* bound: connections lost

ASSUME StreamConstants ==
    /\ Visible \subseteq Nat
    /\ PollLimit \in Nat \ {0}
    /\ PruneLimit \in Nat \ {0}
    /\ MaxEvents \in Nat
    /\ MaxDrops \in Nat

VARIABLES
    nextId,          \* the id sequence, never rolled back
    tx,              \* per writer, the events its open transaction inserted
    events,          \* stream_events as committed
    committed,       \* every event ever committed, pruned or not
    deletedThrough,  \* stream_event_retention.deleted_through
    victims,         \* per sweeper, the rows its open batch has locked
    ready,           \* the client has a first snapshot
    cursor,          \* the client's resume position
    known,           \* the changes the client was told of
    owed,            \* a gap was announced and no snapshot was begun since
    snapshot,        \* a snapshot request: its cursor once read
    conn,            \* the server's side of the connection
    wire,            \* messages sent on it and not received
    drops,           \* connections lost so far
    exposed          \* ghost: per cause, the events it put at risk

serverVars == <<nextId, tx, events, committed, deletedThrough, victims>>
clientVars == <<ready, cursor, known, owed, snapshot>>
vars == <<serverVars, clientVars, conn, wire, drops, exposed>>

Ids == 1..MaxEvents
Position == 0..MaxEvents

\* What the handler writes.  Ids on the wire only grow (ORDER BY event.id, and
\* a gap moves afterID up), so the order of a connection is the order of ids.
Message == [type: {"event"}, id: Ids] \cup [type: {"stream.gap"}, id: Position]
EventMessage(e) == [type |-> "event", id |-> e]
GapMessage(from) == [type |-> "stream.gap", id |-> from]

\* waiting: between polls; reading: between the two statements of one poll.
Phases == {"closed", "waiting", "reading"}
Closed == [phase |-> "closed", afterID |-> 0, scanned |-> 0, retained |-> 0]

Causes == {"overtaken", "prunedMidPoll", "resumedFromZero"}

NoRequest == [open |-> FALSE, cursor |-> 0]

MaxOf(x, y) == IF x < y THEN y ELSE x

\* x is the greatest element of S, or the default of an empty S (COALESCE).
IsHighest(x, S, default) ==
    IF S = {} THEN x = default ELSE x \in S /\ \A y \in S : y <= x

\* The first n of S in id order (ORDER BY id LIMIT n).
FirstOf(n, S) == {e \in S : Cardinality({x \in S : x <= e}) <= n}

Init ==
    /\ nextId = 1
    /\ tx = [w \in Writers |-> {}]
    /\ events = {}
    /\ committed = {}
    /\ deletedThrough = 0
    /\ victims = [p \in Sweepers |-> {}]
    /\ ready = FALSE
    /\ cursor = 0
    /\ known = {}
    /\ owed = FALSE
    /\ snapshot = NoRequest
    /\ conn = Closed
    /\ wire = {}
    /\ drops = 0
    /\ exposed = [c \in Causes |-> {}]

-----------------------------------------------------------------------------
(***************************************************************************)
(* Writers.                                                                *)
(***************************************************************************)

\* The id is taken from the sequence now; nobody sees the row until commit.
insertStreamEvent(w) ==
    /\ nextId <= MaxEvents
    /\ nextId' = nextId + 1
    /\ tx' = [tx EXCEPT ![w] = @ \cup {nextId}]
    /\ UNCHANGED <<events, committed, deletedThrough, victims, clientVars,
                   conn, wire, drops, exposed>>

\* A transaction that commits below an id already committed was overtaken.
CommitTransaction(w) ==
    /\ tx[w] # {}
    /\ tx' = [tx EXCEPT ![w] = {}]
    /\ events' = events \cup tx[w]
    /\ committed' = committed \cup tx[w]
    /\ exposed' = [exposed EXCEPT !.overtaken =
                       @ \cup {e \in tx[w] : \E x \in committed : e < x}]
    /\ UNCHANGED <<nextId, deletedThrough, victims, clientVars, conn, wire, drops>>

\* Ids of a transaction that fails are never used again.
RollbackTransaction(w) ==
    /\ tx[w] # {}
    /\ tx' = [tx EXCEPT ![w] = {}]
    /\ UNCHANGED <<nextId, events, committed, deletedThrough, victims, clientVars,
                   conn, wire, drops, exposed>>

-----------------------------------------------------------------------------
(***************************************************************************)
(* Retention.  occurred_at is the time of receipt, not of the insert, so   *)
(* the rows past the cutoff need not be the ones with the lowest ids.      *)
(***************************************************************************)
Locked(p) == UNION {victims[q] : q \in Sweepers \ {p}}

\* The victims CTE: FOR UPDATE SKIP LOCKED.
PruneSelect(p, stale) ==
    /\ victims[p] = {}
    /\ stale \ Locked(p) # {}
    /\ victims' = [victims EXCEPT ![p] = FirstOf(PruneLimit, stale \ Locked(p))]
    /\ UNCHANGED <<nextId, tx, events, committed, deletedThrough, clientVars,
                   conn, wire, drops, exposed>>

\* Mutant: the watermark is assigned rather than raised.
Watermark_Assigned(highest) == highest

Watermark(highest) == MaxOf(deletedThrough, highest)

\* Rows of the window an open poll has scanned and not read.
InWindow(e) == conn.phase = "reading" /\ conn.afterID < e /\ e <= conn.scanned

\* The delete and the watermark commit together.
pruneStreamBatch(p) ==
    /\ victims[p] # {}
    /\ \E highest \in victims[p] :
          /\ IsHighest(highest, victims[p], 0)
          /\ deletedThrough' = Watermark(highest)
    /\ events' = events \ victims[p]
    /\ victims' = [victims EXCEPT ![p] = {}]
    /\ exposed' = [exposed EXCEPT !.prunedMidPoll =
                       @ \cup {e \in victims[p] : InWindow(e)}]
    /\ UNCHANGED <<nextId, tx, committed, clientVars, conn, wire, drops>>

PruneRollback(p) ==
    /\ victims[p] # {}
    /\ victims' = [victims EXCEPT ![p] = {}]
    /\ UNCHANGED <<nextId, tx, events, committed, deletedThrough, clientVars,
                   conn, wire, drops, exposed>>

-----------------------------------------------------------------------------
(***************************************************************************)
(* The SSE handler.                                                        *)
(***************************************************************************)

\* afterID > 0 && afterID < batch.RetainedFrom.
IsGap(afterID, retained) == afterID > 0 /\ afterID < retained

\* One round of the loop, given what StreamEvents returned: a gap discards
\* the batch and moves past the deleted range.
Respond(batch, scanned, retained) ==
    IF IsGap(conn.afterID, retained)
    THEN /\ wire' = wire \cup {GapMessage(retained)}
         /\ conn' = [conn EXCEPT !.phase = "waiting", !.afterID = retained,
                                 !.scanned = 0, !.retained = 0]
    ELSE /\ wire' = wire \cup {EventMessage(e) : e \in batch}
         /\ conn' = [conn EXCEPT !.phase = "waiting", !.afterID = scanned,
                                 !.scanned = 0, !.retained = 0]

\* Mutant: the window ends at the last event the caller may see.
Window_VisibleOnly(afterID) ==
    FirstOf(PollLimit, {e \in events : e > afterID}) \cap Visible

Window(afterID) == FirstOf(PollLimit, {e \in events : e > afterID})

\* The first statement of StreamEvents: the window and the watermark, read
\* together.  An empty window skips the second statement.  A resume from 0
\* below the watermark is the one the gap rule exempts.
ScanWindow ==
    /\ conn.phase = "waiting"
    /\ \E scanned \in Position :
          /\ IsHighest(scanned, Window(conn.afterID), conn.afterID)
          /\ IF scanned = conn.afterID
             THEN Respond({}, conn.afterID, deletedThrough)
             ELSE /\ conn' = [conn EXCEPT !.phase = "reading", !.scanned = scanned,
                                          !.retained = deletedThrough]
                  /\ UNCHANGED wire
    /\ exposed' = [exposed EXCEPT !.resumedFromZero =
                       IF conn.afterID = 0 THEN @ \cup (committed \ events) ELSE @]
    /\ UNCHANGED <<serverVars, clientVars, drops>>

\* The second statement, over the same ids but a later snapshot of the table.
ReadWindow ==
    /\ conn.phase = "reading"
    /\ Respond({e \in events \cap Visible : InWindow(e)}, conn.scanned, conn.retained)
    /\ UNCHANGED <<serverVars, clientVars, drops, exposed>>

-----------------------------------------------------------------------------
(***************************************************************************)
(* The client: stream.ts, useAlertStream.ts and the snapshot they resume.  *)
(***************************************************************************)

\* The first statement of ListAlerts (readStreamCursor).
BeginSnapshot ==
    /\ ~snapshot.open
    /\ \E c \in Position :
          /\ IsHighest(c, events \cap Visible, 0)
          /\ snapshot' = [open |-> TRUE, cursor |-> c]
    /\ owed' = FALSE
    /\ UNCHANGED <<serverVars, ready, cursor, known, conn, wire, drops, exposed>>

\* The list itself, which holds every change committed by now.  The response
\* only adds to what the client knows and only raises its cursor
\* (updateCursor), so receiving it is part of the same step.
FinishSnapshot ==
    /\ snapshot.open
    /\ snapshot' = NoRequest
    /\ known' = known \cup committed
    /\ cursor' = MaxOf(cursor, snapshot.cursor)
    /\ ready' = TRUE
    /\ UNCHANGED <<serverVars, owed, conn, wire, drops, exposed>>

\* connect, first or after the retry delay.
Connect ==
    /\ ready
    /\ conn.phase = "closed"
    /\ conn' = [phase |-> "waiting", afterID |-> cursor, scanned |-> 0, retained |-> 0]
    /\ UNCHANGED <<serverVars, clientVars, wire, drops, exposed>>

\* onerror closes the source: what was on the wire is lost.
Drop ==
    /\ conn.phase # "closed"
    /\ drops < MaxDrops
    /\ drops' = drops + 1
    /\ conn' = Closed
    /\ wire' = {}
    /\ UNCHANGED <<serverVars, clientVars, exposed>>

First(m) == m \in wire /\ \A n \in wire : m.id <= n.id

\* Mutant: a gap only moves the cursor.
handleGap_NoSnapshot(m) ==
    /\ First(m) /\ m.type = "stream.gap"
    /\ wire' = wire \ {m}
    /\ cursor' = MaxOf(cursor, m.id)
    /\ UNCHANGED <<serverVars, ready, known, owed, snapshot, conn, drops, exposed>>

handleEvent(m) ==
    /\ First(m) /\ m.type = "event"
    /\ wire' = wire \ {m}
    /\ cursor' = MaxOf(cursor, m.id)
    /\ known' = known \cup {m.id}
    /\ UNCHANGED <<serverVars, ready, owed, snapshot, conn, drops, exposed>>

\* The cursor moves past the deleted range, and the subscriber re-snapshots.
handleGap(m) ==
    /\ First(m) /\ m.type = "stream.gap"
    /\ wire' = wire \ {m}
    /\ cursor' = MaxOf(cursor, m.id)
    /\ owed' = TRUE
    /\ UNCHANGED <<serverVars, ready, known, snapshot, conn, drops, exposed>>

-----------------------------------------------------------------------------
Receive == \E m \in Message : handleEvent(m) \/ handleGap(m)

Next ==
    \/ \E w \in Writers : \/ insertStreamEvent(w)
                          \/ CommitTransaction(w)
                          \/ RollbackTransaction(w)
    \/ \E p \in Sweepers : \/ \E stale \in SUBSET events : PruneSelect(p, stale)
                           \/ pruneStreamBatch(p)
                           \/ PruneRollback(p)
    \/ ScanWindow
    \/ ReadWindow
    \/ BeginSnapshot
    \/ FinishSnapshot
    \/ Connect
    \/ Drop
    \/ \E m \in Message : handleEvent(m)
    \/ \E m \in Message : handleGap(m)

\* The handler polls every 500ms, the client retries its connection and its
\* messages arrive, a request that began ends, and a client told of a gap
\* does take its snapshot.  Nothing is assumed of writers, sweeps or drops.
StreamFairness ==
    /\ WF_vars(ScanWindow)
    /\ WF_vars(ReadWindow)
    /\ WF_vars(Connect)
    /\ WF_vars(Receive)
    /\ WF_vars(owed /\ BeginSnapshot)
    /\ WF_vars(FinishSnapshot)

Spec == Init /\ [][Next]_vars
FairSpec == Spec /\ StreamFairness

-----------------------------------------------------------------------------
(***************************************************************************)
(* Properties.                                                             *)
(***************************************************************************)

\* Tables, cursors and messages have their types.
TypeOK ==
    /\ nextId \in 1..(MaxEvents + 1)
    /\ tx \in [Writers -> SUBSET Ids]
    /\ events \in SUBSET Ids
    /\ committed \in SUBSET Ids
    /\ deletedThrough \in Position
    /\ victims \in [Sweepers -> SUBSET Ids]
    /\ ready \in BOOLEAN
    /\ cursor \in Position
    /\ known \in SUBSET Ids
    /\ owed \in BOOLEAN
    /\ snapshot \in [open: BOOLEAN, cursor: Position]
    /\ conn \in [phase: Phases, afterID: Position, scanned: Position, retained: Position]
    /\ wire \in SUBSET Message
    /\ drops \in 0..MaxDrops
    /\ exposed \in [Causes -> SUBSET Ids]

\* deleted_through is at or above every event retention has removed, whatever
\* two racing sweeps skip or commit first ("two sweeps racing must not move
\* the watermark backwards").
WatermarkCoversDeleted == \A e \in committed \ events : e <= deletedThrough

\* Where the stream stands once the poll under way is answered.
Reached ==
    IF conn.phase = "closed" THEN cursor
    ELSE IF conn.phase = "reading" /\ IsGap(conn.afterID, conn.retained) THEN conn.retained
    ELSE IF conn.phase = "reading" THEN conn.scanned
    ELSE conn.afterID

\* A snapshot the client takes anyway still lies ahead: its list is not read
\* yet, a gap is owed one, or a gap is on its way.
SnapshotAhead ==
    \/ ~ready
    \/ snapshot.open
    \/ owed
    \/ \E m \in wire : m.type = "stream.gap"
    \/ conn.phase = "reading" /\ IsGap(conn.afterID, conn.retained)
    \/ Reached < deletedThrough

\* A change the client may see is one it was told of, or is about to be: the
\* event is on the wire or ahead of the stream, or a snapshot is ahead.
Told(e) ==
    \/ e \in known
    \/ EventMessage(e) \in wire
    \/ e \in events /\ (e > Reached \/ InWindow(e))
    \/ SnapshotAhead

NothingMissed(risks) ==
    \A e \in committed \cap Visible : Told(e) \/ \E c \in risks : e \in exposed[c]

\* The stream loses a change silently in three ways only: its transaction
\* commits after one with a higher id, a sweep deletes it between the two
\* statements of a poll, or it was pruned below a resume from cursor 0, which
\* the gap rule exempts.  Every other change is told or about to be.  (The
\* README promises more: "a client resuming from below that is sent a
\* stream.gap event instead" and "A client already at or past the watermark
\* has missed nothing".)
OnlyKnownLosses == NothingMissed(Causes)

\* What the README promises of snapshot and stream together: "Start the stream
\* from that value to avoid missing changes between the snapshot and live
\* updates."  A transaction overtaken by a higher id breaks it.
SnapshotResumeIsComplete == NothingMissed(Causes \ {"overtaken"})

\* Every visible change committed while a client is running reaches it unless
\* one of the three exposed put it at risk: polls full of events it may not
\* see, drops and gaps do not hold it up forever.
EveryChangeArrives ==
    \A e \in Ids \cap Visible :
        (e \in committed /\ ready) ~>
            (e \in known \/ \E c \in Causes : e \in exposed[c])
=============================================================================
