------------------------- MODULE EventStreamProofs -------------------------
(***************************************************************************)
(* Proofs about EventStream, for any number of writers, sweepers, events   *)
(* and drops, any batch sizes and any visibility; and, at the end, about   *)
(* Console, the list that follows the stream in the browser.               *)
(***************************************************************************)
EXTENDS EventStream, Console, TLAPS

USE StreamConstants

\* The retention invariant is inductive together with the types.
IInv == TypeOK /\ WatermarkCoversDeleted

-----------------------------------------------------------------------------
(***************************************************************************)
(* Operators.                                                              *)
(***************************************************************************)

\* COALESCE(max(id), default) is a position when its arguments are.
LEMMA HighestInPosition ==
    ASSUME NEW S \in SUBSET Ids, NEW default \in Position, NEW x,
           IsHighest(x, S, default)
    PROVE  x \in Position
  <1>1. Ids \subseteq Position
    BY DEF Ids, Position
  <1>2. CASE S = {}
    BY <1>2 DEF IsHighest
  <1>3. CASE S # {}
    BY <1>1, <1>3 DEF IsHighest
  <1>4. QED
    BY <1>2, <1>3

\* ORDER BY ... LIMIT selects among its rows.
LEMMA FirstOfSubset ==
    ASSUME NEW n, NEW S
    PROVE  FirstOf(n, S) \subseteq S
  BY DEF FirstOf

\* The larger of two positions is a position.
LEMMA MaxInPosition ==
    ASSUME NEW x \in Position, NEW y \in Position
    PROVE  /\ MaxOf(x, y) \in Position
           /\ MaxOf(x, y) >= x /\ MaxOf(x, y) >= y
  BY DEF MaxOf, Position

\* The handler's answer keeps the connection and the wire well typed.
LEMMA RespondType ==
    ASSUME TypeOK, NEW batch \in SUBSET Ids, NEW scanned \in Position,
           NEW retained \in Position, Respond(batch, scanned, retained)
    PROVE  /\ wire' \in SUBSET Message
           /\ conn' \in [phase: Phases, afterID: Position, scanned: Position,
                         retained: Position]
  <1>1. 0 \in Position /\ Ids \subseteq Position
    BY DEF Position, Ids
  <1>2. GapMessage(retained) \in Message
    BY DEF GapMessage, Message
  <1>3. \A e \in batch : EventMessage(e) \in Message
    BY <1>1 DEF EventMessage, Message
  <1>4. "waiting" \in Phases
    BY DEF Phases
  <1>5. /\ wire \in SUBSET Message
        /\ conn \in [phase: Phases, afterID: Position, scanned: Position,
                     retained: Position]
    BY DEF TypeOK
  <1>6. CASE IsGap(conn.afterID, retained)
    <2>1. /\ wire' = wire \cup {GapMessage(retained)}
          /\ conn' = [conn EXCEPT !.phase = "waiting", !.afterID = retained,
                                  !.scanned = 0, !.retained = 0]
      BY <1>6 DEF Respond
    <2>2. QED
      BY <1>1, <1>2, <1>4, <1>5, <2>1
  <1>7. CASE ~IsGap(conn.afterID, retained)
    <2>1. /\ wire' = wire \cup {EventMessage(e) : e \in batch}
          /\ conn' = [conn EXCEPT !.phase = "waiting", !.afterID = scanned,
                                  !.scanned = 0, !.retained = 0]
      BY <1>7 DEF Respond
    <2>2. QED
      BY <1>1, <1>3, <1>4, <1>5, <2>1
  <1>8. QED
    BY <1>6, <1>7

-----------------------------------------------------------------------------
(***************************************************************************)
(* The inductive step, one case per action.                                *)
(***************************************************************************)

\* The empty table is well typed and nothing was deleted.
LEMMA InitOK == Init => IInv
  <1> SUFFICES ASSUME Init
               PROVE  IInv
    OBVIOUS
  <1>1. 0 \in Position /\ 1 \in 1..(MaxEvents + 1) /\ 0 \in 0..MaxDrops
    BY DEF Position
  <1>2. TypeOK
    BY <1>1 DEF Init, TypeOK, NoRequest, Closed, Phases, Message
  <1>3. WatermarkCoversDeleted
    BY DEF Init, WatermarkCoversDeleted
  <1>4. QED
    BY <1>2, <1>3 DEF IInv

\* Every action preserves it.
LEMMA NextOK ==
    ASSUME IInv, [Next]_vars
    PROVE  IInv'
  <1>0. TypeOK /\ WatermarkCoversDeleted
    BY DEF IInv
  <1> USE DEF serverVars, clientVars
  <1>1. ASSUME NEW w \in Writers, insertStreamEvent(w)
        PROVE  IInv'
    <2>1. nextId \in Ids /\ nextId + 1 \in 1..(MaxEvents + 1)
      BY <1>0, <1>1 DEF insertStreamEvent, TypeOK, Ids
    <2>2. nextId' \in 1..(MaxEvents + 1) /\ tx' \in [Writers -> SUBSET Ids]
      BY <1>0, <1>1, <2>1 DEF insertStreamEvent, TypeOK
    <2>3. QED
      BY <1>0, <1>1, <2>2 DEF insertStreamEvent, IInv, TypeOK, WatermarkCoversDeleted
  <1>2. ASSUME NEW w \in Writers, CommitTransaction(w)
        PROVE  IInv'
    <2>1. tx[w] \in SUBSET Ids /\ tx' \in [Writers -> SUBSET Ids]
      BY <1>0, <1>2 DEF CommitTransaction, TypeOK
    <2>2. exposed' \in [Causes -> SUBSET Ids]
      BY <1>0, <1>2, <2>1 DEF CommitTransaction, TypeOK
    <2>3. TypeOK'
      BY <1>0, <1>2, <2>1, <2>2 DEF CommitTransaction, TypeOK
    <2>4. WatermarkCoversDeleted'
      BY <1>0, <1>2 DEF CommitTransaction, WatermarkCoversDeleted
    <2>5. QED
      BY <2>3, <2>4 DEF IInv
  <1>3. ASSUME NEW w \in Writers, RollbackTransaction(w)
        PROVE  IInv'
    BY <1>0, <1>3 DEF RollbackTransaction, IInv, TypeOK, WatermarkCoversDeleted
  <1>4. ASSUME NEW p \in Sweepers, NEW stale \in SUBSET events, PruneSelect(p, stale)
        PROVE  IInv'
    <2>1. FirstOf(PruneLimit, stale \ Locked(p)) \in SUBSET Ids
      BY <1>0, FirstOfSubset DEF TypeOK
    <2>2. victims' \in [Sweepers -> SUBSET Ids]
      BY <1>0, <1>4, <2>1 DEF PruneSelect, TypeOK
    <2>3. QED
      BY <1>0, <1>4, <2>2 DEF PruneSelect, IInv, TypeOK, WatermarkCoversDeleted
  <1>5. ASSUME NEW p \in Sweepers, pruneStreamBatch(p)
        PROVE  IInv'
    <2>1. PICK highest \in victims[p] : /\ IsHighest(highest, victims[p], 0)
                                        /\ deletedThrough' = Watermark(highest)
      BY <1>5 DEF pruneStreamBatch
    <2>2. victims[p] \in SUBSET Ids /\ highest \in Position /\ deletedThrough \in Position
      BY <1>0, <2>1 DEF TypeOK, Ids, Position
    <2>3. /\ deletedThrough' \in Position
          /\ deletedThrough' >= deletedThrough /\ deletedThrough' >= highest
      BY <2>1, <2>2, MaxInPosition DEF Watermark
    <2>4. exposed' \in [Causes -> SUBSET Ids]
      BY <1>0, <1>5, <2>2 DEF pruneStreamBatch, TypeOK
    <2>5. TypeOK'
      BY <1>0, <1>5, <2>3, <2>4 DEF pruneStreamBatch, TypeOK
    <2>6. ASSUME NEW e \in committed \ events'
          PROVE  e <= deletedThrough'
      <3>1. e \in Nat /\ deletedThrough \in Nat /\ deletedThrough' \in Nat /\ highest \in Nat
        BY <1>0, <2>2, <2>3 DEF TypeOK, Ids, Position
      <3>2. CASE e \in victims[p]
        BY <2>1, <2>3, <3>1, <3>2 DEF IsHighest
      <3>3. CASE e \notin victims[p]
        BY <1>0, <1>5, <2>3, <3>1, <3>3 DEF pruneStreamBatch, WatermarkCoversDeleted
      <3>4. QED
        BY <3>2, <3>3
    <2>7. QED
      BY <1>5, <2>5, <2>6 DEF pruneStreamBatch, IInv, WatermarkCoversDeleted
  <1>6. ASSUME NEW p \in Sweepers, PruneRollback(p)
        PROVE  IInv'
    BY <1>0, <1>6 DEF PruneRollback, IInv, TypeOK, WatermarkCoversDeleted
  <1>7. ASSUME ScanWindow
        PROVE  IInv'
    <2>1. PICK scanned \in Position :
             /\ IsHighest(scanned, Window(conn.afterID), conn.afterID)
             /\ IF scanned = conn.afterID
                THEN Respond({}, conn.afterID, deletedThrough)
                ELSE /\ conn' = [conn EXCEPT !.phase = "reading", !.scanned = scanned,
                                             !.retained = deletedThrough]
                     /\ UNCHANGED wire
      BY <1>7 DEF ScanWindow
    <2>2. conn.afterID \in Position /\ deletedThrough \in Position
      BY <1>0 DEF TypeOK
    <2>3. /\ wire' \in SUBSET Message
          /\ conn' \in [phase: Phases, afterID: Position, scanned: Position,
                        retained: Position]
      <3>1. CASE scanned = conn.afterID
        BY <1>0, <2>1, <2>2, <3>1, RespondType
      <3>2. CASE scanned # conn.afterID
        BY <1>0, <2>1, <2>2, <3>2 DEF TypeOK, Phases
      <3>3. QED
        BY <3>1, <3>2
    <2>4. exposed' \in [Causes -> SUBSET Ids]
      BY <1>0, <1>7 DEF ScanWindow, TypeOK
    <2>5. QED
      BY <1>0, <1>7, <2>3, <2>4 DEF ScanWindow, IInv, TypeOK, WatermarkCoversDeleted
  <1>8. ASSUME ReadWindow
        PROVE  IInv'
    <2>1. /\ {e \in events \cap Visible : InWindow(e)} \in SUBSET Ids
          /\ conn.scanned \in Position /\ conn.retained \in Position
      BY <1>0 DEF TypeOK
    <2>2. /\ wire' \in SUBSET Message
          /\ conn' \in [phase: Phases, afterID: Position, scanned: Position,
                        retained: Position]
      BY <1>0, <1>8, <2>1, RespondType DEF ReadWindow
    <2>3. QED
      BY <1>0, <1>8, <2>2 DEF ReadWindow, IInv, TypeOK, WatermarkCoversDeleted
  <1>9. ASSUME BeginSnapshot
        PROVE  IInv'
    <2>1. snapshot' \in [open: BOOLEAN, cursor: Position]
      BY <1>9 DEF BeginSnapshot
    <2>2. QED
      BY <1>0, <1>9, <2>1 DEF BeginSnapshot, IInv, TypeOK, WatermarkCoversDeleted
  <1>10. ASSUME FinishSnapshot
         PROVE  IInv'
    <2>1. cursor' \in Position
      BY <1>0, <1>10, MaxInPosition DEF FinishSnapshot, TypeOK
    <2>2. NoRequest \in [open: BOOLEAN, cursor: Position]
      BY DEF NoRequest, Position
    <2>3. QED
      BY <1>0, <1>10, <2>1, <2>2
      DEF FinishSnapshot, IInv, TypeOK, WatermarkCoversDeleted
  <1>11. ASSUME Connect
         PROVE  IInv'
    <2>1. 0 \in Position /\ "waiting" \in Phases
      BY DEF Position, Phases
    <2>2. QED
      BY <1>0, <1>11, <2>1 DEF Connect, IInv, TypeOK, WatermarkCoversDeleted
  <1>12. ASSUME Drop
         PROVE  IInv'
    <2>1. Closed \in [phase: Phases, afterID: Position, scanned: Position,
                      retained: Position]
      BY DEF Closed, Phases, Position
    <2>2. QED
      BY <1>0, <1>12, <2>1 DEF Drop, IInv, TypeOK, WatermarkCoversDeleted
  <1>13. ASSUME NEW m \in Message, handleEvent(m) \/ handleGap(m)
         PROVE  IInv'
    <2>0. m.id \in Position /\ (m.type = "event" => m.id \in Ids)
      BY DEF Message, Ids, Position
    <2>1. cursor' = MaxOf(cursor, m.id) /\ cursor' \in Position
      <3>1. cursor' = MaxOf(cursor, m.id)
        BY <1>13 DEF handleEvent, handleGap
      <3>2. QED
        BY <1>0, <2>0, <3>1, MaxInPosition DEF TypeOK
    <2>2. known' \in SUBSET Ids /\ owed' \in BOOLEAN
      BY <1>0, <1>13, <2>0 DEF handleEvent, handleGap, TypeOK
    <2>3. wire' \in SUBSET Message
      BY <1>0, <1>13 DEF handleEvent, handleGap, TypeOK
    <2>4. QED
      BY <1>0, <1>13, <2>1, <2>2, <2>3
      DEF handleEvent, handleGap, IInv, TypeOK, WatermarkCoversDeleted
  <1>14. CASE UNCHANGED vars
    BY <1>0, <1>14 DEF vars, IInv, TypeOK, WatermarkCoversDeleted
  <1>15. QED
    BY <1>1, <1>2, <1>3, <1>4, <1>5, <1>6, <1>7, <1>8, <1>9, <1>10, <1>11, <1>12,
       <1>13, <1>14 DEF Next

-----------------------------------------------------------------------------
(***************************************************************************)
(* Theorems.                                                               *)
(***************************************************************************)

\* The inductive invariant holds in every reachable state.
THEOREM Invariance == Spec => []IInv
  <1>1. Init => IInv
    BY InitOK
  <1>2. IInv /\ [Next]_vars => IInv'
    BY NextOK
  <1>3. QED
    BY <1>1, <1>2, PTL DEF Spec

\* The tables, the cursors and the connection keep their types.
THEOREM TypeCorrect == Spec => []TypeOK
  <1>1. IInv => TypeOK
    BY DEF IInv
  <1>2. QED
    BY <1>1, Invariance, PTL

\* pruneStreamBatch never deletes an event above deleted_through, with any
\* number of sweeps racing and whatever rows each skips.
THEOREM WatermarkSound == Spec => []WatermarkCoversDeleted
  <1>1. IInv => WatermarkCoversDeleted
    BY DEF IInv
  <1>2. QED
    BY <1>1, Invariance, PTL

-----------------------------------------------------------------------------
(***************************************************************************)
(* No silent loss.  The property speaks of the stream as it stands; it is  *)
(* kept because the client's cursor is sound by itself, which is what is   *)
(* left of the stream when a connection drops, because a message on the    *)
(* wire has everything below it before it or settled, and because a poll   *)
(* under way holds what its window will show.                              *)
(***************************************************************************)
Changes == committed \cap Visible

\* The client takes a snapshot whatever becomes of the connection.
SnapshotDue == ~ready \/ snapshot.open \/ owed

Settled(e) == e \in known \/ SnapshotDue \/ \E c \in Causes : e \in exposed[c]

GapSent == \E m \in wire : m.type = "stream.gap"

Underway(e) == Settled(e) \/ EventMessage(e) \in wire \/ GapSent

\* No position is beyond what was committed, so what commits below a position
\* later was overtaken.
Below(p) == p = 0 \/ \E x \in committed : p <= x

PositionsOK ==
    /\ events \subseteq committed
    /\ \A p \in Sweepers : victims[p] \subseteq committed
    /\ Below(cursor) /\ Below(deletedThrough) /\ Below(snapshot.cursor)
    /\ Below(conn.afterID) /\ Below(conn.scanned) /\ Below(conn.retained)
    /\ conn.phase = "reading" => conn.afterID < conn.scanned

\* Resuming from the cursor misses nothing, or is answered with a gap.
CursorOK == \A e \in Changes : e <= cursor => Settled(e) \/ cursor < deletedThrough

WireOK ==
    /\ conn.phase = "closed" => wire = {}
    /\ \A m \in wire :
          /\ m.id <= conn.afterID
          /\ m.type = "event" => \A e \in Changes : e <= m.id =>
                \/ Settled(e)
                \/ EventMessage(e) \in wire
                \/ \E n \in wire : n.type = "stream.gap" /\ n.id < m.id

WaitingOK(e) ==
    conn.phase = "waiting" /\ e <= conn.afterID =>
        Underway(e) \/ conn.afterID < deletedThrough

ReadingOK(e) ==
    conn.phase = "reading" /\ e <= conn.scanned =>
        \/ Underway(e)
        \/ IsGap(conn.afterID, conn.retained)
        \/ e \in events /\ conn.afterID < e

StreamOK == \A e \in Changes : WaitingOK(e) /\ ReadingOK(e)

Losses == PositionsOK /\ CursorOK /\ WireOK /\ StreamOK

-----------------------------------------------------------------------------
\* The invariant says what the property says: what is beyond the stream's
\* position is in the table or below the watermark.
LEMMA LossesEnough ==
    ASSUME IInv, Losses
    PROVE  OnlyKnownLosses
  <1> SUFFICES ASSUME NEW e \in Changes
               PROVE  Told(e) \/ \E c \in Causes : e \in exposed[c]
    BY DEF OnlyKnownLosses, NothingMissed, Changes
  <1>1. /\ e \in Nat /\ cursor \in Nat /\ deletedThrough \in Nat /\ e \in committed
        /\ conn.afterID \in Nat /\ conn.scanned \in Nat /\ conn.phase \in Phases
    BY DEF IInv, TypeOK, Ids, Position, Changes
  <1>2. e \in events \/ e <= deletedThrough
    BY <1>1 DEF IInv, WatermarkCoversDeleted
  <1>3. Underway(e) => Told(e) \/ \E c \in Causes : e \in exposed[c]
    BY DEF Underway, Settled, SnapshotDue, GapSent, Told, SnapshotAhead
  <1>4. CASE conn.phase = "closed"
    <2>1. Reached = cursor
      BY <1>4 DEF Reached
    <2>2. e <= cursor => Settled(e) \/ cursor < deletedThrough
      BY DEF Losses, CursorOK
    <2>3. QED
      BY <1>1, <1>2, <1>3, <2>1, <2>2 DEF Underway, Told, SnapshotAhead
  <1>5. CASE conn.phase = "waiting"
    <2>1. Reached = conn.afterID
      BY <1>5 DEF Reached
    <2>2. e <= conn.afterID => Underway(e) \/ conn.afterID < deletedThrough
      BY <1>5 DEF Losses, StreamOK, WaitingOK
    <2>3. QED
      BY <1>1, <1>2, <1>3, <2>1, <2>2 DEF Told, SnapshotAhead
  <1>6. CASE conn.phase = "reading" /\ ~IsGap(conn.afterID, conn.retained)
    <2>1. Reached = conn.scanned
      BY <1>6 DEF Reached
    <2>2. e <= conn.scanned => Underway(e) \/ (e \in events /\ conn.afterID < e)
      BY <1>6 DEF Losses, StreamOK, ReadingOK
    <2>3. QED
      BY <1>1, <1>2, <1>3, <1>6, <2>1, <2>2 DEF Told, SnapshotAhead, InWindow
  <1>7. CASE conn.phase = "reading" /\ IsGap(conn.afterID, conn.retained)
    BY <1>7 DEF Told, SnapshotAhead
  <1>8. QED
    BY <1>1, <1>4, <1>5, <1>6, <1>7 DEF Phases

\* At first nothing was committed.
LEMMA LossesInit == Init => Losses
  BY DEF Init, Losses, PositionsOK, CursorOK, WireOK, StreamOK, Changes, Below, NoRequest,
         Closed

\* A step of the tables, which the connection and the client do not notice.
LEMMA TableStep ==
    ASSUME IInv, Losses, UNCHANGED <<clientVars, conn, wire>>,
           deletedThrough' \in Nat, deletedThrough <= deletedThrough',
           committed' \subseteq Ids,
           \A e \in Changes, c \in Causes : e \in exposed[c] => e \in exposed'[c],
           \A e \in Changes' \ Changes : \A x \in committed :
               e <= x => \E c \in Causes : e \in exposed'[c],
           \A e \in events \ events' : InWindow(e) => \E c \in Causes : e \in exposed'[c]
    PROVE  CursorOK' /\ WireOK' /\ StreamOK'
  <1> USE DEF clientVars
  <1>1. \A e \in Changes : Settled(e) => Settled(e)'
    BY DEF Settled, SnapshotDue
  <1>2. ASSUME NEW e \in Changes', e \notin Changes, NEW p \in Position, Below(p), e <= p
        PROVE  Settled(e)'
    <2>1. e \in Nat \ {0} /\ p \in Nat
      BY <1>2 DEF Changes, Ids, Position
    <2>2. PICK x \in committed : p <= x
      BY <1>2, <2>1 DEF Below
    <2>3. x \in Nat
      BY <2>2 DEF IInv, TypeOK, Ids
    <2>4. e <= x
      BY <1>2, <2>1, <2>2, <2>3
    <2>5. QED
      BY <1>2, <2>4 DEF Settled
  <1>3. /\ cursor \in Position /\ conn.afterID \in Position /\ conn.scanned \in Position
        /\ Below(cursor) /\ Below(conn.afterID) /\ Below(conn.scanned)
        /\ deletedThrough \in Nat
    BY DEF IInv, TypeOK, Losses, PositionsOK, Position
  <1>4. CursorOK'
    <2> SUFFICES ASSUME NEW e \in Changes', e <= cursor
                 PROVE  Settled(e)' \/ cursor < deletedThrough'
      BY DEF CursorOK
    <2>1. CASE e \notin Changes
      BY <1>2, <1>3, <2>1
    <2>2. CASE e \in Changes
      BY <1>1, <1>3, <2>2 DEF Losses, CursorOK, Position
    <2>3. QED
      BY <2>1, <2>2
  <1>5. WireOK'
    <2> SUFFICES ASSUME NEW m \in wire, m.type = "event", NEW e \in Changes', e <= m.id
                 PROVE  Settled(e)' \/ EventMessage(e) \in wire
                        \/ \E n \in wire : n.type = "stream.gap" /\ n.id < m.id
      BY DEF WireOK, Losses
    <2>1. CASE e \notin Changes
      <3>1. m.id \in Nat /\ m.id <= conn.afterID /\ e \in Nat
        BY DEF IInv, TypeOK, Message, Ids, Position, Losses, WireOK, Changes
      <3>2. e <= conn.afterID
        BY <1>3, <3>1 DEF Position
      <3>3. QED
        BY <1>2, <1>3, <2>1, <3>2
    <2>2. CASE e \in Changes
      BY <1>1, <2>2 DEF Losses, WireOK
    <2>3. QED
      BY <2>1, <2>2
  <1>6. StreamOK'
    <2> SUFFICES ASSUME NEW e \in Changes'
                 PROVE  WaitingOK(e)' /\ ReadingOK(e)'
      BY DEF StreamOK
    <2>1. Settled(e)' => Underway(e)'
      BY DEF Underway
    <2>2. CASE e \notin Changes
      BY <1>2, <1>3, <2>1, <2>2 DEF WaitingOK, ReadingOK
    <2>3. CASE e \in Changes
      <3>1. Underway(e) => Underway(e)'
        BY <1>1, <2>3 DEF Underway, GapSent
      <3>2. WaitingOK(e)'
        BY <1>3, <2>3, <3>1 DEF Losses, StreamOK, WaitingOK, Position
      <3>3. ReadingOK(e)'
        <4>1. conn.phase = "reading" /\ e <= conn.scanned /\ e \in events /\ conn.afterID < e
              => e \in events' \/ Settled(e)'
          BY DEF InWindow, Settled
        <4>2. QED
          BY <2>1, <2>3, <3>1, <4>1 DEF Losses, StreamOK, ReadingOK, IsGap
      <3>4. QED
        BY <3>2, <3>3
    <2>4. QED
      BY <2>2, <2>3
  <1>7. QED
    BY <1>4, <1>5, <1>6

\* A step of the client or of the connection: what was committed stays.
LEMMA SettledStays ==
    ASSUME UNCHANGED <<committed, exposed>>, known \subseteq known',
           SnapshotDue => SnapshotDue' \/ committed \subseteq known'
    PROVE  /\ Changes' = Changes
           /\ \A e \in Changes : Settled(e) => Settled(e)'
  BY DEF Changes, Settled

\* The handler's answer: a gap settles everything once it is received, and
\* without one the stream moves over a window it has put on the wire.
LEMMA RespondOK ==
    ASSUME IInv, Losses, NEW batch \in SUBSET Ids, NEW scanned \in Position,
           NEW retained \in Position, Respond(batch, scanned, retained),
           conn.phase # "closed", Below(scanned), Below(retained), conn.afterID <= scanned,
           UNCHANGED <<serverVars, clientVars>>,
           \A e \in Changes : Settled(e) => Settled(e)',
           \A e \in batch : conn.afterID < e /\ e <= scanned,
           \A e \in Changes : e <= scanned =>
               Underway(e) \/ IsGap(conn.afterID, retained) \/ e \in batch
    PROVE  Losses'
  <1> USE DEF serverVars, clientVars
  <1>1. /\ conn.afterID \in Nat /\ scanned \in Nat /\ retained \in Nat
        /\ wire \subseteq Message
        /\ conn \in [phase: Phases, afterID: Position, scanned: Position,
                      retained: Position]
    BY DEF IInv, TypeOK, Position
  <1>2. Changes' = Changes /\ Changes \subseteq Nat
    BY DEF Changes, IInv, TypeOK, Ids
  <1>3. \A m \in wire : m.id \in Nat /\ m.id <= conn.afterID
    BY DEF IInv, TypeOK, Message, Ids, Position, Losses, WireOK
  <1>4. CursorOK'
    BY <1>2 DEF Losses, CursorOK
  <1>5. CASE IsGap(conn.afterID, retained)
    <2>1. /\ wire' = wire \cup {GapMessage(retained)}
          /\ conn'.phase = "waiting" /\ conn'.afterID = retained
          /\ conn'.scanned = 0 /\ conn'.retained = 0
      BY <1>1, <1>5 DEF Respond
    <2>2. /\ GapMessage(retained) \in wire' /\ GapMessage(retained).type = "stream.gap"
          /\ GapMessage(retained).id = retained /\ conn.afterID < retained
      BY <1>5, <2>1 DEF GapMessage, IsGap
    <2>3. PositionsOK'
      BY <2>1 DEF Losses, PositionsOK, Below
    <2>4. StreamOK'
      BY <2>1, <2>2 DEF StreamOK, WaitingOK, ReadingOK, Underway, GapSent
    <2>5. WireOK'
      <3>1. \A m \in wire' : m.id <= conn'.afterID
        BY <1>1, <1>3, <2>1, <2>2
      <3>2. \A m \in wire' : m.type = "event" => m \in wire
        BY <2>1, <2>2
      <3>3. QED
        BY <1>2, <2>1, <3>1, <3>2 DEF Losses, WireOK
    <2>6. QED
      BY <1>4, <2>3, <2>4, <2>5 DEF Losses
  <1>6. CASE ~IsGap(conn.afterID, retained)
    <2>1. /\ wire' = wire \cup {EventMessage(e) : e \in batch}
          /\ conn'.phase = "waiting" /\ conn'.afterID = scanned
          /\ conn'.scanned = 0 /\ conn'.retained = 0
      BY <1>1, <1>6 DEF Respond
    <2>2. \A e : EventMessage(e).type = "event" /\ EventMessage(e).id = e
      BY DEF EventMessage
    <2>3. PositionsOK'
      BY <2>1 DEF Losses, PositionsOK, Below
    <2>4. \A e \in Changes : e <= scanned =>
             Settled(e)' \/ EventMessage(e) \in wire' \/ GapSent
      BY <1>6, <2>1 DEF Underway
    <2>5. StreamOK'
      BY <1>2, <2>1, <2>4 DEF StreamOK, WaitingOK, ReadingOK, Underway, GapSent
    <2>6. WireOK'
      <3>1. \A m \in wire' : m \in wire \/ \E e \in batch : m = EventMessage(e)
        BY <2>1
      <3>2. \A m \in wire' : m.id <= conn'.afterID
        BY <1>1, <1>3, <2>1, <2>2, <3>1
      <3>3. ASSUME NEW m \in wire', m.type = "event", NEW e \in Changes, e <= m.id
            PROVE  \/ Settled(e)'
                   \/ EventMessage(e) \in wire'
                   \/ \E n \in wire' : n.type = "stream.gap" /\ n.id < m.id
        <4>1. CASE m \in wire
          BY <2>1, <3>3, <4>1 DEF Losses, WireOK
        <4>2. CASE m \notin wire
          <5>1. PICK x \in batch : m = EventMessage(x)
            BY <3>1, <4>2
          <5>2. x \in Nat /\ m.id = x /\ conn.afterID < x /\ x <= scanned
            BY <2>2, <5>1 DEF Ids
          <5>3. e <= scanned
            BY <1>1, <1>2, <3>3, <5>2
          <5>4. GapSent => \E n \in wire' : n.type = "stream.gap" /\ n.id < m.id
            BY <1>1, <1>3, <2>1, <5>2 DEF GapSent
          <5>5. QED
            BY <2>4, <5>3, <5>4
        <4>3. QED
          BY <4>1, <4>2
      <3>4. QED
        BY <1>2, <2>1, <3>2, <3>3 DEF WireOK
    <2>7. QED
      BY <1>4, <2>3, <2>5, <2>6 DEF Losses
  <1>7. QED
    BY <1>5, <1>6

\* Every action preserves the parts.
LEMMA LossesNext ==
    ASSUME IInv, IInv', Losses, [Next]_vars
    PROVE  Losses'
  <1>0. /\ TypeOK /\ TypeOK' /\ WatermarkCoversDeleted
        /\ PositionsOK /\ CursorOK /\ WireOK /\ StreamOK
        /\ deletedThrough \in Nat /\ deletedThrough' \in Nat
        /\ committed \subseteq Ids /\ committed' \subseteq Ids
    BY DEF IInv, Losses, TypeOK, Position
  <1>00. committed \subseteq Nat
    <2>1. Ids \subseteq Nat
      BY DEF Ids
    <2>2. committed \subseteq Ids
      BY <1>0
    <2>3. QED
      BY <2>1, <2>2
  <1> USE DEF serverVars, clientVars
  <1>1. ASSUME NEW w \in Writers, CommitTransaction(w)
        PROVE  Losses'
    <2>1. /\ events' = events \cup tx[w] /\ committed' = committed \cup tx[w]
          /\ exposed' = [exposed EXCEPT !.overtaken =
                             @ \cup {e \in tx[w] : \E x \in committed : e < x}]
          /\ UNCHANGED <<deletedThrough, victims, clientVars, conn, wire>>
      BY <1>1 DEF CommitTransaction
    <2>2. /\ \A e \in Changes, c \in Causes : e \in exposed[c] => e \in exposed'[c]
          /\ \A e \in tx[w] : \A x \in committed : e < x => e \in exposed'["overtaken"]
          /\ "overtaken" \in Causes
      BY <1>0, <2>1 DEF TypeOK, Causes
    <2>3. ASSUME NEW e \in Changes' \ Changes, NEW x \in committed, e <= x
          PROVE  e \in exposed'["overtaken"]
      <3>1. e \in tx[w] /\ e # x
        BY <2>1, <2>3 DEF Changes
      <3>2. e \in Nat /\ x \in Nat
        BY <1>0, <2>3 DEF Changes, Ids
      <3>3. QED
        BY <2>2, <2>3, <3>1, <3>2
    <2>4. CursorOK' /\ WireOK' /\ StreamOK'
      <3>1. deletedThrough <= deletedThrough' /\ events \ events' = {}
        BY <1>0, <2>1
      <3>2. \A e \in Changes' \ Changes : \A x \in committed :
               e <= x => \E c \in Causes : e \in exposed'[c]
        BY <2>2, <2>3
      <3>3. QED
        BY <1>0, <2>1, <2>2, <3>1, <3>2, TableStep
    <2>5. PositionsOK'
      BY <1>0, <2>1 DEF PositionsOK, Below
    <2>6. QED
      BY <2>4, <2>5 DEF Losses
  <1>2. ASSUME NEW p \in Sweepers, pruneStreamBatch(p)
        PROVE  Losses'
    <2>1. PICK highest \in victims[p] : deletedThrough' = MaxOf(deletedThrough, highest)
      BY <1>2 DEF pruneStreamBatch, Watermark
    <2>2. /\ events' = events \ victims[p] /\ victims' = [victims EXCEPT ![p] = {}]
          /\ exposed' = [exposed EXCEPT !.prunedMidPoll =
                             @ \cup {e \in victims[p] : InWindow(e)}]
          /\ UNCHANGED <<committed, clientVars, conn, wire>>
      BY <1>2 DEF pruneStreamBatch
    <2>3. highest \in committed /\ highest \in Nat
      <3>1. victims[p] \subseteq committed
        BY <1>0 DEF PositionsOK
      <3>2. highest \in committed
        BY <2>1, <3>1
      <3>3. QED
        BY <1>00, <3>2
    <2>4. deletedThrough <= deletedThrough' /\ deletedThrough' \in {deletedThrough, highest}
      BY <1>0, <2>1, <2>3 DEF MaxOf
    <2>5. /\ \A e \in Changes, c \in Causes : e \in exposed[c] => e \in exposed'[c]
          /\ \A e \in events \ events' : InWindow(e) => e \in exposed'["prunedMidPoll"]
          /\ "prunedMidPoll" \in Causes
      BY <1>0, <2>2 DEF TypeOK, Causes
    <2>6. CursorOK' /\ WireOK' /\ StreamOK'
      <3>1. Changes' \ Changes = {}
        BY <2>2 DEF Changes
      <3>2. QED
        BY <1>0, <2>2, <2>4, <2>5, <3>1, TableStep
    <2>7. PositionsOK'
      <3>1. Below(deletedThrough)'
        BY <1>0, <2>2, <2>3, <2>4 DEF PositionsOK, Below
      <3>2. \A q \in Sweepers : victims'[q] \subseteq committed
        BY <1>0, <2>2 DEF PositionsOK, TypeOK
      <3>3. QED
        BY <1>0, <2>2, <3>1, <3>2 DEF PositionsOK, Below
    <2>8. QED
      BY <2>6, <2>7 DEF Losses
  <1>3. ASSUME UNCHANGED <<events, committed, deletedThrough, clientVars, conn, wire,
                           exposed>>,
               \A p \in Sweepers : victims'[p] \subseteq committed
        PROVE  Losses'
    <2>1. CursorOK' /\ WireOK' /\ StreamOK'
      <3>1. /\ deletedThrough <= deletedThrough' /\ events \ events' = {}
            /\ Changes' \ Changes = {}
        BY <1>0, <1>3 DEF Changes
      <3>2. QED
        BY <1>0, <1>3, <3>1, TableStep
    <2>2. PositionsOK'
      BY <1>0, <1>3 DEF PositionsOK, Below
    <2>3. QED
      BY <2>1, <2>2 DEF Losses
  <1>4. ASSUME NEW p \in Sweepers, NEW stale \in SUBSET events, PruneSelect(p, stale)
        PROVE  Losses'
    <2>1. FirstOf(PruneLimit, stale \ Locked(p)) \subseteq committed
      BY <1>0, FirstOfSubset DEF PositionsOK
    <2>2. \A q \in Sweepers : victims'[q] \subseteq committed
      BY <1>0, <1>4, <2>1 DEF PruneSelect, PositionsOK, TypeOK
    <2>3. QED
      BY <1>3, <1>4, <2>2 DEF PruneSelect
  <1>5. ASSUME NEW p \in Sweepers, PruneRollback(p)
        PROVE  Losses'
    <2>1. \A q \in Sweepers : victims'[q] \subseteq committed
      BY <1>0, <1>5 DEF PruneRollback, PositionsOK, TypeOK
    <2>2. QED
      BY <1>3, <1>5, <2>1 DEF PruneRollback
  <1>6. ASSUME NEW w \in Writers, insertStreamEvent(w) \/ RollbackTransaction(w)
        PROVE  Losses'
    BY <1>0, <1>3, <1>6 DEF insertStreamEvent, RollbackTransaction, PositionsOK
  <1>7. CASE UNCHANGED vars
    BY <1>0, <1>3, <1>7 DEF vars, PositionsOK
  <1>8. CASE ScanWindow
    <2>1. PICK scanned \in Position :
            /\ IsHighest(scanned, Window(conn.afterID), conn.afterID)
            /\ IF scanned = conn.afterID
               THEN Respond({}, conn.afterID, deletedThrough)
               ELSE /\ conn' = [conn EXCEPT !.phase = "reading", !.scanned = scanned,
                                            !.retained = deletedThrough]
                    /\ UNCHANGED wire
      BY <1>8 DEF ScanWindow
    <2>2. /\ conn.phase = "waiting" /\ UNCHANGED <<serverVars, clientVars>>
          /\ exposed' = [exposed EXCEPT !.resumedFromZero =
                             IF conn.afterID = 0 THEN @ \cup (committed \ events) ELSE @]
      BY <1>8 DEF ScanWindow
    <2>3. /\ conn.afterID \in Position /\ conn.afterID \in Nat /\ scanned \in Nat
          /\ deletedThrough \in Position
          /\ conn \in [phase: Phases, afterID: Position, scanned: Position,
                        retained: Position]
      BY <1>0 DEF TypeOK, Position
    <2>4. /\ \A e \in Changes, c \in Causes : e \in exposed[c] => e \in exposed'[c]
          /\ conn.afterID = 0 => \A e \in committed \ events : e \in exposed'["resumedFromZero"]
          /\ "resumedFromZero" \in Causes
      BY <1>0, <2>2 DEF TypeOK, Causes
    <2>5. /\ \A e \in Changes : Settled(e) => Settled(e)'
          /\ conn.afterID = 0 => \A e \in Changes : e \in events \/ Settled(e)'
          /\ Changes' = Changes /\ Changes \subseteq Nat \ {0}
      <3>1. Changes' = Changes /\ Changes \subseteq Nat \ {0}
        BY <1>0, <2>2 DEF Changes, Ids
      <3>2. \A e \in Changes : Settled(e) => Settled(e)'
        BY <2>2, <2>4 DEF Settled, SnapshotDue
      <3>3. conn.afterID = 0 => \A e \in Changes : e \in events \/ Settled(e)'
        BY <2>4 DEF Settled, Changes
      <3>4. QED
        BY <3>1, <3>2, <3>3
    <2>6. ASSUME NEW e \in Changes, e <= conn.afterID
          PROVE  Underway(e) \/ IsGap(conn.afterID, deletedThrough)
      BY <1>0, <2>2, <2>3, <2>5, <2>6 DEF StreamOK, WaitingOK, IsGap
    <2>7. CASE scanned = conn.afterID
      <3>1. Respond({}, conn.afterID, deletedThrough)
        BY <2>1, <2>7
      <3>2. QED
        BY <1>0, <2>2, <2>3, <2>5, <2>6, <3>1, RespondOK DEF PositionsOK
    <2>8. CASE scanned # conn.afterID
      <3>1. scanned \in events /\ conn.afterID < scanned
        BY <2>1, <2>8, FirstOfSubset DEF IsHighest, Window
      <3>2. /\ conn'.phase = "reading" /\ conn'.scanned = scanned
            /\ conn'.retained = deletedThrough /\ conn'.afterID = conn.afterID
            /\ wire' = wire
        BY <2>1, <2>3, <2>8
      <3>3. PositionsOK'
        <4>1. Below(scanned)
          BY <1>0, <2>3, <3>1 DEF PositionsOK, Below
        <4>2. QED
          BY <1>0, <2>2, <3>1, <3>2, <4>1 DEF PositionsOK, Below
      <3>4. CursorOK' /\ WireOK'
        BY <1>0, <2>2, <2>5, <3>2 DEF CursorOK, WireOK
      <3>5. ASSUME NEW e \in Changes, e <= scanned
            PROVE  \/ Underway(e)'
                   \/ IsGap(conn.afterID, deletedThrough)
                   \/ e \in events /\ conn.afterID < e
        <4>1. CASE e <= conn.afterID
          BY <2>2, <2>5, <2>6, <3>2, <4>1 DEF Underway, GapSent
        <4>2. CASE ~(e <= conn.afterID) /\ e \notin events
          <5>1. e \in Nat /\ e <= deletedThrough
            BY <1>0, <2>5, <4>2 DEF WatermarkCoversDeleted, Changes
          <5>2. conn.afterID < deletedThrough
            BY <1>0, <2>3, <4>2, <5>1
          <5>3. CASE conn.afterID = 0
            BY <2>5, <4>2, <5>3 DEF Underway
          <5>4. CASE conn.afterID # 0
            BY <2>3, <5>2, <5>4 DEF IsGap
          <5>5. QED
            BY <5>3, <5>4
        <4>3. CASE ~(e <= conn.afterID) /\ e \in events
          BY <2>3, <2>5, <4>3
        <4>4. QED
          BY <4>1, <4>2, <4>3
      <3>6. StreamOK'
        BY <2>2, <2>5, <3>2, <3>5 DEF StreamOK, WaitingOK, ReadingOK, IsGap
      <3>7. QED
        BY <3>3, <3>4, <3>6 DEF Losses
    <2>9. QED
      BY <2>7, <2>8
  <1>9. CASE ReadWindow
    <2> DEFINE batch == {e \in events \cap Visible : InWindow(e)}
    <2>1. /\ conn.phase = "reading" /\ Respond(batch, conn.scanned, conn.retained)
          /\ UNCHANGED <<serverVars, clientVars, exposed>>
      BY <1>9 DEF ReadWindow
    <2>2. /\ batch \in SUBSET Ids /\ conn.afterID \in Nat
          /\ conn.scanned \in Position /\ conn.scanned \in Nat
          /\ conn.retained \in Position
          /\ Below(conn.scanned) /\ Below(conn.retained)
      BY <1>0 DEF TypeOK, Position, PositionsOK
    <2>3. /\ conn.afterID <= conn.scanned
          /\ \A e \in batch : conn.afterID < e /\ e <= conn.scanned
      BY <1>0, <2>1, <2>2 DEF PositionsOK, InWindow
    <2>4. \A e \in Changes : e <= conn.scanned =>
             Underway(e) \/ IsGap(conn.afterID, conn.retained) \/ e \in batch
      BY <1>0, <2>1 DEF StreamOK, ReadingOK, InWindow, Changes
    <2>5. \A e \in Changes : Settled(e) => Settled(e)'
      BY <2>1 DEF Settled, SnapshotDue
    <2> HIDE DEF batch
    <2>6. QED
      BY <2>1, <2>2, <2>3, <2>4, <2>5, RespondOK
  <1>10. ASSUME UNCHANGED <<serverVars, conn, wire, exposed, cursor>>,
                known \subseteq known', Below(snapshot.cursor)',
                SnapshotDue => SnapshotDue' \/ committed \subseteq known'
         PROVE  Losses'
    <2>1. /\ Changes' = Changes /\ \A e \in Changes : Settled(e) => Settled(e)'
      BY <1>10, SettledStays
    <2>2. \A e \in Changes : Underway(e) => Underway(e)'
      BY <1>10, <2>1 DEF Underway, GapSent
    <2>3. PositionsOK'
      BY <1>0, <1>10 DEF PositionsOK, Below
    <2>4. CursorOK' /\ WireOK'
      BY <1>0, <1>10, <2>1 DEF CursorOK, WireOK
    <2>5. StreamOK'
      BY <1>0, <1>10, <2>1, <2>2 DEF StreamOK, WaitingOK, ReadingOK, IsGap
    <2>6. QED
      BY <2>3, <2>4, <2>5 DEF Losses
  <1>11. CASE BeginSnapshot
    <2>1. PICK c \in Position : /\ IsHighest(c, events \cap Visible, 0)
                                /\ snapshot' = [open |-> TRUE, cursor |-> c]
      BY <1>11 DEF BeginSnapshot
    <2>2. SnapshotDue' /\ snapshot'.cursor = c
      BY <2>1 DEF SnapshotDue
    <2>3. c = 0 \/ (c \in committed /\ c \in Nat)
      BY <1>0, <2>1 DEF IsHighest, PositionsOK, Ids
    <2>4. UNCHANGED <<serverVars, conn, wire, exposed, cursor, known>>
      BY <1>11 DEF BeginSnapshot
    <2>5. Below(snapshot.cursor)'
      BY <2>2, <2>3, <2>4 DEF Below
    <2>6. QED
      BY <1>10, <2>2, <2>4, <2>5
  <1>12. CASE FinishSnapshot
    <2>1. /\ UNCHANGED <<serverVars, conn, wire, exposed>>
          /\ known' = known \cup committed /\ snapshot' = NoRequest
          /\ cursor' = MaxOf(cursor, snapshot.cursor)
      BY <1>12 DEF FinishSnapshot
    <2>2. /\ cursor' \in {cursor, snapshot.cursor} /\ snapshot'.cursor = 0
      BY <2>1 DEF MaxOf, NoRequest
    <2>3. Changes' = Changes /\ \A e \in Changes : Settled(e)'
      BY <2>1 DEF Changes, Settled
    <2>4. PositionsOK'
      BY <1>0, <2>1, <2>2 DEF PositionsOK, Below
    <2>5. CursorOK' /\ StreamOK'
      BY <2>3 DEF CursorOK, StreamOK, WaitingOK, ReadingOK, Underway
    <2>6. WireOK'
      BY <1>0, <2>1, <2>3 DEF WireOK
    <2>7. QED
      BY <2>4, <2>5, <2>6 DEF Losses
  <1>13. CASE Connect
    <2>1. /\ conn.phase = "closed" /\ UNCHANGED <<serverVars, clientVars, wire, exposed>>
          /\ conn' = [phase |-> "waiting", afterID |-> cursor, scanned |-> 0,
                      retained |-> 0]
      BY <1>13 DEF Connect
    <2>2. /\ conn'.phase = "waiting" /\ conn'.afterID = cursor
          /\ conn'.scanned = 0 /\ conn'.retained = 0
      BY <2>1
    <2>3. Changes' = Changes /\ \A e \in Changes : Settled(e) => Settled(e)'
      BY <2>1, SettledStays DEF SnapshotDue
    <2>4. PositionsOK'
      BY <1>0, <2>1, <2>2 DEF PositionsOK, Below
    <2>5. CursorOK'
      BY <1>0, <2>1, <2>3 DEF CursorOK
    <2>6. WireOK'
      BY <1>0, <2>1 DEF WireOK
    <2>7. StreamOK'
      BY <1>0, <2>1, <2>2, <2>3 DEF CursorOK, StreamOK, WaitingOK, ReadingOK, Underway
    <2>8. QED
      BY <2>4, <2>5, <2>6, <2>7 DEF Losses
  <1>14. CASE Drop
    <2>1. /\ UNCHANGED <<serverVars, clientVars, exposed>> /\ conn' = Closed /\ wire' = {}
      BY <1>14 DEF Drop
    <2>2. /\ conn'.phase = "closed" /\ conn'.afterID = 0
          /\ conn'.scanned = 0 /\ conn'.retained = 0
      BY <2>1 DEF Closed
    <2>3. Changes' = Changes /\ \A e \in Changes : Settled(e) => Settled(e)'
      BY <2>1, SettledStays DEF SnapshotDue
    <2>4. PositionsOK' /\ CursorOK'
      BY <1>0, <2>1, <2>2, <2>3 DEF PositionsOK, Below, CursorOK
    <2>5. WireOK' /\ StreamOK'
      BY <2>1, <2>2 DEF WireOK, StreamOK, WaitingOK, ReadingOK
    <2>6. QED
      BY <2>4, <2>5 DEF Losses
  <1>15. ASSUME NEW m \in Message, handleEvent(m)
         PROVE  Losses'
    <2>1. /\ m \in wire /\ \A n \in wire : m.id <= n.id
          /\ m.type = "event" /\ wire' = wire \ {m}
          /\ cursor' = MaxOf(cursor, m.id) /\ known' = known \cup {m.id}
          /\ UNCHANGED <<serverVars, ready, owed, snapshot, conn, exposed>>
      BY <1>15 DEF handleEvent, First
    <2>2. /\ m.id \in Nat /\ conn.afterID \in Nat /\ cursor \in Nat
          /\ m.id <= conn.afterID /\ m = EventMessage(m.id)
      BY <1>0, <2>1 DEF TypeOK, Position, Ids, Message, WireOK, EventMessage
    <2>3. cursor' \in {cursor, m.id} /\ cursor <= cursor'
      BY <2>1, <2>2 DEF MaxOf
    <2>4. SnapshotDue' = SnapshotDue
      BY <2>1 DEF SnapshotDue
    <2>5. Changes' = Changes /\ \A e \in Changes : Settled(e) => Settled(e)'
      BY <2>1, <2>4, SettledStays
    <2>6. Changes \subseteq Nat /\ \A n \in wire : n.id \in Nat
      BY <1>0 DEF Changes, Ids, TypeOK, Message, Position
    <2>7. ASSUME NEW e, EventMessage(e) \in wire
          PROVE  EventMessage(e) \in wire' \/ Settled(e)'
      <3>1. EventMessage(e).id = e
        BY DEF EventMessage
      <3>2. EventMessage(e) = m => e \in known'
        BY <2>1, <3>1
      <3>3. QED
        BY <2>1, <2>7, <3>2 DEF Settled
    <2>8. \A n \in wire : n.type = "stream.gap" => n \in wire'
      BY <2>1
    <2>9. PositionsOK'
      <3>1. Below(m.id)
        <4>1. Below(conn.afterID)
          BY <1>0 DEF PositionsOK
        <4>2. committed \subseteq Nat
          BY <1>0 DEF Ids
        <4>3. QED
          BY <2>2, <4>1, <4>2 DEF Below
      <3>2. QED
        BY <1>0, <2>1, <2>3, <3>1 DEF PositionsOK, Below
    <2>10. ASSUME NEW e \in Changes, e <= m.id
           PROVE  Settled(e)'
      <3>1. \/ Settled(e)
            \/ EventMessage(e) \in wire
            \/ \E n \in wire : n.type = "stream.gap" /\ n.id < m.id
        BY <1>0, <2>1, <2>10 DEF WireOK
      <3>2. ~ \E n \in wire : n.id < m.id
        BY <2>1, <2>2, <2>6
      <3>3. CASE EventMessage(e) \in wire
        <4>1. EventMessage(e).id = e
          BY DEF EventMessage
        <4>2. e = m.id
          BY <2>1, <2>2, <2>6, <2>10, <3>3, <4>1
        <4>3. QED
          BY <2>1, <4>2 DEF Settled
      <3>4. QED
        BY <2>5, <3>1, <3>2, <3>3
    <2>11. CursorOK'
      BY <1>0, <2>1, <2>3, <2>5, <2>10 DEF CursorOK
    <2>12. WireOK'
      BY <1>0, <2>1, <2>5, <2>7, <2>8 DEF WireOK
    <2>13. \A e \in Changes : Underway(e) => Underway(e)'
      BY <2>5, <2>7, <2>8 DEF Underway, GapSent
    <2>14. StreamOK'
      BY <1>0, <2>1, <2>5, <2>13 DEF StreamOK, WaitingOK, ReadingOK, IsGap
    <2>15. QED
      BY <2>9, <2>11, <2>12, <2>14 DEF Losses
  <1>16. ASSUME NEW m \in Message, handleGap(m)
         PROVE  Losses'
    <2>1. /\ m \in wire /\ wire' = wire \ {m} /\ owed'
          /\ cursor' = MaxOf(cursor, m.id)
          /\ UNCHANGED <<serverVars, ready, known, snapshot, conn, exposed>>
      BY <1>16 DEF handleGap, First
    <2>2. /\ m.id \in Nat /\ conn.afterID \in Nat /\ m.id <= conn.afterID
          /\ cursor' \in {cursor, m.id}
      BY <1>0, <2>1 DEF TypeOK, Position, Ids, Message, WireOK, MaxOf
    <2>3. \A e : Settled(e)'
      BY <2>1 DEF Settled, SnapshotDue
    <2>4. PositionsOK'
      <3>1. Below(m.id)
        <4>1. Below(conn.afterID)
          BY <1>0 DEF PositionsOK
        <4>2. committed \subseteq Nat
          BY <1>0 DEF Ids
        <4>3. QED
          BY <2>2, <4>1, <4>2 DEF Below
      <3>2. QED
        BY <1>0, <2>1, <2>2, <3>1 DEF PositionsOK, Below
    <2>5. CursorOK' /\ StreamOK'
      BY <2>3 DEF CursorOK, StreamOK, WaitingOK, ReadingOK, Underway
    <2>6. WireOK'
      BY <1>0, <2>1, <2>3 DEF WireOK
    <2>7. QED
      BY <2>4, <2>5, <2>6 DEF Losses
  <1>17. QED
    BY <1>1, <1>2, <1>4, <1>5, <1>6, <1>7, <1>8, <1>9, <1>11, <1>12, <1>13, <1>14, <1>15,
       <1>16 DEF Next

-----------------------------------------------------------------------------
\* The stream loses a change silently in the three known ways and in no other
\* (StreamEvents, streamAlerts, pruneStreamBatch, handleGap), for any number
\* of writers, sweeps, polls, drops and gaps.
THEOREM LossesKnown == Spec => []OnlyKnownLosses
  <1>1. Init => IInv /\ Losses
    BY InitOK, LossesInit
  <1>2. IInv /\ Losses /\ [Next]_vars => (IInv /\ Losses)'
    BY NextOK, LossesNext
  <1>3. IInv /\ Losses => OnlyKnownLosses
    BY LossesEnough
  <1>4. QED
    BY <1>1, <1>2, <1>3, PTL DEF Spec

-----------------------------------------------------------------------------
(***************************************************************************)
(* The console's list, the stream's client (Console).                      *)
(*                                                                         *)
(* ClientInv is inductive: RequestsOK says whose answers may still land,   *)
(* which RowsOK needs, and SnapshotOK ties the stream to the list it was   *)
(* opened under.                                                           *)
(***************************************************************************)
USE ConsoleConstants

StreamState == [open : BOOLEAN, cursor : Nat, at : {Unread} \cup Nat]

\* ConsoleTypeOK in parts, the cursor of a ready list added.
CountType ==
    /\ version \in 0..MaxVersion
    /\ orphans \in Nat
    /\ moves \in 0..MaxMoves
    /\ faults \in 0..MaxFaults

FlagType ==
    /\ unlocked \in BOOLEAN
    /\ pageInFlight \in BOOLEAN /\ loadingMore \in BOOLEAN
    /\ liveTimer \in BOOLEAN /\ livePending \in BOOLEAN

ListType ==
    /\ query \in Queries
    /\ status \in {"loading", "ready", "error"}
    /\ status = "ready" => /\ data.query \in Queries
                           /\ data.rows \subseteq Rows
                           /\ data.rows # {}
                           /\ data.cursor \in Nat
    /\ status # "ready" => data = NoData
    /\ nextCursor \in {0} \cup 2..LastPage

RequestType ==
    /\ first \in Requests \cup {None}
    /\ page \in Requests \cup {None}
    /\ live \in Requests \cup {None}

ClientTypes ==
    /\ CountType /\ FlagType /\ ListType /\ RequestType
    /\ stream \in StreamState
    /\ excuse \subseteq Excuses

\* A ready list is an unlocked one; the stream is open only under it, under
\* its view and no earlier than its cursor.
SnapshotOK ==
    /\ status = "ready" => unlocked /\ data.cursor \in Nat
    /\ stream.open => /\ status = "ready"
                      /\ ViewOf[data.query] = ViewOf[query]
                      /\ stream.cursor >= data.cursor

\* What may still be applied was asked for under the query in force: always
\* for pages, and for a live refresh unless it crossed a change of query.
RequestsOK ==
    /\ first # None => unlocked /\ first.query = query
    /\ page # None => page.query = query
    /\ "crossed" \notin excuse /\ live # None => live.query = query

\* The rows are of one query, and of the one in force wherever a page may
\* still be added to them.
RowsOK ==
    "crossed" \notin excuse =>
        /\ \A r1, r2 \in data.rows : r1.query = r2.query
        /\ status = "ready" /\ (nextCursor # 0 \/ page # None) =>
              \A r \in data.rows : r.query = query

ClientInv == ClientTypes /\ SnapshotOK /\ RequestsOK /\ RowsOK

-----------------------------------------------------------------------------
(***************************************************************************)
(* The operators of the list.                                              *)
(***************************************************************************)
\* A request that is asked for is a request.
LEMMA AskRequest ==
    ASSUME NEW q \in Queries, NEW n \in 1..LastPage
    PROVE  /\ Ask(q, n) \in Requests
           /\ Ask(q, n) # None
           /\ Ask(q, n).query = q
  <1>1. /\ Ask(q, n) \in Requests
        /\ Ask(q, n).query = q
        /\ Ask(q, n).page = n
    BY DEF Ask, Requests
  <1>2. None.page = 0
    BY DEF None
  <1>3. QED
    BY <1>1, <1>2

\* The first page of any query can be asked for.
LEMMA AskFirst ==
    ASSUME NEW q \in Queries
    PROVE  /\ Ask(q, 1) \in Requests
           /\ Ask(q, 1).query = q
  <1>1. 1 \in 1..LastPage
    OBVIOUS
  <1>2. QED
    BY <1>1, AskRequest

\* The server's answer fills in what its list was at, and nothing else.
LEMMA ServedRequest ==
    ASSUME NEW r \in Requests \cup {None}, Serves(r), NEW v \in Nat
    PROVE  /\ [r EXCEPT !.read = v] \in Requests
           /\ [r EXCEPT !.read = v].query = r.query
  BY DEF Serves, Requests

\* An answer that is applied is a page of rows.
LEMMA LandedRow ==
    ASSUME NEW r \in Requests \cup {None},
           r # None, r.read # Unread
    PROVE  /\ r \in Rows
           /\ r.query \in Queries /\ r.page \in 1..LastPage /\ r.read \in Nat
  BY DEF Requests, Rows

\* The cursor after a page is no cursor, or the number of a later page.
LEMMA AfterPage ==
    ASSUME LastPage \in Nat, NEW n \in 1..LastPage
    PROVE  After(n) \in {0} \cup 2..LastPage
  BY DEF After

\* The list a first page or a live refresh leaves on screen.
LEMMA ShownList ==
    ASSUME NEW r \in Rows
    PROVE  /\ Shows(r).query \in Queries
           /\ Shows(r).cursor \in Nat
           /\ Shows(r).rows = {r}
  BY DEF Shows, Rows

\* useAlertStream leaves the stream open only under the snapshot's view, and
\* never behind the snapshot.
LEMMA RenderedStream ==
    ASSUME NEW u, NEW st, NEW d, NEW q,
           stream \in StreamState, st = "ready" => d.cursor \in Nat
    PROVE  /\ Rendered(u, st, d, q) \in StreamState
           /\ Rendered(u, st, d, q).open =>
                 /\ st = "ready"
                 /\ ViewOf[d.query] = ViewOf[q]
                 /\ Rendered(u, st, d, q).cursor >= d.cursor
  <1> DEFINE s == Rendered(u, st, d, q)
  <1>1. CASE ~Streams(u, st, d, q)
    <2>1. s = NoStream
      BY <1>1 DEF Rendered
    <2>2. NoStream \in StreamState /\ ~NoStream.open
      BY DEF NoStream, StreamState
    <2>3. QED
      BY <2>1, <2>2
  <1>2. CASE Streams(u, st, d, q) /\ ~stream.open
    <2>1. st = "ready" /\ ViewOf[d.query] = ViewOf[q] /\ d.cursor \in Nat
      BY <1>2 DEF Streams
    <2>2. s = [open |-> TRUE, cursor |-> d.cursor, at |-> Unread]
      BY <1>2 DEF Rendered
    <2>3. [open |-> TRUE, cursor |-> d.cursor, at |-> Unread] \in StreamState
      BY <2>1 DEF StreamState
    <2>4. s.cursor = d.cursor
      BY <2>2
    <2>5. s.cursor >= d.cursor
      BY <2>1, <2>4
    <2>6. s \in StreamState
      BY <2>2, <2>3
    <2>7. QED
      BY <2>1, <2>5, <2>6
  <1>3. CASE Streams(u, st, d, q) /\ stream.open
    <2>1. st = "ready" /\ ViewOf[d.query] = ViewOf[q] /\ d.cursor \in Nat
      BY <1>3 DEF Streams
    <2>2. s = [stream EXCEPT !.cursor = Larger(@, d.cursor)]
      BY <1>3 DEF Rendered
    <2>3. stream.cursor \in Nat
      BY DEF StreamState
    <2>4. /\ Larger(stream.cursor, d.cursor) \in Nat
          /\ Larger(stream.cursor, d.cursor) >= d.cursor
      BY <2>1, <2>3 DEF Larger
    <2>5. s \in StreamState /\ s.cursor = Larger(stream.cursor, d.cursor)
      BY <2>2, <2>4 DEF StreamState
    <2>6. QED
      BY <2>1, <2>4, <2>5
  <1>4. QED
    BY <1>1, <1>2, <1>3

\* Connecting and dropping move only where the connection stands.
LEMMA RepositionedStream ==
    ASSUME NEW s \in StreamState, NEW at \in {Unread} \cup Nat
    PROVE  /\ [s EXCEPT !.at = at] \in StreamState
           /\ [s EXCEPT !.at = at].open = s.open
           /\ [s EXCEPT !.at = at].cursor = s.cursor
  BY DEF StreamState

\* An event and a gap leave an open stream open, at its cursor or past it.
LEMMA AdvancedStream ==
    ASSUME NEW s \in StreamState, NEW n \in Nat, NEW at \in Nat
    PROVE  /\ [s EXCEPT !.at = at, !.cursor = Larger(@, n)] \in StreamState
           /\ [s EXCEPT !.at = at, !.cursor = Larger(@, n)].open = s.open
           /\ [s EXCEPT !.at = at, !.cursor = Larger(@, n)].cursor >= s.cursor
  <1>1. s.cursor \in Nat
    BY DEF StreamState
  <1>2. PICK c : c = Larger(s.cursor, n)
    OBVIOUS
  <1>3. c \in Nat /\ c >= s.cursor
    BY <1>1, <1>2 DEF Larger
  <1>4. [s EXCEPT !.at = at, !.cursor = Larger(@, n)]
          = [s EXCEPT !.at = at, !.cursor = c]
    BY <1>2
  <1>5. /\ [s EXCEPT !.at = at, !.cursor = c] \in StreamState
        /\ [s EXCEPT !.at = at, !.cursor = c].open = s.open
        /\ [s EXCEPT !.at = at, !.cursor = c].cursor = c
    BY <1>3 DEF StreamState
  <1>6. QED
    BY <1>3, <1>4, <1>5

\* The parts are the type invariant.
LEMMA TypesAreTypeOK ==
    ClientTypes => ConsoleTypeOK
  BY DEF ClientTypes, CountType, ListType, FlagType, RequestType, StreamState, ConsoleTypeOK

-----------------------------------------------------------------------------
(***************************************************************************)
(* Every step preserves every part.                                        *)
(***************************************************************************)
\* The list starts well typed.
LEMMA TypesInit ==
    ASSUME ConsoleInit
    PROVE  ClientTypes
  <1>1. CountType
    BY DEF ConsoleInit, CountType
  <1>2. FlagType
    BY DEF ConsoleInit, FlagType
  <1>3. ListType
    BY DEF ConsoleInit, ListType
  <1>4. RequestType /\ excuse \subseteq Excuses
    BY DEF ConsoleInit, RequestType
  <1>5. stream \in StreamState
    BY DEF ConsoleInit, NoStream, StreamState
  <1>6. QED
    BY <1>1, <1>2, <1>3, <1>4, <1>5 DEF ClientTypes

\* The bounds and the number of cancelled requests keep their types.
LEMMA CountStep ==
    ASSUME CountType, ConsoleNext
    PROVE  CountType'
  <1> USE DEF CountType, listing, bounds
  <1>0. MaxVersion \in Nat /\ MaxMoves \in Nat /\ MaxFaults \in Nat
    OBVIOUS
  <1>1. CASE StreamConnects
    BY <1>1, <1>0 DEF StreamConnects
  <1>2. CASE StreamDrops
    BY <1>2, <1>0 DEF StreamDrops, Fault
  <1>3. CASE Deliver
    BY <1>3, <1>0 DEF Deliver
  <1>4. CASE Change
    BY <1>4, <1>0 DEF Change
  <1>5. CASE Gap
    BY <1>5, <1>0 DEF Gap, Fault
  <1>6. ASSUME NEW q \in Queries, ChangeQuery(q)
        PROVE  CountType'
    BY <1>6, <1>0 DEF ChangeQuery, Move, CancelPage
  <1>7. CASE Unlock
    BY <1>7, <1>0 DEF Unlock
  <1>8. CASE Lock
    BY <1>8, <1>0 DEF Lock, Move
  <1>9. CASE Retry
    BY <1>9, <1>0 DEF Retry, Move
  <1>10. CASE ServeFirst
    BY <1>10, <1>0 DEF ServeFirst
  <1>11. CASE FirstLands
    BY <1>11, <1>0 DEF FirstLands
  <1>12. CASE FirstFails
    BY <1>12, <1>0 DEF FirstFails, Fault
  <1>13. CASE LoadMore
    BY <1>13, <1>0 DEF LoadMore, Move
  <1>14. CASE ServePage
    BY <1>14, <1>0 DEF ServePage
  <1>15. CASE PageLands
    BY <1>15, <1>0 DEF PageLands
  <1>16. CASE PageFails
    BY <1>16, <1>0 DEF PageFails, Fault
  <1>17. CASE OrphanEnds
    BY <1>17, <1>0 DEF OrphanEnds
  <1>18. CASE TimerFires
    BY <1>18, <1>0 DEF TimerFires
  <1>19. CASE ServeLive
    BY <1>19, <1>0 DEF ServeLive
  <1>20. CASE LiveLands
    BY <1>20, <1>0 DEF LiveLands
  <1>21. CASE LiveFails
    BY <1>21, <1>0 DEF LiveFails, Fault
  <1>22. QED
    BY <1>1, <1>2, <1>3, <1>4, <1>5, <1>6, <1>7, <1>8, <1>9, <1>10, <1>11,
       <1>12, <1>13, <1>14, <1>15, <1>16, <1>17, <1>18, <1>19, <1>20, <1>21
         DEF ConsoleNext

\* Gate, flags and timers stay Boolean.
LEMMA FlagStep ==
    ASSUME FlagType, ConsoleNext
    PROVE  FlagType'
  <1> USE DEF FlagType, listing, refresh
  <1>1. CASE StreamConnects
    BY <1>1 DEF StreamConnects
  <1>2. CASE StreamDrops
    BY <1>2 DEF StreamDrops
  <1>3. CASE Deliver
    BY <1>3 DEF Deliver, Scheduled
  <1>4. CASE Change
    BY <1>4 DEF Change
  <1>5. CASE Gap
    BY <1>5 DEF Gap, Restart
  <1>6. ASSUME NEW q \in Queries, ChangeQuery(q)
        PROVE  FlagType'
    BY <1>6 DEF ChangeQuery, Restart
  <1>7. CASE Unlock
    BY <1>7 DEF Unlock, Restart
  <1>8. CASE Lock
    BY <1>8 DEF Lock
  <1>9. CASE Retry
    BY <1>9 DEF Retry, Restart
  <1>10. CASE ServeFirst
    BY <1>10 DEF ServeFirst
  <1>11. CASE FirstLands
    BY <1>11 DEF FirstLands
  <1>12. CASE FirstFails
    BY <1>12 DEF FirstFails
  <1>13. CASE LoadMore
    BY <1>13 DEF LoadMore
  <1>14. CASE ServePage
    BY <1>14 DEF ServePage
  <1>15. CASE PageLands
    BY <1>15 DEF PageLands
  <1>16. CASE PageFails
    BY <1>16 DEF PageFails
  <1>17. CASE OrphanEnds
    BY <1>17 DEF OrphanEnds
  <1>18. CASE TimerFires
    BY <1>18 DEF TimerFires
  <1>19. CASE ServeLive
    BY <1>19 DEF ServeLive
  <1>20. CASE LiveLands
    BY <1>20 DEF LiveLands, LiveEnds, Scheduled
  <1>21. CASE LiveFails
    BY <1>21 DEF LiveFails, LiveEnds, Scheduled
  <1>22. QED
    BY <1>1, <1>2, <1>3, <1>4, <1>5, <1>6, <1>7, <1>8, <1>9, <1>10, <1>11,
       <1>12, <1>13, <1>14, <1>15, <1>16, <1>17, <1>18, <1>19, <1>20, <1>21
         DEF ConsoleNext

\* What a crossed refresh left behind is never taken as made up for.
LEMMA ExcuseStep ==
    ASSUME excuse \subseteq Excuses, ConsoleNext
    PROVE  ("crossed" \in excuse => "crossed" \in excuse') /\ excuse' \subseteq Excuses
  <1>1. CASE StreamConnects
    BY <1>1 DEF StreamConnects, Skipping, Excuses
  <1>2. CASE StreamDrops
    BY <1>2 DEF StreamDrops
  <1>3. CASE Deliver
    BY <1>3 DEF Deliver, Lapsed
  <1>4. CASE Change
    BY <1>4 DEF Change
  <1>5. CASE Gap
    BY <1>5 DEF Gap
  <1>6. ASSUME NEW q \in Queries, ChangeQuery(q)
        PROVE  ("crossed" \in excuse => "crossed" \in excuse') /\ excuse' \subseteq Excuses
    BY <1>6 DEF ChangeQuery, Crossing, Excuses
  <1>7. CASE Unlock
    BY <1>7 DEF Unlock
  <1>8. CASE Lock
    BY <1>8 DEF Lock, Crossing, Excuses
  <1>9. CASE Retry
    BY <1>9 DEF Retry
  <1>10. CASE ServeFirst
    BY <1>10 DEF ServeFirst
  <1>11. CASE FirstLands
    BY <1>11 DEF FirstLands, Refreshed, Lapsed, Outrun, Excuses
  <1>12. CASE FirstFails
    BY <1>12 DEF FirstFails
  <1>13. CASE LoadMore
    BY <1>13 DEF LoadMore
  <1>14. CASE ServePage
    BY <1>14 DEF ServePage
  <1>15. CASE PageLands
    BY <1>15 DEF PageLands, Outrun, Excuses
  <1>16. CASE PageFails
    BY <1>16 DEF PageFails
  <1>17. CASE OrphanEnds
    BY <1>17 DEF OrphanEnds
  <1>18. CASE TimerFires
    BY <1>18 DEF TimerFires
  <1>19. CASE ServeLive
    BY <1>19 DEF ServeLive
  <1>20. CASE LiveLands
    BY <1>20 DEF LiveLands, Refreshed, Lapsed, Outrun, Excuses
  <1>21. CASE LiveFails
    BY <1>21 DEF LiveFails, Excuses
  <1>22. QED
    BY <1>1, <1>2, <1>3, <1>4, <1>5, <1>6, <1>7, <1>8, <1>9, <1>10, <1>11,
       <1>12, <1>13, <1>14, <1>15, <1>16, <1>17, <1>18, <1>19, <1>20, <1>21
         DEF ConsoleNext

\* What is in flight is a request.
LEMMA RequestStep ==
    ASSUME ClientTypes, ConsoleNext
    PROVE  RequestType'
  <1> USE DEF RequestType, listing, refresh
  <1>0. /\ RequestType /\ version \in Nat
        /\ query \in Queries /\ nextCursor \in {0} \cup 2..LastPage
        /\ \A q \in Queries : Ask(q, 1) \in Requests
    BY AskFirst DEF ClientTypes, CountType, ListType
  <1>1. CASE StreamConnects
    BY <1>1, <1>0 DEF StreamConnects
  <1>2. CASE StreamDrops
    BY <1>2, <1>0 DEF StreamDrops
  <1>3. CASE Deliver
    BY <1>3, <1>0 DEF Deliver
  <1>4. CASE Change
    BY <1>4, <1>0 DEF Change
  <1>5. CASE Gap
    BY <1>5, <1>0 DEF Gap, Restart
  <1>6. ASSUME NEW q \in Queries, ChangeQuery(q)
        PROVE  RequestType'
    BY <1>6, <1>0 DEF ChangeQuery, Restart, CancelPage
  <1>7. CASE Unlock
    BY <1>7, <1>0 DEF Unlock, Restart
  <1>8. CASE Lock
    BY <1>8, <1>0 DEF Lock
  <1>9. CASE Retry
    BY <1>9, <1>0 DEF Retry, Restart
  <1>10. CASE ServeFirst
    BY <1>10, <1>0, ServedRequest DEF ServeFirst
  <1>11. CASE FirstLands
    BY <1>11, <1>0 DEF FirstLands
  <1>12. CASE FirstFails
    BY <1>12, <1>0 DEF FirstFails
  <1>13. CASE LoadMore
    <2>1. nextCursor \in 1..LastPage
      BY <1>13, <1>0 DEF LoadMore
    <2>2. Ask(query, nextCursor) \in Requests
      BY <1>0, <2>1, AskRequest
    <2>3. QED
      BY <1>13, <1>0, <2>2 DEF LoadMore
  <1>14. CASE ServePage
    BY <1>14, <1>0, ServedRequest DEF ServePage
  <1>15. CASE PageLands
    BY <1>15, <1>0 DEF PageLands
  <1>16. CASE PageFails
    BY <1>16, <1>0 DEF PageFails
  <1>17. CASE OrphanEnds
    BY <1>17, <1>0 DEF OrphanEnds
  <1>18. CASE TimerFires
    BY <1>18, <1>0 DEF TimerFires
  <1>19. CASE ServeLive
    BY <1>19, <1>0, ServedRequest DEF ServeLive
  <1>20. CASE LiveLands
    BY <1>20, <1>0 DEF LiveLands, LiveEnds
  <1>21. CASE LiveFails
    BY <1>21, <1>0 DEF LiveFails, LiveEnds
  <1>22. QED
    BY <1>1, <1>2, <1>3, <1>4, <1>5, <1>6, <1>7, <1>8, <1>9, <1>10, <1>11,
       <1>12, <1>13, <1>14, <1>15, <1>16, <1>17, <1>18, <1>19, <1>20, <1>21
         DEF ConsoleNext

\* A change of query or of session cancels what it would make stale, or is
\* recorded as crossed by the live refresh it leaves alone.
LEMMA RequestsStep ==
    ASSUME ClientTypes, SnapshotOK, RequestsOK, ConsoleNext
    PROVE  RequestsOK'
  <1> USE DEF RequestsOK, listing, refresh
  <1>0. /\ RequestType /\ version \in Nat /\ ("crossed" \in excuse => "crossed" \in excuse')
        /\ query \in Queries /\ nextCursor \in {0} \cup 2..LastPage
        /\ \A q \in Queries : Ask(q, 1).query = q
    BY AskFirst, ExcuseStep DEF ClientTypes, CountType, ListType
  <1>1. CASE StreamConnects
    BY <1>1, <1>0 DEF StreamConnects
  <1>2. CASE StreamDrops
    BY <1>2, <1>0 DEF StreamDrops
  <1>3. CASE Deliver
    BY <1>3, <1>0 DEF Deliver
  <1>4. CASE Change
    BY <1>4, <1>0 DEF Change
  <1>5. CASE Gap
    <2>1. unlocked
      BY <1>5 DEF SnapshotOK, Gap
    <2>2. QED
      BY <1>5, <1>0, <2>1 DEF Gap, Restart
  <1>6. ASSUME NEW q \in Queries, ChangeQuery(q)
        PROVE  RequestsOK'
    BY <1>6, <1>0 DEF ChangeQuery, Restart, CancelPage,
       Crossing
  <1>7. CASE Unlock
    BY <1>7, <1>0 DEF Unlock, Restart
  <1>8. CASE Lock
    BY <1>8, <1>0 DEF Lock, Crossing
  <1>9. CASE Retry
    BY <1>9, <1>0 DEF Retry, Restart
  <1>10. CASE ServeFirst
    <2>1. first # None
      BY <1>10 DEF ServeFirst, Serves
    <2>2. first'.query = first.query
      BY <1>10, <1>0, ServedRequest DEF RequestType, ServeFirst
    <2>3. QED
      BY <1>10, <1>0, <2>1, <2>2 DEF ServeFirst
  <1>11. CASE FirstLands
    BY <1>11, <1>0 DEF FirstLands
  <1>12. CASE FirstFails
    BY <1>12, <1>0 DEF FirstFails
  <1>13. CASE LoadMore
    <2>1. nextCursor \in 1..LastPage
      BY <1>13, <1>0 DEF LoadMore
    <2>2. Ask(query, nextCursor).query = query
      BY <1>0, <2>1, AskRequest
    <2>3. QED
      BY <1>13, <1>0, <2>2 DEF LoadMore
  <1>14. CASE ServePage
    <2>1. page # None
      BY <1>14 DEF ServePage, Serves
    <2>2. page'.query = page.query
      BY <1>14, <1>0, ServedRequest DEF RequestType, ServePage
    <2>3. QED
      BY <1>14, <1>0, <2>1, <2>2 DEF ServePage
  <1>15. CASE PageLands
    BY <1>15, <1>0 DEF PageLands
  <1>16. CASE PageFails
    BY <1>16, <1>0 DEF PageFails
  <1>17. CASE OrphanEnds
    BY <1>17, <1>0 DEF OrphanEnds
  <1>18. CASE TimerFires
    BY <1>18, <1>0 DEF TimerFires
  <1>19. CASE ServeLive
    <2>1. live # None
      BY <1>19 DEF ServeLive, Serves
    <2>2. live'.query = live.query
      BY <1>19, <1>0, ServedRequest DEF RequestType, ServeLive
    <2>3. QED
      BY <1>19, <1>0, <2>1, <2>2 DEF ServeLive
  <1>20. CASE LiveLands
    BY <1>20, <1>0 DEF LiveLands, LiveEnds
  <1>21. CASE LiveFails
    BY <1>21, <1>0 DEF LiveFails, LiveEnds
  <1>22. QED
    BY <1>1, <1>2, <1>3, <1>4, <1>5, <1>6, <1>7, <1>8, <1>9, <1>10, <1>11,
       <1>12, <1>13, <1>14, <1>15, <1>16, <1>17, <1>18, <1>19, <1>20, <1>21
         DEF ConsoleNext

\* What every answer leaves on screen is a list.
LEMMA ListStep ==
    ASSUME ClientTypes, ConsoleNext
    PROVE  ListType'
  <1> USE DEF listing
  <1>0. ListType /\ RequestType /\ LastPage \in Nat \ {0}
    BY DEF ClientTypes
  <1>1. CASE StreamConnects
    BY <1>1, <1>0 DEF ListType, StreamConnects
  <1>2. CASE StreamDrops
    BY <1>2, <1>0 DEF ListType, StreamDrops
  <1>3. CASE Deliver
    BY <1>3, <1>0 DEF ListType, Deliver
  <1>4. CASE Change
    BY <1>4, <1>0 DEF ListType, Change
  <1>5. CASE Gap
    BY <1>5, <1>0 DEF ListType, Gap, Restart
  <1>6. ASSUME NEW q \in Queries, ChangeQuery(q)
        PROVE  ListType'
    BY <1>6, <1>0 DEF ListType, ChangeQuery, Restart
  <1>7. CASE Unlock
    BY <1>7, <1>0 DEF ListType, Unlock, Restart
  <1>8. CASE Lock
    BY <1>8, <1>0 DEF ListType, Lock
  <1>9. CASE Retry
    BY <1>9, <1>0 DEF ListType, Retry, Restart
  <1>10. CASE ServeFirst
    BY <1>10, <1>0 DEF ListType, ServeFirst
  <1>11. CASE FirstLands
    <2>1. first \in Rows
      BY <1>11, <1>0, LandedRow DEF RequestType, FirstLands
    <2>2. After(1) \in {0} \cup 2..LastPage
      BY <1>0, AfterPage
    <2>3. QED
      BY <1>11, <1>0, <2>1, <2>2, ShownList DEF ListType, FirstLands
  <1>12. CASE FirstFails
    BY <1>12, <1>0 DEF ListType, FirstFails
  <1>13. CASE LoadMore
    BY <1>13, <1>0 DEF ListType, LoadMore
  <1>14. CASE ServePage
    BY <1>14, <1>0 DEF ListType, ServePage
  <1>15. CASE PageLands
    <2>1. /\ page \in Rows /\ page.page \in 1..LastPage
          /\ page.query \in Queries /\ page.read \in Nat
      BY <1>15, <1>0, LandedRow DEF RequestType, PageLands
    <2>2. After(page.page) \in {0} \cup 2..LastPage
      BY <1>0, <2>1, AfterPage
    <2>3. CASE status = "ready"
      <3>1. /\ Merged(data.rows, page) \subseteq Rows
            /\ Merged(data.rows, page) # {}
        BY <1>0, <2>1, <2>3 DEF ListType, Merged
      <3>2. /\ data'.query = page.query /\ data'.cursor = page.read
            /\ data'.rows = Merged(data.rows, page)
        BY <1>15, <2>3 DEF PageLands
      <3>3. QED
        BY <1>15, <1>0, <2>1, <2>2, <2>3, <3>1, <3>2 DEF ListType, PageLands
    <2>4. CASE status # "ready"
      BY <1>15, <1>0, <2>2, <2>4 DEF ListType, PageLands
    <2>5. QED
      BY <2>3, <2>4
  <1>16. CASE PageFails
    BY <1>16, <1>0 DEF ListType, PageFails
  <1>17. CASE OrphanEnds
    BY <1>17, <1>0 DEF ListType, OrphanEnds
  <1>18. CASE TimerFires
    BY <1>18, <1>0 DEF ListType, TimerFires
  <1>19. CASE ServeLive
    BY <1>19, <1>0 DEF ListType, ServeLive
  <1>20. CASE LiveLands
    <2>1. live \in Rows
      BY <1>20, <1>0, LandedRow DEF RequestType, LiveLands
    <2>2. After(1) \in {0} \cup 2..LastPage
      BY <1>0, AfterPage
    <2>3. QED
      BY <1>20, <1>0, <2>1, <2>2, ShownList DEF ListType, LiveLands
  <1>21. CASE LiveFails
    BY <1>21, <1>0 DEF ListType, LiveFails
  <1>22. QED
    BY <1>1, <1>2, <1>3, <1>4, <1>5, <1>6, <1>7, <1>8, <1>9, <1>10, <1>11,
       <1>12, <1>13, <1>14, <1>15, <1>16, <1>17, <1>18, <1>19, <1>20, <1>21
         DEF ConsoleNext

\* What every handler that ends in a render makes of the stream.
LEMMA RenderStep ==
    ASSUME stream \in StreamState, ListType', Render
    PROVE  /\ stream' \in StreamState
           /\ stream'.open => /\ status' = "ready"
                              /\ ViewOf[data'.query] = ViewOf[query']
                              /\ stream'.cursor >= data'.cursor
  <1>1. stream' = Rendered(unlocked', status', data', query')
    BY DEF Render
  <1>2. status' = "ready" => data'.cursor \in Nat
    BY DEF ListType
  <1>3. QED
    BY <1>1, <1>2, RenderedStream

\* The stream follows the list through renders, events, gaps and drops.
LEMMA SnapshotStep ==
    ASSUME ClientTypes, SnapshotOK, RequestsOK, ConsoleNext
    PROVE  stream' \in StreamState /\ SnapshotOK'
  <1> USE DEF SnapshotOK, listing
  <1>0. ListType /\ ListType' /\ stream \in StreamState /\ version \in Nat
    BY ListStep DEF ClientTypes, CountType
  <1>1. CASE StreamConnects
    <2>1. stream.cursor \in Nat
      BY <1>1, <1>0 DEF StreamState, StreamConnects
    <2>2. /\ stream' \in StreamState /\ stream'.open = stream.open
          /\ stream'.cursor = stream.cursor
      BY <1>1, <1>0, <2>1, RepositionedStream DEF StreamConnects
    <2>3. UNCHANGED <<unlocked, query, status, data>>
      BY <1>1 DEF StreamConnects
    <2>4. QED
      BY <1>0, <2>1, <2>2, <2>3 DEF StreamState, ListType
  <1>2. CASE StreamDrops
    <2>1. stream.cursor \in Nat
      BY <1>2, <1>0 DEF StreamState, StreamDrops
    <2>2. /\ stream' \in StreamState /\ stream'.open = stream.open
          /\ stream'.cursor = stream.cursor
      BY <1>2, <1>0, <2>1, RepositionedStream DEF StreamDrops
    <2>3. UNCHANGED <<unlocked, query, status, data>>
      BY <1>2 DEF StreamDrops
    <2>4. QED
      BY <1>0, <2>1, <2>2, <2>3 DEF StreamState, ListType
  <1>3. CASE Deliver
    <2>1. stream.at \in Nat /\ stream.at + 1 \in Nat
      BY <1>3, <1>0 DEF StreamState, Deliver
    <2>2. /\ stream' \in StreamState /\ stream'.open = stream.open
          /\ stream'.cursor >= stream.cursor
      BY <1>3, <1>0, <2>1, AdvancedStream DEF Deliver
    <2>3. UNCHANGED <<unlocked, query, status, data>>
      BY <1>3 DEF Deliver
    <2>4. QED
      BY <1>0, <2>1, <2>2, <2>3 DEF StreamState, ListType
  <1>4. CASE Change
    BY <1>4, <1>0 DEF Change
  <1>5. CASE Gap
    <2>1. stream.cursor \in Nat
      BY <1>5, <1>0 DEF StreamState, Gap
    <2>2. /\ stream' \in StreamState /\ stream'.open = stream.open
          /\ stream'.cursor >= stream.cursor
      BY <1>5, <1>0, <2>1, AdvancedStream DEF Gap
    <2>3. UNCHANGED <<unlocked, query, status, data>>
      BY <1>5 DEF Gap
    <2>4. QED
      BY <1>0, <2>1, <2>2, <2>3 DEF StreamState, ListType
  <1>6. ASSUME NEW q \in Queries, ChangeQuery(q)
        PROVE  stream' \in StreamState /\ SnapshotOK'
    BY <1>6, <1>0, RenderStep DEF ListType, ChangeQuery
  <1>7. CASE Unlock
    BY <1>7, <1>0, RenderStep DEF ListType, Unlock
  <1>8. CASE Lock
    BY <1>8, <1>0, RenderStep DEF ListType, Lock
  <1>9. CASE Retry
    BY <1>9, <1>0, RenderStep DEF ListType, Retry
  <1>10. CASE ServeFirst
    BY <1>10, <1>0 DEF ServeFirst
  <1>11. CASE FirstLands
    BY <1>11, <1>0, RenderStep DEF ListType, RequestsOK, FirstLands
  <1>12. CASE FirstFails
    BY <1>12, <1>0, RenderStep DEF ListType, FirstFails
  <1>13. CASE LoadMore
    BY <1>13, <1>0 DEF LoadMore
  <1>14. CASE ServePage
    BY <1>14, <1>0 DEF ServePage
  <1>15. CASE PageLands
    BY <1>15, <1>0, RenderStep DEF ListType, PageLands
  <1>16. CASE PageFails
    BY <1>16, <1>0 DEF PageFails
  <1>17. CASE OrphanEnds
    BY <1>17, <1>0 DEF OrphanEnds
  <1>18. CASE TimerFires
    BY <1>18, <1>0 DEF TimerFires
  <1>19. CASE ServeLive
    BY <1>19, <1>0 DEF ServeLive
  <1>20. CASE LiveLands
    BY <1>20, <1>0, RenderStep DEF ListType, LiveLands
  <1>21. CASE LiveFails
    BY <1>21, <1>0 DEF LiveFails
  <1>22. QED
    BY <1>1, <1>2, <1>3, <1>4, <1>5, <1>6, <1>7, <1>8, <1>9, <1>10, <1>11,
       <1>12, <1>13, <1>14, <1>15, <1>16, <1>17, <1>18, <1>19, <1>20, <1>21
         DEF ConsoleNext

\* No answer mixes queries: a page lands only on rows of its own.
LEMMA RowsStep ==
    ASSUME ClientTypes, SnapshotOK, RequestsOK, RowsOK, ConsoleNext
    PROVE  RowsOK'
  <1> SUFFICES ASSUME "crossed" \notin excuse'
               PROVE  RowsOK'
    BY DEF RowsOK
  <1> USE DEF listing
  <1>0. /\ ListType /\ RequestType /\ "crossed" \notin excuse
        /\ status # "ready" => data.rows = {}
    BY ExcuseStep DEF ClientTypes, ListType, NoData
  <1>1. CASE StreamConnects
    BY <1>1, <1>0 DEF RowsOK, StreamConnects
  <1>2. CASE StreamDrops
    BY <1>2, <1>0 DEF RowsOK, StreamDrops
  <1>3. CASE Deliver
    BY <1>3, <1>0 DEF RowsOK, Deliver
  <1>4. CASE Change
    BY <1>4, <1>0 DEF RowsOK, Change
  <1>5. CASE Gap
    BY <1>5, <1>0 DEF RowsOK, Gap, Restart
  <1>6. ASSUME NEW q \in Queries, ChangeQuery(q)
        PROVE  RowsOK'
    BY <1>6, <1>0 DEF RowsOK, SnapshotOK, ChangeQuery, Restart,
                       CancelPage
  <1>7. CASE Unlock
    BY <1>7 DEF RowsOK, Unlock, NoData
  <1>8. CASE Lock
    BY <1>8 DEF RowsOK, Lock, NoData
  <1>9. CASE Retry
    BY <1>9, <1>0 DEF RowsOK, Retry
  <1>10. CASE ServeFirst
    BY <1>10, <1>0 DEF RowsOK, ServeFirst
  <1>11. CASE FirstLands
    <2>1. first \in Rows /\ first.query = query
      BY <1>11, <1>0, LandedRow DEF RequestType, RequestsOK, FirstLands
    <2>2. data'.rows = {first} /\ query' = query
      BY <1>11, <2>1, ShownList DEF FirstLands
    <2>3. QED
      BY <2>1, <2>2 DEF RowsOK
  <1>12. CASE FirstFails
    BY <1>12 DEF RowsOK, FirstFails, NoData
  <1>13. CASE LoadMore
    BY <1>13, <1>0 DEF RowsOK, LoadMore
  <1>14. CASE ServePage
    BY <1>14, <1>0 DEF RowsOK, ServePage, Serves
  <1>15. CASE PageLands
    <2>1. CASE status = "ready"
      <3>1. page # None /\ page.query = query
        BY <1>15 DEF RequestsOK, PageLands
      <3>2. \A r \in data.rows : r.query = query
        BY <1>0, <2>1, <3>1 DEF RowsOK
      <3>3. data'.rows = Merged(data.rows, page) /\ query' = query
        BY <1>15, <2>1 DEF PageLands
      <3>4. \A r \in data'.rows : r.query = query
        BY <3>1, <3>2, <3>3 DEF Merged
      <3>5. QED
        BY <3>3, <3>4 DEF RowsOK
    <2>2. CASE status # "ready"
      BY <1>15, <1>0, <2>2 DEF RowsOK, PageLands
    <2>3. QED
      BY <2>1, <2>2
  <1>16. CASE PageFails
    BY <1>16, <1>0 DEF RowsOK, PageFails
  <1>17. CASE OrphanEnds
    BY <1>17, <1>0 DEF RowsOK, OrphanEnds
  <1>18. CASE TimerFires
    BY <1>18, <1>0 DEF RowsOK, TimerFires
  <1>19. CASE ServeLive
    BY <1>19, <1>0 DEF RowsOK, ServeLive
  <1>20. CASE LiveLands
    <2>1. CASE status = "ready"
      <3>1. live \in Rows /\ live.query = query
        BY <1>20, <1>0, LandedRow DEF RequestType, RequestsOK, LiveLands
      <3>2. data'.rows = {live} /\ query' = query
        BY <1>20, <2>1, <3>1, ShownList DEF LiveLands
      <3>3. QED
        BY <3>1, <3>2 DEF RowsOK
    <2>2. CASE status # "ready"
      BY <1>20, <1>0, <2>2 DEF RowsOK, LiveLands
    <2>3. QED
      BY <2>1, <2>2
  <1>21. CASE LiveFails
    BY <1>21, <1>0 DEF RowsOK, LiveFails
  <1>22. QED
    BY <1>1, <1>2, <1>3, <1>4, <1>5, <1>6, <1>7, <1>8, <1>9, <1>10, <1>11,
       <1>12, <1>13, <1>14, <1>15, <1>16, <1>17, <1>18, <1>19, <1>20, <1>21
         DEF ConsoleNext

-----------------------------------------------------------------------------
(***************************************************************************)
(* Theorems about the list.                                                *)
(***************************************************************************)
\* The invariant of useAlerts and useAlertStream holds for any queries, views
\* and pages and however answers, events and faults interleave.
THEOREM ClientInvariance ==
    ConsoleSpec => []ClientInv
  <1>1. ConsoleInit => ClientInv
    <2> SUFFICES ASSUME ConsoleInit
                 PROVE  ClientInv
      OBVIOUS
    <2>1. ClientTypes
      BY TypesInit
    <2>2. SnapshotOK /\ RequestsOK /\ RowsOK
      BY DEF ConsoleInit, NoStream, NoData, SnapshotOK, RequestsOK, RowsOK
    <2>3. QED
      BY <2>1, <2>2 DEF ClientInv
  <1>2. ClientInv /\ [ConsoleNext]_consoleVars => ClientInv'
    <2> SUFFICES ASSUME ClientInv, [ConsoleNext]_consoleVars
                 PROVE  ClientInv'
      OBVIOUS
    <2>1. CASE ConsoleNext
      <3>1. SnapshotOK' /\ RequestsOK' /\ RowsOK'
        BY <2>1, SnapshotStep, RequestsStep, RowsStep DEF ClientInv
      <3>2. CountType' /\ FlagType' /\ ListType' /\ RequestType'
        BY <2>1, CountStep, FlagStep, ListStep, RequestStep DEF ClientInv, ClientTypes
      <3>3. stream' \in StreamState /\ excuse' \subseteq Excuses
        BY <2>1, SnapshotStep, ExcuseStep DEF ClientInv, ClientTypes
      <3>4. ClientTypes'
        BY <3>2, <3>3 DEF ClientTypes, StreamState, Excuses, Unread
      <3>5. QED
        BY <3>1, <3>4 DEF ClientInv
    <2>2. CASE UNCHANGED consoleVars
      BY <2>2 DEF ClientInv, ClientTypes, CountType, FlagType, ListType, RequestType, SnapshotOK,
                  RequestsOK, RowsOK, consoleVars, listing, refresh,
                  bounds
    <2>3. QED
      BY <2>1, <2>2
  <1>3. QED
    BY <1>1, <1>2, PTL DEF ConsoleSpec

\* Rows, requests, timers and stream client keep their types (useAlerts,
\* useAlertStream).
THEOREM ClientTypeCorrect ==
    ConsoleSpec => []ConsoleTypeOK
  <1>1. ClientInv => ConsoleTypeOK
    BY TypesAreTypeOK DEF ClientInv
  <1>2. QED
    BY <1>1, ClientInvariance, PTL

\* Rows of two queries are never on screen together, unless a live refresh
\* crossed a change of query or session (mergeAlerts, pendingPage.key).
THEOREM PagesUnmixed ==
    ConsoleSpec => []PagesAreNotMixed
  <1>1. ClientInv => PagesAreNotMixed
    BY DEF ClientInv, RowsOK, PagesAreNotMixed
  <1>2. QED
    BY <1>1, ClientInvariance, PTL

\* An open stream belongs to the view its list was read through and never
\* resumes behind it (useAlertStream, snapshotMatchesView in App).
THEOREM StreamFollows ==
    ConsoleSpec => []StreamFollowsSnapshot
  <1>1. ClientInv => StreamFollowsSnapshot
    BY DEF ClientInv, SnapshotOK, StreamFollowsSnapshot
  <1>2. QED
    BY <1>1, ClientInvariance, PTL

\* An answer lands only under the query it was asked for: first and later
\* pages always, a live refresh unless it crossed a change (the cleanup of the
\* first-page effect, pendingPage.key).
THEOREM AnswersAreCurrent ==
    ConsoleSpec =>
       [][/\ FirstLands => data'.query = query'
          /\ PageLands /\ status = "ready" => data'.query = query'
          /\ LiveLands /\ status = "ready" /\ "crossed" \notin excuse =>
                data'.query = query']_consoleVars
  <1>1. ClientInv =>
           /\ FirstLands => data'.query = query'
           /\ PageLands /\ status = "ready" => data'.query = query'
           /\ LiveLands /\ status = "ready" /\ "crossed" \notin excuse =>
                 data'.query = query'
    BY DEF ClientInv, RequestsOK, FirstLands, PageLands, LiveLands,
           Shows
  <1>2. QED
    BY <1>1, ClientInvariance, PTL
=============================================================================
