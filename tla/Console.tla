------------------------------ MODULE Console ------------------------------
(***************************************************************************)
(* The console's alert list: useAlerts with the stream it feeds from        *)
(* (useAlertStream, createAlertStreamClient) and the gate App puts between  *)
(* them.  Three kinds of request are in flight at once - the first page,    *)
(* the page after a cursor, and the quiet live refresh a stream event       *)
(* starts - and each reads the server at one moment and is applied at       *)
(* another.                                                                 *)
(*                                                                          *)
(* The server's list is a version number, raised by every change; a page of *)
(* it is the query, the page's number and the version it was read at.  A    *)
(* change is one stream event, whose id is the version.  A handler, the     *)
(* render it causes and the effects of that render are one step.            *)
(***************************************************************************)
EXTENDS Integers

CONSTANTS
  Queries,      \* filters, sorts and views an operator may ask for
  ViewOf,       \* the view of each query (viewKeyOf)
  LastPage,     \* pages a list has
  MaxVersion,   \* bound on changes at the server
  MaxMoves,     \* bound on what the operator and the session do
  MaxFaults     \* bound on failed requests, dropped connections and gaps

ASSUME ConsoleConstants ==
  /\ DOMAIN ViewOf = Queries
  /\ LastPage \in Nat \ {0}
  /\ {MaxVersion, MaxMoves, MaxFaults} \subseteq Nat

VARIABLES
  version,     \* the server: how many changes the list has seen
  unlocked,    \* App: configured, and signed in where that is required
  query,       \* App: what the operator asks for
  status,      \* useAlerts: "loading", "ready" or "error"
  data,        \* useAlerts: the rows on screen, once ready
  nextCursor,  \* nextCursorRef: page to ask for next, 0 when there is none
  first,       \* the first-page request that may still be applied
  page,        \* pendingPage and its request
  orphans,     \* page requests cancelled and still in flight
  pageInFlight, loadingMore,  \* pageInFlightRef and the spinner
  live,        \* the live refresh in flight
  liveTimer, livePending,     \* liveTimerRef, livePendingRef
  stream,      \* the stream client, or NoStream
  moves, faults, \* bounds
  excuse       \* history: what may have left the list behind for good

listing == <<status, data, nextCursor, first, page, orphans, pageInFlight, loadingMore>>
refresh == <<live, liveTimer, livePending>>
bounds == <<moves, faults>>
consoleVars == <<version, unlocked, query, listing, refresh, stream, bounds, excuse>>

-----------------------------------------------------------------------------
(* State *)

Unread == -1   \* the server has not answered a request yet

None == [query |-> "none", page |-> 0, read |-> Unread]

Requests == [query : Queries, page : 1..LastPage, read : {Unread} \cup Nat]

Ask(q, n) == [query |-> q, page |-> n, read |-> Unread]

Rows == [query : Queries, page : 1..LastPage, read : Nat]

\* at: where the connection stands, or Unread while there is none
NoStream == [open |-> FALSE, cursor |-> 0, at |-> Unread]

NoData == [query |-> "none", cursor |-> 0, rows |-> {}]

Excuses == {"crossed", "outrun", "skipped", "failed"}

ConsoleTypeOK ==
  /\ version \in 0..MaxVersion
  /\ unlocked \in BOOLEAN
  /\ query \in Queries
  /\ status \in {"loading", "ready", "error"}
  /\ status = "ready" => /\ data.query \in Queries
                         /\ data.rows \subseteq Rows
                         /\ data.rows # {}
  /\ status # "ready" => data = NoData
  /\ nextCursor \in {0} \cup 2..LastPage
  /\ {first, page, live} \subseteq Requests \cup {None}
  /\ orphans \in Nat
  /\ {pageInFlight, loadingMore, liveTimer, livePending} \subseteq BOOLEAN
  /\ stream \in [open : BOOLEAN, cursor : Nat, at : {Unread} \cup Nat]
  /\ moves \in 0..MaxMoves /\ faults \in 0..MaxFaults
  /\ excuse \subseteq Excuses

ConsoleInit ==
  /\ version = 0 /\ unlocked = FALSE /\ query \in Queries
  /\ status = "loading" /\ data = NoData /\ nextCursor = 0
  /\ first = None /\ page = None /\ orphans = 0
  /\ pageInFlight = FALSE /\ loadingMore = FALSE
  /\ live = None /\ liveTimer = FALSE /\ livePending = FALSE
  /\ stream = NoStream
  /\ moves = 0 /\ faults = 0 /\ excuse = {}

Move == moves < MaxMoves /\ moves' = moves + 1 /\ UNCHANGED faults
Fault == faults < MaxFaults /\ faults' = faults + 1 /\ UNCHANGED moves
Larger(a, b) == IF a >= b THEN a ELSE b

\* The page after the n-th, if there is one
After(n) == IF n < LastPage THEN n + 1 ELSE 0

-----------------------------------------------------------------------------
(* The stream, opened under the view its snapshot was read through *)

\* Mutant: any snapshot will do
Streams_AnyView(u, st, d, q) == u /\ st = "ready"

\* snapshotMatchesView
Streams(u, st, d, q) == u /\ st = "ready" /\ ViewOf[d.query] = ViewOf[q]

\* useAlertStream after a render: no cursor closes the client, a first one
\* opens it, a later one only advances where a reconnect would resume.
Rendered(u, st, d, q) ==
  IF ~Streams(u, st, d, q) THEN NoStream
  ELSE IF ~stream.open THEN [open |-> TRUE, cursor |-> d.cursor, at |-> Unread]
  ELSE [stream EXCEPT !.cursor = Larger(@, d.cursor)]

Render == stream' = Rendered(unlocked', status', data', query')

\* scheduleLiveRefresh: ignored until ready, or while a timer is set
Scheduled(st) == st = "ready" \/ liveTimer

\* History: a connection resumes past events that rows on screen have not
\* seen, with no refresh under way to bring them up to date
Skipping ==
  IF ~liveTimer /\ live = None /\ \E r \in data.rows : r.read < stream.cursor
  THEN {"skipped"} ELSE {}

StreamConnects ==
  /\ stream.open /\ stream.at = Unread
  /\ stream' = [stream EXCEPT !.at = stream.cursor]
  /\ excuse' = excuse \cup Skipping
  /\ UNCHANGED <<version, unlocked, query, listing, refresh, bounds>>

StreamDrops ==
  /\ stream.open /\ stream.at # Unread
  /\ Fault
  /\ stream' = [stream EXCEPT !.at = Unread]
  /\ UNCHANGED <<version, unlocked, query, listing, refresh, excuse>>

\* History: an event makes up for what left the list behind, by the refresh it
\* asks for; only a crossed refresh may stay
Lapsed == excuse \cap {"crossed"}

\* handleEvent and handleAlertEvent
Deliver ==
  /\ stream.open /\ stream.at # Unread /\ stream.at < version
  /\ stream' = [stream EXCEPT !.at = @ + 1, !.cursor = Larger(@, stream.at + 1)]
  /\ liveTimer' = Scheduled(status)
  /\ excuse' = Lapsed
  /\ UNCHANGED <<version, unlocked, query, listing, live, livePending, bounds>>

\* The server's list changes
Change ==
  /\ version < MaxVersion
  /\ version' = version + 1
  /\ UNCHANGED <<unlocked, query, listing, refresh, stream, bounds, excuse>>

-----------------------------------------------------------------------------
(* The first page *)

\* Mutant: no new request while a later page is being read
Restart_WhenIdle(q) ==
  /\ first' = IF pageInFlight THEN None ELSE Ask(q, 1)
  /\ nextCursor' = 0
  /\ pageInFlight' = FALSE

\* The first-page effect on a change of what it depends on: the request
\* before is cancelled, and a new one is sent for q.
Restart(q) ==
  /\ first' = Ask(q, 1)
  /\ nextCursor' = 0
  /\ pageInFlight' = FALSE

\* Mutant: the request before is left alone
CancelPage_Never == UNCHANGED <<page, orphans>>

\* A cancelled page request is never applied, but its end still clears the
\* in-flight flag.
CancelPage ==
  /\ page' = None
  /\ orphans' = IF page = None THEN orphans ELSE orphans + 1

\* History: a live refresh of one query is in flight when another is asked for
Crossing == IF live # None THEN {"crossed"} ELSE {}

\* A query change while ready keeps the rows on screen
ChangeQuery(q) ==
  /\ Move
  /\ q # query
  /\ query' = q
  /\ CancelPage
  /\ IF unlocked THEN Restart(q)
     ELSE UNCHANGED <<first, nextCursor, pageInFlight>>
  /\ status' = IF unlocked /\ status # "ready" THEN "loading" ELSE status
  /\ excuse' = excuse \cup Crossing
  /\ UNCHANGED <<version, unlocked, data, loadingMore, refresh>>
  /\ Render

\* The session is verified: the gate opens
Unlock ==
  /\ ~unlocked
  /\ unlocked' = TRUE
  /\ Restart(query)
  /\ status' = "loading" /\ data' = NoData
  /\ UNCHANGED <<version, query, page, orphans, loadingMore, refresh, bounds, excuse>>
  /\ Render

\* The session is lost (a 401 on any request, a sign-out): the gate closes.
\* A page request and a live refresh in flight are not cancelled.
Lock ==
  /\ Move
  /\ unlocked
  /\ unlocked' = FALSE
  /\ status' = "loading" /\ data' = NoData /\ loadingMore' = FALSE
  /\ first' = None /\ nextCursor' = 0 /\ pageInFlight' = FALSE
  /\ liveTimer' = FALSE
  /\ excuse' = excuse \cup Crossing
  /\ UNCHANGED <<version, query, page, orphans, live, livePending>>
  /\ Render

\* retry: from the error panel
Retry ==
  /\ Move
  /\ unlocked /\ status = "error"
  /\ Restart(query)
  /\ status' = "loading"
  /\ UNCHANGED <<version, unlocked, query, data, page, orphans, loadingMore, refresh, excuse>>
  /\ Render

\* handleGap and handleStreamGap: events were pruned, so the snapshot is read
\* again from scratch
Gap ==
  /\ stream.open /\ stream.at # Unread /\ stream.at < version
  /\ Fault
  /\ Restart(query)
  /\ stream' = [stream EXCEPT !.at = version, !.cursor = Larger(@, version)]
  /\ UNCHANGED <<version, unlocked, query, status, data, page, orphans, loadingMore,
                 refresh, excuse>>

\* History: what is applied is older than rows on screen
Outrun(read) == IF \E r \in data.rows : r.read > read THEN {"outrun"} ELSE {}

\* History: so does a first page that holds every event received
Refreshed(read) == (IF read >= stream.cursor THEN Lapsed ELSE excuse) \cup Outrun(read)

Shows(request) ==
  [query |-> request.query, cursor |-> request.read, rows |-> {request}]

FirstLands ==
  /\ first # None /\ first.read # Unread
  /\ nextCursor' = After(1)
  /\ status' = "ready"
  /\ data' = Shows(first)
  /\ loadingMore' = FALSE
  /\ first' = None
  /\ excuse' = Refreshed(first.read)
  /\ UNCHANGED <<version, unlocked, query, page, orphans, pageInFlight, refresh, bounds>>
  /\ Render

FirstFails ==
  /\ first # None
  /\ Fault
  /\ status' = "error" /\ data' = NoData /\ loadingMore' = FALSE
  /\ first' = None
  /\ UNCHANGED <<version, unlocked, query, nextCursor, page, orphans, pageInFlight,
                 refresh, excuse>>
  /\ Render

-----------------------------------------------------------------------------
(* The pages after it *)

\* loadMore, offered under a list that has a cursor left
LoadMore ==
  /\ Move
  /\ status = "ready"
  /\ ~pageInFlight /\ nextCursor # 0
  /\ pageInFlight' = TRUE
  /\ page' = Ask(query, nextCursor)
  /\ orphans' = IF page = None THEN orphans ELSE orphans + 1
  /\ loadingMore' = TRUE
  /\ UNCHANGED <<version, unlocked, query, status, data, nextCursor, first,
                 refresh, stream, excuse>>

\* mergeAlerts: rows already loaded are kept as they are
Merged(rows, request) ==
  rows \cup (IF \E r \in rows : r.query = request.query /\ r.page = request.page
             THEN {} ELSE {request})

PageLands ==
  /\ page # None /\ page.read # Unread
  /\ nextCursor' = After(page.page)
  /\ IF status = "ready"
     THEN /\ data' = [query |-> page.query, cursor |-> page.read,
                      rows |-> Merged(data.rows, page)]
          /\ loadingMore' = FALSE
          /\ excuse' = excuse \cup Outrun(page.read)
     ELSE UNCHANGED <<data, loadingMore, excuse>>
  /\ page' = None
  /\ pageInFlight' = FALSE
  /\ UNCHANGED status
  /\ UNCHANGED <<version, unlocked, query, first, orphans, refresh, bounds>>
  /\ Render

PageFails ==
  /\ page # None
  /\ Fault
  /\ loadingMore' = FALSE
  /\ page' = None
  /\ pageInFlight' = FALSE
  /\ UNCHANGED <<version, unlocked, query, status, data, nextCursor, first, orphans,
                 refresh, stream, excuse>>

\* A cancelled page request ends
OrphanEnds ==
  /\ orphans > 0
  /\ orphans' = orphans - 1
  /\ pageInFlight' = FALSE
  /\ UNCHANGED <<version, unlocked, query, status, data, nextCursor, first, page,
                 loadingMore, refresh, stream, bounds, excuse>>

-----------------------------------------------------------------------------
(* The live refresh *)

\* runLiveRefresh when the debounce ends
TimerFires ==
  /\ liveTimer
  /\ liveTimer' = FALSE
  /\ IF live # None
     THEN livePending' = TRUE /\ UNCHANGED live
     ELSE live' = Ask(query, 1) /\ UNCHANGED livePending
  /\ UNCHANGED <<version, unlocked, query, listing, stream, bounds, excuse>>

\* Mutant: what arrived during a refresh is taken as covered by it
LiveEnds_NoTrailing ==
  /\ live' = None
  /\ livePending' = FALSE
  /\ UNCHANGED liveTimer

\* The end of a live refresh: what arrived meanwhile asks for one more
LiveEnds ==
  /\ live' = None
  /\ livePending' = FALSE
  /\ liveTimer' = IF livePending THEN Scheduled(status) ELSE liveTimer

LiveLands ==
  /\ live # None /\ live.read # Unread
  /\ nextCursor' = After(1)
  /\ IF status = "ready"
     THEN data' = Shows(live) /\ excuse' = Refreshed(live.read)
     ELSE UNCHANGED <<data, excuse>>
  /\ LiveEnds
  /\ UNCHANGED status
  /\ UNCHANGED <<version, unlocked, query, first, page, orphans, pageInFlight,
                 loadingMore, bounds>>
  /\ Render

\* A quiet refresh that fails keeps the stale rows
LiveFails ==
  /\ live # None
  /\ Fault
  /\ LiveEnds
  /\ excuse' = excuse \cup {"failed"}
  /\ UNCHANGED <<version, unlocked, query, listing, stream>>

-----------------------------------------------------------------------------
(* The server reads its list for a request *)

Serves(request) == request # None /\ request.read = Unread

ServeFirst ==
  /\ Serves(first)
  /\ first' = [first EXCEPT !.read = version]
  /\ UNCHANGED <<version, unlocked, query, status, data, nextCursor, page, orphans,
                 pageInFlight, loadingMore, refresh, stream, bounds, excuse>>

ServePage ==
  /\ Serves(page)
  /\ page' = [page EXCEPT !.read = version]
  /\ UNCHANGED <<version, unlocked, query, status, data, nextCursor, first, orphans,
                 pageInFlight, loadingMore, refresh, stream, bounds, excuse>>

ServeLive ==
  /\ Serves(live)
  /\ live' = [live EXCEPT !.read = version]
  /\ UNCHANGED <<version, unlocked, query, listing, liveTimer, livePending, stream,
                 bounds, excuse>>

-----------------------------------------------------------------------------

ConsoleNext ==
  \/ StreamConnects \/ StreamDrops \/ Deliver \/ Change \/ Gap
  \/ \E q \in Queries : ChangeQuery(q)
  \/ Unlock \/ Lock \/ Retry
  \/ ServeFirst \/ FirstLands \/ FirstFails
  \/ LoadMore \/ ServePage \/ PageLands \/ PageFails \/ OrphanEnds
  \/ TimerFires \/ ServeLive \/ LiveLands \/ LiveFails

ConsoleSpec == ConsoleInit /\ [][ConsoleNext]_consoleVars

\* Timers fire, the server answers, answers are applied and the client keeps
\* reconnecting.  Nothing is assumed of the operator, the session or the
\* server's changes.
ConsoleFairSpec ==
  /\ ConsoleSpec
  /\ WF_consoleVars(StreamConnects) /\ SF_consoleVars(Deliver)
  /\ WF_consoleVars(ServeFirst) /\ WF_consoleVars(FirstLands)
  /\ WF_consoleVars(ServePage) /\ WF_consoleVars(PageLands) /\ WF_consoleVars(OrphanEnds)
  /\ WF_consoleVars(TimerFires) /\ WF_consoleVars(ServeLive) /\ WF_consoleVars(LiveLands)

-----------------------------------------------------------------------------
(* Properties *)

Current ==
  /\ data.query = query
  /\ \A r \in data.rows : r.query = query /\ r.read = version

\* When the operator and the server come to rest the list on screen is the
\* list asked for, as the server has it, unless one of four things happened.
\* A live refresh was in flight when the query or the session changed; or,
\* with no event received after it and no page that holds them all, an answer
\* was applied over a newer one, a later page moved the resume cursor past
\* events the earlier rows had not seen, or a live refresh failed
\* (runLiveRefresh, the first-page effect, updateCursor).
ListCatchesUp ==
  <>[](unlocked /\ status = "ready" => Current \/ excuse # {})

\* Rows of two queries are never on screen together, unless a live refresh
\* crossed a change of query (mergeAlerts, pendingPage.key).
PagesAreNotMixed ==
  "crossed" \in excuse \/ \A r1, r2 \in data.rows : r1.query = r2.query

\* The load-more control comes back: its spinner never outlives the requests
\* that would end it (loadingMore, the finally of a page request).
LoadMoreComesBack == loadingMore ~> ~loadingMore

\* The stream is only open under the view the rows were read through, and a
\* client never resumes behind the rows on screen (useAlertStream, App).
StreamFollowsSnapshot ==
  stream.open => /\ ViewOf[data.query] = ViewOf[query]
                 /\ stream.cursor >= data.cursor

=============================================================================
