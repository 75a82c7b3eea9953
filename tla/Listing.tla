------------------------------- MODULE Listing -------------------------------
(***************************************************************************)
(* One signed-in user in front of the alert list: the pages they load, the *)
(* stream they follow, and everything that changes underneath - alerts,    *)
(* role bindings, directory groups, view groups, saved preferences.        *)
(*                                                                         *)
(* No request runs in a transaction.  The caller is resolved in several    *)
(* statements, the saved view in another, and the stream position, the     *)
(* counts and the page in one each, so a change may fall between any two.  *)
(* A page is found from where the previous one ended, and a poll of the    *)
(* stream resolves the caller again.                                       *)
(*                                                                         *)
(* The writers are one step each here: StoreTransactions has the alerts'   *)
(* transactions, RoleBindings the guard on the last administrator, and     *)
(* EventStream the ids that are visible out of order and the pruning.      *)
(* Closed alerts and the filters that work like one on a label are left    *)
(* out of the query.                                                       *)
(***************************************************************************)
EXTENDS Visibility, Integers, Sequences, FiniteSets, FiniteSetsExt

CONSTANTS
    MaxAlert,      \* bound: alert ids are 1..MaxAlert
    LabelSets,     \* labels an alert may carry
    FirstLabels,   \* labels of the alerts already there
    Bindings,      \* role bindings that may name the user: subject, role, matchers
    FirstBindings, \* those it may start with
    Directory,     \* directory groups the user may be in
    ViewGroups,    \* names of view groups
    Selectors,     \* selectors a view group may have
    Queries,       \* queries the console sends
    SavedViews,    \* choices a client may save
    Modes,         \* its view parameter: "", "mine" or "all"
    TextRank,      \* the database's collation, as a rank of each text value
    Limit,         \* page size
    PollLimit,     \* events of one poll
    MaxChanges     \* bound: changes of alerts, access, view and preferences

ASSUME ListingConstants ==
    /\ MaxAlert \in Nat /\ FirstLabels \in Seq(LabelSets)
    /\ Len(FirstLabels) <= MaxAlert
    /\ {} \notin Selectors /\ None \notin LabelSets
    /\ \A q \in Queries : DOMAIN q = {"groupBy", "sort", "order", "matches"}
    /\ Limit \in Nat \ {0} /\ PollLimit \in Nat \ {0} /\ MaxChanges \in Nat

VARIABLES
    rows,       \* alerts: labels and lastSeen, by id
    events,     \* stream_events: alert, labels and previous labels, by id
    account,    \* the session, users.enabled, role_bindings, auth_identity_groups
    views,      \* view_groups: selector, membership and pins, per group
    prefs,      \* user_preferences.view of the user, or None
    saving,     \* a save by a client that does not know of views
    request,    \* the list request in progress
    walk,       \* the list as the console has loaded it
    stream,     \* the open stream and its poll in progress
    changes,    \* how much has changed
    steady,     \* ghost: entries of the walk's query that never moved during it
    calm        \* ghost: neither access nor view changed since the walk began

database == <<rows, events, account, views, prefs>>
ghosts == <<steady, calm>>
vars == <<database, saving, request, walk, stream, changes, ghosts>>

User == "user"
DefaultView == [enabled |-> TRUE, criticalBypass |-> TRUE]

ASSUME NoneIsNoSave == None \notin [view: SavedViews \cup {DefaultView}, stale: BOOLEAN]
ASSUME NoneIsNoKey == None \notin (Int \X Int) \cup (Int \X Int \X Int)

\* The collation is deterministic: no two texts have the same rank.
ASSUME TextOrder ==
    /\ "" \in DOMAIN TextRank
    /\ \A labels \in LabelSets : \A n \in DOMAIN labels : labels[n] \in DOMAIN TextRank
    /\ \A s, t \in DOMAIN TextRank :
          TextRank[s] \in Int /\ (TextRank[s] = TextRank[t] => s = t)

-----------------------------------------------------------------------------
(* resolvePrincipal and the saved preferences                              *)

\* The subject match of role bindings and of pins.
Names(subject, directory) == subject = User \/ subject \in directory

\* The bindings that apply; a disabled user has none.
GrantsOf(acc) ==
    IF ~acc.enabled THEN {}
    ELSE {[role |-> b.role, matchers |-> b.matchers] :
             b \in {c \in acc.bindings : Names(c.subject, acc.directory)}}

Granted == GrantsOf(account)

pinnedToUser(g) == \E s \in views[g].pins : Names(s, account.directory)

\* One conjunction per defined group the user joined or has pinned on them.
viewGroupMatchers ==
    {views[g].selector : g \in {h \in ViewGroups :
        views[h].selector # {} /\ (views[h].joined \/ pinnedToUser(h))}}

Caller(grants, groups) == [anonymous |-> FALSE, grants |-> grants, viewGroups |-> groups]

\* resolvePrincipal refuses a caller without a grant.
Unreadable == ~CanRead(Caller(Granted, {}))

\* SessionManager.Authenticate: the session must still be there as well.
Denied == ~account.session \/ Unreadable

ReadPreferences == IF prefs = None THEN DefaultView ELSE prefs

viewOptions(mode) ==
    LET saved == ReadPreferences
    IN  [showAll |-> mode = "all" \/ (mode = "" /\ ~saved.enabled),
         filterCritical |-> ~saved.criticalBypass]

-----------------------------------------------------------------------------
(* Queries.  An entry is an alert or a group; its key is the tuple the     *)
(* query orders by, with the id or the group key last.                     *)

\* A matcher of the query, unlike a grant's, reads an absent label as the
\* empty one.
QuerySelects(matcher, labels) ==
    LET present == matcher.name \in DOMAIN labels
    IN  \/ /\ matcher.operator = "!="
           /\ ~present \/ labels[matcher.name] # matcher.value
        \/ /\ matcher.operator = "="
           /\ (IF present THEN labels[matcher.name] ELSE "") = matcher.value

TextOf(name, labels) == IF name \in DOMAIN labels THEN labels[name] ELSE ""

severityRank(labels) ==
    LET severity == SeverityOf(labels)
    IN  CASE severity = "critical" -> 3
          [] severity = "warning" -> 2
          [] severity = "info" -> 1
          [] OTHER -> 0

\* The sort expression, evaluated by the database.
SortValue(sort, row) ==
    CASE sort = "lastSeen" -> row.lastSeen
      [] sort = "severity" -> severityRank(row.labels)
      [] OTHER -> TextRank[TextOf(sort, row.labels)]

\* The value the cursor carries, computed in Go from the alert.  An empty
\* severity is a warning here and nothing at all in the database.
alertCursorValue(sort, row) ==
    IF sort = "severity"
    THEN CASE TextOf("severity", row.labels) = "critical" -> 3
           [] TextOf("severity", row.labels) = "info" -> 1
           [] TextOf("severity", row.labels) \in {"warning", ""} -> 2
           [] OTHER -> 0
    ELSE SortValue(sort, row)

\* The alerts a query selects for a caller and a view.
Hits(q, principal, view) ==
    {a \in DOMAIN rows : /\ ShownBy(principal, view, rows[a].labels)
                         /\ \A m \in q.matches : QuerySelects(m, rows[a].labels)}

GroupKey(q, a) == TextOf(q.groupBy, rows[a].labels)
Members(q, hits, k) == {a \in hits : GroupKey(q, a) = k}
Largest(sort, S) == Max({SortValue(sort, rows[a]) : a \in S})

GroupSortKey(q, members, k) ==
    IF q.sort = None
    THEN <<Largest("severity", members), Largest("lastSeen", members), TextRank[k]>>
    ELSE <<Largest(q.sort, members), TextRank[k]>>

\* The result of a query: its entries, each with its key.
Entries(q, principal, view) ==
    LET hits == Hits(q, principal, view)
    IN  IF q.groupBy = None
        THEN [a \in hits |-> <<SortValue(q.sort, rows[a]), a>>]
        ELSE [k \in {GroupKey(q, a) : a \in hits} |->
                 GroupSortKey(q, Members(q, hits, k), k)]

CursorOf(q, entries, e) ==
    IF q.groupBy = None THEN <<alertCursorValue(q.sort, rows[e]), e>> ELSE entries[e]

\* SQL's row comparison.
Less(u, v) == \E i \in DOMAIN u : /\ u[i] < v[i]
                                  /\ \A j \in 1..(i - 1) : u[j] = v[j]
Before(q, u, v) == IF q.order = "asc" THEN Less(u, v) ELSE Less(v, u)

\* Past the cursor, and among the first n of those.
PageOf(q, entries, cursor, n) ==
    LET past == {e \in DOMAIN entries : cursor = None \/ Before(q, cursor, entries[e])}
    IN  {e \in past : Cardinality({d \in past : Before(q, entries[d], entries[e])}) < n}

LastOf(q, entries, page) ==
    CHOOSE e \in page : \A d \in page \ {e} : Before(q, entries[d], entries[e])

-----------------------------------------------------------------------------
NoRequest == [phase |-> "none", inForce |-> {}]
NoWalk == [query |-> None, done |-> TRUE, held |-> {}]
NoPoll == [phase |-> "idle", inForce |-> {}]
NoStream == [open |-> FALSE, last |-> 0, after |-> 0, poll |-> NoPoll]
NotDefined == [selector |-> {}, joined |-> FALSE, pins |-> {}]

Init ==
    /\ rows = [a \in DOMAIN FirstLabels |-> [labels |-> FirstLabels[a], lastSeen |-> a]]
    /\ events = <<>>
    /\ account \in [session: {TRUE}, enabled: {TRUE}, bindings: FirstBindings, directory: {Directory}]
    /\ views \in [ViewGroups -> {NotDefined} \cup
                     [selector: Selectors, joined: {TRUE}, pins: {{}}]]
    /\ prefs = None
    /\ saving = None
    /\ request = NoRequest
    /\ walk = NoWalk
    /\ stream = NoStream
    /\ changes = 0
    /\ steady = {}
    /\ calm = TRUE

-----------------------------------------------------------------------------
(* Changes underneath.                                                     *)

\* The result of the walk's query as it is now.
Current(q, mode) ==
    LET caller == Caller(Granted, viewGroupMatchers)
    IN  Entries(q, caller, resolveView(caller, viewOptions(mode)))

\* Ghost: what is left of the steady entries after this step.
StillSteady ==
    steady' = IF walk.query = None THEN {}
              ELSE {e \in steady : \E q \in {walk.query}, m \in {walk.mode} :
                       /\ e \in DOMAIN Current(q, m)'
                       /\ Current(q, m)'[e] = Current(q, m)[e]}

Changing == changes < MaxChanges /\ changes' = changes + 1

\* Ghosts of a change of access, view or preferences: a request under way may
\* have read some of it already.
AccessChanges ==
    /\ calm' = FALSE
    /\ UNCHANGED <<rows, events, walk>>
    /\ IF request.phase # "none" THEN steady' = {} ELSE StillSteady
    /\ request' = IF request.phase = "none" THEN request
                  ELSE [request EXCEPT !.inForce = @ \cup {GrantsOf(account')}]
    /\ stream' = IF stream.poll.phase = "idle" THEN stream
                 ELSE [stream EXCEPT !.poll.inForce = @ \cup {GrantsOf(account')}]

\* A delivery creates an alert, repeats it or changes its labels.
Deliver(a, labels) ==
    /\ a \in DOMAIN rows \/ a = Cardinality(DOMAIN rows) + 1
    /\ Changing
    /\ LET known == a \in DOMAIN rows
           row == [labels |-> labels, lastSeen |-> MaxAlert + changes + 1]
       IN  /\ rows' = [b \in DOMAIN rows \cup {a} |-> IF b = a THEN row ELSE rows[b]]
           /\ events' = IF known /\ rows[a].labels = labels THEN events
                        ELSE Append(events, [alert |-> a, labels |-> labels,
                                previous |-> IF known THEN rows[a].labels ELSE None])
    /\ UNCHANGED <<account, views, prefs, saving, walk, stream, calm>>
    /\ StillSteady
    /\ request' = IF request.phase = "none" THEN request
                  ELSE [request EXCEPT !.undisturbed = FALSE]

SetRoleBinding(b) ==
    /\ b \notin account.bindings
    /\ Changing
    /\ account' = [account EXCEPT !.bindings = @ \cup {b}]
    /\ UNCHANGED <<views, prefs, saving>>
    /\ AccessChanges

DeleteRoleBinding(b) ==
    /\ b \in account.bindings
    /\ Changing
    /\ account' = [account EXCEPT !.bindings = @ \ {b}]
    /\ UNCHANGED <<views, prefs, saving>>
    /\ AccessChanges

\* An administrator disables the account or enables it again.
SetUserEnabled ==
    /\ Changing
    /\ account' = [account EXCEPT !.enabled = ~@]
    /\ UNCHANGED <<views, prefs, saving>>
    /\ AccessChanges

\* The user signs out, or the session expires.
EndSession ==
    /\ account.session
    /\ Changing
    /\ account' = [account EXCEPT !.session = FALSE]
    /\ UNCHANGED <<views, prefs, saving>>
    /\ AccessChanges

\* A sign-in, here or elsewhere, replaces the groups the directory reported.
SignInAgain(groups) ==
    /\ groups # account.directory \/ ~account.session
    /\ Changing
    /\ account' = [account EXCEPT !.directory = groups, !.session = TRUE]
    /\ UNCHANGED <<views, prefs, saving>>
    /\ AccessChanges

ViewsChange(g, group) ==
    /\ Changing
    /\ views' = [views EXCEPT ![g] = group]
    /\ account' = account
    /\ UNCHANGED <<prefs, saving>>
    /\ AccessChanges

SetViewGroup(g, selector) ==
    /\ views[g].selector # selector
    /\ ViewsChange(g, [views[g] EXCEPT !.selector = selector])

\* Members and pins go with the group (ON DELETE CASCADE).
DeleteViewGroup(g) == views[g].selector # {} /\ ViewsChange(g, NotDefined)

JoinViewGroup(g) ==
    /\ views[g].selector # {} /\ ~views[g].joined
    /\ ViewsChange(g, [views[g] EXCEPT !.joined = TRUE])

\* Refused while the group is pinned on the caller.
LeaveViewGroup(g) ==
    /\ views[g].joined /\ ~pinnedToUser(g)
    /\ ViewsChange(g, [views[g] EXCEPT !.joined = FALSE])

PinViewGroup(g, subject) ==
    /\ views[g].selector # {} /\ subject \notin views[g].pins
    /\ ViewsChange(g, [views[g] EXCEPT !.pins = @ \cup {subject}])

UnpinViewGroup(g, subject) ==
    /\ subject \in views[g].pins
    /\ ViewsChange(g, [views[g] EXCEPT !.pins = @ \ {subject}])

-----------------------------------------------------------------------------
(* WritePreferences.                                                       *)

\* A client that knows of views sends the choice: one statement.
SaveView(view) ==
    /\ ~Denied
    /\ prefs # view
    /\ Changing
    /\ prefs' = view
    /\ saving' = IF saving = None THEN None ELSE [saving EXCEPT !.stale = TRUE]
    /\ account' = account
    /\ UNCHANGED views
    /\ AccessChanges

\* One that does not makes the server read what is stored ...
ReadForSave ==
    /\ ~Denied /\ saving = None /\ Changing
    /\ saving' = [view |-> ReadPreferences, stale |-> FALSE]
    /\ UNCHANGED <<database, request, walk, stream, ghosts>>

\* Mutant: an omitted view is stored as its zero value.
KeptView_Zero == [enabled |-> FALSE, criticalBypass |-> FALSE]

KeptView == saving.view

\* ... and write it back with the rest.
WriteBack ==
    /\ saving # None
    /\ prefs' = KeptView
    /\ saving' = None
    /\ account' = account
    /\ UNCHANGED <<views, changes>>
    /\ AccessChanges

-----------------------------------------------------------------------------
(* GET /api/v1/alerts, statement by statement.                             *)

Requesting(phase) == request.phase = phase
Step(r) == request' = r /\ UNCHANGED <<database, saving, stream, changes>>

\* resolvePrincipal's account and grants.  A first page begins a walk.
Authenticate(q, mode, first) ==
    /\ Requesting("none") /\ ~Denied
    /\ IF first
       THEN /\ ~stream.open /\ stream' = NoStream
            /\ walk' = [query |-> q, mode |-> mode, options |-> None, cursor |-> None,
                        from |-> 0, done |-> FALSE, pages |-> <<>>, held |-> {},
                        misplaced |-> FALSE]
            /\ steady' = DOMAIN Current(q, mode)
            /\ calm' = TRUE
       ELSE /\ walk.query = q /\ walk.mode = mode /\ ~walk.done /\ walk.pages # <<>>
            /\ UNCHANGED <<walk, stream, steady, calm>>
    /\ request' = [phase |-> "grants", grants |-> Granted, inForce |-> {Granted},
                   undisturbed |-> TRUE]
    /\ UNCHANGED <<database, saving, changes>>

\* 401 or 403: nothing is read.
RefuseCaller == Requesting("none") /\ Denied /\ UNCHANGED vars

ResolveViewGroups ==
    /\ Requesting("grants")
    /\ Step([phase |-> "resolved", principal |-> Caller(request.grants, viewGroupMatchers),
             inForce |-> request.inForce, undisturbed |-> TRUE])
    /\ UNCHANGED <<walk, ghosts>>

\* The query a cursor was issued for is the walk's; its view has to be too.
CursorMatches(options) == walk.cursor = None \/ walk.options = options

\* viewOptions and parseAlertQuery.  A page of another view is refused, and
\* the console starts over.
ParseQuery ==
    /\ Requesting("resolved")
    /\ LET options == viewOptions(walk.mode)
       IN  IF CursorMatches(options)
           THEN /\ Step([request EXCEPT !.phase = "parsed"])
                /\ walk' = [walk EXCEPT !.options = options]
                /\ UNCHANGED ghosts
           ELSE /\ Step(NoRequest)
                /\ walk' = NoWalk
                /\ steady' = {}
                /\ UNCHANGED calm

View == resolveView(request.principal, walk.options)

EventVisible(principal, e) ==
    \/ readAccessCondition(principal, events[e].labels)
    \/ /\ events[e].previous # None
       /\ readAccessCondition(principal, events[e].previous)

\* The newest event the caller may know of; the console keeps that of its
\* first page.
readStreamCursor ==
    /\ Requesting("parsed")
    /\ LET known == {e \in DOMAIN events : EventVisible(request.principal, e)}
       IN  walk' = IF walk.pages # <<>> THEN walk
                   ELSE [walk EXCEPT !.from = IF known = {} THEN 0 ELSE Max(known)]
    /\ Step([request EXCEPT !.phase = "cursor", !.undisturbed = TRUE])
    /\ UNCHANGED ghosts

readSeverityCounts ==
    /\ Requesting("cursor")
    /\ Step([phase |-> "counted", principal |-> request.principal,
             inForce |-> request.inForce, undisturbed |-> TRUE,
             total |-> Cardinality(Hits(walk.query, request.principal, View))])
    /\ UNCHANGED <<walk, ghosts>>

\* Mutant: the inverted view is not inside scope.
HiddenAlerts_AnyScope ==
    {a \in DOMAIN rows :
        /\ ~visibleCondition(View, rows[a].labels)
        /\ \A m \in walk.query.matches : QuerySelects(m, rows[a].labels)}

\* What the inverted view counts, under the query's own filters.
HiddenAlerts ==
    {a \in DOMAIN rows :
        /\ HiddenBy(request.principal, View, rows[a].labels)
        /\ \A m \in walk.query.matches : QuerySelects(m, rows[a].labels)}

summarizeView ==
    /\ Requesting("counted")
    /\ Step([phase |-> "summarized", principal |-> request.principal,
             inForce |-> request.inForce, undisturbed |-> request.undisturbed,
             total |-> request.total,
             hidden |-> IF active(View) THEN Cardinality(HiddenAlerts) ELSE 0])
    /\ UNCHANGED <<walk, ghosts>>

\* Mutant: the cursor names the first row left out, not the last one sent.
EndOf_NextRow(q, entries, cursor) ==
    LastOf(q, entries, PageOf(q, entries, cursor, Limit + 1))

\* Where a page that has a successor ends.
EndOf(q, entries, cursor) ==
    LastOf(q, entries, PageOf(q, entries, cursor, Limit))

Result == Entries(walk.query, request.principal, View)
Page == PageOf(walk.query, Result, walk.cursor, Limit)

\* The labels behind a page: of its alerts, or of the members its groups
\* summarise.
PageLabels ==
    IF walk.query.groupBy = None THEN {rows[a].labels : a \in Page}
    ELSE {rows[a].labels : a \in {b \in Hits(walk.query, request.principal, View) :
                                     GroupKey(walk.query, b) \in Page}}

\* The page itself; one row more than asked for tells whether there is another.
ReadPage ==
    /\ Requesting("summarized")
    /\ LET q == walk.query
           entries == Result
           page == Page
           more == page # PageOf(q, entries, walk.cursor, Limit + 1)
           end == EndOf(q, entries, walk.cursor)
       IN  walk' = [walk EXCEPT
             !.pages = Append(@, page),
             !.held = IF q.groupBy = None THEN @ \cup page ELSE @,
             !.done = ~more,
             !.cursor = IF more THEN CursorOf(q, entries, end) ELSE @,
             !.misplaced = @ \/ (more /\ CursorOf(q, entries, end) # entries[end])]
    /\ Step(NoRequest)
    /\ UNCHANGED ghosts

-----------------------------------------------------------------------------
(* GET /api/v1/stream.                                                     *)

Streaming(phase) == stream.open /\ stream.poll.phase = phase
StreamStep(s) == stream' = s /\ UNCHANGED <<database, saving, request, changes>>

\* From the snapshot's position, or from the last event received.  The
\* options are read once.  A grouped list has the same stream.
OpenStream ==
    /\ ~stream.open /\ ~Denied
    /\ walk.query # None /\ walk.query.groupBy = None /\ walk.pages # <<>>
    /\ StreamStep([open |-> TRUE, options |-> viewOptions(walk.mode), poll |-> NoPoll,
                   last |-> Max({stream.last, walk.from}),
                   after |-> Max({stream.last, walk.from})])
    /\ UNCHANGED <<walk, ghosts>>

\* A console that starts over closes the stream of the old list.
CloseStream ==
    /\ stream.open /\ Requesting("none")
    /\ StreamStep(NoStream)
    /\ UNCHANGED <<walk, ghosts>>

\* Mutant: the outcome of authenticating again is not looked at.
Reauthenticate_Ignored ==
    Streaming("idle") /\ Denied /\ UNCHANGED vars

\* Every 15 seconds, before a poll.
Reauthenticate ==
    /\ Streaming("idle") /\ Denied
    /\ StreamStep([NoStream EXCEPT !.last = stream.last])
    /\ UNCHANGED <<walk, ghosts>>

\* The window is cut before access is considered.
ScanWindow ==
    /\ Streaming("idle") /\ Len(events) > stream.after
    /\ StreamStep([stream EXCEPT !.poll =
          [phase |-> "window", inForce |-> {Granted},
           through |-> Min({Len(events), stream.after + PollLimit})]])
    /\ UNCHANGED <<walk, ghosts>>

\* The caller is resolved anew, the session is not looked at; without access
\* the stream ends.
ResolvePollGrants ==
    /\ Streaming("window")
    /\ StreamStep(IF Unreadable THEN [NoStream EXCEPT !.last = stream.last]
                  ELSE [stream EXCEPT !.poll =
                           [phase |-> "grants", inForce |-> stream.poll.inForce,
                            through |-> stream.poll.through, grants |-> Granted]])
    /\ UNCHANGED <<walk, ghosts>>

ResolvePollViewGroups ==
    /\ Streaming("grants")
    /\ StreamStep([stream EXCEPT !.poll =
          [phase |-> "resolved", inForce |-> stream.poll.inForce,
           through |-> stream.poll.through,
           principal |-> Caller(stream.poll.grants, viewGroupMatchers)]])
    /\ UNCHANGED <<walk, ghosts>>

\* Mutant: only what is visible now.
EventRows_NowOnly(principal, view) ==
    {e \in (stream.after + 1)..stream.poll.through : ShownBy(principal, view, events[e].labels)}

\* The rows of the window that are visible, or were before the change.
EventRows(principal, view) ==
    {e \in (stream.after + 1)..stream.poll.through :
        \/ ShownBy(principal, view, events[e].labels)
        \/ /\ events[e].previous # None
           /\ ShownBy(principal, view, events[e].previous)}

\* Go's second look: seen before and not any more.
Visible(principal, view, labels) ==
    CanReadLabels(principal, labels) /\ includes(view, labels)

\* Mutant: an event that left scope but not the view is sent in full.
Redacted_ViewOnly(principal, view, e) ==
    /\ ~includes(view, events[e].labels)
    /\ events[e].previous # None
    /\ Visible(principal, view, events[e].previous)

Redacted(principal, view, e) ==
    /\ ~Visible(principal, view, events[e].labels)
    /\ events[e].previous # None
    /\ Visible(principal, view, events[e].previous)

\* What a client holds after the events, the last word about each alert.
HeldAfter(sent, redacted) ==
    LET lastWord(a) == Max({e \in sent : events[e].alert = a})
        told == {events[e].alert : e \in sent}
    IN  {a \in walk.held \cup told : a \in told => lastWord(a) \notin redacted}

StreamView == resolveView(stream.poll.principal, stream.options)
Sent == EventRows(stream.poll.principal, StreamView)
RedactedSent == {e \in Sent : Redacted(stream.poll.principal, StreamView, e)}
SentLabels == {events[e].labels : e \in Sent \ RedactedSent}

StreamEvents ==
    /\ Streaming("resolved")
    /\ StreamStep([stream EXCEPT !.after = stream.poll.through, !.poll = NoPoll,
                                 !.last = IF Sent = {} THEN @ ELSE Max(Sent)])
    /\ walk' = IF walk.query = None THEN walk
               ELSE [walk EXCEPT !.held = HeldAfter(Sent, RedactedSent)]
    /\ UNCHANGED ghosts

-----------------------------------------------------------------------------
Next ==
    \/ \E a \in 1..MaxAlert, labels \in LabelSets : Deliver(a, labels)
    \/ \E b \in Bindings : SetRoleBinding(b) \/ DeleteRoleBinding(b)
    \/ SetUserEnabled
    \/ EndSession
    \/ \E groups \in SUBSET Directory : SignInAgain(groups)
    \/ \E g \in ViewGroups :
          \/ \E selector \in Selectors : SetViewGroup(g, selector)
          \/ DeleteViewGroup(g)
          \/ JoinViewGroup(g)
          \/ LeaveViewGroup(g)
          \/ \E s \in Directory \cup {User} : PinViewGroup(g, s) \/ UnpinViewGroup(g, s)
    \/ \E view \in SavedViews : SaveView(view)
    \/ ReadForSave
    \/ WriteBack
    \/ \E q \in Queries, mode \in Modes, first \in BOOLEAN : Authenticate(q, mode, first)
    \/ RefuseCaller
    \/ ResolveViewGroups
    \/ ParseQuery
    \/ readStreamCursor
    \/ readSeverityCounts
    \/ summarizeView
    \/ ReadPage
    \/ OpenStream
    \/ CloseStream
    \/ Reauthenticate
    \/ ScanWindow
    \/ ResolvePollGrants
    \/ ResolvePollViewGroups
    \/ StreamEvents

\* An open stream keeps polling, and authenticates again every 15 seconds.
Fairness ==
    /\ WF_stream(ScanWindow \/ ResolvePollGrants \/ ResolvePollViewGroups \/ StreamEvents)
    /\ WF_stream(Reauthenticate)

Spec == Init /\ [][Next]_vars /\ Fairness

-----------------------------------------------------------------------------
\* Nothing is sent that the caller could not read at any time while it was
\* being prepared: a binding removed, an account disabled or a directory group
\* lost is honoured by the next page and, on a stream already open, by the
\* next poll.
ShownWasReadable ==
    /\ [][ReadPage => \A labels \in PageLabels : \E grants \in request.inForce :
             CanReadLabels(Caller(grants, {}), labels)]_vars
    /\ [][StreamEvents => \A labels \in SentLabels : \E grants \in stream.poll.inForce :
             CanReadLabels(Caller(grants, {}), labels)]_vars

\* Keyset paging: an alert or group in the result at the same place all
\* through a walk is on one page of it, and on only one, whatever else moves.
\* The one exception is a page that ends on an alert with an empty severity
\* in a list sorted by severity: its cursor names another rank.
SteadyEntriesAppearOnce ==
    walk.query # None /\ ~walk.misplaced =>
        /\ \A i, j \in DOMAIN walk.pages : i # j =>
              walk.pages[i] \cap walk.pages[j] \cap steady = {}
        /\ walk.done => steady \subseteq UNION {walk.pages[i] : i \in DOMAIN walk.pages}

\* StreamEvents: "a stream resumed from a snapshot's cursor agrees with it: an
\* alert leaving the view reaches the client as a removal".  While neither
\* access nor view changes, a client that has all events holds nothing its
\* list would not show and, with every page loaded, everything it would.  In a
\* list by lastSeen a repeated delivery moves an alert past the cursor to a
\* page already read, without an event; there it holds what did not move.
StreamAgreesWithList ==
    /\ calm /\ walk.query # None /\ walk.query.groupBy = None /\ walk.query.matches = {}
    /\ ~walk.misplaced
    /\ stream.open /\ stream.after = Len(events) /\ walk.pages # <<>>
    => LET list == DOMAIN Current(walk.query, walk.mode)
       IN  /\ walk.held \subseteq list
           /\ walk.done =>
                 (IF walk.query.sort = "lastSeen" THEN list \cap steady ELSE list)
                     \subseteq walk.held

\* The counts and the groups are the list's.  view.go: the inverted view "still
\* sits inside scope", so unless an alert changes between the two counts, what
\* is shown and what is said to be hidden are together what the caller may
\* read.  alertFiltersWithView: matching "lets expanding an empty-label group
\* retrieve every member exactly", so the query that expands a group selects
\* the members the group was counted from.
SummariesAddUp ==
    /\ request.phase = "summarized" /\ request.undisturbed =>
          request.total + (IF walk.options.showAll THEN 0 ELSE request.hidden)
              = Cardinality({a \in DOMAIN rows :
                    /\ CanReadLabels(request.principal, rows[a].labels)
                    /\ \A m \in walk.query.matches : QuerySelects(m, rows[a].labels)})
    /\ \A q \in {p \in Queries : p.groupBy # None} :
          LET caller == Caller(Granted, viewGroupMatchers)
              view == resolveView(caller, viewOptions(""))
              hits == Hits(q, caller, view)
          IN  \A k \in {GroupKey(q, a) : a \in hits} :
                 Members(q, hits, k) =
                     Hits([q EXCEPT !.matches = @ \cup
                              {[name |-> q.groupBy, operator |-> "=", value |-> k]}],
                          caller, view)

\* WritePreferences: "A client that does not know about a field must not erase
\* the choice a newer one stored."  It does so only when the newer one saved
\* between its read and its write.
ErasedOnlyInARace ==
    [][saving # None /\ saving' = None /\ prefs \notin {prefs', None} => saving.stale]_vars

\* A stream whose user lost all access, signed out or let the session expire,
\* for good, ends, although no poll looks at the session.
RevokedStreamsEnd == <>[]Denied => <>[]~stream.open
=============================================================================
