--------------------------- MODULE ListingProofs ---------------------------
(***************************************************************************)
(* Proofs about Visibility and Listing.                                    *)
(*                                                                         *)
(* The Go and the SQL statement of who sees what are the same, for every   *)
(* caller, selector, label set and regular expression.  The stream relies  *)
(* on it: a row its query returned and Go does not find visible is sent    *)
(* redacted, so a disagreement would blank an alert the list shows or send *)
(* one it hides.  On top of that, whatever changes between the statements  *)
(* of a request or a poll, nothing is sent that was not readable, and the  *)
(* counts of a page add up.  The last two sections are about a whole walk: *)
(* pages neither repeat nor skip an entry that stands still, and a client  *)
(* that follows the stream from its list's position ends where the list    *)
(* is.                                                                     *)
(***************************************************************************)
EXTENDS Listing, FiniteSetTheorems, TLAPS

\* A matcher means the same in both languages; an operator neither knows
\* selects nothing in either.
LEMMA MatchersAgree ==
    ASSUME NEW labels, NEW matcher
    PROVE  Satisfies(labels, matcher) <=> Selected(labels, matcher)
BY DEF Satisfies, Selected

LEMMA ConjunctionsAgree ==
    ASSUME NEW labels, NEW matchers
    PROVE  (\A matcher \in matchers : Satisfies(labels, matcher))
               <=> (\A matcher \in matchers : Selected(labels, matcher))
BY MatchersAgree

\* CanReadLabels admits exactly the labels readAccessCondition selects.
THEOREM ReadScopesAgree ==
    ASSUME NEW principal, NEW labels
    PROVE  CanReadLabels(principal, labels) <=> readAccessCondition(principal, labels)
<1>1. ASSUME CanReadLabels(principal, labels)
      PROVE  readAccessCondition(principal, labels)
  BY <1>1, ConjunctionsAgree DEF CanReadLabels, readAccessCondition, Scope
<1>2. ASSUME readAccessCondition(principal, labels)
      PROVE  CanReadLabels(principal, labels)
  BY <1>2, ConjunctionsAgree DEF CanReadLabels, readAccessCondition, Scope
<1> QED BY <1>1, <1>2

\* CanOperateLabels admits exactly the labels operateAccessCondition selects,
\* and only labels the caller may read.
THEOREM OperateScopesAgree ==
    ASSUME NEW principal, NEW labels
    PROVE  /\ CanOperateLabels(principal, labels) <=> operateAccessCondition(principal, labels)
           /\ CanOperateLabels(principal, labels) => CanReadLabels(principal, labels)
<1>1. ASSUME CanOperateLabels(principal, labels)
      PROVE  operateAccessCondition(principal, labels)
  BY <1>1, ConjunctionsAgree DEF CanOperateLabels, operateAccessCondition, Scope
<1>2. ASSUME operateAccessCondition(principal, labels)
      PROVE  CanOperateLabels(principal, labels)
  BY <1>2, ConjunctionsAgree DEF CanOperateLabels, operateAccessCondition, Scope
<1>3. CanOperateLabels(principal, labels) => CanReadLabels(principal, labels)
  BY DEF CanOperateLabels, CanReadLabels
<1> QED BY <1>1, <1>2, <1>3

\* A view holds no empty selector, which would select everything.
LEMMA NoEmptySelector ==
    ASSUME NEW principal, NEW options
    PROVE  {} \notin resolveView(principal, options).groups
BY DEF resolveView, ViewMatchers

LEMMA CriticalAgrees ==
    ASSUME NEW labels
    PROVE  IsCritical(labels) <=> SeverityOf(labels) = "critical"
BY DEF IsCritical, SeverityOf

\* ClassifyView, in Go, puts outside the view what visibleCondition, in SQL,
\* does not select.
LEMMA ViewsAgree ==
    ASSUME NEW view, NEW labels, {} \notin view.groups
    PROVE  ClassifyView(view, labels) # "outside" <=> visibleCondition(view, labels)
<1>1. MatchViewGroups(view.groups, labels)
        <=> \E group \in view.groups : \A matcher \in group : Selected(labels, matcher)
  BY ConjunctionsAgree DEF MatchViewGroups
<1>2. ClassifyView(view, labels) # "outside"
        <=> \/ MatchViewGroups(view.groups, labels)
            \/ ~view.options.filterCritical /\ IsCritical(labels)
  BY DEF ClassifyView
<1> QED BY <1>1, <1>2, CriticalAgrees DEF visibleCondition

\* An event is found visible by the stream's Go check exactly when a list
\* query of the same caller and options would select a row with its labels.
THEOREM StreamSeesWhatTheListShows ==
    ASSUME NEW principal, NEW options, NEW labels
    PROVE  LET view == resolveView(principal, options)
           IN  ShownBy(principal, view, labels)
                 <=> CanReadLabels(principal, labels) /\ includes(view, labels)
<1> DEFINE view == resolveView(principal, options)
<1>1. includes(view, labels) <=> (filtering(view) => visibleCondition(view, labels))
  BY NoEmptySelector, ViewsAgree DEF includes
<1> QED BY <1>1, ReadScopesAgree DEF ShownBy

\* While a view filters, what it shows and what summarizeView counts as
\* hidden divide what the caller may read.
THEOREM ShownAndHiddenPartition ==
    ASSUME NEW principal, NEW view, NEW labels, filtering(view)
    PROVE  /\ CanReadLabels(principal, labels)
                <=> ShownBy(principal, view, labels) \/ HiddenBy(principal, view, labels)
           /\ ~(ShownBy(principal, view, labels) /\ HiddenBy(principal, view, labels))
BY ReadScopesAgree DEF ShownBy, HiddenBy

-----------------------------------------------------------------------------
(***************************************************************************)
(* The inductive invariant.                                                *)
(***************************************************************************)
WalkFields == {"query", "mode", "options", "cursor", "from", "done", "pages", "held",
               "misplaced"}

\* There is a list behind every request.
WalkOK ==
    /\ walk = NoWalk \/ DOMAIN walk = WalkFields
    /\ request.phase # "none" => DOMAIN walk = WalkFields

\* The caller is one the grants in force at some time of the request make.
CallerOK(principal, inForce) == ~principal.anonymous /\ principal.grants \in inForce

Resolved == {"resolved", "parsed", "cursor", "counted", "summarized"}

RequestOK ==
    /\ request.phase \in {"none", "grants"} \cup Resolved
    /\ {"phase", "inForce"} \subseteq DOMAIN request
    /\ request.phase # "none" => "undisturbed" \in DOMAIN request
    /\ request.phase = "grants" =>
          "grants" \in DOMAIN request /\ request.grants \in request.inForce
    /\ request.phase \in Resolved =>
          "principal" \in DOMAIN request /\ CallerOK(request.principal, request.inForce)

PollOK ==
    /\ {"open", "last", "after", "poll"} \subseteq DOMAIN stream
    /\ {"phase", "inForce"} \subseteq DOMAIN stream.poll
    /\ stream.poll.phase \in {"idle", "window", "grants", "resolved"}
    /\ stream.poll.phase # "idle" => Granted \in stream.poll.inForce
    /\ stream.poll.phase = "grants" =>
          "grants" \in DOMAIN stream.poll /\ stream.poll.grants \in stream.poll.inForce
    /\ stream.poll.phase = "resolved" =>
          /\ "principal" \in DOMAIN stream.poll
          /\ CallerOK(stream.poll.principal, stream.poll.inForce)

\* Counts of an undisturbed request are those of the rows as they are.
CountsOK ==
    /\ IsFiniteSet(DOMAIN rows)
    /\ request.phase \in {"counted", "summarized"} =>
          /\ "total" \in DOMAIN request
          /\ request.undisturbed =>
                request.total = Cardinality(Hits(walk.query, request.principal, View))
    /\ request.phase = "summarized" =>
          /\ "hidden" \in DOMAIN request
          /\ request.undisturbed =>
                request.hidden = IF active(View) THEN Cardinality(HiddenAlerts) ELSE 0

\* A save under way keeps what is stored, or is stale.
SaveOK ==
    /\ prefs \in SavedViews \cup {DefaultView, None}
    /\ saving # None => /\ saving \in [view: SavedViews \cup {DefaultView}, stale: BOOLEAN]
                        /\ ~saving.stale => saving.view = ReadPreferences

IInv == WalkOK /\ RequestOK /\ PollOK /\ CountsOK /\ SaveOK

-----------------------------------------------------------------------------
(***************************************************************************)
(* The inductive step.                                                     *)
(***************************************************************************)

\* What a page counts depends on the rows, the query, the caller and the view.
LEMMA CountsFrame ==
    ASSUME rows' = rows, walk'.query = walk.query, walk'.options = walk.options,
           request'.principal = request.principal
    PROVE  /\ View' = View
           /\ Hits(walk.query, request.principal, View)'
                 = Hits(walk.query, request.principal, View)
           /\ HiddenAlerts' = HiddenAlerts
  BY DEF View, Hits, HiddenAlerts

\* A change of access adds to the grants in force and changes nothing else of
\* a request or a poll.
LEMMA AccessKeeps ==
    ASSUME WalkOK, RequestOK, PollOK, CountsOK, AccessChanges
    PROVE  WalkOK' /\ RequestOK' /\ PollOK' /\ CountsOK'
  <1>1. rows' = rows /\ walk' = walk
    BY DEF AccessChanges
  <1>2. /\ DOMAIN request' = DOMAIN request
        /\ request.inForce \subseteq request'.inForce
        /\ \A f \in DOMAIN request : f # "inForce" => request'[f] = request[f]
    <2>1. CASE request.phase = "none"
      BY <2>1 DEF AccessChanges
    <2>2. CASE request.phase # "none"
      BY <2>2 DEF AccessChanges, RequestOK
    <2>3. QED
      BY <2>1, <2>2
  <1>3. /\ DOMAIN stream' = DOMAIN stream /\ DOMAIN stream'.poll = DOMAIN stream.poll
        /\ stream.poll.inForce \subseteq stream'.poll.inForce
        /\ \A f \in DOMAIN stream.poll : f # "inForce" => stream'.poll[f] = stream.poll[f]
        /\ stream.poll.phase # "idle" => Granted' \in stream'.poll.inForce
    <2>1. CASE stream.poll.phase = "idle"
      BY <2>1 DEF AccessChanges
    <2>2. CASE stream.poll.phase # "idle"
      BY <2>2 DEF AccessChanges, PollOK, Granted
    <2>3. QED
      BY <2>1, <2>2
  <1>4. request'.phase = request.phase
    BY <1>2 DEF RequestOK
  <1>5. WalkOK'
    BY <1>1, <1>4 DEF WalkOK, NoWalk
  <1>6. RequestOK'
    <2>1. request.phase = "grants" => request'.grants = request.grants
      BY <1>2 DEF RequestOK
    <2>2. request.phase \in Resolved => request'.principal = request.principal
      BY <1>2 DEF RequestOK
    <2>3. QED
      BY <1>2, <1>4, <2>1, <2>2 DEF RequestOK, CallerOK, Resolved
  <1>7. PollOK'
    <2>1. stream'.poll.phase = stream.poll.phase
      BY <1>3 DEF PollOK
    <2>2. stream.poll.phase = "grants" => stream'.poll.grants = stream.poll.grants
      BY <1>3 DEF PollOK
    <2>3. stream.poll.phase = "resolved" => stream'.poll.principal = stream.poll.principal
      BY <1>3 DEF PollOK
    <2>4. QED
      BY <1>3, <2>1, <2>2, <2>3 DEF PollOK, CallerOK
  <1>8. CountsOK'
    <2>1. CASE request.phase \in {"counted", "summarized"}
      <3>1. /\ request'.principal = request.principal /\ request'.total = request.total
            /\ request'.undisturbed = request.undisturbed
            /\ request.phase = "summarized" => request'.hidden = request.hidden
        BY <1>2, <2>1 DEF RequestOK, CountsOK, Resolved
      <3>2. /\ View' = View
            /\ Hits(walk.query, request.principal, View)'
                  = Hits(walk.query, request.principal, View)
            /\ HiddenAlerts' = HiddenAlerts
        BY <1>1, <3>1, CountsFrame
      <3>3. active(View)' = active(View)
        BY <3>2 DEF active
      <3>4. QED
        BY <1>1, <1>2, <1>4, <3>1, <3>2, <3>3 DEF CountsOK
    <2>2. CASE request.phase \notin {"counted", "summarized"}
      BY <1>1, <1>4, <2>2 DEF CountsOK
    <2>3. QED
      BY <2>1, <2>2
  <1>9. QED
    BY <1>5, <1>6, <1>7, <1>8

\* A new delivery disturbs the request in progress.
LEMMA DeliverKeeps ==
    ASSUME IInv, NEW a, NEW labels, Deliver(a, labels)
    PROVE  IInv'
  <1>1. /\ UNCHANGED walk /\ UNCHANGED stream /\ UNCHANGED prefs /\ UNCHANGED saving
        /\ UNCHANGED account /\ DOMAIN rows' = DOMAIN rows \cup {a}
    BY DEF Deliver
  <1>2. IsFiniteSet(DOMAIN rows')
    BY <1>1, FS_AddElement DEF IInv, CountsOK
  <1>3. /\ DOMAIN request' = DOMAIN request /\ request'.phase = request.phase
        /\ request'.inForce = request.inForce
        /\ request.phase # "none" => ~request'.undisturbed
        /\ request.phase = "grants" => request'.grants = request.grants
        /\ request.phase \in Resolved => request'.principal = request.principal
    <2>1. CASE request.phase = "none"
      BY <2>1 DEF Deliver, Resolved
    <2>2. CASE request.phase # "none"
      BY <2>2 DEF Deliver, IInv, RequestOK, Resolved
    <2>3. QED
      BY <2>1, <2>2
  <1>4. RequestOK'
    BY <1>3 DEF IInv, RequestOK, CallerOK, Resolved
  <1>5. CountsOK'
    BY <1>2, <1>3 DEF IInv, CountsOK
  <1>6. WalkOK' /\ PollOK' /\ SaveOK'
    BY <1>1, <1>3 DEF IInv, WalkOK, PollOK, SaveOK, CallerOK, ReadPreferences, NoWalk, Granted
  <1>7. QED
    BY <1>4, <1>5, <1>6 DEF IInv

\* Access changes leave a save alone, or are one.
LEMMA ChangesKeep ==
    ASSUME IInv, AccessChanges, SaveOK'
    PROVE  IInv'
  BY AccessKeeps DEF IInv

\* A request that begins has the grants of this moment.
LEMMA AuthenticateKeeps ==
    ASSUME IInv, NEW q, NEW mode, NEW first, Authenticate(q, mode, first)
    PROVE  IInv'
  <1>1. /\ request' = [phase |-> "grants", grants |-> Granted, inForce |-> {Granted},
                       undisturbed |-> TRUE]
        /\ UNCHANGED rows /\ UNCHANGED prefs /\ UNCHANGED saving /\ UNCHANGED account
    BY DEF Authenticate, database
  <1>2. RequestOK'
    BY <1>1 DEF RequestOK, Resolved
  <1>3. CountsOK'
    BY <1>1 DEF CountsOK, IInv
  <1>4. DOMAIN walk' = WalkFields /\ PollOK'
    <2>1. CASE first
      <3>1. /\ stream' = NoStream
            /\ walk' = [query |-> q, mode |-> mode, options |-> None, cursor |-> None,
                        from |-> 0, done |-> FALSE, pages |-> <<>>, held |-> {},
                        misplaced |-> FALSE]
        BY <2>1 DEF Authenticate
      <3>2. QED
        BY <3>1 DEF WalkFields, PollOK, NoStream, NoPoll
    <2>2. CASE ~first
      <3>1. UNCHANGED walk /\ UNCHANGED stream /\ ~walk.done
        BY <2>2 DEF Authenticate
      <3>2. DOMAIN walk = WalkFields
        BY <3>1 DEF IInv, WalkOK, NoWalk
      <3>3. QED
        BY <1>1, <3>1, <3>2 DEF IInv, PollOK, CallerOK, Granted
    <2>3. QED
      BY <2>1, <2>2
  <1>5. SaveOK'
    BY <1>1 DEF IInv, SaveOK, ReadPreferences
  <1>6. QED
    BY <1>2, <1>3, <1>4, <1>5 DEF IInv, WalkOK

\* The statements between the grants and the counts.
LEMMA ResolveKeeps ==
    ASSUME IInv, ResolveViewGroups \/ ParseQuery \/ readStreamCursor
    PROVE  IInv'
  <1>1. /\ UNCHANGED rows /\ UNCHANGED prefs /\ UNCHANGED saving /\ UNCHANGED stream
        /\ UNCHANGED account
    BY DEF ResolveViewGroups, ParseQuery, readStreamCursor, Step, database
  <1>2. SaveOK' /\ PollOK'
    BY <1>1 DEF IInv, SaveOK, ReadPreferences, PollOK, CallerOK, Granted
  <1>3. /\ RequestOK' /\ request'.phase \in {"none", "resolved", "parsed", "cursor"}
        /\ WalkOK'
    <2>1. CASE ResolveViewGroups
      <3>1. /\ request.phase = "grants" /\ UNCHANGED walk
            /\ request' = [phase |-> "resolved",
                           principal |-> Caller(request.grants, viewGroupMatchers),
                           inForce |-> request.inForce, undisturbed |-> TRUE]
        BY <2>1 DEF ResolveViewGroups, Requesting, Step
      <3>2. CallerOK(Caller(request.grants, viewGroupMatchers), request.inForce)
        BY <3>1 DEF IInv, RequestOK, CallerOK, Caller
      <3>3. RequestOK' /\ request'.phase = "resolved"
        BY <3>1, <3>2 DEF RequestOK, Resolved, CallerOK
      <3>4. QED
        BY <3>1, <3>3 DEF IInv, WalkOK
    <2>2. CASE ParseQuery
      <3>1. request.phase = "resolved"
        BY <2>2 DEF ParseQuery, Requesting
      <3>2. CASE request' = [request EXCEPT !.phase = "parsed"]
                 /\ walk' = [walk EXCEPT !.options = viewOptions(walk.mode)]
        <4>1. /\ DOMAIN request' = DOMAIN request /\ request'.phase = "parsed"
              /\ request'.inForce = request.inForce
              /\ request'.principal = request.principal
          BY <3>1, <3>2 DEF IInv, RequestOK, Resolved
        <4>2. RequestOK'
          BY <3>1, <4>1 DEF IInv, RequestOK, Resolved, CallerOK
        <4>3. DOMAIN walk' = WalkFields
          BY <3>1, <3>2 DEF IInv, WalkOK
        <4>4. QED
          BY <4>1, <4>2, <4>3 DEF WalkOK
      <3>3. CASE request' = NoRequest /\ walk' = NoWalk
        BY <3>3 DEF RequestOK, WalkOK, NoRequest, NoWalk, Resolved
      <3>4. QED
        BY <2>2, <3>2, <3>3 DEF ParseQuery, Step
    <2>3. CASE readStreamCursor
      <3>1. /\ request.phase = "parsed"
            /\ request' = [request EXCEPT !.phase = "cursor", !.undisturbed = TRUE]
        BY <2>3 DEF readStreamCursor, Requesting, Step
      <3>2. /\ DOMAIN request' = DOMAIN request /\ request'.phase = "cursor"
            /\ request'.inForce = request.inForce
            /\ request'.principal = request.principal
        BY <3>1 DEF IInv, RequestOK, Resolved
      <3>3. RequestOK'
        BY <3>1, <3>2 DEF IInv, RequestOK, Resolved, CallerOK
      <3>4. DOMAIN walk = WalkFields
        BY <3>1 DEF IInv, WalkOK
      <3>5. DOMAIN walk' = WalkFields
        BY <2>3, <3>4 DEF readStreamCursor
      <3>6. QED
        BY <3>2, <3>3, <3>5 DEF WalkOK
    <2>4. QED
      BY <2>1, <2>2, <2>3
  <1>4. CountsOK'
    BY <1>1, <1>3 DEF IInv, CountsOK
  <1>5. QED
    BY <1>2, <1>3, <1>4 DEF IInv

\* The two counts are made of the rows as they are.
LEMMA CountKeeps ==
    ASSUME IInv, readSeverityCounts \/ summarizeView
    PROVE  IInv'
  <1>1. /\ UNCHANGED rows /\ UNCHANGED prefs /\ UNCHANGED saving /\ UNCHANGED stream
        /\ UNCHANGED walk /\ UNCHANGED account
    BY DEF readSeverityCounts, summarizeView, Step, database
  <1>2. SaveOK' /\ PollOK'
    BY <1>1 DEF IInv, SaveOK, ReadPreferences, PollOK, CallerOK, Granted
  <1>3. CASE readSeverityCounts
    <2>1. PICK n : n = Cardinality(Hits(walk.query, request.principal, View))
      OBVIOUS
    <2>2. /\ request.phase = "cursor"
          /\ request' = [phase |-> "counted", principal |-> request.principal,
                         inForce |-> request.inForce, undisturbed |-> TRUE, total |-> n]
      BY <1>3, <2>1 DEF readSeverityCounts, Requesting, Step
    <2>3. RequestOK' /\ WalkOK'
      BY <1>1, <2>2 DEF IInv, RequestOK, WalkOK, Resolved, CallerOK
    <2>4. request'.principal = request.principal /\ request'.total = n
          /\ request'.phase = "counted" /\ "total" \in DOMAIN request'
      BY <2>2
    <2>5. CountsOK'
      BY <1>1, <2>1, <2>4, CountsFrame DEF IInv, CountsOK
    <2>6. QED
      BY <1>2, <2>3, <2>5 DEF IInv
  <1>4. CASE summarizeView
    <2>1. PICK n : n = IF active(View) THEN Cardinality(HiddenAlerts) ELSE 0
      OBVIOUS
    <2>2. /\ request.phase = "counted"
          /\ request' = [phase |-> "summarized", principal |-> request.principal,
                         inForce |-> request.inForce, undisturbed |-> request.undisturbed,
                         total |-> request.total, hidden |-> n]
      BY <1>4, <2>1 DEF summarizeView, Requesting, Step
    <2>3. RequestOK' /\ WalkOK'
      BY <1>1, <2>2 DEF IInv, RequestOK, WalkOK, Resolved, CallerOK
    <2>4. /\ request'.principal = request.principal /\ request'.total = request.total
          /\ request'.undisturbed = request.undisturbed /\ request'.hidden = n
          /\ request'.phase = "summarized" /\ {"total", "hidden"} \subseteq DOMAIN request'
      BY <2>2
    <2>5. /\ View' = View /\ HiddenAlerts' = HiddenAlerts
          /\ Hits(walk.query, request.principal, View)'
                = Hits(walk.query, request.principal, View)
      BY <1>1, <2>4, CountsFrame
    <2>6. active(View)' = active(View)
      BY <2>5 DEF active
    <2>7. CountsOK'
      BY <1>1, <2>1, <2>2, <2>4, <2>5, <2>6 DEF IInv, CountsOK
    <2>8. QED
      BY <1>2, <2>3, <2>7 DEF IInv
  <1>5. QED
    BY <1>3, <1>4

\* A page ends the request.
LEMMA PageKeeps ==
    ASSUME IInv, ReadPage
    PROVE  IInv'
  <1>1. /\ UNCHANGED rows /\ UNCHANGED prefs /\ UNCHANGED saving /\ UNCHANGED stream
        /\ request' = NoRequest /\ request.phase = "summarized" /\ UNCHANGED account
    BY DEF ReadPage, Step, database, Requesting
  <1>2. SaveOK' /\ PollOK'
    BY <1>1 DEF IInv, SaveOK, ReadPreferences, PollOK, CallerOK, Granted
  <1>3. DOMAIN walk' = WalkFields
    BY <1>1 DEF IInv, WalkOK, ReadPage
  <1>4. RequestOK' /\ CountsOK' /\ WalkOK'
    BY <1>1, <1>3 DEF IInv, RequestOK, CountsOK, WalkOK, NoRequest, Resolved
  <1>5. QED
    BY <1>2, <1>4 DEF IInv

\* The steps of the stream leave the list request alone.
LEMMA StreamFrame ==
    ASSUME IInv, UNCHANGED <<database, saving, request>>, PollOK',
           \/ walk' = walk
           \/ \E h : walk.query # None /\ walk' = [walk EXCEPT !.held = h]
    PROVE  IInv'
  <1>1. UNCHANGED rows /\ UNCHANGED prefs /\ UNCHANGED saving /\ UNCHANGED request
    BY DEF database
  <1>2. DOMAIN walk = WalkFields =>
           /\ DOMAIN walk' = WalkFields
           /\ walk'.query = walk.query /\ walk'.options = walk.options
    BY DEF WalkFields
  <1>3. walk = NoWalk => walk' = NoWalk
    BY DEF NoWalk
  <1>4. WalkOK' /\ RequestOK' /\ SaveOK'
    BY <1>1, <1>2, <1>3 DEF IInv, WalkOK, NoWalk, RequestOK, CallerOK, SaveOK, ReadPreferences
  <1>5. CountsOK'
    <2>1. CASE request.phase = "none"
      BY <1>1, <2>1 DEF IInv, CountsOK
    <2>2. CASE request.phase # "none"
      <3>1. /\ View' = View /\ HiddenAlerts' = HiddenAlerts
            /\ Hits(walk.query, request.principal, View)'
                  = Hits(walk.query, request.principal, View)
        BY <1>1, <1>2, <2>2, CountsFrame DEF IInv, WalkOK
      <3>2. active(View)' = active(View)
        BY <3>1 DEF active
      <3>3. QED
        BY <1>1, <3>1, <3>2 DEF IInv, CountsOK
    <2>3. QED
      BY <2>1, <2>2
  <1>6. QED
    BY <1>4, <1>5 DEF IInv

\* A poll's caller is resolved from grants of this moment.
LEMMA StreamKeeps ==
    ASSUME IInv,
           \/ OpenStream \/ CloseStream \/ Reauthenticate \/ ScanWindow
           \/ ResolvePollGrants \/ ResolvePollViewGroups \/ StreamEvents
    PROVE  IInv'
  <1>1. /\ {"open", "last", "after", "poll"} \subseteq DOMAIN stream
        /\ {"open", "last", "after", "poll"} \subseteq DOMAIN NoStream
        /\ NoStream.poll = NoPoll
    BY DEF IInv, PollOK, NoStream
  <1>2. ASSUME {"open", "last", "after", "poll"} \subseteq DOMAIN stream',
               stream'.poll = NoPoll
        PROVE  PollOK'
    BY <1>2 DEF PollOK, NoPoll
  <1>3. Granted' = Granted
    BY DEF OpenStream, CloseStream, Reauthenticate, ScanWindow, ResolvePollGrants,
           ResolvePollViewGroups, StreamEvents, StreamStep, database, Granted
  <1>4. PollOK'
    <2>1. CASE OpenStream
      <3>1. /\ stream'.poll = NoPoll
            /\ {"open", "last", "after", "poll"} \subseteq DOMAIN stream'
        BY <2>1 DEF OpenStream, StreamStep
      <3>2. QED
        BY <1>2, <3>1
    <2>2. CASE CloseStream
      <3>1. stream' = NoStream
        BY <2>2 DEF CloseStream, StreamStep
      <3>2. QED
        BY <1>1, <1>2, <3>1
    <2>3. CASE Reauthenticate
      <3>1. stream' = [NoStream EXCEPT !.last = stream.last]
        BY <2>3 DEF Reauthenticate, StreamStep
      <3>2. DOMAIN stream' = DOMAIN NoStream /\ stream'.poll = NoStream.poll
        BY <1>1, <3>1
      <3>3. QED
        BY <1>1, <1>2, <3>2
    <2>4. CASE ScanWindow
      <3>1. PICK n : n = Min({Len(events), stream.after + PollLimit})
        OBVIOUS
      <3>2. stream' = [stream EXCEPT !.poll = [phase |-> "window", inForce |-> {Granted},
                                               through |-> n]]
        BY <2>4, <3>1 DEF ScanWindow, StreamStep
      <3>3. /\ DOMAIN stream' = DOMAIN stream
            /\ stream'.poll = [phase |-> "window", inForce |-> {Granted}, through |-> n]
        BY <1>1, <3>2
      <3>4. QED
        BY <1>1, <1>3, <3>3 DEF PollOK
    <2>5. CASE ResolvePollGrants
      <3>1. CASE Unreadable
        <4>1. stream' = [NoStream EXCEPT !.last = stream.last]
          BY <2>5, <3>1 DEF ResolvePollGrants, StreamStep
        <4>2. DOMAIN stream' = DOMAIN NoStream /\ stream'.poll = NoStream.poll
          BY <1>1, <4>1
        <4>3. QED
          BY <1>1, <1>2, <4>2
      <3>2. CASE ~Unreadable
        <4>1. Granted \in stream.poll.inForce
          BY <2>5 DEF IInv, PollOK, ResolvePollGrants, Streaming
        <4>2. stream' = [stream EXCEPT !.poll =
                           [phase |-> "grants", inForce |-> stream.poll.inForce,
                            through |-> stream.poll.through, grants |-> Granted]]
          BY <2>5, <3>2 DEF ResolvePollGrants, StreamStep
        <4>3. /\ DOMAIN stream' = DOMAIN stream
              /\ stream'.poll = [phase |-> "grants", inForce |-> stream.poll.inForce,
                                 through |-> stream.poll.through, grants |-> Granted]
          BY <1>1, <4>2
        <4>4. QED
          BY <1>1, <1>3, <4>1, <4>3 DEF PollOK
      <3>3. QED
        BY <3>1, <3>2
    <2>6. CASE ResolvePollViewGroups
      <3>1. /\ stream.poll.phase = "grants"
            /\ stream' = [stream EXCEPT !.poll =
                  [phase |-> "resolved", inForce |-> stream.poll.inForce,
                   through |-> stream.poll.through,
                   principal |-> Caller(stream.poll.grants, viewGroupMatchers)]]
        BY <2>6 DEF ResolvePollViewGroups, StreamStep, Streaming
      <3>2. /\ DOMAIN stream' = DOMAIN stream
            /\ stream'.poll =
                  [phase |-> "resolved", inForce |-> stream.poll.inForce,
                   through |-> stream.poll.through,
                   principal |-> Caller(stream.poll.grants, viewGroupMatchers)]
        BY <1>1, <3>1
      <3>3. CallerOK(Caller(stream.poll.grants, viewGroupMatchers), stream.poll.inForce)
        BY <3>1 DEF IInv, PollOK, CallerOK, Caller
      <3>4. Granted \in stream.poll.inForce
        BY <3>1 DEF IInv, PollOK
      <3>5. QED
        BY <1>1, <1>3, <3>2, <3>3, <3>4 DEF PollOK, CallerOK
    <2>7. CASE StreamEvents
      <3>1. PICK n : stream' = [stream EXCEPT !.after = stream.poll.through, !.poll = NoPoll,
                                              !.last = n]
        BY <2>7 DEF StreamEvents, StreamStep
      <3>2. DOMAIN stream' = DOMAIN stream /\ stream'.poll = NoPoll
        BY <1>1, <3>1
      <3>3. QED
        BY <1>1, <1>2, <3>2
    <2>8. QED
      BY <2>1, <2>2, <2>3, <2>4, <2>5, <2>6, <2>7
  <1>5. UNCHANGED <<database, saving, request>>
    BY DEF OpenStream, CloseStream, Reauthenticate, ScanWindow, ResolvePollGrants,
           ResolvePollViewGroups, StreamEvents, StreamStep
  <1>6. \/ walk' = walk
        \/ \E h : walk.query # None /\ walk' = [walk EXCEPT !.held = h]
    BY DEF OpenStream, CloseStream, Reauthenticate, ScanWindow, ResolvePollGrants,
           ResolvePollViewGroups, StreamEvents
  <1>7. QED
    BY <1>4, <1>5, <1>6, StreamFrame

\* Saving and writing back.
LEMMA SaveKeeps ==
    ASSUME IInv, (\E view \in SavedViews : SaveView(view)) \/ ReadForSave \/ WriteBack
    PROVE  IInv'
  <1>1. ASSUME NEW view \in SavedViews, SaveView(view)
        PROVE  IInv'
    <2>1. prefs' = view /\ AccessChanges
      BY <1>1 DEF SaveView
    <2>2. CASE saving = None
      BY <1>1, <2>1, <2>2, ChangesKeep DEF SaveView, SaveOK
    <2>3. CASE saving # None
      <3>1. saving' = [saving EXCEPT !.stale = TRUE]
        BY <1>1, <2>3 DEF SaveView
      <3>2. /\ saving' \in [view: SavedViews \cup {DefaultView}, stale: BOOLEAN]
            /\ saving'.stale
        BY <2>3, <3>1 DEF IInv, SaveOK
      <3>3. SaveOK'
        BY <2>1, <3>2 DEF SaveOK
      <3>4. QED
        BY <2>1, <3>3, ChangesKeep
    <2>4. QED
      BY <2>2, <2>3
  <1>2. CASE ReadForSave
    <2>1. /\ saving' = [view |-> ReadPreferences, stale |-> FALSE]
          /\ UNCHANGED <<database, request, walk, stream>>
      BY <1>2 DEF ReadForSave
    <2>2. /\ UNCHANGED rows /\ UNCHANGED prefs /\ UNCHANGED account /\ UNCHANGED request
          /\ UNCHANGED walk /\ UNCHANGED stream
      BY <2>1 DEF database
    <2>3. ReadPreferences \in SavedViews \cup {DefaultView} /\ ReadPreferences' = ReadPreferences
      BY <2>2 DEF IInv, SaveOK, ReadPreferences
    <2>4. SaveOK'
      BY <2>1, <2>2, <2>3 DEF IInv, SaveOK
    <2>5. /\ View' = View /\ HiddenAlerts' = HiddenAlerts
          /\ Hits(walk.query, request.principal, View)'
                = Hits(walk.query, request.principal, View)
      BY <2>2, CountsFrame
    <2>6. active(View)' = active(View)
      BY <2>5 DEF active
    <2>7. CountsOK'
      BY <2>2, <2>5, <2>6 DEF IInv, CountsOK
    <2>8. WalkOK' /\ RequestOK' /\ PollOK'
      BY <2>2 DEF IInv, WalkOK, RequestOK, PollOK, CallerOK, Granted
    <2>9. QED
      BY <2>4, <2>7, <2>8 DEF IInv
  <1>3. CASE WriteBack
    <2>1. prefs' = saving.view /\ saving' = None /\ saving # None /\ AccessChanges
      BY <1>3 DEF WriteBack, KeptView
    <2>2. SaveOK'
      BY <2>1 DEF IInv, SaveOK
    <2>3. QED
      BY <2>1, <2>2, ChangesKeep
  <1>4. QED
    BY <1>1, <1>2, <1>3

\* Access, account and view groups.
AccountStep ==
    \/ \E b \in Bindings : SetRoleBinding(b) \/ DeleteRoleBinding(b)
    \/ SetUserEnabled
    \/ EndSession
    \/ \E groups \in SUBSET Directory : SignInAgain(groups)

ViewGroupStep ==
    \E g \in ViewGroups :
       \/ \E selector \in Selectors : SetViewGroup(g, selector)
       \/ DeleteViewGroup(g)
       \/ JoinViewGroup(g)
       \/ LeaveViewGroup(g)
       \/ \E s \in Directory \cup {User} : PinViewGroup(g, s) \/ UnpinViewGroup(g, s)

\* What the account's and the view groups' changes leave alone.
LEMMA AccountChanges ==
    ASSUME AccountStep \/ ViewGroupStep
    PROVE  AccessChanges /\ UNCHANGED prefs /\ UNCHANGED saving
  <1>1. CASE AccountStep
    BY <1>1 DEF AccountStep, SetRoleBinding, DeleteRoleBinding, SetUserEnabled, EndSession,
       SignInAgain
  <1>2. CASE ViewGroupStep
    <2>1. PICK g, group : ViewsChange(g, group)
      BY <1>2 DEF ViewGroupStep, SetViewGroup, DeleteViewGroup, JoinViewGroup,
         LeaveViewGroup, PinViewGroup, UnpinViewGroup
    <2>2. QED
      BY <2>1 DEF ViewsChange
  <1>3. QED
    BY <1>1, <1>2

LEMMA AccountKeeps ==
    ASSUME IInv, AccountStep \/ ViewGroupStep
    PROVE  IInv'
  <1>1. AccessChanges /\ UNCHANGED prefs /\ UNCHANGED saving
    BY AccountChanges
  <1>2. SaveOK'
    BY <1>1 DEF IInv, SaveOK, ReadPreferences
  <1>3. QED
    BY <1>1, <1>2, ChangesKeep

LEMMA InitHolds == Init => IInv
  <1> SUFFICES ASSUME Init
               PROVE  IInv
    OBVIOUS
  <1>1. /\ walk = NoWalk /\ request = NoRequest /\ stream = NoStream
        /\ prefs = None /\ saving = None
    BY DEF Init
  <1>2. DOMAIN rows = DOMAIN FirstLabels
    BY DEF Init
  <1>3. DOMAIN FirstLabels = 1..Len(FirstLabels) /\ Len(FirstLabels) \in Nat
    BY ListingConstants
  <1>4. IsFiniteSet(DOMAIN rows)
    BY <1>2, <1>3, FS_Interval
  <1>5. WalkOK /\ RequestOK /\ PollOK /\ SaveOK
    BY <1>1 DEF WalkOK, RequestOK, PollOK, SaveOK, NoRequest, NoStream, NoPoll, Resolved
  <1>6. CountsOK
    BY <1>1, <1>4 DEF CountsOK, NoRequest
  <1>7. QED
    BY <1>5, <1>6 DEF IInv

\* Next, by what its steps touch.
LEMMA NextKeeps == IInv /\ [Next]_vars => IInv'
  <1> SUFFICES ASSUME IInv, [Next]_vars
               PROVE  IInv'
    OBVIOUS
  <1>1. CASE UNCHANGED vars
    <2>1. UNCHANGED <<database, saving, request>> /\ UNCHANGED walk /\ UNCHANGED stream
          /\ UNCHANGED account
      BY <1>1 DEF vars, database
    <2>2. PollOK'
      BY <2>1 DEF IInv, PollOK, CallerOK, Granted
    <2>3. QED
      BY <2>1, <2>2, StreamFrame
  <1>2. CASE \E a \in 1..MaxAlert, labels \in LabelSets : Deliver(a, labels)
    BY <1>2, DeliverKeeps
  <1>3. CASE AccountStep \/ ViewGroupStep
    BY <1>3, AccountKeeps
  <1>4. CASE (\E view \in SavedViews : SaveView(view)) \/ ReadForSave \/ WriteBack
    BY <1>4, SaveKeeps
  <1>5. CASE \E q \in Queries, mode \in Modes, first \in BOOLEAN : Authenticate(q, mode, first)
    BY <1>5, AuthenticateKeeps
  <1>6. CASE ResolveViewGroups \/ ParseQuery \/ readStreamCursor
    BY <1>6, ResolveKeeps
  <1>7. CASE readSeverityCounts \/ summarizeView
    BY <1>7, CountKeeps
  <1>8. CASE ReadPage
    BY <1>8, PageKeeps
  <1>9. CASE \/ OpenStream \/ CloseStream \/ Reauthenticate \/ ScanWindow
             \/ ResolvePollGrants \/ ResolvePollViewGroups \/ StreamEvents
    BY <1>9, StreamKeeps
  <1>10. CASE RefuseCaller
    BY <1>1, <1>10 DEF RefuseCaller
  <1>11. QED
    BY <1>1, <1>2, <1>3, <1>4, <1>5, <1>6, <1>7, <1>8, <1>9, <1>10
       DEF Next, AccountStep, ViewGroupStep

\* IInv holds throughout.
THEOREM Invariance == Spec => []IInv
  BY InitHolds, NextKeeps, PTL DEF Spec

-----------------------------------------------------------------------------
(***************************************************************************)
(* What is sent was readable.                                              *)
(***************************************************************************)

\* Scope depends on the grants only.
LEMMA ScopeOfGrants ==
    ASSUME NEW principal, NEW inForce, CallerOK(principal, inForce), NEW labels,
           CanReadLabels(principal, labels)
    PROVE  \E grants \in inForce : CanReadLabels(Caller(grants, {}), labels)
  <1>1. /\ Caller(principal.grants, {}).anonymous = FALSE
        /\ Caller(principal.grants, {}).grants = principal.grants
    BY DEF Caller
  <1>2. CanReadLabels(Caller(principal.grants, {}), labels)
    BY <1>1 DEF CanReadLabels, CallerOK
  <1>3. QED
    BY <1>2 DEF CallerOK

\* The labels behind a page are those of hits.
LEMMA PageOfHits ==
    ASSUME NEW labels \in PageLabels
    PROVE  CanReadLabels(request.principal, labels)
  <1>1. PICK a \in Hits(walk.query, request.principal, View) : labels = rows[a].labels
    <2>1. Page \subseteq DOMAIN Result
      BY DEF Page, PageOf
    <2>2. CASE walk.query.groupBy = None
      <3>1. DOMAIN Result = Hits(walk.query, request.principal, View)
        BY <2>2 DEF Result, Entries
      <3>2. QED
        BY <2>1, <2>2, <3>1 DEF PageLabels
    <2>3. CASE walk.query.groupBy # None
      BY <2>3 DEF PageLabels
    <2>4. QED
      BY <2>2, <2>3
  <1>2. ShownBy(request.principal, View, rows[a].labels)
    BY DEF Hits
  <1>3. QED
    BY <1>1, <1>2, ReadScopesAgree DEF ShownBy

\* An event sent in full is one the caller may read: what the query returned
\* for the sake of the labels before is redacted unless the new ones are
\* visible too.
LEMMA SentInFull ==
    ASSUME NEW labels \in SentLabels
    PROVE  CanReadLabels(stream.poll.principal, labels)
  <1>1. PICK e \in Sent \ RedactedSent : labels = events[e].labels
    BY DEF SentLabels
  <1>2. PICK p, options : p = stream.poll.principal /\ options = stream.options
    OBVIOUS
  <1>3. StreamView = resolveView(p, options)
    BY <1>2 DEF StreamView
  <1>4. CASE ShownBy(p, StreamView, events[e].labels)
    BY <1>1, <1>2, <1>4, ReadScopesAgree DEF ShownBy
  <1>5. CASE ~ShownBy(p, StreamView, events[e].labels)
    <2>1. events[e].previous # None /\ ShownBy(p, StreamView, events[e].previous)
      BY <1>1, <1>2, <1>5 DEF Sent, EventRows
    <2>2. Visible(p, StreamView, events[e].previous)
      BY <1>3, <2>1, StreamSeesWhatTheListShows DEF Visible
    <2>3. ~Redacted(p, StreamView, e)
      BY <1>1, <1>2 DEF RedactedSent
    <2>4. Visible(p, StreamView, events[e].labels)
      BY <2>1, <2>2, <2>3 DEF Redacted
    <2>5. QED
      BY <1>1, <1>2, <2>4 DEF Visible
  <1>6. QED
    BY <1>4, <1>5

\* Whatever changes between the statements of a list request or of a poll, a
\* label set that is sent was readable under grants in force at some time
\* while it was prepared (ListAlerts, StreamEvents).
THEOREM ShownReadable == Spec => ShownWasReadable
  <1>1. IInv => [ReadPage => \A labels \in PageLabels : \E grants \in request.inForce :
                    CanReadLabels(Caller(grants, {}), labels)]_vars
    <2> SUFFICES ASSUME IInv, ReadPage, NEW labels \in PageLabels
                 PROVE  \E grants \in request.inForce :
                           CanReadLabels(Caller(grants, {}), labels)
      OBVIOUS
    <2>1. CallerOK(request.principal, request.inForce)
      BY DEF IInv, RequestOK, Resolved, ReadPage, Requesting
    <2>2. QED
      BY <2>1, PageOfHits, ScopeOfGrants
  <1>2. IInv => [StreamEvents => \A labels \in SentLabels :
                    \E grants \in stream.poll.inForce :
                       CanReadLabels(Caller(grants, {}), labels)]_vars
    <2> SUFFICES ASSUME IInv, StreamEvents, NEW labels \in SentLabels
                 PROVE  \E grants \in stream.poll.inForce :
                           CanReadLabels(Caller(grants, {}), labels)
      OBVIOUS
    <2>1. CallerOK(stream.poll.principal, stream.poll.inForce)
      BY DEF IInv, PollOK, StreamEvents, Streaming
    <2>2. QED
      BY <2>1, SentInFull, ScopeOfGrants
  <1>3. QED
    BY <1>1, <1>2, Invariance, PTL DEF ShownWasReadable

-----------------------------------------------------------------------------
(***************************************************************************)
(* Counts.                                                                 *)
(***************************************************************************)

\* Shown and hidden, of the alerts a query selects.
LEMMA CountsAdd ==
    ASSUME IInv, request.phase = "summarized", request.undisturbed
    PROVE  request.total + (IF walk.options.showAll THEN 0 ELSE request.hidden)
               = Cardinality({a \in DOMAIN rows :
                     /\ CanReadLabels(request.principal, rows[a].labels)
                     /\ \A m \in walk.query.matches : QuerySelects(m, rows[a].labels)})
  <1>1. PICK H, D, R :
           /\ H = Hits(walk.query, request.principal, View) /\ D = HiddenAlerts
           /\ R = {a \in DOMAIN rows :
                     /\ CanReadLabels(request.principal, rows[a].labels)
                     /\ \A m \in walk.query.matches : QuerySelects(m, rows[a].labels)}
    OBVIOUS
  <1>2. /\ request.total = Cardinality(H)
        /\ request.hidden = IF active(View) THEN Cardinality(D) ELSE 0
    BY <1>1 DEF IInv, CountsOK
  <1>3. /\ IsFiniteSet(H) /\ IsFiniteSet(D)
        /\ Cardinality(H) \in Nat /\ Cardinality(D) \in Nat
    <2>1. H \subseteq DOMAIN rows /\ D \subseteq DOMAIN rows
      BY <1>1 DEF Hits, HiddenAlerts
    <2>2. QED
      BY <2>1, FS_Subset, FS_CardinalityType DEF IInv, CountsOK
  <1>4. View.options = walk.options
    BY DEF View, resolveView
  <1>5. CASE ~filtering(View)
    <2>1. H = R
      BY <1>1, <1>5, ReadScopesAgree DEF Hits, ShownBy
    <2>2. (IF walk.options.showAll THEN 0 ELSE request.hidden) = 0
      BY <1>2, <1>4, <1>5 DEF filtering
    <2>3. QED
      BY <1>1, <1>2, <1>3, <2>1, <2>2
  <1>6. CASE filtering(View)
    <2>1. H \cup D = R /\ H \cap D = {}
      BY <1>1, <1>6, ShownAndHiddenPartition DEF Hits, HiddenAlerts
    <2>2. Cardinality(R) = Cardinality(H) + Cardinality(D)
      BY <1>3, <2>1, FS_Union, FS_EmptySet
    <2>3. (IF walk.options.showAll THEN 0 ELSE request.hidden) = Cardinality(D)
      BY <1>2, <1>4, <1>6 DEF filtering
    <2>4. QED
      BY <1>1, <1>2, <2>2, <2>3
  <1>7. QED
    BY <1>5, <1>6

\* The query that expands a group selects its members, the empty group too.
LEMMA GroupsExpand ==
    ASSUME NEW q \in Queries, NEW caller, NEW view, NEW k
    PROVE  Members(q, Hits(q, caller, view), k) =
              Hits([q EXCEPT !.matches = @ \cup
                       {[name |-> q.groupBy, operator |-> "=", value |-> k]}], caller, view)
  <1>1. PICK m : m = [name |-> q.groupBy, operator |-> "=", value |-> k]
    OBVIOUS
  <1>2. [q EXCEPT !.matches = @ \cup {m}].matches = q.matches \cup {m}
    BY ListingConstants
  <1>3. \A labels : QuerySelects(m, labels) <=> TextOf(q.groupBy, labels) = k
    BY <1>1 DEF QuerySelects, TextOf
  <1>4. Members(q, Hits(q, caller, view), k)
           = {a \in DOMAIN rows :
                 /\ ShownBy(caller, view, rows[a].labels)
                 /\ \A n \in q.matches : QuerySelects(n, rows[a].labels)
                 /\ QuerySelects(m, rows[a].labels)}
    BY <1>3 DEF Members, Hits, GroupKey
  <1>5. Hits([q EXCEPT !.matches = @ \cup {m}], caller, view)
           = {a \in DOMAIN rows :
                 /\ ShownBy(caller, view, rows[a].labels)
                 /\ \A n \in q.matches \cup {m} : QuerySelects(n, rows[a].labels)}
    BY <1>2 DEF Hits
  <1>6. QED
    BY <1>1, <1>4, <1>5

\* What a page says is shown and hidden is together what the caller may read,
\* unless an alert changed between the two counts, and a group expands to the
\* members it was counted from (summarizeView, alertFiltersWithView).
THEOREM SummariesRight == Spec => []SummariesAddUp
  <1>1. IInv => SummariesAddUp
    BY CountsAdd, GroupsExpand DEF SummariesAddUp
  <1>2. QED
    BY <1>1, Invariance, PTL

\* A client that does not know of views loses a newer client's choice only
\* when that was saved between its read and its write (WritePreferences).
THEOREM ErasedInRace == Spec => ErasedOnlyInARace
  <1>1. IInv /\ [Next]_vars
           => [saving # None /\ saving' = None /\ prefs \notin {prefs', None}
                  => saving.stale]_vars
    <2> SUFFICES ASSUME IInv, [Next]_vars, saving # None, saving' = None,
                        prefs \notin {prefs', None}
                 PROVE  saving.stale
      OBVIOUS
    <2>1. CASE WriteBack
      BY <2>1 DEF WriteBack, KeptView, IInv, SaveOK, ReadPreferences
    <2>2. ASSUME NEW view \in SavedViews, SaveView(view)
          PROVE  FALSE
      <3>1. saving' = [saving EXCEPT !.stale = TRUE]
        BY <2>2 DEF SaveView
      <3>2. saving' \in [view: SavedViews \cup {DefaultView}, stale: BOOLEAN]
        BY <3>1 DEF IInv, SaveOK
      <3>3. QED
        BY <3>2, NoneIsNoSave
    <2>3. CASE ~WriteBack /\ ~(\E view \in SavedViews : SaveView(view))
      <3>1. prefs' = prefs
        <4>1. CASE \E a \in 1..MaxAlert, labels \in LabelSets : Deliver(a, labels)
          BY <4>1 DEF Deliver
        <4>2. CASE AccountStep \/ ViewGroupStep
          BY <4>2, AccountChanges
        <4>3. CASE \E q \in Queries, mode \in Modes, first \in BOOLEAN :
                      Authenticate(q, mode, first)
          BY <4>3 DEF Authenticate, database
        <4>4. CASE \/ ReadForSave \/ RefuseCaller \/ UNCHANGED vars
          BY <4>4 DEF ReadForSave, RefuseCaller, vars, database
        <4>5. CASE \/ ResolveViewGroups \/ ParseQuery \/ readStreamCursor
                   \/ readSeverityCounts \/ summarizeView \/ ReadPage
          <5>1. PICK r : Step(r)
            BY <4>5 DEF ResolveViewGroups, ParseQuery, readStreamCursor, readSeverityCounts,
               summarizeView, ReadPage
          <5>2. QED
            BY <5>1 DEF Step, database
        <4>6. CASE \/ OpenStream \/ CloseStream \/ Reauthenticate \/ ScanWindow
                   \/ ResolvePollGrants \/ ResolvePollViewGroups \/ StreamEvents
          <5>1. PICK s : StreamStep(s)
            BY <4>6 DEF OpenStream, CloseStream, Reauthenticate, ScanWindow,
               ResolvePollGrants, ResolvePollViewGroups, StreamEvents
          <5>2. QED
            BY <5>1 DEF StreamStep, database
        <4>7. QED
          BY <2>3, <4>1, <4>2, <4>3, <4>4, <4>5, <4>6 DEF Next, AccountStep, ViewGroupStep
      <3>2. QED
        BY <3>1
    <2>4. QED
      BY <2>1, <2>2, <2>3
  <1>2. QED
    BY <1>1, Invariance, PTL DEF Spec, ErasedOnlyInARace

-----------------------------------------------------------------------------
(***************************************************************************)
(* Order: the first n of a finite set, and what comes before a page's end. *)
(***************************************************************************)

\* R is a strict order of S,
Strict(R, S) ==
    /\ \A x \in S : <<x, x>> \notin R
    /\ \A x, y, z \in S : <<x, y>> \in R /\ <<y, z>> \in R => <<x, z>> \in R

\* ... and a total one.
Linear(R, S) ==
    /\ Strict(R, S)
    /\ \A x, y \in S : x = y \/ <<x, y>> \in R \/ <<y, x>> \in R

\* What comes before x.
Below(R, S, x) == {y \in S : <<y, x>> \in R}

\* The first n of S.
Lowest(R, S, n) == {x \in S : Cardinality(Below(R, S, x)) < n}

\* A finite set has a least element.
LEMMA Minimal ==
    ASSUME NEW S, IsFiniteSet(S), S # {}, NEW R, Strict(R, S)
    PROVE  \E x \in S : \A y \in S : <<y, x>> \notin R
  <1> DEFINE T == {Below(R, S, x) : x \in S}
  <1>1. T \subseteq SUBSET S /\ T # {}
    BY DEF Below
  <1>2. IsWellFoundedOn(StrictSubsetOrdering(S), SUBSET S)
    BY FS_StrictSubsetOrderingWellFounded, FS_FiniteSubsetsOfFinite
  <1>3. PICK B \in T : \A C \in T : <<C, B>> \notin StrictSubsetOrdering(S)
    <2> HIDE DEF T
    <2>1. QED
      BY <1>1, <1>2, WFMin
  <1>4. PICK x \in S : B = Below(R, S, x)
    BY <1>3
  <1>5. ASSUME NEW y \in S, <<y, x>> \in R
        PROVE  FALSE
    <2>1. Below(R, S, y) \in T
      OBVIOUS
    <2>2. Below(R, S, y) \subseteq B
      BY <1>4, <1>5 DEF Below, Strict
    <2>3. y \in B /\ y \notin Below(R, S, y)
      BY <1>4, <1>5 DEF Below, Strict
    <2>4. Below(R, S, y) \in SUBSET S /\ B \in SUBSET S
      BY <1>1, <1>3, <2>1
    <2>5. Below(R, S, y) # B
      BY <2>3
    <2>6. <<Below(R, S, y), B>> \in StrictSubsetOrdering(S)
      BY <2>2, <2>4, <2>5 DEF StrictSubsetOrdering
    <2>7. QED
      BY <1>3, <2>1, <2>6
  <1>6. QED
    BY <1>5

\* ... and, when the order is total, a greatest one.
LEMMA Greatest ==
    ASSUME NEW S, IsFiniteSet(S), S # {}, NEW R, Linear(R, S)
    PROVE  \E x \in S : \A y \in S \ {x} : <<y, x>> \in R
  <1>1. PICK Q : Q = {p \in S \X S : <<p[2], p[1]>> \in R}
    OBVIOUS
  <1>2. \A x, y \in S : <<x, y>> \in Q <=> <<y, x>> \in R
    BY <1>1
  <1>3. Strict(Q, S)
    BY <1>2 DEF Linear, Strict
  <1>4. PICK x \in S : \A y \in S : <<y, x>> \notin Q
    BY <1>3, Minimal
  <1>5. QED
    BY <1>2, <1>4 DEF Linear

\* The first n are what precedes them, and all when there are no more than n.
LEMMA LowestFirst ==
    ASSUME NEW S, IsFiniteSet(S), NEW R, Linear(R, S), NEW n \in Nat \ {0}
    PROVE  /\ \A x \in Lowest(R, S, n), y \in S \ Lowest(R, S, n) : <<x, y>> \in R
           /\ S # {} => Lowest(R, S, n) # {}
           /\ Lowest(R, S, n) = Lowest(R, S, n + 1) => Lowest(R, S, n) = S
  <1> DEFINE first == Lowest(R, S, n)
  <1>1. \A x \in S : IsFiniteSet(Below(R, S, x)) /\ Cardinality(Below(R, S, x)) \in Nat
    <2>1. \A x \in S : Below(R, S, x) \in SUBSET S
      BY DEF Below
    <2>2. QED
      BY <2>1, FS_Subset, FS_CardinalityType
  <1>2. first \subseteq S /\ IsFiniteSet(first)
    BY FS_Subset DEF Lowest
  <1>3. ASSUME NEW x \in first, NEW y \in S \ first
        PROVE  <<x, y>> \in R
    <2>1. SUFFICES ASSUME <<x, y>> \notin R
                   PROVE  FALSE
      OBVIOUS
    <2>2. x # y /\ x \in S
      BY <1>2, <1>3
    <2>3. <<y, x>> \in R
      BY <2>1, <2>2 DEF Linear
    <2>4. Below(R, S, y) \in SUBSET Below(R, S, x)
      BY <2>2, <2>3 DEF Linear, Strict, Below
    <2>5. Cardinality(Below(R, S, y)) <= Cardinality(Below(R, S, x))
      BY <1>1, <2>2, <2>4, FS_Subset
    <2>6. Cardinality(Below(R, S, x)) < n
      BY DEF Lowest
    <2>7. Cardinality(Below(R, S, y)) < n
      BY <1>1, <2>2, <2>5, <2>6
    <2>8. QED
      BY <2>7 DEF Lowest
  <1>4. ASSUME S # {}
        PROVE  first # {}
    <2>1. PICK x \in S : \A y \in S : <<y, x>> \notin R
      BY <1>4, Minimal DEF Linear
    <2>2. Below(R, S, x) = {}
      BY <2>1 DEF Below
    <2>3. QED
      BY <2>2, FS_EmptySet DEF Lowest
  <1>5. ASSUME first = Lowest(R, S, n + 1), first # S
        PROVE  FALSE
    <2>1. S \ first # {} /\ IsFiniteSet(S \ first) /\ S # {}
      BY <1>2, <1>5, FS_Difference
    <2>2. Strict(R, S \ first)
      BY DEF Linear, Strict
    <2>3. PICK y \in S \ first : \A z \in S \ first : <<z, y>> \notin R
      BY <2>1, <2>2, Minimal
    <2>4. Below(R, S, y) \subseteq first
      BY <2>3 DEF Below
    <2>5. Linear(R, first)
      BY <1>2 DEF Linear, Strict
    <2>6. PICK l \in first : \A z \in first \ {l} : <<z, l>> \in R
      BY <1>2, <1>4, <2>1, <2>5, Greatest
    <2>7. l \in S
      BY <1>2
    <2>8. Below(R, S, y) \in SUBSET (Below(R, S, l) \cup {l})
      BY <1>2, <2>4, <2>6 DEF Below
    <2>9. /\ IsFiniteSet(Below(R, S, l) \cup {l})
          /\ Cardinality(Below(R, S, l) \cup {l}) <= Cardinality(Below(R, S, l)) + 1
      <3>1. IsFiniteSet(Below(R, S, l)) /\ Cardinality(Below(R, S, l)) \in Nat
        BY <1>1, <2>7
      <3>2. Cardinality(Below(R, S, l) \cup {l})
               = IF l \in Below(R, S, l) THEN Cardinality(Below(R, S, l))
                 ELSE Cardinality(Below(R, S, l)) + 1
        BY <3>1, FS_AddElement
      <3>3. IsFiniteSet(Below(R, S, l) \cup {l})
        BY <3>1, FS_AddElement
      <3>4. QED
        BY <3>1, <3>2, <3>3
    <2>10. Cardinality(Below(R, S, y)) <= Cardinality(Below(R, S, l) \cup {l})
      BY <2>8, <2>9, FS_Subset
    <2>11. Cardinality(Below(R, S, l)) < n
      BY DEF Lowest
    <2>12. Cardinality(Below(R, S, y)) < n + 1
      <3>1. /\ Cardinality(Below(R, S, l)) \in Nat /\ Cardinality(Below(R, S, y)) \in Nat
            /\ Cardinality(Below(R, S, l) \cup {l}) \in Nat
        BY <1>1, <2>7, <2>9, FS_CardinalityType
      <3>2. QED
        BY <2>9, <2>10, <2>11, <3>1
    <2>13. y \in Lowest(R, S, n + 1)
      BY <2>12 DEF Lowest
    <2>14. QED
      BY <1>5, <2>13
  <1>6. QED
    BY <1>3, <1>4, <1>5

\* The keys of a query's entries are tuples of one length.
KeySet(q) == IF q.groupBy # None /\ q.sort = None THEN Int \X Int \X Int ELSE Int \X Int

\* SQL's row comparison on pairs,
LEMMA LessPairs ==
    ASSUME NEW u \in Int \X Int, NEW v \in Int \X Int
    PROVE  Less(u, v) <=> \/ u[1] < v[1]
                          \/ u[1] = v[1] /\ u[2] < v[2]
  <1>1. DOMAIN u = {1, 2} /\ 1..(1 - 1) = {} /\ 1..(2 - 1) = {1}
    OBVIOUS
  <1>2. QED
    BY <1>1 DEF Less

\* and on triples.
LEMMA LessTriples ==
    ASSUME NEW u \in Int \X Int \X Int, NEW v \in Int \X Int \X Int
    PROVE  Less(u, v) <=> \/ u[1] < v[1]
                          \/ u[1] = v[1] /\ u[2] < v[2]
                          \/ u[1] = v[1] /\ u[2] = v[2] /\ u[3] < v[3]
  <1>1. DOMAIN u = {1, 2, 3} /\ 1..(1 - 1) = {} /\ 1..(2 - 1) = {1} /\ 1..(3 - 1) = {1, 2}
    OBVIOUS
  <1>2. QED
    BY <1>1 DEF Less

\* It puts the keys of a query in a total order, in either direction.
LEMMA KeysOrdered ==
    ASSUME NEW q, NEW u \in KeySet(q), NEW v \in KeySet(q), NEW w \in KeySet(q)
    PROVE  /\ ~Before(q, u, u)
           /\ Before(q, u, v) /\ Before(q, v, w) => Before(q, u, w)
           /\ u = v \/ Before(q, u, v) \/ Before(q, v, u)
  <1>1. /\ ~Less(u, u)
        /\ Less(u, v) /\ Less(v, w) => Less(u, w)
        /\ Less(w, v) /\ Less(v, u) => Less(w, u)
        /\ u = v \/ Less(u, v) \/ Less(v, u)
    <2>1. CASE q.groupBy # None /\ q.sort = None
      <3>1. /\ u \in Int \X Int \X Int /\ v \in Int \X Int \X Int
            /\ w \in Int \X Int \X Int
        BY <2>1 DEF KeySet
      <3>2. /\ u[1] \in Int /\ u[2] \in Int /\ u[3] \in Int
            /\ v[1] \in Int /\ v[2] \in Int /\ v[3] \in Int
            /\ w[1] \in Int /\ w[2] \in Int /\ w[3] \in Int
            /\ u[1] = v[1] /\ u[2] = v[2] /\ u[3] = v[3] => u = v
        BY <3>1
      <3>3. ~Less(u, u)
        BY <3>1, <3>2, LessTriples
      <3>4. u = v \/ Less(u, v) \/ Less(v, u)
        BY <3>1, <3>2, LessTriples
      <3>5. Less(u, v) /\ Less(v, w) => Less(u, w)
        BY <3>1, <3>2, LessTriples
      <3>6. Less(w, v) /\ Less(v, u) => Less(w, u)
        BY <3>1, <3>2, LessTriples
      <3>7. QED
        BY <3>3, <3>4, <3>5, <3>6
    <2>2. CASE ~(q.groupBy # None /\ q.sort = None)
      <3>1. u \in Int \X Int /\ v \in Int \X Int /\ w \in Int \X Int
        BY <2>2 DEF KeySet
      <3>2. /\ u[1] \in Int /\ u[2] \in Int /\ v[1] \in Int /\ v[2] \in Int
            /\ w[1] \in Int /\ w[2] \in Int
            /\ u[1] = v[1] /\ u[2] = v[2] => u = v
        BY <3>1
      <3>3. ~Less(u, u)
        BY <3>1, <3>2, LessPairs
      <3>4. u = v \/ Less(u, v) \/ Less(v, u)
        BY <3>1, <3>2, LessPairs
      <3>5. Less(u, v) /\ Less(v, w) => Less(u, w)
        BY <3>1, <3>2, LessPairs
      <3>6. Less(w, v) /\ Less(v, u) => Less(w, u)
        BY <3>1, <3>2, LessPairs
      <3>7. QED
        BY <3>3, <3>4, <3>5, <3>6
    <2>3. QED
      BY <2>1, <2>2
  <1>2. QED
    BY <1>1 DEF Before

\* What a query returns: finitely many entries, each with a key of its own.
Proper(q, entries) ==
    /\ entries = [e \in DOMAIN entries |-> entries[e]]
    /\ IsFiniteSet(DOMAIN entries)
    /\ \A e \in DOMAIN entries : entries[e] \in KeySet(q)
    /\ \A d, e \in DOMAIN entries : entries[d] = entries[e] => d = e

\* A page holds what is up to its last entry and past the cursor, and one row
\* more than asked for tells whether that is all.
LEMMA PageCut ==
    ASSUME NEW q, NEW entries, Proper(q, entries), NEW cursor,
           cursor = None \/ cursor \in KeySet(q), NEW past,
           past = {e \in DOMAIN entries : cursor = None \/ Before(q, cursor, entries[e])},
           NEW page, page = PageOf(q, entries, cursor, Limit)
    PROVE  /\ page \subseteq past
           /\ page = PageOf(q, entries, cursor, Limit + 1) => page = past
           /\ page # PageOf(q, entries, cursor, Limit + 1) =>
                 LET end == LastOf(q, entries, page)
                 IN  /\ end \in page
                     /\ \A e \in past : e \in page <=> ~Before(q, entries[end], entries[e])
  <1>1. PICK R : R = {p \in past \X past : Before(q, entries[p[1]], entries[p[2]])}
    OBVIOUS
  <1>2. \A d, e \in past : <<d, e>> \in R <=> Before(q, entries[d], entries[e])
    BY <1>1
  <1>3. past \in SUBSET DOMAIN entries
    OBVIOUS
  <1>4. IsFiniteSet(past)
    BY <1>3, FS_Subset DEF Proper
  <1>5. Linear(R, past)
    <2>1. \A e \in past : entries[e] \in KeySet(q)
      BY <1>3 DEF Proper
    <2>2. Strict(R, past)
      BY <1>2, <2>1, KeysOrdered DEF Strict
    <2>3. ASSUME NEW d \in past, NEW e \in past
          PROVE  d = e \/ <<d, e>> \in R \/ <<e, d>> \in R
      <3>1. entries[d] = entries[e] => d = e
        BY <1>3 DEF Proper
      <3>2. QED
        BY <1>2, <2>1, <3>1, KeysOrdered
    <2>4. QED
      BY <2>2, <2>3 DEF Linear
  <1>6. \A n : PageOf(q, entries, cursor, n) = Lowest(R, past, n)
    <2>1. \A e \in past : Below(R, past, e) = {d \in past : Before(q, entries[d], entries[e])}
      BY <1>2 DEF Below
    <2>2. QED
      BY <2>1 DEF PageOf, Lowest
  <1>7. Limit \in Nat \ {0}
    BY ListingConstants
  <1>8. /\ \A d \in page, e \in past \ page : <<d, e>> \in R
        /\ past # {} => page # {}
        /\ page = PageOf(q, entries, cursor, Limit + 1) => page = past
    BY <1>4, <1>5, <1>6, <1>7, LowestFirst
  <1>9. page \subseteq past
    BY <1>6 DEF Lowest
  <1>10. ASSUME page # PageOf(q, entries, cursor, Limit + 1)
         PROVE  LET end == LastOf(q, entries, page)
                IN  /\ end \in page
                    /\ \A e \in past : e \in page <=> ~Before(q, entries[end], entries[e])
    <2>1. past # {}
      BY <1>6, <1>10 DEF Lowest
    <2>2. page # {} /\ IsFiniteSet(page) /\ Linear(R, page)
      BY <1>4, <1>5, <1>8, <1>9, <2>1, FS_Subset DEF Linear, Strict
    <2>3. \E l \in page : \A d \in page \ {l} : Before(q, entries[d], entries[l])
      <3>1. PICK l \in page : \A d \in page \ {l} : <<d, l>> \in R
        BY <2>2, Greatest
      <3>2. QED
        BY <1>2, <1>9, <3>1
    <2>4. PICK end : end = LastOf(q, entries, page)
      OBVIOUS
    <2>5. end \in page /\ \A d \in page \ {end} : Before(q, entries[d], entries[end])
      BY <2>3, <2>4 DEF LastOf
    <2>6. ASSUME NEW e \in past
          PROVE  e \in page <=> ~Before(q, entries[end], entries[e])
      <3>1. entries[e] \in KeySet(q) /\ entries[end] \in KeySet(q)
        BY <1>3, <1>9, <2>5 DEF Proper
      <3>2. CASE e \in page
        <4>1. e = end \/ Before(q, entries[e], entries[end])
          BY <2>5, <3>2
        <4>2. QED
          BY <3>1, <3>2, <4>1, KeysOrdered
      <3>3. CASE e \notin page
        BY <1>2, <1>8, <1>9, <2>5, <3>3
      <3>4. QED
        BY <3>2, <3>3
    <2>7. QED
      BY <2>4, <2>5, <2>6
  <1>11. QED
    BY <1>8, <1>9, <1>10

-----------------------------------------------------------------------------
(***************************************************************************)
(* The results of queries: finitely many entries with keys of their own.   *)
(***************************************************************************)

\* An image of a finite set is finite.
LEMMA FiniteImage ==
    ASSUME NEW S, IsFiniteSet(S), NEW f, DOMAIN f = S, f = [x \in S |-> f[x]]
    PROVE  IsFiniteSet({f[x] : x \in S})
  <1> DEFINE T == {f[x] : x \in S}
  <1>1. f \in Surjection(S, T)
    BY DEF Surjection
  <1>2. QED
    BY <1>1, FS_Surjection

\* A finite set of numbers has a maximum.
LEMMA MaxOfFinite ==
    ASSUME NEW S \in SUBSET Int, IsFiniteSet(S), S # {}
    PROVE  Max(S) \in S /\ \A x \in S : x <= Max(S)
  <1>1. PICK R : R = {p \in S \X S : p[1] < p[2]}
    OBVIOUS
  <1>2. \A x, y \in S : <<x, y>> \in R <=> x < y
    BY <1>1
  <1>3. Linear(R, S)
    BY <1>2 DEF Linear, Strict
  <1>4. PICK m \in S : \A y \in S \ {m} : <<y, m>> \in R
    BY <1>3, Greatest
  <1>5. ASSUME NEW y \in S
        PROVE  m >= y
    <2>1. m \in Int /\ y \in Int
      OBVIOUS
    <2>2. y = m \/ y < m
      BY <1>2, <1>4
    <2>3. QED
      BY <2>1, <2>2
  <1>6. QED
    BY <1>5 DEF Max

\* What may be on a page: alerts, or groups.
AllEntries == (1..MaxAlert) \cup DOMAIN TextRank

\* A row has labels of the instance and a time of delivery.
RowsOK ==
    /\ DOMAIN rows \subseteq 1..MaxAlert
    /\ \A a \in DOMAIN rows : rows[a].labels \in LabelSets /\ rows[a].lastSeen \in Nat
    /\ changes \in Nat

\* Every text a label may have has its place in the collation.
LEMMA TextTyped ==
    ASSUME NEW labels \in LabelSets, NEW name
    PROVE  TextOf(name, labels) \in DOMAIN TextRank /\ TextRank[TextOf(name, labels)] \in Int
  BY TextOrder DEF TextOf

\* Rows sort by numbers.
LEMMA SortValueTyped ==
    ASSUME RowsOK, NEW a \in DOMAIN rows, NEW sort
    PROVE  SortValue(sort, rows[a]) \in Int
  <1>1. rows[a].labels \in LabelSets /\ rows[a].lastSeen \in Int
    BY DEF RowsOK
  <1>2. severityRank(rows[a].labels) \in Int
    BY DEF severityRank
  <1>3. TextRank[TextOf(sort, rows[a].labels)] \in Int
    BY <1>1, TextTyped
  <1>4. QED
    BY <1>1, <1>2, <1>3 DEF SortValue

\* So do groups, by the largest of their members.
LEMMA LargestTyped ==
    ASSUME RowsOK, NEW S \in SUBSET DOMAIN rows, IsFiniteSet(S), S # {}, NEW sort
    PROVE  Largest(sort, S) \in Int
  <1> DEFINE f == [a \in S |-> SortValue(sort, rows[a])]
             T == {f[a] : a \in S}
  <1>1. T = {SortValue(sort, rows[a]) : a \in S}
    OBVIOUS
  <1>2. IsFiniteSet(T)
    BY FiniteImage
  <1>3. T \in SUBSET Int
    BY SortValueTyped
  <1>4. T # {}
    OBVIOUS
  <1> HIDE DEF T
  <1>5. Max(T) \in Int
    BY <1>2, <1>3, <1>4, MaxOfFinite
  <1>6. QED
    BY <1>1, <1>5 DEF Largest

\* The result of a query is proper.
LEMMA EntriesProper ==
    ASSUME RowsOK, IsFiniteSet(DOMAIN rows), NEW q, NEW principal, NEW view
    PROVE  /\ Proper(q, Entries(q, principal, view))
           /\ DOMAIN Entries(q, principal, view) \subseteq AllEntries
  <1> DEFINE hits == Hits(q, principal, view)
  <1>1. hits \in SUBSET DOMAIN rows
    BY DEF Hits
  <1>2. IsFiniteSet(hits)
    BY <1>1, FS_Subset
  <1> HIDE DEF hits
  <1>3. CASE q.groupBy = None
    <2>1. PICK entries : entries = [a \in hits |-> <<SortValue(q.sort, rows[a]), a>>]
      OBVIOUS
    <2>2. Entries(q, principal, view) = entries
      BY <1>3, <2>1 DEF Entries, hits
    <2>3. DOMAIN entries = hits /\ \A a \in hits : entries[a] = <<SortValue(q.sort, rows[a]), a>>
      BY <2>1
    <2>4. \A a \in hits : a \in Int /\ SortValue(q.sort, rows[a]) \in Int
      BY <1>1, SortValueTyped, ListingConstants DEF RowsOK
    <2>5. \A a \in hits : entries[a] \in KeySet(q)
      BY <1>3, <2>3, <2>4 DEF KeySet
    <2>6. \A a, b \in hits : entries[a] = entries[b] => a = b
      BY <2>3
    <2>7. entries = [a \in DOMAIN entries |-> entries[a]]
      BY <2>1
    <2>8. DOMAIN entries \subseteq AllEntries
      BY <1>1, <2>3 DEF AllEntries, RowsOK
    <2>9. QED
      BY <1>2, <2>2, <2>3, <2>5, <2>6, <2>7, <2>8 DEF Proper
  <1>4. CASE q.groupBy # None
    <2>1. PICK f : f = [a \in hits |-> GroupKey(q, a)]
      OBVIOUS
    <2>2. PICK keys : keys = {GroupKey(q, a) : a \in hits}
      OBVIOUS
    <2>3. PICK entries : entries = [k \in keys |-> GroupSortKey(q, Members(q, hits, k), k)]
      OBVIOUS
    <2>4. Entries(q, principal, view) = entries
      BY <1>4, <2>2, <2>3 DEF Entries, hits
    <2>5. IsFiniteSet(keys)
      <3>1. keys = {f[a] : a \in hits}
        BY <2>1, <2>2
      <3>2. QED
        BY <1>2, <2>1, <3>1, FiniteImage
    <2>6. \A k \in keys : k \in DOMAIN TextRank /\ TextRank[k] \in Int
      BY <1>1, <2>2, TextTyped DEF GroupKey, RowsOK
    <2>7. \A k \in keys : \A sort : Largest(sort, Members(q, hits, k)) \in Int
      <3>1. TAKE k \in keys
      <3>2. TAKE sort
      <3>3. Members(q, hits, k) \in SUBSET DOMAIN rows /\ Members(q, hits, k) # {}
        BY <1>1, <2>2 DEF Members
      <3>4. IsFiniteSet(Members(q, hits, k))
        BY <1>2, FS_Subset DEF Members
      <3>5. QED
        BY <3>3, <3>4, LargestTyped
    <2>8. DOMAIN entries = keys /\ entries = [k \in DOMAIN entries |-> entries[k]]
      BY <2>3
    <2>9. CASE q.sort = None
      <3>1. \A k \in keys : entries[k] = <<Largest("severity", Members(q, hits, k)),
                               Largest("lastSeen", Members(q, hits, k)), TextRank[k]>>
        BY <2>3, <2>9 DEF GroupSortKey
      <3>2. \A k \in keys : entries[k] \in KeySet(q)
        BY <1>4, <2>6, <2>7, <2>9, <3>1 DEF KeySet
      <3>3. \A k, m \in keys : entries[k] = entries[m] => k = m
        <4>1. TAKE k, m \in keys
        <4>2. entries[k] = entries[m] => TextRank[k] = TextRank[m]
          BY <3>1
        <4>3. QED
          BY <2>6, <4>2, TextOrder
      <3>4. QED
        BY <2>4, <2>5, <2>6, <2>8, <3>2, <3>3 DEF Proper, AllEntries
    <2>10. CASE q.sort # None
      <3>1. \A k \in keys : entries[k] = <<Largest(q.sort, Members(q, hits, k)), TextRank[k]>>
        BY <2>3, <2>10 DEF GroupSortKey
      <3>2. \A k \in keys : entries[k] \in KeySet(q)
        BY <1>4, <2>6, <2>7, <2>10, <3>1 DEF KeySet
      <3>3. \A k, m \in keys : entries[k] = entries[m] => k = m
        <4>1. TAKE k, m \in keys
        <4>2. entries[k] = entries[m] => TextRank[k] = TextRank[m]
          BY <3>1
        <4>3. QED
          BY <2>6, <4>2, TextOrder
      <3>4. QED
        BY <2>4, <2>5, <2>6, <2>8, <3>2, <3>3 DEF Proper, AllEntries
    <2>11. QED
      BY <2>9, <2>10
  <1>5. QED
    BY <1>3, <1>4

-----------------------------------------------------------------------------
(***************************************************************************)
(* Paging.  An entry that stands still is on one page: the cursor is the   *)
(* key of the last entry sent, so the steady entries up to it have been    *)
(* sent and those past it have not.                                        *)
(***************************************************************************)

\* The pages loaded so far; a request reads the one after them.
WalkTyped ==
    /\ DOMAIN walk = WalkFields => walk.pages \in Seq(SUBSET AllEntries)
    /\ request.phase # "none" => ~walk.done

\* While an entry is steady, a request under way has read what is in force.
RequestFresh ==
    steady # {} \/ calm =>
        /\ request.phase = "grants" => request.grants = Granted
        /\ request.phase \in Resolved =>
              request.principal = Caller(Granted, viewGroupMatchers)
        /\ request.phase \in Resolved \ {"resolved"} => walk.options = viewOptions(walk.mode)

\* The steady entries up to the cursor are on one page each, those past it on
\* none.
Reached(q, cursor, key) == cursor # None /\ ~Before(q, cursor, key)
OnPage(e) == \E i \in DOMAIN walk.pages : e \in walk.pages[i]

\* ... as long as no cursor was misplaced.
Placed ==
    walk.query # None /\ ~walk.misplaced =>
        /\ walk.cursor = None \/ walk.cursor \in KeySet(walk.query)
        /\ \A q \in {walk.query}, m \in {walk.mode} : \A e \in steady :
              /\ e \in DOMAIN Current(q, m)
              /\ ~walk.done => (OnPage(e) <=> Reached(q, walk.cursor, Current(q, m)[e]))
              /\ walk.done => OnPage(e)
              /\ \A i, j \in DOMAIN walk.pages :
                    e \in walk.pages[i] /\ e \in walk.pages[j] => i = j

\* The invariant behind SteadyEntriesAppearOnce.
Paging == RowsOK /\ WalkTyped /\ RequestFresh /\ Placed

\* What is in force depends on account, view groups and preferences.
LEMMA AccessFrame ==
    ASSUME UNCHANGED account, UNCHANGED views, UNCHANGED prefs
    PROVE  /\ Granted' = Granted /\ viewGroupMatchers' = viewGroupMatchers
           /\ \A m : viewOptions(m)' = viewOptions(m)
  BY DEF Granted, viewGroupMatchers, pinnedToUser, viewOptions, ReadPreferences

\* The result of a query, on the rows as well.
LEMMA CurrentFrame ==
    ASSUME UNCHANGED account, UNCHANGED views, UNCHANGED prefs, UNCHANGED rows
    PROVE  \A q, m : Current(q, m)' = Current(q, m)
  <1>1. \A q, p, v : Entries(q, p, v)' = Entries(q, p, v)
    BY DEF Entries, Hits, GroupKey, Members, GroupSortKey, Largest
  <1>2. QED
    BY <1>1, AccessFrame DEF Current, Granted, viewGroupMatchers, pinnedToUser, viewOptions,
       ReadPreferences, Entries, Hits, GroupKey, Members, GroupSortKey, Largest

\* Nothing moved.
LEMMA PlacedFrame ==
    ASSUME Placed, UNCHANGED account, UNCHANGED views, UNCHANGED prefs, UNCHANGED rows,
           steady' = steady, walk'.query = walk.query, walk'.mode = walk.mode,
           walk'.cursor = walk.cursor, walk'.done = walk.done, walk'.pages = walk.pages,
           walk'.misplaced = walk.misplaced
    PROVE  Placed'
  BY CurrentFrame DEF Placed, OnPage

\* What is left of the steady entries has the keys it had.
LEMMA PlacedSteady ==
    ASSUME Placed, walk' = walk, StillSteady
    PROVE  Placed'
  <1> SUFFICES ASSUME walk.query # None, ~walk.misplaced
               PROVE  /\ walk.cursor = None \/ walk.cursor \in KeySet(walk.query)
                      /\ \A q \in {walk.query}, m \in {walk.mode} : \A e \in steady' :
                            /\ e \in DOMAIN Current(q, m)'
                            /\ ~walk.done => (OnPage(e) <=>
                                   Reached(q, walk.cursor, Current(q, m)'[e]))
                            /\ walk.done => OnPage(e)
                            /\ \A i, j \in DOMAIN walk.pages :
                                  e \in walk.pages[i] /\ e \in walk.pages[j] => i = j
    BY DEF Placed, OnPage
  <1>1. ASSUME NEW e \in steady', NEW q \in {walk.query}, NEW m \in {walk.mode}
        PROVE  /\ e \in steady /\ e \in DOMAIN Current(q, m)'
               /\ Current(q, m)'[e] = Current(q, m)[e]
    BY <1>1 DEF StillSteady
  <1>2. QED
    BY <1>1 DEF Placed

\* Nothing is left of them.
LEMMA PlacedNothing ==
    ASSUME Placed, walk' = walk, steady' = {}
    PROVE  Placed'
  BY DEF Placed

\* A change of access leaves the ones that did not move, or none.
LEMMA PlacedAccess ==
    ASSUME Placed, AccessChanges
    PROVE  Placed'
  BY PlacedSteady, PlacedNothing DEF AccessChanges

\* There is no walk at first.
LEMMA PagingInit == Init => Paging
  <1> SUFFICES ASSUME Init
               PROVE  Paging
    OBVIOUS
  <1>1. /\ walk = NoWalk /\ request = NoRequest /\ steady = {} /\ changes = 0
        /\ rows = [a \in DOMAIN FirstLabels |-> [labels |-> FirstLabels[a], lastSeen |-> a]]
    BY DEF Init
  <1>2. DOMAIN FirstLabels = 1..Len(FirstLabels) /\ Len(FirstLabels) \in Nat
    BY ListingConstants
  <1>3. RowsOK
    BY <1>1, <1>2, ListingConstants DEF RowsOK
  <1>4. WalkTyped /\ RequestFresh /\ Placed
    <2>1. DOMAIN walk # WalkFields /\ walk.query = None /\ request.phase = "none"
      BY <1>1 DEF NoWalk, NoRequest, WalkFields
    <2>2. QED
      BY <1>1, <2>1 DEF WalkTyped, RequestFresh, Resolved, Placed
  <1>5. QED
    BY <1>3, <1>4 DEF Paging

\* A delivery takes an alert it moves out of the steady ones.
LEMMA DeliverPaging ==
    ASSUME IInv, Paging, NEW a \in 1..MaxAlert, NEW labels \in LabelSets, Deliver(a, labels)
    PROVE  Paging'
  <1>1. /\ UNCHANGED account /\ UNCHANGED views /\ UNCHANGED prefs /\ walk' = walk
        /\ StillSteady /\ changes' = changes + 1 /\ UNCHANGED calm
        /\ rows' = [b \in DOMAIN rows \cup {a} |->
              IF b = a THEN [labels |-> labels, lastSeen |-> MaxAlert + changes + 1]
              ELSE rows[b]]
    BY DEF Deliver, Changing
  <1>2. RowsOK'
    <2>1. MaxAlert \in Nat /\ changes \in Nat
      BY ListingConstants DEF Paging, RowsOK
    <2>2. MaxAlert + changes + 1 \in Nat /\ changes' \in Nat
      BY <1>1, <2>1
    <2>3. QED
      BY <1>1, <2>2 DEF Paging, RowsOK
  <1>3. /\ request'.phase = request.phase
        /\ request.phase = "grants" => request'.grants = request.grants
        /\ request.phase \in Resolved => request'.principal = request.principal
    <2>1. CASE request.phase = "none"
      BY <2>1 DEF Deliver, Resolved
    <2>2. CASE request.phase # "none"
      BY <2>2 DEF Deliver, IInv, RequestOK, Resolved
    <2>3. QED
      BY <2>1, <2>2
  <1>4. steady' \subseteq steady
    BY <1>1 DEF StillSteady
  <1>5. RequestFresh'
    BY <1>1, <1>3, <1>4, AccessFrame DEF Paging, RequestFresh
  <1>6. WalkTyped'
    BY <1>1, <1>3 DEF Paging, WalkTyped
  <1>7. Placed'
    BY <1>1, PlacedSteady DEF Paging
  <1>8. QED
    BY <1>2, <1>5, <1>6, <1>7 DEF Paging

\* A change of access during a request leaves nothing steady.
LEMMA AccessPaging ==
    ASSUME IInv, Paging, AccessChanges, changes' \in Nat
    PROVE  Paging'
  <1>1. /\ UNCHANGED rows /\ walk' = walk /\ request'.phase = request.phase
        /\ request.phase # "none" => steady' = {}
        /\ calm' = FALSE
    BY DEF AccessChanges, IInv, RequestOK
  <1>2. RowsOK' /\ WalkTyped'
    BY <1>1 DEF Paging, RowsOK, WalkTyped
  <1>3. RequestFresh'
    BY <1>1 DEF RequestFresh, Resolved
  <1>4. Placed'
    BY PlacedAccess DEF Paging
  <1>5. QED
    BY <1>2, <1>3, <1>4 DEF Paging

\* A walk begins with every entry steady and none on a page.
LEMMA AuthenticatePaging ==
    ASSUME IInv, Paging, NEW q, NEW mode, NEW first, Authenticate(q, mode, first)
    PROVE  Paging'
  <1>1. /\ request' = [phase |-> "grants", grants |-> Granted, inForce |-> {Granted},
                       undisturbed |-> TRUE]
        /\ UNCHANGED rows /\ UNCHANGED prefs /\ UNCHANGED views /\ UNCHANGED account
        /\ UNCHANGED changes
    BY DEF Authenticate, database
  <1>2. RowsOK'
    BY <1>1 DEF Paging, RowsOK
  <1>3. request'.phase = "grants" /\ request'.grants = Granted'
    BY <1>1, AccessFrame
  <1>4. RequestFresh'
    BY <1>3 DEF RequestFresh, Resolved
  <1>5. CASE first
    <2>1. /\ walk' = [query |-> q, mode |-> mode, options |-> None, cursor |-> None,
                      from |-> 0, done |-> FALSE, pages |-> <<>>, held |-> {},
                      misplaced |-> FALSE]
          /\ steady' = DOMAIN Current(q, mode)
      BY <1>5 DEF Authenticate
    <2>2. /\ walk'.query = q /\ walk'.mode = mode /\ walk'.pages = <<>>
          /\ walk'.cursor = None /\ ~walk'.done
      BY <2>1
    <2>3. WalkTyped'
      BY <2>2 DEF WalkTyped
    <2>4. Placed'
      BY <1>1, <2>1, <2>2, CurrentFrame DEF Placed, OnPage, Reached
    <2>5. QED
      BY <1>2, <1>4, <2>3, <2>4 DEF Paging
  <1>6. CASE ~first
    <2>1. UNCHANGED walk /\ UNCHANGED steady /\ ~walk.done
      BY <1>6 DEF Authenticate
    <2>2. WalkTyped' /\ Placed'
      BY <1>1, <2>1, PlacedFrame DEF Paging, WalkTyped
    <2>3. QED
      BY <1>2, <1>4, <2>2 DEF Paging
  <1>7. QED
    BY <1>5, <1>6

\* The statements before the page read what is in force.
LEMMA ResolvePaging ==
    ASSUME IInv, Paging,
           \/ ResolveViewGroups \/ ParseQuery \/ readStreamCursor
           \/ readSeverityCounts \/ summarizeView
    PROVE  Paging'
  <1>1. /\ UNCHANGED rows /\ UNCHANGED prefs /\ UNCHANGED views /\ UNCHANGED account
        /\ UNCHANGED changes
    BY DEF ResolveViewGroups, ParseQuery, readStreamCursor, readSeverityCounts, summarizeView,
       Step, database
  <1>2. RowsOK'
    BY <1>1 DEF Paging, RowsOK
  <1>3. request.phase # "none" /\ DOMAIN walk = WalkFields
    BY DEF IInv, WalkOK, Requesting, ResolveViewGroups, ParseQuery, readStreamCursor,
       readSeverityCounts, summarizeView
  <1>4. CASE request' = NoRequest /\ walk' = NoWalk
    BY <1>2, <1>4 DEF NoRequest, NoWalk, Paging, WalkTyped, WalkFields, RequestFresh, Resolved,
       Placed
  <1>5. CASE ~(request' = NoRequest /\ walk' = NoWalk)
    <2>1. /\ steady' = steady /\ calm' = calm /\ DOMAIN walk' = WalkFields
          /\ walk'.query = walk.query /\ walk'.mode = walk.mode
          /\ walk'.cursor = walk.cursor /\ walk'.done = walk.done
          /\ walk'.pages = walk.pages /\ walk'.misplaced = walk.misplaced
          /\ ParseQuery \/ walk'.options = walk.options
      <3>1. CASE ParseQuery
        BY <1>3, <1>5, <3>1 DEF ParseQuery, Step, ghosts, WalkFields
      <3>2. CASE readStreamCursor
        BY <1>3, <3>2 DEF readStreamCursor, ghosts, WalkFields
      <3>3. CASE ResolveViewGroups \/ readSeverityCounts \/ summarizeView
        BY <1>3, <3>3 DEF ResolveViewGroups, readSeverityCounts, summarizeView, ghosts
      <3>4. QED
        BY <3>1, <3>2, <3>3
    <2>2. Placed'
      BY <1>1, <2>1, PlacedFrame DEF Paging
    <2>3. WalkTyped'
      BY <1>3, <2>1 DEF Paging, WalkTyped
    <2>4. RequestFresh'
      <3>1. CASE ResolveViewGroups
        <4>1. /\ request'.phase = "resolved" /\ request.phase = "grants"
              /\ request'.principal = Caller(request.grants, viewGroupMatchers)
          BY <3>1 DEF ResolveViewGroups, Requesting, Step
        <4>2. QED
          BY <1>1, <2>1, <4>1, AccessFrame DEF Paging, RequestFresh
      <3>2. CASE ParseQuery
        <4>1. /\ request'.phase = "parsed" /\ request.phase = "resolved"
              /\ request'.principal = request.principal
              /\ walk'.options = viewOptions(walk.mode)
          BY <1>3, <1>5, <3>2 DEF ParseQuery, Requesting, Step, IInv, RequestOK, Resolved,
             WalkFields
        <4>2. QED
          BY <1>1, <2>1, <4>1, AccessFrame DEF Paging, RequestFresh, Resolved
      <3>3. CASE readStreamCursor \/ readSeverityCounts \/ summarizeView
        <4>1. /\ request'.phase \in Resolved
              /\ request.phase \in Resolved \ {"resolved"}
              /\ request'.principal = request.principal
          <5>1. CASE readStreamCursor
            BY <5>1 DEF readStreamCursor, Requesting, Step, IInv, RequestOK, Resolved
          <5>2. CASE readSeverityCounts
            BY <5>2 DEF readSeverityCounts, Requesting, Step, Resolved
          <5>3. CASE summarizeView
            BY <5>3 DEF summarizeView, Requesting, Step, Resolved
          <5>4. QED
            BY <3>3, <5>1, <5>2, <5>3
        <4>2. walk'.options = walk.options
          BY <1>3, <3>3 DEF readStreamCursor, readSeverityCounts, summarizeView, WalkFields
        <4>3. QED
          BY <1>1, <2>1, <4>1, <4>2, AccessFrame DEF Paging, RequestFresh, Resolved
      <3>4. QED
        BY <3>1, <3>2, <3>3
    <2>5. QED
      BY <1>2, <2>2, <2>3, <2>4 DEF Paging
  <1>6. QED
    BY <1>4, <1>5

\* The stream changes what is held, and no page.
LEMMA StreamPaging ==
    ASSUME IInv, Paging,
           \/ OpenStream \/ CloseStream \/ Reauthenticate \/ ScanWindow
           \/ ResolvePollGrants \/ ResolvePollViewGroups \/ StreamEvents
    PROVE  Paging'
  <1>1. PICK s : StreamStep(s)
    BY DEF OpenStream, CloseStream, Reauthenticate, ScanWindow, ResolvePollGrants,
       ResolvePollViewGroups, StreamEvents
  <1>2. /\ UNCHANGED rows /\ UNCHANGED prefs /\ UNCHANGED views /\ UNCHANGED account
        /\ UNCHANGED changes /\ UNCHANGED request
    BY <1>1 DEF StreamStep, database
  <1>3. /\ steady' = steady /\ calm' = calm
        /\ \/ walk' = walk
           \/ \E h : walk.query # None /\ walk' = [walk EXCEPT !.held = h]
    BY DEF OpenStream, CloseStream, Reauthenticate, ScanWindow, ResolvePollGrants,
       ResolvePollViewGroups, StreamEvents, ghosts
  <1>4. walk' = walk \/ DOMAIN walk = WalkFields
    BY <1>3 DEF IInv, WalkOK, NoWalk
  <1>5. /\ DOMAIN walk' = DOMAIN walk
        /\ walk'.query = walk.query /\ walk'.mode = walk.mode
        /\ walk'.cursor = walk.cursor /\ walk'.done = walk.done
        /\ walk'.pages = walk.pages /\ walk'.misplaced = walk.misplaced
        /\ walk'.options = walk.options
    BY <1>3, <1>4 DEF WalkFields
  <1>6. RowsOK' /\ WalkTyped'
    BY <1>2, <1>5 DEF Paging, RowsOK, WalkTyped
  <1>7. RequestFresh'
    BY <1>2, <1>3, <1>5, AccessFrame DEF Paging, RequestFresh
  <1>8. Placed'
    BY <1>2, <1>3, <1>5, PlacedFrame DEF Paging
  <1>9. QED
    BY <1>6, <1>7, <1>8 DEF Paging

\* A page takes the steady entries up to its end.
LEMMA PagePaging ==
    ASSUME IInv, Paging, ReadPage
    PROVE  Paging'
  <1>1. /\ UNCHANGED rows /\ UNCHANGED prefs /\ UNCHANGED views /\ UNCHANGED account
        /\ UNCHANGED changes /\ request' = NoRequest /\ request.phase = "summarized"
        /\ steady' = steady
    BY DEF ReadPage, Step, database, Requesting, ghosts
  <1>2. DOMAIN walk = WalkFields /\ ~walk.done /\ walk.pages \in Seq(SUBSET AllEntries)
    BY <1>1 DEF IInv, WalkOK, Paging, WalkTyped
  <1>3. PICK q, m, entries, page, rest, end :
           /\ q = walk.query /\ m = walk.mode /\ entries = Result /\ page = Page
           /\ rest = PageOf(q, entries, walk.cursor, Limit + 1)
           /\ end = EndOf(q, entries, walk.cursor)
    OBVIOUS
  <1>4. PICK held, next : walk' = [walk EXCEPT
             !.pages = Append(walk.pages, page), !.held = held, !.done = (page = rest),
             !.cursor = IF page # rest THEN next ELSE walk.cursor,
             !.misplaced = walk.misplaced \/ (page # rest /\ next # entries[end])]
    <2>1. walk' = [walk EXCEPT
             !.pages = Append(walk.pages, page),
             !.held = IF q.groupBy = None THEN walk.held \cup page ELSE walk.held,
             !.done = ~(page # rest),
             !.cursor = IF page # rest THEN CursorOf(q, entries, end) ELSE walk.cursor,
             !.misplaced = walk.misplaced \/ (page # rest /\
                               CursorOf(q, entries, end) # entries[end])]
      BY <1>3 DEF ReadPage
    <2>2. (page = rest) = ~(page # rest)
      OBVIOUS
    <2>3. QED
      BY <2>1, <2>2
  <1>5. /\ walk'.query = q /\ walk'.mode = m /\ walk'.pages = Append(walk.pages, page)
        /\ walk'.done <=> page = rest
        /\ walk'.cursor = IF page # rest THEN next ELSE walk.cursor
        /\ walk'.misplaced <=> walk.misplaced \/ (page # rest /\ next # entries[end])
    BY <1>2, <1>3, <1>4 DEF WalkFields
  <1>6. Proper(q, entries) /\ DOMAIN entries \subseteq AllEntries
    BY <1>3, EntriesProper DEF Result, Paging, IInv, CountsOK
  <1>7. /\ page = PageOf(q, entries, walk.cursor, Limit)
        /\ end = LastOf(q, entries, page)
    BY <1>3 DEF Page, EndOf
  <1>8. page \in SUBSET AllEntries
    BY <1>6, <1>7 DEF PageOf
  <1>9. RowsOK'
    BY <1>1 DEF Paging, RowsOK
  <1>10. WalkTyped' /\ RequestFresh'
    <2>1. walk'.pages \in Seq(SUBSET AllEntries)
      BY <1>2, <1>5, <1>8
    <2>2. request'.phase = "none"
      BY <1>1 DEF NoRequest
    <2>3. QED
      BY <2>1, <2>2 DEF WalkTyped, RequestFresh, Resolved
  <1>11. Placed'
    <2>1. SUFFICES ASSUME q # None, ~walk'.misplaced
                   PROVE  Placed'
      BY <1>5 DEF Placed
    <2>2. ~walk.misplaced /\ (page # rest => next = entries[end])
      BY <1>5, <2>1
    <2>3. walk.cursor = None \/ walk.cursor \in KeySet(q)
      BY <1>3, <2>1, <2>2 DEF Paging, Placed
    <2>4. PICK past :
             past = {e \in DOMAIN entries :
                        walk.cursor = None \/ Before(q, walk.cursor, entries[e])}
      OBVIOUS
    <2>5. /\ page \subseteq past
          /\ page = rest => page = past
          /\ page # rest =>
                /\ end \in page
                /\ \A e \in past : e \in page <=> ~Before(q, entries[end], entries[e])
      BY <1>3, <1>6, <1>7, <2>3, <2>4, PageCut
    <2>6. walk'.cursor = None \/ walk'.cursor \in KeySet(q)
      BY <1>5, <1>6, <2>2, <2>3, <2>4, <2>5 DEF Proper
    <2>7. page # rest => walk'.cursor # None
      BY <1>5, <1>6, <2>2, <2>4, <2>5, NoneIsNoKey DEF Proper, KeySet
    <2>8. /\ DOMAIN walk'.pages = 1..(Len(walk.pages) + 1) /\ Len(walk.pages) \in Nat
          /\ DOMAIN walk.pages = 1..Len(walk.pages)
          /\ \A i \in 1..Len(walk.pages) : walk'.pages[i] = walk.pages[i]
          /\ walk'.pages[Len(walk.pages) + 1] = page
      BY <1>2, <1>5, <1>8
    <2>9. ASSUME NEW e \in steady
          PROVE  /\ e \in DOMAIN Current(q, m)'
                 /\ ~walk'.done => (OnPage(e)' <=>
                        Reached(q, walk'.cursor, Current(q, m)'[e]))
                 /\ walk'.done => OnPage(e)'
                 /\ \A i, j \in DOMAIN walk'.pages :
                       e \in walk'.pages[i] /\ e \in walk'.pages[j] => i = j
      <3>1. request.principal = Caller(Granted, viewGroupMatchers)
            /\ walk.options = viewOptions(walk.mode)
        BY <1>1 DEF Paging, RequestFresh, Resolved
      <3>2. Current(q, m) = entries /\ Current(q, m)' = entries
        <4>1. Current(q, m) = entries
          BY <1>3, <3>1 DEF Current, Result, View
        <4>2. QED
          BY <1>1, <4>1, CurrentFrame
      <3>3. /\ e \in DOMAIN entries
            /\ OnPage(e) <=> Reached(q, walk.cursor, entries[e])
            /\ \A i, j \in DOMAIN walk.pages :
                  e \in walk.pages[i] /\ e \in walk.pages[j] => i = j
        BY <1>2, <1>3, <2>1, <2>2, <3>2 DEF Paging, Placed
      <3>4. OnPage(e) <=> e \notin past
        BY <2>4, <3>3 DEF Reached
      <3>5. OnPage(e)' <=> OnPage(e) \/ e \in page
        BY <2>8 DEF OnPage
      <3>6. walk'.done => OnPage(e)'
        BY <1>5, <2>5, <3>4, <3>5
      <3>7. ~walk'.done => (OnPage(e)' <=> Reached(q, walk'.cursor, entries[e]))
        <4>1. SUFFICES ASSUME page # rest
                       PROVE  OnPage(e)' <=> ~Before(q, entries[end], entries[e])
          BY <1>5, <2>2, <2>7 DEF Reached
        <4>2. CASE e \in past
          BY <2>5, <3>4, <3>5, <4>1, <4>2
        <4>3. CASE e \notin past
          <5>1. walk.cursor # None /\ ~Before(q, walk.cursor, entries[e])
            BY <2>4, <3>3, <4>3
          <5>2. Before(q, walk.cursor, entries[end])
            BY <2>4, <2>5, <4>1, <5>1
          <5>3. /\ walk.cursor \in KeySet(q) /\ entries[e] \in KeySet(q)
                /\ entries[end] \in KeySet(q)
            BY <1>6, <2>3, <2>4, <2>5, <3>3, <4>1, <5>1 DEF Proper
          <5>4. ~Before(q, entries[end], entries[e])
            BY <5>1, <5>2, <5>3, KeysOrdered
          <5>5. QED
            BY <3>4, <3>5, <4>3, <5>4
        <4>4. QED
          BY <4>2, <4>3
      <3>8. ASSUME NEW i \in DOMAIN walk'.pages, NEW j \in DOMAIN walk'.pages,
                   e \in walk'.pages[i], e \in walk'.pages[j]
            PROVE  i = j
        <4>1. e \in page => ~OnPage(e)
          BY <2>5, <3>4
        <4>2. CASE i \in DOMAIN walk.pages /\ j \in DOMAIN walk.pages
          BY <2>8, <3>3, <3>8, <4>2
        <4>3. CASE i \in DOMAIN walk.pages /\ j \notin DOMAIN walk.pages
          BY <2>8, <3>8, <4>1, <4>3 DEF OnPage
        <4>4. CASE i \notin DOMAIN walk.pages /\ j \in DOMAIN walk.pages
          BY <2>8, <3>8, <4>1, <4>4 DEF OnPage
        <4>5. CASE i \notin DOMAIN walk.pages /\ j \notin DOMAIN walk.pages
          BY <2>8, <3>8, <4>5
        <4>6. QED
          BY <4>2, <4>3, <4>4, <4>5
      <3>9. QED
        BY <3>2, <3>3, <3>6, <3>7, <3>8
    <2>10. QED
      BY <1>1, <1>5, <2>6, <2>9 DEF Placed
  <1>12. QED
    BY <1>9, <1>10, <1>11 DEF Paging

\* Every step keeps the pages.
LEMMA PagingNext ==
    ASSUME IInv, Paging, [Next]_vars
    PROVE  Paging'
  <1>1. CASE \E a \in 1..MaxAlert, labels \in LabelSets : Deliver(a, labels)
    BY <1>1, DeliverPaging
  <1>2. CASE \/ AccountStep \/ ViewGroupStep \/ WriteBack
             \/ \E view \in SavedViews : SaveView(view)
    <2>1. AccessChanges
      BY <1>2, AccountChanges DEF WriteBack, SaveView
    <2>2. changes' \in Nat
      <3>1. changes' = changes \/ changes' = changes + 1
        <4>1. CASE WriteBack \/ \E view \in SavedViews : SaveView(view)
          BY <4>1 DEF WriteBack, SaveView, Changing
        <4>2. CASE AccountStep
          BY <4>2 DEF AccountStep, SetRoleBinding, DeleteRoleBinding, SetUserEnabled,
             EndSession, SignInAgain, Changing
        <4>3. CASE ViewGroupStep
          <5>1. PICK g, group : ViewsChange(g, group)
            BY <4>3 DEF ViewGroupStep, SetViewGroup, DeleteViewGroup, JoinViewGroup,
               LeaveViewGroup, PinViewGroup, UnpinViewGroup
          <5>2. QED
            BY <5>1 DEF ViewsChange, Changing
        <4>4. QED
          BY <1>2, <4>1, <4>2, <4>3
      <3>2. QED
        BY <3>1 DEF Paging, RowsOK
    <2>3. QED
      BY <2>1, <2>2, AccessPaging
  <1>3. CASE \/ ReadForSave \/ RefuseCaller \/ UNCHANGED vars
    <2>1. /\ UNCHANGED rows /\ UNCHANGED prefs /\ UNCHANGED views /\ UNCHANGED account
          /\ UNCHANGED request /\ UNCHANGED walk /\ UNCHANGED steady /\ UNCHANGED calm
          /\ changes' = changes \/ changes' = changes + 1
      BY <1>3 DEF ReadForSave, RefuseCaller, vars, database, ghosts, Changing
    <2>2. RowsOK' /\ WalkTyped'
      BY <2>1 DEF Paging, RowsOK, WalkTyped
    <2>3. RequestFresh' /\ Placed'
      BY <2>1, AccessFrame, PlacedFrame DEF Paging, RequestFresh
    <2>4. QED
      BY <2>2, <2>3 DEF Paging
  <1>4. CASE \E q \in Queries, mode \in Modes, first \in BOOLEAN : Authenticate(q, mode, first)
    BY <1>4, AuthenticatePaging
  <1>5. CASE \/ ResolveViewGroups \/ ParseQuery \/ readStreamCursor
             \/ readSeverityCounts \/ summarizeView
    BY <1>5, ResolvePaging
  <1>6. CASE ReadPage
    BY <1>6, PagePaging
  <1>7. CASE \/ OpenStream \/ CloseStream \/ Reauthenticate \/ ScanWindow
             \/ ResolvePollGrants \/ ResolvePollViewGroups \/ StreamEvents
    BY <1>7, StreamPaging
  <1>8. QED
    BY <1>1, <1>2, <1>3, <1>4, <1>5, <1>6, <1>7 DEF Next, AccountStep, ViewGroupStep

\* Pages are cut along the order of the keys, whatever is delivered or changes
\* in between.
THEOREM PagingHolds == Spec => []Paging
  <1>1. IInv /\ Paging /\ [Next]_vars => Paging'
    BY PagingNext
  <1>2. QED
    BY <1>1, PagingInit, Invariance, PTL DEF Spec

\* An entry of the result that stands still during a walk is on one page of
\* it, and on only one, whatever else moves (ListAlerts, ListAlertGroups).
THEOREM SteadyOnce == Spec => []SteadyEntriesAppearOnce
  <1>1. Paging => SteadyEntriesAppearOnce
    BY DEF Paging, Placed, OnPage, SteadyEntriesAppearOnce
  <1>2. QED
    BY <1>1, PagingHolds, PTL

-----------------------------------------------------------------------------
(***************************************************************************)
(* Following.  A client that loads a list and follows the stream from the  *)
(* list's position is at each moment one whose remaining events take it    *)
(* to what the list shows.                                                 *)
(***************************************************************************)

\* What the list shows the caller of this moment.
Seen(labels, m) ==
    LET caller == Caller(Granted, viewGroupMatchers)
    IN  ShownBy(caller, resolveView(caller, viewOptions(m)), labels)

\* Alert a has no event past p.
Quiet(a, p) == \A e \in DOMAIN events : events[e].alert = a => e <= p

\* The last event about an alert has its labels, and an event before that is
\* followed by one that has its labels as the previous ones.
EventsOK ==
    /\ events \in Seq([alert: 1..MaxAlert, labels: LabelSets, previous: LabelSets \cup {None}])
    /\ \A b \in 1..MaxAlert, e \in DOMAIN events : events[e].alert = b =>
          /\ b \in DOMAIN rows
          /\ \E f \in DOMAIN events :
                /\ f >= e /\ events[f].alert = b /\ Quiet(b, f)
                /\ events[f].labels = rows[b].labels
          /\ \/ Quiet(b, e)
             \/ \E f \in DOMAIN events : /\ f > e /\ events[f].alert = b
                                         /\ events[f].previous = events[e].labels

\* Where the client is, and where it would resume.
Position ==
    IF stream.open THEN stream.after
    ELSE IF stream.last >= walk.from THEN stream.last ELSE walk.from

\* Positions are of events there are; a stream is opened after the first page.
PositionOK ==
    /\ stream.last \in Nat /\ stream.after \in Nat /\ stream.last <= Len(events)
    /\ stream.open => stream.last <= stream.after /\ stream.after <= Len(events)
    /\ stream.open /\ stream.poll.phase # "idle" =>
          /\ "through" \in DOMAIN stream.poll /\ stream.poll.through \in Nat
          /\ stream.after < stream.poll.through /\ stream.poll.through <= Len(events)
    /\ DOMAIN walk = WalkFields =>
          /\ walk.from \in Nat /\ walk.from <= Len(events)
          /\ stream.open => walk.from <= stream.after
          /\ walk.pages = <<>> =>
                ~stream.open /\ walk.held = {} /\ walk.cursor = None /\ ~walk.done

\* While nothing about access changes, an open stream filters by what is in
\* force.
StreamFresh ==
    calm /\ walk.query # None /\ stream.open =>
        /\ "options" \in DOMAIN stream /\ stream.options = viewOptions(walk.mode)
        /\ stream.poll.phase = "grants" => stream.poll.grants = Granted
        /\ stream.poll.phase = "resolved" =>
              stream.poll.principal = Caller(Granted, viewGroupMatchers)

\* The event will be sent to a client in view m.
Touches(e, m) ==
    \/ Seen(events[e].labels, m)
    \/ events[e].previous # None /\ Seen(events[e].previous, m)

\* A held alert is shown, or an event past p will tell.
HeldOK(a, p, m) ==
    \/ a \in DOMAIN rows /\ Quiet(a, p) /\ Seen(rows[a].labels, m)
    \/ \E e \in DOMAIN events : e > p /\ events[e].alert = a /\ Touches(e, m)

\* The pages loaded so far have a's place, and a has not moved silently.
Covered(a, q) == walk.done \/ Reached(q, walk.cursor, <<SortValue(q.sort, rows[a]), a>>)
Concerned(a, q) == q.sort # "lastSeen" \/ a \in steady

\* The client at p holds only what is shown or will be told, and everything
\* shown that the pages cover and no event past p is about.
Agreed ==
    /\ calm /\ walk.query # None /\ walk.query.groupBy = None /\ walk.query.matches = {}
    /\ ~walk.misplaced
    => \A q \in {walk.query}, m \in {walk.mode}, p \in {Position} :
          /\ \A a \in walk.held : HeldOK(a, p, m)
          /\ \A a \in DOMAIN rows :
                Quiet(a, p) /\ Seen(rows[a].labels, m) /\ Covered(a, q) /\ Concerned(a, q)
                    => a \in walk.held

\* The invariant behind StreamAgreesWithList.
Following == EventsOK /\ PositionOK /\ StreamFresh /\ Agreed

\* What is seen depends on access.
LEMMA SeenFrame ==
    ASSUME UNCHANGED account, UNCHANGED views, UNCHANGED prefs
    PROVE  \A l, m : Seen(l, m)' <=> Seen(l, m)
  BY AccessFrame DEF Seen, Granted, viewGroupMatchers, pinnedToUser, viewOptions,
     ReadPreferences

\* What is held depends on access, rows and events.
LEMMA HeldFrame ==
    ASSUME UNCHANGED account, UNCHANGED views, UNCHANGED prefs, UNCHANGED rows,
           UNCHANGED events
    PROVE  /\ \A a, p : Quiet(a, p)' <=> Quiet(a, p)
           /\ \A a, p, m : HeldOK(a, p, m)' <=> HeldOK(a, p, m)
  <1>1. \A a, p : Quiet(a, p)' <=> Quiet(a, p)
    BY DEF Quiet
  <1>2. \A e, m : Touches(e, m)' <=> Touches(e, m)
    BY SeenFrame DEF Touches
  <1>3. QED
    BY <1>1, <1>2, SeenFrame DEF HeldOK

\* Rows and events fit each other while neither changes.
LEMMA EventsFrame ==
    ASSUME EventsOK, UNCHANGED rows, UNCHANGED events
    PROVE  EventsOK'
  BY DEF EventsOK, Quiet

\* Events are numbered.
LEMMA EventIds ==
    ASSUME EventsOK
    PROVE  /\ Len(events) \in Nat /\ DOMAIN events = 1..Len(events)
           /\ \A e \in DOMAIN events :
                 /\ e \in Nat /\ e <= Len(events)
                 /\ events[e].alert \in 1..MaxAlert /\ events[e].labels \in LabelSets
  <1>1. PICK R : /\ R = [alert: 1..MaxAlert, labels: LabelSets, previous: LabelSets \cup {None}]
                 /\ events \in Seq(R)
    BY DEF EventsOK
  <1>2. /\ Len(events) \in Nat /\ DOMAIN events = 1..Len(events)
        /\ \A e \in DOMAIN events : events[e] \in R
    <2>1. events \in Seq(R)
      BY <1>1
    <2>2. QED
      BY <2>1
  <1>3. \A e \in DOMAIN events : events[e].alert \in 1..MaxAlert /\ events[e].labels \in LabelSets
    BY <1>1, <1>2
  <1>4. QED
    BY <1>2, <1>3

\* After an event come the one that changes its labels again and, at the end,
\* the one with the labels of the row.
LEMMA EventsAfter ==
    ASSUME EventsOK, NEW e \in DOMAIN events, NEW b, events[e].alert = b
    PROVE  /\ b \in DOMAIN rows
           /\ \E f \in DOMAIN events :
                 /\ f >= e /\ events[f].alert = b /\ Quiet(b, f)
                 /\ events[f].labels = rows[b].labels
           /\ \/ Quiet(b, e)
              \/ \E f \in DOMAIN events : /\ f > e /\ events[f].alert = b
                                          /\ events[f].previous = events[e].labels
  <1>1. b \in 1..MaxAlert
    BY EventIds
  <1>2. QED
    BY <1>1 DEF EventsOK

\* An alert the list shows may be held at any position: the last event about
\* it tells of it again.
LEMMA ShownMayBeHeld ==
    ASSUME EventsOK, NEW a \in DOMAIN rows, NEW m, Seen(rows[a].labels, m), NEW p \in Nat
    PROVE  HeldOK(a, p, m)
  <1>1. CASE Quiet(a, p)
    BY <1>1 DEF HeldOK
  <1>2. CASE ~Quiet(a, p)
    <2>1. PICK e \in DOMAIN events : events[e].alert = a /\ ~(e <= p)
      BY <1>2 DEF Quiet
    <2>2. PICK f \in DOMAIN events :
             f >= e /\ events[f].alert = a /\ events[f].labels = rows[a].labels
      BY <2>1, EventsAfter
    <2>3. e \in Nat /\ f \in Nat
      BY EventIds
    <2>4. f > p
      BY <2>1, <2>2, <2>3
    <2>5. QED
      BY <2>2, <2>4 DEF HeldOK, Touches
  <1>3. QED
    BY <1>1, <1>2

\* A client that goes back is told more.
LEMMA HeldBack ==
    ASSUME EventsOK, NEW a, NEW m, NEW p \in Nat, NEW r \in Nat, r <= p
    PROVE  /\ HeldOK(a, p, m) => HeldOK(a, r, m)
           /\ Quiet(a, r) => Quiet(a, p)
  <1>1. \A e \in DOMAIN events : e \in Nat
    BY EventIds
  <1>2. Quiet(a, r) => Quiet(a, p)
    BY <1>1 DEF Quiet
  <1>3. ASSUME NEW e \in DOMAIN events, e > p
        PROVE  e > r
    BY <1>1, <1>3
  <1>4. HeldOK(a, p, m) => HeldOK(a, r, m)
    BY <1>3, ShownMayBeHeld DEF HeldOK
  <1>5. QED
    BY <1>2, <1>4

\* Nothing moved but the position, and that back.
LEMMA AgreedBack ==
    ASSUME EventsOK, Agreed, UNCHANGED account, UNCHANGED views, UNCHANGED prefs,
           UNCHANGED rows, UNCHANGED events, steady' = steady, calm' = calm,
           walk'.query = walk.query, walk'.mode = walk.mode, walk'.cursor = walk.cursor,
           walk'.done = walk.done, walk'.held = walk.held, walk'.misplaced = walk.misplaced,
           walk.query # None => Position \in Nat /\ Position' \in Nat /\ Position' <= Position
    PROVE  Agreed'
  <1> SUFFICES ASSUME calm, walk.query # None, walk.query.groupBy = None,
                      walk.query.matches = {}, ~walk.misplaced,
                      NEW q \in {walk.query}, NEW m \in {walk.mode}, NEW r \in {Position'}
               PROVE  /\ \A a \in walk.held : HeldOK(a, r, m)'
                      /\ \A a \in DOMAIN rows' :
                            /\ Quiet(a, r)' /\ Seen(rows[a].labels, m)'
                            /\ Covered(a, q)' /\ Concerned(a, q)'
                            => a \in walk.held
    BY DEF Agreed
  <1>1. PICK p : p = Position
    OBVIOUS
  <1>2. /\ \A a \in walk.held : HeldOK(a, p, m)
        /\ \A a \in DOMAIN rows :
              Quiet(a, p) /\ Seen(rows[a].labels, m) /\ Covered(a, q) /\ Concerned(a, q)
                  => a \in walk.held
    BY <1>1 DEF Agreed
  <1>3. p \in Nat /\ r \in Nat /\ r <= p
    BY <1>1
  <1>4. \A a : Covered(a, q)' <=> Covered(a, q)
    BY DEF Covered
  <1>5. \A a : Concerned(a, q)' <=> Concerned(a, q)
    BY DEF Concerned
  <1>6. \A a : Seen(rows[a].labels, m)' <=> Seen(rows[a].labels, m)
    BY SeenFrame DEF Seen
  <1>7. QED
    BY <1>2, <1>3, <1>4, <1>5, <1>6, HeldFrame, HeldBack

\* A client without a page holds nothing and has been promised nothing.
LEMMA AgreedEmpty ==
    ASSUME walk'.held = {}, walk'.cursor = None, ~walk'.done
    PROVE  Agreed'
  <1>1. \A a, q : ~Covered(a, q)'
    BY DEF Covered, Reached
  <1>2. QED
    BY <1>1 DEF Agreed

\* The result of a flat query without filters is what is seen.
LEMMA FlatCurrent ==
    ASSUME NEW q, NEW m, q.groupBy = None, q.matches = {}
    PROVE  /\ DOMAIN Current(q, m) = {a \in DOMAIN rows : Seen(rows[a].labels, m)}
           /\ \A a \in DOMAIN Current(q, m) :
                 Current(q, m)[a] = <<SortValue(q.sort, rows[a]), a>>
           /\ DOMAIN Current(q, m)' = {a \in DOMAIN rows' : Seen(rows[a].labels, m)'}
           /\ \A a \in DOMAIN Current(q, m)' :
                 Current(q, m)'[a] = <<SortValue(q.sort, rows'[a]), a>>
  <1>1. Current(q, m) = [a \in {b \in DOMAIN rows : Seen(rows[b].labels, m)} |->
                            <<SortValue(q.sort, rows[a]), a>>]
    BY DEF Current, Entries, Hits, Seen
  <1>2. Current(q, m)' = [a \in {b \in DOMAIN rows' : Seen(rows[b].labels, m)'} |->
                            <<SortValue(q.sort, rows'[a]), a>>]
    BY DEF Current, Entries, Hits, Seen
  <1>3. /\ DOMAIN Current(q, m) = {a \in DOMAIN rows : Seen(rows[a].labels, m)}
        /\ \A a \in DOMAIN Current(q, m) :
              Current(q, m)[a] = <<SortValue(q.sort, rows[a]), a>>
    BY <1>1, Zenon
  <1>4. /\ DOMAIN Current(q, m)' = {a \in DOMAIN rows' : Seen(rows[a].labels, m)'}
        /\ \A a \in DOMAIN Current(q, m)' :
              Current(q, m)'[a] = <<SortValue(q.sort, rows'[a]), a>>
    BY <1>2, Zenon
  <1>5. QED
    BY <1>3, <1>4

\* A delivery that says something new appends the event that says it.
LEMMA DeliverEvents ==
    ASSUME RowsOK, EventsOK, NEW a \in 1..MaxAlert, NEW labels \in LabelSets, Deliver(a, labels)
    PROVE  /\ EventsOK'
           /\ Len(events') >= Len(events)
           /\ \A e \in DOMAIN events : e \in DOMAIN events' /\ events'[e] = events[e]
           /\ \A e \in DOMAIN events' \ DOMAIN events : events'[e].alert = a
           /\ a \in DOMAIN rows /\ rows[a].labels = labels => events' = events
           /\ a \notin DOMAIN rows \/ rows[a].labels # labels =>
                 /\ Len(events) + 1 \in DOMAIN events'
                 /\ events'[Len(events) + 1].alert = a
                 /\ a \in DOMAIN rows =>
                       events'[Len(events) + 1].previous = rows[a].labels
  <1>1. /\ rows' = [b \in DOMAIN rows \cup {a} |->
              IF b = a THEN [labels |-> labels, lastSeen |-> MaxAlert + changes + 1]
              ELSE rows[b]]
    BY DEF Deliver
  <1>2. /\ DOMAIN rows' = DOMAIN rows \cup {a} /\ rows'[a].labels = labels
        /\ \A b \in DOMAIN rows \ {a} : rows'[b] = rows[b]
    BY <1>1
  <1>3. CASE a \in DOMAIN rows /\ rows[a].labels = labels
    <2>1. events' = events
      BY <1>3 DEF Deliver
    <2>2. \A b \in DOMAIN rows : b \in DOMAIN rows' /\ rows'[b].labels = rows[b].labels
      BY <1>2, <1>3
    <2>3. \A b, p : Quiet(b, p)' <=> Quiet(b, p)
      BY <2>1 DEF Quiet
    <2>4. EventsOK'
      <3>1. ASSUME NEW b \in 1..MaxAlert, NEW e \in DOMAIN events, events[e].alert = b
            PROVE  /\ b \in DOMAIN rows'
                   /\ \E f \in DOMAIN events :
                         /\ f >= e /\ events[f].alert = b /\ Quiet(b, f)'
                         /\ events[f].labels = rows'[b].labels
                   /\ \/ Quiet(b, e)'
                      \/ \E f \in DOMAIN events : /\ f > e /\ events[f].alert = b
                                                  /\ events[f].previous = events[e].labels
        BY <2>2, <2>3, <3>1, EventsAfter
      <3>2. QED
        BY <2>1, <3>1 DEF EventsOK
    <2>5. Len(events) \in Nat /\ Len(events') >= Len(events)
      BY <2>1, EventIds
    <2>6. QED
      BY <1>3, <2>1, <2>4, <2>5
  <1>4. CASE a \notin DOMAIN rows \/ rows[a].labels # labels
    <2>1. PICK n, event :
             /\ n = Len(events) + 1 /\ events' = Append(events, event)
             /\ event = [alert |-> a, labels |-> labels,
                         previous |-> IF a \in DOMAIN rows THEN rows[a].labels ELSE None]
      BY <1>4 DEF Deliver
    <2>2. /\ event \in [alert: 1..MaxAlert, labels: LabelSets, previous: LabelSets \cup {None}]
          /\ event.alert = a /\ event.labels = labels
          /\ a \in DOMAIN rows => event.previous = rows[a].labels
      BY <2>1 DEF RowsOK
    <2>3. /\ events' \in Seq([alert: 1..MaxAlert, labels: LabelSets,
                              previous: LabelSets \cup {None}])
          /\ events \in Seq([alert: 1..MaxAlert, labels: LabelSets,
                              previous: LabelSets \cup {None}])
      BY <2>1, <2>2 DEF EventsOK
    <2>4. /\ DOMAIN events = 1..Len(events) /\ DOMAIN events' = 1..n
          /\ Len(events) \in Nat /\ n \in Nat /\ Len(events') = n
          /\ \A e \in DOMAIN events : events'[e] = events[e]
          /\ events'[n] = event
      BY <2>1, <2>2, <2>3
    <2>5. \A b, p : b # a => (Quiet(b, p)' <=> Quiet(b, p))
      BY <2>1, <2>2, <2>4 DEF Quiet
    <2>6. Quiet(a, n)'
      BY <2>4 DEF Quiet
    <2>7. /\ n \in DOMAIN events'
          /\ \A e \in DOMAIN events : /\ e \in DOMAIN events' /\ e \in Nat /\ n > e
                                      /\ n >= e /\ events'[e] = events[e]
          /\ \A e \in DOMAIN events' : e = n \/ e \in DOMAIN events
      BY <2>1, <2>4
    <2>8. ASSUME NEW b \in 1..MaxAlert, NEW e \in DOMAIN events', events'[e].alert = b
          PROVE  /\ b \in DOMAIN rows'
                 /\ \E f \in DOMAIN events' :
                       /\ f >= e /\ events'[f].alert = b /\ Quiet(b, f)'
                       /\ events'[f].labels = rows'[b].labels
                 /\ \/ Quiet(b, e)'
                    \/ \E f \in DOMAIN events' : /\ f > e /\ events'[f].alert = b
                                                 /\ events'[f].previous = events'[e].labels
      <3>1. CASE e = n
        BY <1>2, <2>2, <2>4, <2>6, <2>7, <2>8, <3>1
      <3>2. CASE e \in DOMAIN events /\ b = a
        <4>1. events[e].alert = a
          BY <2>7, <2>8, <3>2
        <4>2. a \in DOMAIN rows
          BY <3>2, <4>1 DEF EventsOK
        <4>3. CASE Quiet(a, e)
          <5>1. PICK f \in DOMAIN events : f >= e /\ events[f].alert = a
                                           /\ events[f].labels = rows[a].labels
            BY <2>7, <2>8, <3>2 DEF EventsOK
          <5>2. f <= e /\ f \in Nat /\ e \in Nat
            BY <2>7, <3>2, <4>3, <5>1 DEF Quiet
          <5>3. f = e
            BY <5>1, <5>2
          <5>4. events'[n].previous = events'[e].labels
            BY <2>2, <2>4, <2>7, <3>2, <4>2, <5>1, <5>3
          <5>5. QED
            BY <1>2, <2>2, <2>4, <2>6, <2>7, <3>2, <5>4
        <4>4. CASE ~Quiet(a, e)
          <5>1. PICK f \in DOMAIN events : f > e /\ events[f].alert = a
                                           /\ events[f].previous = events[e].labels
            BY <3>2, <4>1, <4>4 DEF EventsOK
          <5>2. QED
            BY <1>2, <2>2, <2>4, <2>6, <2>7, <3>2, <5>1
        <4>5. QED
          BY <4>3, <4>4
      <3>3. CASE e \in DOMAIN events /\ b # a
        <4>1. events[e].alert = b
          BY <2>7, <2>8, <3>3
        <4>2. b \in DOMAIN rows /\ rows'[b] = rows[b] /\ b \in DOMAIN rows'
          BY <1>2, <3>3, <4>1 DEF EventsOK
        <4>3. PICK f \in DOMAIN events :
                 /\ f >= e /\ events[f].alert = b /\ Quiet(b, f)
                 /\ events[f].labels = rows[b].labels
          BY <3>3, <4>1 DEF EventsOK
        <4>4. \/ Quiet(b, e)
              \/ \E g \in DOMAIN events : /\ g > e /\ events[g].alert = b
                                          /\ events[g].previous = events[e].labels
          BY <3>3, <4>1 DEF EventsOK
        <4>5. Quiet(b, f)' /\ (Quiet(b, e) => Quiet(b, e)')
          BY <2>5, <3>3, <4>3
        <4>6. QED
          BY <2>7, <3>3, <4>2, <4>3, <4>4, <4>5
      <3>4. QED
        BY <2>7, <3>1, <3>2, <3>3
    <2>9. EventsOK'
      BY <2>3, <2>8 DEF EventsOK
    <2>10. /\ Len(events') >= Len(events)
           /\ \A e \in DOMAIN events' \ DOMAIN events : events'[e].alert = a
      BY <2>1, <2>2, <2>4, <2>7
    <2>11. /\ Len(events) + 1 \in DOMAIN events'
           /\ events'[Len(events) + 1].alert = a
           /\ a \in DOMAIN rows => events'[Len(events) + 1].previous = rows[a].labels
      BY <2>1, <2>2, <2>4, <2>7
    <2>12. QED
      BY <1>4, <2>7, <2>9, <2>10, <2>11
  <1>5. QED
    BY <1>3, <1>4

\* The position is an event's number.
LEMMA PositionTyped ==
    ASSUME EventsOK, PositionOK, DOMAIN walk = WalkFields
    PROVE  Position \in Nat /\ Position <= Len(events)
  BY EventIds DEF PositionOK, Position

\* A delivery that changes what is shown is told by the event it appends; one
\* that repeats an alert moves it only in a list sorted by lastSeen.
LEMMA DeliverAgreed ==
    ASSUME IInv, Paging, Following, NEW a \in 1..MaxAlert, NEW labels \in LabelSets,
           Deliver(a, labels)
    PROVE  Agreed'
  <1>1. /\ UNCHANGED account /\ UNCHANGED views /\ UNCHANGED prefs /\ walk' = walk
        /\ stream' = stream /\ calm' = calm /\ StillSteady
        /\ rows' = [b \in DOMAIN rows \cup {a} |->
              IF b = a THEN [labels |-> labels, lastSeen |-> MaxAlert + changes + 1]
              ELSE rows[b]]
    BY DEF Deliver
  <1>2. /\ DOMAIN rows' = DOMAIN rows \cup {a} /\ rows'[a].labels = labels
        /\ \A b \in DOMAIN rows \ {a} : rows'[b] = rows[b]
    BY <1>1
  <1> SUFFICES ASSUME calm, walk.query # None, walk.query.groupBy = None,
                      walk.query.matches = {}, ~walk.misplaced,
                      NEW q \in {walk.query}, NEW m \in {walk.mode}, NEW p \in {Position'}
               PROVE  /\ \A b \in walk.held : HeldOK(b, p, m)'
                      /\ \A b \in DOMAIN rows' :
                            /\ Quiet(b, p)' /\ Seen(rows[b].labels, m)'
                            /\ Covered(b, q)' /\ Concerned(b, q)'
                            => b \in walk.held
    BY <1>1 DEF Agreed
  <1>3. p = Position /\ p \in Nat /\ p <= Len(events) /\ Len(events) \in Nat
    <2>1. DOMAIN walk = WalkFields
      BY DEF IInv, WalkOK, NoWalk
    <2>2. p = Position
      BY <1>1 DEF Position
    <2>3. QED
      BY <2>1, <2>2, PositionTyped, EventIds DEF Following
  <1>4. /\ \A b \in walk.held : HeldOK(b, p, m)
        /\ \A b \in DOMAIN rows :
              Quiet(b, p) /\ Seen(rows[b].labels, m) /\ Covered(b, q) /\ Concerned(b, q)
                  => b \in walk.held
    BY <1>3 DEF Following, Agreed
  <1>5. \A l : Seen(l, m)' <=> Seen(l, m)
    BY <1>1, SeenFrame
  <1>6. PICK n : n = Len(events) + 1
    OBVIOUS
  <1>7. /\ \A e \in DOMAIN events : e \in DOMAIN events' /\ events'[e] = events[e]
        /\ \A e \in DOMAIN events' \ DOMAIN events : events'[e].alert = a
        /\ a \in DOMAIN rows /\ rows[a].labels = labels => events' = events
        /\ a \notin DOMAIN rows \/ rows[a].labels # labels =>
              /\ n \in DOMAIN events' /\ events'[n].alert = a
              /\ a \in DOMAIN rows => events'[n].previous = rows[a].labels
    BY <1>6, DeliverEvents DEF Paging, Following
  <1>8. n > p /\ ~(n <= p)
    BY <1>3, <1>6
  <1>9. \A b : Quiet(b, p)' => Quiet(b, p)
    BY <1>7 DEF Quiet
  <1>10. ASSUME NEW b \in walk.held
         PROVE  HeldOK(b, p, m)'
    <2>1. CASE \E e \in DOMAIN events : e > p /\ events[e].alert = b /\ Touches(e, m)
      <3>1. PICK e \in DOMAIN events : e > p /\ events[e].alert = b /\ Touches(e, m)
        BY <2>1
      <3>2. e \in DOMAIN events' /\ events'[e] = events[e]
        BY <1>7
      <3>3. Touches(e, m)'
        BY <1>5, <3>1, <3>2 DEF Touches
      <3>4. QED
        BY <3>1, <3>2, <3>3 DEF HeldOK
    <2>2. CASE b \in DOMAIN rows /\ Quiet(b, p) /\ Seen(rows[b].labels, m)
      <3>1. CASE b = a /\ rows[a].labels # labels
        <4>1. /\ n \in DOMAIN events' /\ events'[n].alert = b
              /\ events'[n].previous = rows[b].labels
          BY <1>7, <2>2, <3>1
        <4>2. rows[b].labels # None
          BY <2>2, ListingConstants DEF Paging, RowsOK
        <4>3. Touches(n, m)'
          <5>1. \E l \in {events'[n].previous} : l # None /\ Seen(l, m)'
            BY <1>5, <2>2, <4>1, <4>2
          <5>2. QED
            BY <5>1 DEF Touches
        <4>4. QED
          BY <1>8, <4>1, <4>3 DEF HeldOK
      <3>2. CASE b # a \/ rows[a].labels = labels
        <4>1. b \in DOMAIN rows' /\ rows'[b].labels = rows[b].labels
          BY <1>2, <2>2, <3>2
        <4>2. Quiet(b, p)'
          BY <1>3, <1>7, <2>2, <3>2 DEF Quiet
        <4>3. Seen(rows[b].labels, m)'
          BY <1>5, <2>2, <4>1
        <4>4. QED
          BY <4>1, <4>2, <4>3 DEF HeldOK
      <3>3. QED
        BY <3>1, <3>2
    <2>3. QED
      BY <1>4, <1>10, <2>1, <2>2 DEF HeldOK
  <1>11. ASSUME NEW b \in DOMAIN rows', Quiet(b, p)', Seen(rows[b].labels, m)',
                Covered(b, q)', Concerned(b, q)'
         PROVE  b \in walk.held
    <2>1. b \in DOMAIN rows /\ rows'[b].labels = rows[b].labels
      <3>1. CASE b = a
        BY <1>2, <1>7, <1>8, <1>11, <3>1 DEF Quiet
      <3>2. CASE b # a
        BY <1>2, <1>11, <3>2
      <3>3. QED
        BY <3>1, <3>2
    <2>2. Seen(rows[b].labels, m)
      BY <1>5, <1>11, <2>1
    <2>3. Concerned(b, q)
      BY <1>1, <1>11 DEF Concerned, StillSteady
    <2>4. SortValue(q.sort, rows'[b]) = SortValue(q.sort, rows[b])
      <3>1. CASE q.sort # "lastSeen"
        BY <2>1, <3>1 DEF SortValue
      <3>2. CASE q.sort = "lastSeen"
        <4>1. b \in steady' /\ b \in steady
          BY <1>1, <1>11, <3>2 DEF Concerned, StillSteady
        <4>2. b \in DOMAIN Current(q, m)' /\ Current(q, m)'[b] = Current(q, m)[b]
          BY <1>1, <4>1 DEF StillSteady
        <4>3. b \in DOMAIN Current(q, m)
          BY <4>1 DEF Paging, Placed
        <4>4. /\ Current(q, m)[b] = <<SortValue(q.sort, rows[b]), b>>
              /\ Current(q, m)'[b] = <<SortValue(q.sort, rows'[b]), b>>
          <5>1. q.groupBy = None /\ q.matches = {}
            OBVIOUS
          <5>2. /\ \A c \in DOMAIN Current(q, m) :
                      Current(q, m)[c] = <<SortValue(q.sort, rows[c]), c>>
                /\ \A c \in DOMAIN Current(q, m)' :
                      Current(q, m)'[c] = <<SortValue(q.sort, rows'[c]), c>>
            BY <5>1, FlatCurrent, Zenon
          <5>3. QED
            BY <4>2, <4>3, <5>2, Zenon
        <4>5. QED
          BY <4>2, <4>4
      <3>3. QED
        BY <3>1, <3>2
    <2>5. Covered(b, q)
      BY <1>1, <1>11, <2>4 DEF Covered
    <2>6. QED
      BY <1>4, <1>9, <1>11, <2>1, <2>2, <2>3, <2>5
  <1>12. QED
    BY <1>10, <1>11

\* There is neither a walk nor an event at first.
LEMMA FollowingInit == Init => Following
  <1> SUFFICES ASSUME Init
               PROVE  Following
    OBVIOUS
  <1>1. walk = NoWalk /\ stream = NoStream /\ events = <<>>
    BY DEF Init
  <1>2. DOMAIN walk # WalkFields /\ walk.query = None
    BY <1>1 DEF NoWalk, WalkFields
  <1>3. /\ events \in Seq([alert: 1..MaxAlert, labels: LabelSets,
                           previous: LabelSets \cup {None}])
        /\ DOMAIN events = {} /\ Len(events) = 0
    BY <1>1
  <1>4. /\ ~stream.open /\ stream.last = 0 /\ stream.after = 0
    BY <1>1 DEF NoStream
  <1>5. EventsOK
    BY <1>3 DEF EventsOK
  <1>6. PositionOK
    BY <1>2, <1>3, <1>4 DEF PositionOK
  <1>7. StreamFresh /\ Agreed
    BY <1>2 DEF StreamFresh, Agreed
  <1>8. QED
    BY <1>5, <1>6, <1>7 DEF Following

\* The positions stay while the walk and the stream do.
LEMMA PositionFrame ==
    ASSUME EventsOK, PositionOK, Len(events') \in Nat, Len(events') >= Len(events),
           stream'.open = stream.open, stream'.last = stream.last,
           stream'.after = stream.after, stream'.poll.phase = stream.poll.phase,
           stream.open /\ stream.poll.phase # "idle" =>
              /\ "through" \in DOMAIN stream'.poll
              /\ stream'.poll.through = stream.poll.through,
           DOMAIN walk' = DOMAIN walk, walk'.from = walk.from, walk'.pages = walk.pages,
           walk'.held = walk.held, walk'.cursor = walk.cursor, walk'.done = walk.done
    PROVE  PositionOK'
  <1>1. Len(events) \in Nat
    BY EventIds
  <1>2. /\ stream'.last \in Nat /\ stream'.after \in Nat /\ stream'.last <= Len(events')
        /\ stream'.open => stream'.last <= stream'.after /\ stream'.after <= Len(events')
    BY <1>1 DEF PositionOK
  <1>3. stream'.open /\ stream'.poll.phase # "idle" =>
          /\ "through" \in DOMAIN stream'.poll /\ stream'.poll.through \in Nat
          /\ stream'.after < stream'.poll.through /\ stream'.poll.through <= Len(events')
    BY <1>1 DEF PositionOK
  <1>4. DOMAIN walk' = WalkFields =>
          /\ walk'.from \in Nat /\ walk'.from <= Len(events')
          /\ stream'.open => walk'.from <= stream'.after
          /\ walk'.pages = <<>> =>
                ~stream'.open /\ walk'.held = {} /\ walk'.cursor = None /\ ~walk'.done
    BY <1>1 DEF PositionOK
  <1>5. QED
    BY <1>2, <1>3, <1>4 DEF PositionOK

\* The stream filters by what is in force while neither changes.
LEMMA FreshFrame ==
    ASSUME StreamFresh, UNCHANGED account, UNCHANGED views, UNCHANGED prefs,
           stream' = stream, calm' = calm,
           walk'.query = walk.query, walk'.mode = walk.mode
    PROVE  StreamFresh'
  BY AccessFrame DEF StreamFresh

\* A delivery reaches the client through its event.
LEMMA DeliverFollowing ==
    ASSUME IInv, Paging, Following, NEW a \in 1..MaxAlert, NEW labels \in LabelSets,
           Deliver(a, labels)
    PROVE  Following'
  <1>1. /\ UNCHANGED account /\ UNCHANGED views /\ UNCHANGED prefs /\ walk' = walk
        /\ stream' = stream /\ calm' = calm
    BY DEF Deliver
  <1>2. EventsOK' /\ Len(events') >= Len(events) /\ EventsOK
    BY DeliverEvents DEF Paging, Following
  <1>3. Len(events') \in Nat
    BY <1>2 DEF EventsOK
  <1>4. PositionOK'
    BY <1>1, <1>2, <1>3, PositionFrame DEF Following, PositionOK
  <1>5. StreamFresh'
    BY <1>1, FreshFrame DEF Following
  <1>6. QED
    BY <1>2, <1>4, <1>5, DeliverAgreed DEF Following

\* A change of access ends what is promised.
LEMMA AccessFollowing ==
    ASSUME IInv, Following, AccessChanges
    PROVE  Following'
  <1>1. UNCHANGED rows /\ UNCHANGED events /\ walk' = walk /\ ~calm'
    BY DEF AccessChanges
  <1>2. EventsOK'
    BY <1>1, EventsFrame DEF Following
  <1>3. /\ stream'.open = stream.open /\ stream'.last = stream.last
        /\ stream'.after = stream.after /\ stream'.poll.phase = stream.poll.phase
        /\ DOMAIN stream'.poll = DOMAIN stream.poll
        /\ "through" \in DOMAIN stream.poll => stream'.poll.through = stream.poll.through
    <2>1. CASE stream.poll.phase = "idle"
      BY <2>1 DEF AccessChanges
    <2>2. CASE stream.poll.phase # "idle"
      BY <2>2 DEF AccessChanges, IInv, PollOK
    <2>3. QED
      BY <2>1, <2>2
  <1>4. Len(events') \in Nat /\ Len(events') >= Len(events)
    BY <1>1, EventIds DEF Following
  <1>5. PositionOK'
    BY <1>1, <1>3, <1>4, PositionFrame DEF Following, PositionOK
  <1>6. StreamFresh' /\ Agreed'
    BY <1>1 DEF StreamFresh, Agreed
  <1>7. QED
    BY <1>2, <1>5, <1>6 DEF Following

\* Nothing moved.
LEMMA FollowingFrame ==
    ASSUME IInv, Following, UNCHANGED account, UNCHANGED views, UNCHANGED prefs,
           UNCHANGED rows, UNCHANGED events, steady' = steady, calm' = calm,
           stream' = stream, DOMAIN walk' = DOMAIN walk,
           walk'.query = walk.query, walk'.mode = walk.mode, walk'.from = walk.from,
           walk'.pages = walk.pages, walk'.cursor = walk.cursor, walk'.done = walk.done,
           walk'.held = walk.held, walk'.misplaced = walk.misplaced
    PROVE  Following'
  <1>1. EventsOK'
    BY EventsFrame DEF Following
  <1>2. Len(events') \in Nat /\ Len(events') >= Len(events)
    BY EventIds DEF Following
  <1>3. PositionOK'
    BY <1>2, PositionFrame DEF Following, PositionOK
  <1>4. StreamFresh'
    BY FreshFrame DEF Following
  <1>5. walk.query # None => Position \in Nat /\ Position' \in Nat /\ Position' <= Position
    <2>1. walk.query # None => DOMAIN walk = WalkFields
      BY DEF IInv, WalkOK, NoWalk
    <2>2. Position' = Position
      BY DEF Position
    <2>3. QED
      BY <2>1, <2>2, PositionTyped DEF Following
  <1>6. Agreed'
    BY <1>5, AgreedBack DEF Following
  <1>7. QED
    BY <1>1, <1>3, <1>4, <1>6 DEF Following

\* A walk begins with nothing held, without a stream.
LEMMA AuthenticateFollowing ==
    ASSUME IInv, Following, NEW q, NEW mode, NEW first, Authenticate(q, mode, first)
    PROVE  Following'
  <1>1. /\ UNCHANGED rows /\ UNCHANGED events /\ UNCHANGED prefs /\ UNCHANGED views
        /\ UNCHANGED account
    BY DEF Authenticate, database
  <1>2. CASE first
    <2>1. /\ walk' = [query |-> q, mode |-> mode, options |-> None, cursor |-> None,
                      from |-> 0, done |-> FALSE, pages |-> <<>>, held |-> {},
                      misplaced |-> FALSE]
          /\ stream' = NoStream
      BY <1>2 DEF Authenticate
    <2>2. /\ walk'.held = {} /\ walk'.cursor = None /\ ~walk'.done /\ walk'.from = 0
      BY <2>1
    <2>3. ~stream'.open /\ stream'.last = 0 /\ stream'.after = 0
      BY <2>1 DEF NoStream
    <2>4. Len(events') \in Nat
      BY <1>1, EventIds DEF Following
    <2>5. EventsOK'
      BY <1>1, EventsFrame DEF Following
    <2>6. PositionOK' /\ StreamFresh'
      BY <2>2, <2>3, <2>4 DEF PositionOK, StreamFresh
    <2>7. QED
      BY <2>2, <2>5, <2>6, AgreedEmpty DEF Following
  <1>3. CASE ~first
    <2>1. UNCHANGED <<walk, stream, steady, calm>>
      BY <1>3 DEF Authenticate
    <2>2. QED
      BY <1>1, <2>1, FollowingFrame
  <1>4. QED
    BY <1>2, <1>3

\* The largest of some event numbers is one of them.
LEMMA NewestOf ==
    ASSUME EventsOK, NEW S \in SUBSET (DOMAIN events), S # {}
    PROVE  Max(S) \in S /\ \A e \in S : e <= Max(S)
  <1>1. IsFiniteSet(S) /\ S \in SUBSET Int
    <2>1. DOMAIN events = 1..Len(events) /\ Len(events) \in Int
      BY EventIds
    <2>2. IsFiniteSet(1..Len(events))
      BY <2>1, FS_Interval
    <2>3. QED
      BY <2>1, <2>2, FS_Subset
  <1>2. QED
    BY <1>1, MaxOfFinite

\* The statements of a list request before the page: the position of the
\* first page is taken before anything is held.
LEMMA ResolveFollowing ==
    ASSUME IInv, Following,
           \/ ResolveViewGroups \/ ParseQuery \/ readStreamCursor
           \/ readSeverityCounts \/ summarizeView
    PROVE  Following'
  <1>1. /\ UNCHANGED rows /\ UNCHANGED events /\ UNCHANGED prefs /\ UNCHANGED views
        /\ UNCHANGED account /\ UNCHANGED stream
    BY DEF ResolveViewGroups, ParseQuery, readStreamCursor, readSeverityCounts, summarizeView,
       Step, database
  <1>2. DOMAIN walk = WalkFields
    BY DEF IInv, WalkOK, Requesting, ResolveViewGroups, ParseQuery, readStreamCursor,
       readSeverityCounts, summarizeView
  <1>3. CASE ResolveViewGroups \/ readSeverityCounts \/ summarizeView
    <2>1. walk' = walk /\ steady' = steady /\ calm' = calm
      BY <1>3 DEF ResolveViewGroups, readSeverityCounts, summarizeView, ghosts
    <2>2. QED
      BY <1>1, <2>1, FollowingFrame
  <1>4. CASE ParseQuery
    <2>1. CASE walk' = NoWalk
      <3>1. walk'.query = None /\ DOMAIN walk' # WalkFields
        BY <2>1 DEF NoWalk, WalkFields
      <3>2. EventsOK'
        BY <1>1, EventsFrame DEF Following
      <3>3. PositionOK'
        BY <1>1, <3>1 DEF Following, PositionOK
      <3>4. QED
        BY <3>1, <3>2, <3>3 DEF Following, StreamFresh, Agreed
    <2>2. CASE walk' # NoWalk
      <3>1. /\ steady' = steady /\ calm' = calm
            /\ walk' = [walk EXCEPT !.options = viewOptions(walk.mode)]
        BY <1>4, <2>2 DEF ParseQuery, ghosts
      <3>2. /\ DOMAIN walk' = DOMAIN walk
            /\ walk'.query = walk.query /\ walk'.mode = walk.mode /\ walk'.from = walk.from
            /\ walk'.pages = walk.pages /\ walk'.cursor = walk.cursor
            /\ walk'.done = walk.done /\ walk'.held = walk.held
            /\ walk'.misplaced = walk.misplaced
        BY <1>2, <3>1 DEF WalkFields
      <3>3. QED
        BY <1>1, <3>1, <3>2, FollowingFrame
    <2>3. QED
      BY <2>1, <2>2
  <1>5. CASE readStreamCursor
    <2>1. steady' = steady /\ calm' = calm
      BY <1>5 DEF readStreamCursor, ghosts
    <2>2. CASE walk.pages # <<>>
      <3>1. walk' = walk
        BY <1>5, <2>2 DEF readStreamCursor
      <3>2. QED
        BY <1>1, <2>1, <3>1, FollowingFrame
    <2>3. CASE walk.pages = <<>>
      <3>1. PICK known \in SUBSET (DOMAIN events) :
               walk' = [walk EXCEPT !.from = IF known = {} THEN 0 ELSE Max(known)]
        BY <1>5, <2>3 DEF readStreamCursor
      <3>2. ~stream.open /\ walk.held = {} /\ walk.cursor = None /\ ~walk.done
        BY <1>2, <2>3 DEF Following, PositionOK
      <3>3. /\ walk'.from = IF known = {} THEN 0 ELSE Max(known)
            /\ walk'.held = {} /\ walk'.cursor = None /\ ~walk'.done
        BY <1>2, <3>1, <3>2 DEF WalkFields
      <3>4. walk'.from \in Nat /\ walk'.from <= Len(events')
        BY <1>1, <3>3, NewestOf, EventIds DEF Following
      <3>5. PositionOK'
        BY <1>1, <3>2, <3>3, <3>4 DEF Following, PositionOK
      <3>6. StreamFresh'
        BY <1>1, <3>2 DEF StreamFresh
      <3>7. EventsOK'
        BY <1>1, EventsFrame DEF Following
      <3>8. QED
        BY <3>3, <3>5, <3>6, <3>7, AgreedEmpty DEF Following
    <2>4. QED
      BY <2>2, <2>3
  <1>6. QED
    BY <1>3, <1>4, <1>5

\* A page brings what is shown up to its end.
LEMMA PageFollowing ==
    ASSUME IInv, Paging, Following, ReadPage
    PROVE  Following'
  <1>1. /\ UNCHANGED rows /\ UNCHANGED prefs /\ UNCHANGED views /\ UNCHANGED account
        /\ UNCHANGED events /\ UNCHANGED stream /\ request.phase = "summarized"
        /\ steady' = steady /\ calm' = calm
    BY DEF ReadPage, Step, database, Requesting, ghosts
  <1>2. DOMAIN walk = WalkFields /\ ~walk.done /\ walk.pages \in Seq(SUBSET AllEntries)
    BY <1>1 DEF IInv, WalkOK, Paging, WalkTyped
  <1>3. PICK q, m, entries, page, rest, end :
           /\ q = walk.query /\ m = walk.mode /\ entries = Result /\ page = Page
           /\ rest = PageOf(q, entries, walk.cursor, Limit + 1)
           /\ end = EndOf(q, entries, walk.cursor)
    OBVIOUS
  <1>4. PICK next : walk' = [walk EXCEPT
             !.pages = Append(walk.pages, page),
             !.held = IF q.groupBy = None THEN walk.held \cup page ELSE walk.held,
             !.done = ~(page # rest),
             !.cursor = IF page # rest THEN next ELSE walk.cursor,
             !.misplaced = walk.misplaced \/ (page # rest /\ next # entries[end])]
    BY <1>3 DEF ReadPage
  <1>5. /\ DOMAIN walk' = WalkFields /\ walk'.from = walk.from
        /\ walk'.query = q /\ walk'.mode = m /\ walk'.pages = Append(walk.pages, page)
        /\ q.groupBy = None => walk'.held = walk.held \cup page
        /\ walk'.cursor = IF page # rest THEN next ELSE walk.cursor
    BY <1>2, <1>3, <1>4 DEF WalkFields
  <1>6. /\ walk'.done <=> page = rest
        /\ walk'.misplaced <=> walk.misplaced \/ (page # rest /\ next # entries[end])
    BY <1>2, <1>4 DEF WalkFields
  <1>7. Proper(q, entries) /\ DOMAIN entries \subseteq AllEntries
    BY <1>3, EntriesProper DEF Result, Paging, IInv, CountsOK
  <1>8. /\ page = PageOf(q, entries, walk.cursor, Limit)
        /\ end = LastOf(q, entries, page)
    BY <1>3 DEF Page, EndOf
  <1>9. walk'.pages # <<>>
    <2>1. page \in SUBSET AllEntries
      BY <1>7, <1>8 DEF PageOf
    <2>2. QED
      BY <1>2, <1>5, <2>1
  <1>10. EventsOK'
    BY <1>1, EventsFrame DEF Following
  <1>11. PositionOK'
    BY <1>1, <1>2, <1>5, <1>9 DEF Following, PositionOK
  <1>12. StreamFresh'
    BY <1>1, <1>3, <1>5, FreshFrame DEF Following
  <1>13. Agreed'
    <2>1. PICK p : p = Position
      OBVIOUS
    <2>2. Position' = p /\ p \in Nat
      <3>1. Position' = p
        BY <1>1, <1>5, <2>1 DEF Position
      <3>2. QED
        BY <1>2, <2>1, <3>1, PositionTyped DEF Following
    <2>3. SUFFICES ASSUME calm, q # None, q.groupBy = None, q.matches = {}, ~walk'.misplaced
                   PROVE  /\ \A a \in walk.held \cup page : HeldOK(a, p, m)'
                          /\ \A a \in DOMAIN rows' :
                                /\ Quiet(a, p)' /\ Seen(rows[a].labels, m)'
                                /\ Covered(a, q)' /\ Concerned(a, q)'
                                => a \in walk.held \cup page
      BY <1>1, <1>5, <2>2 DEF Agreed
    <2>4. ~walk.misplaced /\ (page # rest => next = entries[end])
      BY <1>6, <2>3
    <2>5. /\ \A a \in walk.held : HeldOK(a, p, m)
          /\ \A a \in DOMAIN rows :
                Quiet(a, p) /\ Seen(rows[a].labels, m) /\ Covered(a, q) /\ Concerned(a, q)
                    => a \in walk.held
      BY <1>3, <2>1, <2>3, <2>4 DEF Following, Agreed
    <2>6. walk.cursor = None \/ walk.cursor \in KeySet(q)
      BY <1>3, <2>3, <2>4 DEF Paging, Placed
    <2>7. Current(q, m) = entries
      BY <1>1, <1>3, <2>3 DEF Paging, RequestFresh, Resolved, Current, Result, View
    <2>8. /\ DOMAIN entries = {a \in DOMAIN rows : Seen(rows[a].labels, m)}
          /\ \A a \in DOMAIN entries : entries[a] = <<SortValue(q.sort, rows[a]), a>>
      BY <2>3, <2>7, FlatCurrent, Zenon
    <2>9. PICK past :
             past = {e \in DOMAIN entries :
                        walk.cursor = None \/ Before(q, walk.cursor, entries[e])}
      OBVIOUS
    <2>10. /\ page \subseteq past
           /\ page = rest => page = past
           /\ page # rest =>
                 /\ end \in page
                 /\ \A e \in past : e \in page <=> ~Before(q, entries[end], entries[e])
      BY <1>3, <1>7, <1>8, <2>6, <2>9, PageCut
    <2>11. \A a \in page : a \in DOMAIN rows /\ Seen(rows[a].labels, m)
      BY <2>8, <2>9, <2>10
    <2>12. \A a \in walk.held \cup page : HeldOK(a, p, m)
      BY <2>2, <2>5, <2>11, ShownMayBeHeld DEF Following
    <2>13. ASSUME NEW a \in DOMAIN rows, Quiet(a, p), Seen(rows[a].labels, m),
                  Covered(a, q)', Concerned(a, q)
           PROVE  a \in walk.held \cup page
      <3>1. a \in DOMAIN entries /\ entries[a] = <<SortValue(q.sort, rows[a]), a>>
        BY <2>8, <2>13
      <3>2. CASE a \notin past
        <4>1. Reached(q, walk.cursor, entries[a])
          BY <2>9, <3>1, <3>2 DEF Reached
        <4>2. QED
          BY <2>5, <2>13, <3>1, <4>1 DEF Covered
      <3>3. CASE a \in past /\ page = rest
        BY <2>10, <3>3
      <3>4. CASE a \in past /\ page # rest
        <4>1. Reached(q, walk'.cursor, entries[a])
          BY <1>1, <1>6, <2>13, <3>1, <3>4 DEF Covered
        <4>2. ~Before(q, entries[end], entries[a])
          BY <1>5, <2>4, <3>4, <4>1 DEF Reached
        <4>3. QED
          BY <2>10, <3>4, <4>2
      <3>5. QED
        BY <3>2, <3>3, <3>4
    <2>14. /\ \A a : Concerned(a, q)' <=> Concerned(a, q)
           /\ \A a : Seen(rows[a].labels, m)' <=> Seen(rows[a].labels, m)
      <3>1. \A a : Concerned(a, q)' <=> Concerned(a, q)
        BY <1>1 DEF Concerned
      <3>2. \A l : Seen(l, m)' <=> Seen(l, m)
        BY <1>1, SeenFrame
      <3>3. QED
        BY <1>1, <3>1, <3>2
    <2>15. QED
      BY <1>1, <2>12, <2>13, <2>14, HeldFrame
  <1>14. QED
    BY <1>10, <1>11, <1>12, <1>13 DEF Following

\* The larger and the smaller of two numbers.
LEMMA OfTwo ==
    ASSUME NEW x \in Nat, NEW y \in Nat
    PROVE  /\ Max({x, y}) = IF x >= y THEN x ELSE y
           /\ Min({x, y}) = IF x <= y THEN x ELSE y
  <1>1. PICK z \in Nat : z = IF x >= y THEN x ELSE y
    OBVIOUS
  <1>2. Max({x, y}) = z
    <2>1. z \in {x, y} /\ \A w \in {x, y} : z >= w
      BY <1>1
    <2>2. \A v \in {x, y} : (\A w \in {x, y} : v >= w) => v = z
      BY <1>1
    <2>3. QED
      BY <2>1, <2>2 DEF Max
  <1>3. PICK s \in Nat : s = IF x <= y THEN x ELSE y
    OBVIOUS
  <1>4. Min({x, y}) = s
    <2>1. s \in {x, y} /\ \A w \in {x, y} : s <= w
      BY <1>3
    <2>2. \A v \in {x, y} : (\A w \in {x, y} : v <= w) => v = s
      BY <1>3
    <2>3. QED
      BY <2>1, <2>2 DEF Min
  <1>5. QED
    BY <1>1, <1>2, <1>3, <1>4

\* Opening a stream keeps the client where it is; closing it takes it back to
\* the last event it received.
LEMMA OpenFollowing ==
    ASSUME IInv, Following,
           OpenStream \/ CloseStream \/ Reauthenticate
           \/ (ResolvePollGrants /\ Unreadable)
    PROVE  Following'
  <1>1. /\ UNCHANGED rows /\ UNCHANGED events /\ UNCHANGED prefs /\ UNCHANGED views
        /\ UNCHANGED account /\ walk' = walk /\ steady' = steady /\ calm' = calm
    BY DEF OpenStream, CloseStream, Reauthenticate, ResolvePollGrants, StreamStep, database,
       ghosts
  <1>2. walk.query # None => DOMAIN walk = WalkFields
    BY DEF IInv, WalkOK, NoWalk
  <1>3. /\ Len(events) \in Nat /\ stream.last \in Nat /\ stream.after \in Nat
        /\ stream.last <= Len(events)
        /\ stream.open => stream.last <= stream.after /\ stream.after <= Len(events)
        /\ DOMAIN walk = WalkFields =>
              /\ walk.from \in Nat /\ walk.from <= Len(events)
              /\ stream.open => walk.from <= stream.after
              /\ walk.pages = <<>> => walk.held = {} /\ walk.cursor = None /\ ~walk.done
    BY EventIds DEF Following, PositionOK
  <1>4. EventsOK'
    BY <1>1, EventsFrame DEF Following
  <1>5. CASE OpenStream
    <2>1. PICK top : top = Max({stream.last, walk.from})
      OBVIOUS
    <2>2. /\ ~stream.open /\ DOMAIN walk = WalkFields /\ walk.pages # <<>>
          /\ stream' = [open |-> TRUE, options |-> viewOptions(walk.mode), poll |-> NoPoll,
                        last |-> top, after |-> top]
      BY <1>2, <1>5, <2>1 DEF OpenStream, StreamStep
    <2>3. /\ stream'.open /\ stream'.last = top /\ stream'.after = top
          /\ stream'.poll.phase = "idle" /\ stream'.options = viewOptions(walk.mode)
          /\ "options" \in DOMAIN stream'
      BY <2>2 DEF NoPoll
    <2>4. top = IF stream.last >= walk.from THEN stream.last ELSE walk.from
      BY <1>3, <2>1, <2>2, OfTwo
    <2>5. top \in Nat /\ top <= Len(events) /\ walk.from <= top
      BY <1>3, <2>2, <2>4
    <2>6. PositionOK'
      BY <1>1, <1>3, <2>2, <2>3, <2>5 DEF PositionOK
    <2>7. StreamFresh'
      BY <1>1, <2>3, AccessFrame DEF StreamFresh
    <2>8. Position = top /\ Position' = top
      BY <2>2, <2>3, <2>4 DEF Position
    <2>9. Agreed'
      BY <1>1, <2>5, <2>8, AgreedBack DEF Following
    <2>10. QED
      BY <1>4, <2>6, <2>7, <2>9 DEF Following
  <1>6. CASE CloseStream \/ Reauthenticate \/ (ResolvePollGrants /\ Unreadable)
    <2>1. /\ stream.open
          /\ stream' = NoStream \/ stream' = [NoStream EXCEPT !.last = stream.last]
      BY <1>6 DEF CloseStream, Reauthenticate, ResolvePollGrants, Streaming, StreamStep
    <2>2. /\ ~stream'.open /\ stream'.after = 0
          /\ stream'.last = 0 \/ stream'.last = stream.last
      BY <2>1 DEF NoStream
    <2>3. PositionOK'
      BY <1>1, <1>3, <2>2 DEF PositionOK
    <2>4. StreamFresh'
      BY <2>2 DEF StreamFresh
    <2>5. ASSUME walk.query # None
          PROVE  Position \in Nat /\ Position' \in Nat /\ Position' <= Position
      <3>1. Position = stream.after
        BY <2>1 DEF Position
      <3>2. Position' = IF stream'.last >= walk.from THEN stream'.last ELSE walk.from
        BY <1>1, <2>2 DEF Position
      <3>3. QED
        BY <1>2, <1>3, <2>1, <2>2, <2>5, <3>1, <3>2
    <2>6. Agreed'
      BY <1>1, <2>5, AgreedBack DEF Following
    <2>7. QED
      BY <1>4, <2>3, <2>4, <2>6 DEF Following
  <1>7. QED
    BY <1>5, <1>6

\* A poll cuts its window and resolves the caller.
LEMMA PollFollowing ==
    ASSUME IInv, Following,
           ScanWindow \/ (ResolvePollGrants /\ ~Unreadable) \/ ResolvePollViewGroups
    PROVE  Following'
  <1>1. /\ UNCHANGED rows /\ UNCHANGED events /\ UNCHANGED prefs /\ UNCHANGED views
        /\ UNCHANGED account /\ walk' = walk /\ steady' = steady /\ calm' = calm
    BY DEF ScanWindow, ResolvePollGrants, ResolvePollViewGroups, StreamStep, database, ghosts
  <1>2. walk.query # None => DOMAIN walk = WalkFields
    BY DEF IInv, WalkOK, NoWalk
  <1>3. EventsOK'
    BY <1>1, EventsFrame DEF Following
  <1>4. stream.open /\ Len(events) \in Nat /\ stream.after \in Nat /\ PollLimit \in Nat \ {0}
    BY EventIds, ListingConstants DEF ScanWindow, ResolvePollGrants, ResolvePollViewGroups,
       Streaming, Following, PositionOK
  <1>5. PICK poll : /\ stream' = [stream EXCEPT !.poll = poll]
                    /\ "through" \in DOMAIN poll /\ poll.through \in Nat
                    /\ stream.after < poll.through /\ poll.through <= Len(events)
                    /\ \/ poll.phase = "window"
                       \/ poll.phase = "grants" /\ poll.grants = Granted
                       \/ /\ poll.phase = "resolved" /\ stream.poll.phase = "grants"
                          /\ poll.principal = Caller(stream.poll.grants, viewGroupMatchers)
    <2>1. CASE ScanWindow
      <3>1. PICK through : through = Min({Len(events), stream.after + PollLimit})
        OBVIOUS
      <3>2. /\ stream' = [stream EXCEPT !.poll =
                  [phase |-> "window", inForce |-> {Granted}, through |-> through]]
            /\ Len(events) > stream.after
        BY <2>1, <3>1 DEF ScanWindow, StreamStep
      <3>3. stream.after + PollLimit \in Nat /\ stream.after + PollLimit > stream.after
        BY <1>4
      <3>4. through = IF Len(events) <= stream.after + PollLimit THEN Len(events)
                      ELSE stream.after + PollLimit
        BY <1>4, <3>1, <3>3, OfTwo
      <3>5. through \in Nat /\ stream.after < through /\ through <= Len(events)
        BY <1>4, <3>2, <3>3, <3>4
      <3>6. PICK poll :
               poll = [phase |-> "window", inForce |-> {Granted}, through |-> through]
        OBVIOUS
      <3>7. "through" \in DOMAIN poll /\ poll.through = through /\ poll.phase = "window"
        BY <3>6
      <3>8. QED
        BY <3>2, <3>5, <3>6, <3>7
    <2>2. CASE ResolvePollGrants /\ ~Unreadable
      <3>1. /\ stream' = [stream EXCEPT !.poll =
                  [phase |-> "grants", inForce |-> stream.poll.inForce,
                   through |-> stream.poll.through, grants |-> Granted]]
            /\ stream.open /\ stream.poll.phase = "window"
        BY <2>2 DEF ResolvePollGrants, StreamStep, Streaming
      <3>2. /\ stream.poll.through \in Nat /\ stream.after < stream.poll.through
            /\ stream.poll.through <= Len(events)
        BY <3>1 DEF Following, PositionOK
      <3>3. PICK poll :
               poll = [phase |-> "grants", inForce |-> stream.poll.inForce,
                       through |-> stream.poll.through, grants |-> Granted]
        OBVIOUS
      <3>4. /\ "through" \in DOMAIN poll /\ poll.through = stream.poll.through
            /\ poll.phase = "grants" /\ poll.grants = Granted
        BY <3>3
      <3>5. QED
        BY <3>1, <3>2, <3>3, <3>4
    <2>3. CASE ResolvePollViewGroups
      <3>1. /\ stream' = [stream EXCEPT !.poll =
                  [phase |-> "resolved", inForce |-> stream.poll.inForce,
                   through |-> stream.poll.through,
                   principal |-> Caller(stream.poll.grants, viewGroupMatchers)]]
            /\ stream.open /\ stream.poll.phase = "grants"
        BY <2>3 DEF ResolvePollViewGroups, StreamStep, Streaming
      <3>2. /\ stream.poll.through \in Nat /\ stream.after < stream.poll.through
            /\ stream.poll.through <= Len(events)
        BY <3>1 DEF Following, PositionOK
      <3>3. PICK poll :
               poll = [phase |-> "resolved", inForce |-> stream.poll.inForce,
                       through |-> stream.poll.through,
                       principal |-> Caller(stream.poll.grants, viewGroupMatchers)]
        OBVIOUS
      <3>4. /\ "through" \in DOMAIN poll /\ poll.through = stream.poll.through
            /\ poll.phase = "resolved"
            /\ poll.principal = Caller(stream.poll.grants, viewGroupMatchers)
        BY <3>3
      <3>5. QED
        BY <3>1, <3>2, <3>3, <3>4
    <2>4. QED
      BY <2>1, <2>2, <2>3
  <1>6. /\ DOMAIN stream' = DOMAIN stream /\ stream'.open = stream.open
        /\ stream'.last = stream.last /\ stream'.after = stream.after /\ stream'.poll = poll
        /\ "options" \in DOMAIN stream => stream'.options = stream.options
    BY <1>5 DEF IInv, PollOK
  <1>7. PositionOK'
    BY <1>1, <1>4, <1>5, <1>6 DEF Following, PositionOK
  <1>8. StreamFresh'
    <2>1. SUFFICES ASSUME calm, walk.query # None
                   PROVE  /\ "options" \in DOMAIN stream'
                          /\ stream'.options = viewOptions(walk.mode)
                          /\ poll.phase = "grants" => poll.grants = Granted
                          /\ poll.phase = "resolved" =>
                                poll.principal = Caller(Granted, viewGroupMatchers)
      BY <1>1, <1>6, AccessFrame DEF StreamFresh
    <2>2. QED
      BY <1>4, <1>5, <1>6, <2>1 DEF Following, StreamFresh
  <1>9. walk.query # None => Position \in Nat /\ Position' \in Nat /\ Position' <= Position
    <2>1. Position' = Position
      BY <1>1, <1>6 DEF Position
    <2>2. QED
      BY <1>2, <2>1, PositionTyped DEF Following
  <1>10. Agreed'
    BY <1>1, <1>9, AgreedBack DEF Following
  <1>11. QED
    BY <1>3, <1>7, <1>8, <1>10 DEF Following

\* What the stream's SQL selects and its Go code redacts, for a caller in
\* view m of whom nothing has changed.
LEMMA SentIsTouched ==
    ASSUME NEW m, stream.poll.principal = Caller(Granted, viewGroupMatchers),
           stream.options = viewOptions(m)
    PROVE  /\ Sent = {e \in (stream.after + 1)..stream.poll.through : Touches(e, m)}
           /\ \A e \in Sent : e \in RedactedSent <=> ~Seen(events[e].labels, m)
  <1>1. \A l : ShownBy(stream.poll.principal, StreamView, l) <=> Seen(l, m)
    BY DEF StreamView, Seen
  <1>2. Sent = {e \in (stream.after + 1)..stream.poll.through : Touches(e, m)}
    BY <1>1 DEF Sent, EventRows, Touches
  <1>3. \A l : Visible(stream.poll.principal, StreamView, l) <=> Seen(l, m)
    BY <1>1, StreamSeesWhatTheListShows DEF Visible, StreamView
  <1>4. QED
    BY <1>2, <1>3 DEF RedactedSent, Redacted, Touches

\* A poll leaves in the client what its events say last.
LEMMA EventsFollowing ==
    ASSUME IInv, Following, StreamEvents
    PROVE  Following'
  <1>1. /\ UNCHANGED rows /\ UNCHANGED events /\ UNCHANGED prefs /\ UNCHANGED views
        /\ UNCHANGED account /\ steady' = steady /\ calm' = calm
        /\ stream.open /\ stream.poll.phase = "resolved"
    BY DEF StreamEvents, StreamStep, Streaming, database, ghosts
  <1>2. walk.query # None => DOMAIN walk = WalkFields
    BY DEF IInv, WalkOK, NoWalk
  <1>3. PICK p, t, sent, last, held :
           /\ p = stream.after /\ t = stream.poll.through /\ sent = Sent
           /\ last = IF sent = {} THEN stream.last ELSE Max(sent)
           /\ held = HeldAfter(Sent, RedactedSent)
    OBVIOUS
  <1>4. /\ p \in Nat /\ t \in Nat /\ p < t /\ t <= Len(events) /\ Len(events) \in Nat
        /\ stream.last \in Nat /\ stream.last <= p
        /\ DOMAIN events = 1..Len(events)
    BY <1>1, <1>3, EventIds DEF Following, PositionOK
  <1>5. sent \in SUBSET (DOMAIN events) /\ \A e \in sent : e \in Nat /\ p < e /\ e <= t
    <2>1. sent \subseteq (p + 1)..t
      BY <1>3 DEF Sent, EventRows
    <2>2. QED
      BY <1>4, <2>1
  <1>6. EventsOK /\ EventsOK'
    BY <1>1, EventsFrame DEF Following
  <1>7. last \in Nat /\ last <= t
    BY <1>3, <1>4, <1>5, <1>6, NewestOf
  <1>8. /\ stream'.open /\ stream'.after = t /\ stream'.last = last
        /\ stream'.poll.phase = "idle" /\ DOMAIN stream' = DOMAIN stream
        /\ "options" \in DOMAIN stream => stream'.options = stream.options
    <2>1. stream' = [stream EXCEPT !.after = t, !.poll = NoPoll, !.last = last]
      BY <1>3 DEF StreamEvents, StreamStep
    <2>2. QED
      BY <1>1, <2>1 DEF IInv, PollOK, NoPoll
  <1>9. walk' = IF walk.query = None THEN walk ELSE [walk EXCEPT !.held = held]
    BY <1>3 DEF StreamEvents
  <1>10. /\ DOMAIN walk' = DOMAIN walk /\ walk'.query = walk.query
         /\ walk.query # None =>
               /\ walk'.mode = walk.mode /\ walk'.cursor = walk.cursor
               /\ walk'.done = walk.done /\ walk'.misplaced = walk.misplaced
               /\ walk'.held = held
    BY <1>2, <1>9 DEF WalkFields
  <1>11. DOMAIN walk = WalkFields => walk'.from = walk.from /\ walk'.pages = walk.pages
    BY <1>2, <1>9 DEF WalkFields
  <1>12. PositionOK'
    <2>1. DOMAIN walk = WalkFields =>
             /\ walk.from \in Nat /\ walk.from <= Len(events) /\ walk.from <= p
             /\ walk.pages # <<>>
      BY <1>1, <1>3 DEF Following, PositionOK
    <2>2. DOMAIN walk' = WalkFields =>
             /\ walk'.from \in Nat /\ walk'.from <= Len(events') /\ walk'.from <= t
             /\ walk'.pages # <<>>
      BY <1>1, <1>4, <1>10, <1>11, <2>1
    <2>3. QED
      BY <1>1, <1>4, <1>7, <1>8, <2>2 DEF PositionOK
  <1>13. StreamFresh'
    <2>1. walk'.query # None => walk.query # None /\ walk'.mode = walk.mode
      BY <1>10
    <2>2. QED
      BY <1>1, <1>8, <2>1, AccessFrame DEF Following, StreamFresh
  <1>14. Agreed'
    <2>1. Position' = t /\ Position = p
      BY <1>1, <1>3, <1>8 DEF Position
    <2>2. PICK q, m : q = walk.query /\ m = walk.mode
      OBVIOUS
    <2>3. SUFFICES ASSUME calm, q # None, q.groupBy = None, q.matches = {}, ~walk.misplaced
                   PROVE  /\ \A a \in held : HeldOK(a, t, m)'
                          /\ \A a \in DOMAIN rows' :
                                /\ Quiet(a, t)' /\ Seen(rows[a].labels, m)'
                                /\ Covered(a, q)' /\ Concerned(a, q)'
                                => a \in held
      BY <1>1, <1>10, <2>1, <2>2 DEF Agreed
    <2>4. /\ \A a \in walk.held : HeldOK(a, p, m)
          /\ \A a \in DOMAIN rows :
                Quiet(a, p) /\ Seen(rows[a].labels, m) /\ Covered(a, q) /\ Concerned(a, q)
                    => a \in walk.held
      BY <2>1, <2>2, <2>3 DEF Following, Agreed
    <2>5. /\ stream.poll.principal = Caller(Granted, viewGroupMatchers)
          /\ stream.options = viewOptions(m)
      BY <1>1, <2>2, <2>3 DEF Following, StreamFresh
    <2>6. /\ \A e \in DOMAIN events : e \in sent <=> p < e /\ e <= t /\ Touches(e, m)
          /\ \A e \in sent : e \in RedactedSent <=> ~Seen(events[e].labels, m)
      <3>1. sent = {e \in (p + 1)..t : Touches(e, m)}
        BY <1>3, <2>5, SentIsTouched
      <3>2. \A e \in DOMAIN events : e \in (p + 1)..t <=> p < e /\ e <= t
        BY <1>4
      <3>3. QED
        BY <1>3, <2>5, <3>1, <3>2, SentIsTouched
    <2>7. \A a : a \in held <=>
             /\ a \in walk.held \/ \E e \in sent : events[e].alert = a
             /\ (\E e \in sent : events[e].alert = a) =>
                   Max({e \in sent : events[e].alert = a}) \notin RedactedSent
      BY <1>3 DEF HeldAfter
    <2>8. ASSUME NEW a, NEW d \in sent, events[d].alert = a
          PROVE  \E w \in sent : /\ w = Max({e \in sent : events[e].alert = a})
                                 /\ events[w].alert = a
                                 /\ \A e \in sent : events[e].alert = a => e <= w
      <3>1. PICK S : S = {e \in sent : events[e].alert = a}
        OBVIOUS
      <3>2. S \in SUBSET (DOMAIN events) /\ S # {}
        BY <1>5, <2>8, <3>1
      <3>3. Max(S) \in S /\ \A e \in S : e <= Max(S)
        BY <1>6, <3>2, NewestOf
      <3>4. QED
        BY <3>1, <3>3
    <2>9. ASSUME NEW a \in held
          PROVE  HeldOK(a, t, m)
      <3>1. CASE \E e \in sent : events[e].alert = a
        <4>1. PICK w \in sent : /\ w = Max({e \in sent : events[e].alert = a})
                                /\ events[w].alert = a
                                /\ \A e \in sent : events[e].alert = a => e <= w
          BY <2>8, <3>1
        <4>2. w \in DOMAIN events /\ w \in Nat /\ p < w /\ w <= t /\ events[w].alert = a
          BY <1>5, <4>1
        <4>3. Seen(events[w].labels, m)
          BY <2>6, <2>7, <2>9, <3>1, <4>1
        <4>4. CASE Quiet(a, w)
          <5>1. PICK f \in DOMAIN events : f >= w /\ events[f].alert = a
                                           /\ events[f].labels = rows[a].labels
            BY <1>6, <4>2, EventsAfter
          <5>2. f <= w /\ f \in Nat
            BY <1>4, <4>4, <5>1 DEF Quiet
          <5>3. f = w
            BY <4>2, <5>1, <5>2
          <5>4. a \in DOMAIN rows
            BY <1>6, <4>2, EventsAfter
          <5>5. Quiet(a, t)
            BY <1>6, <4>2, <1>4, <4>4, HeldBack
          <5>6. QED
            BY <4>3, <5>1, <5>3, <5>4, <5>5 DEF HeldOK
        <4>5. CASE ~Quiet(a, w)
          <5>1. PICK f \in DOMAIN events : /\ f > w /\ events[f].alert = a
                                           /\ events[f].previous = events[w].labels
            BY <1>6, <4>2, <4>5, EventsAfter
          <5>2. events[w].labels # None
            BY <1>6, <4>2, EventIds, ListingConstants
          <5>3. Touches(f, m)
            BY <4>3, <5>1, <5>2 DEF Touches
          <5>4. f \in Nat
            BY <1>4
          <5>5. ~(f <= w) /\ p < f
            BY <1>4, <4>2, <5>1, <5>4
          <5>6. f > t
            <6>1. f \notin sent
              BY <4>1, <5>1, <5>5
            <6>2. ~(f <= t)
              BY <2>6, <5>3, <5>5, <6>1
            <6>3. QED
              BY <1>4, <5>4, <6>2
          <5>7. QED
            BY <5>1, <5>3, <5>6 DEF HeldOK
        <4>6. QED
          BY <4>4, <4>5
      <3>2. CASE ~\E e \in sent : events[e].alert = a
        <4>1. HeldOK(a, p, m)
          BY <2>4, <2>7, <2>9, <3>2
        <4>2. CASE a \in DOMAIN rows /\ Quiet(a, p) /\ Seen(rows[a].labels, m)
          <5>1. p <= t
            BY <1>4
          <5>2. Quiet(a, t)
            BY <1>4, <1>6, <4>2, <5>1, HeldBack
          <5>3. QED
            BY <4>2, <5>2 DEF HeldOK
        <4>3. CASE \E e \in DOMAIN events : e > p /\ events[e].alert = a /\ Touches(e, m)
          <5>1. PICK e \in DOMAIN events : e > p /\ events[e].alert = a /\ Touches(e, m)
            BY <4>3
          <5>2. e \in Nat /\ ~(e <= t)
            BY <1>4, <2>6, <3>2, <5>1
          <5>3. e > t
            BY <1>4, <5>2
          <5>4. QED
            BY <5>1, <5>3 DEF HeldOK
        <4>4. QED
          BY <4>1, <4>2, <4>3 DEF HeldOK
      <3>3. QED
        BY <3>1, <3>2
    <2>10. ASSUME NEW a \in DOMAIN rows, Quiet(a, t), Seen(rows[a].labels, m),
                  Covered(a, q), Concerned(a, q)
           PROVE  a \in held
      <3>1. CASE Quiet(a, p)
        <4>1. a \in walk.held
          BY <2>4, <2>10, <3>1
        <4>2. ~\E e \in sent : events[e].alert = a
          BY <1>4, <1>5, <3>1 DEF Quiet
        <4>3. QED
          BY <2>7, <4>1, <4>2
      <3>2. CASE ~Quiet(a, p)
        <4>1. PICK d \in DOMAIN events : events[d].alert = a /\ ~(d <= p)
          BY <3>2 DEF Quiet
        <4>2. PICK f \in DOMAIN events :
                 /\ f >= d /\ events[f].alert = a /\ Quiet(a, f)
                 /\ events[f].labels = rows[a].labels
          BY <1>6, <4>1, EventsAfter
        <4>3. f \in Nat /\ p < f /\ f <= t
          <5>1. d \in Nat /\ f \in Nat /\ f <= t
            BY <1>4, <2>10, <4>2 DEF Quiet
          <5>2. QED
            BY <1>4, <4>1, <4>2, <5>1
        <4>4. f \in sent
          BY <2>6, <2>10, <4>2, <4>3 DEF Touches
        <4>5. PICK w \in sent : /\ w = Max({e \in sent : events[e].alert = a})
                                /\ events[w].alert = a
                                /\ \A e \in sent : events[e].alert = a => e <= w
          BY <2>8, <4>2, <4>4
        <4>6. w = f
          <5>1. w \in DOMAIN events /\ w \in Nat /\ f <= w
            BY <1>5, <4>2, <4>4, <4>5
          <5>2. w <= f
            BY <4>2, <4>5, <5>1 DEF Quiet
          <5>3. QED
            BY <4>3, <5>1, <5>2
        <4>7. f \notin RedactedSent
          BY <2>6, <2>10, <4>2, <4>4
        <4>8. QED
          BY <2>7, <4>2, <4>4, <4>5, <4>6, <4>7
      <3>3. QED
        BY <3>1, <3>2
    <2>11. \A a : Concerned(a, q)' <=> Concerned(a, q)
      BY <1>1 DEF Concerned
    <2>12. \A a : Seen(rows[a].labels, m)' <=> Seen(rows[a].labels, m)
      <3>1. \A l : Seen(l, m)' <=> Seen(l, m)
        BY <1>1, SeenFrame
      <3>2. QED
        BY <1>1, <3>1
    <2>13. \A a : Covered(a, q)' <=> Covered(a, q)
      BY <1>1, <1>10, <2>2, <2>3 DEF Covered
    <2>14. QED
      BY <1>1, <2>9, <2>10, <2>11, <2>12, <2>13, HeldFrame
  <1>15. QED
    BY <1>6, <1>12, <1>13, <1>14 DEF Following

\* Every step keeps the client in step.
LEMMA FollowingNext ==
    ASSUME IInv, Paging, Following, [Next]_vars
    PROVE  Following'
  <1>1. CASE \E a \in 1..MaxAlert, labels \in LabelSets : Deliver(a, labels)
    BY <1>1, DeliverFollowing
  <1>2. CASE \/ AccountStep \/ ViewGroupStep \/ WriteBack
             \/ \E view \in SavedViews : SaveView(view)
    BY <1>2, AccountChanges, AccessFollowing DEF WriteBack, SaveView
  <1>3. CASE \/ ReadForSave \/ RefuseCaller \/ UNCHANGED vars
    <2>1. /\ UNCHANGED rows /\ UNCHANGED prefs /\ UNCHANGED views /\ UNCHANGED account
          /\ UNCHANGED events /\ UNCHANGED walk /\ UNCHANGED steady /\ UNCHANGED calm
          /\ UNCHANGED stream
      BY <1>3 DEF ReadForSave, RefuseCaller, vars, database, ghosts
    <2>2. QED
      BY <2>1, FollowingFrame
  <1>4. CASE \E q \in Queries, mode \in Modes, first \in BOOLEAN : Authenticate(q, mode, first)
    BY <1>4, AuthenticateFollowing
  <1>5. CASE \/ ResolveViewGroups \/ ParseQuery \/ readStreamCursor
             \/ readSeverityCounts \/ summarizeView
    BY <1>5, ResolveFollowing
  <1>6. CASE ReadPage
    BY <1>6, PageFollowing
  <1>7. CASE \/ OpenStream \/ CloseStream \/ Reauthenticate \/ ScanWindow
             \/ ResolvePollGrants \/ ResolvePollViewGroups \/ StreamEvents
    BY <1>7, OpenFollowing, PollFollowing, EventsFollowing
  <1>8. QED
    BY <1>1, <1>2, <1>3, <1>4, <1>5, <1>6, <1>7 DEF Next, AccountStep, ViewGroupStep

\* The client's position and what it holds fit the events, the list and each
\* other.
THEOREM FollowingHolds == Spec => []Following
  <1>1. IInv /\ Paging /\ Following /\ [Next]_vars => Following'
    BY FollowingNext
  <1>2. QED
    BY <1>1, FollowingInit, Invariance, PagingHolds, PTL DEF Spec

\* While neither access nor view changes, a client that has followed the
\* stream from the position of its first page (StreamEvents) holds nothing its
\* list would not show and, with every page loaded, everything it would.
THEOREM StreamAgrees == Spec => []StreamAgreesWithList
  <1>1. IInv /\ Following => StreamAgreesWithList
    <2> SUFFICES ASSUME IInv, Following, calm, walk.query # None, walk.query.groupBy = None,
                        walk.query.matches = {}, ~walk.misplaced, stream.open,
                        stream.after = Len(events),
                        NEW q \in {walk.query}, NEW m \in {walk.mode}
                 PROVE  /\ walk.held \subseteq DOMAIN Current(q, m)
                        /\ walk.done => \A a \in DOMAIN Current(q, m) :
                              q.sort # "lastSeen" \/ a \in steady => a \in walk.held
      BY DEF StreamAgreesWithList
    <2>1. PICK p : p = Position
      OBVIOUS
    <2>2. p = Len(events)
      BY <2>1 DEF Position
    <2>3. q.groupBy = None /\ q.matches = {}
      OBVIOUS
    <2>4. DOMAIN Current(q, m) = {a \in DOMAIN rows : Seen(rows[a].labels, m)}
      BY <2>3, FlatCurrent, Zenon
    <2>5. \A e \in DOMAIN events : e \in Nat /\ e <= p /\ ~(e > p)
      BY <2>2, EventIds DEF Following
    <2>6. \A a : Quiet(a, p)
      BY <2>5 DEF Quiet
    <2>7. \A a \in walk.held : HeldOK(a, p, m)
      BY <2>1 DEF Following, Agreed
    <2>8. \A a \in DOMAIN rows :
             Quiet(a, p) /\ Seen(rows[a].labels, m) /\ Covered(a, q) /\ Concerned(a, q)
                 => a \in walk.held
      BY <2>1 DEF Following, Agreed
    <2>9. walk.held \subseteq DOMAIN Current(q, m)
      BY <2>4, <2>5, <2>7 DEF HeldOK
    <2>10. QED
      BY <2>4, <2>6, <2>8, <2>9 DEF Covered, Concerned
  <1>2. QED
    BY <1>1, Invariance, FollowingHolds, PTL
=============================================================================
