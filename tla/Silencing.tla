----------------------------- MODULE Silencing -----------------------------
(***************************************************************************)
(* Silencing a group or an alert on its Alertmanagers: the dialog that     *)
(* previews and confirms (SilenceDialog.tsx), the handlers that resolve    *)
(* what a silence matches and write it target by target                    *)
(* (httpapi/silence.go, postgres/silence.go).  What is stored of a silence *)
(* once it exists, and its removal, is SilenceInventory's.                 *)
(*                                                                         *)
(* A label set is a set of <<name, value>> pairs.  "" is the value of a    *)
(* label an alert does not carry, for the store and for an Alertmanager.   *)
(***************************************************************************)
EXTENDS Integers

CONSTANTS
    Sources,       \* source slugs
    Reachable,     \* the sources with an alertmanager_url
    Alerts,
    SourceOf,      \* the source of each alert
    LabelsOf,      \* the labels of each alert
    Groups,        \* grouping keys: labels, and the sources `source' leaves
    Grants,        \* the operator's grants, each a set of matchers
    Finds,         \* <<pattern, value>>: the pattern is found in the value
    Durations,     \* durationSeconds a request may carry
    Second,        \* time.Second in units of the window (10^9)
    Width,         \* bits of a time.Duration (64)
    SilenceDefaultDuration,
    SilenceMaxDuration,
    MaxChanges     \* bound: changes of the alerts stored as firing

ASSUME SilencingConstants ==
    /\ Reachable \subseteq Sources
    /\ SourceOf \in [Alerts -> Sources]
    /\ \A a \in Alerts : \A p \in LabelsOf[a] : p = <<p[1], p[2]>> /\ p[2] # ""
    /\ \A g \in Groups : g.sources \subseteq Sources
    /\ MaxChanges \in Nat

ASSUME WindowConstants ==
    /\ Durations \subseteq Int
    /\ Second \in Nat \ {0}
    /\ Width \in Nat \ {0}
    /\ SilenceDefaultDuration \in 1..SilenceMaxDuration
    /\ SilenceMaxDuration \in 1..(2 ^ (Width - 1) - 1)

VARIABLES
    firing,     \* the alerts stored as firing
    dialog,     \* the silence dialog
    job,        \* createSilences, under way or the latest, and what it wrote
    changes

vars == <<firing, dialog, job, changes>>

None == "none"
NoTargets == [s \in {} |-> {}]
NoScope == [labels |-> {}, targets |-> NoTargets, members |-> {}]

-----------------------------------------------------------------------------
(***************************************************************************)
(* What a silence matches.                                                 *)
(***************************************************************************)
Carries(a, p) ==
    p \in LabelsOf[a] \/ (p[2] = "" /\ \A q \in LabelsOf[a] : q[1] # p[1])

\* How the store selects a group and an Alertmanager applies matchers.
Matches(labels, a) == \A p \in labels : Carries(a, p)

\* One matcher of a grant on one label: labels ? name AND labels->>name op value.
Meets(p, matcher) ==
    /\ p[1] = matcher.name
    /\ \/ matcher.operator = "="  /\ p[2] = matcher.value
       \/ matcher.operator = "!=" /\ p[2] # matcher.value
       \/ matcher.operator = "=~" /\ <<matcher.value, p[2]>> \in Finds
       \/ matcher.operator = "!~" /\ <<matcher.value, p[2]>> \notin Finds

Admits(grant, labels) == \A matcher \in grant : \E p \in labels : Meets(p, matcher)

\* operateAccessCondition.  A grant without matchers, as an administrator's,
\* admits everything.
InScope(a) == \E grant \in Grants : Admits(grant, LabelsOf[a])

\* Mutant: a label counts as common when any member carries it.
Folded_AnyMember(members) == UNION {LabelsOf[a] : a \in members}

\* The labels every member carries with one value (the `common' CTE).
Folded(members) ==
    {p \in UNION {LabelsOf[a] : a \in members} : \A a \in members : p \in LabelsOf[a]}

\* Mutant: the group is not narrowed to the operator's grants.
GroupMembers_AllTeams(g) ==
    {a \in firing : SourceOf[a] \in g.sources /\ Matches(g.labels, a)}

GroupMembers(g) ==
    {a \in firing : SourceOf[a] \in g.sources /\ Matches(g.labels, a) /\ InScope(a)}

\* The match for one source: what its members share, and always the key.
TargetLabels(g, members, s) ==
    Folded({a \in members : SourceOf[a] = s}) \cup g.labels

\* CommonLabels
CommonLabels(targets) ==
    {p \in UNION {targets[s] : s \in DOMAIN targets} :
        \A s \in DOMAIN targets : p \in targets[s]}

\* A source without an Alertmanager is skipped.
Reached(members) == {a \in members : SourceOf[a] \in Reachable}

\* SilenceScopeForGroup.  No targets stands for every error it returns: a key
\* of sources only, no member in scope, no member with an Alertmanager.
SilenceScopeForGroup(g) ==
    LET members == IF g.labels = {} THEN {} ELSE GroupMembers(g)
        reached == Reached(members)
        targets == [s \in {SourceOf[a] : a \in reached} |-> TargetLabels(g, members, s)]
    IN  [labels |-> CommonLabels(targets), targets |-> targets, members |-> reached]

\* SilenceScopeForAlert: the alert's own labels, firing or not.
SilenceScopeForAlert(a) ==
    IF InScope(a) /\ SourceOf[a] \in Reachable /\ LabelsOf[a] # {}
    THEN [labels |-> LabelsOf[a], targets |-> [s \in {SourceOf[a]} |-> LabelsOf[a]],
          members |-> {a}]
    ELSE NoScope

Resolved(scope) == DOMAIN scope.targets # {}

\* A product of two int64 in two's complement: below HalfRange (2^63), modulo
\* twice that.
HalfRange == 2 ^ (Width - 1)

Wrapped(x) ==
    LET r == x % (2 * HalfRange) IN IF r < HalfRange THEN r ELSE r - 2 * HalfRange

\* No window is this long.
Refused == 2 * HalfRange

\* Mutant: the ceiling is not applied.
silenceWindow_NoMaximum(d) ==
    IF d = 0 THEN SilenceDefaultDuration ELSE IF d < 0 THEN Refused ELSE Wrapped(d * Second)

\* The window in units, or Refused.  A product that wraps below zero is no
\* longer above the maximum: validateSilence refuses it later.
silenceWindow(d) ==
    IF d = 0 THEN SilenceDefaultDuration
    ELSE IF d < 0 \/ Wrapped(d * Second) > SilenceMaxDuration THEN Refused
    ELSE Wrapped(d * Second)

\* validateSilence: at least one matcher, and an end after the start.
validateSilence(labels, window) == labels # {} /\ window > 0

-----------------------------------------------------------------------------
ClosedDialog == [phase |-> "closed", group |-> None, preview |-> NoScope, outcome |-> None]
\* read: the scope the operator had on screen.  accepted: the targets whose
\* silence has an id.  written: every silence the Alertmanagers hold by now.
NoJob == [phase |-> "idle", scope |-> NoScope, read |-> NoScope, confirmed |-> FALSE,
          window |-> 0, todo |-> {}, accepted |-> {}, written |-> {}]

Init ==
    /\ firing \in SUBSET Alerts
    /\ dialog = ClosedDialog
    /\ job = NoJob
    /\ changes = 0

\* Ingest, expiry or reconciliation moves an alert in or out of firing.
MembershipChanges(a) ==
    /\ changes < MaxChanges
    /\ changes' = changes + 1
    /\ firing' = IF a \in firing THEN firing \ {a} ELSE firing \cup {a}
    /\ UNCHANGED <<dialog, job>>

-----------------------------------------------------------------------------
(***************************************************************************)
(* The dialog.                                                             *)
(***************************************************************************)
\* Opening the dialog on a group shows its key and asks for the preview.
OpenDialog(g) ==
    /\ dialog.phase = "closed"
    /\ dialog' = [ClosedDialog EXCEPT !.phase = "resolving", !.group = g]
    /\ UNCHANGED <<firing, job, changes>>

\* previewGroupSilence answers, and the dialog shows it.
Preview ==
    /\ dialog.phase = "resolving"
    /\ LET scope == SilenceScopeForGroup(dialog.group)
       IN  dialog' = [dialog EXCEPT !.phase = "open",
                                    !.preview = IF Resolved(scope) THEN scope ELSE @]
    /\ UNCHANGED <<firing, job, changes>>

\* The preview fails: the dialog keeps what it showed, and can be confirmed.
PreviewFails ==
    /\ dialog.phase = "resolving"
    /\ dialog' = [dialog EXCEPT !.phase = "open"]
    /\ UNCHANGED <<firing, job, changes>>

\* Cancel, Escape or the backdrop, at any time.
CloseDialog ==
    /\ dialog.phase # "closed"
    /\ dialog' = ClosedDialog
    /\ UNCHANGED <<firing, job, changes>>

\* Mutant: the match read is not compared with the one resolved.
Conflicts_Never(scope) == FALSE

\* sameLabels(expectedMatchers, scope.Labels), when a preview was read.
Conflicts(scope) == Resolved(dialog.preview) /\ dialog.preview.labels # scope.labels

\* What the dialog has on screen: the preview, or the key alone.
OnScreen == IF Resolved(dialog.preview) THEN dialog.preview
            ELSE [NoScope EXCEPT !.labels = dialog.group.labels]

Begin(scope, read, confirmed, window) ==
    job' = [phase |-> "creating", scope |-> scope, read |-> read, confirmed |-> confirmed,
            window |-> window, todo |-> DOMAIN scope.targets, accepted |-> {}, written |-> {}]

\* handleConfirm and silenceGroup: the group is resolved again; a conflict, and
\* members without an Alertmanager (409 both), make the dialog ask for a new
\* preview, any other refusal leaves it open.
silenceGroup(d) ==
    /\ dialog.phase = "open" /\ job.phase = "idle"
    /\ LET scope == SilenceScopeForGroup(dialog.group)
       IN  \/ /\ Resolved(scope) /\ ~Conflicts(scope) /\ silenceWindow(d) # Refused
              /\ dialog' = [dialog EXCEPT !.phase = "pending"]
              /\ Begin(scope, OnScreen, TRUE, silenceWindow(d))
           \/ /\ IF Resolved(scope) THEN Conflicts(scope)
                 ELSE dialog.group.labels # {} /\ GroupMembers(dialog.group) # {}
              /\ dialog' = [dialog EXCEPT !.phase = "resolving"]
              /\ UNCHANGED job
    /\ UNCHANGED <<firing, changes>>

\* silenceAlert: one alert, its full label set, nothing to preview.
silenceAlert(a, d) ==
    /\ job.phase = "idle"
    /\ LET scope == SilenceScopeForAlert(a)
       IN  /\ Resolved(scope)
           /\ silenceWindow(d) # Refused
           /\ Begin(scope, scope, FALSE, silenceWindow(d))
    /\ UNCHANGED <<firing, dialog, changes>>

-----------------------------------------------------------------------------
(***************************************************************************)
(* createSilences: the loop over the targets.                              *)
(***************************************************************************)
NewSilence(s) == [source |-> s, labels |-> job.scope.targets[s], window |-> job.window]

\* The Alertmanager creates the silence, and the client learns its id or the
\* answer is lost and counts as a failure.  Whether the silence can be recorded
\* changes nothing here.
CreateSilence(s, answered) ==
    /\ job.phase = "creating" /\ s \in job.todo
    /\ validateSilence(job.scope.targets[s], job.window)
    /\ job' = [job EXCEPT !.todo = @ \ {s}, !.written = @ \cup {NewSilence(s)},
                          !.accepted = IF answered THEN @ \cup {s} ELSE @]
    /\ UNCHANGED <<firing, dialog, changes>>

\* Refused, or unreachable: the loop goes on with the next target.
CreateFails(s) ==
    /\ job.phase = "creating" /\ s \in job.todo
    /\ job' = [job EXCEPT !.todo = @ \ {s}]
    /\ UNCHANGED <<firing, dialog, changes>>

\* 201, 207 or 502.
Outcome ==
    IF job.accepted = {} THEN "failed"
    ELSE IF job.accepted # DOMAIN job.scope.targets THEN "partial"
    ELSE "created"

\* The response: 502 reopens the dialog, anything else shows the results.  A
\* dialog closed meanwhile does not see it.
Respond ==
    /\ job.phase = "creating" /\ job.todo = {}
    /\ job' = [job EXCEPT !.phase = "idle"]
    /\ dialog' = IF dialog.phase # "pending" THEN dialog
                 ELSE [dialog EXCEPT !.phase = IF Outcome = "failed" THEN "open" ELSE "done",
                                     !.outcome = Outcome]
    /\ UNCHANGED <<firing, changes>>

-----------------------------------------------------------------------------
Next ==
    \/ \E a \in Alerts : MembershipChanges(a)
    \/ \E g \in Groups : OpenDialog(g)
    \/ Preview \/ PreviewFails \/ CloseDialog
    \/ \E d \in Durations : silenceGroup(d) \/ \E a \in Alerts : silenceAlert(a, d)
    \/ \E s \in Sources : CreateFails(s) \/ \E answered \in BOOLEAN : CreateSilence(s, answered)
    \/ Respond

Spec == Init /\ [][Next]_vars

-----------------------------------------------------------------------------
(***************************************************************************)
(* Properties.                                                             *)
(***************************************************************************)
Label == (UNION {LabelsOf[a] : a \in Alerts}) \cup (UNION {g.labels : g \in Groups})

IsScope(scope) ==
    /\ scope.labels \subseteq Label
    /\ DOMAIN scope.targets \subseteq Reachable
    /\ \A s \in DOMAIN scope.targets : scope.targets[s] \subseteq Label
    /\ scope.members \subseteq Alerts

\* Dialog and job have their types; only sources with an Alertmanager are
\* written to.
TypeOK ==
    /\ firing \subseteq Alerts
    /\ dialog.phase \in {"closed", "resolving", "open", "pending", "done"}
    /\ IsScope(dialog.preview)
    /\ dialog.outcome \in {None, "created", "partial", "failed"}
    /\ job.phase \in {"idle", "creating"}
    /\ IsScope(job.scope) /\ IsScope(job.read)
    /\ job.todo \subseteq DOMAIN job.scope.targets
    /\ job.accepted \subseteq DOMAIN job.scope.targets
    /\ changes \in 0..MaxChanges

\* The match the operator read for one Alertmanager, when it was one of the
\* targets previewed.
ReadAt(s) == IF s \in DOMAIN job.read.targets THEN job.read.targets[s] ELSE {}

\* httpapi/silence.go: "a member joining between the preview and the confirm
\* would silence more than the operator read.  Sending back what was read turns
\* that race into a 409 instead of a surprise."  The code does not keep this at
\* every target: it compares what the targets have in common.  A silence always
\* matches on the labels shown as common; but it is written without one that
\* was read for its own target when a member that joined there does not carry
\* it and another target's match never had it.  Nothing else broadens a silence
\* (sameLabels, CommonLabels).
BroadeningNeedsARace ==
    \A silence \in job.written :
        /\ job.read.labels \subseteq silence.labels
        /\ \A p \in ReadAt(silence.source) \ silence.labels :
              /\ \E a \in job.scope.members \ job.read.members :
                    SourceOf[a] = silence.source /\ p \notin LabelsOf[a]
              /\ \E other \in DOMAIN job.read.targets : p \notin job.read.targets[other]

\* "An operator told `done' while half the group still fires is worse off": a
\* confirmation reported as created covers every member the server resolved
\* that has an Alertmanager, each at its own.
DoneMeansCovered ==
    dialog.phase = "done" /\ dialog.outcome = "created" /\ job.confirmed =>
        \A a \in job.scope.members : \E silence \in job.written :
            silence.source = SourceOf[a] /\ Matches(silence.labels, a)

\* What the operator's own members at one source have in common.
SharedAt(s) == Folded({m \in job.scope.members : SourceOf[m] = s /\ InScope(m)})

\* httpapi/silence.go: "an operator scoped to one team cannot silence another
\* team's alerts by naming a group that spans both".  The code keeps this while
\* the values that put the members in scope are shared by them: a silence
\* matches an alert outside the operator's scope only when no grant admits what
\* the operator's own members at that source have in common.  A grant with =~,
\* != or !~, or several grants, can be met by members whose values differ; the
\* label is then folded out and the silence reaches past the scope
\* (operateAccessCondition, the `common' CTE).
BeyondScopeOnlyByFolding ==
    \A silence \in job.written, a \in Alerts :
        SourceOf[a] = silence.source /\ Matches(silence.labels, a) /\ ~InScope(a) =>
            \A grant \in Grants : ~Admits(grant, SharedAt(silence.source))

\* "It always ends.  The window is bounded by configuration": also when the
\* conversion of the seconds asked for wraps around.
EverySilenceEnds ==
    \A silence \in job.written : silence.window \in 1..SilenceMaxDuration
=============================================================================
