-------------------------- MODULE SilencingProofs --------------------------
(***************************************************************************)
(* Proofs about Silencing, for any alerts, labels, groups, grants, sources *)
(* and durations.  What a silence may match is a property of the scope the *)
(* server resolved, which is a lemma about the two resolvers: GroupShape   *)
(* says what a group's match is, for the preview and for the confirmation, *)
(* and the difference of the two is RaceOnly; ScopedOK is what the grants  *)
(* leave.  The invariant carries them from the confirmation to what is     *)
(* written, and ties the dialog to the job it is waiting for.  At the end, *)
(* the stored inventory of silences (SilenceInventory).                    *)
(***************************************************************************)
EXTENDS Silencing, TLAPS

\* What a group is resolved to: a target matches on the key, and beyond it on
\* exactly what all of its members carry.
GroupShape(scope, g) ==
    /\ scope.labels = CommonLabels(scope.targets)
    /\ \A s \in DOMAIN scope.targets :
          /\ g.labels \subseteq scope.targets[s]
          /\ \A p \in scope.targets[s] \ g.labels, a \in scope.members :
                SourceOf[a] = s => p \in LabelsOf[a]
          /\ \A p \in Label \ scope.targets[s] :
                \E a \in scope.members : SourceOf[a] = s /\ p \notin LabelsOf[a]

\* A target loses a label that was read for it only to a member that joined,
\* and only a label another target's match never had.
RaceOnly(scope, read) ==
    \A s \in DOMAIN scope.targets :
        /\ read.labels \subseteq scope.targets[s]
        /\ s \in DOMAIN read.targets =>
              \A p \in read.targets[s] \ scope.targets[s] :
                  /\ \E a \in scope.members \ read.members :
                        SourceOf[a] = s /\ p \notin LabelsOf[a]
                  /\ \E other \in DOMAIN read.targets : p \notin read.targets[other]

\* Members are in scope, every target has some, and matches on what they share.
ScopedOK(scope) ==
    /\ \A a \in scope.members : InScope(a) /\ a \in Alerts
    /\ \A s \in DOMAIN scope.targets :
          /\ \E a \in scope.members : SourceOf[a] = s
          /\ Folded({a \in scope.members : SourceOf[a] = s}) \subseteq scope.targets[s]

\* Every member is matched at its own source.
MembersOK(scope) ==
    \A a \in scope.members :
        SourceOf[a] \in DOMAIN scope.targets /\ Matches(scope.targets[SourceOf[a]], a)

\* The fields of dialog and job.
Fields ==
    /\ dialog = [phase |-> dialog.phase, group |-> dialog.group,
                 preview |-> dialog.preview, outcome |-> dialog.outcome]
    /\ job = [phase |-> job.phase, scope |-> job.scope, read |-> job.read,
              confirmed |-> job.confirmed, window |-> job.window, todo |-> job.todo,
              accepted |-> job.accepted, written |-> job.written]
    /\ dialog.phase # "closed" => dialog.group \in Groups

\* What the job was given, and that it wrote nothing else.
JobOK ==
    /\ RaceOnly(job.scope, job.read)
    /\ ScopedOK(job.scope)
    /\ MembersOK(job.scope)
    /\ job.window \in Int /\ job.window <= SilenceMaxDuration
    /\ \A silence \in job.written :
          /\ silence.source \in DOMAIN job.scope.targets
          /\ silence.labels = job.scope.targets[silence.source]
          /\ silence.window = job.window /\ job.window > 0
    /\ \A s \in job.accepted : NewSilence(s) \in job.written

\* A preview on screen is what its group was resolved to at some time.
PreviewOK == Resolved(dialog.preview) => GroupShape(dialog.preview, dialog.group)

\* A dialog that waits, waits for the job under way; one that reports
\* `created' reports the latest job, unless an alert's silence came after it.
DialogOK ==
    /\ dialog.phase = "pending" => job.phase = "creating" /\ job.confirmed
    /\ dialog.phase = "done" => job.phase = "idle" \/ ~job.confirmed
    /\ dialog.phase = "done" /\ dialog.outcome = "created" /\ job.confirmed =>
          job.accepted = DOMAIN job.scope.targets

IInv == TypeOK /\ Fields /\ JobOK /\ DialogOK /\ PreviewOK

-----------------------------------------------------------------------------
(***************************************************************************)
(* Operators.                                                              *)
(***************************************************************************)

\* A window that is not refused is within the configured maximum, also when
\* the product wrapped.
LEMMA WindowBounded ==
    ASSUME NEW d \in Int, silenceWindow(d) # Refused
    PROVE  silenceWindow(d) \in Int /\ silenceWindow(d) <= SilenceMaxDuration
  <1>1. /\ Width - 1 \in Nat
        /\ SilenceMaxDuration \in 1..(2 ^ (Width - 1) - 1)
        /\ SilenceDefaultDuration \in 1..SilenceMaxDuration
        /\ Second \in Int
    BY WindowConstants
  <1>2. 2 ^ (Width - 1) \in Int
    BY <1>1
  <1>3. HalfRange \in Int /\ HalfRange > 0
    BY <1>1, <1>2 DEF HalfRange
  <1>4. d * Second \in Int
    BY <1>1
  <1>5. \A x \in Int : x % (2 * HalfRange) \in Int
    BY <1>3
  <1>6. Wrapped(d * Second) \in Int
    BY <1>3, <1>4, <1>5 DEF Wrapped
  <1>7. QED
    BY <1>1, <1>6 DEF silenceWindow

\* Labels of alerts are not empty, so an alert that carries a match with all
\* that a set of alerts shares is admitted by every grant that admits that.
LEMMA SharedGrant ==
    ASSUME NEW members \in SUBSET Alerts, NEW labels, Folded(members) \subseteq labels,
           NEW grant \in Grants, Admits(grant, Folded(members)),
           NEW b \in Alerts, Matches(labels, b)
    PROVE  InScope(b)
  <1>1. \A p \in Folded(members) : p[2] # ""
    BY SilencingConstants DEF Folded
  <1>2. Folded(members) \subseteq LabelsOf[b]
    BY <1>1 DEF Matches, Carries
  <1>3. Admits(grant, LabelsOf[b])
    BY <1>2 DEF Admits
  <1>4. QED
    BY <1>3 DEF InScope

\* Two resolutions of one group with the same common labels differ at a target
\* only by members that joined it.
LEMMA TwoResolutions ==
    ASSUME NEW g, NEW scope, NEW read, GroupShape(scope, g), GroupShape(read, g),
           IsScope(read), read.labels = scope.labels
    PROVE  RaceOnly(scope, read)
  <1> SUFFICES ASSUME NEW s \in DOMAIN scope.targets
               PROVE  /\ read.labels \subseteq scope.targets[s]
                      /\ s \in DOMAIN read.targets =>
                            \A p \in read.targets[s] \ scope.targets[s] :
                               /\ \E a \in scope.members \ read.members :
                                     SourceOf[a] = s /\ p \notin LabelsOf[a]
                               /\ \E other \in DOMAIN read.targets :
                                     p \notin read.targets[other]
    BY DEF RaceOnly
  <1>1. read.labels \subseteq scope.targets[s]
    BY DEF GroupShape, CommonLabels
  <1>2. ASSUME s \in DOMAIN read.targets, NEW p \in read.targets[s] \ scope.targets[s]
        PROVE  /\ \E a \in scope.members \ read.members : SourceOf[a] = s /\ p \notin LabelsOf[a]
               /\ \E other \in DOMAIN read.targets : p \notin read.targets[other]
    <2>1. p \in Label \ scope.targets[s] /\ p \notin g.labels
      BY <1>2 DEF IsScope, GroupShape
    <2>2. PICK a \in scope.members : SourceOf[a] = s /\ p \notin LabelsOf[a]
      BY <2>1 DEF GroupShape
    <2>3. a \notin read.members
      BY <1>2, <2>1, <2>2 DEF GroupShape
    <2>4. p \notin CommonLabels(read.targets)
      BY <1>1, <1>2 DEF GroupShape
    <2>5. \E other \in DOMAIN read.targets : p \notin read.targets[other]
      BY <1>2, <2>4 DEF CommonLabels
    <2>6. QED
      BY <2>2, <2>3, <2>5
  <1>3. QED
    BY <1>1, <1>2

\* A match built from members that carry it is carried by each of them.
LEMMA TargetMatchesMember ==
    ASSUME NEW g, NEW members \in SUBSET GroupMembers(g), NEW a \in members
    PROVE  Matches(TargetLabels(g, members, SourceOf[a]), a)
  BY DEF TargetLabels, Folded, Matches, Carries, GroupMembers

\* What SilenceScopeForGroup resolves.
LEMMA GroupScope ==
    ASSUME firing \subseteq Alerts, NEW g \in Groups
    PROVE  LET scope == SilenceScopeForGroup(g)
           IN  /\ IsScope(scope)
               /\ MembersOK(scope)
               /\ ScopedOK(scope)
               /\ GroupShape(scope, g)
  <1> DEFINE scope == SilenceScopeForGroup(g)
             members == IF g.labels = {} THEN {} ELSE GroupMembers(g)
             reached == Reached(members)
  <1>1. /\ DOMAIN scope.targets = {SourceOf[a] : a \in reached}
        /\ \A s \in DOMAIN scope.targets : scope.targets[s] = TargetLabels(g, members, s)
        /\ scope.members = reached
        /\ scope.labels = CommonLabels(scope.targets)
    BY DEF SilenceScopeForGroup
  <1>2. /\ members \subseteq GroupMembers(g) /\ reached \subseteq members
        /\ members \subseteq Alerts
        /\ \A a \in members : InScope(a)
        /\ \A a \in reached : SourceOf[a] \in Reachable
    BY DEF Reached, GroupMembers
  <1> HIDE DEF members, reached, scope
  <1>3. MembersOK(scope)
    <2> SUFFICES ASSUME NEW a \in reached
                 PROVE  /\ SourceOf[a] \in DOMAIN scope.targets
                        /\ Matches(scope.targets[SourceOf[a]], a)
      BY <1>1 DEF MembersOK
    <2>1. Matches(TargetLabels(g, members, SourceOf[a]), a)
      BY <1>2, TargetMatchesMember
    <2>2. QED
      BY <1>1, <2>1
  <1>4. \A s \in DOMAIN scope.targets :
           /\ g.labels \subseteq scope.targets[s]
           /\ scope.labels \subseteq scope.targets[s]
           /\ scope.targets[s] \subseteq Label
    <2> SUFFICES ASSUME NEW s \in DOMAIN scope.targets
                 PROVE  /\ g.labels \subseteq scope.targets[s]
                        /\ scope.labels \subseteq scope.targets[s]
                        /\ scope.targets[s] \subseteq Label
      OBVIOUS
    <2>1. g.labels \subseteq scope.targets[s]
      BY <1>1 DEF TargetLabels
    <2>2. scope.labels \subseteq scope.targets[s]
      BY <1>1 DEF CommonLabels
    <2>3. scope.targets[s] \subseteq Label
      BY <1>1, <1>2 DEF TargetLabels, Folded, Label
    <2>4. QED
      BY <2>1, <2>2, <2>3
  <1>5. ASSUME NEW s \in DOMAIN scope.targets
        PROVE  /\ {a \in members : SourceOf[a] = s} = {a \in scope.members : SourceOf[a] = s}
               /\ \E a \in scope.members : SourceOf[a] = s
    <2>1. PICK a \in reached : s = SourceOf[a]
      BY <1>1
    <2>2. s \in Reachable
      BY <1>2, <2>1
    <2>3. \A x \in members : SourceOf[x] = s => x \in reached
      BY <2>2 DEF reached, Reached
    <2>4. QED
      BY <1>1, <1>2, <2>1, <2>3
  <1>6. IsScope(scope)
    <2>1. DOMAIN scope.targets \subseteq Reachable /\ scope.members \subseteq Alerts
      BY <1>1, <1>2
    <2>2. scope.labels \subseteq Label
      BY <1>1, <1>4 DEF CommonLabels
    <2>3. QED
      BY <1>4, <2>1, <2>2 DEF IsScope
  <1>7. ScopedOK(scope)
    <2>1. \A s \in DOMAIN scope.targets :
             Folded({a \in scope.members : SourceOf[a] = s}) \subseteq scope.targets[s]
      BY <1>1, <1>5 DEF TargetLabels
    <2>2. QED
      BY <1>1, <1>2, <1>5, <2>1 DEF ScopedOK
  <1>8. GroupShape(scope, g)
    <2> SUFFICES ASSUME NEW s \in DOMAIN scope.targets
                 PROVE  /\ \A p \in scope.targets[s] \ g.labels, a \in scope.members :
                              SourceOf[a] = s => p \in LabelsOf[a]
                        /\ \A p \in Label \ scope.targets[s] :
                              \E a \in scope.members : SourceOf[a] = s /\ p \notin LabelsOf[a]
      BY <1>1, <1>4 DEF GroupShape
    <2> DEFINE here == {a \in scope.members : SourceOf[a] = s}
    <2>1. scope.targets[s] = Folded(here) \cup g.labels
      BY <1>1, <1>5 DEF TargetLabels
    <2>2. here # {}
      BY <1>5
    <2>3. \A p \in Folded(here) : \A a \in here : p \in LabelsOf[a]
      BY DEF Folded
    <2>4. \A p : p \notin Folded(here) => \E a \in here : p \notin LabelsOf[a]
      BY <2>2 DEF Folded
    <2>5. QED
      BY <2>1, <2>3, <2>4
  <1>9. QED
    BY <1>3, <1>6, <1>7, <1>8 DEF scope

\* What SilenceScopeForAlert resolves.
LEMMA AlertScope ==
    ASSUME NEW a \in Alerts
    PROVE  LET scope == SilenceScopeForAlert(a)
           IN  /\ IsScope(scope)
               /\ MembersOK(scope)
               /\ ScopedOK(scope)
               /\ RaceOnly(scope, scope)
  <1>1. CASE InScope(a) /\ SourceOf[a] \in Reachable /\ LabelsOf[a] # {}
    <2> DEFINE scope == [labels |-> LabelsOf[a], members |-> {a},
                         targets |-> [s \in {SourceOf[a]} |-> LabelsOf[a]]]
    <2>1. SilenceScopeForAlert(a) = scope
      BY <1>1 DEF SilenceScopeForAlert
    <2>2. IsScope(scope)
      BY <1>1 DEF IsScope, Label
    <2>3. MembersOK(scope)
      BY DEF MembersOK, Matches, Carries
    <2>4. ScopedOK(scope)
      BY <1>1 DEF ScopedOK, Folded
    <2>5. RaceOnly(scope, scope)
      BY DEF RaceOnly
    <2>6. QED
      BY <2>1, <2>2, <2>3, <2>4, <2>5
  <1>2. CASE ~(InScope(a) /\ SourceOf[a] \in Reachable /\ LabelsOf[a] # {})
    <2>1. SilenceScopeForAlert(a) = NoScope
      BY <1>2 DEF SilenceScopeForAlert
    <2>2. QED
      <3>1. DOMAIN NoScope.targets = {} /\ NoScope.labels = {} /\ NoScope.members = {}
        BY DEF NoScope, NoTargets
      <3>2. /\ IsScope(NoScope) /\ MembersOK(NoScope)
            /\ ScopedOK(NoScope) /\ RaceOnly(NoScope, NoScope)
        BY <3>1 DEF IsScope, MembersOK, ScopedOK, RaceOnly
      <3>3. QED
        BY <2>1, <3>2
  <1>3. QED
    BY <1>1, <1>2

-----------------------------------------------------------------------------
(***************************************************************************)
(* The inductive step, one case per action.                                *)
(***************************************************************************)

\* The bound is a number.
LEMMA MaxChangesNat == MaxChanges \in Nat
  BY SilencingConstants

\* Nothing is shown and nothing is written.
LEMMA InitOK == Init => IInv
  <1> SUFFICES ASSUME Init
               PROVE  IInv
    OBVIOUS
  <1>1. /\ DOMAIN NoScope.targets = {} /\ NoScope.labels = {} /\ NoScope.members = {}
        /\ IsScope(NoScope) /\ MembersOK(NoScope)
        /\ ScopedOK(NoScope) /\ RaceOnly(NoScope, NoScope)
    BY DEF NoScope, NoTargets, IsScope, MembersOK, ScopedOK, RaceOnly
  <1>0. 0 \in 0..MaxChanges
    BY MaxChangesNat
  <1>2. TypeOK
    BY <1>1, <1>0 DEF Init, TypeOK, ClosedDialog, NoJob
  <1>3. Fields /\ DialogOK /\ PreviewOK
    BY <1>1 DEF Init, Fields, DialogOK, PreviewOK, Resolved, ClosedDialog, NoJob
  <1>4. JobOK
    BY <1>1, WindowConstants DEF Init, JobOK, NoJob
  <1>5. QED
    BY <1>2, <1>3, <1>4 DEF IInv

\* Steps that leave the job alone only have the dialog to answer for.
LEMMA DialogStep ==
    ASSUME IInv, UNCHANGED job, firing' \subseteq Alerts, changes' \in 0..MaxChanges,
           dialog' = [phase |-> dialog'.phase, group |-> dialog'.group,
                      preview |-> dialog'.preview, outcome |-> dialog'.outcome],
           dialog'.phase \in {"closed", "resolving", "open"} \/ dialog' = dialog,
           dialog'.phase # "closed" => dialog'.group \in Groups,
           IsScope(dialog'.preview),
           Resolved(dialog'.preview) => GroupShape(dialog'.preview, dialog'.group),
           dialog'.outcome \in {None, "created", "partial", "failed"}
    PROVE  IInv'
  <1>1. TypeOK'
    BY DEF IInv, TypeOK, IsScope
  <1>2. Fields' /\ JobOK'
    BY DEF IInv, Fields, JobOK, RaceOnly, ScopedOK, MembersOK, NewSilence
  <1>3. DialogOK' /\ PreviewOK'
    BY DEF IInv, DialogOK, PreviewOK
  <1>4. QED
    BY <1>1, <1>2, <1>3 DEF IInv

\* A confirmation starts a job with the scope resolved now.
LEMMA BeginOK ==
    ASSUME IInv, NEW scope, NEW read, NEW confirmed \in BOOLEAN, NEW d \in Durations,
           silenceWindow(d) # Refused, Begin(scope, read, confirmed, silenceWindow(d)),
           IsScope(scope), IsScope(read), MembersOK(scope), ScopedOK(scope),
           RaceOnly(scope, read)
    PROVE  /\ JobOK'
           /\ job'.phase = "creating" /\ job'.confirmed = confirmed
           /\ IsScope(job'.scope) /\ IsScope(job'.read)
           /\ job'.todo \subseteq DOMAIN job'.scope.targets
           /\ job'.accepted \subseteq DOMAIN job'.scope.targets
           /\ job' = [phase |-> job'.phase, scope |-> job'.scope, read |-> job'.read,
                      confirmed |-> job'.confirmed, window |-> job'.window,
                      todo |-> job'.todo, accepted |-> job'.accepted,
                      written |-> job'.written]
  <1>1. silenceWindow(d) \in Int /\ silenceWindow(d) <= SilenceMaxDuration
    BY WindowBounded, WindowConstants
  <1>2. job' = [phase |-> "creating", scope |-> scope, read |-> read,
                confirmed |-> confirmed, window |-> silenceWindow(d),
                todo |-> DOMAIN scope.targets, accepted |-> {}, written |-> {}]
    BY DEF Begin
  <1>3. JobOK'
    BY <1>1, <1>2 DEF JobOK, RaceOnly, ScopedOK, MembersOK
  <1>4. QED
    BY <1>2, <1>3

\* One turn of the loop over the targets.
LEMMA LoopStep ==
    ASSUME IInv, NEW s \in job.todo, job.phase = "creating", NEW more, NEW written,
           job' = [job EXCEPT !.todo = @ \ {s}, !.accepted = more, !.written = written],
           \/ more = job.accepted /\ written = job.written
           \/ /\ validateSilence(job.scope.targets[s], job.window)
              /\ more \in {job.accepted, job.accepted \cup {s}}
              /\ written = job.written \cup {NewSilence(s)},
           UNCHANGED <<firing, dialog, changes>>
    PROVE  IInv'
  <1>1. /\ job'.phase = job.phase /\ job'.scope = job.scope /\ job'.read = job.read
        /\ job'.confirmed = job.confirmed /\ job'.window = job.window
        /\ job'.todo = job.todo \ {s} /\ job'.accepted = more /\ job'.written = written
        /\ job' = [phase |-> job'.phase, scope |-> job'.scope, read |-> job'.read,
                   confirmed |-> job'.confirmed, window |-> job'.window, todo |-> job'.todo,
                   accepted |-> job'.accepted, written |-> job'.written]
    BY DEF IInv, Fields
  <1>2. s \in DOMAIN job.scope.targets
    BY DEF IInv, TypeOK
  <1>3. TypeOK'
    BY <1>1, <1>2 DEF IInv, TypeOK, IsScope
  <1>4. Fields'
    BY <1>1 DEF IInv, Fields
  <1>5. DialogOK' /\ PreviewOK'
    BY <1>1 DEF IInv, DialogOK, PreviewOK
  <1>6. JobOK'
    <2>1. RaceOnly(job.scope, job.read)' /\ ScopedOK(job.scope)' /\ MembersOK(job.scope)'
      BY <1>1 DEF IInv, JobOK, RaceOnly, ScopedOK, MembersOK
    <2>2. NewSilence(s).source = s /\ NewSilence(s).labels = job.scope.targets[s]
          /\ NewSilence(s).window = job.window
      BY DEF NewSilence
    <2>3. \A silence \in written :
             /\ silence.source \in DOMAIN job.scope.targets
             /\ silence.labels = job.scope.targets[silence.source]
             /\ silence.window = job.window /\ job.window > 0
      BY <1>2, <2>2 DEF IInv, JobOK, validateSilence
    <2>4. \A t \in more : NewSilence(t) \in written
      BY DEF IInv, JobOK
    <2>5. \A t \in more : NewSilence(t)' \in written
      BY <1>1, <2>4 DEF NewSilence
    <2>6. QED
      BY <1>1, <2>1, <2>3, <2>5 DEF IInv, JobOK
  <1>7. QED
    BY <1>3, <1>4, <1>5, <1>6 DEF IInv

\* Every action preserves the invariant.
LEMMA NextOK ==
    ASSUME IInv, [Next]_vars
    PROVE  IInv'
  <1>0. TypeOK /\ Fields /\ JobOK /\ DialogOK /\ PreviewOK
    BY DEF IInv
  <1>1. ASSUME NEW a \in Alerts, MembershipChanges(a)
        PROVE  IInv'
    <2>1. firing' \subseteq Alerts /\ changes' \in 0..MaxChanges /\ UNCHANGED <<dialog, job>>
      BY <1>0, <1>1, MaxChangesNat DEF MembershipChanges, TypeOK
    <2>2. QED
      BY <1>0, <2>1, DialogStep DEF TypeOK, Fields, IsScope, PreviewOK
  <1>2. ASSUME NEW g \in Groups, OpenDialog(g)
        PROVE  IInv'
    <2>1. dialog' = [phase |-> "resolving", group |-> g, preview |-> NoScope, outcome |-> None]
      BY <1>2 DEF OpenDialog, ClosedDialog
    <2>2. IsScope(NoScope) /\ ~Resolved(NoScope)
      BY DEF NoScope, NoTargets, IsScope, Resolved
    <2>3. /\ dialog'.phase = "resolving" /\ dialog'.group = g
          /\ dialog'.preview = NoScope /\ dialog'.outcome = None
      BY <2>1
    <2>4. UNCHANGED <<firing, job, changes>>
      BY <1>2 DEF OpenDialog
    <2>5. QED
      BY <1>0, <2>1, <2>2, <2>3, <2>4, DialogStep DEF TypeOK
  <1>3. ASSUME Preview \/ PreviewFails
        PROVE  IInv'
    <2>1. dialog.group \in Groups /\ dialog.phase = "resolving"
      BY <1>0, <1>3 DEF Preview, PreviewFails, Fields
    <2>2. /\ IsScope(SilenceScopeForGroup(dialog.group))
          /\ GroupShape(SilenceScopeForGroup(dialog.group), dialog.group)
      BY <1>0, <2>1, GroupScope DEF TypeOK
    <2>3. PICK preview : /\ dialog' = [dialog EXCEPT !.phase = "open", !.preview = preview]
                         /\ preview \in {dialog.preview, SilenceScopeForGroup(dialog.group)}
      <3>1. CASE Preview
        BY <3>1 DEF Preview
      <3>2. CASE PreviewFails
        BY <1>0, <3>2 DEF PreviewFails, Fields
      <3>3. QED
        BY <1>3, <3>1, <3>2
    <2>4. dialog' = [phase |-> "open", group |-> dialog.group, preview |-> preview,
                     outcome |-> dialog.outcome]
      BY <1>0, <2>3 DEF Fields
    <2>5. QED
      BY <1>0, <1>3, <2>1, <2>2, <2>3, <2>4, DialogStep DEF Preview, PreviewFails, TypeOK, PreviewOK
  <1>4. ASSUME CloseDialog
        PROVE  IInv'
    <2>1. IsScope(NoScope) /\ ~Resolved(NoScope)
      BY DEF NoScope, NoTargets, IsScope, Resolved
    <2>2. QED
      BY <1>0, <1>4, <2>1, DialogStep DEF CloseDialog, ClosedDialog, TypeOK
  <1>5. ASSUME NEW d \in Durations, silenceGroup(d)
        PROVE  IInv'
    <2> DEFINE scope == SilenceScopeForGroup(dialog.group)
    <2>1. dialog.group \in Groups /\ dialog.phase = "open" /\ job.phase = "idle"
      BY <1>0, <1>5 DEF silenceGroup, Fields
    <2>2. /\ IsScope(scope) /\ MembersOK(scope)
          /\ ScopedOK(scope) /\ GroupShape(scope, dialog.group)
      BY <1>0, <2>1, GroupScope DEF TypeOK
    <2> HIDE DEF scope
    <2>3. CASE /\ Resolved(scope) /\ ~Conflicts(scope) /\ silenceWindow(d) # Refused
               /\ dialog' = [dialog EXCEPT !.phase = "pending"]
               /\ Begin(scope, OnScreen, TRUE, silenceWindow(d))
      <3>1. IsScope(OnScreen) /\ RaceOnly(scope, OnScreen)
        <4>1. CASE Resolved(dialog.preview)
          <5>1. OnScreen = dialog.preview /\ OnScreen.labels = scope.labels
            BY <2>3, <4>1 DEF OnScreen, Conflicts
          <5>2. IsScope(OnScreen) /\ GroupShape(OnScreen, dialog.group)
            BY <1>0, <4>1, <5>1 DEF TypeOK, PreviewOK
          <5>3. QED
            BY <2>2, <5>1, <5>2, TwoResolutions
        <4>2. CASE ~Resolved(dialog.preview)
          <5>1. /\ OnScreen.labels = dialog.group.labels
                /\ DOMAIN OnScreen.targets = {} /\ OnScreen.members = {}
            BY <4>2 DEF OnScreen, NoScope, NoTargets
          <5>2. dialog.group.labels \subseteq Label
            BY <2>1 DEF Label
          <5>3. QED
            BY <2>2, <5>1, <5>2 DEF IsScope, RaceOnly, GroupShape
        <4>3. QED
          BY <4>1, <4>2
      <3>2. /\ JobOK'
            /\ job'.phase = "creating" /\ job'.confirmed = TRUE
            /\ IsScope(job'.scope) /\ IsScope(job'.read)
            /\ job'.todo \subseteq DOMAIN job'.scope.targets
            /\ job'.accepted \subseteq DOMAIN job'.scope.targets
            /\ job' = [phase |-> job'.phase, scope |-> job'.scope, read |-> job'.read,
                       confirmed |-> job'.confirmed, window |-> job'.window,
                       todo |-> job'.todo, accepted |-> job'.accepted,
                       written |-> job'.written]
        BY <2>2, <2>3, <3>1, BeginOK
      <3>3. dialog' = [phase |-> "pending", group |-> dialog.group,
                       preview |-> dialog.preview, outcome |-> dialog.outcome]
        BY <1>0, <2>3 DEF Fields
      <3>4. TypeOK'
        BY <1>0, <1>5, <3>2, <3>3 DEF silenceGroup, TypeOK, IsScope
      <3>5. Fields' /\ DialogOK' /\ PreviewOK'
        BY <1>0, <2>1, <3>2, <3>3 DEF Fields, DialogOK, PreviewOK
      <3>6. QED
        BY <3>2, <3>4, <3>5 DEF IInv
    <2>4. CASE dialog' = [dialog EXCEPT !.phase = "resolving"] /\ UNCHANGED job
      <3>1. dialog' = [phase |-> "resolving", group |-> dialog.group,
                       preview |-> dialog.preview, outcome |-> dialog.outcome]
        BY <1>0, <2>4 DEF Fields
      <3>2. QED
        BY <1>0, <1>5, <2>1, <2>4, <3>1, DialogStep DEF silenceGroup, TypeOK, PreviewOK
    <2>5. QED
      BY <1>5, <2>3, <2>4 DEF silenceGroup, scope
  <1>6. ASSUME NEW a \in Alerts, NEW d \in Durations, silenceAlert(a, d)
        PROVE  IInv'
    <2> DEFINE scope == SilenceScopeForAlert(a)
    <2>1. IsScope(scope) /\ MembersOK(scope) /\ ScopedOK(scope) /\ RaceOnly(scope, scope)
      BY AlertScope
    <2> HIDE DEF scope
    <2>2. silenceWindow(d) # Refused /\ Begin(scope, scope, FALSE, silenceWindow(d))
      BY <1>6 DEF silenceAlert, scope
    <2>3. /\ JobOK'
          /\ job'.phase = "creating" /\ job'.confirmed = FALSE
          /\ IsScope(job'.scope) /\ IsScope(job'.read)
          /\ job'.todo \subseteq DOMAIN job'.scope.targets
          /\ job'.accepted \subseteq DOMAIN job'.scope.targets
          /\ job' = [phase |-> job'.phase, scope |-> job'.scope, read |-> job'.read,
                     confirmed |-> job'.confirmed, window |-> job'.window,
                     todo |-> job'.todo, accepted |-> job'.accepted,
                     written |-> job'.written]
      BY <2>1, <2>2, BeginOK
    <2>4. UNCHANGED <<firing, dialog, changes>> /\ job.phase = "idle"
      BY <1>6 DEF silenceAlert
    <2>5. TypeOK' /\ Fields' /\ DialogOK' /\ PreviewOK'
      BY <1>0, <2>3, <2>4 DEF TypeOK, Fields, DialogOK, PreviewOK, IsScope
    <2>6. QED
      BY <2>3, <2>5 DEF IInv
  <1>7. ASSUME NEW s \in Sources, NEW answered \in BOOLEAN, CreateSilence(s, answered)
        PROVE  IInv'
    <2>1. PICK more : /\ job' = [job EXCEPT !.todo = @ \ {s}, !.accepted = more,
                                            !.written = job.written \cup {NewSilence(s)}]
                      /\ more \in {job.accepted, job.accepted \cup {s}}
      BY <1>0, <1>7 DEF CreateSilence, Fields
    <2> DEFINE written == job.written \cup {NewSilence(s)}
    <2>2. /\ s \in job.todo /\ job.phase = "creating"
          /\ validateSilence(job.scope.targets[s], job.window)
          /\ UNCHANGED <<firing, dialog, changes>>
      BY <1>7 DEF CreateSilence
    <2>3. job' = [job EXCEPT !.todo = @ \ {s}, !.accepted = more, !.written = written]
      BY <2>1
    <2>4. written = job.written \cup {NewSilence(s)}
      OBVIOUS
    <2> HIDE DEF written
    <2>5. QED
      BY <2>1, <2>2, <2>3, <2>4, LoopStep
  <1>8. ASSUME NEW s \in Sources, CreateFails(s)
        PROVE  IInv'
    <2>1. job' = [job EXCEPT !.todo = @ \ {s}, !.accepted = job.accepted,
                             !.written = job.written]
      BY <1>0, <1>8 DEF CreateFails, Fields
    <2>2. QED
      BY <1>8, <2>1, LoopStep DEF CreateFails
  <1>9. ASSUME Respond
        PROVE  IInv'
    <2>1. /\ job'.phase = "idle" /\ job'.scope = job.scope /\ job'.read = job.read
          /\ job'.confirmed = job.confirmed /\ job'.window = job.window
          /\ job'.todo = job.todo /\ job'.accepted = job.accepted
          /\ job'.written = job.written
          /\ job' = [phase |-> job'.phase, scope |-> job'.scope, read |-> job'.read,
                     confirmed |-> job'.confirmed, window |-> job'.window,
                     todo |-> job'.todo, accepted |-> job'.accepted,
                     written |-> job'.written]
      BY <1>0, <1>9 DEF Respond, Fields
    <2>2. /\ dialog' = [phase |-> dialog'.phase, group |-> dialog.group,
                        preview |-> dialog.preview, outcome |-> dialog'.outcome]
          /\ \/ dialog' = dialog /\ dialog.phase # "pending"
             \/ /\ dialog.phase = "pending" /\ dialog'.outcome = Outcome
                /\ dialog'.phase = IF Outcome = "failed" THEN "open" ELSE "done"
      BY <1>0, <1>9 DEF Respond, Fields
    <2>3. Outcome \in {"created", "partial", "failed"}
          /\ (Outcome = "created" => job.accepted = DOMAIN job.scope.targets)
      BY DEF Outcome
    <2>4. TypeOK'
      BY <1>0, <1>9, <2>1, <2>2, <2>3 DEF Respond, TypeOK, IsScope
    <2>5. Fields' /\ DialogOK' /\ PreviewOK'
      BY <1>0, <2>1, <2>2, <2>3 DEF Fields, DialogOK, PreviewOK
    <2>6. JobOK'
      BY <1>0, <2>1 DEF JobOK, RaceOnly, ScopedOK, MembersOK, NewSilence
    <2>7. QED
      BY <2>4, <2>5, <2>6 DEF IInv
  <1>10. CASE UNCHANGED vars
    BY <1>0, <1>10
    DEF vars, IInv, TypeOK, IsScope, Fields, JobOK, DialogOK, PreviewOK, RaceOnly, ScopedOK,
        MembersOK, NewSilence
  <1>11. QED
    BY <1>1, <1>2, <1>3, <1>4, <1>5, <1>6, <1>7, <1>8, <1>9, <1>10 DEF Next

-----------------------------------------------------------------------------
(***************************************************************************)
(* Theorems.                                                               *)
(***************************************************************************)

\* The inductive invariant holds in every reachable state.
THEOREM Invariance == Spec => []IInv
  <1>1. Init => IInv
    BY InitOK
  <1>2. IInv /\ [Next]_vars => IInv'
    BY NextOK
  <1>3. QED
    BY <1>1, <1>2, PTL DEF Spec

\* Dialog and job keep their types, and only sources with an Alertmanager are
\* written to.
THEOREM TypeCorrect == Spec => []TypeOK
  <1>1. IInv => TypeOK
    BY DEF IInv
  <1>2. QED
    BY <1>1, Invariance, PTL

\* A silence matches on every label the dialog had on screen as common; at one
\* target it is broader than the match read for it only when a member joined
\* there and another target's match never had the label (sameLabels compares
\* the common labels alone).
THEOREM BroadeningIsTheRace == Spec => []BroadeningNeedsARace
  <1>1. ASSUME IInv, NEW silence \in job.written
        PROVE  /\ job.read.labels \subseteq silence.labels
               /\ \A p \in ReadAt(silence.source) \ silence.labels :
                     /\ \E a \in job.scope.members \ job.read.members :
                           SourceOf[a] = silence.source /\ p \notin LabelsOf[a]
                     /\ \E other \in DOMAIN job.read.targets :
                           p \notin job.read.targets[other]
    <2>1. /\ silence.source \in DOMAIN job.scope.targets
          /\ silence.labels = job.scope.targets[silence.source]
          /\ RaceOnly(job.scope, job.read)
      BY <1>1 DEF IInv, JobOK
    <2>2. QED
      BY <2>1 DEF RaceOnly, ReadAt
  <1>2. IInv => BroadeningNeedsARace
    BY <1>1 DEF BroadeningNeedsARace
  <1>3. QED
    BY <1>2, Invariance, PTL

\* A confirmation reported as created covers every member the server resolved
\* that has an Alertmanager, whatever answers were lost on the way.
THEOREM CreatedCovers == Spec => []DoneMeansCovered
  <1>1. ASSUME IInv, dialog.phase = "done", dialog.outcome = "created", job.confirmed,
               NEW a \in job.scope.members
        PROVE  \E silence \in job.written :
                  silence.source = SourceOf[a] /\ Matches(silence.labels, a)
    <2>1. /\ SourceOf[a] \in job.accepted
          /\ Matches(job.scope.targets[SourceOf[a]], a)
      BY <1>1 DEF IInv, DialogOK, JobOK, MembersOK
    <2>2. NewSilence(SourceOf[a]) \in job.written
      BY <1>1, <2>1 DEF IInv, JobOK
    <2>3. QED
      BY <2>1, <2>2 DEF NewSilence
  <1>2. IInv => DoneMeansCovered
    BY <1>1 DEF DoneMeansCovered
  <1>3. QED
    BY <1>2, Invariance, PTL

\* A silence reaches past the operator's scope only when no grant admits what
\* the operator's members at that source have in common, for any grants of the
\* four operators, any groups and any alerts that join or leave them.
THEOREM ScopeKept == Spec => []BeyondScopeOnlyByFolding
  <1>1. ASSUME IInv, NEW silence \in job.written, NEW a \in Alerts, NEW grant \in Grants,
               Matches(silence.labels, a), Admits(grant, SharedAt(silence.source))
        PROVE  InScope(a)
    <2> DEFINE s == silence.source
               members == {m \in job.scope.members : SourceOf[m] = s}
    <2>1. /\ s \in DOMAIN job.scope.targets /\ silence.labels = job.scope.targets[s]
          /\ ScopedOK(job.scope)
      BY <1>1 DEF IInv, JobOK
    <2>2. /\ members \subseteq Alerts
          /\ Folded(members) \subseteq silence.labels
          /\ {m \in job.scope.members : SourceOf[m] = s /\ InScope(m)} = members
      BY <2>1 DEF ScopedOK
    <2>3. Admits(grant, Folded(members))
      BY <1>1, <2>2 DEF SharedAt
    <2> HIDE DEF members
    <2>4. QED
      BY <1>1, <2>2, <2>3, SharedGrant
  <1>2. IInv => BeyondScopeOnlyByFolding
    BY <1>1 DEF BeyondScopeOnlyByFolding
  <1>3. QED
    BY <1>2, Invariance, PTL

\* The promise as the code's comment states it holds for the grants it was
\* written for: with one grant, of equality matchers alone, every alert that a
\* silence matches is one the operator may act on, because its members agree
\* on every label the grant names.
THEOREM OneEqualityGrantHolds ==
    ASSUME NEW grant, Grants = {grant}, \A m \in grant : m.operator = "="
    PROVE  Spec => [](\A silence \in job.written, a \in Alerts :
                         SourceOf[a] = silence.source /\ Matches(silence.labels, a)
                             => InScope(a))
  <1>1. ASSUME IInv, NEW silence \in job.written, NEW a \in Alerts,
               Matches(silence.labels, a)
        PROVE  InScope(a)
    <2> DEFINE members == {m \in job.scope.members : SourceOf[m] = silence.source}
    <2>1. /\ silence.source \in DOMAIN job.scope.targets
          /\ silence.labels = job.scope.targets[silence.source]
          /\ ScopedOK(job.scope)
      BY <1>1 DEF IInv, JobOK
    <2>2. /\ members \subseteq Alerts /\ members # {}
          /\ Folded(members) \subseteq silence.labels
          /\ \A m \in members : InScope(m)
      BY <2>1 DEF ScopedOK
    <2> HIDE DEF members
    <2>3. ASSUME NEW x \in grant
          PROVE  \E p \in Folded(members) : Meets(p, x)
      <3>1. \A m \in members : \E p \in LabelsOf[m] : Meets(p, x)
        BY <2>2, <2>3 DEF InScope, Admits
      <3>2. \A m \in members : <<x.name, x.value>> \in LabelsOf[m]
        BY <2>2, <2>3, <3>1, SilencingConstants DEF Meets
      <3>3. <<x.name, x.value>> \in Folded(members)
        BY <2>2, <3>2 DEF Folded
      <3>4. Meets(<<x.name, x.value>>, x)
        BY <2>3 DEF Meets
      <3>5. QED
        BY <3>3, <3>4
    <2>4. Admits(grant, Folded(members)) /\ grant \in Grants
      BY <2>3 DEF Admits
    <2>5. QED
      BY <1>1, <2>2, <2>4, SharedGrant
  <1>2. IInv => \A silence \in job.written, a \in Alerts :
                   SourceOf[a] = silence.source /\ Matches(silence.labels, a) => InScope(a)
    BY <1>1
  <1>3. QED
    BY <1>2, Invariance, PTL

\* Every silence ends within the configured maximum, for any width of a
\* duration and any number of seconds asked for.
THEOREM SilencesEnd == Spec => []EverySilenceEnds
  <1>1. IInv => EverySilenceEnds
    BY WindowConstants DEF IInv, JobOK, EverySilenceEnds
  <1>2. QED
    BY <1>1, Invariance, PTL

-----------------------------------------------------------------------------
(***************************************************************************)
(* The stored inventory of silences (SilenceInventory).                    *)
(*                                                                         *)
(* SilenceInventory is brought in by its own names; its assumption on the  *)
(* constants is a hypothesis of each theorem.  InventoryInv is inductive:  *)
(* what two loops, a creation and a removal still have to store, and what a*)
(* row was last seen silenced by, are silences the Alertmanager has made.  *)
(***************************************************************************)
CONSTANTS Ids, Matched, Syncers, MaxEnd, MaxFailures

VARIABLES now, silences, silencedBy, records, pending, sync, failures

Inventory == INSTANCE SilenceInventory

SyncState == [phase: {"idle", "listed"}, at: Inventory!Time,
            listed: [Ids -> Inventory!Record]]

SilenceType == [state: Inventory!SilenceStates, ends: Inventory!Time]

\* TypeOK, with the loops' listings as a function.
InventoryTypes ==
    /\ now \in Inventory!Time
    /\ silences \in [Ids -> SilenceType]
    /\ silencedBy \in [Alerts -> SUBSET Ids]
    /\ records \in [Ids -> Inventory!Record]
    /\ pending \in SUBSET Inventory!Writes
    /\ sync \in [Syncers -> SyncState]
    /\ failures \in 0..MaxFailures

\* The Alertmanager has made the silence, whatever became of it.
Real(i) == silences[i].state # "unborn"

\* An alert is only seen silenced by silences that match it.
RemovableOK == \A a \in Alerts : \A i \in silencedBy[a] : Real(i) /\ a \in Matched[i]

\* A write under way is of a silence that was made.
PendingOK == \A w \in pending : Real(w.id)

\* So is a record.
RecordsOK == \A i \in Ids : records[i] # Inventory!NoRecord => Real(i)

\* And so is what a loop has listed and not stored.
ListedOK == \A k \in Syncers, i \in Ids :
                sync[k].listed[i] # Inventory!NoRecord => Real(i)

InventoryInv == InventoryTypes /\ RemovableOK /\ PendingOK /\ RecordsOK /\ ListedOK

\* The initial values have their types.
LEMMA InventoryValues ==
    ASSUME Inventory!InventoryConstants
    PROVE  /\ 0 \in Inventory!Time
           /\ Inventory!NoRecord \in Inventory!Record
           /\ Inventory!Unborn \in SilenceType
           /\ Inventory!NoSync \in SyncState
           /\ \A i \in Ids : Inventory!NoSync.listed[i] = Inventory!NoRecord
  <1>1. 0 \in Inventory!Time
    BY DEF Inventory!InventoryConstants, Inventory!Time
  <1>2. Inventory!NoRecord \in Inventory!Record /\ Inventory!Unborn \in SilenceType
    BY <1>1 DEF Inventory!NoRecord, Inventory!Record, Inventory!Unborn, SilenceType,
                Inventory!SilenceStates
  <1>3. Inventory!NoSync \in SyncState
    BY <1>1, <1>2 DEF Inventory!NoSync, SyncState
  <1>4. QED
    BY <1>1, <1>2, <1>3 DEF Inventory!NoSync

\* A record of a silence that is over is a record.
LEMMA EndedType ==
    ASSUME NEW r \in Inventory!Record, NEW at \in Inventory!Time
    PROVE  Inventory!Ended(r, at) \in Inventory!Record
  BY DEF Inventory!Ended, Inventory!Minimum, Inventory!Record

\* The inventory starts empty.
LEMMA InventoryInit ==
    ASSUME Inventory!InventoryConstants, Inventory!Init
    PROVE  InventoryInv
  <1>1. InventoryTypes
    <2>1. now \in Inventory!Time /\ failures \in 0..MaxFailures
      BY InventoryValues DEF Inventory!Init, Inventory!InventoryConstants
    <2>2. silences \in [Ids -> SilenceType] /\ records \in [Ids -> Inventory!Record]
      BY InventoryValues DEF Inventory!Init
    <2>3. sync \in [Syncers -> SyncState]
      BY InventoryValues DEF Inventory!Init
    <2>4. silencedBy \in [Alerts -> SUBSET Ids] /\ pending \in SUBSET Inventory!Writes
      BY DEF Inventory!Init
    <2>5. QED
      BY <2>1, <2>2, <2>3, <2>4 DEF InventoryTypes
  <1>2. RemovableOK /\ PendingOK /\ RecordsOK
    BY DEF Inventory!Init, RemovableOK, PendingOK, RecordsOK
  <1>3. ListedOK
    BY InventoryValues DEF Inventory!Init, ListedOK
  <1>4. QED
    BY <1>1, <1>2, <1>3 DEF InventoryInv

\* A silence that was made stays made, ended and forgotten ones too.
LEMMA SilencesStayReal ==
    ASSUME Inventory!InventoryConstants, InventoryTypes, Inventory!Next
    PROVE  /\ silences' \in [Ids -> SilenceType]
           /\ \A i \in Ids : Real(i) => Real(i)'
           /\ \A i \in Ids : silences'[i] # silences[i] => Real(i)'
  <1> USE DEF Real
  <1>0. /\ silences \in [Ids -> SilenceType] /\ now \in Inventory!Time
        /\ {"active", "expired", "forgotten"} \subseteq Inventory!SilenceStates
    BY DEF InventoryTypes, Inventory!SilenceStates
  <1>1. CASE Inventory!Tick
    BY <1>0, <1>1 DEF Inventory!Tick, SilenceType
  <1>2. ASSUME NEW i \in Ids, NEW ends \in Inventory!Time,
               Inventory!SilenceMadeElsewhere(i, ends) \/ Inventory!CreateSilence(i, ends)
        PROVE  /\ silences' \in [Ids -> SilenceType]
               /\ \A j \in Ids : Real(j) => Real(j)'
               /\ \A j \in Ids : silences'[j] # silences[j] => Real(j)'
    BY <1>0, <1>2 DEF Inventory!SilenceMadeElsewhere, Inventory!CreateSilence, SilenceType
  <1>3. ASSUME NEW i \in Ids,
               Inventory!SilenceEndedElsewhere(i) \/ Inventory!SilenceForgotten(i)
        PROVE  /\ silences' \in [Ids -> SilenceType]
               /\ \A j \in Ids : Real(j) => Real(j)'
               /\ \A j \in Ids : silences'[j] # silences[j] => Real(j)'
    BY <1>0, <1>3 DEF Inventory!SilenceEndedElsewhere, Inventory!SilenceForgotten, SilenceType
  <1>4. ASSUME NEW a \in Alerts, NEW i \in Ids, Inventory!DeleteSilence(a, i)
        PROVE  /\ silences' \in [Ids -> SilenceType]
               /\ \A j \in Ids : Real(j) => Real(j)'
               /\ \A j \in Ids : silences'[j] # silences[j] => Real(j)'
    BY <1>0, <1>4 DEF Inventory!DeleteSilence, SilenceType
  <1>5. CASE UNCHANGED silences
    BY <1>0, <1>5
  <1>6. QED
    BY <1>1, <1>2, <1>3, <1>4, <1>5
       DEF Inventory!Next, Inventory!SuppressionRead, Inventory!RecordSilence,
           Inventory!ExpireSilenceRecord, Inventory!WriteFails, Inventory!ListSilences,
           Inventory!SyncSilences, Inventory!SyncFails

\* Suppression is read off silences that are active and match.
LEMMA SilencedByStep ==
    ASSUME Inventory!InventoryConstants, InventoryInv, Inventory!Next
    PROVE  silencedBy' \in [Alerts -> SUBSET Ids] /\ RemovableOK'
  <1>0. /\ silencedBy \in [Alerts -> SUBSET Ids] /\ RemovableOK
        /\ \A i \in Ids : Real(i) => Real(i)'
    BY SilencesStayReal DEF InventoryInv, InventoryTypes
  <1>1. CASE UNCHANGED silencedBy
    BY <1>0, <1>1 DEF RemovableOK
  <1>2. ASSUME NEW b \in Alerts, Inventory!SuppressionRead(b)
        PROVE  silencedBy' \in [Alerts -> SUBSET Ids] /\ RemovableOK'
    <2>1. PICK by : by = {i \in Ids : silences[i].state = "active" /\ b \in Matched[i]}
      OBVIOUS
    <2>2. silencedBy' = [silencedBy EXCEPT ![b] = by]
      BY <1>2, <2>1 DEF Inventory!SuppressionRead
    <2>3. by \in SUBSET Ids /\ \A i \in by : Real(i)' /\ b \in Matched[i]
      BY <1>0, <2>1 DEF Real
    <2>4. silencedBy' \in [Alerts -> SUBSET Ids]
      BY <1>0, <2>2, <2>3
    <2>5. ASSUME NEW a \in Alerts, NEW i \in silencedBy'[a]
          PROVE  Real(i)' /\ a \in Matched[i]
      BY <1>0, <2>2, <2>3 DEF RemovableOK
    <2>6. QED
      BY <2>4, <2>5 DEF RemovableOK
  <1>3. QED
    BY <1>1, <1>2
       DEF Inventory!Next, Inventory!Tick, Inventory!SilenceMadeElsewhere,
           Inventory!CreateSilence, Inventory!SilenceEndedElsewhere,
           Inventory!SilenceForgotten, Inventory!DeleteSilence, Inventory!RecordSilence,
           Inventory!ExpireSilenceRecord, Inventory!WriteFails, Inventory!ListSilences,
           Inventory!SyncSilences, Inventory!SyncFails

\* A creation or a removal leaves a write of a silence that exists.
LEMMA PendingStep ==
    ASSUME Inventory!InventoryConstants, InventoryInv, Inventory!Next
    PROVE  pending' \in SUBSET Inventory!Writes /\ PendingOK'
  <1>0. /\ pending \in SUBSET Inventory!Writes /\ PendingOK /\ now \in Inventory!Time
        /\ \A w \in pending : w.id \in Ids
        /\ \A i \in Ids : Real(i) => Real(i)'
    BY SilencesStayReal DEF InventoryInv, InventoryTypes, Inventory!Writes
  <1>1. CASE pending' \subseteq pending
    BY <1>0, <1>1 DEF PendingOK
  <1>2. ASSUME NEW i \in Ids, NEW ends \in Inventory!Time, Inventory!CreateSilence(i, ends)
        PROVE  pending' \in SUBSET Inventory!Writes /\ PendingOK'
    <2>1. PICK w : w = [kind |-> "record", id |-> i, ends |-> ends]
      OBVIOUS
    <2>2. w \in Inventory!Writes /\ w.id = i
      BY <2>1 DEF Inventory!Writes
    <2>3. Real(i)'
      BY <1>2 DEF Real, Inventory!CreateSilence, InventoryInv, InventoryTypes
    <2>4. pending' = pending \cup {w}
      BY <1>2, <2>1 DEF Inventory!CreateSilence
    <2>5. QED
      BY <1>0, <2>2, <2>3, <2>4 DEF PendingOK
  <1>3. ASSUME NEW a \in Alerts, NEW i \in Ids, Inventory!DeleteSilence(a, i)
        PROVE  pending' \in SUBSET Inventory!Writes /\ PendingOK'
    <2>1. PICK w : w = [kind |-> "expire", id |-> i, ends |-> now]
      OBVIOUS
    <2>2. w \in Inventory!Writes /\ w.id = i
      BY <1>0, <2>1 DEF Inventory!Writes
    <2>3. Real(i)'
      BY <1>0, <1>3 DEF Inventory!DeleteSilence, Inventory!SilenceRemovalScope,
                        InventoryInv, RemovableOK
    <2>4. pending' = pending \cup {w}
      BY <1>3, <2>1 DEF Inventory!DeleteSilence
    <2>5. QED
      BY <1>0, <2>2, <2>3, <2>4 DEF PendingOK
  <1>4. QED
    BY <1>1, <1>2, <1>3
       DEF Inventory!Next, Inventory!Tick, Inventory!SilenceMadeElsewhere,
           Inventory!SilenceEndedElsewhere, Inventory!SilenceForgotten,
           Inventory!SuppressionRead, Inventory!RecordSilence,
           Inventory!ExpireSilenceRecord, Inventory!WriteFails, Inventory!ListSilences,
           Inventory!SyncSilences, Inventory!SyncFails

\* Upsert, expiry and sync only store silences that exist.
LEMMA RecordsStep ==
    ASSUME Inventory!InventoryConstants, InventoryInv, Inventory!Next
    PROVE  records' \in [Ids -> Inventory!Record] /\ RecordsOK'
  <1>0. /\ records \in [Ids -> Inventory!Record] /\ RecordsOK /\ ListedOK /\ PendingOK
        /\ sync \in [Syncers -> SyncState] /\ pending \in SUBSET Inventory!Writes
        /\ \A i \in Ids : Real(i) => Real(i)'
    BY SilencesStayReal DEF InventoryInv, InventoryTypes
  <1>1. CASE UNCHANGED records
    BY <1>0, <1>1 DEF RecordsOK
  <1>2. ASSUME NEW w \in pending, Inventory!RecordSilence(w)
        PROVE  records' \in [Ids -> Inventory!Record] /\ RecordsOK'
    <2>1. w.id \in Ids /\ w.ends \in Inventory!Time /\ Real(w.id)'
      BY <1>0 DEF Inventory!Writes, PendingOK
    <2>2. [state |-> "active", ends |-> w.ends] \in Inventory!Record
      BY <2>1 DEF Inventory!Record
    <2>3. records' = [records EXCEPT ![w.id] = [state |-> "active", ends |-> w.ends]]
      BY <1>2 DEF Inventory!RecordSilence
    <2>4. QED
      BY <1>0, <2>1, <2>2, <2>3 DEF RecordsOK
  <1>3. ASSUME NEW w \in pending, Inventory!ExpireSilenceRecord(w)
        PROVE  records' \in [Ids -> Inventory!Record] /\ RecordsOK'
    <2>1. w.id \in Ids /\ w.ends \in Inventory!Time /\ Real(w.id)'
      BY <1>0 DEF Inventory!Writes, PendingOK
    <2>2. PICK r \in Inventory!Record : records' = [records EXCEPT ![w.id] = r]
      BY <1>0, <1>3, <2>1, EndedType DEF Inventory!ExpireSilenceRecord
    <2>3. QED
      BY <1>0, <2>1, <2>2 DEF RecordsOK
  <1>4. ASSUME NEW k \in Syncers, Inventory!SyncSilences(k)
        PROVE  records' \in [Ids -> Inventory!Record] /\ RecordsOK'
    <2>1. records' = [i \in Ids |-> Inventory!Synced(k, i)]
      BY <1>4 DEF Inventory!SyncSilences
    <2>2. ASSUME NEW i \in Ids
          PROVE  /\ Inventory!Synced(k, i) \in Inventory!Record
                 /\ Inventory!Synced(k, i) # Inventory!NoRecord => Real(i)'
      <3>1. /\ sync[k].listed[i] \in Inventory!Record /\ sync[k].at \in Inventory!Time
            /\ records[i] \in Inventory!Record
        BY <1>0 DEF SyncState
      <3>2. CASE sync[k].listed[i] # Inventory!NoRecord
        BY <1>0, <3>1, <3>2 DEF Inventory!Synced, ListedOK
      <3>3. CASE sync[k].listed[i] = Inventory!NoRecord /\ records[i].state = "active"
        <4>1. records[i] # Inventory!NoRecord
          BY <3>3 DEF Inventory!NoRecord
        <4>2. QED
          BY <1>0, <3>1, <3>3, <4>1, EndedType DEF Inventory!Synced, RecordsOK
      <3>4. CASE sync[k].listed[i] = Inventory!NoRecord /\ records[i].state # "active"
        BY <1>0, <3>1, <3>4 DEF Inventory!Synced, RecordsOK
      <3>5. QED
        BY <3>2, <3>3, <3>4
    <2>3. QED
      BY <2>1, <2>2 DEF RecordsOK
  <1>5. QED
    BY <1>1, <1>2, <1>3, <1>4
       DEF Inventory!Next, Inventory!Tick, Inventory!SilenceMadeElsewhere,
           Inventory!CreateSilence, Inventory!SilenceEndedElsewhere,
           Inventory!SilenceForgotten, Inventory!DeleteSilence,
           Inventory!SuppressionRead, Inventory!WriteFails, Inventory!ListSilences,
           Inventory!SyncFails

\* A listing names silences that exist, however late it is stored.
LEMMA SyncStep ==
    ASSUME Inventory!InventoryConstants, InventoryInv, Inventory!Next
    PROVE  sync' \in [Syncers -> SyncState] /\ ListedOK'
  <1>0. /\ sync \in [Syncers -> SyncState] /\ ListedOK /\ now \in Inventory!Time
        /\ silences \in [Ids -> SilenceType]
        /\ \A i \in Ids : Real(i) => Real(i)'
    BY SilencesStayReal DEF InventoryInv, InventoryTypes
  <1>1. CASE UNCHANGED sync
    BY <1>0, <1>1 DEF ListedOK
  <1>2. ASSUME NEW k \in Syncers, NEW l \in SyncState, sync' = [sync EXCEPT ![k] = l],
               \A i \in Ids : l.listed[i] # Inventory!NoRecord => Real(i)'
        PROVE  sync' \in [Syncers -> SyncState] /\ ListedOK'
    BY <1>0, <1>2 DEF ListedOK
  <1>3. ASSUME NEW k \in Syncers, Inventory!ListSilences(k)
        PROVE  sync' \in [Syncers -> SyncState] /\ ListedOK'
    <2>1. PICK f : f = [i \in Ids |-> IF silences[i].state \in {"active", "expired"}
                                      THEN silences[i] ELSE Inventory!NoRecord]
      OBVIOUS
    <2>2. f \in [Ids -> Inventory!Record]
      BY <1>0, <2>1, InventoryValues DEF SilenceType, Inventory!Record
    <2>3. \A i \in Ids : f[i] # Inventory!NoRecord => Real(i)'
      BY <1>0, <2>1 DEF Real
    <2>4. PICK l : l = [phase |-> "listed", at |-> now, listed |-> f]
      OBVIOUS
    <2>5. l \in SyncState /\ l.listed = f
      BY <1>0, <2>2, <2>4 DEF SyncState
    <2>6. sync' = [sync EXCEPT ![k] = l]
      BY <1>3, <2>1, <2>4 DEF Inventory!ListSilences
    <2>7. QED
      BY <1>2, <2>3, <2>5, <2>6
  <1>4. ASSUME NEW k \in Syncers, Inventory!SyncSilences(k) \/ Inventory!SyncFails(k)
        PROVE  sync' \in [Syncers -> SyncState] /\ ListedOK'
    <2>1. sync' = [sync EXCEPT ![k] = Inventory!NoSync]
      BY <1>4 DEF Inventory!SyncSilences, Inventory!SyncFails
    <2>2. QED
      BY <1>2, <2>1, InventoryValues
  <1>5. QED
    BY <1>1, <1>3, <1>4
       DEF Inventory!Next, Inventory!Tick, Inventory!SilenceMadeElsewhere,
           Inventory!CreateSilence, Inventory!SilenceEndedElsewhere,
           Inventory!SilenceForgotten, Inventory!DeleteSilence,
           Inventory!SuppressionRead, Inventory!RecordSilence,
           Inventory!ExpireSilenceRecord, Inventory!WriteFails

\* Time and failures stay within their bounds.
LEMMA ClockStep ==
    ASSUME Inventory!InventoryConstants, InventoryTypes, Inventory!Next
    PROVE  now' \in Inventory!Time /\ failures' \in 0..MaxFailures
  <1>0. /\ now \in 0..MaxEnd /\ failures \in 0..MaxFailures
        /\ MaxEnd \in Nat /\ MaxFailures \in Nat
    BY DEF InventoryTypes, Inventory!Time, Inventory!InventoryConstants
  <1>1. CASE Inventory!Tick
    BY <1>0, <1>1 DEF Inventory!Tick, Inventory!Time
  <1>2. CASE UNCHANGED <<now, failures>>
    BY <1>0, <1>2 DEF Inventory!Time
  <1>3. CASE UNCHANGED now /\ failures < MaxFailures /\ failures' = failures + 1
    BY <1>0, <1>3 DEF Inventory!Time
  <1>4. QED
    BY <1>1, <1>2, <1>3
       DEF Inventory!Next, Inventory!SilenceMadeElsewhere,
           Inventory!CreateSilence, Inventory!SilenceEndedElsewhere,
           Inventory!SilenceForgotten, Inventory!DeleteSilence,
           Inventory!SuppressionRead, Inventory!RecordSilence,
           Inventory!ExpireSilenceRecord, Inventory!WriteFails, Inventory!ListSilences,
           Inventory!SyncSilences, Inventory!SyncFails

\* The invariant of the inventory holds for any silences, loops and times and
\* any overlap of listings, creations and removals.
THEOREM InventoryInvariance ==
    ASSUME Inventory!InventoryConstants
    PROVE  Inventory!Spec => []InventoryInv
  <1>1. Inventory!Init => InventoryInv
    BY InventoryInit
  <1>2. InventoryInv /\ [Inventory!Next]_Inventory!vars => InventoryInv'
    <2> SUFFICES ASSUME InventoryInv, [Inventory!Next]_Inventory!vars
                 PROVE  InventoryInv'
      OBVIOUS
    <2>1. CASE Inventory!Next
      <3>1. silences' \in [Ids -> SilenceType]
        BY <2>1, SilencesStayReal DEF InventoryInv
      <3>2. silencedBy' \in [Alerts -> SUBSET Ids] /\ RemovableOK'
        BY <2>1, SilencedByStep
      <3>3. pending' \in SUBSET Inventory!Writes /\ PendingOK'
        BY <2>1, PendingStep
      <3>4. records' \in [Ids -> Inventory!Record] /\ RecordsOK'
        BY <2>1, RecordsStep
      <3>5. sync' \in [Syncers -> SyncState] /\ ListedOK'
        BY <2>1, SyncStep
      <3>6. now' \in Inventory!Time /\ failures' \in 0..MaxFailures
        BY <2>1, ClockStep DEF InventoryInv
      <3>7. InventoryTypes'
        BY <3>1, <3>2, <3>3, <3>4, <3>5, <3>6 DEF InventoryTypes
      <3>8. QED
        BY <3>2, <3>3, <3>4, <3>5, <3>7 DEF InventoryInv
    <2>2. CASE UNCHANGED Inventory!vars
      BY <2>2 DEF InventoryInv, InventoryTypes, RemovableOK, PendingOK, RecordsOK, ListedOK,
                  Real, Inventory!vars
    <2>3. QED
      BY <2>1, <2>2
  <1>3. QED
    BY <1>1, <1>2, PTL DEF Inventory!Spec

\* Silences, records and listings keep their types (RecordSilence,
\* ExpireSilenceRecord, SyncSilences).
THEOREM InventoryTypeCorrect ==
    ASSUME Inventory!InventoryConstants
    PROVE  Inventory!Spec => []Inventory!TypeOK
  <1>1. InventoryInv => Inventory!TypeOK
    <2> SUFFICES ASSUME InventoryTypes
                 PROVE  Inventory!TypeOK
      BY DEF InventoryInv
    <2>1. \A k \in Syncers : /\ sync[k].at \in Inventory!Time
                             /\ sync[k].listed \in [Ids -> Inventory!Record]
      BY DEF InventoryTypes, SyncState
    <2>2. QED
      BY <2>1 DEF InventoryTypes, SilenceType, Inventory!TypeOK
  <1>2. QED
    BY <1>1, InventoryInvariance, PTL

\* No record is invented: late upserts, expiries and stale listings only ever
\* store silences the Alertmanager made (RecordSilence, SyncSilences).
THEOREM RecordsOfRealSilences ==
    ASSUME Inventory!InventoryConstants
    PROVE  Inventory!Spec => []RecordsOK
  <1>1. InventoryInv => RecordsOK
    BY DEF InventoryInv
  <1>2. QED
    BY <1>1, InventoryInvariance, PTL

\* A removal only reaches silences that were made and that match the alert it
\* was asked for, although it trusts a row that may be out of date
\* (removeAlertSilence, SilenceRemovalScope).
THEOREM RemovalWithinReach ==
    ASSUME Inventory!InventoryConstants
    PROVE  Inventory!Spec =>
              [][\A a \in Alerts, i \in Ids :
                    Inventory!DeleteSilence(a, i) => Real(i) /\ a \in Matched[i]
                ]_Inventory!vars
  <1>1. InventoryInv =>
           \A a \in Alerts, i \in Ids :
              Inventory!DeleteSilence(a, i) => Real(i) /\ a \in Matched[i]
    BY DEF InventoryInv, RemovableOK, Inventory!DeleteSilence, Inventory!SilenceRemovalScope
  <1>2. QED
    BY <1>1, InventoryInvariance, PTL
=============================================================================
