----------------------------- MODULE Reconciler -----------------------------
(***************************************************************************)
(* The loops that bring one source in line with its Alertmanager, running  *)
(* beside the webhooks: the reconciler's ticker pass with its in-memory    *)
(* miss counters (cmd/promview/reconcile.go) and the refresher that        *)
(* re-reads the source after Promview writes a silence                     *)
(* (cmd/promview/silence_refresh.go).  What they write to a row is         *)
(* AlertRow's Reconciled.                                                  *)
(*                                                                         *)
(* A pass reads the Alertmanager, then the table, then the silences, and   *)
(* only then writes; everything else may move in between, so each read is  *)
(* a step.  The Alertmanager (what it holds, which silences are active,    *)
(* the webhooks it has sent) is external.                                  *)
(***************************************************************************)
EXTENDS AlertRow, FiniteSets

CONSTANTS
    Covers,         \* the alerts each silence matches
    QueueCap,       \* capacity of the refresher's request channel (64)
    MaxChanges,     \* bound: changes at the Alertmanager
    MaxRestarts     \* bound: restarts of Promview

ASSUME ReconcilerConstants ==
    /\ Covers \in [Silences -> SUBSET Alerts]
    /\ Labels # {} /\ Annotations # {}
    /\ QueueCap \in Nat \ {0}
    /\ MaxChanges \in Nat
    /\ MaxRestarts \in Nat
    /\ MaxOccurrence \in Nat

VARIABLES
    held,      \* Alertmanager: the alerts it holds
    active,    \* Alertmanager: its active silences
    mail,      \* webhook deliveries on their way
    rows,      \* the alerts table, rows of this source
    misses,    \* the reconciler's counters; 0 is no entry
    pass,      \* the ticker pass under way
    queue,     \* requests in the refresher's channel
    refresh,   \* the refresh in flight
    changes, restarts,
    previous   \* ghost: the alerts the last counted reading omitted

source == <<held, active, mail, changes>>
reconcilerVars == <<source, rows, misses, pass, queue, refresh, restarts, previous>>

missesBeforeResolving == 2

\* One answer of LiveAlerts.
Reading == [held: SUBSET Alerts, active: SUBSET Silences]
Empty == [held |-> {}, active |-> {}]

\* What a reading says of an alert: inhibition aside, an alert is suppressed
\* by the active silences that match it.
LiveIn(reading, a) ==
    LET by == {s \in reading.active : a \in Covers[s]}
    IN  IF a \in reading.held THEN [suppressed |-> by # {}, silencedBy |-> by]
        ELSE NotHeld

Now == [held |-> held, active |-> active]

Firing == {a \in Alerts : rows[a].status = "firing"}

IdlePass == [phase |-> "idle", live |-> Empty, stored |-> {}, listing |-> NoListing]
IdleRefresh == [phase |-> "idle", left |-> 0, live |-> Empty, listing |-> NoListing]

\* len(refreshDelays)
refreshReads == 2

ReconcilerInit ==
    /\ held = {}
    /\ active = {}
    /\ mail = {}
    /\ rows = [a \in Alerts |-> Absent]
    /\ misses = [a \in Alerts |-> 0]
    /\ pass = IdlePass
    /\ queue = 0
    /\ refresh = IdleRefresh
    /\ changes = 0
    /\ restarts = 0
    /\ previous = {}

-----------------------------------------------------------------------------
(***************************************************************************)
(* The Alertmanager (external) and its webhooks.                           *)
(***************************************************************************)
Change ==
    /\ changes < MaxChanges
    /\ changes' = changes + 1
    /\ UNCHANGED <<rows, misses, pass, refresh, restarts, previous>>

AlertFires(a) ==
    /\ Change
    /\ a \notin held
    /\ held' = held \cup {a}
    /\ mail' = mail \cup {<<a, "firing">>}
    /\ UNCHANGED <<active, queue>>

AlertEnds(a) ==
    /\ Change
    /\ a \in held
    /\ held' = held \ {a}
    /\ mail' = mail \cup {<<a, "resolved">>}
    /\ UNCHANGED <<active, queue>>

\* Silences survive a restart, alerts do not; nobody is notified of either.
AlertmanagerRestarts ==
    /\ Change
    /\ held # {}
    /\ held' = {}
    /\ UNCHANGED <<active, mail, queue>>

\* A delivery that is never retried.
WebhookLost(m) ==
    /\ m \in mail
    /\ mail' = mail \ {m}
    /\ UNCHANGED <<held, active, changes, rows, misses, pass, queue, refresh, restarts, previous>>

WebhookDelivered(m) ==
    LET a == m[1]
        d == [status |-> m[2], labels |-> CHOOSE l \in Labels : TRUE,
              annotations |-> CHOOSE n \in Annotations : TRUE]
    IN  /\ m \in mail
        /\ mail' = mail \ {m}
        /\ Reopens(rows[a], d) => rows[a].occurrence < MaxOccurrence
        /\ rows' = [rows EXCEPT ![a] = Ingested(@, d).row]
        /\ UNCHANGED <<held, active, changes, misses, pass, queue, refresh, restarts, previous>>

\* refreshURL: a full channel drops the request.
refreshURL == queue' = IF queue < QueueCap THEN queue + 1 ELSE queue

\* Promview writes or deletes a silence at the Alertmanager, then asks for a
\* refresh (refreshingSilencer).
WriteSilence(s) ==
    /\ Change
    /\ active' = IF s \in active THEN active \ {s} ELSE active \cup {s}
    /\ refreshURL
    /\ UNCHANGED <<held, mail>>

\* Nobody asks for a refresh when a silence runs out, is written elsewhere, or
\* is written by Promview while refreshURL cannot list the sources.
SilenceChangesUnannounced(s) ==
    /\ Change
    /\ active' = IF s \in active THEN active \ {s} ELSE active \cup {s}
    /\ UNCHANGED <<held, mail, queue>>

-----------------------------------------------------------------------------
(***************************************************************************)
(* reconcileSource, one pass of the ticker.                                *)
(***************************************************************************)
\* reconcileOnce finds the source disabled: its counters go.
PassFindsSourceDisabled ==
    /\ pass.phase = "idle"
    /\ changes < MaxChanges
    /\ changes' = changes + 1
    /\ misses' = [a \in Alerts |-> 0]
    /\ previous' = {}
    /\ UNCHANGED <<held, active, mail, rows, pass, queue, refresh, restarts>>

\* LiveAlerts; an error leaves the pass where it was, and is a stutter.
PassReadsLive ==
    /\ pass.phase = "idle"
    /\ pass' = [pass EXCEPT !.phase = "live", !.live = Now]
    /\ UNCHANGED <<source, rows, misses, queue, refresh, restarts, previous>>

\* FiringFingerprints
PassReadsStored ==
    /\ pass.phase = "live"
    /\ pass' = [pass EXCEPT !.phase = "stored", !.stored = Firing]
    /\ UNCHANGED <<source, rows, misses, queue, refresh, restarts, previous>>

\* FiringFingerprints fails: the pass ends without touching the counters.
PassAbandoned ==
    /\ pass.phase = "live"
    /\ pass' = IdlePass
    /\ UNCHANGED <<source, rows, misses, queue, refresh, restarts, previous>>

\* syncSilences: the active ids, or nil when the listing or the sync failed.
PassListsSilences(listing) ==
    /\ pass.phase = "stored"
    /\ listing \in {NoListing, [ok |-> TRUE, ids |-> active]}
    /\ pass' = [pass EXCEPT !.phase = "listed", !.listing = listing]
    /\ UNCHANGED <<source, rows, misses, queue, refresh, restarts, previous>>

\* Mutant: an empty reading counts like any other.
trustworthy_Always == TRUE

\* An Alertmanager holding nothing while Promview holds firing alerts is not
\* believed.
trustworthy == pass.live.held # {} \/ pass.stored = {}

\* The counter after this reading: reset by presence, by an untrusted reading
\* and for alerts no longer stored.  Told apart up to the threshold.
Counted(a) ==
    IF trustworthy /\ a \in pass.stored \ pass.live.held
    THEN IF misses[a] < missesBeforeResolving THEN misses[a] + 1 ELSE misses[a]
    ELSE 0

missing == {a \in Alerts : Counted(a) >= missesBeforeResolving}

\* Mutant: counters start over with every pass.
Kept_Nothing(a) == 0

\* Counters of the alerts just resolved are dropped.
Kept(a) == IF a \in missing THEN 0 ELSE Counted(a)

\* The table after ReconcileSource with this reading.
Applied(reading, gone, listing, skipped) ==
    [a \in Alerts |-> Reconciled(rows[a], LiveIn(reading, a), a \in gone, listing,
                                 a \in skipped).row]

Omitted == IF trustworthy THEN pass.stored \ pass.live.held ELSE {}

PassReconciles(skipped) ==
    /\ pass.phase = "listed"
    /\ rows' = Applied(pass.live, missing, pass.listing, skipped)
    /\ misses' = [a \in Alerts |-> Kept(a)]
    /\ previous' = Omitted
    /\ pass' = IdlePass
    /\ UNCHANGED <<source, queue, refresh, restarts>>

\* The transaction fails: the counters have moved all the same.
PassFails ==
    /\ pass.phase = "listed"
    /\ misses' = [a \in Alerts |-> Counted(a)]
    /\ previous' = Omitted
    /\ pass' = IdlePass
    /\ UNCHANGED <<source, rows, queue, refresh, restarts>>

-----------------------------------------------------------------------------
(***************************************************************************)
(* The silence refresher.                                                  *)
(***************************************************************************)
\* The loop over refreshDelays with so many reads to go.
Continued(left) ==
    IF left = 0 THEN IdleRefresh ELSE [IdleRefresh EXCEPT !.phase = "waiting", !.left = left]

\* run: a request for a source with a refresh in flight is dropped.
RefreshClaimed ==
    /\ queue > 0
    /\ queue' = queue - 1
    /\ refresh' = IF refresh.phase = "idle" THEN Continued(refreshReads) ELSE refresh
    /\ UNCHANGED <<source, rows, misses, pass, restarts, previous>>

RefreshReadsLive ==
    /\ refresh.phase = "waiting"
    /\ refresh' = [refresh EXCEPT !.phase = "live", !.left = @ - 1, !.live = Now]
    /\ UNCHANGED <<source, rows, misses, pass, queue, restarts, previous>>

\* LiveAlerts fails: continue with the next delay.
RefreshUnreadable ==
    /\ refresh.phase = "waiting"
    /\ refresh' = Continued(refresh.left - 1)
    /\ UNCHANGED <<source, rows, misses, pass, queue, restarts, previous>>

\* The source is gone, or the sources cannot be listed: the refresh returns.
RefreshAbandoned ==
    /\ refresh.phase = "waiting"
    /\ refresh' = IdleRefresh
    /\ UNCHANGED <<source, rows, misses, pass, queue, restarts, previous>>

RefreshListsSilences(listing) ==
    /\ refresh.phase = "live"
    /\ listing \in {NoListing, [ok |-> TRUE, ids |-> active]}
    /\ refresh' = [refresh EXCEPT !.phase = "listed", !.listing = listing]
    /\ UNCHANGED <<source, rows, misses, pass, queue, restarts, previous>>

\* No missing set: a refresh never concludes that an alert has ended.
RefreshReconciles(skipped) ==
    /\ refresh.phase = "listed"
    /\ rows' = Applied(refresh.live, {}, refresh.listing, skipped)
    /\ refresh' = Continued(refresh.left)
    /\ UNCHANGED <<source, misses, pass, queue, restarts, previous>>

RefreshFails ==
    /\ refresh.phase = "listed"
    /\ refresh' = Continued(refresh.left)
    /\ UNCHANGED <<source, rows, misses, pass, queue, restarts, previous>>

\* Promview restarts: counters, the pass and the requests are in memory only.
Restart ==
    /\ restarts < MaxRestarts
    /\ restarts' = restarts + 1
    /\ misses' = [a \in Alerts |-> 0]
    /\ pass' = IdlePass
    /\ queue' = 0
    /\ refresh' = IdleRefresh
    /\ previous' = {}
    /\ UNCHANGED <<source, rows>>

-----------------------------------------------------------------------------
Mail == Alerts \X {"firing", "resolved"}

ReconcilerNext ==
    \/ \E a \in Alerts : AlertFires(a) \/ AlertEnds(a)
    \/ AlertmanagerRestarts
    \/ \E m \in Mail : WebhookLost(m) \/ WebhookDelivered(m)
    \/ \E s \in Silences : WriteSilence(s) \/ SilenceChangesUnannounced(s)
    \/ PassFindsSourceDisabled \/ PassReadsLive \/ PassReadsStored \/ PassAbandoned
    \/ \E listing \in Listings : PassListsSilences(listing)
    \/ \E skipped \in SUBSET Alerts : PassReconciles(skipped)
    \/ PassFails
    \/ RefreshClaimed \/ RefreshReadsLive \/ RefreshUnreadable \/ RefreshAbandoned
    \/ \E listing \in Listings : RefreshListsSilences(listing)
    \/ \E skipped \in SUBSET Alerts : RefreshReconciles(skipped)
    \/ RefreshFails
    \/ Restart

\* The ticker keeps ticking; reads and transactions succeed again and again,
\* and no row is locked every time the pass comes by, nor every time it
\* would resolve one.  Nothing is assumed of the Alertmanager or of webhooks.
PassFairness ==
    /\ WF_reconcilerVars(PassReadsLive)
    /\ SF_reconcilerVars(PassReadsStored)
    /\ WF_reconcilerVars(\E listing \in Listings : PassListsSilences(listing))
    /\ SF_reconcilerVars(PassReconciles({}))
    /\ SF_reconcilerVars(missing # {} /\ PassReconciles({}))

\* A refresh in flight ends.
RefreshFairness ==
    /\ WF_reconcilerVars(RefreshReadsLive \/ RefreshUnreadable \/ RefreshAbandoned)
    /\ WF_reconcilerVars(\E listing \in Listings : RefreshListsSilences(listing))
    /\ WF_reconcilerVars(RefreshReconciles({}) \/ RefreshFails)
    /\ WF_reconcilerVars(RefreshClaimed)

ReconcilerSpec == ReconcilerInit /\ [][ReconcilerNext]_reconcilerVars
ReconcilerFairSpec == ReconcilerSpec /\ PassFairness /\ RefreshFairness

-----------------------------------------------------------------------------
(***************************************************************************)
(* Properties.                                                             *)
(***************************************************************************)

\* Table, counters, readings and requests have their types.
ReconcilerTypeOK ==
    /\ held \in SUBSET Alerts
    /\ active \in SUBSET Silences
    /\ mail \in SUBSET Mail
    /\ rows \in [Alerts -> Row \cup {Absent}]
    /\ misses \in [Alerts -> 0..missesBeforeResolving]
    /\ pass \in [phase: {"idle", "live", "stored", "listed"}, live: Reading,
                 stored: SUBSET Alerts, listing: Listings]
    /\ queue \in 0..QueueCap
    /\ refresh \in [phase: {"idle", "waiting", "live", "listed"}, left: 0..refreshReads,
                    live: Reading, listing: Listings]
    /\ changes \in 0..MaxChanges
    /\ restarts \in 0..MaxRestarts
    /\ previous \in SUBSET Alerts

ResolvedHere(a) ==
    /\ rows[a].status = "firing" /\ rows'[a].status = "resolved"
    /\ mail' = mail

\* Two rules keep a healthy Alertmanager from emptying the console: what is
\* resolved without a webhook was stored and absent from the two latest
\* readings the reconciler counted, and the one that resolved it listed some
\* other alert.
ResolvedAfterTwoAbsences ==
    [][\A a \in Alerts : ResolvedHere(a) =>
          a \in previous /\ a \in previous' /\ pass.live.held # {}]_reconcilerVars

\* The webhook of an ending may be lost: an alert that a working Alertmanager
\* no longer holds stops firing in Promview.
EndedAlertsAreNoticed ==
    \A a \in Alerts :
        (a \in Firing /\ a \notin held /\ held # {})
            ~> (a \notin Firing \/ a \in held \/ held = {})

\* Stale readings are overtaken: once the Alertmanager is quiet, suppression in
\* Promview settles on what it reports, whichever loop wrote last.
SuppressionSettles ==
    <>[](\A a \in held \cap Firing :
            /\ rows[a].suppressed = LiveIn(Now, a).suppressed
            /\ rows[a].silencedBy = LiveIn(Now, a).silencedBy)
=============================================================================
