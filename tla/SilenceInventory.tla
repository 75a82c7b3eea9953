-------------------------- MODULE SilenceInventory --------------------------
(***************************************************************************)
(* The stored inventory of silences (alertmanager_silences) beside the     *)
(* Alertmanager of one source: written when Promview creates or removes a  *)
(* silence, and overwritten by listings that two loops read, the ticker    *)
(* pass and the refresher, each in two steps (postgres/silence.go,         *)
(* postgres/silence_sync.go, httpapi/silence.go).  What a silence matches  *)
(* is Silencing's.                                                         *)
(***************************************************************************)
EXTENDS Integers, FiniteSets

CONSTANTS
    Ids,          \* silence ids
    Alerts,       \* alerts the operator may act on
    Matched,      \* the alerts each silence matches
    Syncers,      \* loops that list silences
    MaxEnd,       \* latest end a silence is created with
    MaxFailures   \* bound: failed writes of a record

ASSUME InventoryConstants ==
    /\ Matched \in [Ids -> SUBSET Alerts]
    /\ MaxEnd \in Nat \ {0}
    /\ MaxFailures \in Nat

VARIABLES
    now,
    silences,   \* the Alertmanager's silences
    silencedBy, \* silenced_by of each alert, as last reconciled
    records,    \* the stored records
    pending,    \* creations and removals done at the Alertmanager, not stored
    sync,       \* per loop, a listing read and not stored
    failures

vars == <<now, silences, silencedBy, records, pending, sync, failures>>

Time == 0..MaxEnd

\* unborn: not created yet.  forgotten: no longer listed.
SilenceStates == {"unborn", "active", "expired", "forgotten"}
Unborn == [state |-> "unborn", ends |-> 0]

NoRecord == [state |-> "none", ends |-> 0]
Record == [state: {"none", "active", "expired"}, ends: Time]

Writes == [kind: {"record", "expire"}, id: Ids, ends: Time]
NoSync == [phase |-> "idle", at |-> 0, listed |-> [i \in Ids |-> NoRecord]]

Minimum(x, y) == IF x < y THEN x ELSE y

Init ==
    /\ now = 0
    /\ silences = [i \in Ids |-> Unborn]
    /\ silencedBy = [a \in Alerts |-> {}]
    /\ records = [i \in Ids |-> NoRecord]
    /\ pending = {}
    /\ sync = [k \in Syncers |-> NoSync]
    /\ failures = 0

-----------------------------------------------------------------------------
(***************************************************************************)
(* The Alertmanager (external).                                            *)
(***************************************************************************)
\* Time passes, and silences run out.
Tick ==
    /\ now < MaxEnd
    /\ now' = now + 1
    /\ silences' = [i \in Ids |->
           IF silences[i].state = "active" /\ silences[i].ends <= now + 1
           THEN [silences[i] EXCEPT !.state = "expired"] ELSE silences[i]]
    /\ UNCHANGED <<silencedBy, records, pending, sync, failures>>

\* A silence made straight on the Alertmanager, or one whose answer to
\* CreateSilence was lost.
SilenceMadeElsewhere(i, ends) ==
    /\ silences[i].state = "unborn" /\ ends > now
    /\ silences' = [silences EXCEPT ![i] = [state |-> "active", ends |-> ends]]
    /\ UNCHANGED <<now, silencedBy, records, pending, sync, failures>>

\* A silence expired straight on the Alertmanager, or by a removal whose answer
\* was lost.
SilenceEndedElsewhere(i) ==
    /\ silences[i].state = "active"
    /\ silences' = [silences EXCEPT ![i] = [state |-> "expired", ends |-> now]]
    /\ UNCHANGED <<now, silencedBy, records, pending, sync, failures>>

\* Expired silences are listed for a while, and then no longer.
SilenceForgotten(i) ==
    /\ silences[i].state = "expired"
    /\ silences' = [silences EXCEPT ![i].state = "forgotten"]
    /\ UNCHANGED <<now, silencedBy, records, pending, sync, failures>>

\* ReconcileSource stores what the Alertmanager reports as silencing an alert.
SuppressionRead(a) ==
    /\ silencedBy' = [silencedBy EXCEPT ![a] =
           {i \in Ids : silences[i].state = "active" /\ a \in Matched[i]}]
    /\ UNCHANGED <<now, silences, records, pending, sync, failures>>

-----------------------------------------------------------------------------
(***************************************************************************)
(* Promview creates and removes.                                           *)
(***************************************************************************)
CreateSilence(i, ends) ==
    /\ silences[i].state = "unborn" /\ ends > now
    /\ silences' = [silences EXCEPT ![i] = [state |-> "active", ends |-> ends]]
    /\ pending' = pending \cup {[kind |-> "record", id |-> i, ends |-> ends]}
    /\ UNCHANGED <<now, silencedBy, records, sync, failures>>

\* The id must be one the alert's stored row was last seen silenced by; the
\* operator reaches the alert and its source has an Alertmanager.
SilenceRemovalScope(a, i) == i \in silencedBy[a]

\* removeAlertSilence: a silence that ended meanwhile is no error.
DeleteSilence(a, i) ==
    /\ SilenceRemovalScope(a, i)
    /\ silences' = [silences EXCEPT ![i] =
           IF @.state = "active" THEN [state |-> "expired", ends |-> now] ELSE @]
    /\ pending' = pending \cup {[kind |-> "expire", id |-> i, ends |-> now]}
    /\ UNCHANGED <<now, silencedBy, records, sync, failures>>

\* RecordSilence: an upsert of the silence as it was created.
RecordSilence(w) ==
    /\ w \in pending /\ w.kind = "record"
    /\ records' = [records EXCEPT ![w.id] = [state |-> "active", ends |-> w.ends]]
    /\ pending' = pending \ {w}
    /\ UNCHANGED <<now, silences, silencedBy, sync, failures>>

\* A record of a silence that is over: ends_at = LEAST(ends_at, now).
Ended(record, at) == [state |-> "expired", ends |-> Minimum(record.ends, at)]

\* ExpireSilenceRecord: an update, nothing where there is no record.
ExpireSilenceRecord(w) ==
    /\ w \in pending /\ w.kind = "expire"
    /\ records' = [records EXCEPT ![w.id] = IF @ = NoRecord THEN @ ELSE Ended(@, w.ends)]
    /\ pending' = pending \ {w}
    /\ UNCHANGED <<now, silences, silencedBy, sync, failures>>

\* Either write fails: it is logged, and the request goes on.
WriteFails(w) ==
    /\ w \in pending
    /\ failures < MaxFailures
    /\ failures' = failures + 1
    /\ pending' = pending \ {w}
    /\ UNCHANGED <<now, silences, silencedBy, records, sync>>

-----------------------------------------------------------------------------
(***************************************************************************)
(* The loops.                                                              *)
(***************************************************************************)
\* ListSilences asks for expired silences too.  The time the sync stores is the
\* loop's, from before the listing.
ListSilences(k) ==
    /\ sync[k].phase = "idle"
    /\ sync' = [sync EXCEPT ![k] = [phase |-> "listed", at |-> now, listed |-> [i \in Ids |->
           IF silences[i].state \in {"active", "expired"} THEN silences[i] ELSE NoRecord]]]
    /\ UNCHANGED <<now, silences, silencedBy, records, pending, failures>>

\* Mutant: records the listing no longer names are left alone.
Synced_UpsertOnly(k, i) ==
    IF sync[k].listed[i] # NoRecord THEN sync[k].listed[i] ELSE records[i]

\* The upsert of what is listed, and the end of the records that are not.
Synced(k, i) ==
    IF sync[k].listed[i] # NoRecord THEN sync[k].listed[i]
    ELSE IF records[i].state = "active" THEN Ended(records[i], sync[k].at)
    ELSE records[i]

SyncSilences(k) ==
    /\ sync[k].phase = "listed"
    /\ records' = [i \in Ids |-> Synced(k, i)]
    /\ sync' = [sync EXCEPT ![k] = NoSync]
    /\ UNCHANGED <<now, silences, silencedBy, pending, failures>>

SyncFails(k) ==
    /\ sync[k].phase = "listed"
    /\ failures < MaxFailures
    /\ failures' = failures + 1
    /\ sync' = [sync EXCEPT ![k] = NoSync]
    /\ UNCHANGED <<now, silences, silencedBy, records, pending>>

-----------------------------------------------------------------------------
Next ==
    \/ Tick
    \/ \E i \in Ids : \/ \E ends \in Time : SilenceMadeElsewhere(i, ends) \/ CreateSilence(i, ends)
                      \/ SilenceEndedElsewhere(i) \/ SilenceForgotten(i)
    \/ \E a \in Alerts : SuppressionRead(a) \/ \E i \in Ids : DeleteSilence(a, i)
    \/ \E w \in pending : RecordSilence(w) \/ ExpireSilenceRecord(w) \/ WriteFails(w)
    \/ \E k \in Syncers : ListSilences(k) \/ SyncSilences(k) \/ SyncFails(k)

Spec == Init /\ [][Next]_vars

\* Each loop lists again and again and stores what it listed, and a request
\* under way finishes.  Nothing is assumed of time or of the Alertmanager.
InventoryFairness ==
    /\ \A k \in Syncers : WF_vars(ListSilences(k)) /\ WF_vars(SyncSilences(k))
    /\ WF_vars(\E w \in pending : RecordSilence(w) \/ ExpireSilenceRecord(w))

FairSpec == Spec /\ InventoryFairness

-----------------------------------------------------------------------------
(***************************************************************************)
(* Properties.                                                             *)
(***************************************************************************)

\* Silences, records and listings have their types.
TypeOK ==
    /\ now \in Time
    /\ silences \in [Ids -> [state: SilenceStates, ends: Time]]
    /\ silencedBy \in [Alerts -> SUBSET Ids]
    /\ records \in [Ids -> Record]
    /\ pending \subseteq Writes
    /\ \A k \in Syncers : sync[k].at \in Time /\ sync[k].listed \in [Ids -> Record]
    /\ failures \in 0..MaxFailures

\* Once the Alertmanager is quiet, the inventory agrees with it about which
\* silences are live, whichever of two overlapping listings was stored last
\* and whatever a creation or a removal wrote in between.
RecordsSettle ==
    <>[](\A i \in Ids : (records[i].state = "active") <=> (silences[i].state = "active"))
=============================================================================
