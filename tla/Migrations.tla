----------------------------- MODULE Migrations -----------------------------
(***************************************************************************)
(* Schema migrations: `promview migrate' (ApplyMigrations), the ledger     *)
(* schema_migrations, the baselining of volumes that older releases        *)
(* initialized without a ledger, and the check that keeps a server from    *)
(* starting on a schema behind its binary (PendingMigrations).             *)
(*                                                                         *)
(* Several processes run at once: migration jobs of two releases, and      *)
(* servers that start meanwhile.  A runner works on one connection, whose  *)
(* session owns an advisory lock; it may die between any two statements.   *)
(* Baselining commits one ledger row at a time, a migration commits its    *)
(* SQL and its ledger row together.                                        *)
(*                                                                         *)
(* A migration is its version.  Its SQL has no IF NOT EXISTS, so it fails  *)
(* on a schema that has it already, or that lacks an earlier one.          *)
(***************************************************************************)
EXTENDS Naturals

CONSTANTS
    Runners,     \* `promview migrate' processes
    Servers,     \* `promview' processes
    Latest,      \* the last version of each process's migrations directory
    LegacyLast,  \* the last version a volume without a ledger can have
    Known,       \* the versions baselineLegacySchema looks for, in its order
    NoRunner,    \* the advisory lock is free
    MaxCrashes   \* bound: runners that die

ASSUME MigrationConstants ==
    /\ Latest \in [Runners \cup Servers -> Nat]
    /\ LegacyLast \in Nat
    /\ Known \in [1..LegacyLast -> 1..LegacyLast]
    /\ \A v \in 1..LegacyLast : \E i \in 1..LegacyLast : Known[i] = v
    /\ \A i, j \in 1..LegacyLast : Known[i] = Known[j] => i = j
    /\ \A r \in Runners : LegacyLast <= Latest[r]
    /\ NoRunner \notin Runners
    /\ MaxCrashes \in Nat

VARIABLES
    schema,       \* versions whose tables and columns exist
    ledgerTable,  \* schema_migrations exists
    ledger,       \* its rows
    holder,       \* the session that owns the advisory lock
    pc,           \* where each runner is
    at,           \* baseline: position in Known; apply: last version dealt with
    up,           \* the servers that passed the check
    crashes,
    cutShort      \* a baseline died with legacy versions left unrecorded

vars == <<schema, ledgerTable, ledger, holder, pc, at, up, crashes, cutShort>>

Locations == {"idle", "waiting", "locked", "counting", "baseline", "check", "run",
              "done", "failed"}

\* loadMigrations: every version up to the release's last, in order.
Directory(p) == 1..Latest[p]

\* A fresh volume, or one initialized by an older release.
Init ==
    /\ \E k \in 0..LegacyLast : schema = 1..k
    /\ ledgerTable = FALSE
    /\ ledger = {}
    /\ holder = NoRunner
    /\ pc = [r \in Runners |-> "idle"]
    /\ at = [r \in Runners |-> 0]
    /\ up = {}
    /\ crashes = 0
    /\ cutShort = FALSE

-----------------------------------------------------------------------------
\* The runner goes on at location l, with position i.
Goto(r, l, i) ==
    /\ pc' = [pc EXCEPT ![r] = l]
    /\ at' = [at EXCEPT ![r] = i]

\* The runner ends at location l; its lock is released with its session.
End(r, l) ==
    /\ Goto(r, l, 0)
    /\ holder' = IF holder = r THEN NoRunner ELSE holder

StartMigrate(r) ==
    /\ pc[r] = "idle"
    /\ Goto(r, "waiting", 0)
    /\ UNCHANGED <<schema, ledgerTable, ledger, holder, up, crashes, cutShort>>

\* Mutant: the runner does not wait for the lock.
TakeLock_NoWait(r) ==
    /\ pc[r] = "waiting"
    /\ holder' = r
    /\ Goto(r, "locked", 0)
    /\ UNCHANGED <<schema, ledgerTable, ledger, up, crashes, cutShort>>

\* SELECT pg_advisory_lock.
TakeLock(r) ==
    /\ pc[r] = "waiting"
    /\ holder = NoRunner
    /\ holder' = r
    /\ Goto(r, "locked", 0)
    /\ UNCHANGED <<schema, ledgerTable, ledger, up, crashes, cutShort>>

CreateLedger(r) ==
    /\ pc[r] = "locked"
    /\ ledgerTable' = TRUE
    /\ Goto(r, "counting", 0)
    /\ UNCHANGED <<schema, ledger, holder, up, crashes, cutShort>>

\* baselineLegacySchema returns at once when anything is recorded.
CountApplied(r) ==
    /\ pc[r] = "counting"
    /\ IF ledger = {} THEN Goto(r, "baseline", 1) ELSE Goto(r, "check", 0)
    /\ UNCHANGED <<schema, ledgerTable, ledger, holder, up, crashes, cutShort>>

\* One known version: recorded when the schema has it.  Two runners recording
\* the same version collide on the primary key.
BaselineOne(r) ==
    /\ pc[r] = "baseline"
    /\ IF at[r] > LegacyLast THEN /\ Goto(r, "check", 0)
                                  /\ UNCHANGED <<ledger, holder>>
       ELSE LET v == Known[at[r]]
            IN  IF v \notin schema THEN /\ Goto(r, "baseline", at[r] + 1)
                                        /\ UNCHANGED <<ledger, holder>>
                ELSE IF v \in ledger THEN End(r, "failed") /\ UNCHANGED ledger
                ELSE /\ ledger' = ledger \cup {v}
                     /\ Goto(r, "baseline", at[r] + 1)
                     /\ UNCHANGED holder
    /\ UNCHANGED <<schema, ledgerTable, up, crashes, cutShort>>

\* Is the next version of the directory recorded?
CheckMigration(r) ==
    /\ pc[r] = "check"
    /\ IF at[r] = Latest[r] THEN End(r, "done")
       ELSE /\ IF at[r] + 1 \in ledger THEN Goto(r, "check", at[r] + 1)
                                       ELSE Goto(r, "run", at[r])
            /\ UNCHANGED holder
    /\ UNCHANGED <<schema, ledgerTable, ledger, up, crashes, cutShort>>

\* The SQL of version v succeeds on this schema.
Runs(v) == v \notin schema /\ 1..(v - 1) \subseteq schema

\* The migration and its ledger row, in one transaction.
RunMigration(r) ==
    /\ pc[r] = "run"
    /\ LET v == at[r] + 1
       IN  IF Runs(v) /\ v \notin ledger
           THEN /\ schema' = schema \cup {v}
                /\ ledger' = ledger \cup {v}
                /\ Goto(r, "check", v)
                /\ UNCHANGED holder
           ELSE End(r, "failed") /\ UNCHANGED <<schema, ledger>>
    /\ UNCHANGED <<ledgerTable, up, crashes, cutShort>>

\* Dying now leaves known versions of the schema out of a ledger that is not
\* empty, so no later run baselines them.
LeavesBaseline(r) ==
    /\ pc[r] = "baseline"
    /\ ledger # {}
    /\ \E i \in at[r]..LegacyLast : Known[i] \in schema

\* Mutant: the lock outlives its session.
Crash_KeepsLock(r) ==
    /\ pc[r] \notin {"idle", "done", "failed"}
    /\ crashes < MaxCrashes
    /\ crashes' = crashes + 1
    /\ Goto(r, "idle", 0)
    /\ cutShort' = (cutShort \/ LeavesBaseline(r))
    /\ UNCHANGED <<schema, ledgerTable, ledger, holder, up>>

\* The process is stopped or loses its connection: an open transaction rolls
\* back and the session's lock is released.  The job is started again.
Crash(r) ==
    /\ pc[r] \notin {"idle", "done", "failed"}
    /\ crashes < MaxCrashes
    /\ crashes' = crashes + 1
    /\ End(r, "idle")
    /\ cutShort' = (cutShort \/ LeavesBaseline(r))
    /\ UNCHANGED <<schema, ledgerTable, ledger, up>>

\* Mutant: a database without a ledger has nothing pending.
Pending_NoLedger(p) == IF ledgerTable THEN Directory(p) \ ledger ELSE {}

\* PendingMigrations: no ledger is an empty one.
Pending(p) == IF ledgerTable THEN Directory(p) \ ledger ELSE Directory(p)

\* run: the server refuses to start while anything is pending.
StartServer(s) ==
    /\ s \notin up
    /\ Pending(s) = {}
    /\ up' = up \cup {s}
    /\ UNCHANGED <<schema, ledgerTable, ledger, holder, pc, at, crashes, cutShort>>

StopServer(s) ==
    /\ s \in up
    /\ up' = up \ {s}
    /\ UNCHANGED <<schema, ledgerTable, ledger, holder, pc, at, crashes, cutShort>>

-----------------------------------------------------------------------------
Migrate(r) ==
    \/ TakeLock(r) \/ CreateLedger(r) \/ CountApplied(r)
    \/ BaselineOne(r) \/ CheckMigration(r) \/ RunMigration(r)

Next ==
    \/ \E r \in Runners : StartMigrate(r) \/ Migrate(r) \/ Crash(r)
    \/ \E s \in Servers : StartServer(s) \/ StopServer(s)

\* A runner goes on, and a job that died is started again.
RunnerFairness == \A r \in Runners : WF_vars(StartMigrate(r)) /\ WF_vars(Migrate(r))

Spec == Init /\ [][Next]_vars
FairSpec == Spec /\ RunnerFairness

-----------------------------------------------------------------------------
(***************************************************************************)
(* Properties.                                                             *)
(***************************************************************************)

\* The variables have their types.
TypeOK ==
    /\ schema \subseteq Nat /\ ledger \subseteq Nat
    /\ ledgerTable \in BOOLEAN /\ cutShort \in BOOLEAN
    /\ holder \in Runners \cup {NoRunner}
    /\ pc \in [Runners -> Locations] /\ at \in [Runners -> Nat]
    /\ up \subseteq Servers
    /\ crashes \in Nat

\* A serving binary never names a column its database lacks: every migration
\* it carries is in the schema, whoever migrated it and whatever died on the
\* way (main.go: a binary newer than its schema does not half-work).
ServingMeansMigrated == \A s \in up : Directory(s) \subseteq schema

\* A migration job fails for one reason only: an earlier run died in the
\* middle of baselining a legacy volume.  Concurrent jobs, of the same or of
\* another release, and deaths anywhere else never make one fail.
OnlyACutBaselineBlocks ==
    \A r \in Runners : pc[r] = "failed" => cutShort

\* Every job ends with its release's schema recorded - unless that happened.
EveryJobCompletes ==
    \A r \in Runners : <>(cutShort \/ (pc[r] = "done" /\ Directory(r) \subseteq ledger))
=============================================================================
