-------------------------- MODULE MigrationsProofs --------------------------
(***************************************************************************)
(* For any number of migration jobs of any releases, any number of deaths  *)
(* and any order in which the baseline looks for legacy versions: a server *)
(* serves only on a schema it knows, and a job fails only after a baseline *)
(* that was cut short.                                                     *)
(***************************************************************************)
EXTENDS Migrations, TLAPS

Working == {"locked", "counting", "baseline", "check", "run"}

\* The advisory lock: who works is who holds it.
LockHeld == \A r \in Runners : pc[r] \in Working <=> holder = r

\* What is recorded exists, and a server's migrations exist.
LedgerIsTrue == ledger \subseteq schema

\* The versions a baseline that has come to position i has recorded.
Recorded(i) == {v \in schema : \E j \in 1..(i - 1) : j \in 1..LegacyLast /\ Known[j] = v}

Whole == ledger = {} \/ ledger = schema

\* While no baseline was cut short the ledger is empty, complete, or being
\* baselined, and a job that has come to a version has dealt with all before.
Progress ==
    /\ ledger = {} => schema \subseteq 1..LegacyLast
    /\ (\A r \in Runners : pc[r] # "baseline") => Whole
    /\ \A r \in Runners :
          /\ pc[r] # "failed"
          /\ pc[r] = "baseline" => /\ schema \subseteq 1..LegacyLast
                                   /\ at[r] \in 1..(LegacyLast + 1)
                                   /\ ledger = Recorded(at[r])
          /\ pc[r] \in {"check", "run"} => ledger = schema /\ 1..at[r] \subseteq ledger
          /\ pc[r] = "run" => at[r] + 1 \notin ledger

IInv ==
    /\ TypeOK
    /\ LockHeld
    /\ LedgerIsTrue
    /\ ServingMeansMigrated
    /\ ~cutShort => Progress

-----------------------------------------------------------------------------
USE DEF Locations, Working

LEMMA InitHolds == Init => IInv
<1> SUFFICES ASSUME Init PROVE IInv
  OBVIOUS
<1> USE MigrationConstants
<1>0. PICK k \in 0..LegacyLast : schema = 1..k
  BY DEF Init
<1>1. TypeOK
  <2>1. schema \subseteq Nat
    BY <1>0
  <2> QED BY <2>1 DEF Init, TypeOK
<1>2. LockHeld
  BY DEF Init, LockHeld
<1>3. LedgerIsTrue /\ ServingMeansMigrated
  BY DEF Init, LedgerIsTrue, ServingMeansMigrated
<1>4. Progress
  BY <1>0 DEF Init, Progress, Whole
<1> QED BY <1>1, <1>2, <1>3, <1>4 DEF IInv

\* Nobody but the holder of the lock is in the middle of anything.
LEMMA OneAtATime ==
    ASSUME IInv, NEW r \in Runners, pc[r] \in Working
    PROVE  \A q \in Runners \ {r} : pc[q] \notin Working
BY DEF IInv, LockHeld

\* The steps before the lock and before the ledger is looked at.
LEMMA StartMigrateHolds ==
    ASSUME IInv, NEW r \in Runners, StartMigrate(r) PROVE IInv'
<1> USE DEF IInv
<1>1. TypeOK'
  BY DEF StartMigrate, Goto, TypeOK
<1>2. LockHeld'
  BY DEF StartMigrate, Goto, TypeOK, LockHeld
<1>3. (LedgerIsTrue /\ ServingMeansMigrated)'
  BY DEF StartMigrate, LedgerIsTrue, ServingMeansMigrated
<1>4. (~cutShort => Progress)'
  BY DEF StartMigrate, Goto, TypeOK, Progress, Whole, Recorded
<1> QED BY <1>1, <1>2, <1>3, <1>4

LEMMA TakeLockHolds ==
    ASSUME IInv, NEW r \in Runners, TakeLock(r) PROVE IInv'
<1> USE DEF IInv
<1>1. TypeOK'
  BY DEF TakeLock, Goto, TypeOK
<1>2. LockHeld'
  BY MigrationConstants DEF TakeLock, Goto, TypeOK, LockHeld
<1>3. (LedgerIsTrue /\ ServingMeansMigrated)'
  BY DEF TakeLock, LedgerIsTrue, ServingMeansMigrated
<1>4. (~cutShort => Progress)'
  BY DEF TakeLock, Goto, TypeOK, Progress, Whole, Recorded
<1> QED BY <1>1, <1>2, <1>3, <1>4

LEMMA CreateLedgerHolds ==
    ASSUME IInv, NEW r \in Runners, CreateLedger(r) PROVE IInv'
<1> USE DEF IInv
<1>1. TypeOK'
  BY DEF CreateLedger, Goto, TypeOK
<1>2. LockHeld'
  BY DEF CreateLedger, Goto, TypeOK, LockHeld
<1>3. (LedgerIsTrue /\ ServingMeansMigrated)'
  BY DEF CreateLedger, LedgerIsTrue, ServingMeansMigrated
<1>4. (~cutShort => Progress)'
  BY DEF CreateLedger, Goto, TypeOK, Progress, Whole, Recorded
<1> QED BY <1>1, <1>2, <1>3, <1>4

\* The baseline begins on an empty ledger, or all of the schema is recorded.
LEMMA CountAppliedHolds ==
    ASSUME IInv, NEW r \in Runners, CountApplied(r) PROVE IInv'
<1> USE DEF IInv
<1>1. TypeOK'
  BY DEF CountApplied, Goto, TypeOK
<1>2. LockHeld'
  BY DEF CountApplied, Goto, TypeOK, LockHeld
<1>3. (LedgerIsTrue /\ ServingMeansMigrated)'
  BY DEF CountApplied, LedgerIsTrue, ServingMeansMigrated
<1>4. ASSUME ~cutShort PROVE Progress'
  <2>1. \A q \in Runners : pc[q] # "baseline"
    BY OneAtATime DEF CountApplied
  <2>2. Whole
    BY <1>4, <2>1 DEF Progress
  <2>3. CASE ledger = {}
    <3>1. pc' = [pc EXCEPT ![r] = "baseline"] /\ at' = [at EXCEPT ![r] = 1]
          /\ UNCHANGED <<schema, ledger>>
      BY <2>3 DEF CountApplied, Goto
    <3>2. Recorded(1) = {}
      BY DEF Recorded
    <3>3. Recorded(at[r])' = {}
      BY <3>1, <3>2 DEF Recorded, TypeOK
    <3>4. 1 \in 1..(LegacyLast + 1)
      BY MigrationConstants
    <3> QED BY <1>4, <2>1, <2>3, <3>1, <3>3, <3>4 DEF Progress, TypeOK, Whole
  <2>4. CASE ledger # {}
    <3>1. pc' = [pc EXCEPT ![r] = "check"] /\ at' = [at EXCEPT ![r] = 0]
          /\ UNCHANGED <<schema, ledger>>
      BY <2>4 DEF CountApplied, Goto
    <3>2. 1..0 = {}
      OBVIOUS
    <3> QED BY <1>4, <2>1, <2>2, <2>4, <3>1, <3>2 DEF Progress, TypeOK, Whole
  <2> QED BY <2>3, <2>4
<1> QED BY <1>1, <1>2, <1>3, <1>4 DEF CountApplied

\* Recording the version at position i, if the schema has it, is all that
\* moving on to position i + 1 asks for.
LEMMA RecordedNext ==
    ASSUME TypeOK, NEW i \in 1..LegacyLast
    PROVE  /\ Known[i] \in schema => Recorded(i + 1) = Recorded(i) \cup {Known[i]}
           /\ Known[i] \notin schema => Recorded(i + 1) = Recorded(i)
           /\ Known[i] \notin Recorded(i)
<1> USE MigrationConstants DEF TypeOK
<1>1. \A j : j \in 1..((i + 1) - 1) <=> j \in 1..(i - 1) \/ j = i
  OBVIOUS
<1>2. i \notin 1..(i - 1)
  OBVIOUS
<1>3. \A j \in 1..(i - 1) : j \in 1..LegacyLast /\ Known[j] # Known[i]
  BY <1>2
<1>4. \A v : v \in Recorded(i + 1) <=>
            v \in Recorded(i) \/ (v \in schema /\ v = Known[i])
  BY <1>1 DEF Recorded
<1>5. Known[i] \notin Recorded(i)
  BY <1>3 DEF Recorded
<1>6. ASSUME Known[i] \in schema PROVE Recorded(i + 1) = Recorded(i) \cup {Known[i]}
  <2>1. \A v : v \in Recorded(i + 1) <=> v \in Recorded(i) \cup {Known[i]}
    BY <1>4, <1>6
  <2> QED BY <2>1
<1>7. ASSUME Known[i] \notin schema PROVE Recorded(i + 1) = Recorded(i)
  <2>1. \A v : v \in Recorded(i + 1) <=> v \in Recorded(i)
    BY <1>4, <1>7
  <2> QED BY <2>1 DEF Recorded
<1> QED BY <1>5, <1>6, <1>7

LEMMA RecordedAll ==
    ASSUME TypeOK, schema \subseteq 1..LegacyLast
    PROVE  Recorded(LegacyLast + 1) = schema
<1> USE MigrationConstants DEF TypeOK
<1>1. \A j \in 1..LegacyLast : j \in 1..((LegacyLast + 1) - 1)
  OBVIOUS
<1> QED BY <1>1 DEF Recorded

LEMMA BaselineOneHolds ==
    ASSUME IInv, NEW r \in Runners, BaselineOne(r) PROVE IInv'
<1> USE DEF IInv
<1>0. pc[r] = "baseline" /\ pc[r] \in Working /\ at[r] \in Nat /\ LegacyLast \in Nat
      /\ UNCHANGED <<schema, ledgerTable, up, crashes, cutShort>>
  BY MigrationConstants DEF BaselineOne, TypeOK
<1>a. \A q \in Runners \ {r} : pc[q] \notin Working
  BY <1>0, OneAtATime
<1>1. CASE at[r] > LegacyLast
  <2>1. pc' = [pc EXCEPT ![r] = "check"] /\ at' = [at EXCEPT ![r] = 0]
        /\ UNCHANGED <<ledger, holder>>
    BY <1>1 DEF BaselineOne, Goto
  <2>2. TypeOK' /\ LockHeld'
    BY <1>0, <2>1 DEF TypeOK, LockHeld
  <2>3. ASSUME ~cutShort PROVE Progress'
    <3>1. schema \subseteq 1..LegacyLast /\ at[r] = LegacyLast + 1 /\ ledger = Recorded(at[r])
      BY <1>0, <1>1, <2>3 DEF Progress
    <3>2. ledger = schema
      BY <3>1, RecordedAll
    <3>3. 1..0 = {}
      OBVIOUS
    <3> QED BY <1>0, <1>a, <2>1, <2>3, <3>1, <3>2, <3>3 DEF Progress, TypeOK, Whole
  <2> QED BY <1>0, <2>1, <2>2, <2>3 DEF LedgerIsTrue, ServingMeansMigrated
<1>2. CASE at[r] <= LegacyLast /\ Known[at[r]] \notin schema
  <2>1. pc' = [pc EXCEPT ![r] = "baseline"] /\ at' = [at EXCEPT ![r] = at[r] + 1]
        /\ UNCHANGED <<ledger, holder>>
    BY <1>0, <1>2 DEF BaselineOne, Goto
  <2>2. TypeOK' /\ LockHeld'
    BY <1>0, <2>1 DEF TypeOK, LockHeld
  <2>3. ASSUME ~cutShort PROVE Progress'
    <3>1. schema \subseteq 1..LegacyLast /\ at[r] \in 1..LegacyLast /\ ledger = Recorded(at[r])
      BY <1>0, <1>2, <2>3 DEF Progress
    <3>2. ledger = Recorded(at[r] + 1)
      BY <1>2, <3>1, RecordedNext
    <3>3. Recorded(at[r])' = Recorded(at[r] + 1) /\ at'[r] \in 1..(LegacyLast + 1)
      BY <1>0, <2>1, <3>1 DEF Recorded, TypeOK
    <3> QED BY <1>0, <1>a, <2>1, <2>3, <3>1, <3>2, <3>3 DEF Progress, TypeOK
  <2> QED BY <1>0, <2>1, <2>2, <2>3 DEF LedgerIsTrue, ServingMeansMigrated
<1>3. CASE at[r] <= LegacyLast /\ Known[at[r]] \in schema /\ Known[at[r]] \in ledger
  <2>1. pc' = [pc EXCEPT ![r] = "failed"] /\ at' = [at EXCEPT ![r] = 0]
        /\ UNCHANGED ledger /\ holder' = IF holder = r THEN NoRunner ELSE holder
    BY <1>0, <1>3 DEF BaselineOne, End, Goto
  <2>2. TypeOK' /\ LockHeld'
    BY <1>0, <2>1, MigrationConstants DEF TypeOK, LockHeld
  <2>3. cutShort
    <3> SUFFICES ASSUME ~cutShort PROVE FALSE
      OBVIOUS
    <3>1. at[r] \in 1..LegacyLast /\ ledger = Recorded(at[r])
      BY <1>0, <1>3 DEF Progress
    <3> QED BY <1>3, <3>1, RecordedNext
  <2> QED BY <1>0, <2>1, <2>2, <2>3 DEF LedgerIsTrue, ServingMeansMigrated
<1>4. CASE at[r] <= LegacyLast /\ Known[at[r]] \in schema /\ Known[at[r]] \notin ledger
  <2>1. pc' = [pc EXCEPT ![r] = "baseline"] /\ at' = [at EXCEPT ![r] = at[r] + 1]
        /\ ledger' = ledger \cup {Known[at[r]]} /\ UNCHANGED holder
    BY <1>0, <1>4 DEF BaselineOne, Goto
  <2>2. TypeOK' /\ LockHeld'
    <3>1. ledger' \subseteq Nat
      BY <1>4, <2>1 DEF TypeOK
    <3>2. TypeOK'
      BY <1>0, <2>1, <3>1 DEF TypeOK
    <3>3. LockHeld'
      BY <1>0, <2>1 DEF TypeOK, LockHeld
    <3> QED BY <3>2, <3>3
  <2>3. LedgerIsTrue'
    BY <1>0, <1>4, <2>1 DEF LedgerIsTrue
  <2>4. ASSUME ~cutShort PROVE Progress'
    <3>1. schema \subseteq 1..LegacyLast /\ at[r] \in 1..LegacyLast /\ ledger = Recorded(at[r])
      BY <1>0, <1>4, <2>4 DEF Progress
    <3>2. ledger' = Recorded(at[r] + 1)
      BY <1>4, <2>1, <3>1, RecordedNext
    <3>3. Recorded(at[r])' = Recorded(at[r] + 1) /\ at'[r] \in 1..(LegacyLast + 1)
      BY <1>0, <2>1, <3>1 DEF Recorded, TypeOK
    <3> QED BY <1>0, <1>a, <2>1, <2>4, <3>1, <3>2, <3>3 DEF Progress, TypeOK
  <2> QED BY <1>0, <2>2, <2>3, <2>4 DEF ServingMeansMigrated
<1> QED BY <1>0, <1>1, <1>2, <1>3, <1>4

LEMMA CheckMigrationHolds ==
    ASSUME IInv, NEW r \in Runners, CheckMigration(r) PROVE IInv'
<1> USE DEF IInv
<1>0. pc[r] = "check" /\ pc[r] \in Working /\ at[r] \in Nat
      /\ UNCHANGED <<schema, ledgerTable, ledger, up, crashes, cutShort>>
  BY DEF CheckMigration, TypeOK
<1>a. \A q \in Runners \ {r} : pc[q] \notin Working
  BY <1>0, OneAtATime
<1>1. (LedgerIsTrue /\ ServingMeansMigrated)'
  BY <1>0 DEF LedgerIsTrue, ServingMeansMigrated
<1>2. CASE at[r] = Latest[r]
  <2>1. pc' = [pc EXCEPT ![r] = "done"] /\ at' = [at EXCEPT ![r] = 0]
        /\ holder' = IF holder = r THEN NoRunner ELSE holder
    BY <1>2 DEF CheckMigration, End, Goto
  <2>2. TypeOK' /\ LockHeld'
    BY <1>0, <2>1, MigrationConstants DEF TypeOK, LockHeld
  <2>3. ASSUME ~cutShort PROVE Progress'
    BY <1>0, <1>a, <2>1, <2>3 DEF Progress, TypeOK, Whole
  <2> QED BY <1>0, <1>1, <2>2, <2>3
<1>3. CASE at[r] # Latest[r] /\ at[r] + 1 \in ledger
  <2>1. pc' = [pc EXCEPT ![r] = "check"] /\ at' = [at EXCEPT ![r] = at[r] + 1]
        /\ UNCHANGED holder
    BY <1>3 DEF CheckMigration, Goto
  <2>2. TypeOK' /\ LockHeld'
    BY <1>0, <2>1 DEF TypeOK, LockHeld
  <2>3. ASSUME ~cutShort PROVE Progress'
    <3>1. 1..(at[r] + 1) = 1..at[r] \cup {at[r] + 1}
      BY <1>0
    <3> QED BY <1>0, <1>3, <1>a, <2>1, <2>3, <3>1 DEF Progress, TypeOK, Whole
  <2> QED BY <1>0, <1>1, <2>2, <2>3
<1>4. CASE at[r] # Latest[r] /\ at[r] + 1 \notin ledger
  <2>1. pc' = [pc EXCEPT ![r] = "run"] /\ at' = [at EXCEPT ![r] = at[r]]
        /\ UNCHANGED holder
    BY <1>4 DEF CheckMigration, Goto
  <2>2. TypeOK' /\ LockHeld'
    BY <1>0, <2>1 DEF TypeOK, LockHeld
  <2>3. ASSUME ~cutShort PROVE Progress'
    BY <1>0, <1>4, <1>a, <2>1, <2>3 DEF Progress, TypeOK, Whole
  <2> QED BY <1>0, <1>1, <2>2, <2>3
<1> QED BY <1>2, <1>3, <1>4

\* The ledger is the schema and the version is next, so its SQL succeeds.
LEMMA RunMigrationHolds ==
    ASSUME IInv, NEW r \in Runners, RunMigration(r) PROVE IInv'
<1> USE DEF IInv
<1> DEFINE v == at[r] + 1
<1>0. pc[r] = "run" /\ pc[r] \in Working /\ at[r] \in Nat /\ v \in Nat /\ v - 1 = at[r]
      /\ UNCHANGED <<ledgerTable, up, crashes, cutShort>>
  BY DEF RunMigration, TypeOK
<1>a. \A q \in Runners \ {r} : pc[q] \notin Working
  BY <1>0, OneAtATime
<1>1. CASE Runs(v) /\ v \notin ledger
  <2>1. pc' = [pc EXCEPT ![r] = "check"] /\ at' = [at EXCEPT ![r] = v]
        /\ schema' = schema \cup {v} /\ ledger' = ledger \cup {v} /\ UNCHANGED holder
    BY <1>1 DEF RunMigration, Goto
  <2>2. TypeOK' /\ LockHeld'
    <3>1. TypeOK'
      BY <1>0, <2>1 DEF TypeOK
    <3>2. LockHeld'
      BY <1>0, <2>1 DEF TypeOK, LockHeld
    <3> QED BY <3>1, <3>2
  <2>3. (LedgerIsTrue /\ ServingMeansMigrated)'
    BY <1>0, <2>1 DEF LedgerIsTrue, ServingMeansMigrated
  <2>4. ASSUME ~cutShort PROVE Progress'
    <3>1. 1..v = 1..at[r] \cup {v}
      BY <1>0
    <3>2. ledger' = schema' /\ 1..v \subseteq ledger' /\ ledger' # {}
      BY <1>0, <2>1, <2>4, <3>1 DEF Progress
    <3>3. \A q \in Runners : q # r => pc'[q] = pc[q] /\ pc'[q] \notin Working
      BY <1>a, <2>1 DEF TypeOK
    <3>4. pc'[r] = "check" /\ at'[r] = v
      BY <2>1 DEF TypeOK
    <3>5. \A q \in Runners : pc'[q] # "failed"
      BY <2>4, <3>3, <3>4 DEF Progress
    <3> QED BY <3>2, <3>3, <3>4, <3>5 DEF Progress, Whole
  <2> QED BY <1>0, <2>2, <2>3, <2>4
<1>2. CASE ~(Runs(v) /\ v \notin ledger)
  <2>1. pc' = [pc EXCEPT ![r] = "failed"] /\ at' = [at EXCEPT ![r] = 0]
        /\ UNCHANGED <<schema, ledger>> /\ holder' = IF holder = r THEN NoRunner ELSE holder
    BY <1>2 DEF RunMigration, End, Goto
  <2>2. TypeOK' /\ LockHeld'
    BY <1>0, <2>1, MigrationConstants DEF TypeOK, LockHeld
  <2>3. cutShort
    BY <1>0, <1>2 DEF Progress, Runs
  <2> QED BY <1>0, <2>1, <2>2, <2>3 DEF LedgerIsTrue, ServingMeansMigrated
<1> QED BY <1>1, <1>2

\* A death in a baseline that left nothing out leaves the ledger whole.
LEMMA CrashHolds ==
    ASSUME IInv, NEW r \in Runners, Crash(r) PROVE IInv'
<1> USE DEF IInv
<1>0. /\ pc' = [pc EXCEPT ![r] = "idle"] /\ at' = [at EXCEPT ![r] = 0]
      /\ holder' = IF holder = r THEN NoRunner ELSE holder
      /\ crashes' = crashes + 1
      /\ cutShort' = (cutShort \/ LeavesBaseline(r))
      /\ UNCHANGED <<schema, ledgerTable, ledger, up>>
  BY DEF Crash, End, Goto
<1>1. TypeOK'
  <2>1. cutShort' \in BOOLEAN
    BY <1>0 DEF TypeOK
  <2> QED BY <1>0, <2>1, MigrationConstants DEF TypeOK
<1>2. LockHeld'
  BY <1>0, MigrationConstants DEF TypeOK, LockHeld
<1>3. (LedgerIsTrue /\ ServingMeansMigrated)'
  BY <1>0 DEF LedgerIsTrue, ServingMeansMigrated
<1>4. ASSUME ~cutShort' PROVE Progress'
  <2>1. ~cutShort /\ ~LeavesBaseline(r) /\ Progress
    BY <1>0, <1>4
  <2>2. ASSUME pc[r] = "baseline", ledger # {} PROVE ledger = schema
    <3>1. /\ schema \subseteq 1..LegacyLast /\ ledger = Recorded(at[r])
          /\ at[r] \in 1..(LegacyLast + 1)
      BY <2>1, <2>2 DEF Progress
    <3>2. \A i \in at[r]..LegacyLast : Known[i] \notin schema
      BY <2>1, <2>2 DEF LeavesBaseline
    <3>3. ASSUME NEW w \in schema PROVE w \in ledger
      <4>1. PICK i \in 1..LegacyLast : Known[i] = w
        BY <3>1, <3>3, MigrationConstants
      <4>2. i \notin at[r]..LegacyLast
        BY <3>2, <3>3, <4>1
      <4>3. i \in Nat /\ at[r] \in Nat /\ LegacyLast \in Nat /\ 1 <= i /\ i <= LegacyLast
        BY <3>1, <4>1, MigrationConstants DEF TypeOK
      <4>4. i \in 1..(at[r] - 1)
        BY <4>2, <4>3
      <4> QED BY <3>1, <3>3, <4>1, <4>4 DEF Recorded
    <3> QED BY <3>3 DEF LedgerIsTrue
  <2>3. (\A q \in Runners : pc'[q] # "baseline") => Whole
    <3>1. CASE pc[r] = "baseline"
      BY <2>2, <3>1 DEF Whole
    <3>2. CASE pc[r] # "baseline"
      BY <1>0, <2>1, <3>2 DEF Progress, TypeOK
    <3> QED BY <3>1, <3>2
  <2>4. ASSUME NEW q \in Runners, q # r
        PROVE  pc'[q] = pc[q] /\ at'[q] = at[q]
    BY <1>0, <2>4 DEF TypeOK
  <2>5. pc'[r] = "idle"
    BY <1>0 DEF TypeOK
  <2>6. \A i : Recorded(i)' = Recorded(i)
    BY <1>0 DEF Recorded
  <2> QED BY <1>0, <2>1, <2>3, <2>4, <2>5, <2>6 DEF Progress, Whole
<1> QED BY <1>1, <1>2, <1>3, <1>4

\* Servers come and go; one that starts finds its migrations in the ledger.
LEMMA ServerHolds ==
    ASSUME IInv, NEW s \in Servers, StartServer(s) \/ StopServer(s) PROVE IInv'
<1> USE DEF IInv
<1>0. UNCHANGED <<schema, ledgerTable, ledger, holder, pc, at, crashes, cutShort>>
  BY DEF StartServer, StopServer
<1>1. TypeOK'
  BY <1>0 DEF TypeOK, StartServer, StopServer
<1>2. (LockHeld /\ LedgerIsTrue)'
  BY <1>0 DEF LockHeld, LedgerIsTrue
<1>3. ServingMeansMigrated'
  <2>1. CASE StartServer(s)
    <3>1. Directory(s) \subseteq schema
      BY <2>1 DEF StartServer, Pending, LedgerIsTrue
    <3> QED BY <1>0, <2>1, <3>1 DEF StartServer, ServingMeansMigrated, Directory
  <2>2. CASE StopServer(s)
    BY <1>0, <2>2 DEF StopServer, ServingMeansMigrated
  <2> QED BY <2>1, <2>2
<1>4. (~cutShort => Progress)'
  BY <1>0 DEF Progress, Whole, Recorded
<1> QED BY <1>1, <1>2, <1>3, <1>4

LEMMA NextHolds == IInv /\ [Next]_vars => IInv'
<1> SUFFICES ASSUME IInv, [Next]_vars PROVE IInv'
  OBVIOUS
<1>1. ASSUME NEW r \in Runners, StartMigrate(r) \/ Migrate(r) \/ Crash(r) PROVE IInv'
  BY <1>1, StartMigrateHolds, TakeLockHolds, CreateLedgerHolds, CountAppliedHolds,
     BaselineOneHolds, CheckMigrationHolds, RunMigrationHolds, CrashHolds DEF Migrate
<1>2. ASSUME NEW s \in Servers, StartServer(s) \/ StopServer(s) PROVE IInv'
  BY <1>2, ServerHolds
<1>3. ASSUME UNCHANGED vars PROVE IInv'
  BY <1>3 DEF vars, IInv, TypeOK, LockHeld, LedgerIsTrue, ServingMeansMigrated,
              Progress, Whole, Recorded
<1> QED BY <1>1, <1>2, <1>3 DEF Next

LEMMA Inductive == Spec => []IInv
BY InitHolds, NextHolds, PTL DEF Spec

\* PendingMigrations keeps a server from starting until the ledger has all of
\* its migrations, and the ledger never runs ahead of the schema: whatever
\* runs, dies or baselines, a serving binary finds every column it names.
THEOREM ServersAreMigrated == Spec => []ServingMeansMigrated
<1>1. IInv => ServingMeansMigrated
  BY DEF IInv
<1> QED BY <1>1, Inductive, PTL

\* ApplyMigrations fails on no schema it made itself: the one way to a failed
\* job is a baseline that died between two of its rows.
THEOREM OnlyCutBaselinesBlock == Spec => []OnlyACutBaselineBlocks
<1>1. IInv => OnlyACutBaselineBlocks
  BY DEF IInv, Progress, OnlyACutBaselineBlocks
<1> QED BY <1>1, Inductive, PTL
=============================================================================
