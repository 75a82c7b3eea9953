---------------------------- MODULE SignInProofs ----------------------------
(***************************************************************************)
(* Proofs about SignIn, for any number of requests, sign-ins, passwords    *)
(* and commands, any budgets and any lock.  The inductive invariant has    *)
(* four independent parts on top of the types: the lock, the password an   *)
(* administrator set, the content of the limiter's buckets, and the one    *)
(* right to a session that each sign-in passes on.                         *)
(***************************************************************************)
EXTENDS SignIn, TLAPS

\* Until a change overtakes a rehash, the stored password and every weak hash
\* that a sign-in has read belong to the password set last.
PasswordOK ==
  /\ \A h \in Handlers : handler[h].read.known => account.exists
  /\ ~overtaken =>
       /\ account.password = lastSet
       /\ \A h \in Handlers :
            /\ handler[h].pc = "deriving" /\ handler[h].read.known /\ handler[h].read.weak
            => handler[h].read.password = lastSet

\* What was let through and what a bucket still holds fit into its capacity
\* and what has flowed in.
Capacity(k) == Burst[k] * Refill[k]

BucketOK ==
  \A k \in Keys :
    /\ since[k] <= now
    /\ bucket[k] # Absent => bucket[k].seen <= now
    /\ allowed[k] * Refill[k] + Content(k) <= Capacity(k) + (now - since[k])

\* The right to the session of a sign-in is with a stored transaction, a
\* request, a code, or used up, and with only one of them.
Serves(h, s) == handler[h].pc # "idle" /\ handler[h].of = s

TokenOK ==
  \A s \in SignIns :
    /\ s > started => /\ transaction[s].until = 0 /\ code[s] = 0 /\ minted[s] = 0
                      /\ \A h \in Handlers : ~Serves(h, s)
    /\ transaction[s].until # 0 =>
         /\ code[s] = 0 /\ minted[s] = 0 /\ \A h \in Handlers : ~Serves(h, s)
    /\ code[s] # 0 => minted[s] = 0 /\ \A h \in Handlers : ~Serves(h, s)
    /\ \A h \in Handlers : Serves(h, s) =>
         minted[s] = 0 /\ \A g \in Handlers : Serves(g, s) => g = h
    /\ minted[s] \in {0, 1}

IInv == TypeOK /\ LockEndsByItself /\ PasswordOK /\ BucketOK /\ TokenOK

-----------------------------------------------------------------------------
(***************************************************************************)
(* Operators.                                                              *)
(***************************************************************************)

\* The constants as numbers.
LEMMA Numbers ==
  /\ {MaxVerifications, LockAfter, LockBase, LockCeiling, MaxExponent, TransactionTTL,
      CodeTTL, SessionTTL} \subseteq Nat \ {0}
  /\ {SweepIdle, MaxTime, MaxCommands, MaxSignIns} \subseteq Nat
  BY SignInConstants

\* A bucket has a capacity, and an idle one is full before it is swept.
LEMMA Capacities ==
  ASSUME NEW k \in Keys
  PROVE  /\ Refill[k] \in Nat \ {0} /\ Capacity(k) \in Nat
         /\ SweepIdle \in Nat /\ SweepIdle >= Capacity(k)
  <1>1. Refill[k] \in Nat \ {0} /\ Burst[k] \in Nat
    BY SignInConstants DEF Refill, Burst, Keys
  <1>2. Burst[k] * Refill[k] \in Nat
    BY <1>1
  <1>3. QED
    BY <1>1, <1>2, SignInConstants DEF Capacity

\* A bucket never holds more than its capacity, nor less than nothing.
LEMMA ContentBounded ==
  ASSUME TypeOK, BucketOK, NEW k \in Keys
  PROVE  Content(k) \in Nat /\ Content(k) <= Capacity(k)
  <1>1. Capacity(k) \in Nat
    BY Capacities
  <1>2. CASE bucket[k] = Absent
    BY <1>1, <1>2 DEF Content, Capacity
  <1>3. CASE bucket[k] # Absent
    <2>1. bucket[k] \in [level : Nat, seen : Nat]
      BY <1>3 DEF TypeOK, Buckets
    <2>2. bucket[k].seen <= now /\ now \in Nat
      BY <1>3 DEF BucketOK, TypeOK
    <2>3. QED
      BY <1>1, <1>3, <2>1, <2>2 DEF Content, Capacity, Smaller
  <1>4. QED
    BY <1>2, <1>3

\* A bucket that was brought up to date holds what it was given.
LEMMA ContentAt ==
  ASSUME NEW k \in Keys, NEW x \in Nat, x <= Capacity(k), now \in Nat, UNCHANGED now,
         bucket'[k] = [level |-> x, seen |-> now]
  PROVE  /\ Content(k)' = x
         /\ bucket'[k] # Absent /\ bucket'[k].seen = now
  <1>1. bucket'[k] # Absent /\ bucket'[k].seen = now /\ bucket'[k].level = x
    BY DEF Absent
  <1>2. Capacity(k) \in Nat
    BY Capacities
  <1>3. QED
    BY <1>1, <1>2 DEF Content, Capacity, Smaller

\* The n-th failure locks for no longer than the ceiling.
LEMMA LockBounded ==
  ASSUME NEW n \in Nat, n >= LockAfter
  PROVE  LockSeconds(n) \in Int /\ LockSeconds(n) <= LockCeiling
  <1>1. LockAfter \in Nat /\ LockBase \in Nat /\ LockCeiling \in Nat
    BY Numbers
  <1>2. n - LockAfter \in Nat
    BY <1>1
  <1>3. 2 ^ (n - LockAfter) \in Int
    BY <1>2
  <1>4. LockBase * 2 ^ (n - LockAfter) \in Int
    BY <1>1, <1>3
  <1>5. QED
    BY <1>1, <1>4 DEF LockSeconds, Smaller

-----------------------------------------------------------------------------
(***************************************************************************)
(* The initial states.                                                     *)
(***************************************************************************)

\* No request, no bucket, no session, and an account whose lock has run out.
LEMMA InitOK == Init => IInv
  <1> SUFFICES ASSUME Init
               PROVE  IInv
    OBVIOUS
  <1>1. /\ 0 \in 0..MaxTime /\ 0 \in 0..MaxSignIns /\ 0 \in 0..MaxCommands
        /\ MaxVerifications \in 1..MaxVerifications
        /\ FirstPassword \in Passwords
        /\ 0..(LockAfter + MaxExponent) \subseteq Nat
    BY Numbers, SignInConstants
  <1>2. account \in Credentials /\ account.lockedUntil = 0
    <2>1. account \in [exists : BOOLEAN, enabled : {TRUE}, bound : BOOLEAN,
                       password : {FirstPassword, NoPassword}, weak : BOOLEAN,
                       failed : 0..(LockAfter + MaxExponent), lockedUntil : {0}]
      BY DEF Init
    <2>2. /\ {TRUE} \subseteq BOOLEAN /\ {0} \subseteq Int
          /\ {FirstPassword, NoPassword} \subseteq Passwords \cup {NoPassword}
      BY <1>1
    <2>3. QED
      BY <1>1, <2>1, <2>2, Zenon DEF Credentials
  <1>3. Idle \in Requests
    BY DEF Idle, Requests, Steps, NoCredential, Reads
  <1>4. TypeOK
    <2>1. slots \in 1..MaxVerifications /\ mode \in {"local", "oidc"}
      BY <1>1 DEF Init
    <2>2. handler \in [Handlers -> Requests] /\ \A h \in Handlers : handler[h].pc = "idle"
      BY <1>3 DEF Init, Idle
    <2>3. transaction \in [SignIns -> [until : Nat, desktop : BOOLEAN]]
      BY DEF Init, NoTransaction
    <2>4. lastSet \in Passwords \cup {NoPassword}
      BY <1>2 DEF Init, Credentials
    <2>5. bucket \in [Keys -> Buckets]
      BY DEF Init, Buckets
    <2>6. QED
      BY <1>1, <1>2, <2>1, <2>2, <2>3, <2>4, <2>5 DEF Init, TypeOK
  <1>5. LockEndsByItself
    BY <1>2 DEF Init, LockEndsByItself
  <1>6. PasswordOK
    BY DEF Init, PasswordOK, Idle, NoCredential
  <1>7. BucketOK
    BY Capacities DEF Init, BucketOK, Content, Capacity
  <1>8. TokenOK
    BY DEF Init, TokenOK, Serves, Idle, NoTransaction
  <1>9. QED
    BY <1>4, <1>5, <1>6, <1>7, <1>8 DEF IInv

-----------------------------------------------------------------------------
(***************************************************************************)
(* The inductive step, part by part.                                       *)
(***************************************************************************)

\* A failure is counted on a well-formed row, and locks it within the ceiling;
\* a row that is locked is left alone.
LEMMA FailureCounted ==
  ASSUME TypeOK
  PROVE  LET a == CountFailure(account)
         IN  /\ a \in Credentials
             /\ a.exists = account.exists /\ a.password = account.password
             /\ account.lockedUntil > now => a = account
             /\ account.lockedUntil <= now /\ a.lockedUntil > now =>
                  a.failed >= LockAfter /\ a.lockedUntil <= now + LockCeiling
  <1> DEFINE n == account.failed + 1
             until == IF n >= LockAfter THEN now + LockSeconds(n) ELSE account.lockedUntil
  <1>1. account \in Credentials /\ now \in Nat /\ n \in Nat
    BY DEF TypeOK, Credentials
  <1>2. n >= LockAfter => LockSeconds(n) \in Int /\ LockSeconds(n) <= LockCeiling
    BY <1>1, LockBounded
  <1>3. LockCeiling \in Nat /\ account.lockedUntil \in Int
    BY <1>1, Numbers DEF Credentials
  <1>4. until \in Int /\ (n >= LockAfter => until <= now + LockCeiling)
    BY <1>1, <1>2, <1>3
  <1>5. CASE account.lockedUntil > now
    BY <1>1, <1>3, <1>5 DEF CountFailure
  <1>6. CASE ~(account.lockedUntil > now)
    <2>1. CountFailure(account) = [account EXCEPT !.failed = n, !.lockedUntil = until]
      BY <1>6 DEF CountFailure
    <2> HIDE DEF n, until
    <2>2. /\ CountFailure(account) \in Credentials
          /\ CountFailure(account).exists = account.exists
          /\ CountFailure(account).password = account.password
          /\ CountFailure(account).failed = n /\ CountFailure(account).lockedUntil = until
      BY <1>1, <1>4, <2>1 DEF Credentials
    <2>3. until > now => n >= LockAfter
      BY <1>6 DEF until
    <2>4. QED
      BY <1>4, <1>6, <2>2, <2>3
  <1>7. QED
    BY <1>5, <1>6

\* What a sign-in that succeeded leaves in the row.
LEMMA UpgradedRow ==
  ASSUME TypeOK, NEW h \in Handlers
  PROVE  LET a == Upgraded(account, h)
         IN  /\ a \in Credentials
             /\ a.exists = account.exists /\ a.lockedUntil = 0
             /\ a.password = IF handler[h].read.weak THEN handler[h].password
                                                     ELSE account.password
  <1>1. account \in Credentials /\ handler[h] \in Requests
    BY DEF TypeOK
  <1> DEFINE weak == handler[h].read.weak
             password == IF weak THEN handler[h].password ELSE account.password
             still == IF weak THEN FALSE ELSE account.weak
  <1>2. password \in Passwords \cup {NoPassword} /\ still \in BOOLEAN
    BY <1>1 DEF Credentials, Requests, Reads
  <1>3. Upgraded(account, h) = [account EXCEPT !.failed = 0, !.lockedUntil = 0,
                                               !.password = password, !.weak = still]
    BY DEF Upgraded
  <1> HIDE DEF password, still, weak
  <1>4. /\ Upgraded(account, h) \in Credentials
        /\ Upgraded(account, h).exists = account.exists
        /\ Upgraded(account, h).lockedUntil = 0
        /\ Upgraded(account, h).password = password
    <2>1. 0 \in Nat /\ 0 \in Int
      OBVIOUS
    <2>2. QED
      BY <1>1, <1>2, <1>3, <2>1, Zenon DEF Credentials
  <1>5. QED
    BY <1>4 DEF password, weak

\* A request that ends, or goes on, is still well formed.
LEMMA RequestType ==
  ASSUME TypeOK, NEW h \in Handlers, NEW r \in Requests,
         r.pc # "idle" => r.of \in SignIns, handler' = [handler EXCEPT ![h] = r]
  PROVE  /\ handler' \in [Handlers -> Requests]
         /\ \A g \in Handlers : handler'[g].pc # "idle" => handler'[g].of \in SignIns
         /\ handler'[h] = r /\ \A g \in Handlers \ {h} : handler'[g] = handler[g]
  BY DEF TypeOK

\* A request that is over is well formed and has read nothing.
LEMMA IdleType == Idle \in Requests /\ Idle.pc = "idle" /\ ~Idle.read.known
  BY DEF Idle, Requests, Steps, NoCredential, Reads

\* Neither has a request that has just begun.
LEMMA NothingRead == NoCredential \in Reads /\ ~NoCredential.known
  BY DEF NoCredential, Reads

\* What leaves the variables of a part alone preserves it.
LEMMA LockFrame ==
  ASSUME LockEndsByItself, UNCHANGED <<account, now>>
  PROVE  LockEndsByItself'
  BY DEF LockEndsByItself

\* The password's part looks at the requests and at the password set last.
LEMMA PasswordFrame ==
  ASSUME PasswordOK, UNCHANGED <<account, handler, lastSet, overtaken>>
  PROVE  PasswordOK'
  BY DEF PasswordOK

\* The limiter's part looks at the clock and at its own bookkeeping.
LEMMA BucketFrame ==
  ASSUME BucketOK, UNCHANGED <<now, bucket, allowed, since>>
  PROVE  BucketOK'
  BY DEF BucketOK, Content, Capacity

\* The right to a session does not depend on the account or the clock.
LEMMA TokenFrame ==
  ASSUME TokenOK, UNCHANGED <<handler, started, transaction, code, minted>>
  PROVE  TokenOK'
  BY DEF TokenOK, Serves

\* A request that is over, or reads nothing new, holds no other password.
LEMMA PasswordHandler ==
  ASSUME TypeOK, PasswordOK, UNCHANGED <<account, lastSet, overtaken>>,
         NEW h \in Handlers, NEW r, handler' = [handler EXCEPT ![h] = r],
         \/ ~r.read.known
         \/ r.read = handler[h].read /\ handler[h].pc = r.pc
         \/ r.read = handler[h].read /\ r.pc # "deriving"
  PROVE  PasswordOK'
  <1>1. handler'[h] = r /\ \A g \in Handlers \ {h} : handler'[g] = handler[g]
    BY DEF TypeOK
  <1>2. QED
    BY <1>1 DEF PasswordOK

\* A request passes its right on to nobody when it goes on or is dropped.
LEMMA TokenHandler ==
  ASSUME TypeOK, TokenOK, UNCHANGED <<started, transaction, code, minted>>,
         NEW h \in Handlers, NEW r, handler' = [handler EXCEPT ![h] = r],
         r.pc = "idle" \/ (handler[h].pc # "idle" /\ r.of = handler[h].of)
  PROVE  TokenOK'
  <1>1. handler'[h] = r /\ \A g \in Handlers \ {h} : handler'[g] = handler[g]
    BY DEF TypeOK
  <1>2. \A g \in Handlers, s \in SignIns : Serves(g, s)' => Serves(g, s)
    BY <1>1 DEF Serves
  <1>3. QED
    BY <1>2 DEF TokenOK

\* A sign-in that has not started has left nothing behind.
LEMMA StartedNow ==
  ASSUME TypeOK, TokenOK, NEW s \in SignIns, Starts(s)
  PROVE  /\ s > started /\ started' = s /\ started' \in 0..MaxSignIns
         /\ transaction[s].until = 0 /\ code[s] = 0 /\ minted[s] = 0
         /\ \A h \in Handlers : ~Serves(h, s)
         /\ \A t \in SignIns : t > started' => t > started
  <1>1. started \in Nat /\ s \in Nat /\ s = started + 1 /\ started' = s /\ MaxSignIns \in Nat
        /\ s <= MaxSignIns
    BY Numbers DEF TypeOK, Starts, SignIns
  <1>2. s > started /\ started' \in 0..MaxSignIns /\ \A t \in SignIns : t > started' => t > started
    BY <1>1 DEF SignIns
  <1>3. QED
    BY <1>1, <1>2 DEF TokenOK

\* The limiter lets an attempt through: a token leaves every bucket.
LEMMA AllowedOK ==
  ASSUME TypeOK, BucketOK, Allows, Allowed, UNCHANGED now
  PROVE  /\ BucketOK' /\ bucket' \in [Keys -> Buckets]
         /\ allowed' \in [Keys -> Nat] /\ since' = since
  <1>1. ASSUME NEW k \in Keys
        PROVE  /\ bucket'[k] \in Buckets /\ allowed'[k] \in Nat
               /\ since'[k] <= now' /\ (bucket'[k] # Absent => bucket'[k].seen <= now')
               /\ allowed'[k] * Refill[k] + Content(k)' <= Capacity(k) + (now' - since'[k])
    <2>1. /\ Content(k) \in Nat /\ Content(k) <= Capacity(k) /\ Content(k) >= Refill[k]
          /\ Refill[k] \in Nat /\ Capacity(k) \in Nat /\ now \in Nat /\ allowed[k] \in Nat
          /\ since[k] \in Nat
      <3>1. Content(k) \in Nat /\ Content(k) <= Capacity(k)
        BY <1>1, ContentBounded
      <3>2. Refill[k] \in Nat /\ Capacity(k) \in Nat
        BY <1>1, Capacities
      <3>3. QED
        BY <1>1, <3>1, <3>2, Numbers DEF Allows, TypeOK
    <2> DEFINE left == Content(k) - Refill[k]
    <2>2. left \in Nat /\ left <= Capacity(k)
      BY <2>1
    <2>3. bucket'[k] = [level |-> left, seen |-> now]
      BY <1>1 DEF Allowed
    <2>4. left + Refill[k] = Content(k)
      BY <2>1
    <2> HIDE DEF left
    <2>5. Content(k)' = left /\ bucket'[k] # Absent /\ bucket'[k].seen = now
      BY <1>1, <2>1, <2>2, <2>3, ContentAt
    <2>6. bucket'[k] \in Buckets
      BY <2>1, <2>2, <2>3 DEF Buckets
    <2>7. allowed'[k] = allowed[k] + 1 /\ since'[k] = since[k]
      BY <1>1 DEF Allowed
    <2>8. (allowed[k] + 1) * Refill[k] = allowed[k] * Refill[k] + Refill[k]
      BY <2>1
    <2>9. allowed[k] * Refill[k] \in Nat
      BY <2>1
    <2>10. /\ since[k] <= now
           /\ allowed[k] * Refill[k] + Content(k) <= Capacity(k) + (now - since[k])
      BY <1>1 DEF BucketOK
    <2>11. QED
      BY <2>1, <2>2, <2>4, <2>5, <2>6, <2>7, <2>8, <2>9, <2>10
  <1>2. bucket' = [k \in Keys |-> bucket'[k]] /\ allowed' = [k \in Keys |-> allowed'[k]]
    BY DEF Allowed
  <1>3. bucket' \in [Keys -> Buckets] /\ allowed' \in [Keys -> Nat] /\ since' = since
    BY <1>1, <1>2 DEF Allowed
  <1>4. QED
    BY <1>1, <1>3 DEF BucketOK, Capacity

\* It refuses one: the buckets are brought up to date and nothing else.
LEMMA ThrottledOK ==
  ASSUME TypeOK, BucketOK, Throttled, UNCHANGED now
  PROVE  BucketOK' /\ bucket' \in [Keys -> Buckets] /\ UNCHANGED <<allowed, since>>
  <1>1. ASSUME NEW k \in Keys
        PROVE  /\ bucket'[k] \in Buckets
               /\ bucket'[k] # Absent => bucket'[k].seen <= now'
               /\ Content(k)' = Content(k)
    <2>1. Content(k) \in Nat /\ Content(k) <= Capacity(k) /\ now \in Nat
      BY <1>1, ContentBounded, Numbers DEF TypeOK
    <2>2. bucket'[k] = [level |-> Content(k), seen |-> now]
      BY <1>1 DEF Throttled
    <2>3. Content(k)' = Content(k) /\ bucket'[k].seen = now
      BY <1>1, <2>1, <2>2, ContentAt
    <2>4. QED
      BY <2>1, <2>2, <2>3 DEF Buckets
  <1>2. UNCHANGED <<allowed, since>> /\ bucket' = [k \in Keys |-> bucket'[k]]
    BY DEF Throttled
  <1>3. QED
    BY <1>1, <1>2 DEF BucketOK, Capacity

\* A sign-in that resolves forgives its keys, and counts from there.
LEMMA ResetOK ==
  ASSUME TypeOK, Reset, UNCHANGED now
  PROVE  /\ BucketOK' /\ bucket' \in [Keys -> Buckets]
         /\ allowed' \in [Keys -> Nat] /\ since' \in [Keys -> 0..MaxTime]
  <1>1. ASSUME NEW k \in Keys
        PROVE  /\ since'[k] <= now' /\ bucket'[k] = Absent
               /\ allowed'[k] * Refill[k] + Content(k)' <= Capacity(k) + (now' - since'[k])
    <2>1. now \in Nat /\ Capacity(k) \in Nat /\ Refill[k] \in Nat
      BY <1>1, Capacities, Numbers DEF TypeOK
    <2>2. bucket'[k] = Absent /\ allowed'[k] = 0 /\ since'[k] = now
      BY <1>1 DEF Reset
    <2>3. Content(k)' = Capacity(k)
      BY <2>2 DEF Content, Capacity
    <2>4. QED
      BY <2>1, <2>2, <2>3
  <1>2. QED
    BY <1>1 DEF Reset, BucketOK, Buckets, Capacity, TypeOK

\* Sweeping removes full buckets only.
LEMMA SweepOK ==
  ASSUME TypeOK, BucketOK, Sweep
  PROVE  BucketOK' /\ bucket' \in [Keys -> Buckets]
  <1>1. UNCHANGED <<now, allowed, since>>
    BY DEF Sweep, history
  <1>2. ASSUME NEW k \in Keys
        PROVE  /\ bucket'[k] \in {Absent, bucket[k]}
               /\ Content(k)' = Content(k)
    <2>1. CASE ~Stale(k)
      BY <1>1, <1>2, <2>1 DEF Sweep, Content
    <2>2. CASE Stale(k)
      <3>1. bucket'[k] = Absent /\ bucket[k] # Absent /\ bucket[k].seen < now - SweepIdle
        BY <1>2, <2>2 DEF Sweep, Stale
      <3>2. bucket[k] \in [level : Nat, seen : Nat]
        BY <1>2, <3>1 DEF TypeOK, Buckets
      <3>3. now \in Nat /\ Capacity(k) \in Nat /\ SweepIdle \in Nat /\ SweepIdle >= Capacity(k)
        BY <1>2, Capacities, Numbers DEF TypeOK
      <3>4. Content(k) = Capacity(k)
        BY <3>1, <3>2, <3>3 DEF Content, Capacity, Smaller
      <3>5. QED
        BY <3>1, <3>4 DEF Content, Capacity
    <2>3. QED
      BY <2>1, <2>2
  <1>3. bucket' \in [Keys -> Buckets]
    BY <1>2 DEF Sweep, TypeOK, Buckets
  <1>4. QED
    BY <1>1, <1>2, <1>3 DEF BucketOK, Capacity

\* A tick brings at most one unit into a bucket.
LEMMA TickOK ==
  ASSUME TypeOK, BucketOK, Tick
  PROVE  BucketOK'
  <1>1. UNCHANGED <<bucket, allowed, since>> /\ now' = now + 1 /\ now \in Nat
    BY Numbers DEF Tick, TypeOK, history
  <1>2. ASSUME NEW k \in Keys
        PROVE  /\ since'[k] <= now' /\ (bucket'[k] # Absent => bucket'[k].seen <= now')
               /\ allowed'[k] * Refill[k] + Content(k)' <= Capacity(k) + (now' - since'[k])
    <2>1. /\ Content(k) \in Nat /\ Capacity(k) \in Nat /\ Refill[k] \in Nat
          /\ allowed[k] \in Nat /\ since[k] \in Nat
      BY <1>2, ContentBounded, Capacities, Numbers DEF TypeOK
    <2>2. allowed[k] * Refill[k] \in Nat
      BY <2>1
    <2>3. /\ since[k] <= now /\ (bucket[k] # Absent => bucket[k].seen <= now)
          /\ allowed[k] * Refill[k] + Content(k) <= Capacity(k) + (now - since[k])
      BY <1>2 DEF BucketOK
    <2>4. Content(k)' \in Int /\ Content(k)' <= Content(k) + 1
      <3>1. CASE bucket[k] = Absent
        BY <1>1, <2>1, <3>1 DEF Content, Capacity
      <3>2. CASE bucket[k] # Absent
        <4>1. bucket[k] \in [level : Nat, seen : Nat]
          BY <1>2, <3>2 DEF TypeOK, Buckets
        <4>2. QED
          BY <1>1, <2>1, <3>2, <4>1 DEF Content, Capacity, Smaller
      <3>3. QED
        BY <3>1, <3>2
    <2>5. bucket[k] # Absent => bucket[k].seen \in Nat
      BY <1>2 DEF TypeOK, Buckets
    <2>6. QED
      BY <1>1, <2>1, <2>2, <2>3, <2>4, <2>5
  <1>3. QED
    BY <1>2 DEF BucketOK, Capacity

\* A step of one request that changes nothing but the request, which goes on
\* with its right or drops it, and reads no new credential.
LEMMA RequestStep ==
  ASSUME IInv, NEW h \in Handlers, NEW r \in Requests, handler' = [handler EXCEPT ![h] = r],
         r.pc = "idle" \/ (handler[h].pc # "idle" /\ r.of = handler[h].of),
         \/ ~r.read.known
         \/ r.read = handler[h].read /\ handler[h].pc = r.pc
         \/ r.read = handler[h].read /\ r.pc # "deriving",
         UNCHANGED <<mode, slots, now, account, bucket, started, transaction, code,
                     sessions, commands, history>>
  PROVE  IInv'
  <1>1. r.pc # "idle" => r.of \in SignIns
    BY DEF IInv, TypeOK
  <1>2. TypeOK'
    BY <1>1, RequestType DEF IInv, TypeOK, history
  <1>3. LockEndsByItself' /\ BucketOK'
    BY LockFrame, BucketFrame DEF IInv, history
  <1>4. PasswordOK' /\ TokenOK'
    BY PasswordHandler, TokenHandler DEF IInv, history
  <1>5. QED
    BY <1>2, <1>3, <1>4 DEF IInv

\* A command on the account leaves everything else alone.
LEMMA CommandStep ==
  ASSUME IInv, Command, account' \in Credentials, lastSet' \in Passwords \cup {NoPassword},
         overtaken' \in BOOLEAN
  PROVE  TypeOK' /\ BucketOK' /\ TokenOK'
  <1>1. /\ commands' \in 0..MaxCommands
        /\ UNCHANGED <<mode, slots, now, bucket, handler, started, transaction, code,
                       sessions, allowed, since, minted>>
    BY Numbers DEF IInv, TypeOK, Command
  <1>2. TypeOK'
    BY <1>1 DEF IInv, TypeOK
  <1>3. QED
    BY <1>1, <1>2, BucketFrame, TokenFrame DEF IInv

\* Every action preserves the invariant.
LEMMA NextOK ==
  ASSUME IInv, [Next]_vars
  PROVE  IInv'
  <1>0. TypeOK /\ LockEndsByItself /\ PasswordOK /\ BucketOK /\ TokenOK
    BY DEF IInv
  <1>10. /\ account \in Credentials /\ handler \in [Handlers -> Requests]
        /\ now \in Nat
    BY <1>0, Numbers DEF TypeOK
  <1>1. ASSUME NEW h \in Handlers, NEW s \in SignIns, NEW desktop \in BOOLEAN,
               NEW password \in Passwords, Login(h, s, password, desktop)
        PROVE  IInv'
    <2> DEFINE r == [Idle EXCEPT !.pc = "waiting", !.of = s, !.desktop = desktop,
                                 !.password = password]
    <2>1. /\ Starts(s) /\ handler[h].pc = "idle"
          /\ UNCHANGED <<mode, slots, now, account, transaction, code, sessions, commands,
                         lastSet, overtaken, minted>>
      BY <1>1 DEF Login
    <2>2. r \in Requests /\ r.pc = "waiting" /\ r.of = s /\ ~r.read.known
      <3>1. "waiting" \in Steps /\ s \in Nat
        BY DEF Steps, SignIns
      <3>2. r \in Requests
        BY <3>1, IdleType, Zenon DEF Requests
      <3>3. r.pc = "waiting" /\ r.of = s /\ r.read = Idle.read
        BY IdleType, Zenon DEF Requests
      <3>4. QED
        BY <3>2, <3>3, IdleType
    <2> HIDE DEF r
    <2>3. CASE Allows /\ Allowed /\ handler' = [handler EXCEPT ![h] = r]
      <3>1. /\ BucketOK' /\ bucket' \in [Keys -> Buckets]
            /\ allowed' \in [Keys -> Nat] /\ since' = since
        BY <1>0, <2>1, <2>3, AllowedOK
      <3>2. TypeOK'
        BY <1>0, <2>1, <2>2, <2>3, <3>1, StartedNow, RequestType DEF TypeOK
      <3>3. LockEndsByItself' /\ PasswordOK'
        BY <1>0, <2>1, <2>2, <2>3, LockFrame, PasswordHandler
      <3>4. TokenOK'
        <4>1. /\ handler'[h] = r /\ \A g \in Handlers \ {h} : handler'[g] = handler[g]
          BY <1>10, <2>3
        <4>2. /\ \A g \in Handlers, t \in SignIns : Serves(g, t)' =>
                    Serves(g, t) \/ (g = h /\ t = s)
          BY <2>2, <4>1 DEF Serves
        <4>3. QED
          BY <1>0, <2>1, <4>2, StartedNow DEF TokenOK
      <3>5. QED
        BY <3>1, <3>2, <3>3, <3>4 DEF IInv
    <2>4. CASE ~Allows /\ Throttled /\ UNCHANGED handler
      <3>1. BucketOK' /\ bucket' \in [Keys -> Buckets] /\ UNCHANGED <<allowed, since>>
        BY <1>0, <2>1, <2>4, ThrottledOK
      <3>2. TypeOK'
        BY <1>0, <2>1, <2>4, <3>1, StartedNow DEF TypeOK
      <3>3. LockEndsByItself' /\ PasswordOK'
        BY <1>0, <2>1, <2>4, LockFrame, PasswordFrame
      <3>4. TokenOK'
        BY <1>0, <2>1, <2>4, StartedNow DEF TokenOK, Serves
      <3>5. QED
        BY <3>1, <3>2, <3>3, <3>4 DEF IInv
    <2>5. QED
      BY <1>1, <2>3, <2>4 DEF Login, r
  <1>2. ASSUME NEW s \in SignIns, NEW desktop \in BOOLEAN, OidcLogin(s, desktop)
        PROVE  IInv'
    <2>1. /\ Starts(s)
          /\ UNCHANGED <<mode, slots, now, account, bucket, handler, code, sessions,
                         commands, history>>
      BY <1>2 DEF OidcLogin
    <2>2. now + TransactionTTL \in Nat
      BY <1>10, Numbers
    <2>3. /\ transaction' \in [SignIns -> [until : Nat, desktop : BOOLEAN]]
          /\ \A t \in SignIns \ {s} : transaction'[t].until # 0 => transaction[t].until # 0
      BY <1>0, <1>2, <2>2 DEF OidcLogin, TypeOK, NoTransaction
    <2>4. TypeOK'
      BY <1>0, <2>1, <2>3, StartedNow DEF TypeOK, history
    <2>5. LockEndsByItself' /\ PasswordOK' /\ BucketOK'
      BY <1>0, <2>1, LockFrame, PasswordFrame, BucketFrame DEF history
    <2>6. TokenOK'
      <3>1. \A g \in Handlers, t \in SignIns : Serves(g, t)' <=> Serves(g, t)
        BY <2>1 DEF Serves
      <3>2. \A t \in SignIns : t > started' => t # s
        BY <1>0, <2>1, StartedNow DEF SignIns
      <3>3. QED
        BY <1>0, <2>1, <2>3, <3>1, <3>2, StartedNow DEF TokenOK, history
    <2>7. QED
      BY <2>4, <2>5, <2>6 DEF IInv
  <1>3. ASSUME NEW h \in Handlers, NEW s \in SignIns, Callback(h, s)
        PROVE  IInv'
    <2> DEFINE r == [Idle EXCEPT !.pc = "exchanging", !.of = s,
                                 !.desktop = transaction[s].desktop]
    <2>1. /\ handler[h].pc = "idle" /\ transaction[s].until > now
          /\ transaction' = [transaction EXCEPT ![s] = NoTransaction]
          /\ handler' = [handler EXCEPT ![h] = r]
          /\ UNCHANGED <<mode, slots, now, account, bucket, started, code, sessions,
                         commands, history>>
      BY <1>3 DEF Callback, ConsumeOIDCTransaction
    <2>2. r \in Requests /\ r.pc = "exchanging" /\ r.of = s /\ ~r.read.known
      <3>1. "exchanging" \in Steps /\ s \in Nat
        BY DEF Steps, SignIns
      <3>2. transaction[s].desktop \in BOOLEAN
        BY <1>0, Zenon DEF TypeOK
      <3>3. r \in Requests
        BY <3>1, <3>2, IdleType, Zenon DEF Requests
      <3>4. r.pc = "exchanging" /\ r.of = s /\ r.read = Idle.read
        BY IdleType, Zenon DEF Requests
      <3>5. QED
        BY <3>3, <3>4, IdleType
    <2> HIDE DEF r
    <2>3. /\ transaction[s].until # 0
          /\ transaction' \in [SignIns -> [until : Nat, desktop : BOOLEAN]]
          /\ transaction'[s].until = 0
          /\ \A t \in SignIns \ {s} : transaction'[t] = transaction[t]
      BY <1>0, <1>10, <2>1 DEF TypeOK, NoTransaction
    <2>4. TypeOK'
      BY <1>0, <2>1, <2>2, <2>3, RequestType DEF TypeOK, history
    <2>5. LockEndsByItself' /\ PasswordOK' /\ BucketOK'
      BY <1>0, <2>1, <2>2, LockFrame, PasswordHandler, BucketFrame DEF history
    <2>6. TokenOK'
      <3>1. \A g \in Handlers, t \in SignIns : Serves(g, t)' =>
               Serves(g, t) \/ (g = h /\ t = s)
        BY <1>10, <2>1, <2>2 DEF Serves
      <3>2. QED
        BY <1>0, <2>1, <2>3, <3>1 DEF TokenOK, history
    <2>7. QED
      BY <2>4, <2>5, <2>6 DEF IInv
  <1>4. ASSUME NEW h \in Handlers, NEW s \in SignIns, ExchangeDesktopCode(h, s)
        PROVE  IInv'
    <2> DEFINE r == [Idle EXCEPT !.pc = "redeemed", !.of = s]
    <2>1. /\ handler[h].pc = "idle" /\ code[s] > now
          /\ code' = [code EXCEPT ![s] = 0]
          /\ handler' = [handler EXCEPT ![h] = r]
          /\ UNCHANGED <<mode, slots, now, account, bucket, started, transaction, sessions,
                         commands, history>>
      BY <1>4 DEF ExchangeDesktopCode, ConsumeDesktopCode
    <2>2. r \in Requests /\ r.pc = "redeemed" /\ r.of = s /\ ~r.read.known
      <3>1. "redeemed" \in Steps /\ s \in Nat
        BY DEF Steps, SignIns
      <3>2. r \in Requests
        BY <3>1, IdleType, Zenon DEF Requests
      <3>3. r.pc = "redeemed" /\ r.of = s /\ r.read = Idle.read
        BY IdleType, Zenon DEF Requests
      <3>4. QED
        BY <3>2, <3>3, IdleType
    <2> HIDE DEF r
    <2>3. /\ code[s] # 0 /\ code' \in [SignIns -> Nat] /\ code'[s] = 0
          /\ \A t \in SignIns \ {s} : code'[t] = code[t]
      BY <1>0, <1>10, <2>1 DEF TypeOK
    <2>4. TypeOK'
      BY <1>0, <2>1, <2>2, <2>3, RequestType DEF TypeOK, history
    <2>5. LockEndsByItself' /\ PasswordOK' /\ BucketOK'
      BY <1>0, <2>1, <2>2, LockFrame, PasswordHandler, BucketFrame DEF history
    <2>6. TokenOK'
      <3>1. \A g \in Handlers, t \in SignIns : Serves(g, t)' =>
               Serves(g, t) \/ (g = h /\ t = s)
        BY <1>10, <2>1, <2>2 DEF Serves
      <3>2. QED
        BY <1>0, <2>1, <2>3, <3>1 DEF TokenOK, history
    <2>7. QED
      BY <2>4, <2>5, <2>6 DEF IInv
  <1>5. ASSUME NEW h \in Handlers, BeginVerify(h)
        PROVE  IInv'
    <2> DEFINE read == IF account.exists THEN LocalCredential(account) ELSE NoCredential
               r == [handler[h] EXCEPT !.pc = "deriving", !.read = read]
    <2>1. /\ handler[h].pc = "waiting" /\ handler' = [handler EXCEPT ![h] = r]
          /\ UNCHANGED <<mode, slots, now, account, bucket, started, transaction, code,
                         sessions, commands, history>>
      BY <1>10, <1>5 DEF BeginVerify
    <2>2. read \in Reads /\ (read.known => account.exists /\ read.password = account.password)
      BY <1>10 DEF LocalCredential, NoCredential, Reads, Credentials
    <2> HIDE DEF read
    <2>3. r \in Requests /\ r.pc = "deriving" /\ r.of = handler[h].of /\ r.read = read
      BY <1>10, <2>2 DEF Requests, Steps
    <2> HIDE DEF r
    <2>4. r.of \in SignIns
      BY <1>0, <2>1, <2>3 DEF TypeOK
    <2>5. TypeOK'
      BY <1>0, <2>1, <2>3, <2>4, RequestType DEF TypeOK, history
    <2>6. LockEndsByItself' /\ BucketOK'
      BY <1>0, <2>1, LockFrame, BucketFrame DEF history
    <2>7. TokenOK'
      BY <1>0, <2>1, <2>3, TokenHandler DEF history
    <2>8. PasswordOK'
      <3>1. handler'[h] = r /\ \A g \in Handlers \ {h} : handler'[g] = handler[g]
        BY <1>10, <2>1
      <3>2. QED
        BY <1>0, <2>1, <2>2, <2>3, <3>1 DEF PasswordOK, history
    <2>9. QED
      BY <2>5, <2>6, <2>7, <2>8 DEF IInv
  <1>6. ASSUME NEW h \in Handlers, Refuse(h) \/ Abandon(h)
        PROVE  IInv'
    <2>1. /\ handler' = [handler EXCEPT ![h] = Idle]
          /\ UNCHANGED <<mode, slots, now, account, bucket, started, transaction, code,
                         sessions, commands, history>>
      BY <1>6 DEF Refuse, Abandon, Answered
    <2>2. QED
      BY <2>1, IdleType, RequestStep
  <1>7. ASSUME NEW h \in Handlers, RecordLocalLoginFailure(h)
        PROVE  IInv'
    <2>1. /\ handler' = [handler EXCEPT ![h] = Idle]
          /\ account' \in {account, CountFailure(account)}
          /\ UNCHANGED <<mode, slots, now, bucket, started, transaction, code, sessions,
                         commands, history>>
      BY <1>7 DEF RecordLocalLoginFailure, Answered
    <2>2. /\ account' \in Credentials
          /\ account'.exists = account.exists /\ account'.password = account.password
          /\ account.lockedUntil > now => account' = account
          /\ account.lockedUntil <= now /\ account'.lockedUntil > now =>
               account'.failed >= LockAfter /\ account'.lockedUntil <= now + LockCeiling
      <3>1. CASE account' = account
        BY <1>10, <3>1 DEF Credentials
      <3>2. CASE account' = CountFailure(account)
        BY <1>0, <3>2, FailureCounted
      <3>3. QED
        BY <2>1, <3>1, <3>2
    <2>3. TypeOK'
      BY <1>0, <2>1, <2>2, IdleType, RequestType DEF TypeOK, history
    <2>4. LockEndsByItself'
      <3>1. account.lockedUntil \in Int
        BY <1>10 DEF Credentials
      <3>2. QED
        BY <1>0, <1>10, <2>1, <2>2, <3>1 DEF LockEndsByItself
    <2>5. PasswordOK'
      <3>1. handler'[h] = Idle /\ \A g \in Handlers \ {h} : handler'[g] = handler[g]
        BY <1>10, <2>1
      <3>2. QED
        BY <1>0, <2>1, <2>2, <3>1, IdleType DEF PasswordOK, history
    <2>6. BucketOK' /\ TokenOK'
      BY <1>0, <2>1, IdleType, BucketFrame, TokenHandler DEF history
    <2>7. QED
      BY <2>3, <2>4, <2>5, <2>6 DEF IInv
  <1>8. ASSUME NEW h \in Handlers, RecordLocalLoginSuccess(h)
        PROVE  IInv'
    <2> DEFINE r == [handler[h] EXCEPT !.pc = "verified", !.password = NoPassword,
                                       !.read = NoCredential]
    <2>1. /\ handler[h].pc = "deriving" /\ handler[h].read.known
          /\ handler[h].password = handler[h].read.password
          /\ account' = Upgraded(account, h)
          /\ handler' = [handler EXCEPT ![h] = r]
          /\ UNCHANGED <<mode, slots, now, bucket, started, transaction, code, sessions,
                         commands, history>>
      BY <1>10, <1>8 DEF RecordLocalLoginSuccess, Refused
    <2>2. r \in Requests /\ r.pc = "verified" /\ r.of = handler[h].of /\ ~r.read.known
      <3>1. "verified" \in Steps /\ handler[h] \in Requests
        BY <1>10 DEF Steps
      <3>2. r \in Requests
        BY <3>1, NothingRead, Zenon DEF Requests
      <3>3. r.pc = "verified" /\ r.of = handler[h].of /\ r.read = NoCredential
        BY <3>1, Zenon DEF Requests
      <3>4. QED
        BY <3>2, <3>3, NothingRead
    <2> HIDE DEF r
    <2>3. /\ account' \in Credentials /\ account'.exists = account.exists
          /\ account'.lockedUntil = 0
          /\ account'.password = IF handler[h].read.weak THEN handler[h].password
                                                         ELSE account.password
      BY <1>0, <2>1, UpgradedRow
    <2>4. r.of \in SignIns
      BY <1>0, <2>1, <2>2 DEF TypeOK
    <2>5. TypeOK'
      BY <1>0, <2>1, <2>2, <2>3, <2>4, RequestType DEF TypeOK, history
    <2>6. LockEndsByItself'
      BY <1>10, <2>1, <2>3 DEF LockEndsByItself
    <2>7. PasswordOK'
      <3>1. handler'[h] = r /\ \A g \in Handlers \ {h} : handler'[g] = handler[g]
        BY <1>10, <2>1
      <3>2. ~overtaken => account'.password = lastSet
        BY <1>0, <2>1, <2>3 DEF PasswordOK
      <3>3. QED
        BY <1>0, <2>1, <2>2, <2>3, <3>1, <3>2 DEF PasswordOK, history
    <2>8. BucketOK' /\ TokenOK'
      BY <1>0, <2>1, <2>2, BucketFrame, TokenHandler DEF history
    <2>9. QED
      BY <2>5, <2>6, <2>7, <2>8 DEF IInv
  <1>9. ASSUME NEW h \in Handlers, ProviderAnswers(h)
        PROVE  IInv'
    <2> DEFINE r == [handler[h] EXCEPT !.pc = "verified"]
    <2>1. /\ handler[h].pc = "exchanging" /\ handler' = [handler EXCEPT ![h] = r]
          /\ UNCHANGED <<mode, slots, now, account, bucket, started, transaction, code,
                         sessions, commands, history>>
      BY <1>10, <1>9 DEF ProviderAnswers
    <2>2. /\ r \in Requests /\ r.pc = "verified" /\ r.of = handler[h].of
          /\ r.read = handler[h].read
      BY <1>10 DEF Requests, Steps
    <2> HIDE DEF r
    <2>3. QED
      BY <2>1, <2>2, RequestStep
  <1>11. ASSUME NEW h \in Handlers, ResolveDirectoryIdentity(h)
         PROVE  IInv'
    <2>1. /\ handler[h].pc = "verified" /\ account' = [account EXCEPT !.exists = TRUE]
          /\ UNCHANGED <<mode, slots, now, started, transaction, code, sessions, commands,
                         lastSet, overtaken, minted>>
      BY <1>11 DEF ResolveDirectoryIdentity
    <2>2. account' \in Credentials
      BY <1>10, <2>1, Zenon DEF Credentials
    <2>3. /\ account'.exists /\ account'.password = account.password
          /\ account'.failed = account.failed /\ account'.lockedUntil = account.lockedUntil
      BY <1>10, <2>1 DEF Credentials
    <2>4. PICK r \in {Idle, [handler[h] EXCEPT !.pc = "resolved"]} :
            handler' = [handler EXCEPT ![h] = r]
      BY <1>10, <1>11 DEF ResolveDirectoryIdentity, Answered
    <2>5. /\ r \in Requests /\ (r.pc # "idle" => r.of \in SignIns) /\ r.pc # "deriving"
          /\ r.pc = "idle" \/ (handler[h].pc # "idle" /\ r.of = handler[h].of)
      <3>1. CASE r = Idle
        BY <3>1, IdleType
      <3>2. CASE r = [handler[h] EXCEPT !.pc = "resolved"]
        BY <1>0, <1>10, <2>1, <3>2 DEF Requests, Steps, TypeOK
      <3>3. QED
        BY <2>4, <3>1, <3>2
    <2>6. /\ BucketOK' /\ bucket' \in [Keys -> Buckets]
          /\ allowed' \in [Keys -> Nat] /\ since' \in [Keys -> 0..MaxTime]
      <3>1. CASE Reset
        BY <1>0, <2>1, <3>1, ResetOK
      <3>2. CASE UNCHANGED <<bucket, allowed, since>>
        BY <1>0, <2>1, <3>2, BucketFrame DEF TypeOK
      <3>3. QED
        BY <1>11, <3>1, <3>2 DEF ResolveDirectoryIdentity
    <2>7. TypeOK'
      BY <1>0, <2>1, <2>2, <2>4, <2>5, <2>6, RequestType DEF TypeOK
    <2>8. LockEndsByItself'
      BY <1>0, <2>1, <2>3 DEF LockEndsByItself
    <2>9. PasswordOK'
      <3>1. handler'[h] = r /\ \A g \in Handlers \ {h} : handler'[g] = handler[g]
        BY <1>10, <2>4
      <3>2. QED
        BY <1>0, <2>1, <2>3, <2>5, <3>1 DEF PasswordOK
    <2>10. TokenOK'
      BY <1>0, <2>1, <2>4, <2>5, TokenHandler
    <2>11. QED
      BY <2>6, <2>7, <2>8, <2>9, <2>10 DEF IInv
  <1>12. ASSUME NEW h \in Handlers, NewSession(h)
         PROVE  IInv'
    <2>0. PICK s \in SignIns : s = handler[h].of
      BY <1>0, <1>12 DEF TypeOK, NewSession
    <2>1. /\ handler[h].pc # "idle" /\ handler' = [handler EXCEPT ![h] = Idle]
          /\ sessions' = sessions \cup {[of |-> s, until |-> now + SessionTTL]}
          /\ minted' = [minted EXCEPT ![s] = @ + 1]
          /\ UNCHANGED <<mode, slots, now, account, bucket, started, transaction, code,
                         commands, lastSet, overtaken, allowed, since>>
      BY <1>12, <2>0 DEF NewSession, Answered
    <2>2. Serves(h, s) /\ now + SessionTTL \in Nat
      BY <1>10, <2>0, <2>1, Numbers DEF Serves
    <2>3. /\ sessions' \subseteq [of : SignIns, until : Nat]
          /\ minted' \in [SignIns -> Nat]
          /\ minted'[s] = minted[s] + 1 /\ \A t \in SignIns \ {s} : minted'[t] = minted[t]
      BY <1>0, <2>1, <2>2 DEF TypeOK
    <2>4. TypeOK'
      BY <1>0, <2>1, <2>3, IdleType, RequestType DEF TypeOK
    <2>5. LockEndsByItself' /\ PasswordOK' /\ BucketOK'
      BY <1>0, <2>1, IdleType, LockFrame, PasswordHandler, BucketFrame
    <2>6. TokenOK'
      <3>1. /\ \A g \in Handlers, t \in SignIns : Serves(g, t)' => Serves(g, t)
            /\ ~Serves(h, s)'
        BY <1>10, <2>1, IdleType DEF Serves
      <3>2. /\ minted[s] = 0 /\ \A g \in Handlers : Serves(g, s) => g = h
            /\ transaction[s].until = 0 /\ code[s] = 0 /\ ~(s > started)
        BY <1>0, <2>2 DEF TokenOK
      <3>3. \A g \in Handlers : ~Serves(g, s)'
        BY <3>1, <3>2
      <3>4. minted'[s] = 1
        BY <2>3, <3>2
      <3>5. QED
        BY <1>0, <2>1, <2>3, <3>1, <3>2, <3>3, <3>4 DEF TokenOK
    <2>7. QED
      BY <2>4, <2>5, <2>6 DEF IInv
  <1>13. ASSUME NEW h \in Handlers, StoreDesktopCode(h)
         PROVE  IInv'
    <2>0. PICK s \in SignIns : s = handler[h].of
      BY <1>0, <1>13 DEF TypeOK, StoreDesktopCode
    <2>1. /\ handler[h].pc # "idle" /\ handler' = [handler EXCEPT ![h] = Idle]
          /\ UNCHANGED <<mode, slots, now, account, bucket, started, transaction, sessions,
                         commands, history>>
      BY <1>13 DEF StoreDesktopCode, Answered
    <2>2. Serves(h, s) /\ now + CodeTTL \in Nat
      BY <1>10, <2>0, <2>1, Numbers DEF Serves
    <2>3. code' = [t \in SignIns |-> CASE t = s -> now + CodeTTL
                                       [] t # s /\ code[t] <= now -> 0
                                       [] OTHER -> code[t]]
      BY <1>13, <2>0 DEF StoreDesktopCode
    <2>4. code' \in [SignIns -> Nat] /\ \A t \in SignIns \ {s} : code'[t] \in {0, code[t]}
      BY <1>0, <2>2, <2>3 DEF TypeOK
    <2>5. TypeOK'
      BY <1>0, <2>1, <2>4, IdleType, RequestType DEF TypeOK, history
    <2>6. LockEndsByItself' /\ PasswordOK' /\ BucketOK'
      BY <1>0, <2>1, IdleType, LockFrame, PasswordHandler, BucketFrame DEF history
    <2>7. TokenOK'
      <3>1. /\ \A g \in Handlers, t \in SignIns : Serves(g, t)' => Serves(g, t)
            /\ ~Serves(h, s)'
        BY <1>10, <2>1, IdleType DEF Serves
      <3>2. /\ minted[s] = 0 /\ \A g \in Handlers : Serves(g, s) => g = h
            /\ transaction[s].until = 0 /\ ~(s > started)
        BY <1>0, <2>2 DEF TokenOK
      <3>3. \A g \in Handlers : ~Serves(g, s)'
        BY <3>1, <3>2
      <3>4. QED
        BY <1>0, <2>1, <2>4, <3>1, <3>2, <3>3 DEF TokenOK, history
    <2>8. QED
      BY <2>5, <2>6, <2>7 DEF IInv
  <1>14. ASSUME NEW session \in sessions, Logout(session)
         PROVE  IInv'
    <2>1. /\ sessions' \subseteq sessions
          /\ UNCHANGED <<mode, slots, now, account, bucket, handler, started, transaction,
                         code, commands, history>>
      BY <1>14 DEF Logout
    <2>2. TypeOK'
      BY <1>0, <2>1 DEF TypeOK, history
    <2>3. QED
      BY <1>0, <2>1, <2>2, LockFrame, PasswordFrame, BucketFrame, TokenFrame
      DEF IInv, history
  <1>15. ASSUME NEW password \in Passwords, CreateLocalAccount(password)
         PROVE  IInv'
    <2>1. /\ Command /\ ~account.exists /\ lastSet' = password /\ UNCHANGED overtaken
          /\ account' = [account EXCEPT !.exists = TRUE, !.password = password]
      BY <1>15 DEF CreateLocalAccount
    <2>2. account' \in Credentials
      BY <1>10, <2>1, Zenon DEF Credentials
    <2>3. /\ account'.exists /\ account'.password = password
          /\ account'.failed = account.failed /\ account'.lockedUntil = account.lockedUntil
      BY <1>10, <2>1 DEF Credentials
    <2>4. TypeOK' /\ BucketOK' /\ TokenOK'
      BY <1>0, <2>1, <2>2, CommandStep DEF TypeOK
    <2>5. UNCHANGED <<handler, now>>
      BY <2>1 DEF Command
    <2>6. LockEndsByItself'
      BY <1>0, <2>3, <2>5 DEF LockEndsByItself
    <2>7. PasswordOK'
      BY <1>0, <2>1, <2>3, <2>5 DEF PasswordOK
    <2>8. QED
      BY <2>4, <2>6, <2>7 DEF IInv
  <1>16. ASSUME NEW password \in Passwords, SetLocalPassword(password)
         PROVE  IInv'
    <2>1. /\ Command /\ account.exists /\ lastSet' = password
          /\ account' = [account EXCEPT !.password = password, !.weak = FALSE,
                                        !.failed = 0, !.lockedUntil = 0]
          /\ overtaken' = (overtaken \/ AboutToRehash)
      BY <1>16 DEF SetLocalPassword
    <2>2. account' \in Credentials
      <3>1. 0 \in Nat /\ 0 \in Int
        OBVIOUS
      <3>2. QED
        BY <1>10, <2>1, <3>1, Zenon DEF Credentials
    <2>3. account'.exists /\ account'.password = password /\ account'.lockedUntil = 0
      BY <1>10, <2>1 DEF Credentials
    <2>4. overtaken' \in BOOLEAN
      BY <2>1
    <2>5. TypeOK' /\ BucketOK' /\ TokenOK'
      BY <1>0, <2>1, <2>2, <2>4, CommandStep
    <2>6. UNCHANGED <<handler, now>>
      BY <2>1 DEF Command
    <2>7. LockEndsByItself'
      BY <1>10, <2>3, <2>6 DEF LockEndsByItself
    <2>8. PasswordOK'
      BY <1>0, <2>1, <2>3, <2>6 DEF PasswordOK, AboutToRehash
    <2>9. QED
      BY <2>5, <2>7, <2>8 DEF IInv
  <1>17. CASE UnlockLocalAccount
    <2>1. /\ Command /\ UNCHANGED <<lastSet, overtaken>>
          /\ account' = [account EXCEPT !.failed = 0, !.lockedUntil = 0]
      BY <1>17 DEF UnlockLocalAccount
    <2>2. account' \in Credentials /\ account'.exists = account.exists
          /\ account'.password = account.password /\ account'.lockedUntil = 0
      <3>1. 0 \in Nat /\ 0 \in Int
        OBVIOUS
      <3>2. QED
        BY <1>10, <2>1, <3>1, Zenon DEF Credentials
    <2>3. TypeOK' /\ BucketOK' /\ TokenOK'
      BY <1>0, <2>1, <2>2, CommandStep DEF TypeOK
    <2>4. UNCHANGED <<handler, now>>
      BY <2>1 DEF Command
    <2>5. LockEndsByItself' /\ PasswordOK'
      BY <1>0, <1>10, <2>1, <2>2, <2>4 DEF LockEndsByItself, PasswordOK
    <2>6. QED
      BY <2>3, <2>5 DEF IInv
  <1>18. ASSUME NEW b \in BOOLEAN, SetLocalAccountEnabled(b) \/ SetBinding(b)
         PROVE  IInv'
    <2>1. /\ Command /\ UNCHANGED <<lastSet, overtaken>>
          /\ account' \in {[account EXCEPT !.enabled = b], [account EXCEPT !.bound = b]}
      BY <1>18 DEF SetLocalAccountEnabled, SetBinding
    <2>2. account' \in Credentials
      BY <1>10, <2>1, Zenon DEF Credentials
    <2>3. /\ account'.exists = account.exists /\ account'.password = account.password
          /\ account'.failed = account.failed /\ account'.lockedUntil = account.lockedUntil
      BY <1>10, <2>1 DEF Credentials
    <2>4. TypeOK' /\ BucketOK' /\ TokenOK'
      BY <1>0, <2>1, <2>2, CommandStep DEF TypeOK
    <2>5. UNCHANGED <<handler, now>>
      BY <2>1 DEF Command
    <2>6. LockEndsByItself' /\ PasswordOK'
      BY <1>0, <2>1, <2>3, <2>5 DEF LockEndsByItself, PasswordOK
    <2>7. QED
      BY <2>4, <2>6 DEF IInv
  <1>19. CASE Sweep
    <2>1. /\ BucketOK' /\ bucket' \in [Keys -> Buckets]
          /\ UNCHANGED <<mode, slots, now, account, handler, started, transaction, code,
                         sessions, commands, history>>
      BY <1>0, <1>19, SweepOK DEF Sweep
    <2>2. TypeOK'
      BY <1>0, <2>1 DEF TypeOK, history
    <2>3. QED
      BY <1>0, <2>1, <2>2, LockFrame, PasswordFrame, TokenFrame DEF IInv, history
  <1>20. CASE Tick
    <2>1. /\ now < MaxTime /\ now' = now + 1
          /\ UNCHANGED <<mode, slots, account, bucket, handler, started, transaction, code,
                         sessions, commands, history>>
      BY <1>20 DEF Tick
    <2>2. now' \in 0..MaxTime
      BY <1>10, <2>1, Numbers
    <2>3. TypeOK'
      BY <1>0, <2>1, <2>2 DEF TypeOK, history
    <2>4. LockEndsByItself'
      <3>1. account.lockedUntil \in Int /\ LockCeiling \in Nat
        BY <1>10, Numbers DEF Credentials
      <3>2. QED
        BY <1>0, <1>10, <2>1, <3>1 DEF LockEndsByItself
    <2>5. BucketOK'
      BY <1>0, <1>20, TickOK
    <2>6. PasswordOK' /\ TokenOK'
      BY <1>0, <2>1, PasswordFrame, TokenFrame DEF history
    <2>7. QED
      BY <2>3, <2>4, <2>5, <2>6 DEF IInv
  <1>21. CASE UNCHANGED vars
    <2>1. TypeOK'
      BY <1>0, <1>21 DEF TypeOK, vars, history
    <2>2. QED
      BY <1>0, <1>21, <2>1, LockFrame, PasswordFrame, BucketFrame, TokenFrame
      DEF IInv, vars, history
  <1>22. QED
    BY <1>1, <1>2, <1>3, <1>4, <1>5, <1>6, <1>7, <1>8, <1>9, <1>11, <1>12, <1>13, <1>14,
       <1>15, <1>16, <1>17, <1>18, <1>19, <1>20, <1>21 DEF Next

-----------------------------------------------------------------------------
(***************************************************************************)
(* The theorems.                                                           *)
(***************************************************************************)

\* The parts together hold in every reachable state.
THEOREM Invariance == Spec => []IInv
  <1>1. Init => IInv
    BY InitOK
  <1>2. IInv /\ [Next]_vars => IInv'
    BY NextOK
  <1>3. QED
    BY <1>1, <1>2, PTL DEF Spec

\* Every variable stays in its set, whatever the requests, the commands and
\* the clock do.
THEOREM TypeCorrect == Spec => []TypeOK
  <1>1. IInv => TypeOK
    BY DEF IInv
  <1>2. QED
    BY <1>1, Invariance, PTL

\* A lock in force is explained by LockAfter failures and ends within the
\* ceiling (RecordLocalLoginFailure), with any number of attempts in flight.
THEOREM LocksEnd == Spec => []LockEndsByItself
  <1>1. IInv => LockEndsByItself
    BY DEF IInv
  <1>2. QED
    BY <1>1, Invariance, PTL

\* The stored password is the one set last unless the change overtook a
\* sign-in about to rehash (RecordLocalLoginSuccess, SetLocalPassword).
THEOREM OnlyRehashUndoes == Spec => []OnlyARehashUndoesAChange
  <1>1. IInv => OnlyARehashUndoesAChange
    BY DEF IInv, PasswordOK, OnlyARehashUndoesAChange
  <1>2. QED
    BY <1>1, Invariance, PTL

\* The limiter lets through its burst and what was refilled, and no more, for
\* every budget (Allow, Sweep, refill).
THEOREM AttemptsBounded == Spec => []AttemptsAreBounded
  <1>1. IInv => AttemptsAreBounded
    <2> SUFFICES ASSUME IInv, NEW k \in Keys
                 PROVE  allowed[k] * Refill[k] <= Burst[k] * Refill[k] + (now - since[k])
      BY DEF AttemptsAreBounded
    <2>1. TypeOK /\ BucketOK
      BY DEF IInv
    <2>2. /\ Content(k) \in Nat /\ Capacity(k) \in Nat /\ Refill[k] \in Nat
          /\ allowed[k] \in Nat /\ since[k] \in Nat /\ now \in Nat
      BY <2>1, ContentBounded, Capacities, Numbers DEF TypeOK
    <2>3. allowed[k] * Refill[k] \in Nat
      BY <2>2
    <2>4. allowed[k] * Refill[k] + Content(k) <= Capacity(k) + (now - since[k])
      BY <2>1 DEF BucketOK
    <2>5. allowed[k] * Refill[k] <= Capacity(k) + (now - since[k])
      BY <2>2, <2>3, <2>4
    <2>6. QED
      BY <2>5 DEF Capacity
  <1>2. QED
    BY <1>1, Invariance, PTL

\* A sign-in ends in one session at most (ConsumeOIDCTransaction,
\* ConsumeDesktopCode, NewSession).
THEOREM OneSession == Spec => []OneSessionPerSignIn
  <1>1. IInv => OneSessionPerSignIn
    BY DEF IInv, TokenOK, OneSessionPerSignIn
  <1>2. QED
    BY <1>1, Invariance, PTL

\* No step lengthens a lock in force: it stays, or an administrator or the
\* right password lifts it (the WHERE of RecordLocalLoginFailure).
THEOREM LocksNotExtended == Spec => LockIsNeverExtended
  <1>1. ASSUME IInv, [Next]_vars
        PROVE  [account.lockedUntil > now =>
                  account'.lockedUntil \in {account.lockedUntil, 0}]_vars
    <2>1. TypeOK /\ account \in Credentials /\ now \in Nat
      BY <1>1, Numbers DEF IInv, TypeOK
    <2>2. UNCHANGED account => account'.lockedUntil = account.lockedUntil
      OBVIOUS
    <2>3. ASSUME NEW h \in Handlers, RecordLocalLoginFailure(h), account.lockedUntil > now
          PROVE  account' = account
      BY <2>1, <2>3 DEF RecordLocalLoginFailure, CountFailure
    <2>4. ASSUME NEW h \in Handlers, RecordLocalLoginSuccess(h)
          PROVE  account'.lockedUntil = 0
      BY <2>1, <2>4, UpgradedRow DEF RecordLocalLoginSuccess
    <2>5. ASSUME NEW h \in Handlers, ResolveDirectoryIdentity(h)
          PROVE  account'.lockedUntil = account.lockedUntil
      BY <2>1, <2>5 DEF ResolveDirectoryIdentity, Credentials
    <2>6. ASSUME NEW password \in Passwords, CreateLocalAccount(password)
          PROVE  account'.lockedUntil = account.lockedUntil
      BY <2>1, <2>6 DEF CreateLocalAccount, Credentials
    <2>7. ASSUME NEW password \in Passwords, SetLocalPassword(password)
          PROVE  account'.lockedUntil = 0
      BY <2>1, <2>7 DEF SetLocalPassword, Credentials
    <2>8. UnlockLocalAccount => account'.lockedUntil = 0
      BY <2>1 DEF UnlockLocalAccount, Credentials
    <2>9. ASSUME NEW b \in BOOLEAN, SetLocalAccountEnabled(b) \/ SetBinding(b)
          PROVE  account'.lockedUntil = account.lockedUntil
      BY <2>1, <2>9 DEF SetLocalAccountEnabled, SetBinding, Credentials
    <2>10. ASSUME NEW h \in Handlers, NEW s \in SignIns, NEW d \in BOOLEAN
           PROVE  /\ \A p \in Passwords : Login(h, s, p, d) => UNCHANGED account
                  /\ OidcLogin(s, d) => UNCHANGED account
                  /\ Callback(h, s) \/ ExchangeDesktopCode(h, s) => UNCHANGED account
      BY DEF Login, OidcLogin, Callback, ExchangeDesktopCode
    <2>11. ASSUME NEW h \in Handlers,
                  \/ BeginVerify(h) \/ Refuse(h) \/ ProviderAnswers(h) \/ NewSession(h)
                  \/ StoreDesktopCode(h) \/ Abandon(h)
           PROVE  UNCHANGED account
      BY <2>11 DEF BeginVerify, Refuse, ProviderAnswers, NewSession, StoreDesktopCode,
                   Abandon
    <2>12. /\ \A session \in sessions : Logout(session) => UNCHANGED account
           /\ Sweep \/ Tick => UNCHANGED account
      BY DEF Logout, Sweep, Tick
    <2>13. QED
      BY <1>1, <2>2, <2>3, <2>4, <2>5, <2>6, <2>7, <2>8, <2>9, <2>10, <2>11, <2>12
      DEF Next
  <1>2. QED
    BY <1>1, Invariance, PTL DEF Spec, LockIsNeverExtended
=============================================================================
