------------------------------- MODULE SignIn -------------------------------
(***************************************************************************)
(* Signing in: how a request becomes a session.  A deployment runs one     *)
(* mode (PROMVIEW_AUTH_MODE).  In "local" mode a POST of a username and a  *)
(* password passes the login limiter, waits for a verification slot, reads *)
(* the stored credential, derives the password, records the outcome and    *)
(* then resolves the identity; in "oidc" mode a login transaction is       *)
(* stored, the provider redirects back, the callback consumes the          *)
(* transaction and resolves the identity.  Both end in a session, or in a  *)
(* one-time code a desktop client exchanges for one.                       *)
(*                                                                         *)
(* Each database statement or transaction is one step; between two of them *)
(* any other request, an administrator's command or the clock may act.     *)
(* One account and one client address are modelled: the limiter's buckets, *)
(* the credential and the sessions of two accounts do not interact except  *)
(* through the address bucket, which every attempt here shares.            *)
(*                                                                         *)
(* Time is a counter.  A bucket's content is kept in clock units: a token  *)
(* is Refill[k] units, so that one unit flows in per tick and the code's   *)
(* floating-point tokens are represented exactly.                          *)
(***************************************************************************)
EXTENDS Integers, FiniteSets

CONSTANTS
  MaxSignIns,       \* bound on the sign-ins users start
  Handlers,         \* requests the server is serving at the same time
  Passwords,        \* passwords that may be set or tried
  FirstPassword,    \* the one an account that already exists has
  NoPassword,       \* stands for no password
  UserBurst, UserRefill, AddressBurst, AddressRefill, \* DefaultLoginBudgets
  SweepIdle,        \* how long an untouched bucket is kept
  MaxVerifications, \* MaxConcurrentVerifications is at most this
  LockAfter, LockBase, LockCeiling, \* lockoutAfterAttempts, lockoutBase, lockoutCeiling
  MaxExponent,      \* largest exponent for which power(2, n) does not overflow
  TransactionTTL, CodeTTL, SessionTTL,
  MaxTime,          \* bound on the clock
  MaxCommands       \* bound on administrators' commands

SignIns == 1..MaxSignIns   \* numbered in the order they start
Keys == {"user", "addr"}
Burst == [k \in Keys |-> IF k = "user" THEN UserBurst ELSE AddressBurst]
Refill == [k \in Keys |-> IF k = "user" THEN UserRefill ELSE AddressRefill]

\* The budgets are positive, the lock is shaped as in the code, and an idle
\* bucket is swept only after a time in which any budget refills
\* ("far past any budget's refill", cmd/promview/main.go).
ASSUME SignInConstants ==
  /\ FirstPassword \in Passwords /\ NoPassword \notin Passwords
  /\ {UserBurst, UserRefill, AddressBurst, AddressRefill} \subseteq Nat \ {0}
  /\ {MaxVerifications, LockAfter, LockBase, LockCeiling} \subseteq Nat \ {0}
  /\ {MaxExponent, TransactionTTL, CodeTTL, SessionTTL} \subseteq Nat \ {0}
  /\ {SweepIdle, MaxTime, MaxCommands, MaxSignIns} \subseteq Nat
  /\ \A k \in Keys : SweepIdle >= Burst[k] * Refill[k]

VARIABLES
  mode,         \* the deployment's authentication mode
  slots,        \* password derivations the deployment runs at once
  now,          \* the clock
  account,      \* the users row with its local credential and its bindings
  bucket,       \* the limiter's buckets, by key
  handler,      \* what each request being served has done so far
  started,      \* sign-ins started so far
  transaction,  \* oidc_login_transactions, by sign-in
  code,         \* desktop_auth_codes: 0, or when the row expires
  sessions,     \* the sessions table
  commands,     \* administrators' commands so far
  lastSet,      \* history: the password an administrator set last
  overtaken,    \* history: a password was set under a sign-in about to rehash
  allowed,      \* history: attempts let through since a key was last reset
  since,        \* history: when the key was last reset
  minted        \* history: sessions minted for each sign-in

history == <<lastSet, overtaken, allowed, since, minted>>
vars == <<mode, slots, now, account, bucket, handler, started, transaction, code,
          sessions, commands, history>>

-----------------------------------------------------------------------------
(* State *)

Credentials == [exists : BOOLEAN, enabled : BOOLEAN, bound : BOOLEAN,
                password : Passwords \cup {NoPassword}, weak : BOOLEAN,
                failed : Nat, lockedUntil : Int]

Absent == [level |-> -1, seen |-> 0]   \* no bucket in the map

Buckets == {Absent} \cup [level : Nat, seen : Nat]

\* The row FindLocalCredential joins and reads, and what it reads of an
\* unknown username
LocalCredential(a) ==
  [known |-> TRUE, enabled |-> a.enabled, password |-> a.password,
   weak |-> a.weak, lockedUntil |-> a.lockedUntil]

NoCredential == [known |-> FALSE, enabled |-> FALSE, password |-> NoPassword,
                 weak |-> FALSE, lockedUntil |-> 0]

Reads == [known : BOOLEAN, enabled : BOOLEAN, password : Passwords \cup {NoPassword},
          weak : BOOLEAN, lockedUntil : Int]

\* A desktop client asks for a code in place of a cookie (desktopRedirect)
Idle == [pc |-> "idle", of |-> 0, desktop |-> FALSE, password |-> NoPassword,
         read |-> NoCredential]

NoTransaction == [until |-> 0, desktop |-> FALSE]

Steps == {"idle", "waiting", "deriving", "exchanging", "verified",
          "resolved", "redeemed"}

Requests == [pc : Steps, of : Nat, desktop : BOOLEAN,
             password : Passwords \cup {NoPassword}, read : Reads]

TypeOK ==
  /\ mode \in {"local", "oidc"}
  /\ slots \in 1..MaxVerifications
  /\ now \in 0..MaxTime
  /\ account \in Credentials
  /\ bucket \in [Keys -> Buckets]
  /\ handler \in [Handlers -> Requests]
  /\ \A h \in Handlers : handler[h].pc # "idle" => handler[h].of \in SignIns
  /\ started \in 0..MaxSignIns
  /\ transaction \in [SignIns -> [until : Nat, desktop : BOOLEAN]]
  /\ code \in [SignIns -> Nat]
  /\ sessions \subseteq [of : SignIns, until : Nat]
  /\ commands \in 0..MaxCommands
  /\ lastSet \in Passwords \cup {NoPassword}
  /\ overtaken \in BOOLEAN
  /\ allowed \in [Keys -> Nat]
  /\ since \in [Keys -> 0..MaxTime]
  /\ minted \in [SignIns -> Nat]

\* An existing local account may have been hashed at older settings, and may
\* have failures counted whose lock has run out by now (lockedUntil 0 stands
\* for NULL or any time in the past).
Init ==
  /\ mode \in {"local", "oidc"}
  /\ slots \in IF mode = "local" THEN 1..MaxVerifications ELSE {MaxVerifications}
  /\ now = 0
  /\ account \in {a \in [exists : BOOLEAN, enabled : {TRUE}, bound : BOOLEAN,
                         password : {FirstPassword, NoPassword}, weak : BOOLEAN,
                         failed : 0..(LockAfter + MaxExponent), lockedUntil : {0}] :
                    IF mode = "local" /\ a.exists
                    THEN a.password = FirstPassword
                    ELSE a.password = NoPassword /\ ~a.weak /\ a.failed = 0}
  /\ bucket = [k \in Keys |-> Absent]
  /\ handler = [h \in Handlers |-> Idle]
  /\ started = 0
  /\ transaction = [s \in SignIns |-> NoTransaction]
  /\ code = [s \in SignIns |-> 0]
  /\ sessions = {}
  /\ commands = 0
  /\ lastSet = account.password
  /\ overtaken = FALSE
  /\ allowed = [k \in Keys |-> 0]
  /\ since = [k \in Keys |-> 0]
  /\ minted = [s \in SignIns |-> 0]

\* A user starts the next sign-in
Starts(s) == s = started + 1 /\ started' = s

-----------------------------------------------------------------------------
(* The login limiter *)

Smaller(a, b) == IF a <= b THEN a ELSE b

\* bucketLocked and refill: a bucket nobody has is full, any other has taken
\* in what flowed since it was last seen, up to its burst.
Content(k) ==
  IF bucket[k] = Absent
  THEN Burst[k] * Refill[k]
  ELSE Smaller(bucket[k].level + (now - bucket[k].seen), Burst[k] * Refill[k])

\* A token is there for every key
Allows == \A k \in Keys : Content(k) >= Refill[k]

\* Allow with every key passing: a token is taken from each bucket.
Allowed ==
  /\ bucket' = [k \in Keys |-> [level |-> Content(k) - Refill[k], seen |-> now]]
  /\ allowed' = [k \in Keys |-> allowed[k] + 1]
  /\ UNCHANGED since

\* Allow with a key refusing: the buckets are brought up to date, and nothing
\* is taken from any of them.
Throttled ==
  /\ bucket' = [k \in Keys |-> [level |-> Content(k), seen |-> now]]
  /\ UNCHANGED <<allowed, since>>

\* The map holds no bucket for this key any more.
Reset ==
  /\ bucket' = [k \in Keys |-> Absent]
  /\ allowed' = [k \in Keys |-> 0]
  /\ since' = [k \in Keys |-> now]

\* Mutant: any bucket not touched in this very instant goes
Stale_Untouched(k) == bucket[k] # Absent /\ bucket[k].seen < now

\* runLoginLimiterSweeps: buckets untouched for longer than SweepIdle go.
Stale(k) == bucket[k] # Absent /\ bucket[k].seen < now - SweepIdle

Sweep ==
  /\ mode = "local"
  /\ \E k \in Keys : Stale(k)
  /\ bucket' = [k \in Keys |-> IF Stale(k) THEN Absent ELSE bucket[k]]
  /\ UNCHANGED <<mode, slots, now, account, handler, started, transaction, code, sessions,
                 commands, history>>

-----------------------------------------------------------------------------
(* Signing in with a password *)

\* POST /api/v1/auth/login up to the limiter: the attempt goes on to wait for
\* a slot, or is answered 429.
Login(h, s, password, desktop) ==
  /\ mode = "local"
  /\ handler[h].pc = "idle"
  /\ Starts(s)
  /\ \/ /\ Allows
        /\ Allowed
        /\ handler' = [handler EXCEPT ![h] =
                         [Idle EXCEPT !.pc = "waiting", !.of = s, !.desktop = desktop,
                                      !.password = password]]
     \/ /\ ~Allows
        /\ Throttled
        /\ UNCHANGED handler
  /\ UNCHANGED <<mode, slots, now, account, transaction, code, sessions, commands,
                 lastSet, overtaken, minted>>

Verifying == {h \in Handlers : handler[h].pc = "deriving"}

\* A verification slot is free: take it and read the credential.  An unknown
\* username is read as no credential, and derives against the decoy.
BeginVerify(h) ==
  /\ handler[h].pc = "waiting"
  /\ Cardinality(Verifying) < slots
  /\ handler' = [handler EXCEPT ![h].pc = "deriving",
                                ![h].read = IF account.exists THEN LocalCredential(account)
                                            ELSE NoCredential]
  /\ UNCHANGED <<mode, slots, now, account, bucket, started, transaction, code, sessions,
                 commands, history>>

\* The credential as it was read: unknown, disabled or locked out.
Refused(r) == ~r.known \/ ~r.enabled \/ r.lockedUntil > now

\* Mutant: an attempt that ends while it verifies keeps its slot
Answered_KeepsSlot(h) ==
  handler' = [handler EXCEPT ![h] = IF @.pc = "deriving" THEN @ ELSE Idle]

\* The request is over, and with it the slot it may hold.
Answered(h) == handler' = [handler EXCEPT ![h] = Idle]

Refuse(h) ==
  /\ handler[h].pc = "deriving"
  /\ Refused(handler[h].read)
  /\ Answered(h)
  /\ UNCHANGED <<mode, slots, now, account, bucket, started, transaction, code, sessions,
                 commands, history>>

\* Mutant: no ceiling
LockSeconds_Uncapped(n) == LockBase * 2 ^ (n - LockAfter)

\* The lock the n-th failure in a row sets: LEAST($3 * power(2, n - $2), $4)
LockSeconds(n) == Smaller(LockBase * 2 ^ (n - LockAfter), LockCeiling)

\* Mutant: a failure counts while the account is locked
CountFailure_WhileLocked(a) ==
  [a EXCEPT !.failed = @ + 1,
            !.lockedUntil = IF a.failed + 1 >= LockAfter
                            THEN now + LockSeconds(a.failed + 1) ELSE @]

\* The UPDATE of RecordLocalLoginFailure on the row as it is now: a row that
\* is locked is left alone.
CountFailure(a) ==
  IF a.lockedUntil > now THEN a
  ELSE [a EXCEPT !.failed = @ + 1,
                 !.lockedUntil = IF a.failed + 1 >= LockAfter
                                 THEN now + LockSeconds(a.failed + 1) ELSE @]

\* A wrong password.  power(2, n) overflows a double past MaxExponent, and
\* then the statement fails, the row stays and the answer is an error.
RecordLocalLoginFailure(h) ==
  /\ handler[h].pc = "deriving"
  /\ ~Refused(handler[h].read)
  /\ handler[h].password # handler[h].read.password
  /\ account' = IF account.failed + 1 - LockAfter > MaxExponent THEN account
                ELSE CountFailure(account)
  /\ Answered(h)
  /\ UNCHANGED <<mode, slots, now, bucket, started, transaction, code, sessions,
                 commands, history>>

\* Mutant: rehashes whatever the hash that was read
Upgraded_Always(a, h) ==
  [a EXCEPT !.failed = 0, !.lockedUntil = 0,
            !.password = handler[h].password, !.weak = FALSE]

\* The UPDATE of RecordLocalLoginSuccess: the backoff is cleared and, when the
\* hash that was read was weak, the password it was read for is written again.
Upgraded(a, h) ==
  [a EXCEPT !.failed = 0, !.lockedUntil = 0,
            !.password = IF handler[h].read.weak THEN handler[h].password ELSE @,
            !.weak = IF handler[h].read.weak THEN FALSE ELSE @]

RecordLocalLoginSuccess(h) ==
  /\ handler[h].pc = "deriving"
  /\ ~Refused(handler[h].read)
  /\ handler[h].password = handler[h].read.password
  /\ account' = Upgraded(account, h)
  /\ handler' = [handler EXCEPT ![h].pc = "verified", ![h].password = NoPassword,
                                ![h].read = NoCredential]
  /\ UNCHANGED <<mode, slots, now, bucket, started, transaction, code, sessions,
                 commands, history>>

\* The client goes away, or a statement fails, before the request is answered:
\* what it committed stays, the rest never happens.
Abandon(h) ==
  /\ handler[h].pc # "idle"
  /\ Answered(h)
  /\ UNCHANGED <<mode, slots, now, account, bucket, started, transaction, code, sessions,
                 commands, history>>

-----------------------------------------------------------------------------
(* Signing in through an identity provider *)

\* StoreOIDCTransaction sweeps the expired rows before it writes its own.
OidcLogin(s, desktop) ==
  /\ mode = "oidc"
  /\ Starts(s)
  /\ transaction' = [t \in SignIns |->
       CASE t = s -> [until |-> now + TransactionTTL, desktop |-> desktop]
         [] t # s /\ transaction[t].until <= now -> NoTransaction
         [] OTHER -> transaction[t]]
  /\ UNCHANGED <<mode, slots, now, account, bucket, handler, code, sessions,
                 commands, history>>

\* The DELETE ... RETURNING of ConsumeOIDCTransaction
ConsumeOIDCTransaction(s) ==
  /\ transaction[s].until > now
  /\ transaction' = [transaction EXCEPT ![s] = NoTransaction]

\* The browser comes back with its state, once or more often
Callback(h, s) ==
  /\ mode = "oidc"
  /\ handler[h].pc = "idle"
  /\ ConsumeOIDCTransaction(s)
  /\ handler' = [handler EXCEPT ![h] = [Idle EXCEPT !.pc = "exchanging", !.of = s,
                                                     !.desktop = transaction[s].desktop]]
  /\ UNCHANGED <<mode, slots, now, account, bucket, started, code, sessions,
                 commands, history>>

\* The provider exchanges the authorization code for an identity; when it
\* does not, the request is abandoned.
ProviderAnswers(h) ==
  /\ handler[h].pc = "exchanging"
  /\ handler' = [handler EXCEPT ![h].pc = "verified"]
  /\ UNCHANGED <<mode, slots, now, account, bucket, started, transaction, code, sessions,
                 commands, history>>

-----------------------------------------------------------------------------
(* From an identity to a session *)

\* resolvePrincipal: an account that is disabled, or bound to nothing that
\* reads, is denied.
Entitled(a) == a.exists /\ a.enabled /\ a.bound

\* ResolveDirectoryIdentity creates the user on its first sign-in.  A denied
\* identity is answered 403; a password sign-in that resolves resets its
\* limiter keys.
ResolveDirectoryIdentity(h) ==
  /\ handler[h].pc = "verified"
  /\ account' = [account EXCEPT !.exists = TRUE]
  /\ \/ /\ ~Entitled(account')
        /\ Answered(h)
        /\ UNCHANGED <<bucket, allowed, since>>
     \/ /\ Entitled(account')
        /\ handler' = [handler EXCEPT ![h].pc = "resolved"]
        /\ IF mode = "local" THEN Reset ELSE UNCHANGED <<bucket, allowed, since>>
  /\ UNCHANGED <<mode, slots, now, started, transaction, code, sessions, commands,
                 lastSet, overtaken, minted>>

\* SessionManager.NewSession
NewSession(h) ==
  /\ \/ handler[h].pc = "resolved" /\ ~handler[h].desktop
     \/ handler[h].pc = "redeemed"
  /\ sessions' = sessions \cup {[of |-> handler[h].of, until |-> now + SessionTTL]}
  /\ minted' = [minted EXCEPT ![handler[h].of] = @ + 1]
  /\ Answered(h)
  /\ UNCHANGED <<mode, slots, now, account, bucket, started, transaction, code, commands,
                 lastSet, overtaken, allowed, since>>

\* completeDesktopSignIn: a one-time code in place of a cookie; the expired
\* ones are swept on the way
StoreDesktopCode(h) ==
  /\ handler[h].pc = "resolved"
  /\ handler[h].desktop
  /\ code' = [s \in SignIns |-> CASE s = handler[h].of -> now + CodeTTL
                                  [] s # handler[h].of /\ code[s] <= now -> 0
                                  [] OTHER -> code[s]]
  /\ Answered(h)
  /\ UNCHANGED <<mode, slots, now, account, bucket, started, transaction, sessions,
                 commands, history>>

\* Mutant: reads the row and leaves it
ConsumeDesktopCode_Reads(s) ==
  /\ code[s] > now
  /\ UNCHANGED code

\* The DELETE ... RETURNING of ConsumeDesktopCode
ConsumeDesktopCode(s) ==
  /\ code[s] > now
  /\ code' = [code EXCEPT ![s] = 0]

\* POST /api/v1/auth/desktop/exchange.  The route belongs to the OIDC handler,
\* which the router has in oidc mode only.
ExchangeDesktopCode(h, s) ==
  /\ mode = "oidc"
  /\ handler[h].pc = "idle"
  /\ ConsumeDesktopCode(s)
  /\ handler' = [handler EXCEPT ![h] = [Idle EXCEPT !.pc = "redeemed", !.of = s]]
  /\ UNCHANGED <<mode, slots, now, account, bucket, started, transaction, sessions,
                 commands, history>>

\* SessionManager.Revoke
Logout(session) ==
  /\ session \in sessions
  /\ sessions' = sessions \ {session}
  /\ UNCHANGED <<mode, slots, now, account, bucket, handler, started, transaction, code,
                 commands, history>>

-----------------------------------------------------------------------------
(* Administrators' commands and the clock *)

\* A sign-in has matched a weak hash and not yet written it again
AboutToRehash ==
  \E h \in Handlers : /\ handler[h].pc = "deriving"
                      /\ handler[h].read.known
                      /\ handler[h].read.weak

Command ==
  /\ commands < MaxCommands
  /\ commands' = commands + 1
  /\ UNCHANGED <<mode, slots, now, bucket, handler, started, transaction, code, sessions,
                 allowed, since, minted>>

CreateLocalAccount(password) ==
  /\ Command
  /\ mode = "local"
  /\ ~account.exists
  /\ account' = [account EXCEPT !.exists = TRUE, !.password = password]
  /\ lastSet' = password
  /\ UNCHANGED overtaken

SetLocalPassword(password) ==
  /\ Command
  /\ mode = "local"
  /\ account.exists
  /\ account' = [account EXCEPT !.password = password, !.weak = FALSE,
                                !.failed = 0, !.lockedUntil = 0]
  /\ lastSet' = password
  /\ overtaken' = (overtaken \/ AboutToRehash)

UnlockLocalAccount ==
  /\ Command
  /\ mode = "local"
  /\ account.exists
  /\ account' = [account EXCEPT !.failed = 0, !.lockedUntil = 0]
  /\ UNCHANGED <<lastSet, overtaken>>

SetLocalAccountEnabled(enabled) ==
  /\ Command
  /\ mode = "local"
  /\ account.exists
  /\ account.enabled # enabled
  /\ account' = [account EXCEPT !.enabled = enabled]
  /\ UNCHANGED <<lastSet, overtaken>>

\* The account's bindings begin or cease to grant reading (RoleBindings)
SetBinding(bound) ==
  /\ Command
  /\ account.bound # bound
  /\ account' = [account EXCEPT !.bound = bound]
  /\ UNCHANGED <<lastSet, overtaken>>

Tick ==
  /\ now < MaxTime
  /\ now' = now + 1
  /\ UNCHANGED <<mode, slots, account, bucket, handler, started, transaction, code,
                 sessions, commands, history>>

-----------------------------------------------------------------------------

Verify(h) == Refuse(h) \/ RecordLocalLoginFailure(h) \/ RecordLocalLoginSuccess(h)

Next ==
  \/ \E h \in Handlers, s \in SignIns, desktop \in BOOLEAN :
       \/ \E password \in Passwords : Login(h, s, password, desktop)
       \/ OidcLogin(s, desktop)
  \/ \E h \in Handlers, s \in SignIns : Callback(h, s) \/ ExchangeDesktopCode(h, s)
  \/ \E h \in Handlers : \/ BeginVerify(h)
                         \/ Refuse(h)
                         \/ RecordLocalLoginFailure(h)
                         \/ RecordLocalLoginSuccess(h)
                         \/ ProviderAnswers(h)
                         \/ ResolveDirectoryIdentity(h)
                         \/ NewSession(h)
                         \/ StoreDesktopCode(h)
                         \/ Abandon(h)
  \/ \E session \in sessions : Logout(session)
  \/ \E password \in Passwords : CreateLocalAccount(password) \/ SetLocalPassword(password)
  \/ UnlockLocalAccount
  \/ \E b \in BOOLEAN : SetLocalAccountEnabled(b) \/ SetBinding(b)
  \/ Sweep
  \/ Tick

Spec == Init /\ [][Next]_vars

\* A request the server has accepted keeps running: its goroutine is scheduled
\* and its statements return.  Senders on the slot channel are served in the
\* order they came, so one that a free slot keeps passing by gets it.
FairSpec ==
  /\ Spec
  /\ \A h \in Handlers : /\ SF_vars(BeginVerify(h))
                         /\ WF_vars(Verify(h))
                         /\ WF_vars(ProviderAnswers(h))
                         /\ WF_vars(ResolveDirectoryIdentity(h))
                         /\ WF_vars(NewSession(h) \/ StoreDesktopCode(h))

-----------------------------------------------------------------------------
(* Properties *)

\* A backoff is self-expiring: a lock in force is explained by LockAfter
\* failures and ends within LockCeiling of now, whatever attempts were in
\* flight when it was set (RecordLocalLoginFailure, lockoutCeiling).
LockEndsByItself ==
  account.lockedUntil > now =>
    /\ account.failed >= LockAfter
    /\ account.lockedUntil <= now + LockCeiling

\* Attempts that were already past the check when the lock was set cannot
\* lengthen it: a lock in force changes only by being lifted
\* (the WHERE of RecordLocalLoginFailure).
LockIsNeverExtended ==
  [][account.lockedUntil > now => account'.lockedUntil \in {account.lockedUntil, 0}]_vars

\* The stored password is the one an administrator set last, except where the
\* change overtook a sign-in that had read a weak hash and then wrote the old
\* password back with its rehash (RecordLocalLoginSuccess, SetLocalPassword).
OnlyARehashUndoesAChange == account.password # lastSet => overtaken

\* Since a key was last reset, the limiter let through at most its burst and
\* one attempt more per refill: refusals, sweeps of idle buckets and attempts
\* running at the same time forgive nothing (Allow, Sweep, refill).
AttemptsAreBounded ==
  \A k \in Keys :
    allowed[k] * Refill[k] <= Burst[k] * Refill[k] + (now - since[k])

\* A sign-in ends in one session at most, however often the browser repeats
\* its callback or the client its exchange (ConsumeOIDCTransaction,
\* ConsumeDesktopCode).
OneSessionPerSignIn == \A s \in SignIns : minted[s] <= 1

\* Every request the server takes up is answered: no attempt waits for ever on
\* a verification slot that an earlier one did not give back.
EveryRequestIsAnswered ==
  \A h \in Handlers : handler[h].pc # "idle" ~> handler[h].pc = "idle"
=============================================================================
