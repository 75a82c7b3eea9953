# Promview in TLA+

Promview is a console for Prometheus alerts. Alertmanagers post webhooks to a Go
server; the server keeps alerts, their history and a resumable event stream in
PostgreSQL, reconciles them with what each Alertmanager reports, writes silences
back, and serves a React console that lists alerts and follows the stream. This
directory holds TLA+ modules of the parts of it whose correctness depends on the
order in which things happen, the TLC runs that check them on small instances,
and proofs for every instance, checked by TLAPS.

`PROJECT.json` is the index: components, runs, the source lines each definition
models (`map`), a mutation for every property, the hazards the properties are
aimed at, findings and theorems.

## Inventory

| Component | State | Operations | Hard behaviour | What makes it correct |
|---|---|---|---|---|
| Alert table (`internal/postgres/store.go`, `close.go`, `assign.go`, `notes.go`, `bulk.go`, `expiry.go`, `reconcile.go`) | `alerts`, `alert_history`, row and advisory locks | ingest, acknowledge, assign, close, note, the same in bulk, expiry, reconciliation | webhooks repeated, late and out of order against rows in any state; batches that lock alerts in different orders | history explains the row; a judgement dies with its occurrence; every visible change is streamed; overlapping transactions are as good as atomic ones, and every webhook lands |
| Event stream (`store.go`, `stream_retention.go`, `httpapi/server.go`, `web/src/alerts/stream.ts`) | `stream_events`, `stream_event_retention`, a cursor per client | insert, prune, poll, snapshot, connect, gap | ids allocated before commit, sweeps racing polls, dropped connections | the watermark covers deletions; no change is lost except in known ways |
| Reconciler and silence refresher (`cmd/promview/reconcile.go`, `silence_refresh.go`) | miss counters, a request channel, readings in hand | ticker pass, refresh after a silence | two writers with readings of different age, restarts, an Alertmanager that has just restarted | nothing ends without two absences; endings are noticed; suppression settles |
| Lists, scopes and view groups (`auth/authorization.go`, `alerts/model.go`, `postgres/store.go`, `grouping.go`, `view.go`, `viewgroups.go`, `preferences.go`, `httpapi/server.go`) | alerts as a caller sees them, bindings, view groups, saved preferences, the cursor of a page and of a stream | authenticate, resolve grants and view groups, count, page, poll, redact; set, pin, join view groups; save preferences | a request is several statements; what it filters by changes between them; each rule exists once in Go and once in SQL | list and stream agree; nothing is sent that could not be read; paging neither skips nor repeats; revoked streams end |
| Schema migrations (`postgres/migrate.go`, `cmd/promview/main.go`) | the schema, `schema_migrations`, an advisory lock | migrate, baseline a legacy volume, the server's check | jobs of two releases at once, deaths between two statements | a server never runs on a schema behind it; every job completes |
| Role bindings (`postgres/access.go`, `store.go`) | `role_bindings` | set, delete | count and write in separate statements at READ COMMITTED | an administrator remains |
| Silencing (`httpapi/silence.go`, `postgres/silence.go`, `SilenceDialog.tsx`) | the dialog, silences at the Alertmanagers | preview, confirm, create per target | the group moves between preview and confirm; one target of several fails | broader than read, or past the scope, in the named cases only; bounded in time; honest about partial success |
| Silence inventory (`postgres/silence.go`, `silence_sync.go`) | `alertmanager_silences` | record, expire, sync a listing | listings stored out of order, records that fail | the inventory settles on what is live |
| Sign-in (`internal/auth`, `postgres/local.go`, `desktop.go`) | credentials, limiter buckets, login transactions, one-time codes, sessions | password login, OIDC login and callback, code exchange, logout, account commands | attempts in flight when a lock or a new password is set; repeated callbacks | bounded locks and attempts; one session per sign-in; every request answered |
| Console list (`useAlerts.ts`, `useAlertStream.ts`, `stream.ts`, `App.tsx`) | rows, paging cursor, requests in flight, timers, the stream client | query change, paging, live refresh, retry, gap, session lost | three kinds of request answered in any order | the list catches up; pages are not mixed; the stream belongs to the rows' view |

The parts interact as follows. Handlers and loops write the alert table in
transactions; each transaction inserts history rows and stream events with its
change. The stream handler polls the events for each console. A console reads a
snapshot of the list, with the stream position it was read at, opens the stream
from there and refetches on events. A silence written through Promview is
recorded in the inventory and asks the refresher to read the source again, and
what the readings say of suppression goes to the alert table. Sign-in turns an
identity into a session; role bindings decide what a session may read and do, and
view groups which of it a list and its stream show. A server starts only on a
schema that `promview migrate` has brought up to its release.

The components that are not modelled, with the reason for each, are in
`PROJECT.json` and under "Not modelled" below.

## Modules

**`AlertRow`** has the effect of each transaction on one row, as pure operators:
the new row, the history entry and the stream event (`Ingested`, `Acknowledged`,
`Assigned`, `Closed`, `Noted`, `Expired`, `Reconciled`). Columns no property can
tell apart (URLs, `raw_data`, `ends_at`, `repeat_count`) are left out; a
timestamp is an age, capped at `AgeCap`.

**`AlertStore`** is the table as a state machine; it extends `AlertRow`. A
transaction holds its row locks to the end, so it is one step; `SKIP LOCKED` is
a set of rows the step may skip. `trail` is the replay of `alert_history` and
`shown` what a console shows that refetches on every event.

**`StoreTransactions`** has the same transactions lock by lock: a webhook batch
takes the advisory lock and then the row lock of each alert in the order of its
payload, a bulk action the row locks in the order of the request, the sweep and
the reconciliation pass skip what is locked, and the pass then waits in its
closing `UPDATE` for the rows it passed over (`reconcile.go:297`). Transactions
overlap, fail, wait for each other in cycles that PostgreSQL breaks, and
webhooks are delivered again. It instantiates the abstract specification,
`Store == INSTANCE AlertStore WITH ...`, mapping the committed table, the
replayed history and the announced rows to AlertStore's variables, and
`ImplementsStore == Store!Spec` is a property of its run: the one-step
transactions everything else is built on are what the locks produce.

**`Migrations`** is `ApplyMigrations` statement by statement (session lock,
ledger, baseline row by row, one transaction per migration) and the check before
serving. `cutShort` records that a runner died between two rows of a baseline.

**`Visibility`** states access and views twice, as the code does: in Go for one
label set (`CanReadLabels`, `CanOperateLabels`, `MatchViewGroups`) and as the
SQL conditions. **`Listing`** extends it with one signed-in user: the list
handler and the stream handler, one statement a step, beside everything that
writes what they read. `steady`, `calm` and `inForce` record what did not change,
or what was true, during a walk or a request.

**`EventStream`** follows an event from the `INSERT` to the browser. Ids are
allocated before the commit; the two statements of a poll, of a snapshot and of
a retention batch are separate steps. `exposed` records which of three known
causes put an event at risk.

**`Reconciler`** also extends `AlertRow`: the ticker pass (read the
Alertmanager, read the table, list silences, write) and the refresher, beside
webhooks in flight, a restart of Promview (the counters are lost) and of the
Alertmanager (it answers with an empty list).

**`RoleBindings`** has one step per statement of `guardLastAdministrator` and
of the write.

**`Silencing`** resolves a group to its members in scope, folds their labels per
source and writes one silence per target. A label set is a set of pairs, a grant
a set of matchers of the four operators (`operateAccessCondition`); the
window keeps the width of `time.Duration`, so the product that wraps is there.

**`SilenceInventory`** is the stored record of silences: creations and removals
whose record is a later step that may fail, and two loops that list and store in
two steps.

**`SignIn`** covers the path from a request to a session in `local` and `oidc`
mode: limiter, slots, credential, backoff, rehash, transactions, codes, and the
administrator's commands. One statement is one step. Bucket content is kept in
clock units, so that the fractional tokens of the code are exact integers.

**`Console`** is `useAlerts` with its stream client. A request reads the server
in one step and is applied in another; a handler, the render it causes and the
effects of that render are one step, as React runs them before the next event.

`MC*` modules give the instances; `*Proofs` modules the theorems. Operators named
`X_Something` after an operator `X` are plausible wrong versions of it (a dropped
guard, a missing reset) used to check that a property can fail; no specification
uses them.

## Runs

| Run | Question | Result |
|---|---|---|
| `alert_store` | do all transactions on a row, in any order, keep the audit trail, the judgements, the announcements and the firing view right? | holds |
| `event_stream` | which changes can a client miss, and does every other change arrive? | holds, with three named causes of loss |
| `event_stream_overtaken` | README of Promview: starting from the snapshot's cursor avoids missing changes | violated: a commit below a cursor already handed out |
| `reconciler` | do two loops with stale readings settle, and is nothing ended without two absences? | holds |
| `role_bindings` | does the guard hold when nothing overtakes the write? | holds |
| `silencing` | is what is written what the operator read, may and was told? | holds, but for two promises of `silence.go`, see below |
| `silence_inventory` | do stale and overlapping listings settle? | holds |
| `sign_in` | are locks and attempts bounded, codes single-use, slots given back? | holds |
| `console` | does the list catch up, unmixed, with the right stream? | holds, with four named excuses |
| `store_transactions` | are overlapping, failing, deadlocking transactions as good as atomic ones, and does every webhook land? | holds (implements `AlertStore`) |
| `migrations` | can jobs of two releases that die anywhere leave a server on the wrong schema, or a job that cannot finish? | holds; a baseline cut short is the one thing that blocks |
| `listing` | do pages, counts and stream polls made of several statements agree with each other and with what may be read? | holds, with the exceptions below |

Notes on what the runs show beyond their verdicts:

- *Stream.* A change is lost silently when its transaction commits after one
  with a higher id, when a sweep deletes it between the two statements of a
  poll, or when it is pruned below a resume from cursor 0, which the gap rule
  exempts. `OnlyKnownLosses` says these are all; `EveryChangeArrives` that any
  other change is delivered.
- *Store transactions.* A deadlock takes two transactions that each hold one
  alert while they wait for another (`DeadlockTakesTwoBatches`): batches in
  opposite order, or a pass that waits for a row it passed over. An operator's
  action on a single alert is never a member of a wait cycle. A webhook with a
  single alert can be one: it holds the advisory lock of the alert while it waits
  for the row, so two batches can be waiting in a circle that goes through it.
  Only a webhook is tried again; the operator of a cancelled bulk action sees an
  error.
- *Migrations.* Baselining commits row by row, and a ledger that is not empty is
  never baselined again. A job that dies between two rows leaves versions that
  every later job tries to create and fails on; repairing that takes an
  administrator. `OnlyACutBaselineBlocks` says that nothing else does.
- *Listing.* `alertCursorValue` (`store.go`) gives the empty severity rank 2
  where the SQL gives 0, so a severity-sorted page that ends on such an alert
  continues at another place; `SteadyEntriesAppearOnce` and
  `StreamAgreesWithList` exempt that walk (`walk.misplaced`) and no other.
  In the default order, by `lastSeen`, a repeated delivery that changes nothing
  else moves an alert to the top without an event: one that was past the cursor
  is then on no later page, and the stream does not bring it either.
  `StreamAgreesWithList` promises such a list only the alerts that did not move
  during the walk.
  Grants and view groups are read in separate statements, so a page may combine
  an older scope with a newer view; `ShownWasReadable` says each label set sent
  was readable at some time during the request. The stream resolves view groups
  at every poll, although a comment in `server.go` says that no filter is
  swapped under an open stream; agreement is stated for as long as neither
  access nor view changes. `CursorIdentity` leaves out whether closed alerts are
  asked for. Saving preferences reads and writes in two statements;
  `ErasedOnlyInARace` says that only that race loses a newer client's choice.
- *Reconciler.* An alert that fires again between the deciding reading and the
  write is resolved while its source holds it (`reconcile.go:200`), which the
  comment at line 83 does not foresee; the next webhook repairs it. A refresh request made while one runs for the same source is
  dropped, perhaps after the last read; the ticker pass is what makes
  `SuppressionSettles` true. The two absences are those of the last two readings
  that were counted; a pass that fails in between does not separate them.
- *Role bindings.* Two administrators who remove each other at once both count
  two: at READ COMMITTED the transaction does not keep "the count and the write"
  together, as the comment at `access.go:72` says. `LockoutNeedsARace` is what
  does hold.
- *Silencing.* Two comments of `httpapi/silence.go` say more than the code does,
  and the properties name exactly what is missing.
  A member that joins between preview and confirmation "would silence more than
  the operator read. Sending back what was read turns that race into a 409"
  (line 56). `sameLabels` compares the labels all targets share: when previewed
  members differ between targets, a newcomer at one of them can remove a label
  from that target's match and leave the common labels as they were. No 409 is
  given and the silence is broader than the one read for that target;
  `BroadeningNeedsARace` says that nothing else broadens one, and that what was
  shown as common is always kept.
  "An operator scoped to one team cannot silence another team's alerts" (line
  23). The fold keeps only values the members share. A grant with `=~`, `!=` or
  `!~`, or two grants, can be met with different values; the label is folded out
  and the silence matches alerts no grant admits. In the instance a grant for
  team `t` in clusters `[a-c]` previews members of clusters `a` and `b` and
  silences cluster `z`. `BeyondScopeOnlyByFolding` says it takes that; for one
  grant of equality matchers the comment is true (`OneEqualityGrantHolds`).
  The instance reaches both exceptions: stated without them, either property is
  violated.
- *Sign-in.* A sign-in that has read a weak hash writes the old password again
  if an administrator sets a new one in between; `OnlyARehashUndoesAChange` says
  that nothing else does. `power(2, n)` leaves the range of a double after about
  a thousand failures in a row; then the statement fails and the answer is an
  error. A code given to a desktop client in `local` mode has no route to be
  exchanged at, since the router has the OIDC handler in `oidc` mode only.
- *Console.* The four excuses of `ListCatchesUp`: a live refresh in flight when
  the query or the session changes; and, only until the next event arrives or a
  page that holds every event received is applied, an older answer applied over
  a newer one, a later page whose stream position is ahead of the rows above it,
  and a live refresh that failed. Where the crossing queries have
  different views, the stream is closed by the gate in `App.tsx` until the next
  first page lands. A live refresh is not discarded when the query changes,
  although a comment in `useAlerts.ts` says so of all requests.

### Bounds

Bounds are constants, named in the guards: `Max...`, `AgeCap`, `QueueCap`.

- `alert_store`: one alert, since every transaction treats its rows
  independently; two label sets and two operators of different scope, two
  occurrences, so that a judgement can meet the next one.
- `event_stream`: two writers that can overtake each other, three events with
  an invisible one in the middle, polls of one event, sweeps of two by two
  sweepers, so that one batch locks two rows, the other skips them, and they
  commit in either order. Three ids are enough for an event below, at and above
  a cursor. 633,229 states.
- `reconciler`: two alerts, so that a reading can omit one and still be
  believed; three changes at the Alertmanager, one restart, a queue of one.
- `role_bindings`: two names and two requests, the smallest race.
- `silencing`: six alerts at three sources: two at one that differ in a label,
  one at a second, one of another team, one of a cluster outside the grant, one
  at a source without an Alertmanager; a key with an empty value. Two grants use
  the four operators between them. Four bits for a duration and three units to a
  second make one duration wrap below zero and another to a small positive
  window. One change of membership suffices for every race between preview and
  confirmation. 243,796 states.
- `silence_inventory`: one silence (records of two do not interact) and two
  loops.
- `sign_in`: two sign-ins at once, a lock on the second failure so that one can
  be in flight when it is set, one command, time past the longest lock and the
  refill of both buckets.
- `console`: two queries of different view, three pages, two changes, three
  moves of the operator, one fault.

- `store_transactions`: two alerts of one source and five transactions: two
  webhook batches in opposite order, a bulk close that names an alert twice, the
  sweep with batches of one, and a pass. Two alerts are enough for every shape
  of wait cycle between two transactions, and the pass and the batches make
  longer ones. 36,549 states.
- `migrations`: two jobs and two servers of two releases (versions 3 and 5),
  every legacy volume up to 3, two deaths. 1,648 states.
- `listing`: three alerts on pages of one, polls of one event, three bindings
  (one open, one by selector, one through a directory group), one view group,
  three queries (flat by `lastSeen`, the default, flat by severity, grouped by
  team) and two changes of anything, anywhere between two statements; two are
  needed for a change and its undoing. 345,371 states.

`migrations` does not check for deadlock because after a cut baseline every job
fails and no server starts. `sign_in` and `console` do not check for deadlock: at the bounds of time, moves
and versions the models stop, which stands for a system at rest. In the others
some step is always possible.

### Fairness

Every liveness property is checked under weak fairness of what the program
schedules by itself, and of nothing else (not users, not the Alertmanager, not
faults):

- `alert_store`: the expiry ticker reaches each stale alert that is not locked
  for ever (`runExpirySweeps`).
- `event_stream`: the handler's poll loop, the client's reconnect timer and the
  snapshot it takes after a gap.
- `store_transactions`: a running transaction goes on, a free lock is granted to
  who waits for it, PostgreSQL breaks a wait cycle, and Alertmanager delivers
  again what was answered with 500.
- `migrations`: a runner goes on and a job that died is started again: no server
  starts until it has completed (`compose.yaml`), so somebody runs it once more.
- `listing`: an open stream polls, and authenticates again every 15 seconds.
- `reconciler`: the ticker (`runReconciliation`) and the refresher's goroutine.
  Strong fairness of the table's read and of the write: a pass fails now and
  then, but not for ever.
- `silence_inventory`: each loop lists and stores again; a request under way
  finishes.
- `sign_in`: a request's goroutine runs on. Strong fairness of taking a slot,
  because Go serves the senders waiting on a channel in order.
- `console`: timers fire, requests are answered and applied, the client
  reconnects. Strong fairness of delivery, because the number of dropped
  connections is finite.

## Proofs

For every value of the constants under the named assumptions (`RowConstants`,
`StoreConstants`, `StreamConstants`, `NamesFinite`, `MigrationConstants`,
`SilencingConstants`, `WindowConstants`, `SignInConstants`,
`TransactionConstants`, `ListingConstants`, `NoneIsNoSave`, `NoneIsNoKey`,
`TextOrder`, `ReconcilerConstants`, `InventoryConstants`, `ConsoleConstants`),
each of which TLC evaluates on the instance of the run. `Reconciler` and
`Console` are proved about in the module of the component they work with,
`AlertStore` and `EventStream`, which is why their `Init`, `Next` and `Spec` carry
their names; `SilenceInventory` is an instance (`Inventory`) in
`SilencingProofs`, so its assumption is a hypothesis of its theorems. The
assumptions say what kind of thing a constant is, and in a few places what the code relies on: labels at an Alertmanager are not
empty and the maximum of a silence fits a `time.Duration` (`Silencing`), a bucket
is idle long enough to be full again before it is swept (`SignIn`), a selector
has a matcher and the database's collation is deterministic, so that two texts
that sort alike are the same (`Listing`), the versions a baseline looks for are distinct
(`Migrations`), a delivery carries some labels and annotations (`Reconciler`).

- **`AlertStoreProofs`**: `TypeOK`, `HistoryExplainsRow`,
  `JudgementsOfThisOccurrence`, `ChangesAreAnnounced`, `ResolvedEventMeansGone`,
  `SilencesImplySuppressed`, and the action properties
  `LeavingIsStreamedAsResolved` and `ResolvedOnlyReopens`. The inductive
  invariant is `RowOK` of every alert: it relates one row to the replay of its
  history, the columns announced and the latest event. Each effect of `AlertRow`
  has a lemma that it takes an OK row to an OK row (`IngestedOK`, `ExpiredOK`,
  `ReconciledOK`, ...); `CommitOK` lifts them to the table, and the step lemma
  has one case per transaction. The invariants are needed together: that a
  resolved event means gone rests on what was announced, and that judgements are
  current on the history explaining the row.

  Then about `Reconciler`: `ResolvedAfterTwoAbsences`, for any alerts, silences,
  queue length, restarts and failed passes. A pass resolves on its counters, not
  on readings it remembers, so the invariant ties the two: a counter that is up
  belongs to an alert the last counted reading omitted (`MissesOK`), through a
  pass that is abandoned or fails, and a restart or a disabled source that
  forgets them all. `LoopsKeepStoreContract` closes a gap between the models:
  `AlertStore` takes reconciliation as a transaction whose caller resolves only
  alerts it did not find listed, and the theorem says that every write the pass,
  the refresher and the webhooks make is one `AlertStore` allows under that
  premise (`StoreWrites`; the bound on occurrences, which is the model's, aside),
  so what is proved of the table holds of what the loops do to it.
- **`StoreTransactionsProofs`**: `DeadlockTakesTwoBatches` and the refinement of
  `AlertStore`, for any alerts and requests. The inductive invariant says that a
  lock has one holder (`Exclusive`) and of every transaction that nothing is
  written without its row lock (`LocksOK`) and that what it is about to write is
  the effect of its request on the committed row as it is now (`WorkOK`): a
  commit elsewhere changes only rows whose lock that other transaction holds, so
  the effect stays right until the commit. `Refinement` then needs one lemma per
  kind of transaction: its commit is the one step of `AlertStore`, and every
  other step is a stutter. `AlertStore` is explored up to `MaxOccurrence` and
  `MaxNotes`, which are bounds of the model and not of the code, and
  `StoreTransactions` has no such bounds; the theorem is therefore stated as
  `Spec /\ []WithinBounds => ImplementsStore`, for the behaviours in which the
  bounds are not reached. `Deadlocks` follows the edges of a wait cycle: a
  member that holds nothing of another alert is a webhook with the advisory lock
  of the alert it is at, waiting for that alert's row; the holder of the row
  waits for something else, so it holds this alert while it waits for another
  (`BatchBehind`). Two edges from any member there is thus a batch other than
  that member, and applying this twice gives two.
- **`EventStreamProofs`**: `TypeOK`, `WatermarkCoversDeleted` and
  `OnlyKnownLosses`, for any number of writers and sweepers. The first two are
  inductive together: a batch raises the watermark to the maximum of itself and
  what it deletes, in the transaction that deletes. That only known losses happen
  needs `Losses`: no position is beyond what was committed (`PositionsOK`), so
  that what commits below a position later was overtaken; resuming from the
  client's cursor misses nothing or is answered with a gap (`CursorOK`); messages
  on the wire are complete below their ids (`WireOK`); and between the two
  statements of a poll every change up to the position scanned is settled, under
  way, announced by a gap or still in the table (`StreamOK`).

  Then about `Console`: `PagesAreNotMixed`, `StreamFollowsSnapshot` and the
  action property `AnswersAreCurrent`, for any queries, views, pages, timers,
  drops and requests under way. That rows are of one query rests on what may
  still land: a first or further page that will be applied was asked for under
  the query in force, and a live refresh too unless it crossed a change
  (`RequestsOK`); and wherever another page can be added, the rows on screen are
  of that query as well (`RowsOK`), which is not so while the first page of a new
  query is awaited: the rows of the previous one stay. That the stream never
  resumes behind the rows needs that it is open only over a ready list
  (`SnapshotOK`): every answer shown there takes the stream's cursor up to its
  own.
- **`RoleBindingsProofs`**: `TypeOK` and `LockoutNeedsARace`. The strengthening
  `Reliable` says that a transaction nobody overtook has counted what is in the
  table now; with it the guard excludes removing the last one.

- **`MigrationsProofs`**: `ServingMeansMigrated` and `OnlyACutBaselineBlocks`,
  for any jobs, servers, releases and legacy volumes. The inductive invariant
  adds three facts: a runner past `TakeLock` holds the lock (`LockHeld`), what
  the ledger records is in the schema (`LedgerIsTrue`), and, as long as no
  baseline was cut short, where each runner is says how far schema and ledger
  agree (`Progress`). That the versions the baseline looks for are distinct, an
  assumption, is what makes each of its inserts succeed.
- **`SilencingProofs`**: `TypeOK`, `BroadeningNeedsARace`, `DoneMeansCovered`,
  `BeyondScopeOnlyByFolding` and `EverySilenceEnds`, for any alerts, labels,
  groups, grants, sources and durations. What a silence may match is a fact
  about the scope the server resolved, proved as a lemma about each of the two
  resolvers. `GroupShape` says a target matches on the key and on exactly what
  its members carry; the invariant keeps it for the preview on screen
  (`PreviewOK`), and two resolutions of one group with the same common labels
  differ by newcomers only (`TwoResolutions`, `RaceOnly`). `ScopedOK` keeps that
  a match holds what its members, all in scope, share. The invariant carries
  both from the confirmation to what is written (`JobOK`) and ties the dialog to
  the job it waits for (`DialogOK`), without which a dialog could report the
  outcome of another job.

  Then about `SilenceInventory`: its types, that every record is of a silence
  the Alertmanager made (`RecordsOfRealSilences`), and that a removal reaches
  only silences that match the alert it was asked for (`RemovalWithinReach`).
  The invariant says the same of everything still to be stored: a row's
  `silenced_by` (`RemovableOK`), a creation or removal under way (`PendingOK`)
  and a listing not yet stored (`ListedOK`), since each may be written after the
  silence has ended or been forgotten.
- **`SignInProofs`**: `TypeOK`, `LockEndsByItself`, `OnlyARehashUndoesAChange`,
  `AttemptsAreBounded`, `OneSessionPerSignIn` and the action property
  `LockIsNeverExtended`, for any number of requests, sign-ins and commands and
  any budgets. The parts of the invariant are independent: until a change
  overtakes a rehash every weak hash in flight is of the password set last
  (`PasswordOK`); what was let through and what a bucket holds fit its capacity
  and what has flowed in (`BucketOK`); the right to the session of a sign-in is
  with one of a transaction, a request and a code, or used up (`TokenOK`).
- **`ListingProofs`**: first about the operators of `Visibility`, for every
  caller, selector and label set, with regular expressions as a relation: the Go
  and the SQL forms of a scope admit the same labels, to read and to operate; the
  stream's Go check and the list's SQL agree; shown and hidden divide what may be
  read. Then about `Listing`: `SummariesAddUp` and the action properties
  `ShownWasReadable` and `ErasedOnlyInARace`. The invariant says that the grants
  a request or a poll carries were in force at some time since it began
  (`RequestOK`, `PollOK`), that an undisturbed total is the cardinality of what
  the query selects now (`CountsOK`), and that a save that is not stale carries
  what is stored (`SaveOK`).

  `SteadyEntriesAppearOnce` needs the order: SQL's row comparison is a total
  order on the keys of a query (`KeysOrdered`), the first `n` of a finite set in
  such an order are closed downwards and are all of it when one more changes
  nothing (`LowestFirst`), so a page is what lies between the cursor and its last
  entry (`PageCut`). The invariant `Paging` then says that the steady entries up
  to the cursor are on exactly one page and those past it on none (`Placed`), and
  that, while anything is steady, a request under way has read what is in force
  (`RequestFresh`): without that a page could be cut from another result.

  `StreamAgreesWithList` adds `Following`: an alert's last event has the labels
  of its row and every earlier one is followed by an event whose previous labels
  are its own (`EventsOK`), and, for the client at position `p`, what it holds is
  shown or an event past `p` will be sent about it, and what is shown, covered by
  the pages and silent past `p` is held (`Agreed`). The position is that of the
  open stream, or the one it would resume from; going back only makes the claim
  weaker (`HeldBack`), which is why a dropped stream does no harm. The step of
  `StreamEvents` rests on `StreamSeesWhatTheListShows`: a row the SQL selects is
  redacted exactly when the list would not show it.

The type invariants are definitions of the modules and not properties of runs;
those of `AlertStore`, `Reconciler`, `EventStream`, `Console`, `RoleBindings`,
`Silencing`, `SilenceInventory` and `SignIn` are proved, those of the other proved modules are part of their invariants.

Only model-checked: the liveness properties, among them the settling of
suppression (`Reconciler`), of records (`SilenceInventory`) and of the list
(`Console`), and the expected violation of `event_stream_overtaken`. Every
invariant and action property of a passing run is also a theorem. Liveness under
fairness, `ENABLED` and induction over data are outside what the prover supports.

## Not modelled

- Alertmanager, PostgreSQL and the identity provider are external: only what the
  code relies on is there. Inhibition is left out, since Promview treats an
  inhibited alert as suppressed without silences. In `Reconciler` a silence is
  reflected in all readings at once, and expiry, which is in `AlertStore`, does
  not run.
- LDAP: a bind and two searches with no state of its own; what follows it is the
  password sign-in. Configuration, metrics and the CLI's parsing: no state that
  changes while the server runs. Notifications: a filter on stream events that
  does not feed back.
- The console beyond the list: grouped views and the detail drawer send the same
  kinds of request per group and per alert; its session and host switch appear as
  a gate. The desktop client (`stream.rs`, `signin.rs`) holds a connection for the
  console and keeps no policy of its own. Debounced saves of preferences.
- In `Listing`: closed alerts, filters that work like one on a label, listing and
  parsing of view groups, and what `EventStream` has (ids out of commit order,
  pruning).
- In `SignIn`, one account and one address: two accounts share only the address
  bucket. In `Silencing`, one confirmation at a time. Silences that start in the
  future.

## Plan

Extend the console model to grouped views and the drawer, and the desktop
client's stream.
