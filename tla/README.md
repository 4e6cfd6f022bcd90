# Verification of uptime-monitor

TLA+ models, TLC runs and TLAPS proofs for the Go service in this repository: a
daemon that checks web sites on a schedule, keeps one SQLite file of history per
site, and mails alerts. Everything is translated from the Go code; line numbers
for every definition are in `PROJECT.json` (`map`).

Run a check with `tlc -config <run>.cfg <module>`, a proof with `tlapm
<module>.tla`. `PROJECT.json` pairs runs, modules, properties and mutants (a
mutant is a plausible bug, written as an operator next to the definition it would
replace; each one makes the property it is paired with fail).

## The system

| component | state | operations |
|---|---|---|
| scheduler (`internal/scheduler`) | `cancels`: one cancel function per running site; a wait group | `Start`, `Stop`, `Restart`, `StartAll`, `Shutdown`; one `runSite` goroutine per enabled site |
| checker (`internal/checker`) | none | `RunTick`: one DNS/HTTP/content/TLS check, producing a `Tick` |
| site database (`internal/storage`, `tick.go`, `site.go`) | per site: `check_results`, `incidents`, `errors`, the row `site_state` | `RecordTick`, one transaction over one pooled connection |
| storage manager (`manager.go`) | cache of open databases, files on disk | `Get`, `Delete`, `Close` |
| registry (`registry.go` and friends) | `registry.db`: sites, alert channels, rules and deliveries, admin users, sessions | single-statement reads and writes |
| alert dispatcher (`internal/alerts`) | bounded queue, two workers, `done` | `Enqueue`, worker loop (rule lookup, render, claim, send with retries, mark), `Shutdown` |
| API (`internal/api`) | none of its own; no lock across calls | site CRUD, data queries, alert CRUD, login |
| process (`cmd/monitor`) | - | wiring, start-up order, signal, shutdown order |
| sessions, login limiter, admin accounts | rows of `registry.db`; a map of failures | login, lookup, logout, password change |
| alert configuration (`api/alerts.go`, `storage/alerts.go`) | rows of `alert_channels` and `alert_rules` | create, update, delete; `RulesFor`, the join the dispatcher looks rules up with |
| site configuration (`config.go`) | none | `ApplyDefaults`, `Validate` |
| metrics (`query.go`, `series.go`, `overview.go`) | none | uptime, percentiles, buckets, lists; replies of several statements |
| schema migrations (`migrate.go`) | `user_version` | `applyMigrations` |

How they interact: an API handler changes the registry, then calls the scheduler,
then perhaps the storage manager, with nothing locked in between. A site's
goroutine gets its database from the storage manager, checks, records, and hands
the returned `Transition` to a hook that only enqueues. A dispatcher worker
re-reads rules and channel from the registry, claims a dedupe key there, sends
and records the outcome. On a signal the process drains HTTP (10 s), stops the
scheduler (waiting for loops), then the dispatcher (waiting for workers), then
closes the databases.

What makes it hard: cancelling a loop does not wait for it; handlers interleave
call by call; workers share the ledger; each database commits on its own; the
process can die between any two steps, and queue and workers die with it while the
ledger stays; a mail relay can accept a message and fail to say so.

The full list of hazards, each at its line, is in `PROJECT.json`.

## Modules

    SiteDB  <- SiteStore <- Checking <- SiteHistory      one site, its loop and history
       ^          ^            ^  ^         |
       |          |   SiteConfig  Checker   v
       +----------|--------------------- Queries         what is read of a database
       |          |                         |
       |          +--(refines)-- RecordTickTx <- SiteReads   the transaction, and readers
       +---------------- Alerting --> Dispatcher         check to mail
                            +--(refines)--> AtMostOnce
    Scheduler <- SiteAdmin                               loops, handlers, process
    Migrations <- AlertConfig                            the registry: schema, rules
    LoginLimiter <- Sessions                             logins and passwords

    SiteDBProofs <- SiteStoreProofs (of SiteHistory), RecordTickTxProofs (of SiteReads)
    AlertingProofs <- AnnouncementProofs (of Alerting)
    SiteAdminProofs, SessionsProofs, RegistryProofs (of AlertConfig)

`A <- B` reads "B extends A".

* **SiteDB** - no variables. The tables as sequences of rows, and the statements
  of `RecordTick` as operators over them, in the order the code issues them;
  `RecordTick(d, ts, o)` is their composition and `TransitionOf` what it returns.
  A tick (`Outcome`) is abstracted to: up or down, how many error rows, and the
  certificate columns.
* **SiteStore** - the database with the loops that write it. `Begin` is the clock
  read at the top of `RunTick`, `Record` the commit, `RecordFails` an error
  return, `Crash` the death of the process. Two initial states: a new file, and a
  file upgraded from schema v1 in the middle of an outage (`base` is the number of
  rows that predate the failure counter).
* **RecordTickTx** - the same, one step per statement: `conn` is the only
  connection of the pool, `tx` the transaction's view. Any statement may fail; the
  early return runs the deferred rollback. It implements SiteStore.
* **Queries** - no variables. One operator per SQL statement of `query.go` and
  `series.go` over the tables of SiteDB, with the arithmetic Go does on the rows
  (percentages in hundredths, rounded as the code rounds).
* **SiteReads** - read requests beside RecordTickTx: each is a list of statements
  (`Plan`), each statement takes the one connection, and ticks commit between two of
  them. `OpenRows` and `CloseRows` are the passes of `Series`, which hold it while
  rows are read; every other query reads its rows in one step.
* **SiteConfig** - what a submitted site becomes: defaults, then validation. Times
  are in the model's seconds, so the limits are constants.
* **Checker** - `RunTick` as a function of the site, of whether a lookup has failed, of
  the response (a `world`: resolution, answer, status, time, body, certificate) and of
  the cadence. `Response` says what a request brings back: one over a new connection
  fails on an expired certificate, one over a kept connection does not look.
  Whether there was TLS is a matter of the final response, after its redirects, not
  of the site's URL.
* **Checking** - SiteStore with the loop's schedule: the ticker with its channel of
  one, `lastSlow`, a world that changes, lost ticks, panics and restarts. A tick has
  the steps of the code: it begins (`TickBegins`, where a due slow tick looks the name
  up first), the name server answers and `LookupHost` returns, the site answers,
  `RunTick` returns (and `lastSlow` is set), the result is recorded. What was seen of
  the world at `NameIsAnswered` and `SiteAnswers` is as old at `TickRecorded` as the
  steps between have made it. A panic (`TickPanics`) sets no `lastSlow`.
  Assumed of time: a loop with a tick to do begins it at once, and a request,
  redirects and body included, is over within `Timeout` (`http.Client.Timeout`,
  `checker.go:54`). A lookup and a write have no bound, since the context of a loop has
  no deadline (`scheduler.go:74`): seconds pass in them by `SecondIsHeldUp`, which
  leaves its mark in `stalled`.
* **SiteHistory** - the reference definitions the queries are checked against, over
  the history Checking writes.
* **AtMostOnce** - the abstract promise of alerting about one dedupe key: claimed
  once, tried a bounded number of times, final once settled.
* **Dispatcher** - queue, workers, ledger. One action per step at which another
  worker, the registry or a crash may intervene. `ledger` is the table
  `alert_deliveries`; `mail` is a history of what reached the relay.
* **Alerting** - site databases, the hook, the dispatcher and the process.
* **Scheduler** - the scheduler's manager, the storage manager and the check
  loops. The monitored sites are always healthy here, so a recorded failure is
  one the scheduler made (`falseDowns`). A handle is a number; a loop whose handle
  is no longer the cached one writes to a closed database and gets an error.
* **SiteAdmin** - the handlers of the API, each registry, scheduler or storage
  call a step; and the process (`stage`): booting (`StartAll` site by site), running,
  draining, waiting for the loops, closing (the deferred `dispatcher.Shutdown`, during
  which a handler that outlived the drain goes on), stopped; failed, when the listener
  has failed and `run` returns without stopping a loop or a request (`main.go:178`);
  and crashes. Two histories say where two handlers met: `contested`, the sites whose
  row was changed while another request had not acted yet on its own change, and
  `rekeyed`, the updates that read a key which has been changed since.
* **Migrations** - opening the registry: `user_version`, and each migration as a
  transaction of statements, cut short by failures and crashes. A file starts at the
  schema of any release, the ones from before version numbers included. The list of
  migrations is a constant; `registryMigrations` is the one of the code.
* **AlertConfig** - the handlers of `api/alerts.go` over Migrations, a statement a
  step: an update reads the row, a rule is checked against the channel and the site in
  statements of their own, the write meets the foreign key. `asked` is a history of
  what each row was last asked to be, `stale` marks a request whose row was written
  since it read it.
* **LoginLimiter** - the map of failed logins by user name and client address. An
  operator per method; time is an argument.
* **Sessions** - the handlers of `auth.go` (and `requireAdmin`, the operation `use`)
  over `admin_users` and `sessions`, `-set-password`, and a restart, which purges
  and may seed an account. A password stands for its hash, a token for the digest
  that is its key. `revoked` and `used` are histories. The limiter keys on the
  name as typed and the account on its normalised form; here a name has one
  spelling.
* **SiteDBProofs** - lemmas about the operators: what `RecordTick` leaves in the
  tables, what a query's rows are. **SiteStoreProofs**, **RecordTickTxProofs**,
  **AlertingProofs**, **AnnouncementProofs**, **SiteAdminProofs**,
  **SessionsProofs**, **RegistryProofs** - the theorems.

## Runs

Passing:

| run | asks | bounds, and why they are enough |
|---|---|---|
| `site_store` | do incidents and counter stay what the raw rows say, are outages seen in time, and do the queries say what the rows say? | one loop, four rows, six instants, two sites, five worlds, one change of the world, one lost tick, panic, restart or second of a lookup or a write, a timeout as long as the interval: an outage that begins, is confirmed and ends, or one inherited from an upgrade; the world changes between any two steps of a tick; the slow cadence comes round twice |
| `record_tick_tx` | is the transaction atomic, the connection always returned, and a reply of several statements explicable? | two loops, two rows, one reader: an incident opened and resolved while a request is between its statements; liveness. Three rows take five minutes and showed nothing else |
| `registry` | is the registry never half migrated, does it serve again, and does an event find the rules that were asked for? | the file of every release, two clients, five requests, one fault, one site deleted or created: a channel with its rule, an update and a deletion between the other's statements, an id given again; liveness |
| `alert_orderly` | is every outage and certificate taken up, an outage once, and does a stop end? | the two workers of the program, three ticks: an outage and its end, two certificates; a relay that refuses; stop and restart at any point; liveness |
| `alert_faults` | does the ledger keep its promise when everything fails? | two workers, queue of one (it overflows), one retry, one restart |
| `admin` | does the scheduler follow the registry, does a site have one live loop, are keys kept, does everything end? | two handlers, three requests (create, change, read or delete), one site, three loops, opens that fail, one restart, a stop or a failed listener at any point; liveness |
| `sessions` | does a revoked session stay revoked, an expiry follow use, the limiter count right? | two handlers, four requests, two passwords, one restart; three units of the clock, the lifetime of a session, one more than the window. A login, a touch and a logout or change of password overlap; four failures take a limit of two beyond itself |

Runs that refute a statement of the documentation (findings in `PROJECT.json`):

| run | what happens |
|---|---|
| `alert_default_down` | with the default `confirm_after` of 2, the mail is claimed on a repeated failure, for which `RecordTick` reports incident 0. All outages of a site share the key `down:<site>:0:<channel>`, so only the first is ever announced (and no recovery, which looks for the real id). |
| `alert_refused` | a channel whose down mail was refused is still told of the recovery. |
| `alert_overtaken` | of the two workers the program always has, one renders the recovery while the other has not claimed the outage yet; it finds no down key and drops the recovery, and the outage is then announced: a site that was announced down comes back and nobody is told. |
| `admin_purged` | a loop that had not opened its database yet re-creates the file after a purge. |
| `admin_false_down` | cancelling a loop while its check is under way records the cancellation as downtime: updating a site, or stopping the service, can open an incident of a healthy site. |

Type invariants, and other properties that a theorem establishes for every value of
the constants, are not checked again by a run unless a run says something a theorem
does not: `TypeOK` of SiteStore, SiteAdmin, AlertConfig and RecordTickTx,
`FailuresAreLogged`, `OneTransaction`, `BoundedTries`, `SettledIsFinal`. Each was
model-checked before it was proved.

### What holds only within its bounds

Some properties hold in a passing run because that run, or the property itself,
excludes a situation the code does not handle:

* `OneDownPerIncident` with two down rules (thresholds 1 and 2) on one channel: two
  keys, two mails.
* `ProcessStops` in `admin` with `DrainTimeouts = TRUE`: a request that outlives
  the ten seconds starts a loop after the last cancel, and the wait never ends.
* `RowidOrdersByTime` of SiteStore with two loops: a restarted site's old loop may
  commit an older tick later.
* `InSync` and `StoreIsLive` make no claim about a contested site until a request
  changes it alone: two updates may win one in the registry and the other in the
  scheduler; the loop of a deleted site may run on, started by a create that had only
  written its row; a purge may close the database of a site created again meanwhile.
  `InSync` lets an enabled site have a loop that has returned in one case, when its
  `stores.Get` failed (`scheduler.go:118`): nothing starts it again.
* `KeyIsPreserved` allows the write of an update that leaves the key out, writes back
  the one it read, and so undoes a key set since (`rekeyed`).
* `HealthIsSeen` and `SlowChecksKeepUp` make no claim while a lookup or a write lasts,
  nor for a tick and a request (for `HealthIsSeen`, an interval and two) after it.
* `HealthIsSeen` speaks of worlds that fail every tick, or none. A certificate that
  ends is noticed by slow ticks and new connections only, so `Expiring` and `NoName`
  are in neither set.
* `SettingsAreAsAsked` makes no claim about a switch that an update wrote back after
  another request had changed it: `asked` is then empty. Handlers take no lock, so
  this can happen; the last writer wins.
* `SchemaMatchesVersion`: one process opens the file. `ADD COLUMN` is not repeatable,
  and nothing keeps a second process out between `ReadVersion` and `BeginMigration`.
* `FailuresAreExplained` is stated of a list of errors that its limit does not cut.
* `OverviewExplainsItsState` in a window of 20,000 checks or more (two weeks at a
  check a minute): the percentage is rounded to two decimals, so one failed check
  leaves 100.00 and, from 20,001 on, one success 0.00.
* `SlowChecksKeepUp` allows for a timeout longer than the interval (a site may ask for
  5 s, a request has 15): a tick then lasts longer than the ticker takes.
* `ExpirySlides` with a clock whose unit is shorter than a request (`Pass` lets it
  advance once during one): the expiry then lags by what the request took.
* `RetryAfterIsExact` is stated for keys at the limit; concurrent logins can take a
  key beyond it (`AttemptsAreBounded` says how far), and the wait announced for it
  is then only that of its oldest failure.

`RevokedStaysOut` is about sessions that existed at the revocation. A login that had
read the old hash by then still creates its session.

### Fairness

`SiteReads` assumes that a tick or a request that began runs on (weak fairness of
its steps) and that `database/sql` serves those waiting for the connection in order
(strong fairness of `BeginTx` and of a request's statements). No statement is
assumed to succeed. `AlertConfig` assumes that a process that ended is started again
and goes on (`Restart=always` in the unit of README.md:59). `Alerting` assumes that
workers and hooks run on. `SiteAdmin` assumes the same of each loop, of the main
goroutine and of the handlers together (one of those that can take a step does), and
strong fairness of a loop's `Done` case: Go's `select` picks evenly among ready
cases, so a finished context is not passed over for ever. Ticks, requests, signals,
failures of the listener and crashes are never forced.

## Proofs

Every invariant and action property that a passing run checks, `KeyIsPreserved`
excepted, is also the statement of a theorem, for every value of the constants; what
a theorem assumes is named below.

### One site

`SiteStoreProofs` proves, for any set of loops, outcomes and bounds:

* `TypeCorrect` and `Agreement`: `TypeOK /\ IncidentAgreement` is inductive. The
  argument is per statement (`RecordTickParts`): what each leaves in the tables,
  then one case per branch of the switch.
* `CounterIsTrailingRun`: needs `StateIsLastRow` and `base <= Len(results)` as
  strengthening - the counter is right only because the row agrees with the table.
* `IncidentsAreRuns`: the incidents are the failing runs of the raw rows. A tick adds
  one row, which begins a run, extends the last one or ends it; the counter says which,
  and is right by the theorem before.
* `FailuresLogged`: a failing row has its errors row; no strengthening is needed.
* `History`: no step rewrites or drops a row or reopens an incident.
* `RowsInTimeOrder`: for a single loop (its assumption), rows and incidents are in
  time order. The strengthening says nothing recorded is later than a tick in
  flight, nor than the clock.

Of the loop in time, for any cadences, timeout, worlds and losses
(`ScheduleAssumption`: times are numbers, intervals positive; `WorldsAssumption`: what
`RunTick` finds of a world is an `Outcome`, a failing one of the broken worlds):

* `CheckingImplementsSiteStore`: what the checker finds is an `Outcome`, so the loop
  writes only as SiteStore says and the theorems above are its own.
* `SlowChecksInTime`: from `OnSchedule` (where the ticker and the tick in flight stand
  against the clock) and `Cadence` (how far behind them `lastSlow` may be). Both
  count from the last second a lookup or a write held a loop up (`stalled`).
* `HealthInTime`: from the same clocks and `Watched` - since the world last changed or
  a loop was last held up, a loop has seen it and recorded it, holds an answer that
  is true of it (`Truthful`), or is about to look (`Looks`). The bound is an interval
  and two timeouts: a request that began before the change may bring back the old
  answer at the end of its timeout, and the one after it takes another.

Of what is read of the tables, for any window, per cent, number of buckets and limit
(`QueriesAssumption`), from the types alone:

* `QuantilesAreRight`: `ORDER BY ... LIMIT 1 OFFSET k` is a `CHOOSE` of the row with
  `k` before it, so it must exist: in a finite set under a strict total order every
  rank is taken (`EveryRankIsTaken`, by a least counterexample, not by induction).
* `SeriesAreSummaries`: every check of a window is in one bucket. The fold that adds
  the buckets is a recursive function; its solution is written down and shown to be
  the only one (`SumOfClasses`).
* `OngoingIncidentFirst`: for a single loop (its assumption). With two, an incident may
  end before it began: an older tick commits last.

`RecordTickTxProofs` proves, for any number of loops and readers, that the
transactions implement SiteStore (`TransactionsImplementSiteStore`) and that the one
connection is held by exactly the loop inside a transaction (`OneTransactionAtATime`).
The invariant has three parts, each kept given the ones before: `Discipline` (types,
who holds the connection, a tick in flight is stamped); `Staged` (the holder's view is
the committed database with the statements it has run so far, and the incident it
computed is the one `RecordTick` computes), which is kept because nobody else commits
while it holds the connection; and `RoomForRows`, which says that the bound on rows of
this model implies that of SiteStore. Readers enter only as `ReaderStep`: they move the
connection and nothing else. Its assumptions: some outcomes, all of the kind `RunTick`
builds, and finitely many loops.

Its second half is about the replies: `RowsCountedAreFound` and `RepliesAreCoherent`.
Loops enter only as `Grows`: rows are added and kept. `Shape` says where a request is
in its plan (a row is asked for right after its count; the overview has its state, the
checks their list, before anything else), and `Content` what its answers so far say of
the database *as it is now*: a count is no more than there is to count, the row that
a state was of is still in the window, a listed check still there. Each answer is
established on one state of the tables and survives their growth. `RepliesAreCoherent` assumes fewer than
20,000 rows, which the rounding of the percentage needs; the other theorem does not.

### Alerts

`AlertingProofs` proves, for any sites, channels, workers, rules, retries, ticks and
restarts, with failing statements and lost replies: `Exclusive`, `TriesAreBounded`,
`SendLogIsTrue`, `RecoveriesFollow`, `SettledStaysFinal`, and that the dispatcher
implements `AtMostOnce` (`DeliveryKeepsPromise`). None of the invariants is inductive
alone. A worker counts its attempts in a local variable, so the bound and the log
hold only because that count equals the attempts made for the key (`Knows`); and it
stays equal only because no other worker delivers the key (`OneDeliverer`), which
holds because a key is pending exactly while its owner is at it and the claim found
it absent. A recovery follows its down message because between `Render` and
`ClaimWins` the ledger only grows. The only assumption is `DispatcherAssumption`.

`AnnouncementProofs` relates the site databases to the mail. `Typed` gives
`AlertingTyped`. `Sound` says that an event in the queue or in a worker's hands is
true of its site's database, and a key in the ledger names what it is about; it gives
`OneDown`. Then one event is followed: `Covered` says that for each rule it waits in
the hook or the queue, or a worker has it in hand, or its key is in the ledger, for
ever. That gives `DownAnnounced` and `CertificateAnnounced`, for any number of workers.
What they assume, and why:

* `Sheltered` (no failing statement, no crash) and `Lossless` (the queue drops
  nothing): a worker logs an error and moves on, and the queue is not persisted.
* `FirstFailureRules` (down rules fire on the first failure): a later one carries no
  incident id, the divergence that `alert_default_down` shows. `OneDown` needs less:
  the down rules of a channel fire all on the first failure, or all later.

Nothing of the kind holds of recoveries: with two workers, which the program always
has, one may be dropped (`alert_overtaken`).

### Sites and the process

`SiteAdminProofs` proves, for any sites, configurations, concurrent handlers,
requests, loops and restarts, and whether or not requests outlive the drain:
`TypesAreKept` and `AtMostOneLiveLoop`. `OneLiveLoop` with the types is inductive; each
operation under the manager's mutex preserves it, whatever the handlers' order. What
the handlers contribute is typing: the row `StartAll` reads exists because no handler
runs while the process boots (`StageOK`).

`RegistryIsScheduled` and `LoopsWriteWhatIsRead` hold under the same conditions:
requests overlap as they like, and the claim is about the sites that are not
contested. `Follows` says that at most one request is acting on such a site; that what
it has done so far still holds (`HasDone`: its row is in the registry, and a create of
a disabled site found no loop); and that once nobody acts, the site's loop is the one
its row asks for and holds the handle that is cached (`Tracked`). A request that changes
the row of a contested site alone makes it uncontested, since its `Stop` or `Start`
replaces whatever loop it finds; the create of a disabled site calls neither, and so
does not. `Ended` adds that a loop that was not cancelled has returned only if its
database did not open. Crashes, restarts and listeners that fail are included.

That the process closes its databases under no loop is not claimed: when the listener
fails it does.

### Accounts and alert configuration

`SessionsProofs` proves, for any accounts, addresses, concurrent requests, limit,
window and lifetime, `SessionsTyped`, `RevokedForGood`, `ExpiryFollowsUse`,
`FailuresBounded` and `RetryAfterExact`, in three layers. `Typing` says what each
request holds of what it read; a revoked token stays out because tokens are only ever
issued once. `Slides` relates the two clocks of a session's row to each other and to
what requests have read of them, for the touch that writes the expiry may be late.
`Throttled` adds to the live failures of a key the logins that have passed `Allowed`
and not failed yet: the sum stays below the limit plus the number of handlers. The
loop of `liveLocked` stops at the first live time (`LoopStops`), and what it forgets
is exactly what is too old because times are recorded in order. What is assumed of
the constants (`SessionsAssumption`, `LimiterAssumption`): limit and window are
positive, a session is renewed before it ends, no password has the dummy hash, and
handlers are finitely many.

`RegistryProofs` proves, for any list of migrations, clients, bodies, sites and faults,
`SchemaTheorem`, `RulesHaveChannelsTheorem`, `SettingsTheorem`, `EventsTheorem` and
`RegistryTypes`. There are two invariants. `MigrationsInv` says what an open migration
has added to the committed schema so far, and that the list of those left is that of
the committed version. `RowsInv` says that the tables agree with `asked`, and that a
row an update holds is the one in the table unless `stale` is set; the foreign key and
its cascade keep rules and channels together whatever was deleted after the lookup.
Ids are left untyped: that the largest id of a finite table exists is an induction.

### Model-checked only

`KeyIsPreserved`, in `admin` with two handlers; and the liveness properties:
`NobodyWaitsForEver`, `RegistryServes`, `StopEnds`, `CancelledLoopEnds` and
`ProcessStops`. These rest on fairness and `ENABLED`, which the prover does not
handle.

## Not modelled

The web interface (a client), message texts, logging, flags, HTTP parsing, the JSON
forms of replies, API keys, and SQLite itself (a committed transaction survives a
crash of the process; loss of power with `synchronous=NORMAL` is not considered).

Of the modelled parts: the send of a test message, which touches no state; the lists
of channels, rules, deliveries and sites; the dial guard that refuses private
addresses; which characters make a slug, a URL or a password; the other columns of
migrated tables, and indexes, of which one stands for all. Of the site schema's
migrations only the effect of v2 on a site that is down is modelled (`UpgradedDB`).

A channel's id is given again once the last channel is deleted, and the dispatcher
looks a channel up again after the rules; Dispatcher holds channels fixed, so a mail
that goes to a new channel of the same id is not shown by any run.

## Plan

1. Dispatcher over AlertConfig: channels that change, or whose id is given again,
   under a worker.
2. A site's old loop beside its new one, in Checking: what is left of `HealthIsSeen`
   while the two overlap.
3. The last Id of AlertConfig's tables: types for ids, by a finite set's maximum.
