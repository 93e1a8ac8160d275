# Darkbloom Fleet: specifications

TLA+ models of `src/fleet`, a service that watches a small fleet of Macs that
serve AI models. It polls each Mac over SSH and the coordinator over HTTP,
stores what it reads in PostgreSQL, pages through Alertmanager, and serves a
dashboard. This file says what the system consists of, which module models
which part, what the model checker and the proof system show, and what is left.

Contents: 1 the system, 2 the modules, 3 the runs, 4 the proofs, 5 where code
and documents differ, 6 what is not modelled, 7 the plan, 8 how to run it.

## 1. The system

One process (`main.py`) opens a pool of PostgreSQL connections, creates the
schema and runs uvicorn. Its lifespan starts a background loop per Mac for each
of three duties, and the web server answers `/api/status` from the tables the
loops fill. There is no message queue and no shared memory between the loops:
**they interact through the tables, and through the pool.**

| component | code | state it keeps | operations |
|---|---|---|---|
| alert watchdog | `watch.py` | table `watch_state`: per Mac and alert `since`, `firing`, `ended` | probe, transition, POST, clean-up |
| payout ingestion | `collector.py`, `remote.py`, `db.py`, `attribution.py` | table `earnings` | read cursor, fetch over SSH, insert; one copy of each payout when read |
| provider identities | `collector.py`, `demand.py`, `db.py` | tables `provider_identities`, `provider_fleet_hosts` | copy the account listing, prune, link by key |
| service process | `main.py`, `web.py`, `scheduler.py`, the `run_forever` loops | the stop event, the pool, open requests | tick, answer, shut down |
| dashboard page | `static/dashboard.js`, `static/ui.js` | script variables, the DOM | poll, abort, answer, render, controls |
| revenue scores | `collector.py`, `scoring.py`, `db.py` | tables `ema_state`, `demand_samples` | delete ineligible, load, update, save |
| counter votes | `attribution.py` | table `daemon_snapshots` | snapshot, vote for the Mac whose counters rose |
| status answer | `web.py`, `queries.py` | none; many transactions per answer | attribution, unattributed count, hosts to show, then card by card |
| card, health, sessions | `queries.py`, `card.py`, `health.py`, `routability.py` | none | badge, band, serving shares, switch cost, out of one Mac's snapshots |
| hourly jobs | `hourly.py`, `static/hourly.js` | none | hours, portions, one legend for all cards |
| earnings evidence | `earnings_shadow.py` | a JSON file it writes on the Mac | profile of paid work and allocated time |
| feeds, remote client, configuration, schema | `demand.py`, `remote.py`, `config.py`, `db.py` | the schema | parsing, SSH, start-up |

How they meet:

- **collector -> tables -> status.** A tick of a Mac's collector stores a daemon
  snapshot, ingests payouts, on one configured Mac (`probe_self_route`) copies
  the account's provider listing, links the providers that hold this Mac's key,
  and updates the scores. A status answer reads what is there, each statement in
  a transaction of its own: the attribution of payouts once, then the hosts, then
  each card's owners and payouts, while the collectors go on.
- **collectors among themselves.** The account and its payout ledger are shared:
  two Macs ingest copies of the same payout; one Mac deletes the links that
  another writes.
- **watchdog -> Alertmanager.** Messages may be refused, and a taken message's
  answer may be lost. Alertmanager closes by itself a page that is not repeated.
- **service.** Ticks run in threads, requests in the event loop with their
  queries in threads, all on `pool.max_size` connections.
- **page -> service.** Refreshes overlap: a timer, the tab coming back, aborts.

What is hard, per component, and what makes it correct:

- *Watchdog.* Three effects (a commit, a POST, a commit), each of which may fail,
  succeed unseen, or be followed by a kill. Correct when no page is premature,
  no recovery is claimed that was not read, nothing that fired is forgotten
  undelivered, and what lasts is paged and what is over is closed.
- *Ingestion.* A cursor read in one transaction, used by an SSH command of up to
  twenty seconds, and advanced by another transaction; copies of the same row from
  several Macs. Correct when nothing is skipped for ever and nothing loses its
  provider.
- *Identities.* A listing fetched before the transaction that deletes by it; an
  answer that succeeds and is blank; two writers of the links. Correct when a
  provider that stays is not lost and one that left is.
- *Service.* Exceptions of every kind, four connections for everyone, shutdown in
  the middle of ticks. Correct when loops survive, requests end, and the pool
  closes last.
- *Page.* Answers out of order, aborts that are also the end of the first refresh,
  rendering that is skipped on an equal fingerprint. Correct when the page shows
  the script's state and never goes back.
- *Scores.* Several transactions per tick on one table, a stamp that all rows
  share, models that leave and come back. Correct when an average holds no score
  from before its model was last deleted as gone, and elapsed time is the model's own.
- *Snapshots.* Stamped when a tick starts, stored when its SSH read ends, if it
  does; windows, streaks and limits that cut the same history in different places.
  Correct when every derived figure is what its definition says at every moment.
- *Status answer.* What one transaction says is used with what later ones say:
  hashes and providers are attributed, linked and pruned in between, and a cap cuts
  the list of hosts. Correct when no payout is on two cards and none is on no card
  without a trace, but for what the cap cuts off.
- *Hourly.* Integer cuts of the running hour, and letters handed out one by one from
  what is left. Correct when every job is in its portion and a letter means one model.
- *Evidence, switch cost.* Intervals between samples: ends of the span, outages,
  sessions that have not served yet. Correct when every moment counts once and a
  measured delay does not change later.
- *Votes.* Two Macs' counters, read at different times, across a payout that names
  neither. Correct when unrelated requests do not outvote honest observations.

`PROJECT.json` lists every component with its status, and every hazard at its
line with the properties that cover it, or why none does.

## 2. The modules

Each `MCx` module fixes what a `.cfg` cannot write (functions, ordered host ids);
state, actions and properties are in the component's module. The operators under a
comment "Mutant of X" are wrong variants of the definition X below them; no action
uses them, they exist so that each property can be shown to catch a plausible bug.

### Watch, AlertLifecycle

`Watch` is one Mac's loop. `row` is its `watch_state` row; everything else of a
tick (`pc`, `observed`, `at`, `state`) is lost at its end. `am` is the last
message Alertmanager accepted per alert.

| action | code |
|---|---|
| `ProbeAnswers`, `ProbeFails` | `_read_status` and `conditions` in `tick`: any reading, or an SSH or parse failure |
| `Stamp` | `now = time.time()`, after the probe |
| `Commit` | the first transaction: read the row, `transition`, write it back, and the early return when nothing pages |
| `PostAccepted` | `_post_alerts`, every firing record at once |
| `Clean` | the second transaction: the records with an `ended` are dropped |
| `Abandon` | an exception in any step, an answer lost after its effect, or a kill and restart |
| `Advance` | time, between any two steps |

`Transition`, `AdvanceAlert`, `SwitchCondition` and `Payload` translate
`transition`, `_advance_alert`, `_switch_condition` and the JSON of an alert. The
history variable `sick` (first committed fault since the last committed healthy
reading) is read by properties only. The lost answers are `Abandon` after the
effect: a commit or POST that took effect, followed by `Abandon`, is what the
process sees as a failure.

`AlertLifecycle` is what the watchdog promises, with no clock, SSH or crash: an
alert is clear, pending, firing or resolving; one check moves it by at most one
phase; one message carries all; a recovery is forgotten only after it was told.
`ImplementsLifecycle` is the refinement.

Assumed: the clock does not go back; a stored row has the shape the code writes
(`_valid_records` is a guard against rows of other origin); Alertmanager
closes a page when its `endsAt` passes.

### Ingest, LedgerCopy

Every Mac holds a copy of the account's payout ledger, whose row ids only grow.
`ReadCursor` is `db.last_payout_rowid`, `Fetch` the SSH command with its
`WHERE rowid > ? ORDER BY rowid LIMIT ?`, `Insert` the transaction with its
`ON CONFLICT DO NOTHING`, `Abandon` any failure or restart, `Append` the daemon.
A row stands for a payout with its amount and time, which travel with it; whether
it has a `provider_hash` is kept, because `unique_payouts_sql` prefers the copy
that has one: `Before` is its ordering, `UniqueCopy` the copy it keeps. `Recent`,
`RecentCopy` and `RecentRows` are the bounded choice of `unattributed_recent`: of each
host its latest rows, among these one copy of each, of these the latest; a later row id
is taken for a later payout.
`LedgerCopy` is the promise per Mac: a copy that follows a growing ledger in
order; `ImplementsCopy` is the refinement, for every host at once.

Assumed: row ids of the ledger are append-only and account-wide. A recreated
ledger file would break this; the hazard is listed.

### Identities

The two identity tables, with the tick of every Mac's collector against an
account that changes at any moment. `FetchProviders` and `FetchEarnings` are the
two requests of the probing Mac; `Prune` and `CommitIdentities` the statements of
its one transaction (they see what others committed in between: PostgreSQL's
default READ COMMITTED); `FetchKey` and `WriteLinks` are each Mac's link;
`FailIdentities` is the logged exception after which the tick goes on, `Abandon`
a failure or restart that ends it. A blank answer that counts as a success is an
outcome of each request. The readers are operators: `Attributed` and
`Aliases` for `attributed` and the aliases of a card, `Evidence` for `PAYOUT_SQL`.

Initial rows: `Legacy` are identity rows that name a Mac, written by an earlier
version (the code still keeps them, and `scripts/repair_provider_identity_hosts.sql`
exists for them); their Macs have a heartbeat. That last part is an assumption: a
row whose Mac sends its very first heartbeat only while the probe's transaction is
open could be deleted.

### Service

Threads are values: a loop's tick, a request's shared queries, one host's row.
`Connect` and `Disconnect` are the pool (a thread holds one connection at a time,
and cannot end while it holds one: the `with` block). `CheckStop`, `EndTick`,
`Wake` are the three `run_forever` loops, which have one shape; `EndTick` stands
for returning and for raising, as the `except Exception` makes them equal.
`Accept` to `Gathered` are `status()`: the shared queries, then a row per
host through the semaphore **of that request** (each request makes its own), each
row answered by `build_status` or as an error by `_status_row`. `Shutdown`,
`LifespanEnds`, `ClosePool` are uvicorn's drain, the lifespan's `finally`, and
`main`'s. A loop of a duty that is switched off is `ended` from the start.

### Dashboard

The script between two awaits is one action. A request is `waiting`, `answered`,
or settled with data or an error; `current` says that its token is the latest of
`makeRefreshGate`. `BeginRefresh` aborts what is in flight: the awaiting code of
the aborted one ends without effect, which also ends the first refresh that
the `setInterval` waits for (`booted`). A settled request whose continuation
has not run yet is superseded instead. `Fingerprint` holds what the code's
fingerprint holds; `page` is what `#hosts` was last drawn from, with the same
fields, so `PageIsCurrent` asks whether skipping was right, as far as the page depends
on the script's state. What a rendering takes from the browser's clock (the ages of
`fmtAge`, `ui.js:13`, and of `fmtUp`, `host.js:29`) is in neither: when a poll brings an
equal status, the ages on the cards stay those of the last rendering, and only the
subtitle is written anew. `Broken` versions are those whose rendering throws.

### Scores

One Mac's `ema_state` and the end of `run_tick`: `ReadInventory` (known or not),
`DeleteIneligible` with the early return when nothing is eligible, `NoScores`
(the feeds fail or leave nothing), `LoadEma`, `SaveEma`, each statement a
transaction of its own; `Abandon` a statement that fails, `Restart` a kill, after
which the allow-list may be another; `Install` and `Remove` the disk. The numbers
are abstracted to what the properties tell apart: a value is known by the times of
the oldest and the newest score averaged into it. History: `saved`, the last save;
`deleted`, per model the last tick that found it gone and whose DELETE took effect (a
tick that fails or is killed between the two leaves the row; section 5). `now` outlives
the tick only to say that no two ticks share it. `insert_demand_samples`, which only records what
was computed, is left out.

### Snapshots

One Mac's `daemon_snapshots`. `StartRead` takes the stamp, `Read` stores what the SSH read
found (one of `Readings`: the columns, what the manager targets, and whether the daemon
served or restarted since), `ReadFails` loses it, `Advance` lets at most `Lag` pass in
between. Everything else is an operator evaluated at every moment: `Held` to
`LifetimeSeconds` are the serving shares (`_serving_shares`, `_window_shares` and the two
SQL statements, in seconds, before the division by the window), `IsDown` to `Health` the
badge of `health.py` with its order of precedence (`StepFlips` and `StepFrozen` are its two
loops over the rows; `RowsFrom` and `InWindow` are its queries and the bisection of the
history, cut where `Bisect` finds the time), `Band` the band of `card.py` with
`last_served`. What the network did since the session started (`_DEAD_SQL`) is the input
`network`, both values of which are checked.

### Sessions

`Sessions` extends `Snapshots` by what else is read from the same rows, as operators
again. `Delays`, `LatestDelays` and `SwitchCost` are `_switch_cost_sessions` and the
median of `routability.py`: from the start of a session, which is its identity, to its
first sample with a request. `AllocatedModel`, `Interval`, `AllocatedSeconds` and
`WarmSeconds` are `EXPOSURE_SQL` of `earnings_shadow.py`; the median is kept doubled,
and its average pressure is left out. Time is in whole units, so the
lower bound of `BETWEEN 1 AND 90`, which leaves out samples less than a second apart, excludes
none here.

### Hourly

`hourly.py` as functions of the payouts of a card: `HourRow` (the jobs of an hour and,
for each portion that has begun, the model with most of them), `Letters` and
`SharedLegend` (the legend of all cards; `Glyph` takes a free initial, then a free
label, then the overflow). Percentages are left out.

### Status

One answer of `/api/status` over the state of `Identities`, whose collectors go on
between any two of its transactions, as does `Ingest`.

| action | code |
|---|---|
| `ReadAttribution` | `provider_hosts`: an identity overrides the votes, two owners leave a hash nobody's; the votes themselves are any host of `Voted` |
| `ReadUnattributed` | `unattributed_recent`, below its limit (its limit is `RecentRows` of `Ingest`) |
| `ReadExtras` | `unconfigured_host_ids` with its cap, and which cards are made of them |
| `SharedFails` | an error in one of the three above: every configured card is an error |
| `ReadOwners` | `_owner_aliases` of one card |
| `ReadPayouts` | the payouts of that card, by the attribution of the answer |
| `CardFails` | `_status_row`: the error of one card |
| `Send` | the answer leaves, or its client did |

Cards go on beside one another. Two abstractions: the sections of one card (totals, hourly,
models) read the same hashes one after the other and are one read here; the clock stands
still while an answer is computed. `known` is a history variable: the ids that the list of
discovered ones was cut from. `CutOff` is what the cap has cut off them, read off the list
itself: ids behind a full list of others (`Place` is the order of `sorted`). Base rewards,
which have no model and no session, are not among the payouts.

### Votes

Two Macs, their daemons' counters, their snapshots as above, and the ledger. A
`provider_hash` stands for one session of one Mac's daemon. `Serve` raises the
counter and creates the payout at the same moment (a payout created later is like
a read that comes early, which `Lag` covers on the other side). `Prev`, `Nxt` and
`Risers` are the lateral joins of `_VOTES_SQL`, `VotesFor` and `Leaders` the two
Python functions. Hashes with an exact identity are not here: the votes skip them,
and `Identities` has them.

## 3. The runs

| run | shows | bounds, and why they suffice |
|---|---|---|
| `watch` | `RowRemembersSpell`, `PageEarned`, `RecoveryEarned`, `EndIsStable`, `PageOutlivesDelivery`, `ImplementsLifecycle`, `RecoveryDelivered`, `OutagePaged` | one alert with a grace and the immediate one: alerts meet only in the shared message and clean-up, which two suffice for. Grace 1, hold 1, clock to 3: a page, a recovery and a second spell; an outage may begin late and still outlast its grace. The safety properties are proved for all bounds |
| `watch_resolved_kept` | **violated**: `ResolvedKeptUntilDelivered` (section 5) | one alert |
| `ingest` | `StoredIsPrefix`, `RecentIsExact`, `AttributionIsKept`, `ImplementsCopy`, `EventuallyIngested` | two hosts (both tie orders of `Before`), batch 2 of 3 rows: a backlog larger than a batch, ids with holes; every limit of `RecentRows` from one row to all |
| `identities` | `IdentityIsKept`, `EventuallyKnown`, `EventuallyForgotten` | two Macs (the probing one and another), three providers: two that stay once listed, one that comes and goes; each with its hash, one session hash, one legacy row |
| `identities_evidence` | **violated**: `EvidenceIsAssigned` (section 5) | as `identities`, fewer providers |
| `service` | `TypeOK`, `PoolOutlivesThreads`, `LoopsTick`, `RequestsAnswered`, `ShutdownCompletes` | two loops, two requests of two hosts on ONE connection: the most contention there is |
| `dashboard` | `TypeOK`, `PageIsCurrent`, `NeverBack`, `CatchesUp` | two versions of the status, one of which cannot be drawn, two windows; any number of requests in flight |
| `scores` | `FreshStart`, `OneStamp` | two models (one scored while the other is not), clock to 4: saved, found gone, back, saved again |
| `scores_elapsed` | **violated**: `ElapsedIsItsOwn` (section 5) | as `scores` |
| `snapshots` | `TypeOK`, `ServingIsExact`, `HealthIsExact` (frozen, thrash, down), `BadgeAndBandAgree`, `EvidenceIsExact`, `SwitchCostSettles` | up to six reads in five units; each limit is one or two units, windows of 1 and 3, an hour and an evidence span of 4, so that rows lie before, on, in and after every cut; two models; readings that are idle, busy, serving, stale, of another model, restarted, untrusted, and targeted at a model that is not warm; two sessions are enough for a switch cost, and a third replaces the oldest |
| `status` | `StatusTypeOK`, `OneCard`, `NothingIsLost`, `HourlyIsExact` | two configured Macs, of which one holds both keys, one former host, two providers. One earns and votes and identity pull its hash to different cards; the other earns nothing and makes listings in which the first is missing, so that links and identities are pruned between two reads. Payouts in one portion and in the next, in the hour before, of tomorrow, without a hash, and one that comes in meanwhile; four models for three labels, one of them without a free initial. `MaxDiscovered = 1`: the list holds the former host, or the unlinked provider that cuts it off, or nothing is cut off (section 5) |
| `votes` | `TypeOK`, `LeaderIsBacked`, `VoteIsFinal` | two Macs with two sessions each, three payouts (a vote for, a vote against and one to tip it), three moments, reads that take up to one; Macs are interchangeable (symmetry) |

The type invariants of `Watch`, `Ingest` and `Scores` are in no run: they are proved
(section 4). That of `Identities` is a part of `StatusTypeOK`. The bounds are constants:
`MaxTime` and `MaxRow` guard the clock and the row ids, `MaxVersion` the versions of the
status, `MaxSessions` and `MaxPayouts` what their names say in `Votes`. `snapshots` and
`votes` do not check for deadlock: their clock stops. No run replaces a definition.

What they say of the code, in brief. *Safety of the watchdog*: whatever is lost or killed, a
page is earned by an unbroken committed fault of its grace, a recovery by a committed
healthy reading that no committed fault followed, a stored end never changes, and the
clean-up of one alert, written from a copy made before a POST, never hits a record that
moved. *Ingestion*: the cursor never jumps a row, and the late arrival of a copy with no
hash never hides one with; bounding the rows of each host loses none of the account's
latest. *Identities*: stale listings can take a link away but the system repairs itself; a
blank answer wipes nothing. *Service*: nothing waits for ever although every request brings
its own semaphore. *Page*: no order of answers, aborts and controls leaves a stale rendering
behind. *Scores*: a model that a tick found gone and deleted starts afresh, and all
rows carry one stamp. *Snapshots*: windows, lifetime, thrash, frozen, down and the seconds
of the evidence are exact at every cut, badge and band do not contradict each other, and the
switch cost moves only with a session's first request. *Status*: reading the attribution
once is what keeps a payout off two cards; reading the owners later costs nothing, because a
payout whose provider lost its link in between is still told of; the cap on discovered ids
cuts off what is behind a full list, and nothing is missing but that. *Hourly*: the cuts of the
running hour and the shared legend are right, also when labels run out. *Votes*: a payout is
shown on the wrong Mac only when the right Mac's snapshots miss more of the session's
payouts than they show, and a vote is final once every Mac was read.

### Fairness

- **Watch.** Probing is weakly fair: `run_forever` never stops and the probe has a
  timeout. The other steps are strongly fair, because `Abandon` may disable them
  again and again: SSH, PostgreSQL and Alertmanager do not fail for ever. The clock
  need not advance; `OutagePaged` speaks of outages that have outlasted their grace.
  `Stamp` to `PostAccepted` may take longer than `Hold` while the clock runs; since
  the clock stops at `MaxTime`, repeats are in time in the end, and the property
  is about the end that a repeat carries, not about how fast it comes.
- **Ingest, Identities.** Each host's next good step is weakly fair, and failures
  stop in the end (`<>[][...]`: from some point on each step is a good one or
  another actor's). Every tick begins from nothing, so one undisturbed tick does
  the work, and a system whose SSH fails for ever owes no ingestion.
- **Service.** Threads end because SSH, HTTP and the wait for a connection have
  timeouts, so a thread that has a connection gives it back (weak), and a thread
  that can end and is repeatedly set back by a new statement ends in the end
  (strong: it makes finitely many statements). Waiting for a connection is not
  fair at all: a thread that gets none raises after the pool's timeout, which is
  an end of its own. The event loop is weakly fair.
- **Dashboard.** Timers fire and settled promises are handed on (weak). That not
  every answer is overtaken by the next poll is assumed (strong fairness of the
  *current* request's answer and arrival): a status taking longer than the poll
  interval of a minute would starve the page, which is listed as a hazard.

## 4. The proofs

Eight modules, `WatchProofs`, `IngestProofs`, `ServiceProofs`, `DashboardProofs`,
`ScoresProofs`, `SnapshotsProofs` (which proves about `Sessions` too), `StatusProofs`
(about `Identities`, `Status` and `Hourly`) and `VotesProofs`, hold theorems checked by
TLAPS for every value of the constants: any set of hosts, loops, requests, providers,
models or payouts, any batch, pool, grace, window or clock bound. In each the invariant is
`IInv` (`SnapshotsInv` in `SnapshotsProofs`; `StatusProofs` adds those of an answer): the
initial states satisfy it, each action preserves it (one lemma or step per action), and
the theorems follow from it. Every safety property of the passing runs is a theorem.

**Assumptions** are those of the modules, evaluated by TLC in the runs:

| module | assumed |
|---|---|
| `Watch` | `AlertsAssumption`, `TimesAssumption`: the alerts are among the code's three; grace a natural, hold positive |
| `Ingest` | `HostsAssumption`: host ids are ordered as naturals; `BatchAssumption`: a batch is positive |
| `Identities` | `ProbeAssumption`: one of the Macs probes; `ProvidersAssumption`: a provider is no Mac, a hash has one provider, a provider one key; `LegacyAssumption`: old rows name Macs |
| `Service` | `MaxSizeAssumption`: the pool has a connection; `WorkersAssumption`: loops and requests are different threads |
| `Dashboard` | `VersionAssumption`, `WindowsAssumption`: there is a version and a window |
| `Scores` | `TimeAssumption`: a positive clock bound |
| `Snapshots` | `LimitsAssumption`: limits are naturals and windows positive, a read takes no longer than a row stays fresh, a row is fresh for no longer than a Mac may be silent, and recent traffic is looked for within the age of a session; `ReadingsAssumption`: the models are finitely many |
| `Sessions` | `EvidenceAssumption`: limits are naturals; of the sessions looked at, at least one must be there |
| `Hourly` | `HoursAssumption`: portions divide the hour; names, initials and labels are sequences, and the overflow glyph is no label |
| `Status` | `StatusAssumption`: former hosts are neither Macs nor providers; any order of the ids, each once; payouts are finitely many, of models that have a name |
| `Votes` | `BoundsAssumption`: bounds are naturals, a Mac may have a session, the Macs are finitely many and at least one |

**Watch.** The invariant is `IInv`, seven parts. `TypeOK` and `CopyIsRow`: between
the first commit and the clean-up the tick's `state` is the stored row (nothing
else writes it, although the POST lies between). `CleanIsDelivered`: at the
clean-up Alertmanager has accepted exactly what `state` says. `WellFormed`: an absent
record is `NoRecord` and an ended one had fired. `RowRemembersSpell`: an open record
carries the stamp of the spell's first committed fault. `GraceServed`: the spell of a
firing record has lasted its delay, by the clock and, once the tick is past its first
commit, by the tick's stamp. `StampIsPast`: that stamp is not ahead of the clock.
Without `CopyIsRow`
and `CleanIsDelivered` the clean-up could not be shown to leave new records
alone; without `GraceServed` and `StampIsPast` a page is not known to be earned at
the time it is sent. `Init` implies it, each action preserves it (one step per
action), and:

| theorem | states |
|---|---|
| `TypeCorrect` | `Spec => []TypeOK` |
| `SpellRemembered` | `Spec => []RowRemembersSpell` |
| `PagesAreEarned` | `Spec => PageEarned` |
| `RecoveriesAreEarned` | `Spec => RecoveryEarned` |
| `EndsAreStable` | `Spec => EndIsStable` |
| `PagesOutliveDelivery` | `Spec => PageOutlivesDelivery` |
| `Refinement` | `Spec => ImplementsLifecycle` |

**Ingest.** `StoredIsPrefix` is not inductive: between the steps the cursor and the
batch are old. `IInv` adds `CursorIsLast` (while a tick runs, `since` is the
maximum of what is stored: only the host's own tick inserts) and `BatchFollows`
(the fetched rows are in the ledger, after the cursor, and with each row every
ledger row between the cursor and it). The ledger may grow at its end in between,
which keeps both. From it `TypeCorrect`, `NoPayoutIsSkipped`
(`Spec => []StoredIsPrefix`) and `Refinement` (`Spec => ImplementsCopy`).
`AttributionStays` (`Spec => AttributionIsKept`) needs `KnownIsStored` (a known hash came
with its row) and a least host among those that know a hash (`LeastExists`), since
hosts may be infinitely many. `RecentRowsAreExact` (`Spec => []RecentIsExact`) rests on
`LatestIsFull`: a row that the limit cuts off on one host lies behind `limit` later rows of
that host, so it cannot be ahead of a row that made it into the account's latest.

**Identities.** Not even `TypeOK` and `IdentityIsKept` together are inductive: the
answers a tick acts on are old, and its transaction deletes in a statement of its own.
`IInv` adds `ProbeIsAlone` (only the probing Mac is ever in that transaction),
`OwnersAreKnown` (owners of rows that must stay are known: a Mac by its heartbeat, a
provider that stays by the listing), `AnswersAreTrue` and `AnswerIsWhole` (old answers
name nobody who stays and is gone, and an answer that is not blank misses nobody who
stays and is stored), `DraftKeeps` (what the deletion has left so far holds every row to be
kept) and `LinksFollowKeys`. From it `TypeCorrect`, `IdentitiesAreKept`
(`Spec => IdentityIsKept`) and `LinksAreKept`: a provider that stays is never unlinked again
once it is identified. The last is in no run; it is what `LossesAreTold` below rests on, and
needs `AnswerIsWhole` up to the deletion of the links (`prune`), not only when it is fetched.

**Snapshots, Sessions.** `SnapshotsInv` has four parts: `Typed` (`TypeOK`, and the counter a
read will find), `RowsInOrder` (stamps ascend strictly, none is ahead of the clock),
`StampLatest` (the read under way is later than all that is stored) and `SessionsInOrder` (a
row ahead of the session's counter is from before the session). `InvHolds` is its
invariance. What is proved from it is what the code computes *out of* the rows:

| theorem | states | the argument |
|---|---|---|
| `ServingHolds` | `[]ServingIsExact` | the sum over clipped intervals is the number of moments in them: each row adds the moments up to the next one, and neighbours share none (`Induct` over the rows); the rows that the window leaves out ended before it began |
| `HealthHolds` | `[]HealthIsExact` | *down*: stamps ascend, so the oldest row and the latest fresh one decide. *Thrash*, *frozen*: the two loops of `health.py` are folds; after `k` rows each holds the state, the flips and the origin that the first `k` rows define |
| `AgreementHolds` | `[]BadgeAndBandAgree` | badge and band read the same latest row, and the limits are ordered |
| `EvidenceHolds` | `[]EvidenceIsExact` | as for the windows, and the intervals of different models are disjoint |
| `SwitchCostHolds` | `SwitchCostSettles` | a new row is later than all of its session, so a least sample is lowered by none; a session that has a delay keeps it |

**Service.** `PoolOutlivesThreads` says nothing of how the process got to its end.
`IInv` adds `ShutdownInOrder` (after uvicorn's drain no request is open, after the
lifespan's `gather` no loop runs) and `RowsAreAsked` (rows run only for a request
that has come to them), to `TypeOK`, which itself says that only running threads hold
connections. From it `TypeCorrect` and `PoolIsClosedLast`
(`Spec => []PoolOutlivesThreads`).

**Dashboard.** The page is skipped by a fingerprint and drawn from answers that may be
superseded. `IInv` adds `AnswersAreNew` (the current answer is not older than what was
taken; at most one request is current), `FingerprintIsDrawn` (the fingerprint is the
page's unless the version it names cannot be drawn) and `PageIsPast`. From it
`TypeCorrect`, `PagesAreCurrent` (`Spec => []PageIsCurrent`) and `PagesNeverGoBack`
(`Spec => NeverBack`).

**Scores.** Neither `FreshStart` nor `OneStamp` is inductive. `IInv` adds
`StampsArePast` (the tick's `now` is not ahead of the clock nor `deleted` of `now`, and
before the deletion of a tick every earlier one is older), `PastDelete` (past the deletion
of a tick only eligible models have rows, and none of them was deleted by this tick),
`PrevIsStored` (the values a tick has loaded are
the rows' of the eligible models) and `RowsHoldValues` (a stored row has a value).
The load and the save of one tick are transactions apart, and only `PrevIsStored`
says that the save writes all rows there are, which is why one stamp holds. From it
`TypeCorrect`, `StartsAfresh` (`Spec => []FreshStart`) and `StampsAgree`
(`Spec => []OneStamp`).

**Status.** `PayoutsAreOnOneCard` (`StatusSpec => []OneCard`) combines the invariant of
`Identities`, which goes on underneath, with three facts of an answer: cards are hosts and
never providers (`CardsAreHosts`), the owners a card has read are itself and
providers whose key that host holds (`OwnersAreProven`, from `LinksFollowKeys`: links may
come and go between two cards, but never to another host), and what a card shows is
attributed to one of them (`PayoutsAreOwned`). Two cards' possible owners are disjoint, and
the attribution is one function.

`StatusTypeCorrect` (`[]StatusTypeOK`) is `AnswerTypes` over the types of `Identities`.
`LossesAreTold` (`[]NothingIsLost`) follows a payout's owner through the answer. `LossInv` says
at each phase why the payout can still be shown: what has no owner has been counted
(`UnownedIsCounted`); an owner that stays was identified when the attribution was read, and
stays so (`OwnerIsIdentified`, from `IdentitiesAreKept`'s step); once the cards are made he is
known without a collector or has a link (`LinkedOrKnown`), which he keeps (`LinksAreKept`'s
step); what is known is listed or behind a full list (`ListedOrCut`), and so a host has a card
or is cut off (`HostsHaveCards`); a card that has read its owners has him among them, and one
that is complete has his payouts (`CardShowsHome`). It holds for every cap:
`DiscoveredOrBehind` shows that an id left out of the list sorts behind as many listed ids as the cap allows, by the first
place that is cut off (`LeastExists`): the places up to it are those of the list and itself, and
are more than the cap.

**Hourly.** `HourlyPanelsAreExact` (`StatusSpec => []HourlyIsExact`) needs of the answer only its
types: the panels are functions of the payouts. The lemmas are those of the arithmetic
(`HourIsOne`: a time lies in exactly one hour; `PortionHasBegun`: the portion of a past job has
begun, at the last moment of a portion and at the first of the next), of `Busiest` (there is
such a model, and none had more jobs) and of the legend. `LettersSteps` shows that the recursive
function in `Letters` exists and what each step adds; `NextIsDistinct` that a step keeps the
letters apart until the labels are used up; `LegendFacts` puts both together.

**Votes.** `IInv` is the types and `ReadsAreNext` (a read under way will be its Mac's latest
snapshot), so a snapshot is always appended behind those there are. Then the first snapshot
after a payout and the last before it stay what they are (`LeastStays`), hence
`VotesAreFinal` (`Spec => VoteIsFinal`). `LeadersAreBacked` (`Spec => []LeaderIsBacked`)
counts: the payouts that voted for the wrong Mac and those that voted for the right one are
disjoint sets of the session's payouts. `TypeCorrect` (`[]TypeOK`) is about the bounds and
the order of the rows, for which `BInv` adds that a payout is of a request that its
session's counter has passed (`PaidAreServed`), that no counter passes the number of payouts
(`CountersAreBounded`), no stamp passes the clock (`TimesAreBounded`), and the same of the
stored rows (`RowsAreBounded`).

**Numbers and sequences.** The library's induction theorems take an operator as a parameter,
which the provers cannot instantiate. Where a value is computed row by row, the proofs use
`Induct` instead: a set of numbers that has 0 and with each number the next has them all,
proved from the least number outside it. `FoldExists` and `FoldLeftExists` show that a fold
is the last value of an iteration, `FlipsSteps`, `FrozenSteps` and `SumSteps` what the steps
of the three loops are, and `LettersSteps` the same of a recursive function. What the prover
cannot unfold at all (`@@`, `:>`, `SelectSeq`, `SortSeq`) is written as a function or a set
in the modules that are proved about.

**Only model-checked.** All liveness: properties under fairness, and facts about `ENABLED`, are
beyond the prover. Of the safety properties the runs check, none is left to TLC alone.

## 5. Where code and documents differ

Each is a run that TLC finds violated.

1. `watch.py:120` (`watch_resolved_kept`). The comment of `tick` says "Keep resolved
   records until delivery succeeds, including across restarts." A fault that
   returns while the recovery is undelivered replaces the record: the recovery is
   never sent. Alertmanager still closes the page when its end passes, and the new
   spell gets its own grace; `PageOutlivesDelivery` states what does hold.
2. `earnings_shadow.py:47` (`identities_evidence`). The earnings evidence selects
   identities whose owner is the fleet host id. Identities now name provider ids and
   the link table is not joined, so the evidence of every linked Mac is zero, where
   the README says that missing evidence "must not be interpreted as a measured zero".
3. `collector.py:191` (`scores_elapsed`). A tick that scores one model stamps the rows
   of all eligible ones, and the next tick measures its elapsed time from the newest
   stamp. A model that was missing from the feed for an hour is then averaged with the
   weight of a minute. The comment above says that saving without scores "would fake a
   fresh dt on the next real update"; the guard covers only the tick without any score.
   `OneStamp` states what does hold.

Seen while modelling, and not runs:

- `attribution.py:4`: the module "maps each hash to the host whose daemon actually
  served it". The serving Mac shows no rise across a payout when its daemon restarted in
  that minute, or when its snapshot was stamped before the request and read after it;
  another Mac that served in that minute then has the only vote. `LeaderIsBacked`
  states how far this can go; exact identities override it.
- `queries.py:383`: the cap on discovered hosts is applied before `web.py:85` tells
  provider ids from Macs, so enough unlinked providers, which sort before a Mac's name,
  push a former Mac off the display, although its comment (`web.py:72`) promises "named
  discovered Macs (not UUIDs)". Its payouts are then on no card and counted nowhere. This
  happens in the run `status`: without its disjunct `CutOff`, `NothingIsLost` is violated
  there, in an answer that read a vote for the former Mac and then listed a provider identified
  since. With it, the property says that nothing else is ever lost.
- `collector.py:186`: a model "missing from disk must not survive in the restored EMA". A tick
  that finds it missing and then fails, or is killed, before its DELETE (`collector.py:170`)
  takes effect leaves the row, and when the model is back before the next tick, its old average
  goes on. `FreshStart` states what does hold: a tick whose DELETE took effect has put an end to
  the average of every model it found gone, and the next tick that finds a model gone also
  deletes what an earlier one left.
- `collector.py:152`: a snapshot is inserted before the inventory is read over a second
  SSH command, and its list of models on disk is empty in between; the panel of "every
  on-disk model" (`queries.py:179`) lacks them for that while.
- `health.py:129`: `_warm_flips` takes "the first crossing, not the last, so THRASH keeps
  its origin time", but its hour slides, so the first crossing leaves it and `since`
  moves forward. `ThrashIsExact` states what the figure is.
- `dashboard.js:78`: a failed import of `hourly.js` is kept and never repeated.
- A listing fetched before a provider joined takes away the link its Mac wrote since,
  until that Mac's next tick (`EventuallyKnown`).

## 6. What is not modelled, and why

- SSH, parsing, the feeds' formats: every failure of theirs is an outcome of the
  module that calls them; what they parse is data the properties do not tell apart.
- Configuration: read once. What it guarantees (distinct host ids, one probing
  Mac) are assumptions.
- Schema, deployment, one-off scripts: no behaviour of the running system. The
  tables `switch_lease` and `decisions` are created and never used.
- HTML, sanitizing, scroll and focus of the page: they do not feed back into state.
- uvicorn's forced exit on a second signal, and client disconnection.
- The fields of a demand row (`manager_demand`), the self-route counts and what else the
  routability panel formats; percentages, rounding, average pressure: arithmetic and
  layout on what is modelled. The ages the page computes from its own clock (section 2).

## 7. The plan

In this order; later modules use the tables of earlier ones.

1. `Watch` / `AlertLifecycle`, `Ingest` / `LedgerCopy`, `Identities`, `Service`,
   `Dashboard`, `Scores`, `Snapshots`, `Sessions`, `Votes`, `Hourly`, `Status`: done, with
   the proofs of section 4.
2. Refinement of an abstract answer: a status answer as one atomic read, for the payouts
   whose owners do not change meanwhile.
3. The demand panel (`manager_demand`): its ranking over two ticks' samples.

## 8. Running it

In this directory: `tlc -config MCWatch.cfg MCWatch` and likewise for each pair of
module and configuration in `PROJECT.json`; `tlapm WatchProofs.tla`, and likewise
each module whose name ends in `Proofs`, for the proofs. The longest runs, `service`,
`snapshots` and `status`, take two to four minutes each with two workers.
