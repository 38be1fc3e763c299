# Caelestis: specifications and proofs

TLA+ models of the protocols of Caelestis, in its backend (`apps/backend/src`)
and its userscript (`apps/userscript/src`), the TLC runs that check them on
small instances, and theorems that TLAPS proves for every value of the
constants. Paths below are relative to `apps/backend/src`
unless they start with `docs/` or `packages/`.

## 1. The system

Caelestis is a collaboration server for a shared pixel canvas. A userscript in
the browser reports painted pixels and observed tiles; the backend stores
templates, classifies tiles, keeps counters and history, and pushes live
status. The same code runs as Cloudflare Workers with Durable Objects, D1 and
R2, and as one portable Node or Bun process on SQLite, PostgreSQL or MariaDB.

| Component | State | Operations | Interacts with | What is hard | What makes it correct |
| --- | --- | --- | --- | --- | --- |
| Archive lifecycle, `archive/` | the `archive_operation` row, its progress; the `archive_lease` row | start, page and finish an export; begin, append, activate and discard a restore | holds every writer through the counter coordinator and the write gate; writes rows, counters, backfill state, objects | requests that stall past their lease and resume; failures between four stores; crash in a release; freezes that outlive their operation | holds cover a published operation; the frozen dataset stands still; an activated restore is complete; a discard leaves nothing; ended operations stay ended |
| Write gate, `archive/gate.ts`, `node/runtime.ts` | holds of a process, writes in flight | admit a write, close and drain, open | archive lifecycle, every database write | write admitted just before the close; restart | no admitted write survives the drain |
| Counter coordinator, `coordination/telemetry.ts` | pending, flush-batch and retained rows, idempotency keys, freezes, grants, one alarm | record, readPending, alarm, freeze, thaw, import, discard | time series in the relational store; durable alarm | awaits between clock, prune and transaction; lost answers of the series; windows that must agree to the second | live totals exact; an event counts once; work always has a wakeup; all work is flushed |
| Durable scheduler, `coordination/scheduler.ts`, `adapters/node/coordinator-storage.ts` | `runtime_alarms`: due time, generation, claim | set and delete an alarm; scan, claim, renew, deliver, complete, retry, release; start, stop | calls the alarm handlers of all coordinators | several processes, expired claims, alarms replaced while their handler runs | a wakeup is consumed only by a successful run that began after it was set; run once; run at last |
| Tile generation cache, `status-read-model/tile-generation-cache.ts` | entries, commit attempts, coverage token | prepare, apply, finish, resolve, invalidate | tile ingest commits in the database | attempts that overlap, expire and repair late | an offer is acknowledged only for the newest committed tile |
| Status read model and live sessions, `status-read-model/model.ts`, `status-coordinator.ts` | a projection per season, revisions, two persisted slots, sockets | reconcile, apply a change, subscribe | ingest, sockets | a mutation during a reconciliation, a crash between slots | subscribers see revisions in order and converge to the database |
| Manifest read model, `manifest/read-model.ts` | cached manifests, revision | read, invalidate | status coordinator | invalidation during a read | no stale manifest under a new revision |
| Template alarms, `alarm-watcher*.ts`, `telemetry/alarm-policy.ts` | probes in the database, one alarm, episodes | schedule, run a cycle, evaluate | ingest, relational store | schedule races a running cycle | every probe is looked at |
| Template backfill, `backfill/import.ts` | a job, samples, observations | start, step, cancel, export, import, discard | archive gate, external archive | a retried step; an archive operation beginning | a retry is idempotent; nothing is written under a hold |
| Tile ingest and history, `telemetry/` | blobs, observations, folds | accept a tile, classify, fold | all read models | mostly data processing | each observation is committed once |
| Presence, work regions, `presence-coordinator.ts`, `work/` | sessions, regions with expiry | claim, release, tick | sockets, database | expiry races renewal | a region has one live owner |
| Object storage, `packages/storage` | objects in files or a bucket | put, get, list, delete | archive, ingest | crash between rename and sync | put is atomic |
| Live client, `apps/userscript/src/server-sync-coordinator.ts` | revision and schedule per resource, one socket per server, requested sweeps | connect, apply snapshot or delta, sweep, recover | live sessions, read routes | a delta during a full read, a replaced socket, heartbeat and fallback timers | a client never goes back to an older revision, and catches up |
| Offer delivery, `apps/userscript/src/telemetry.ts`, `tile-offer-acknowledgements.ts` | pending tiles, receipts | offer, upload, acknowledge, retry | tile ingest, tile generation cache | receipts that expire under an answer, coverage that changes | a tile that is not stored is offered again |
| Routes, auth, nodes, tags; the rest of the userscript; frontend; shared packages | request-local, or local to a page | validation, local templates, rendering | all of the above | - | outside these models |

`PROJECT.json` lists the hazards of this code line by line, with the properties
that cover each of them, or why none does yet.

## 2. Modules

| Module | What it is |
| --- | --- |
| `ArchiveOperation` | the archive lifecycle with gate, counter freeze and the stores a restore writes |
| `DurableScheduler` | the portable scheduler, which implements `AlarmPromise` |
| `AlarmPromise` | abstract: what a durable alarm promises to its coordinator |
| `TelemetryCounters` | recording and flushing of counters |
| `TileBlobs` | offers, uploads and garbage collection of the stored bytes of one hash |
| `TileGenerationCache` | the cached generation of one tile, its commits, the manifest and its coverage |
| `StatusProjection` | the status projection of one season, its revision and its persistence |
| `LiveClient` | one client's copy of that projection over a status socket |
| `TemplateAlarms` | the alarm of one template: policy, scan, dismissals and the watcher |
| `TemplateBackfill` | the backfill job of one template |
| `OfferDelivery` | the tile offers of a userscript to one server |
| `MCArchiveOperation`, `MCDurableScheduler`, `MCTelemetryCounters`, `MCTileBlobs` | values and symmetry for TLC |
| `MCWakeups`, `MCReports`, `MCTelemetryState`, `MCImports` | components that share no variable, next to each other in one run; `part` says which of them moves in a behaviour |
| `*Proofs` | theorems, see section 5 |

Definitions named `Mutant` in a comment are plausible bugs; they are used by
no specification, and show that a property notices when a definition is wrong.
`PROJECT.json` maps every other definition to the lines it models.

### ArchiveOperation

`call[c]` is one HTTP request: the step it is at, and its local variables (the
row it read, what it will write). Each await between two accesses to shared
state separates two actions, so two requests interleave wherever the code lets
them.

| Model | Code |
| --- | --- |
| `Acquire`, `Release`, `Age` | `acquireArchiveLease`, `withArchiveLease`, time: `fresh`, then the 15 s margin, then expired |
| `Read`, `Reread`, `ReadHold`, `Insert` | `readArchiveOperation`, `finishPendingRelease`, `holdServer` |
| `CloseProcess` .. `UndoHold` | `holdFor`: `closeProcessWrites`, the two halves of `freeze`, the row check, and the undo |
| `Publish`, `Recheck` | `settleFreeze`, the end of `prepare` |
| `ToReleasing` .. `Reopen` | `releaseServer`, `completeRelease` |
| `BeginImport`, `CheckEmpty` | `prepare`, `occupiedLocations` |
| `ChooseChunk` .. `CommitAppend` | `appendRestoreHeld`: outside stores one at a time, each after its deadline check, then the fenced batch |
| `Claim` .. `SaveProgress` | `discardRestoreHeld`, its claim, its five steps, its saved progress |
| `AdmitRow`, `CommitRow` | an ordinary write through `fencedConnection` |
| `StartRecord` .. `CommitRecord` | `record` and `alarm`: freeze check, `clearStaleFreezes`, admission |
| `CallFails`, `IsolateCrash`, `CountersRestart`, `ProcessRestart` | an await that rejects, a Worker that dies, the counter object or the process restarting |

Abstractions. A store is the set of origins of what it holds: `Live` or the id
of the operation that restored it. The archive is one record of each kind, in
the order export emits them. `Portable` chooses the platform: one process with
a gate, or Workers whose database batches carry a guard. `NoopCounts` says
whether an UPDATE that writes equal values counts as a change. The
`settleMilliseconds` wait and the cached gate reads of other isolates are left
out: a Worker's write is decided by the guard in its own batch. Reading a page
of an export, and the credentials an older release stored, change nothing here.
`late` and `outcome` are history variables: `late` says that a request wrote a
store that has no fence of its own (objects, backfill state) for an operation
whose row had moved on, `outcome[i]` how operation `i` ended.

### DurableScheduler and AlarmPromise

A row of `runtime_alarms` is its generation, how many retries moved its
`due_at`, whether it is due, and its claim. Time is two Booleans, `due` and
`live`, that change at any moment. `Scan`, `PassOver`, `Claim`, `ClaimFails`
are one poll; `HandlerEnds`, `Complete`, `Retry`, `Release`, `Renew` are one
delivery. A handler's own calls of `setAlarm` and `deleteAlarm` are `SetAlarm`
and `DeleteAlarm`, which may happen at any time.

`AlarmPromise` knows nothing of rows and claims: a wakeup asked for is wanted
until a run that began after it was asked for settles it, or its coordinator
forgets it. The refinement maps `asked` to the generation counter, `fate` to the
presence of the row and how the last one ended, and `served` to deliveries that
still own their row.

### TelemetryCounters

`call[a]` is an HTTP call or the alarm handler (`Flusher`). A record reads its
clock, prunes, runs its transaction and arms the alarm; arming is the chain of
`updateAlarm`, whose mutual exclusion is `arming`. The handler prunes, loads or
promotes a batch, appends it to the series, settles it, prunes and arms. The
alarm remembers whether the running handler serves it (`fired`), because a
handler that ends consumes only an alarm that was not replaced.

Abstractions: one template, one event per record, each event worth one, so a
bucket is a number. `placed`, `correct` and `repairs` move together in the code.
`counter_meta`, the count of dropped deltas and the failure count feed no
decision of the model; retry delays are any of none or one unit. Rows of zero
cannot arise from valid deltas, so `pruneZeroPending` has nothing to do.
`foldTelemetryBuckets` moves rows far older than the acceptance window.
A crash ends every call, and a write on its way to the series may still land.

### TileBlobs

`telemetry/tile-blobs.ts`, its statements in `adapters/relational-sql-store.ts`
and the calls of `offerTile` and `uploadTile` in `telemetry/ingest.ts`, for one
hash. Every action is one statement batch or one call of the object store;
expiries of reservations and claims are `Lapse`. `Offer` and `Upload` begin a
request, `ReporterStep` carries it on, `SweeperStep` and `ReclaimStep` are the
garbage collection and the deferred reclaim, `Fail`, `Crash` and `Forget` are a
call that rejects, an isolate that dies and its memory of stored keys. Left out:
the eviction of `storedTileBlobKeys` at 512 entries. `doubtful` marks objects
the properties except: a PUT that outlived its reservation, a legacy object
whose row was revived, and a row that was active before its bytes were there.

### TileGenerationCache

`status-read-model/tile-generation-cache.ts` for one tile, with
`recordObservation` of the ingest, `status-coordinator.ts` and
`manifest/read-model.ts`. `Prepare` and `WriterStep` are a writer that prepares,
commits in the database and applies or finishes; `WriterCrash` ends it,
`Resolve` and `ExpireGeneration` are repairs and expiry, `ChangeTemplates`,
`ManifestStep`, `MissAnnouncement` and `ReadSource` move the coverage and the
manifest under it, `Restart` empties the coordinator. Loading the revision and
the operation on the cache are one turn; so are the save and the load of an
invalidated manifest.

### StatusProjection and LiveClient

`StatusProjection` is `status-read-model/model.ts` for one season with its
revision in the relational store and its two persisted slots
(`status-coordinator.ts`): database commits, reports of a mutation (`Report*`,
`LoseReport`), the serialized reconciliation (`ReconcileStep`), reads, failures
and restarts. `LiveClient` is `server-sync-coordinator.ts` with the template
status of the userscript's `telemetry.ts` and the status socket: broadcasts and
snapshots on the wire (`Broadcast`, `ReadSnapshot`, `SendSnapshot`, `Receive*`),
reads that answer late or fail (`Sweep`, `Poll`, `Answer`, `ApplyRead`,
`FailRead`), sockets that are lost and replaced, a page that is hidden.

### TemplateAlarms

`telemetry/alarm-policy.ts` for one template with its row in the relational
store, the ingest, the scan of `telemetry/fetcher.ts` and the watcher
(`alarm-watcher.ts`, `alarm-watcher-cycle.ts`). `Observe` commits a tile,
`EvaluateStep` evaluates it with its compare-and-set, `Dismiss` is an operator,
`ScanStep`, `HintStep` and `WatcherStep` are the scan, the wakeup hint and a
cycle of the watcher, `ReplaceVersion` a new version of the template,
`AlarmFault` a call that fails. Each tile is one pixel; batch budgets over many
templates and the freshness cutoff of the scan are left out; the watcher's own
publish hint too.

### TemplateBackfill

`backfill/import.ts` for one template: its job, samples and frames. Commands
and steps of one job run one at a time (`blockConcurrencyWhile` on Cloudflare,
the promise chain `exclusive` in `node/runtime.ts`); between their awaits the
template changes, an export reads pages, a move takes the state to another
server, a discard removes it, and calls throw. What a frame shows is an image,
a gap or nothing. `unsaved` and `late` are history variables: an observation
that was counted although its save failed, and a write of a command whose gate
read was older than the export.

### OfferDelivery

The tile offers of `telemetry.ts` and `tile-offer-acknowledgements.ts` in the
userscript, to one server. A connection is its owner: a new status, token or
season makes a new one. `Observe` adds a delivery (also late: its hash may
finish after a change), `FlushBegins` and `FlushStep` are a flush with its
receipts and answers, `ChangeManifest`, `Expire`, `StateChange`, `SetShare`,
`Drop`, `Connect`, `LoadAccount`, `RememberContents` are everything that moves
under it. Left out: seasons, byte budgets, several servers, eviction at
`maxReceipts`, servers that answer without dispositions, paints and status
deltas in answers.

## 3. Runs

| Run | Instance | Shows |
| --- | --- | --- |
| `archive_export` | 2 callers, 2 operations, portable, stalls, process restarts | holds cover, writers drained, frozen dataset stable |
| `archive_restore_stalls` | 2 callers, restore requests, Workers, stalls | restore complete, discard clean, ended for good, live data survives, conflicts real |
| `archive_restore_faults` | 2 callers, 2 operations, Workers, failures and crashes, fair | safe through faults, stale freezes heal while records keep coming |
| `wakeups` | `MCWakeups`: the scheduler with 2 processes, 1 alarm set up to 3 times, 1 retry, stalls, failures, crashes; or one template's alarm with 2 pixel changes, with a fault, or with a replaced version | implements `AlarmPromise`, runs once; the alarm shows a loss, its probe has a wakeup and is decided, evaluations go forward |
| `scheduler_runs` | `MCImports`: 1 process, 1 job at a time, 2 alarms, fair; or a backfill of 2 tiles of 2 snapshots with a second request, a change of the template, or an export and a throw | a due alarm runs at last; the backfill is sound and its job ends |
| `reports_safety` | `MCReports`: 2 callers, 3 events of one bucket, 3 calls, cap 2; or offers with 3 manifests, or with 2 tiles and 2 connections | exact totals, at most once, cap, alarm armed; rejections current, offers kept |
| `reports_arrive` | `MCReports`: 1 caller, 2 buckets, batch of 1, series and database failures, crashes, fair; or 2 observations of one tile, fair | exact up to an unsettled batch, flushed at last; each offer that is not crowded out is made at last |
| `telemetry_state` | `MCTelemetryState`: stored tiles, generation cache, status projection or live client | bytes kept, newest acknowledged, coverage and manifest current, revisions name contents, nothing skipped, published recoverable, clients catch up and never go back; garbage collected, statuses catch up |
| `archive_backfill_leak`, `archive_noop_update`, `counters_stale_clock`, `tile_half_commit` | as small as shows it | the four findings below |

Bounds and why they suffice.

- Archive: every protocol here is between one request that is stale and one that
  is not, hence two callers; a second operation id lets a stale request meet its
  successor. An archive of five records with appends of several sizes puts every
  store alone and together in one append. The theorems of section 5 hold for any
  number of callers and operations, and one of them found what two callers cannot
  show (section 4).
- Scheduler: three settings of one alarm are one being run, one that replaced it,
  and one that follows a deletion.
- Counters: the windows keep the inequalities of the code, with retention
  shortened: a bucket is flushed, rewritten late and pruned, and its key expires,
  within `MaxTime`. At `MaxTime` the clock stands and everything due stays due.
  Three calls are a first record, a repeated or late one, and one that interferes.
- Telemetry state: two reporters of one isolate and one sweep over one generation
  of bytes, two calls, one fault; two commit attempts, one change of templates,
  one mishap around the cached generation; two commits, one change, one failure
  and two attempts of a reconciliation; two revisions and one outage of a client.
  Each protocol is between one actor and the one it overtakes.
- Alarms: 2 changes make a loss and a recovery, or a loss that grows; one client,
  one tile, time up to 3 with delays of 1. Larger instances (two tiles, up to 10
  million states) held outside the runs.
- Offers: three manifests are the fewest in which a rejection can outlive the
  coverage it was made under; two observations of one tile, or of two tiles over two
  connections; two offers in a request and one held offer, so that each limit
  bites; one recent tile where offers must be kept, and both where they must be
  made, since a failed one that is not remembered is given up. Owners and manifests at
  once, and three offers that all are remembered, held outside the runs.
- Backfill: a sample has two tiles of two snapshots, so a step is retried with one
  part done. Instances with three requests or all budgets at once held outside.

Deadlock is not checked: each model has states where its bounds are used up
and nothing more can happen, and the real system is allowed to be idle.

Fairness. `ArchiveOperation`: a coordinator finishes the record, freeze or thaw it
began; no archive request is assumed to arrive or go on. Beyond that,
`StaleFreezeHeals` assumes something the code does not see to, `RecordsKeepComing`:
clients go on recording. A frozen coordinator re-arms its alarm every minute
(`telemetry.ts:452-459`), but only if it had one: `freeze` sets none, and
`reconcileAlarm` deletes it when nothing is pending, as in a restore into an empty
destination. There only the next record drops a stale freeze (`telemetry.ts:128`),
and without one it stays. `DurableScheduler`:
timers fire, polls recur, handlers and statements end; strong fairness of a
successful claim of the oldest due row reflects `ORDER BY due_at`, and excludes
a statement that fails for ever. `TelemetryCounters`: time passes, calls
proceed, a dead coordinator is started again, and the series does not fail for
ever (strong fairness of `Append`). `TileBlobs`: requests and sweeps proceed,
reservations expire, the sweep is a recurring timer. `StatusProjection`: a
reconciliation that began goes on, and a stale projection is read.
`TemplateAlarms`: time passes, the durable alarm's cycles and the scan's timer
recur. `OfferDelivery`: the flush timer fires, and every request and account
read ends, by its timeout at the latest; none is assumed to succeed.
`TemplateBackfill`: the alarm fires, and a step or command that began goes on.
But for `RecordsKeepComing` and the read of a stale projection, no client is
assumed to call.

## 4. Findings

1. **Backfill state survives a discard** (`archive_backfill_leak`). An append
   imports backfill state before its fenced batch stores the templates; if the
   batch fails and the operator discards, the ids to clean come from the empty
   `templates` table.
2. **A conflict that is none** (`archive_noop_update`). MariaDB is connected
   with `foundRows: false`, so saving discard progress that did not change is
   reported as lost. The theorem `ConflictsAreChanges` says that it is the only
   reason: with `NoopCounts`, as on D1, SQLite and PostgreSQL, conflicts are real.
3. **A stale clock loses a bucket** (`counters_stale_clock`). A record reads its
   clock, another call or flush prunes the retained row of the bucket that has
   just expired, and the record's transaction still accepts the late delta; the
   next flush replaces the bucket by the late part. The same window lets an
   event count twice. `CountsExact` and `AtMostOnce` except exactly the buckets
   a record entered after they had expired (`raced`). Calls interleave at
   database awaits on the portable runtime; in a Durable Object they hardly do.
4. **A commit that is lost and done** (`tile_half_commit`). The first statement
   of a commit is refused by a deletion fence on another key of the hash, and the
   commit is answered null; the statements after it ask only for the reservation
   and an active object, and write the reference. With `foundRows: false` every
   commit of bytes that are already known is answered so.

Also seen, and not claimed as findings.

- Archive. The comment at `archive/operation.ts:245` says the freeze stays until
  the row is gone, "so records never slip into a `releasing` operation". With three
  callers they can: a stale `beginRestore` or `startExport` that checks its hold
  while the operation is `releasing` undoes the freeze (`holdFor`), a counter
  record is stored, and a stale discard, whose counter state is still open to
  cleaning, wipes it. The proof of `LiveDataSurvives` as it first stood failed
  there; the property now excepts counters of a row that is releasing, and
  nothing else. A failed thaw in `holdFor` leaves a process gate closed for an
  operation that is gone; `discardRestore` answers true for an operation that an
  activation left `releasing`.
- Counters. A reconciliation that read no work can delete the alarm under which
  the scheduler would retry a flush that failed in the meantime, until the next
  call (`missed`).
- Stored tiles. A legacy object found by an offer can be deleted and then be
  noted active (`tile-blobs.ts:67-72` says otherwise); reserving turns a row that
  is `uploading` active before its bytes are there, and the next upload then skips
  the PUT; a PUT that outlives its reservation is fenced by nothing.
- Generation cache. Attempts that an announcement or a restart forgot can commit
  after a newer one was cached; a commit answered as an error shows its
  predecessor again; a lost announcement with no cached manifest goes unnoticed.
  The properties except these by name.
- Status and clients. A failed mutation report leaves the projection stale until
  its TTL or the next report. A client stays behind until the next broadcast when
  the projection moved without one, when the read that fills a gap fails or is
  dropped as stale, or when a snapshot read before a delta is sent after it
  (`server-sync-coordinator.ts:551-554` says otherwise).
- Alarms. A follow-up refused because its observation lies in the future (client
  clocks up to 300 s ahead) counts as evaluated without consuming the probe, and
  the watcher runs again at once until time has passed. A scan or follow-up may
  judge the counts of a new version under the id of the old one. A loss that the
  scan's own commit found may wait for the next scan.
- Backfill. An observation is counted although its save failed
  (`backfill/import.ts`, line 309 against the comment at 231), so a complete sample
  may lack a frame; a command that passed the routes' cached gate before an export
  may write after the export read its state.
- Offers. A receipt that expires while its flush replays lets a rejection of the
  old coverage settle, until its TTL. While requests fail for ever, a
  tile can starve: as soon as three offers compete and two are of one tile, or
  more tiles than one flush takes, replays in every flush can put those that
  failed before one that was never offered (`Crowded` in `OfferDelivery`, which
  `OfferedAtLast` excepts). An old flush may settle what a new connection holds
  for the same URL, until the next replay.
- Regions (read, not modelled). A `DELETE` whose publication failed is answered
  404 on its retry and never published; a late `PUT` between another one's row
  change and publication goes unnoticed.

## 5. Proofs

`tlapm` checks every leaf. No assumption is made beyond the named `ASSUME`s on
constants, which TLC evaluates in every run; `ConflictsAreChanges` has the
hypothesis `NoopCounts`. Every inductive invariant below was checked by TLC
first, as an invariant of a run. The proofs share one layout: an invariant that
is a conjunction of named parts, one lemma per action or group of actions that
states what the step does to one part, and a theorem that puts them together.

| Module | Theorems |
| --- | --- |
| `ArchiveSafetyProofs` | `TypeCorrect`, `EndedStaysEnded`, `HoldsAlwaysCover`, `AdmittedWritesAreDrained` |
| `ArchiveDataProofs` | `ConflictsAreChanges`, `RestoresAreComplete`, `DiscardsLeaveNothing`, `LiveDataStays`, `ExportsAreStable`, `FaultsAreSafe` |
| `AlarmWorkProofs` | of `DurableScheduler`: `SchedulerTypeCorrect`, `RunsOnceAlways`, `SchedulerKeepsPromise`; of `TemplateBackfill`: `BackfillIsSound` |
| `TelemetryCountersProofs` | `CountersTypeCorrect`, `EventsCountOnce`, `SumsStayExact`, `TotalsExactAndArmed` |
| `OfferDeliveryProofs` | `OffersTypeCorrect`, `RejectionsAreCurrent`, `OffersAreKept`; with the counters: `ReportsTypeCorrect` |
| `StatusProofs` | of `StatusProjection`: `StatusTypeCorrect`, `RevisionsAreNames`, `CommitsAreCounted`, `PublishedIsStored`; of `LiveClient`: `LiveTypeCorrect`, `BehindIsTemporary`, `RevisionsAdvance` |
| `TileProofs` | of `TileBlobs`: `BlobsTypeCorrect`, `BytesStay`; of `TileGenerationCache`: `CacheTypeCorrect`, `NewestIsAcknowledged`, `CoverIsCurrent`, `ManifestIsCurrent`; of both with the statuses: `TypesAreCorrect` |
| `TemplateAlarmsProofs` | `AlarmsTypeCorrect`, `EvaluationsForward`, `ProbesAreSeenTo`, `LossIsShown` |

### Archive

For any number of callers, operations, any sizes of appends, either platform and
any faults, every safety property the archive runs check is a theorem. The
argument is a tower of invariants, each proved with the ones below it.

- `TypeInv`. `TypeOK` is not inductive: `WriteOutside` needs `plan` to be an
  append plan, `Publish` needs `op` to be a row. `Shape` ties each request's
  local variables to its step. One lemma per way a request moves (`GotoOK`,
  `AnswerOK`, `EnterOK`, `PlanOK`, ...) shows that it is kept.
- `EndInv`: an operation ended only after its counter state was closed; ids at
  or above `nextId` have not ended, the row's id is below and not ended. It gives
  `EndedStaysEnded`: `DeleteRow` is the only action that ends an operation, and
  `Insert` the only one that makes a row.
- `CourseInv`: a row only moves forward through its phases (`Leads`); what a
  request read lies on the course of the row that carries its id, so a request is
  current, or behind the row, or its operation is over (`Behind`); and the row
  each step carries fits that step (`OpShape`). `RowStep` says once, for all
  actions, what a step does to the row; the invariants above use it.
- `HoldInv`: the pieces of a hold that a request has taken are in place before it
  drains, per step (`Stopped`); no step that undoes a hold acts for an operation
  that the row holds (`RowHolds`); the ids a stale-freeze cleaner read in an open
  gate never hold again. `HoldsAlwaysCover` and `AdmittedWritesAreDrained` follow
  by the phase of the row.
- `GrantInv`: the grant of the counters follows the phase of the row
  (`Granted`), and a discard past its revocation has revoked (`Asked`).
- `DataInv`: nothing of an operation is in a store before it is ready; an import
  holds what its position says (`Restored`); a discard that releases found its
  stores empty (`CleanOf`); what a stale request may still write is bounded by its
  lease, its fence or its grant, except in the two unfenced stores, where such a
  write sets `late`. `DataStep` says what any step does to the stores. It gives
  `RestoresAreComplete`, `DiscardsLeaveNothing`, and with the type of each step
  `LiveDataStays` and `ExportsAreStable`.
- `LeaseInv`: without stalls the request under way holds the fresh lease and its
  row is current (`Current`), so nothing is late: `FaultsAreSafe`.
- `ConflictsAreChanges` needs only the guard of `Swaps`, and `NoopCounts`; the
  run `archive_noop_update` shows that the hypothesis is needed.

### Scheduler

`RunsOnceAlways` is carried by two invariants. `GenInv`: a row's generation is
the number of alarms its actor set, and no delivery is ahead of the row, neither
in generations nor, within one, in retries; so once a row was replaced or put
off, no delivery matches it again. `RunInv`: while a handler runs for the row as
it is, and its claim did not expire under it, that claim is live and its own; so
`MayTake` fails for everybody else. `SchedulerKeepsPromise` is the refinement,
step by step, with the mapping `sets`, `Fate` and `Served`: `SetAlarm` is `Want`,
which needs `GenInv` (a delivery under way does not own the new row);
`DeleteAlarm` is `Forget`, a claim that starts a handler is `Serve`, a completion
that finds its row is `Settle`: that is where a stale owner, or a run whose alarm
was replaced, would break the promise. Everything else is `Lapse`.

### Counters

For any calls, events, buckets, delays and faults. `EventsCountOnce`: `TypeInv`
gives each call the variables of its step, and `KeyInv` says that a key is
forgotten only after its bucket expired, so that an event counted before is found
again or its bucket is refused. `SumsStayExact` is inductive with `BatchInv` (a
batch stands for what is in flight, and a bucket is in it or not).
`TotalsExactAndArmed` has two halves.

- `CountsInv`: what the model calls accepted is what pending, batch and series
  hold together, per bucket, up to the batch the series already holds. Both sides
  are sums over finite sets (of events, of buckets), which the model writes with
  the folds of the community modules. What such a fold computes is proved here by
  induction without the library's theorems: the sets that a statement is false of
  have a smallest one, whose proper subsets satisfy it (`SubsetInduction`,
  `SumStep`). It gives that a sum exists and is an integer, and moves by what one
  term moves.
- `AlarmInv`: whoever left work undone has the alarm still to set, is setting it,
  or left an alarm that no running handler will consume (`FiredInv`, `ArmInv`).
  The mutual exclusion of the arming chain is what keeps two such promises apart.

### Tile offers

For any tiles, deliveries, limits, lifetimes of the connection, manifests and
expiries. The lists of the userscript are sequences, and most of its operations go
through one with a fold. `FoldTrace` gives what a fold computes a trace, one value
per element, by induction over numbers (`Upward`); a lemma per kind of fold
(`DeleteFold`, `OfferFold`, `SettledFold`, ...) then says that a fold stays in any set
that its steps do not leave. On top of it, one lemma per operation says what it
makes of an outbox, in four relations that chain: `Less` (deliveries go), `Offered`
(tiles are offered), `Settles` (answers are settled), `Fades` (receipts are
forgotten).

`OffersInv` is the inductive invariant:

- the types, stronger than `OffersTypeOK`: no list holds a delivery twice
  (`Lists`), all of them are observed, and an upload that is awaited has its offer;
- `Sound`: a receipt made under the coverage generation of now was rejected by a
  manifest that is no older than the coverage; one in flight will not be rejected by
  an older one, because the answer was made after its start. It gives
  `RejectionsAreCurrent`;
- `HeldWhere`: what is held although a receipt would suppress it is in the hands of
  the flush under way (`HeldLive`, `InHand`), so that every settlement has to let it
  go (`Handled`); and between flushes nothing that is held and covered lacks its
  place in the queue or the timer (`Stuck`). Without the first part the second is
  not inductive: a replay skips what has a receipt, and the tile would stay where it
  is.

`OffersAreKept` is both halves of the property: `Stuck` is empty, and the step that
`FirstDeliveryKept` describes, which the four relations say for each operation (an
eviction takes only what was attempted, because `Trim` chooses from there, and
everything else lets go only of what is in the flush, or not of this connection).

### Stored tiles

`BytesStay`: a reserved generation is active or being uploaded (`ReservedRows`),
an active one has its bytes or is in doubt (`ActiveBytes`), a reference without
an active generation is the first one, to the bytes from before generations
existed (`FirstReference`), and a request between two awaits still knows what it
read (`JobsKept`, `KnownWritten`). `ClaimsAreFree`, a lemma on the way, says
that a claimed generation is never blocked again: the branch of
`claimTileBlobDeletion` that gives a row back is not taken.

### Telemetry state

- `StatusInvariant`: memory and storage agree outside publishing (`MemoryAgrees`),
  both count the commits of their revision (`StorageCounts`, `ScopesRead`),
  storage never lags behind what was handed out (`HandedOut`), what is saved is new
  or is stored already (`SaveDue`), and a revision that a reconciliation committed
  has the fingerprints of the state stored with it (`Fingerprinted`).
  It gives `RevisionsAreNames`, `CommitsAreCounted` and `PublishedIsStored`.
- `LiveInvariant`: no answer, message or read is ahead of the server
  (`NothingAhead`), a socket that is not open carries nothing and will be replaced
  (`SocketReplaced`), and whatever a client misses is on its way or will be asked
  for (`NewsComes`). It
  gives `BehindIsTemporary` and `RevisionsAdvance`.
- `CacheInvariant`: `FencedNow` (every order newer than a held generation is an
  exception of the property or belongs to an open attempt, whose token is current
  or whose request is over), `CoversDue` (no attempt whose token can still be
  compared was classified against other templates than those of now),
  `ManifestFresh`, `TokensMade`, `OrdersCounted`. It gives `NewestIsAcknowledged`,
  `CoverIsCurrent` and `ManifestIsCurrent`.
- `AlarmsInvariant`: `RowTyped` and `SeenTo` (a probe has a wakeup, a hint that was
  lost, or a worker that still sees to it). It gives `EvaluationsForward` and
  `ProbesAreSeenTo`.
- `LossInvariant`: nobody carries a revision that lies ahead (`RevisionsPast`),
  what was counted under the newest revision is true (`NewestTrue`), and whoever
  carries or stored another count has a client behind it that counted the truth
  under a newer revision, or, before it writes, a row that has seen more
  (`WrongOvertaken`). It gives `LossIsShown`.

### Template backfill

`BackfillIsSound`. What a sample and a completed job claim is about all the tiles
before them, so the invariant says what a job in the middle has done: without a
failure every place it has passed was observed (`Observed`), and a snapshot
without a gap so far has counted exactly its tiles so far (`Tallied`). The places
are numbers divided by `MaxTiles`; `DivisionNext`, `QuotientBelow` and
`NothingLeftOver` are the arithmetic that the prover does not know for a divisor
that is a constant of unknown value. A step past its gate still holds the job that
is kept, and an export that began under it has read nothing (`StepFits`): that is
what makes the keys of an archive fit each other (`ExportTrue`), although it reads
them in three pages, and lets a restored job go on (`ImportTrue`). A start or a
cancel admitted before the export is the exception that `late` names.

### Only model-checked

- Every liveness property (`EventuallyRuns`, `StaleFreezeHeals`, `FlushedAtLast`,
  `GarbageCollected`, `StatusCatchesUp`, `ProbesDecided`, `OffersArrive`, `JobsEnd`):
  fairness is out of the prover's reach.
- The properties of the violation runs, `DiscardLeavesNoBackfill`,
  `ConflictMeansChanged`, `NothingHidden` and `NullMeansNoReference`: the code does
  not have them (section 4).

Every safety property of a passing run is a theorem. Where a run puts components
next to each other (`MCReports`, `MCTelemetryState`), `EachReports` and `EachBehaves`
show that each behaves as its own specification says, so their theorems hold there.

## 6. Plan

Done: all modules of section 2 with their runs, and the theorems of section 5.
Left, most important first.

1. Region claims: the presence room and the claim router, whose publications and
   retries section 4 describes.
2. The paints of the userscript, next to its tile offers.
3. An abstract archive lifecycle (open, exporting, restoring, discarding) which
   `ArchiveOperation` implements.

Not modelled, with the reason in `PROJECT.json`: routes, auth, nodes, tags and
templates (validation and single statements), the archive format and command line
(parsing, digests), object storage (a put and a delete are atomic in these models),
rendering, local templates, page integration, frontend and schema packages (no
protocol state). Most of the repository is of that kind, image data and query text;
the models are of the parts where several actors meet.
