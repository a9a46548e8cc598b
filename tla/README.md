# tokenleader in TLA+

tokenleader counts what a team spends on coding assistants. A daemon on every
machine reads the assistants' session logs and posts usage events to one server,
which keeps them in SQLite and serves a leaderboard. Around this path there are a
server-side import from Cursor and one on each machine, a watchdog that keeps the
daemon alive, a self-update through a mirror of release binaries on the server, a
queue of remote directives, alerts about machines that fell silent, and the
tables that say which machine may post as whom. Everything in this directory is
translated from the TypeScript under `src/src/daemon`, `src/src/server` and
`src/src/parser`; paths below are relative to `src/src`.

What is established, in short:

- **Model-checked:** shipping loses nothing and counts nothing twice; every
  answer the dashboard and the API give is the answer over the rows, also out of
  the cache; neither import from Cursor leaves usage behind; a Codex call is
  billed once; directives, the watchdog, the self-update, the mirror, the alert
  sweep and the identity tables keep the promises listed with each module below.
- **Proved for all parameters:** shipping implements the ledger; read offsets never
  pass an event the server lacks, and no unread record is hidden (for builds that
  only move forward); rollup, latest timestamps and count are exact, every answer is
  that of the rows, and no frozen answer in the cache is outdated; what the Cursor
  watermark of the server covers is imported, and so is what the watermarks of a
  machine leave behind, but for what a login's month walk cut off; a directive
  leaves the server once per queueing, and one recorded as executed was; the
  watchdog decides against no daemon at work that can write its heartbeat, and
  kills none it did not tell to stop; a sweep restarts no working daemon, whatever
  interval it reports at; what is at a machine's `execPath` runs, and is missing
  only if somebody removed it; the mirror's manifest has its binaries; the identity tables
  agree, a kicked secret stays out, and a revocation hits the machine that was chosen;
  a read of a Codex rollout that is right at a line bills its call exactly and is right
  at the next.
- **Divergences:** one run ends in a counterexample to a comment of the code (a user's
  costs differ between two pages). Others were found on instances that no run repeats:
  two sweeps that page the same, a watchdog that stops a daemon whose disk is full, a
  repair that meets an update, a login that moves the watermark past usage nobody
  fetched. The section of that name has them and what else was met.

## The system

| Part | State it keeps | Operations | Where it is hard |
|---|---|---|---|
| Poll tick, offsets, transport (`daemon/tick.ts`, `state.ts`, `transport.ts`; `/ingest`) | `state.json`: mtime and offset of each log, rescan generation; the same in memory; the batches of a flush | list, stat, parse, post, adopt, save, rescan | logs grow while read; lost, late and refused requests; a kill between any two steps; builds of different parsers on one state file |
| Parsers, slice reading (`parser/`) | totals, model and offset carried per Codex file | read windows, parse a slice | running totals, replays, forks, window boundaries |
| Event store (`server/db.ts`) | `events`, `events_roll_day`, `events_roll_dirty`, `cachedCount` | `insertMany` with Cursor reconciliation, repair, audit, rebuild, windowed reads, clears | deltas and recomputation of one cell in one transaction; day boundaries computed twice; a clear that is not a transaction |
| Statistics, pricing, API v1 (`server/main.ts`, `api-v1.ts`, `pricing.ts`, `category.ts`) | response cache, price map, companies and categories | `/stats*`, `/api/v1/usage`, category routes, price refresh | every writer must know which cached answers it outdates; four ways to price a group |
| Cursor mirror (`server/cursor-mirror.ts`) | watermark (in `server_meta` and memory), resume page, pending maximum | tick, page loop, insert, watermark, reset | pages of a moving list over several ticks; clears and restarts at any await |
| Daemon-side Cursor sync (`daemon/cursor-sync.ts`, `cursor-token.ts`, `cli.ts`, `parser/cursor-*.ts`) | cloud and local watermarks and a resume page in `state.json`; token and credential files | full, incremental and month walks, session refresh, local fallback | daemon and CLI write one file; pages shift; sessions expire in mid-walk |
| Directives (`server/db.ts`, `server/main.ts`, `daemon/directives.ts`, `watchdog.ts`) | `pending_directives`; what each executor holds | enqueue, re-queue, claim, ack; execution | two channels per machine compete; answers are lost after the claim |
| Heartbeat and watchdog (`daemon/heartbeat.ts`, `watchdog.ts`) | heartbeat, exit journal, update marker, `watchdog.json` | heartbeats of the loop; one run: account, compare, latch, signal, heal, save | decisions from samples; pid reuse; sleep; lost runs; long downloads |
| Daemon loop (`daemon/main.ts`) | failure count, timers | tick, check-in, update, directive, sleep | its exits: signal, recycle, clock drift, swap |
| Self-update and rollback (`daemon/update.ts`, `endpoint-override.ts`, `watchdog.ts`) | binary, `.new`, `.prev`, endpoint override | check, download, verify, swap, restart, migrate, roll back, repair | a death between renames; daemon and watchdog write the same files |
| Binary mirror (`server/binary-mirror.ts`) | manifest, binaries and gzip copies on disk | refresh, verify, promote, compress | half-done swaps; a compression that outlives what it compresses |
| Fleet sweep (`server/fleet.ts`) | state and flag streaks, alerts | classify, page, queue heals | deduplication across sweeps; stale snapshots; webhooks that fail |
| Identity and devices (`server/db.ts`, `server/main.ts`, `daemon/secret.ts`, `install-script.ts`) | `user_secrets`, `user_devices`, link codes; the secret on a machine | claim, reclaim, link, revoke, uninstall, clears | late requests; kicked machines; a row and its devices written apart |
| Page views, ranges, configuration, branding | a small buffer | look-ups | little |
| HTML, install script, other CLI commands, plists | none | generated text, one-shot edits | little |

How they meet: the daemon loop runs a tick, checks in, looks for an update and
executes a directive, in that order, and writes its heartbeat along the way. Each
batch of a flush and each check-in may bring a directive back, and is what the
fleet sweep and the identity tables see of a machine. The watchdog reads only
files and launchd, talks to the server last, and shares with the daemon's updater
the binary and its `.new`. On the server everything runs on one thread: handlers
interleave only at an `await`, of which the Cursor mirror has one for each page,
the binary mirror one for each file, and the sweep one for each page it sends.

`PROJECT.json` lists the hazards of this code by line, with the property that
watches each or the reason why none does.

## Modules

### `Ledger` and `Shipping`

`Ledger` is the promise: tools log records, logs may be deleted, the server
counts. Only logged, acceptable records are counted, each once, none is
un-counted, and a countable record that stays on disk is counted in the end.

`Shipping` is the code path. A log is the sequence of its records, a record its
dedup key. `StartTick`, `StatFile`, `ParseFile`/`ParseFails`, `EndScan` are the
scan of `tick.ts`; `SendBatch`, `BatchAcked`, `AttemptFails`, `PostFails` the
loop of `postEvents` and `postBatch`; `SaveState` adopts, prunes and persists;
`Start` loads and applies a pending rescan. Around them `AppendRecord` and
`DeleteFile` (the tools), `LateIngest` (a request its sender gave up on),
`Sigterm`, `Exit`, `Crash` and `Deploy` (another build). A record has the first
build generation whose parser emits it (`MinGen`), which is what
`RESCAN_GENERATION` exists for.

Abstracted: what a record contains; bytes (an offset counts records, and a
partial last line is a record not yet appended: `ReadSlice` has the bytes); an
absent `FileState` and one reset by a rescan, which behave alike; the carry state of
a Codex file (`Codex` has it). Left out: Cursor's two sources inside the tick and
the second writer of `state.json` (`CursorSync` has them, for the Cursor part of the
file); the server's admin clears and its reconciliation of Cursor rows, which do
un-count (`EventStore` has them). A cursor transcript that is skipped because the
cloud is in use is like a log whose parse keeps failing.

| Property | Says |
|---|---|
| `OffsetsCovered` | behind every offset, in memory and on disk, each record is with the server, refused by it, or of no interest to that build |
| `NothingHidden` | a log that will not be opened again because its mtime is current has been read to its end |
| `RefinesLedger` | every step is a step of `Ledger` or leaves it alone |
| `Delivered` | the ledger's liveness: what stays on disk is counted in the end, once the installed build parses it, also if an earlier build has read past it |

### `ReadSlice` and `Codex`

`ReadSlice` is `readNewlineLines`: a file is the set of its newlines' offsets and
its size, and what the windows yield is a sequence of parts. `TerminatedRecords`
is the reference, which reads the file whole.

`Codex` is the parser of a rollout that is still being written. A line carries
what the parser reads of it and, as history, what the API really billed.
`parseCodexFile` is a fold over the parts of a read; `Tick` a read whose events
reach the server and whose state is saved, `TickLost` one whose save fails,
`Rescan` the loss of the file's state. `LogCall`, `LogReplay`, `Seed` and the
others are Codex itself, external: totals and per-call usage in the combinations
the parser has branches for. Output stands for the reasoning tokens too.

| Property | Says |
|---|---|
| `WindowsExact` | reading in windows gives every terminated record whole and once, and leaves the offset at its end |
| `BilledOnce` | a call is billed once, for what the API billed: through replays, forks, resets, rescans and reads that stop anywhere; save the two calls around a reset no counter shows (see Divergences) |
| `NeverMislabelled` | a call made after the log named a model is stored under that model |

### `RollWindow` and `EventStore`

`RollWindow` has the arithmetic: the day of a timestamp in JavaScript
(`rollDayOf`) and in SQLite (`rollDaySql`, with SQLite's truncating operators),
and the split of a window into whole days and two slivers (`rollWindow`).

`EventStore` has the table, the rollup, the invalidation queue and the cached
count. A cell's sums are modelled by what is in them: how many times each event
has been added under each day; all the sums of a cell follow from that, and an
event added twice, never, or under the wrong day shows. `maxTimestamp` is kept
apart (`latest`) because a maximum cannot be taken back. `insertMany` is one
transaction: the deletion of local Cursor rows inside the span of the incoming
cloud rows, the insert that skips conflicts, the upserts, the repair.
`clearFull` is three steps with a possible `Crash` between them, and `Boot`
audits. The model's audit compares event by event; the code compares per-user
totals of the columns (`db.ts:864-908`), so a difference that cancels out would
escape the code and not the model. The properties hold before any audit is
needed except after a death inside `clearFull`, where whole tables are gone.

### `Stats`

`Stats` extends `EventStore` with everything that is answered from it. `rollSource`
is the one source of all numbers (rollup and slivers), the operators under "The
statements" the `GROUP BY`s of `db.ts`, those under "The routes" what `main.ts`
and `api-v1.ts` make of them. A cost is two sums: what was charged at a row's own
cost, and what was charged by the price list. The response cache is a sequence of
keys: a body is a function of the rows, so an entry need not keep one.
Each writer (`Ingest`, `MirrorInsert`, `RollupAudit`, the clears, the category
routes) performs its step of the store and then invalidates what the code
invalidates.

| Property | Says |
|---|---|
| `SumsExact` | a serving store's rollup sums exactly the rows of the table, each under its day, and nothing is queued |
| `LatestExact` | each cell's latest timestamp is that of its latest row, deletes included |
| `CountCovers` | the cached count is never short of the table |
| `StatsExact` | every route, under every filter and grain, answers from the rollup what it would answer from the rows of the window |
| `FrozenKept` | no step leaves an answer in the cache as "frozen" that would now be another |
| `CostsReconcile` | a user costs the same on every page; violated |

`CountCovers` is one-sided on purpose: rows that a cloud batch supersedes are not
taken off the cache, so `/health` can over-report until the next restart or clear.

### `CursorMirror`

Cursor lists usage newest first, in pages; events are numbered in that order.
`StartTick` is a tick up to its first await, `GetPage` one page up to the next
await, ending in `Truncate` (page limit) or `Complete` (watermark moves).
`PageFails`, `InsertFails`, `MarkFails` are the three ways a tick fails. `Clear`
is `/admin/clear` with scope all or full, `ClearUser` with scope user or
reset-user (which leaves the watermark alone), `CrashInClear` a death between
the deletion and the reset.

| Property | Says |
|---|---|
| `WatermarkCovered` | what the watermark covers is in the table, but for rows that were imported and then removed in a way that leaves the watermark |
| `Imported` | every mapped event is imported in the end, again after a clear of all |

The rows both properties exempt are in `forgotten`: removed with one user, or by a
clear that a tick in flight or a death between clear and reset got across. That
those are not imported again is contrary to what `main.ts:2483` intends.

### `CursorSync`

The same usage as the daemon and the CLI of one machine collect it. A walk
(`StartWalk`, `fetchFilteredUsageEvents`, `postBatch`, a save) is a record of the
process that runs it; its kind decides window and page limits, its basis is the
state it was started from. The session token and the credential file are two
pieces of state, because refresh and login write them one after the other.
`disk` is the Cursor part of `state.json`, read and written by both processes at
the points the code does. A login walks the month whether or not the backfill is
done (`runLoginCursor`); what such a walk puts behind the watermark without having
fetched it is collected in `cut`, a history variable.

| Property | Says |
|---|---|
| `NothingSkipped` | once the backfill is done, what the watermarks on disk leave behind (what is older than the next incremental window) is on the server, whoever wrote them last and from whichever copy, or is in `cut` |
| `Imported` | while the session is accepted or can be refreshed again and again, all usage is imported, or is in `cut` |
| `MonthsSkipNothing` | a month walk leaves nothing behind; the code does otherwise (Divergences) |

### `Directives`

One user's queue, several machines, two channels each. `takeDirective` is the
transaction that re-queues and claims; `Serve` is the answer it rides on;
`BatchAnswered`, `CheckinAnswered` and `WatchdogCheckin` are the three places it
arrives, each with its failure, and `LateRequest` serves a request nobody waits
for. `Execute`/`Acknowledge` and `WatchdogExecute`/`WatchdogAck` are the
executors; a restart acknowledges first and then exits. `HealSweep` is the fleet
sweep's deduplicated restart.

| Property | Says |
|---|---|
| `HandedOnce` | a directive leaves the server once, and once more after its re-queue |
| `AckedWasRun` | what is recorded as executed was, by that channel, on the machine it was for, and a verb of the watchdog's was run by the watchdog |

### `Watchdog`

Time is counted in watchdog intervals (120 s) and each stored timestamp is kept
as its age up to the limit the code compares it with. The daemon is a loop of
modes (`boot`, `wait`, `tick`, `update`, `resume`, `wedged`, `down`), with a
heartbeat wherever the code writes one; `resume` is the stretch after an update
that installed nothing, without marker or heartbeat. A watchdog run is two steps,
`Decide` (everything up to the decision) and `Act` (signal, heal, save), because
the daemon goes on between them; `RunDies` loses the first. `OnTime` is the
assumption that a daemon which works writes often enough: at least once in
`TickRuns` runs, or `UpdateRuns` while it downloads.

Any write of the heartbeat may fail (`WriteFails`): the file stays as it is and the
daemon goes on, with the outcome of its ticks in memory (`beat`); `unwritten` is that
the last one failed. Writes of the other files do not fail in the model.

Left out: forensics, the spool of failed check-ins, self-clean. The rollback of a
fresh binary and the repair download are in `SelfUpdate`.

| Property | Says |
|---|---|
| `WarnedFirst` | SIGKILL is only meant for a process that got SIGTERM |
| `HealthySpared` | a run decides against a process only if it has wedged; the exceptions are two of updates and a heartbeat whose last write failed |
| `UnwrittenSpared` | a daemon that ticks but cannot write its heartbeat is not told to stop; the code does otherwise (Divergences) |
| `OutageEnds` | a daemon that is down, whatever launchd thinks of its label, or wedged after it wrote a heartbeat works again, unless the fuse has blown |

The exceptions of `HealthySpared` are real: a marker that expired by wall clock
because the machine slept, the interval after a failed update, and a full disk
(Divergences: `UnwrittenSpared`). A process that wedges before its first heartbeat reached the
disk is only observed (`watchdog.ts:430` wants the heartbeat's author), so
`OutageEnds` says nothing of it.

### `SelfUpdate`

One machine. A file is the build it holds; every await of `checkForUpdate` ends a
step (`checkManifest`, `download`, `verifySha`, `verifyBinary`, `unlinkPrev`,
`linkPrev`, `swap`), and `Die` may come between any two. `migrate` is the endpoint
override that rides on the manifest's header. The watchdog's `maybeRollback` and
its repair of a missing binary (`repairCheck` to `repairSwap`) work on the same
files. `Remove` and `Reinstall` are hands on the machine. Of the 60 minutes in
which a binary is fresh only the end is kept (`WindowEnds`). With `Tamper = FALSE`,
as in `SelfUpdate_machine`, hands stay off the binary while an update or repair is
under way; with `TRUE` they do not (Divergences). `removed` remembers that the binary is
missing because somebody removed it.

| Property | Says |
|---|---|
| `AlwaysRunnable` | what is at `execPath` is a whole binary that prints its version, and nothing is there only from a removal by hand until the next binary is put in place; what a rollback would put there runs too |
| `Converges` | if the manifest stays at a build that works, the machine ends with it, whatever happened before |
| `Migrates` | if the operator's header stays what it is, the daemon ends at that server |

### `BinaryMirror`

A refresh as its chain of awaits, with the manifest last; the compression that
`start` leaves running is a second process. Bytes are the number of the release
they were built for, and of modification times only the order is kept that
`getBinaryGzip` asks for.

| Property | Says |
|---|---|
| `ManifestLast` | a new manifest appears only over the required binaries of its own release |
| `CopiesTrue` | a gzip copy taken for fresh is of the binary beside it, until a restart |
| `ManifestCatchesUp` | when the latest release stays, the mirror ends with its manifest |

### `Fleet`

One device. The machine and what is true of it are apart from what the server has
heard: rows of two channels, with ages in units of the bars. `classifyDevice` is
the decision table; a sweep is `begin` (the snapshot), `visit` (everything until a
page is awaited) and `recordFleetAlert` or `webhookFails`. Orders are the verbs
that `hasRecentDirective` would find. A running daemon reports at its own interval
(`Interval`, what `tickIntervalS` reads), which knows nothing of the server's bars,
and up to `Missed` of its check-ins are lost in a row.

| Property | Says |
|---|---|
| `OnePage` | what pages for a state excludes what pages for a missing watchdog |
| `WorkingNotRestarted` | no restart is queued for a daemon that has run for longer than a sweep may wait, while no three of its check-ins are lost in a row and it was heard within a unit of its start |
| `NoDoublePage` | one (device, state) is not paged twice inside its window; with sweeps that overlap the code does otherwise (Divergences) |
| `SickIsPaged` | what stays broken is paged, after failed webhooks, suppressions and restarts |

### `Identity`

One handle and its machines. Secrets and link codes are numbered. A handler has
no await, so it is one action; a request may be late. Installer, uninstaller and
CLI are what machines do; the admin's clears are actions, with the deaths inside
those that are not one transaction (`clearUserSecretDies`, `clearFullDies`).

| Property | Says |
|---|---|
| `RowAgrees` | the handle's row has the secret of an active device, and says uninstalled exactly when there is none |
| `BarredStaysOut` | a kicked secret authenticates again only by using up a link code |
| `NamedIsRevoked` | the CLI bars the machine that was chosen from the listing and no other |
| `HandleRevives` | a handle without a machine goes to the next that posts, unless that was kicked |

`RowAgrees` exempts what follows an admin link of a kicked machine to an
uninstalled handle (`strayed`, see Divergences); `NamedIsRevoked` the time after
`full`, which makes ids start again.

## Runs

| Run | Instance | States | Shows |
|---|---|---|---|
| `Shipping_ships` | two logs of one lister, one of which may get a second record; three keys (one invalid, one only for the second of two builds), batches of two, one crash, one late request; fairness | 280,000 | the five of `Shipping` |
| `Codex_rollout` | up to three lines after a fork's seed or none, two models, three usages, windows of two bytes, one unsaved tick or rescan | 240,000 | the three of `Codex` |
| `Stats_answers` | six events around three midnights of days of four ticks, two users, one key in two versions, a time before 0; batches of three; three cached requests, cache of one | 17,000 | the five of `Stats` |
| `Stats_costs` | the same | | `CostsReconcile` violated |
| `CursorMirror_walks` | six events, pages of one, two pages a tick, one crash, two clears at any await; fairness | 70,000 | `WatermarkCovered`, `Imported` |
| `CursorSync_walks` | four events, a month that begins at the third, `OVERLAP` 1, pages of two, walks of one or two pages, one of expiry, command or crash; fairness | 604,000 | `NothingSkipped`, `Imported` |
| `Directives_machines` | two machines, one directive of either kind, its TTL and re-queue, one late request | 382,000 | `HandedOnce`, `AckedWasRun` |
| `Watchdog_ladder` | two pids, runs on time or three intervals late, one lost run, corrupt file or spell of failing writes; fairness | 836,000 | the four of `Watchdog` |
| `SelfUpdate_machine` | three builds (one crashes, one does not start), two servers, two changes of the manifest, one mishap; fairness | 192,000 | the three of `SelfUpdate` |
| `BinaryMirror_refresh` | two releases, a required and an optional asset, two changes, one failed swap, one restart; fairness | 124,000 | the three of `BinaryMirror` |
| `Identity_devices` | two machines, two upsets, one reset, one `full`; fairness | 708,000 | the four of `Identity` |
| `Fleet_sweep` | one device with a watchdog, an interval of two units against floors of one, two check-ins lost in a row, two upsets, pages awaited for one unit; fairness | 518,000 | `OnePage`, `WorkingNotRestarted`, `SickIsPaged` |

`TypeOK` is checked in the runs of `Shipping`, `CursorMirror`, `Directives`,
`Watchdog`, `SelfUpdate` and `Fleet`. It is defined in the other modules too, says
there what the variables are, and holds on the same instances.

**Bounds.** Shipping: three records are one more than a batch holds, so that the flush
of a start without state under the second build is of two batches, and the first may
be accepted and the second not. One log gets a record behind another, also between
stat, parse and save; the record behind is parsed by the second build alone, which
finds it in a log the first has read past. Of the two logs one may fail to parse while
the other is read. One crash leaves memory and disk, or disk and server, apart. There
are fewer invalid records than a batch holds: a batch of nothing but invalid
rows is refused with 400 and blocks what is behind it, a hazard that is listed and
not checked. Codex: three lines are a call, its replay and a third that shows what
was kept; a seed brings its own; two of the usages differ in the written tokens
alone, so that a reset can show in no counter but that one; a window of two bytes is
smaller than some lines and larger than others. Stats: one event on each side of each midnight that
matters, both kinds of cost under one model string, batches of three so that two
cloud rows span a local one. Cursor mirror: pages of one and two pages a tick make
walks of several ticks whose pages shift. Cursor sync: four events on pages of two,
one page a tick, make the backfill stop half way and its pages shift; a month that
begins at the third and an overlap of one leave a login room to pass one that was not
fetched, so that `cut` is not empty. Directives: `MaxTime` 5 with `TTL` 2 spans a directive's
first window, the re-queue and the second expiry. Watchdog thresholds keep the
order of the code's (a tick well inside the staleness threshold, that inside the
update grace, that inside the marker's life) at a fraction of their size; two pids
allow reuse; a spell of failing writes may last for ever; the count of stale runs stops at the
highest threshold (`LastRung`). SelfUpdate: a build that works, one that
crashes and one that does not start are all the kinds there are; two changes lead
away and back. BinaryMirror: a release that loses its optional asset and gets it
back is two changes. Identity: two machines, because every property is about one and
another. Fleet: a breakdown and one more upset (a repair, a second breakdown, a
failed page, a restart). With floors of one unit and an interval of two, a bar that
did not follow the interval would take every other unit of a healthy daemon's
silence for a wedge.

**Deadlock** is checked except in `Codex_rollout` and `Identity_devices`, where
all lines are written and read, and all bounded upsets used up, in the end.

**Symmetry** (machines) is used in `Directives_machines`, which has no liveness.

**Fairness.** Shipping: the loop steps and the supervisor restarts it (weak); a
lister, the parse of a given log, and a batch with a given record may fail any
number of times but not for ever (strong), which is what retrying every tick
amounts to. Nothing is assumed of saves, signals or late requests. Cursor mirror
and sync: the timer fires; a page asked for again and again is got, also together
with the insert after it. Watchdog: launchd runs it (`StartInterval`) and respawns
what it keeps alive (`KeepAlive`), and a run ends; nothing is assumed of the
daemon, which may stay wedged, ignore SIGTERM or crash. SelfUpdate: the supervisor
respawns, the loop goes round, the watchdog runs; a manifest, a download, a write
that is tried again and again succeeds at last. BinaryMirror: the timer, and each
fetch tried again and again. Identity: a running daemon posts and its posts
arrive. Fleet: time passes, and not before what the timers of machine and server
would do first; suppression ends.

## Divergences

One run shows a disagreement between code and comment:

- **Costs** (`Stats_costs`). `main.ts:2407` says `/stats` reconciles stored and
  derived costs as `/stats/admin` and `/stats/leaderboard` do. `/stats/admin` adds
  what rows without a cost of their own come to (`main.ts:1045-1065`, `1143-1150`);
  `/stats`, `/stats/leaderboard`, `/stats/timeseries` and `/api/v1/usage` drop
  those of a group that has any stored cost. `api-v1.ts:69` calls itself "identical
  to /stats/admin".

These are stated in the modules (or follow from a constant) and TLC finds them
violated on the instances named; no run repeats them:

| Statement | Instance | What happens |
|---|---|---|
| `Shipping!OffsetsCovered` | `Shipping_ships` with `AllowRollback` TRUE | `applyRescanGeneration` (`daemon/state.ts:94`) leaves a newer generation alone: an older build put back reads on past records it does not parse, and the newer one does not rescan when it returns (`docs/updating.md:51`) |
| `Directives!LaterOnesStayQueued` | two directives, two batches, one machine | what a flush does not keep "arrives on a later tick's response" (`transport.ts:434`); it has been claimed and comes back after 24 hours at the earliest |
| `Watchdog!UnwrittenSpared` | `Watchdog_ladder` | `heartbeat.ts:58` has the server alert "instead of the watchdog killing a healthy daemon that merely can't write" (`docs/resilience.md:206`). The watchdog knows nothing of failed writes: to `watchdog.ts:425` the file is stale and its author alive, and it sends SIGTERM |
| `SelfUpdate!AlwaysRunnable` | `SelfUpdate_machine` with `Tamper` TRUE | if the binary is removed while the daemon downloads an update, a watchdog run repairs it into the same `execPath.new`, without a lock. One of them smoke-runs its download (`update.ts:651`), the other overwrites it, and what is renamed was run by nobody |
| `CursorSync!MonthsSkipNothing` | `CursorSync_walks` | `login-cursor --auto` walks the month (`cli.ts:304`) after the backfill too. More than the overlap into a month, its watermark is past the end of the month before, which no tick had fetched; `cursor-sync.ts:136` thinks that only an incremental walk could skip |
| `Fleet!NoDoublePage` | `Fleet_sweep` with two sweeps | the timer (`main.ts:2602`) does not wait for the sweep before, and the webhook's `fetch` (`fleet.ts:503`) has no timeout. A sweep that hangs there for five minutes is overtaken, and both page what neither has recorded yet; `fleet.ts:103` says never twice within the window |
| `Watchdog!LatchHolds` | `Watchdog_ladder` with `UnlatchFresh` 2 | `watchdog.ts:397` asks for 30 minutes of fresh heartbeats; the anchor may be from before the crash loop, and one boot heartbeat is enough |
| `Watchdog!UpdateSpared` | `Watchdog_ladder` | `update.ts:572` widens the deadline "for the duration"; after a download that failed the count that built up is judged by the normal threshold, and the daemon is terminated |
| `BinaryMirror!RestoredIsServed` | `BinaryMirror_refresh` | an optional asset that is added to the same release again is never fetched: its manifest was mirrored already (`warnUnservableManifestEntries` says daemons retry "until the asset is restored") |
| `CursorSync!CountedOnce` | `CursorSync_walks` with `LocalEnabled` TRUE | a fallback after the backfill leaves local rows beside cloud rows of other times; the comment at `tick.ts:205` has it "avoid double-counting" |
| `Fleet!FusedIsPaged` | `Fleet_sweep` | a crash loop classifies as CRASH_LOOPING, which does not page, before DEGRADED is looked at, also once the fuse has blown (`ALERT_STATES`) |
| `Fleet!DarkIsPaged` | `Fleet_sweep` with `HasWatchdog` FALSE, four upsets | a device that came back and went dark again while sweeps were suppressed is born dark once more and its window never ends (`BORN_DARK_SLOP_MS`) |
| `Identity!AuthedNotUninstalled` | `Identity_devices` | a kicked machine that redeems an admin's code on an uninstalled handle authenticates while the row still says uninstalled (`main.ts:1668`) |

Met while modelling, and part of the models' behaviour:

- A batch of nothing but duplicates removes superseded local rows and drops no
  cached answer (`main.ts:1757`, the mirror likewise); a price refresh drops none
  either. `FrozenKept` exempts both. An answer of `/stats/admin` also carries
  unwindowed parts (recent events, last event, uninstalled handles), which a
  self-reported uninstall leaves cached.
- Between the link to `.prev` and the rename both names are one file, so a rollback
  there changes nothing; after a rollback the old build's first check downloads the
  same bad release again, once per window.
- A swap of the mirror that fails half way, followed by a "latest" that moves back,
  leaves the manifest of one release over binaries of another until the next release.
- A fork's seed that two reads share would be billed (`codex.ts:119` argues that it
  is written in one burst); two prompts of one millisecond in two reads collide; a
  reset that no counter shows is invisible, and if it moved the written tokens alone
  it passes for a replay, so that their counter is not noted and the next call, if it
  is logged by its cumulative counters, is split wrong between plain and written
  input (its sum is right); prompts before the first turn keep the
  fallback model.
- `clearFull` that dies leaves devices without a handle; `clearFull` and
  `reset-user` leave directives, flags and link codes; the uninstaller tells the
  server before it stops the daemon, so that a last batch may claim the handle again
  (`install-script.ts:1434`, `docs/daemon.md:157`).
- After suppressed sweeps a state's clock still runs from when it was first seen,
  and it pages at once; a device revoked in mid-sweep still pages.

## Proofs

Assumptions are those named in the modules, which TLC evaluates on each instance.

`ShippingProofs`

- `TypeCorrect`: `Spec => []TypeOK`. `TypeOK` is inductive; one step for each
  action, with lemmas for what they share.
- `LinkedCorrect`: `~AllowRollback => (Spec => []IInv)`. `OffsetsCovered` alone
  is not inductive: nothing in it says that what a tick is about to adopt is
  accounted for. `IInv` adds that. `GenOrdered`: memory holds what the running
  build wrote or rescanned, the disk nothing newer. `Within`: states lie within
  the logs, and a current mtime means a complete read. `Covered`: behind an
  offset a record is settled or, for the pending states of a tick, collected.
  `TickAccounted`: what was collected is with the server, refused, or unsent, and
  only a tick with nothing unsent gets to the save. TLC checked the strengthened
  invariant before it was proved.
- `OffsetsCorrect`, `HiddenCorrect`: both properties follow. Without
  `~AllowRollback` the first is false (see Divergences): `GenOrdered` is the conjunct
  that fails.

- `LedgerCorrect`: `Spec => RefinesLedger`, without an assumption about builds. One
  step for each action of the ledger: an append is a `Log` (`AppendLogs`), a batch
  the server takes a `Count`, a deletion a `Forget`; all else stutters. `SentInv` says
  what makes a batch countable: whatever a tick collected, left unsent or has on the
  wire was logged, and parsed by a build there is.

- `ReadCorrect`, on an instance of `Codex` with its own variables: for any models,
  usages and sizes of reads, `parseCodexFile` bills line by line what the API billed.
  `LineExact`: a read that is at a line with the right state (`At`) bills the call of
  that line once, with its own tokens and under the model of its turn, bills nothing
  for a copy, a replay or any other line (`Exact`), and is right at the next line.
  `Started`: a first read is right at line 1. `Resumed`: a read that ends behind a line
  outside a fork's seed leaves what a later one needs to be right there, provided the
  model on file, which is kept while none is known, is a model. `At` is what a
  read knows: the counters of the line before, the model last named, whether it is
  still in the seed. It needs to know what a rollout may look like, and `RolloutInv` is
  that invariant of `Spec`: what may follow which line (`Follows`), and that a torn
  line, once it is finished, is such a line. Each of Codex's actions has a step, and
  each kind of line a lemma. TLC checked both the invariant and the step on small
  instances before they were proved.

`StatsProofs`, first on `EventStore`, which `Stats` extends

- `DaysAgree`: `rollDaySql(t) = rollDayOf(t)` for every integer `t` and positive
  day length. From the uniqueness of quotient and remainder, by the sign of `t`.
- `WindowPartition`: interior and slivers split a window, for all ends.
- `SumsCorrect`: `Spec => []SumsExact`. The invariant adds that a store that is
  up has an empty queue; the upsert lands on the day the rebuild would use
  because of `DaysAgree`, and a repaired cell holds what a rebuild puts there
  whether or not the batch's delta was added first.
- `LatestCorrect`: `Spec => []LatestExact`. A cell's timestamp is the greatest of a
  finite set (`HighestExists`, by least counterexample); `LatestUnion` gives that of
  two sets from those of each, which is the upsert. `LatestInv` adds what a boot
  relies on: it keeps the timestamps it finds when the sums are right, so the two
  must have been written, or cleared, together.
- `CountCorrect`: `Spec => []CountCovers`, from the cardinality of a union.

Then on `Stats`

- `ImplementsStore`: `StatsSpec => Spec`, the statistics implement the event store.
  One step for each writer: what it does to the store is a step of the store.
- `StatsSums`, `StatsLatest`, `StatsCount` follow.
- `AnswersExact`: `StatsSpec => []StatsExact`. `SourceExact` puts the interior, read
  from exact cells, and the slivers together by `WindowPartition`; a body is a
  function of the source.
- `FrozenCorrect`: `StatsSpec => FrozenKept`. A step that changes the rows or the
  groupings either clears the cache or is an ingest; `BodySteady` says that an answer
  is that of the rows of its window, `BatchElsewhere` that a batch which an entry
  survives lies outside it, `EntriesKept` that what survives was there before.

`SelfUpdateProofs`

- `UpdateTyped`: `Spec => []TypeOK`, one step for each action.
- `RunnableCorrect`: `Spec => []AlwaysRunnable`, if `Tamper = FALSE`: a binary is
  missing only after a removal by hand, and what is there runs. The property is
  not inductive: what `swap` renames must still be what was verified. `OneWriter`
  adds it: the daemon downloads over a binary that is there, the repair where there
  is none, so `execPath.new` belongs to one of them at a time, and past its smoke
  test each has a build that boots. With `Tamper`, a binary removed in mid-update,
  the two meet (Divergences).
- `MirrorTyped`, `CopiesCorrect`, `ManifestCorrect`, on an instance of `BinaryMirror`
  with its own variables: `TypeOK`, `CopiesTrue` and `ManifestLast`, from
  `MirrorAssumption`. `Downloaded` says that in a download what is not left to fetch
  is in its temporary, and in a swap what is not left to rename is in place, with
  the required assets among them. `OneGzipper` says that before a restart only the
  refresh compresses, after its swap, and reads what it writes beside.

`IdentityProofs`

- `IdentityCorrect`: `Spec => []IdentityInv`, with no assumption on constants. The
  tables change by five operations; a lemma for each says what it makes of the
  active devices. `Tabled`: an id is one device's and was drawn before. `Numbered`:
  the number `tokenleader revoke` holds still means the device it was read from,
  until `full` makes ids start again.
- `RowCorrect`, `BarredCorrect`, `NamedCorrect`: the three safety properties of the
  identity run follow, from the invariant and, for the last two, from what each step
  does to the table. That the oldest device exists, to which the row is turned, is
  well-foundedness of the naturals.

`DirectivesProofs`

- `HandedCorrect`, `AckedCorrect` (and `TypeCorrect`): from `DirectivesInv`.
  `HandedOnce` bounds how often a directive left; inductive is that the two stamps of
  its row count it exactly (`Counted`). `AckedWasRun` needs what is under way:
  an executor holds only what was meant for it and its channel, and an
  acknowledgement, in its hands or late on the wire, is of something it ran.

`CursorMirrorProofs`

- `WatermarkCorrect` (and `TypeCorrect`): `Spec => []WatermarkCovered`. `MirrorInv`
  says of every event not newer than the unfinished walk's maximum that it is stored,
  in the hands of the tick, or on a page ahead (`Walked`); of the watermark in memory
  and of the times the tick does not ask for what the property says of the
  one on disk (`Covered`); that no time kept is newer than the listing (`Beyond`);
  and that a failed insert goes back to a page the tick has not passed (`Resumable`).
- `SkippedCorrect`, on an instance of `CursorSync` with its own variables:
  `Spec => []NothingSkipped`, from `SyncAssumption` alone. What a login's month walk
  cut off counts as kept (`Kept`): between the window a tick would have asked for from
  the same state and the month, `cut` has it (`BehindKept`). The property speaks of the
  state on disk, and daemon and CLI each write there what they made of a copy they
  loaded earlier, so `SyncInv` says of every copy, in a file, in memory or at the base
  of a walk, what makes it safe to write (`Good`). `Settled`: once the backfill is
  done, what lies more than `OVERLAP` before the watermark is kept, and the window of a
  resume page begins no later than that. `ResumeOK`: what the backfill passed before
  its resume page is kept or will be asked for again. Of a walk, `WalkPassed`: what its
  window has on pages it passed it holds, or it is kept, or it lies within `OVERLAP` of everything that could become the watermark; and
  between POST and save, what is not in its batches any more arrived (`Walking`). An
  old copy stays good while the other process goes on (`GoodGrows`, `WalkGrows`):
  rows are only added, and the listing only grows by what is later than an event or
  late by at most `OVERLAP` (`Late`), so that a known event moves to later pages
  (`PageGrows`). That the account has usage when the machine is set up (`Init`) is used:
  a backfill that found nothing would leave no watermark.
- TLC refuted a first version of the property on an instance larger than the run's. It had also called left
  behind what a truncated incremental walk has passed in its resumed window; an event
  that is listed late on such a page is met by the window after it, which is what
  `Behind` allows now.

`WatchdogProofs`

- `WarnedCorrect`, `HealthyCorrect` (and `TypeCorrect`): from `WatchdogInv`. A pid that
  is alive and in the heartbeat is that process's (`Author`), so what is remembered of
  it is about this process unless it wrote since, and then the next run forgets. `Told`
  says so of the SIGTERM on record, `Counted` of the unchanged runs: no more than the
  runs the daemon has been silent, which a tick or an update bounds, as long as its
  last write of the heartbeat succeeded.

`FleetProofs`

- `PageCorrect`: `Spec => []OnePage`: a device whose watchdog is missing is in no state
  that pages (`QuietState`).
- `WorkingCorrect`: `Spec => WorkingNotRestarted`, with any number of sweeps and any
  interval, above or below the floors of the bars. `HeardInTime` is where the bars'
  scaling is used: three intervals fit under `lateThreshold`, which is as long as a
  daemon can be silent that loses two check-ins. `Heard` links three clocks: a snapshot
  is no older than its sweep, and a daemon that has run longer than the sweep was heard
  inside its bar when the snapshot was taken.
- `TypeCorrect`: `Spec => []TypeOK`: each age stays within the cap of what it is
  compared with, and a sweep is idle, has a snapshot, or has a page on its way.

What stays with TLC: liveness and anything about ENABLED, which the prover does
not reach (`Delivered`, `Imported`, `OutageEnds`, `Converges`, `Migrates`,
`ManifestCatchesUp`, `HandleRevives`, `SickIsPaged`); and the three of `Codex`, which
are about what folds over the parts of a file compute, an induction over data: of
`BilledOnce` and `NeverMislabelled` the base and the step of that induction are proved
(`ReadCorrect`); the fold that strings the lines together, the ledger, and
`WindowsExact` are left to TLC. Every
other safety property of a run has a theorem. Filters of sequences
(`SelectSeq`) are not open to the prover either: where a proof needs one, the model
says it with sets (`entriesAt` in `Stats`, `first` in `BinaryMirror`).

## Not modelled

Page views (a bounded buffer nobody else reads); ranges, configuration and
branding (parsing and formatting, no state); the HTML of dashboard and admin page;
the shell text of installer and uninstaller beyond what it does to a machine's
identity; field extraction of the Claude parser and the Cursor transcripts;
forensics, spool and self-clean of the watchdog; the payloads of directives;
price arithmetic. Each of the modules names at its head what it leaves out.

## Plan

1. *Done:* the modules above, and the proofs listed.
2. *More proofs:* facts about one read of `ReadSlice` that need no induction.
3. *More of the system:* the transcript index and a second writer of log offsets in
   `Shipping`; two handles in `Identity`; several devices in one sweep of `Fleet`;
   page views.
