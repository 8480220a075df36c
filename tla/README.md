# Warpbox in TLA+

Warpbox serves a TorBox library (torrents and usenet downloads) over WebDAV. It
keeps a SQLite copy of the library's listing, fetches CDN links on demand and
proxies the bytes. The program is one Go process with a few long-lived
goroutines, one goroutine per HTTP request, and mutexes, channels and a database
between them. What can go wrong in it lies in that sharing, and this directory
models it: TLA+ modules that follow the code statement by statement where the
order matters, TLC configurations for small instances, and TLAPS proofs of what
holds for every instance.

Paths are relative to `src/`; `get.go`, `server.go`, `actions.go` are in
`internal/server/`, `sync.go` and `store.go` in `internal/metadata/`, `queue.go`
in `internal/throttle/`, `client.go` in `internal/torbox/`, `main.go` in
`cmd/warpbox/`, `filter.go` in `internal/library/`, `config.go` in
`internal/config/`.

## Inventory

| Component | State it keeps | Operations | Talks to |
|---|---|---|---|
| Throttle (`queue.go`, wired in `main.go`) | one `Limiter.lastCall`; per queue a channel of 1024, counters, `callWindow` | `Enqueue`, `processLoop`, `Limiter.Wait`, `Record429`, `Stats` | GET handlers and sync send requests; `Execute` calls the TorBox client |
| TorBox client (`client.go`) | nothing but the 429 callback | `listGeneric` (pages, page retries), `GetDownloadURL`, `IsRetryable` | called from queue loops; calls `Record429` of both queues, for the account query at startup too |
| Metadata store (`store.go`) | `files` table, `meta.sync_tag`, AUTOINCREMENT | `UpsertFile`, `PruneBySyncTag`, `SetCDNURL`, lookups by path | written by the sync and by GET handlers |
| Metadata sync, one cycle (`sync.go`, `syncOnce`) | `syncing`, last status | snapshot, two listings, tag, upserts, prunes, hooks | sync queue, store, hooks, `OnSyncDone` of the server |
| Sync loop life cycle (`sync.go`) | `cancel`, `loopDone`, `parentCtx` | `Start`, `runLoop`, `Stop`, `Restart`, `SyncNow` | `main.go` starts it, two POST actions restart or resync |
| Negative cache and circuit breaker (`get.go`, `server.go`) | `negativeCache` per file, `torrentFailures` per item id | `fetchCDNURL`, `isTorrentStale`, `getCDNURLWithRetry`, `recordTorrentFailure`, `clearTorrentFailure`, two sweeps, prune after a sync | request queue, API health window |
| CDN proxy (`get.go`, `server.go`) | semaphore `cdnSem`; per request: attempt, status sent | `streamFileContent` with its repair loop, `handleGetCDNHang` with its poll loop | store, `fetchCDNURL`, the CDN, the client |
| Byte ranges and sizes (`get.go`, `store.go`) | `files.size` | `parseRange`, the labels of a response, the size from a 416 | CDN, store, client |
| API health (`server.go`) | slice of the outcomes of one window | `recordOutcome`, `globalDegraded`, `requestdlHealth` | fed by every TorBox and CDN call; read by the breaker and the landing page |
| Listing (`propfind.go`, `get.go`, `store.go`) | none | PROPFIND and GET on directories, virtual paths | store, filters |
| HTTP browser (`http_browser.go`) | none | the same tree with totals | store, filters |
| Filters (`internal/library`) | none | pattern, size, KeepLargest | listing |
| Configuration (`config.go`) | the YAML file, `LevelVar`, the level shown | load, validate, `UpdateLogLevel` with the POST action around it | start-up, landing page |
| Logs (`logs.go`) | ring buffer | append, read | `/logs` page |
| Landing page, auth, CSRF, health check, OpenAPI | CSRF token | render, check | everything, read-only |
| Statistics (`internal/metadata/stats.go`) | append-only samples | record, downsample, read | landing page |
| Hooks, process set-up (`main.go`) | none | run a command with a timeout; signals | sync |
| `dbinspect` | none | read-only queries | database file |

What is hard in each, and what makes it correct:

* **Throttle.** Two loops share one `lastCall` and sleep outside its mutex; a
  loop can be preempted between its slot and its call; the channel can be full;
  cancellation can come anywhere. Correct: the collective rate holds, requests
  are executed once and in order, nobody is turned away, statistics are exact
  although they are trimmed lazily and recorded on two queues.
* **Store and sync.** A sync is minutes long, not a transaction, and can fail or
  be killed at each statement, while GET handlers write to the rows it upserts
  and prunes, by ids they read earlier. Correct: the library follows the
  successful listings and only those; a file that stayed upstream keeps its row;
  a URL never lands in another file's row; syncs exclude each other and end.
* **Sync loop.** Restarts run in goroutines of their own, may overlap, and give
  up waiting for the old loop. Correct: no two syncs at once, a stopped loop
  ends, what goes on can be stopped, and something goes on.
* **Breaker.** Its decisions are spread over critical sections of several
  goroutines, with deadlines that no fetch is bound to. Correct: probes a lock
  apart, quarantine only for the failures of one id, and recovery when the API
  recovers.
* **CDN proxy.** Two loops with many exits share a semaphore; a status line can
  be sent only once; clients leave at any moment. Correct: slots are conserved,
  one status, no error page as file data, everybody ends or is served.
* **Byte ranges.** The handler promises bytes by the size in the store, the CDN
  sends them by its own, and the URL may be another item's. Correct: whenever
  the sizes agree the client gets exactly what its header means.
* **API health.** The window is trimmed when something is recorded and read at
  other times, by two readers. It decides whether failures are held against an
  item. Correct: the readers see exactly the last window, and an outage that
  fills it escalates nothing.
* **Paging.** A listing is many requests with an offset against a list that
  moves, and what it omits is deleted. Correct: it errs by no more than the
  changes during it.
* **Listing, filters and browser.** One tree computed by several loops and
  queries, level by level. Correct: what is listed is served, the levels lead to
  exactly the files of the view, both interfaces show the same.
* **Log level.** One file, one temporary name, two copies in memory, no lock.
  Correct: the file is always one that the program can start from, and the three
  places agree.
* **Log buffer.** A ring. Correct: the newest lines in order, before and after
  it wraps.

## Modules

| Module | Models | Composes |
|---|---|---|
| `Throttle` | both queues, loops, limiter, callers, 429 callback, statistics | |
| `ThrottleProofs` | theorems about `Throttle` | extends it |
| `MetadataStore` | the `files` table and counters; each statement an operator | |
| `SyncWorker` | `syncOnce` in several goroutines, GET handlers' cached URLs, crashes, TorBox's content | extends `MetadataStore` |
| `SyncWorkerProofs` | theorems about `SyncWorker`: types, mutual exclusion, cached URLs | extends it |
| `SyncMirrorProofs` | theorems about what the syncs leave in the library, the refinement among them | extends `SyncWorkerProofs` |
| `LibraryMirror` | the abstract promise of the sync | refined by `SyncWorker` |
| `SyncLoop` | loops, `Stop`, `Restart`, `SyncNow`, shutdown | |
| `SyncLoopProofs` | theorems about `SyncLoop` | extends it |
| `CircuitBreaker` | negative cache, trackers, callers, sweeps, prune | |
| `CircuitBreakerProofs` | theorems about `CircuitBreaker` | extends it |
| `CdnStream` | both streaming loops and the semaphore | |
| `CdnStreamProofs` | theorems about `CdnStream` | extends it |
| `ApiHealth` | the health window and its two readers | |
| `BreakerHealth` | the breaker with the real window, outages, other calls | extends `CircuitBreaker` and `ApiHealth` |
| `BreakerHealthProofs` | theorems about `ApiHealth` and `BreakerHealth` | extends `BreakerHealth` and `CircuitBreakerProofs` |
| `Paging` | `listGeneric` against a library that changes | |
| `Listing` | both queries on paths, filters, PROPFIND, GET, browser | |
| `RangeProxy` | `parseRange`, promises, size corrections, alternatives, syncs | |
| `LogLevel` | the log-level action, file names and inodes, crashes, start | |
| `LogBuffer` | the ring of log lines | |
| `Parts` | the five modules before, one per behaviour | instantiates `Paging`, `LogLevel`, `LogBuffer`, `Listing`, `RangeProxy` |
| `PartsProofs` | theorems about each of the five, and about `Parts` | extends `Parts` |
| `MCThrottle`, `MCSyncWorker`, `MCSyncLoop`, `MCCircuitBreaker`, `MCBreakerHealth` | constants for TLC | extend the above |
| `MCBreakerClaims` | what two comments claim of the breaker, with the histories they are stated by | extends `MCCircuitBreaker` |
| `MCHandlers` | both ways in which a GET can wait, one per behaviour | extends `CdnStream`, instantiates `CircuitBreaker` |
| `MCParts` | constants for TLC, and the throttle as one more part | extends `Parts`, instantiates `Throttle` |

Conventions. An action is what the code does between two points where another
goroutine can interfere: a critical section under a mutex, one SQL statement,
one channel operation, one HTTP exchange. Goroutines are functions from a set
of names to labels (`pc`, `spc`, `rpc`, ...). History variables are declared
last, under the word "History", and no guard reads them. Mutants (`...Reusing`,
`...Unguarded`, ...) stand before the definition they deviate from and are used
by no specification; they are the bugs against which the properties were
tried.

### Throttle

`items` is the channel, `pc[q]` where `processLoop` of queue `q` stands, `cur[q]`
its request, `lastCall` the limiter's. `Receive` is the `select`; `WaitGrant`,
`WaitSleep`, `Wake`, `WaitCancelled` are `Limiter.Wait`, one iteration of its
critical section at a time; `Drop` and `Execute` the check of `ctx.Err()`;
`HTTPCall`, `HTTP429`, `Mark1`, `Mark2` what `Execute` does to the API and the
callback's two `Record429`; `UserInfo429`, `UserInfoMark1`, `UserInfoMark2` the same
for the account query of `main`, which passes by the queues; `Account` the block under `q.mu`. `Stats429` is
`throttleStats` of the landing page. The clock ticks between any two steps, so
preemption is everywhere. Execute's result reaches its caller before the
accounting, as in the code.

### Metadata store, sync, library mirror

A file is its natural key. `id`, `tag`, `url` are columns as functions of files
(`id = 0`: no row); `nextId` is AUTOINCREMENT's counter. The `url` of a row is
written as the file whose URL it is, since `tryCDNFallback` may find the URL of
an alternative. `SyncWorker` has one action per statement of `syncOnce`, each
with its error path (`Snapshot`, `Fetch`, `ReserveTag`, `Upsert`, `Status`,
`PruneSource`/`PruneEnds`, `Hooks`, `Finish`), one goroutine of the periodic loop
and one of the resync button, handlers that read an id (`Lookup`), ask for a URL
(`FetchURL`) and write it (`CacheURL`), and `Crash`, which keeps only the
database. `LibraryMirror` says what all that is for: a library that moves, source
by source, only towards the latest successful listing; `SyncWorker` implements it
with `library <- Rows`, `listing <- answered`.

### Sync loop

Loops are numbered as they are created; a context is named by the loop that runs
under it and a channel by the loop that closes it. `Stop` is the critical section
of `Stop` (cancel, forget the function, take the channel), `StopReturns` and
`StopTimesOut` the `select`, `Install` and `SkipInstall` the second critical
section of `Restart`. A sync is entered and left (`LoopEnters`, `LoopLeaves`,
`Resync`, `ResyncLeaves`); what is inside is `SyncWorker`'s.

### Circuit breaker

Deadlines are ticks left, so time is unbounded and the state finite. A caller
goes through `fetchCDNURL`: `NegativeHit`/`NegativeMiss`, `Skip`/`Admit`
(`isTorrentStale`), `CallSucceeds`/`Retry`/`CallFails`/`WakeUp`
(`getCDNURLWithRetry`), `Downgrade`, `Record`, `Remember`, `Clear`, each a critical
section of its own mutex. A fetch may take any time: nothing in the code bounds
what it waits for in the queue, at TorBox and between its retries by a window of
the breaker. `CDNRefuses` is the entry that the streaming loops make when the CDN
refuses a file for good or has it in another size. `recordTorrentFailure` reads `globalDegraded` twice
under the trackers' mutex, first to downgrade the failure (`Downgrade`), then to
choose the window (`Record`); the verdict may change in between, other holders of
the mutex wait (`Unlocked`). `SweepNegative` and `SweepBreaker` are the cleanup loop,
`PruneTrackers` and `PruneNegative` `PruneBreakerForMissingItems`. What TorBox
answers and what `globalDegraded` finds at each of its readings is chosen freely
here; `BreakerHealth` has what decides them.

Trackers belong to ids, and `IdOf` may give several items one id, as the two
sources do (`get.go:495`): `QuarantineEarned` and `ProbesSpaced` speak of ids, and
hold for any `IdOf`. What the comments say of single torrents and single probes
is stated in `MCBreakerClaims`, and refuted there.

### CDN proxy

Labels follow `streamFileContent` ("resolve" to "streaming") and
`handleGetCDNHang` ("hang" to "sleep"). The CDN's answer is picked from
`Answers`, each standing for what the code tells apart: failed request, 403/404,
429/5xx, 416, other refusals, text bodies, media. `status` and `body` are what
reached the client. A client may leave at any moment; a request to the CDN then
fails, but `AcquireCDNConn` and the other steps do not notice, as in the code.

### API health, and the breaker with it

An outcome is the ticks it has left in the window; it stays in the slice at 0
until `RecordOutcome` trims it. `GlobalDegraded` and `RequestdlHealth` are the two
readers, `TrueHealth` the same figures from a full account of the last ticks.
`BreakerHealth` replaces the free Boolean of `CircuitBreaker` by the verdict:
every requestdl attempt is recorded by the client (`ClientCounts`) and again by
the server (`ServerCounts`) before it is acted upon (`Answered`), other calls are
recorded by `OtherCall`, TorBox answers an item by its `mood` and can fail as a
whole (`Outage`). Items do not change while an attempt is between its two
recordings. An outage of errors inside a 200 is one of successes to `Client.do`,
so `LongOutageNeverEscalates` is about outages of other kinds (`AllFail`).

### Paging

`library` is what TorBox has, newest first; `Arrive` and `Leave` change it between
any two pages. `Page`, `PageRetried`, `BackoffEnds` and `GiveUp` are the loops of
`listGeneric`, `all` and `offset` its variables.

### Listing

A path is a sequence of names. `ListDir` and `GetFileByPath` are the two queries,
each with its own choice among the rows of a path. LIKE is modelled by what it
does to names: `Rest`, `Alike` and `AlikeStart` say which names it confuses and
what `TrimPrefix` leaves of them. `Apply` is the filter of a mount on the rows of
one directory; `Propfind`, `Get` and `Browse` the handlers. The id of a row is its
number among the rows of its path: the queries tell them apart by their order
only. LIKE is modelled name by name, so a `%` in a name and a `_` that matches a `/`
(`store.go:218`) are outside the model, and the rows do not change between a
listing and the GET that follows it. `ListedIsServed` leaves out listings of a directory whose name LIKE takes
for another's in the table; what they show is among the divergences below.

### Byte ranges

Responses are the bytes they promise and those they carry. `ParseRange` is the
code's, `Asked` what RFC 9110 has a header mean, but that a range whose first byte
lies after its last asks for nothing: the code refuses it, where RFC 9110 would
have it ignored. `Redirect` is WebDAV's answer to a request without a range when a
URL is cached, which `/http` proxies (`Cached`). `Fetch` may get the URL of an
alternative with another size, `Correct` is what both 416 paths write, `Sync` what
`UpsertFile` writes over it.

### Log level and log buffer

`config` and `tmp` are file names that refer to inodes, `fd` the inode a request
has open, so a rename takes a file away from under a writer as it does on disk.
Each system call of `os.WriteFile`, `os.Rename` and `os.Remove` is a step, and reading,
opening, writing and renaming may fail.
`LogBuffer` has `Handle` and `Lines`, each under the mutex, and the delegation
after it.

## What the runs show

Passing runs:

| Run | Instance | Shows |
|---|---|---|
| `throttle` | 3 requests (2 on a queue with a channel of 1, 1 listing of up to 2 calls), the account query, 429s, cancellation | `ExecutedInOrder`, `StatsWindowExact`, `Stats429Exact`, `EveryRequestAnswered` |
| `sync` | 2 syncers, 3 files of 3 items and 2 paths, 2 syncs, 2 changes upstream, 1 failure, 1 crash, batches of 1 | `OneSyncAtATime`, `CleanSyncMirrors`, `RemovalsGenuine`, `StableRowsKept`, the refinement `MirrorsListings`, `SyncsEnd` |
| `sync_url` | 1 syncer, 1 handler, 3 syncs, failing upserts | `URLServesPath` |
| `sync_loop` | 2 restarters, 1 resyncer, 4 loops | `OneSync`, `LiveLoopIsCurrent`, `StoppedLoopsEnd`, `SyncsGoOn` |
| `breaker` | 2 callers, 2 items of one id with a file each, threshold 2, one retry, retryable item failures | `ProbesSpaced`, `QuarantineEarned` |
| `health` | 1 caller, 1 item, window of 2 ticks, 3 samples to judge by, outages and broken items | `HealthExact`, `LongOutageNeverEscalates` |
| `handlers` | `CdnStream`: 2 handlers, 1 file with an alternative, 1 slot, 1 repair. `CircuitBreaker`: 2 callers, 1 file, transient failures | `SlotsConserved`, `OnlyMedia`, `OneStatus`, `LeaversEnd`, `SlotsServed`, `PollersRecover` |
| `parts` | `Paging`: pages of 2, 4 items, 2 added, 2 removed, 2 failures. `LogLevel`: 2 requests, 2 levels, a full disk, a crash. `LogBuffer`: 2 writers, 3 lines. `Listing`: 2 items, tables of up to 3 rows over 6 paths, three of their directories with confusable names, two filtered mounts. `RangeProxy`: 1 client, sizes up to 2, an alternative, a sync. `Throttle`: 2 + 2 requests, rate 2, clock to 2 and as far as sleepers need | `ListingErrsByChanges`, `LevelPersisted`, `LinesExact`, `TreeExact`, `ListedIsServed`, `ViewsAgree`, `RightSizeServesExactly`, `SlotSpacing`, `StartSpacing` |

`parts` and `handlers` check several modules in one run. They share no variable, so
`part` of the modules `Parts` and `MCHandlers` (and `pacing` of `MCParts`) picks the one
that takes steps, and the others stay as they were at first: the states are the
sum and not the product. In `handlers` that needs care with fairness, which is that
of the module whose steps are taken.

Most runs check a `TypeOK` too (`TypesOK` in `parts`), which carries the resource
bounds (the channel's capacity, the longest quarantine, the attempts).

Why the bounds are enough. Two goroutines of a kind are where interference starts,
and the code treats all alike. The throttle needs four requests for `StartSpacing`
to say anything (two may be held back) and a channel of one fills with two. A sync
that corrects another needs two; two changes let a file go and come back; a
failure and a crash can fall on any statement, and `MaxFailures = 1` still lets
every statement fail in some behaviour. Batches of one make every prune a loop.
Four loops are the first one, two restarts and one more. In the breaker a
threshold of two, a window longer than one quarantine and a lock of two ticks keep
every order of the deadlines possible, and since a fetch may take any number of
ticks, every window may pass during it. Two items of one id are what a tracker
may be shared by. In `health` the window is longer than one tick, so outcomes
leave it while a failure is being recorded, and three samples are two outcomes of
one attempt and one more; `Room` has nothing new be asked while the window holds
three outcomes or more, which keeps the slice finite without leaving an attempt
that is under way unrecorded. Two changes of each kind move a page
boundary both ways. Three rows are two of one path or two of one item with one
more, which is where the queries and `KeepLargest` have to choose. The paths are
`show/b`, `show/s2/c`, `show/s2/d`, `show 2/b`, `show_2/a` and `x`: one of the
directories' names is the beginning of another and one matches another as a
pattern, so files stray into each other's directories, without the name of anything
there; `AlikeStart`, both at once, is left empty. In the breaker an `int64` of 4
bits (`IntBits`) has the shift of the escalation overflow. Sizes up to 2 have the
empty file, ranges within, up to and beyond the end. A ring of three wraps twice
within the lines asked for. `CHECK_DEADLOCK FALSE` stands in every configuration
because each system may stop: all requests answered and the loops waiting, the
bounds used up, the process told to shut down.

Runs that end in a violation, each a claim of the documentation or of a comment
that the code does not keep:

* `sync_upsert` (`StableRowsKept`): an upsert that fails is logged and skipped
  (`sync.go:372`); the row keeps its old tag and the prune of the same sync
  deletes it, against `sync.go:422-429`.
* `sync_restart` (`RestartReplaces`): `Restart` holds the mutex twice; two
  requests that overlap each launch a loop, and the cancel function of the first
  is lost. Both loops go on until the process ends (`sync.go:149-169`).
  `LiveLoopIsCurrent`, which passes and is proved, says the overlap is the only
  way to get there.
* `breaker_probe` (`ProbeExclusive`): the 15 s lock that a probe is given
  (`get.go:475`) has no relation to what it may take in the throttle queue, at
  TorBox and between its retries (`get.go:584-658`). When it has expired the next
  caller becomes a second probe beside the first, against the comments at
  `get.go:453-455` and `get.go:474` and against `docs/tech-spec.md:247`. What the
  lock does guarantee is `ProbesSpaced`, which passes and is proved.
* `breaker_shared` (`TrackerOfOne`): trackers are keyed by the item's number alone
  (`get.go:495`), so a torrent and a usenet download of the same number count into
  one, against `server.go:55`, while the negative cache, and `get_test.go:249`,
  keep the sources apart. `QuarantineEarned`, which passes and is proved, is what
  the failures of one id are held to.

Divergences known from reading the code and from TLC, without a run here (the
properties above are stated so that they hold next to them):

* Throttle. `main.go:112` says the limiter paces "the start of every TorBox API
  call" and `docs/tech-spec.md:54` calls it a "true collective cap", but the pages
  of a listing and their retries are all sent under the one slot of the queue's
  request (`client.go:205`).
* Sync. The removal hook is not called when the store is empty after the sync
  (`sync.go:452`), against `docs/tech-spec.md:534`, nor after a crash between
  prune and hooks.
* Paging. An item that stayed upstream can fall between two pages when another
  leaves (`client.go:255`), and the prune deletes its rows until the next sync,
  against `sync.go:424-429`. `ListingErrsByChanges` bounds it: one item for each
  that left.
* Breaker. A failed probe renews the quarantine only if enough of the older
  failures are still in the window (`get.go:525`), against
  `docs/tech-spec.md:272`; with the defaults (5 failures in 10 minutes) that ends
  with the first quarantine of 10 minutes or more.
* Breaker. A caller in its retry loop does not look at the breaker again
  (`get.go:584`), against `server.go:55-57` and the comment at `get.go:454`.
* Breaker. `base << escalations` overflows: once an item has escalated 64 times
  its window is back at the base for ever (`get.go:530-540`), against the comment
  at `get.go:483-489`, by which a permanently broken item "stops being hammered".
  `TypeOK` and its proof cover the arithmetic: no window is ever longer than the
  base, the cap or the lock, whatever the shift yields.
* Health. While the successes from before an outage fill more than a fifth of the
  window, the outage escalates items (`server.go:631`), against
  `docs/config-tuning.md:129-130`. `LongOutageNeverEscalates` is what remains.
* Health. One broken item fills the window with its own failures where little
  else is called, counts as an outage and never escalates (`get.go:508`), against
  `docs/tech-spec.md:270`.
* Health. The verdict can change between its two readings for one failure, which
  is then labelled dead while the API is degraded (`get.go:530`), against
  `get.go:487-489`.
* Health. A requestdl attempt is counted twice (`client.go:483`, `get.go:606`),
  where `CHANGELOG.md:16` speaks of every call at the raw HTTP level.
* CDN. After the last repair of a 403 the negative cache gets an entry, but the
  URL stays in the row and is tried again first (`get.go:302`), against
  `docs/tech-spec.md:297`.
* Ranges. A range that ends beyond the file is refused and not clamped
  (`get.go:1063`), against the comment at `get.go:927-930`; a corrected size is
  overwritten by the next sync (`store.go:200`) and may be that of an
  alternative's file (`get.go:274`), against `docs/ARCHITECTURE.md:51`; a CDN that
  answers a range with 200 has its first bytes sent on as those of the range
  (`get.go:371`), against `docs/tech-spec.md:310`.
* Listing. `LIKE prefix%` has a directory list what is left of the names of its
  namesakes: `film` shows ` 2` for `film 2` (`store.go:218`), against
  `store.go:212`. `largest_file_only` goes by the directory listed, so inside a
  folder an item may show a smaller file (`propfind.go:121`), against
  `docs/tech-spec.md:897`. PROPFIND on the path of a file answers as for a
  collection, and the totals of `/http` at the root ignore size bounds.
* Log level. Two requests share the temporary file, so one can rename it just
  after the other has emptied it, and they can write the file in one order and
  set the running level in the other (`config.go:545`, `actions.go:94`), against
  `config.go:484-485` and `actions.go:96-97`. `LevelPersisted` says what holds
  without overlap, and that the file is whole again after it; that the file may be
  without content while requests overlap is not excluded by any property.

## Fairness

Every liveness property rests on the scheduling of goroutines (weak fairness of
their steps) and on time passing; nobody is assumed to send requests, change the
library, press a button or leave.

* `Throttle`: weak fairness of the clock, of each loop and of each caller's
  `Enqueue`. Cancellation is excluded in the property: a request dropped at
  shutdown is never answered.
* `SyncWorker`: weak fairness of `SyncStep`; a listing ends by the client's
  timeouts and retries, so no step waits for ever.
* `SyncLoop`: the same, and strong fairness of `LoopExits`: the loop's `select`
  picks among ready cases at random, so a done context is not passed over for
  ever. Nothing is assumed after the shutdown, when `syncOnce` may wait for a
  result that the queue dropped.
* `CircuitBreaker`: weak fairness of time and of each fetch, `Poll` included
  (the hang loop's timer).
* `CdnStream`: weak fairness of each handler's steps (exchanges end by
  `CDNProxyTimeoutSeconds`), strong fairness of getting a slot: a Go channel
  serves its waiters first come, first served, so a slot that comes free again
  and again reaches each of them.

## What is proved

`ThrottleProofs`, for all requests, queues' contents, rates and buffer sizes,
from the named assumptions on the constants in `Throttle`:

* `TypeCorrect`: `Spec => []TypeOK`, with the capacity of the channels. The
  invariant adds `HandInv`: a loop has a request in hand exactly between
  receiving it and accounting for it.
* `SlotsAreSpaced`: `Spec => []SlotSpacing`. The inductive invariant `SlotInv`
  says that `lastCall` is the last of the slots and lies in the past, and that
  the slots are spaced; a new slot is `Rate` after `lastCall` because the check
  and the assignment are in one critical section.
* `StartsAreSpaced`: `Spec => []StartSpacing`. It needs `StartInv`: the k-th start
  comes after the k-th slot, and not later than the slot two further on, since
  each loop owes at most one start. Slots are spaced, so starts are, less two.
* `RequestsInOrder`: `Spec => []ExecutedInOrder`. What is executed, what the loop has
  in hand and what waits in the channel are, one after the other, what was sent.
* `Landing429Exact`: `Spec => []Stats429Exact`. A loop is between the 429 and each of
  the callback's two `Record429` at most once, so each queue's counter lags by
  the loops that have not reached it; the larger one lags only by those whose
  callback has not begun.
* `CallsLastMinuteExact`: `Spec => []StatsWindowExact`. `WindowInv` gives every
  completion its place in `callWindow`: those not there are older than the window,
  because times in the slice do not decrease and only a prefix is cut off.

`SyncLoopProofs`, for every finite set of restarters, every set of resyncers and
any number of loops:

* `TypeCorrect`: `Spec => []TypeOK`. `BudgetInv` adds that every restart under
  way has a loop left to create, by counting them.
* `SyncsExclude`: `Spec => []OneSync`. `GuardInv` names who is inside: one loop,
  or one resyncer, or nobody with the guard clear.
* `LiveLoopsAreCurrent`: `Spec => []LiveLoopIsCurrent`. `LifeInv` is the
  strengthening: unless restarts overlapped, one is under way at most, and while
  it is no loop is live, since `Stop` has cancelled the only one.

`SyncWorkerProofs`, for all sets of files, syncing goroutines and handlers, every
batch size and any number of syncs, failures and crashes:

* `SyncsExclude`: `Spec => []OneSyncAtATime`. `GuardInv` names the goroutines that
  are inside `syncOnce`: none and the guard clear, or one and the guard set.
* `URLsServeTheirPaths`: `Spec => []URLServesPath`. `CacheInv` says that ids are
  distinct and below AUTOINCREMENT's counter, so are those that handlers
  remember, and a row with a remembered id is of the handler's path, as is the
  URL it has in hand. The proof fails with ids that are reused.
* `TypeCorrect`: `Spec => []TypeOK`, with the order of the two counters.

`SyncMirrorProofs` builds on these:

* `MirrorInvariant`: the inductive invariant. For the sync under way, what it
  fetched is the latest answer of the source (no other sync can have asked, by
  `GuardInv`); its tag is fresh, so the rows that carry it are files it listed;
  and if none of its upserts failed, every file it listed carries it or is still
  to be upserted.
* `CleanSyncsMirror`: `Spec => []CleanSyncMirrors`.
* `SyncImplementsMirror`: `Spec => MirrorsListings`, assuming that no upsert
  fails (`~UpsertMayFail`): initial states map to initial states, a successful
  listing to `Answer`, and every other step to `Follow` (a stutter, if it leaves
  the rows alone). Without the assumption `PruneSpares`, the lemma that a prune
  deletes nothing listed, is not provable: that is what run `sync_upsert` shows.
* `SyncsKeepStableRows`: `Spec => StableRowsKept`, under the same assumption,
  since a file that stayed upstream is in the latest listing of its source.
* `RemovalsAreGenuine`: `Spec => []RemovalsGenuine`, under the same assumption.
  `HookInv` relates the snapshot a sync took at its start to the rows: an item of
  the snapshot loses its last row only to a prune that follows a listing without
  it.

`CircuitBreakerProofs`, for all files, items, ids, callers, limits, windows and
widths of the integer that is shifted, from the assumptions in `CircuitBreaker`:

* `TypeCorrect`: `Spec => []TypeOK`: no quarantine is longer than the base, the cap or
  the probe lock, whatever the shift overflows to; lists of failures are sorted
  and within their window.
* `ProbesAreSpaced`: `Spec => ProbesSpaced`. Two probes of an id start at least the
  shortest of the lock, the base and the cap apart, however long either takes.
  `SpacedInv` says that what is left of an id's window and the time since its last
  probe make up that much: the lock is set with the probe, and what replaces it
  meanwhile, a failure of any caller, is a window at least as long. It is not
  shown, and not true, that the first has ended when the second starts: that is
  run `breaker_probe`.
* `QuarantineIsEarned`: `Spec => QuarantineEarned`, for any number of items to an id.
  `EarnedInv`: a tracker's failures are the latest of those its id has had since
  the last success of an item with it. Whose failures they were is run
  `breaker_shared`.

`BreakerHealthProofs`, for all windows, minima and traffic:

* `HealthIsExact`: `CSpec => []HealthExact`. `CountInv`: for each of the last ticks the
  slice has as many successes and failures of that age as were recorded then. It
  is a property of the trimming, of a prefix at each recording, which is right
  because `now` is taken under the mutex, so that the slice is sorted by age.
* `OutageNeverEscalates`: `CSpec => LongOutageNeverEscalates`. `OutageInv` bounds the
  age of what is left from before the outage: once it has filled the window no
  success is in it, so both readings of the verdict find the API degraded, also
  for a failure that was answered before.
* `ComposedBreakerIsSafe`: `CSpec => Spec /\ ProbesSpaced /\ QuarantineEarned`: every
  step of the composition is a step of the breaker or leaves its state alone, so
  the composition implements `CircuitBreaker` and its theorems hold of it.

`CdnStreamProofs`, for every finite set of handlers, which bounds the clients
served at once, at least one file, and any number of slots and repairs:

* `Invariant`: `Types`, `ReplyInv` and `SlotsConserved`. `ReplyInv` says for each
  label of a handler what its response holds already: nothing while the first
  exchange may still be repaired, a success without data in the hang mode.
* `SlotsAreConserved`: `Spec => []SlotsConserved`. Each step of a handler is shown
  to be a `SlotMove`: it takes a slot and becomes a holder, gives one back and
  stops being one, or changes neither; the count of the holders follows.
* `TypeCorrect`: `Spec => []TypeOK`. The upper bound of `slots` is a consequence of
  their conservation; that of `attempt` needs that a repair is only begun with
  an attempt to spare.
* `OnlyMediaCopied`: `Spec => []OnlyMedia`, and `OneStatusWritten`:
  `Spec => OneStatus`, both from `ReplyInv`: whoever writes a status is at a label
  where none has been written.

`PartsProofs` proves a theorem about each small component's own specification,
from the assumptions in `Parts`, and then that the same holds of `Parts`: by the
lemma `PartRuns` a behaviour of `Parts` is one of the component that `part` names. The
first name is the component's theorem, the second that about `Parts`.

* `PagesErrByChanges`, `ListingsErrByChanges`: for any library, any page size that
  TorBox returns in full (`Cap >= PageSize`: TorBox caps a response at some 10,000
  items, `client.go:175`, and the configuration the page size at 10,000) and any
  changes. The invariant `UnderWayInv` counts two sets that no variable holds: the
  items that stayed and lie before the offset without having been listed
  (`Missed`), and those listed that lie behind it (`Again`). An arrival adds at
  most one to the second, a departure at most one to the first, and a page adds to
  neither; a short page leaves nothing behind the offset. Positions are
  cardinalities of the newer items, so the proof rests on lemmas on how they
  shift.
* `LevelIsPersisted`, `LevelStaysPersisted`: for any number of requests and levels,
  failures and crashes. `FillingInv`: as long as nothing failed, a file with a name
  and no content is being written by someone; `AloneInv`: while no two requests
  overlap, who has written the temporary file finds it under its name.
* `RightSizeIsServedExactly`, `RightSizesServeExactly`: for files of any size and any
  number of clients: each of the forms of a range, the empty file and the 416.
* `LinesAreExact`, `LinesStayExact`: for any capacity and any number of writers. The
  ring is related to the lines ever written by index arithmetic modulo its
  capacity.
* `ViewsAlwaysAgree`, `ViewsStayAgreed`: whatever names LIKE takes for each other, one
  by one, provided the rows of a directory agree on whether an entry is a file or a
  directory (`SameKind`).
* `ListedIsAlwaysServed`, `ListedStaysServed`: for trees of any depth and any filters,
  whatever single names LIKE confuses, provided no path is both a file and a directory
  (`NoFileIsDirectory`). That the property speaks only of directories that are not
  confused is part of the property (`Confused`), not of the theorem.
* `TreeIsExact`, `TreeStaysExact`: under `NoFileIsDirectory`, `StraysApart` and
  `RanksApart` (below). LIKE may confuse names: `TreeExact` then says that what
  strays into a directory leads to no file and hides none. The proof follows a path
  level by level: `LevelShown` holds of every level of a row's path, because the
  row itself or a row that sorts before it stands for the entry there. Where a
  mount shows the largest files only, the file that is shown need not be the one
  that was started from; `LargestOfLevel` finds at each level a best file of the
  item that is shown one level further, and the number of levels is bounded by
  the longest path.
* `AnswersHaveTheirType` and, of the other components, `PagesHaveTheirType`,
  `LevelHasItsType`, `BufferHasItsType` and `RangesHaveTheirType`; together
  `TypesStayOK`: `Spec => []TypesOK`. Types here are more than types. A listing's offset
  is where its pages end; the temporary file is never the configuration file; what a
  response promises and carries is within a file, since a range that parses fits in
  the size it is parsed against (`ClaimFits`); an answer has one entry for each
  name and kind, although several rows of a path may be found, and the size of a
  directory or a mount is at most that of all files together. That last bound is
  about `SumSizes`, a fold over a set. A fold is a function on the subsets of the
  set that is defined by itself, with `CHOOSE` for the element taken out; that there
  is such a function is proved first (`SumsExist`), from one on the subsets of up
  to n elements for every n, and then that its values are bounded (`SumIsBounded`),
  both by a least counterexample. The entries of the browser are one for each name
  only under `LeavesApart`.

The hypotheses about listings are defined in `Parts`, after `Spec`. The code takes
paths for strings and compares beginnings with LIKE, so each says how far names may
be confused. `NoFileIsDirectory` and `SameKind` are what TorBox's content satisfies, not
what the code enforces: with a file `a` of one item and a file `a/b` of another,
PROPFIND shows one entry `a` and the browser two. `LeavesApart`: no two paths that a
directory's pattern matches leave the same single name behind, so the browser
does not list one name twice. `StraysApart`: what the pattern matches without being
in the directory is not left with the name of something that is. `RanksApart`: nor
does it sort level with a file of the directory that a `largest_file_only` mount
accepts too, since which of the two is shown would then be chance. The last three
hold trivially where LIKE confuses nothing, and all five hold of the instance of
run `parts`, where it does: `MCParts` states them as `ShowNames`, an assumption that
TLC evaluates. `TreeAssumption` (paths are sequences of names, sizes are numbers, no mount
is called as the views `Root` and `All` are) is evaluated there as well.

Every safety property that a passing run checks, invariant or action property, is
stated by a theorem. Only model-checked are the liveness properties
(`EveryRequestAnswered`, `SyncsEnd`, `StoppedLoopsEnd`, `SyncsGoOn`, `PollersRecover`,
`LeaversEnd`, `SlotsServed`), since there are no proofs of `ENABLED` here.

Two remarks for whoever continues the proofs. Induction over numbers is done by
least elements: `WFMin` gives the least counterexample, without an operator as a
parameter. An instance brings its own copies of the operators of the modules it
extends (`Pages!Cardinality`), which lemmas such as `PagesCardinality` identify with
the ones the library's theorems speak of.

## What is not modelled, and why

* TorBox's answers beyond what the code tells apart: a 200 without data, which
  counts as an empty listing, is not modelled, since nothing in `src/` says that
  TorBox sends it. A CDN that ignores the Range header is left out of
  `RangeProxy`.
* Decoding in `client.go`, and of the account query all but its 429s.
* Files that change their path (`store.go:199`): the row then keeps its URL, which may
  be that of an alternative at the old path until it expires, so `URLServesPath` is
  about files that do not. Dates and MIME types.
* Names with a `%`, and a `_` of a name that stands for the `/` of a path, in LIKE
  (`store.go:218`); a virtual mount that is named like a folder at the root, which
  it hides on `/http` (`http_browser.go:43`).
* Rows that change between a listing and the GET that follows it: `ListedIsServed` is
  about the two queries' choice among the rows of one path. Wrong sizes in the
  store: `RightSizeServesExactly` is about the rows that have the right one.
* Negative suffixes and headers of several ranges, of which `parseRange` makes a
  refusal or a sign.
* PROPFIND's `Depth`, HEAD, XML and HTML, sorting and breadcrumbs; the parsing of
  sizes and expressions in filters, which are taken as the sets they match.
* `WithAttrs` and `WithGroup` of the log handler, which only tests call.
* Loading and validating the configuration, landing page, authentication, CSRF,
  health check, OpenAPI, the hooks' commands, statistics samples and `dbinspect`:
  no shared state that anything else decides by, nothing that happens between two
  of their steps.

## Plan

Done, in order of importance: throttle, store and sync with its abstract
specification, sync loop, breaker, CDN proxy, the health window with the breaker,
paging, listing, ranges, log level and log buffer; the safety properties of all of
them proved. Next:

1. The divergence at `get.go:530` (the shift that overflows) as a property of its own.
2. `TreeExact` where what strays into a directory has the name of something in it:
   which of the two a listing shows.
3. More refinements: an abstract store of sizes for `RangeProxy`, an abstract
   semaphore for `CdnStream`.
