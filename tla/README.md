# go-short-link in TLA+

This directory holds a model of go-short-link, the checks TLC runs on small
instances of it, and theorems about it that TLAPS checks for every instance.
Paths like `repo.go:80` are files below `src/internal/`, except `src/main.go`.

go-short-link answers requests for short names with redirects. The names and
their targets live in a Google sheet; a background goroutine fetches the sheet
when it has changed, normalises the names, saves a snapshot to a fallback file and
hands the mapping over to the goroutine that makes it live. What makes the program
hard to get right is small but real: updates from several goroutines, two clocks,
a snapshot that is read when Google fails and written when it does not, restarts,
requests that look up more than once, a start that makes shared state in a certain
order and without locks, and a shutdown in which four kinds of goroutines take part.

## The system

| Component | State | Operations | Hard behaviour |
|---|---|---|---|
| State layer (`state/redirect-state.go`) | live mapping, last error, two buffered channels | `GetTarget`, send, receive, `UpdateMapping`, `UpdateLastError` | senders block on full channels; order of publication; maps without a lock behind a pointer with one |
| Update pipeline (`repo/repo.go`) | locals of each `UpdateRedirectMapping` | `UpdateRedirectMapping`, `UpdateRedirectMappingChannels` | several updaters at once, errors that are dropped, fallback |
| Fallback file (`repo/repo.go:102-175`) | one file | read, write (truncate, then write) | crashes in between, failing disks, overlapping writers |
| Sheets data source (`ds/google-sheets.go`) | `lastUpdate`, `lastModified` | `NeedsUpdate`, `FetchRedirectMapping`, `LastUpdate`, `LastModified` | edits while a fetch is under way, clocks that differ, failing calls |
| Rows (`ds/google-sheets.go:376-419`) | `err` and the map of the loop | one row | cells that are not text, an error variable that is not reset |
| Hooks (`main.go:296-344`, `repo.go:95-100`) | the map under edit | three range loops | a map edited while it is ranged over, names that collide |
| Request resolution (`main.go:141-229`) | locals of a request | up to three lookups | the mapping is replaced between lookups |
| Lifecycle (`src/main.go`, `main.go:270-283`, `355-386`, `server.go`) | contexts, server, connections | start, serve, signal, `Shutdown`, `Close` | signals at any time, handlers and updates that hang |
| Startup (`main.go:79-129`, `conf/config.go:122`) | environment, configuration, everything made once | the steps of `Setup` and `CreateHttpServer` | what is made on first use without a lock; settings read in two places |
| Configuration (`conf/config.go`) | `currentConfig`, `isProd` | `CreateAppConfig` | defaults that depend on each other, widths of numbers |
| Dispatch (`server.go`, `api/api.go`, `tmpl/assets_fs.go`) | the mux | patterns, methods, authentication, assets | the same closures serve every endpoint; links share paths with assets |
| Status endpoints (`api/api.go:123-153`) | locals of a request | reads under one lock after the other | updates in between; a getter that writes |
| Rendering, templates, CSV source | none | | see "Not modelled" |

They interact as follows. The background updater and the handlers of
`update-mapping` run `UpdateRedirectMapping`, which asks the data source, applies
the hooks, writes the file and sends the mapping into the state layer's channel.
The listeners of the state layer are the only writers of the live mapping and of
the last error. Requests only read the mapping, one lookup at a time; those of the status
endpoints also read the data source, and may store the modification time of the sheet
there. `main` makes what all of them share, starts them and, on a signal, ends the
process without waiting for the updater.

## Modules

| Module | Models | Correspondence |
|---|---|---|
| `RedirectState` | state layer | `mapping`, `lastError` and the channels keep their names; `mappingInHand` is the value `updateListener` has received and not applied |
| `RWMutex` | `sync.RWMutex` (external) | `queue` holds the readers that called `RLock` after the writer called `Lock` |
| `StateAccess` | the mapping in memory: pointer, lock, maps | `mapping`, `channel` and `received` hold addresses, `heap` what is there; `seen[r]` are the maps that lookup `r` has found, `own[p]` the local of updater `p`. Mapped onto `RedirectState` |
| `FallbackFile` | the file | `file` is the version of its text and its length: shorter or longer than the text's own length means it cannot be parsed |
| `SheetsSource` | update detection, the sheet, both clocks | `edits` counts the edits of the sheet; `lastUpdate`, `lastModified` as in the code; `modifiedTime`, `updateTime`, `fetched` are locals per updater |
| `UpdatePipeline` | `UpdateRedirectMapping` and its callers, restarts | extends the three above; `pc[p]` is the line updater `p` is at; one action per step another goroutine can come between |
| `UpdateInvariant` | | the inductive invariants of the pipeline, and the kinds of instances they hold in |
| `MirroredMapping` | abstract: what a reader of the sheet is promised | one variable pair: the sheet and what is served |
| `ServedHistory` | `UpdatePipeline` mapped onto `MirroredMapping` | `served` of the pipeline is a history variable, the newest mapping that was ever live: it survives restarts, and no step depends on it |
| `DocumentedBehaviour` | | sentences of the documentation that the pipeline refutes |
| `LinkNames` | names and both ways of normalising them | a name is a stem in a spelling (case, `+`, `/`) |
| `SheetRows` | the loop over the rows | cells by kind; `parseFailed` is `err != nil` |
| `RedirectHooks` | the hooks, on a fetched sheet and on a snapshot | extends `SheetRows`; `hook` and `unvisited` are the loop and the keys it has not come to |
| `RequestResolution` | one request against a changing mapping | `pc` is the next lookup; `seen` collects the mappings that were live meanwhile |
| `StatusApi` | the status endpoints beside the pipeline | extends `UpdatePipeline`; `field` is what the handler reads next, `readLocked` the only lock that is held from one step to the next |
| `AppConfig` | `CreateAppConfig` | pure operators on an environment, a function from variables to values |
| `HttpDispatch` | which handler answers a request | extends `AppConfig`; the mux is a function from patterns to endpoints |
| `Startup` | package initialisation, `Setup`, `CreateHttpServer` | extends `HttpDispatch`; `setup` is the step main is at, `After` the order of the statements, `made` what exists of the shared state |
| `Lifecycle` | the process from start to exit | extends `Startup`; `conn[r]` is what client `r` sees, `handler[r]` the goroutine behind it |
| `MCHistory`, `MCPipeline`, `MCStatus`, `MCHooks`, `MCResolution`, `MCLifecycle`, `MCAccess` | | instances for TLC |
| `UpdatePipelineProofs`, `UpdateSafetyProofs`, `ServedHistoryProofs`, `StatusProofs`, `HooksProofs`, `ResolutionProofs`, `LifecycleProofs`, `StateAccessProofs` | | theorems |

A mapping is represented in the pipeline by the version of the sheet it was built
from, since the properties there are about which version is live. What a version
contains is the subject of `SheetRows`, `RedirectHooks` and `RequestResolution`.
Operators whose comment begins with "Mutant" are not part of the model: they are
variants of the definition that follows them, with a plausible bug, and each
property is known to fail under one of them.

### How the pipeline follows the code

| Code | Actions |
|---|---|
| `NeedsUpdate` (`google-sheets.go:334-345`) and the condition of `repo.go:49` | `CheckIsZero`, `QueryModified` (Drive answers), `KeepModified` (the answer is stored), `QueryFails`, `CompareTimes`, `CompareTorn` (a forced update stores its time while the old one is read), `RetryAfterError`, `SkipUpdate` |
| fetch (`google-sheets.go:347-374`, `424-432`) | `StartFetch` (local clock is read), `RequestArrives` (Google reads the sheet), `FetchReturns` (`lastUpdate` is stored), `FetchFails` |
| fallback (`repo.go:59-72`) | `FetchFails`, `ReadFallback`, `ReadFallbackFails` |
| write (`repo.go:76-78`, `129`) | `TruncateFallback`, `WriteFallback`, `WriteFails` |
| publication (`repo.go:80-82`) | `Publish`, blocked while the channel is full |
| callers | `FinishSetup` (the end of Setup's update, `main.go:127`), `ReportOutcome` (`repo.go:85-93`), `Call`, `TimeoutCall`, `Respond` (`api.go:155-168`, `server.go:88`) |
| listeners | `ListenForUpdates`, `ListenForUpdateErrors` |
| around it | `EditSheet`, `Crash` (the process ends and is started again) |

`lastUpdate` is read without its mutex in `NeedsUpdate`. The zero time is recognised even
in a read that meets a store, but a comparison that does may see half of each time and
come out either way: `CompareTorn`. An edit that is skipped for it is seen at a later tick
(`EditsReachVisitors`).

### How the start follows the code

| Code | Actions |
|---|---|
| `conf.init` (`config.go:122-126`), before `main` | `InitPackages` |
| `godotenv.Load` (`main.go:132`) | `SetupEnvironment`: what the file adds, and nothing that is set already |
| `conf.CreateAppConfig`, `createAdminCredentials` | `CreateConfig`, `CredentialsPanic` |
| `CreateSheetsDataSource` (`google-sheets.go:59-143`, `217-240`) | `CreateSheetsDataSource`, `KeyPanics`, `ServicePanics` |
| `repo.Setup`'s listeners | `ListenForBoth` |
| templates (`main.go:95-115`) | `ParseTemplates`, `TemplatesPanic` |
| hooks (`main.go:125`, `319`, `332`) | `addDefaultRedirectMapHooks` |
| first update, `go StartBackgroundUpdates` | `FirstUpdate`, `GoUpdater` (in `Lifecycle`: `StartUpdater`) |
| `CreateHttpServer`, `go startServer` | `CreateHttpServer`, `GoServer` (in `Lifecycle`: `StartServer`) |

`Lifecycle` lets a signal come between any two of these steps, and ends the process
after a panic. The mux that `CreateHttpServer` makes is the one `Dispatch` asks in the
properties; requests of `Lifecycle` itself have no path, since their life does not
depend on it.

### How the status endpoints follow the code

`ReadMapping` is `MappingSize` or `CurrentMapping`, which hold the same lock in the same
way; `ReadLastUpdate` ends a request to the health endpoint. A request to the info
endpoint goes on with `LockModified` and `LookAtModified` (`google-sheets.go:322-325`),
and with `ReadModified`, or with `AskModified`, `AskFails` and `StoreModified`. The
updater's own `updateLastModified` is `QueryModified` and `KeepModified` of the pipeline, so
either of the two may store a time it asked for before the other did. `Updating` lets
`KeepModified` wait for the reader's lock.

### How the state's memory follows the code

| Code | Actions |
|---|---|
| a lookup (`redirect-state.go:64-90`) | `CallRLock`, `Load`, `LoadAgain` (only `CurrentMapping`), `DeferredRUnlock` |
| `updateListener`, `UpdateMapping` (`redirect-state.go:56-62`, `127-131`) | `Receive`, `CallLock`, `Locked`, `Store`, `DeferredUnlock`, `LogSize` |
| the map of an update (`google-sheets.go:355-421`, `repo.go:74-80`, `159`, `api.go:166`) | `MakeMap`, `FillRows`, `applyHooks`, `Send`, `MeasureMap` |

The pipeline has no pointers: there, a mapping is its version. `ImplementsState` is what
allows that, since each step here is a step of `RedirectState` or invisible to it. The
error has a mutex and a channel of the same kind with nothing behind a pointer, and is
not modelled a second time.

## Runs

Runs that pass:

| Run | Question | Bounds |
|---|---|---|
| `production_fallback` | one updater with a fallback file: does it forget an edit (`NoEditForgotten`), keep its snapshot usable (`SnapshotAhead`), ever go backwards (`LiveNeverRegresses`, `KeepsPromise`, across restarts), does it arrive (`Converges`), and is an update that fails reported (`FailureReported`)? `IInv` is the invariant the proofs use | sheet versions 2..3 and an older seeded file, 2 failing calls, 2 restarts, local clock equal or behind |
| `forced_updates` | several updaters: does everyone get past the channel (`CallsEnd`), does what is published go live (`EveryUpdateGoesLive`), and is an edit shown to visitors although updaters race and a torn time may be compared (`EditsReachVisitors`)? | channel of one slot, one forced update, one edit, a file that may be older than the sheet, and one thing that goes wrong (`OneMishap`): a call to Google, a write, or a client that waits too long |
| `status` | what does a client that polls read: does it fit together (`ReportDated`), does it go back (`ReportsAdvance`), is it answered (`StatusAnswered`), and does the time it may store itself do harm (`ModifiedTimeSettles`)? And with a local clock that is ahead, how far may what is served lag behind (`LagBounded`)? | one updater without a fallback file, channels of one slot, versions 1..3, the third without rows, a clock one unit ahead, one failing call, one client |
| `lifecycle` | is anything used before it is made (`SharedIsPublished`), do names and requests meet (`HooksMatchRequests`), is the cache time right (`CacheCoversPeriod`), who answers which request (`ForcedUpdatesGuarded`, `LinksResolve`), do requests end (`RequestsEnd`), does a signal end the process (`SignalEnds`), with which status (`ExitStatus`)? | 5 environments, 2 `.env` files, numbers of 10 bits, 4 paths besides the patterns, all methods, 3 requests |
| `mapping_built` | which rows become links, and what does text in column C take with it (`LastActiveRowWins`), do hooks keep them (`LinksKept`), do visitors find them, and which names can nobody find (`Reachable`), does a snapshot give the same mapping again, and which names not (`SnapshotStable`)? | sheets of up to 3 rows out of 25: one stem in 13 spellings, every kind of third cell, odd cells; all four settings |
| `resolution` | what does a request get while mappings change (`UndisturbedRequest`, `TargetWasLive`, `PlainRequest`)? | 24 mappings of two links and the root link, 6 paths, 2 hosts, 2 replacements |
| `state_access` | is a map written while somebody may read it (`NoMapRace`), does a lookup find one whole map (`FindsOneWholeMap`), may the other modules take the mapping for one variable (`ImplementsState`), do lookups and updates get past the lock and the channel (`LookupsEnd`, `UpdatesLand`)? | two lookups, two updaters, two maps, a channel of one slot |

Why these bounds are enough for the questions. An update forgets an edit because of
one edit in the wrong place (that more of them change nothing is what the proofs show);
a regression needs two versions and an older file; a failing call, a second one on
the retry and a restart reach every order of failure, fallback and recovery, and the
second restart starts from what the first one left behind. The
production code has two slots per channel; one slot makes senders block, with two
goroutines, as two slots do with more of them. Hooks interfere only on names with the
same stem, two of which collide and a third of which may be visited in between. A
request makes at most three lookups, which two replacements separate. Three requests
cover one that ends before the signal, one in flight and one that comes too late. The
environments are one of development with the API, one of production that asks for the
API all the same, one without status endpoints and credentials, one with assets and the
longest update period, and one whose password is too long; either `.env` file goes
with each of them. `MaxUint` is 1023, the smallest power of two that the default cache
time of 600 seconds fits below; what matters is that twice the longest period does not
fit. A status request reads at most three times, and two versions are enough for a
reading of each side of an update; the third lets the updater overlook an edit when it has
published something already, which is where the lag could add up. With one life of the process (`OneLife`), one
client is as good as several, as nothing of it but its lock reaches the others. Two
lookups are needed for one that holds the lock and one that waits for it, two updaters
with a map each for one that sends while the other still edits.

Runs that TLC refutes. Each one checks a sentence of the documentation:

| Run | What happens | Documentation |
|---|---|---|
| `stale_after_race` | a forced update and the background updater publish in the wrong order; `lastUpdate` says that nothing is missing, and the old mapping stays | `docs/index.md:8-9` |
| `regress_stale_file` | a snapshot that could not be written is published after the next failed fetch, over a newer mapping | `docs/develop.md:38-39` |
| `crash_mid_write` | the process ends between truncation and write, the next one has no snapshot. A signal invites this: it cancels the fetch under way, and the failed fetch rewrites the file | `docs/admin.md:146` |
| `mixed_resolution` | a request gets an answer that no mapping gives | `docs/develop.md:25-26`, `37-38` |
| `shutdown_drain` | requests in flight get a 503 from their cancelled context, or are cut off by the deferred `Close` | `docs/develop.md:49-50` |

Other sentences of the documentation that the code contradicts. They need no run:
reading the line is enough, and the models follow the code.

- A row whose third cell is text, like a description, is no link (`google-sheets.go:390`,
  `SheetRows.ParseRow`), and neither is any row with a ticked checkbox below it, down to the
  next text that `ParseBool` can read, since `err` keeps the error of the earlier row
  (`SheetRows.ParseFailed`); `docs/admin.md:205-206` invites descriptions there.
  `LastActiveRowWins` says exactly which rows that takes, and no others.
- A `.env` file does not override variables that are set (`main.go:132`, `AppConfig.Load`);
  `docs/admin.md:98-99` says it does. And `APP_ENV` in that file does not make the process
  a production one (`config.go:125` runs first, `Startup.InitPackages`), so the API can be
  enabled there in spite of `config.go:203`.
- Without credentials protected endpoints are closed (`api.go:99`,
  `HttpDispatch.CheckCredentials`); `docs/admin.md:140-141` says they are open then.
- A POST to `update-mapping` is rejected by `server.go:58` before its handler, which
  takes GET and POST (`HttpDispatch.Dispatch`).
- `/_api/info` and `/_api/health` are served with `APP_ENABLE_STATUS` alone (`api.go:57-71`,
  `HttpDispatch.EndpointPaths`); `docs/api.md:5` ties `/_api/` to `APP_ENABLE_API`. No property
  says who may read the status endpoints, as the documentation does not agree with itself.
- With a fallback file a failed fetch is no error (`repo.go:66`), and neither the errors of
  Setup's update nor those of forced ones reach `lastError`; `docs/develop.md:38-39`
  promises that failures surface there.

## Fairness

`FairSpec` of the pipeline: the background goroutine, the two listeners and the
handlers go on when they can (weak fairness): Go's scheduler runs them, the ticker
ticks, and each call to Google ends after 15 seconds at the latest. `Publish` is
strongly fair: a sender blocked on a channel is queued, and Go serves the queue in
order, so it gets a slot although other senders take slots in between. Edits, calls to
the API, failures and crashes are never required. `Lifecycle`: `Run`, `startServer`,
the waiting side of each request and the end of the updater's loop are fair; handlers
and updates are not, they may hang for good.
`StatusApi` is fair to the handler and to the listeners, and strongly fair to the updater,
which may find the read lock taken again and again: a writer that waits for a `sync.RWMutex`
keeps later readers out. `FairAccessSpec` asks that a lookup, the listener and an update go on once they have begun,
and that a sender gets its slot; nobody has to begin. That a writer is not kept waiting by
ever new lookups, nor a lookup by ever new writers, is not assumed: it follows from how
`RWMutex` queues readers. `RedirectHooks` and `RequestResolution` state safety only.

## Theorems

All constants are arbitrary except for the named assumptions of the modules.

| Theorem | States |
|---|---|
| `TypeCorrect` | `Spec => []TypeOK` for any number of updaters: channels never exceed their capacity, only versions of the sheet are published or saved |
| `Ordered` | `Orderly => (Spec => []OrderInv)` |
| `Inductive` | `Production => (Spec => []IInv)` |
| `LagsNoMore` | `Production => (Spec => []LagBounded)`, whatever the local clock says |
| `ForgetsNoEdit` | `Production /\ ClockBehind => (Spec => []NoEditForgotten)` |
| `SnapshotKept` | `Orderly => (Spec => []SnapshotAhead)` |
| `NeverRegresses` | `Orderly => (Spec => LiveNeverRegresses)` |
| `ImplementsMirror` | `Orderly => (Spec => KeepsOrder)`: the pipeline implements the abstract promise, restarts included |
| `StatusTypeCorrect` | `StatusSpec => []StatusTypeOK`: the read lock is held exactly at the two places that need it |
| `ReportsDated` | `StatusSpec => []ReportDated`, for any number of updaters and any clock |
| `AnswersAdvance` | `Orderly /\ SteadyClock => (StatusSpec => ReportsAdvance)` |
| `SentWhereItWasLive` | `Spec => []TargetWasLive` of `RequestResolution`, for every set of mappings and any number of replacements, as the next two |
| `ResolutionTypeCorrect` | `Spec => []ResolutionTypeOK` |
| `UndisturbedIsExact` | `Spec => []UndisturbedRequest`: however often the mapping is replaced, a request notices it only if one of its own links changes |
| `PlainIsAtomic` | `Spec => []PlainRequest`: an update cannot split a request that needs one lookup |
| `ExitExplained` | `Spec => []ExitStatus` of `Lifecycle`, for any number of requests |
| `LifecycleTypeCorrect` | `Spec => []LifecycleTypeOK` |
| `StatePublished` | `Spec => []SharedIsPublished`: no goroutine starts before everything that it uses without a lock is made, for all environments, as the next four |
| `HooksMatch` | `Spec => []HooksMatchRequests` |
| `CachingCorrect` | `Spec => []CacheCoversPeriod`, for every width of the numbers |
| `UpdatesGuarded` | `Spec => []ForcedUpdatesGuarded` |
| `LinksReached` | `Spec => []LinksResolve`, for every set of links and assets |
| `HooksTypeCorrect` | `Spec => []HooksTypeOK` of `RedirectHooks`, for sheets of any size with any names, as the next four |
| `ActiveRowsWin` | `Spec => []LastActiveRowWins`, whatever column C holds: rows are lost to text there exactly as `UnreadAt` says |
| `HooksKeepLinks` | `Spec => []LinksKept` |
| `SpellingsReach` | `Spec => []Reachable`: what both normalisations agree on (`Agreed`) is found, and what nobody can ask for is exactly what `OutOfReach` says |
| `SnapshotsReload` | `Spec => []SnapshotStable`: the names of a snapshot that change are those with a slash before the suffix, which they lose, and may then meet another link |
| `AccessTypeCorrect` | `AccessSpec => []AccessTypeOK` (only proved, no run lists it), for any number of lookups, updaters and maps and any capacity, as the next three |
| `NoRaces` | `AccessSpec => []NoMapRace` |
| `OneMapFound` | `AccessSpec => []FindsOneWholeMap` |
| `StateImplemented` | `AccessSpec => ImplementsState`: pointers, locks and maps implement `RedirectState` |

The hypotheses are named in `UpdateInvariant`, and each theorem asks for no more than it
needs. `Orderly`: one updater (the API is switched off in production builds,
`config.go:204`) and, if there is a fallback file, a disk that works; `stale_after_race`
and `regress_stale_file` show the order break without either. `Production` adds a sheet
that is never empty: a fetch that finds no rows is stamped with the time of its answer
(`google-sheets.go:373`), so that rows added while the answer was on its way stay unseen
for as long as nobody edits again. `ClockBehind`: the local clock is not ahead of
Google's. `lastUpdate` is read from the one and compared with the other; `Leads` holds
how far the one may be ahead at most, and `LagsNoMore` shows that this is also how far what
is served may lag behind, and that the error does not add up over any number of
updates. (If the lead had no bound, `Leads` would be empty and `LagBounded` would say
nothing.) What is served goes neither back nor wrong for it. `SteadyClock` says that the local clock keeps its distance to Google's: one
that is set back stores an earlier time. `MaxUintAssumption` says that the default cache time fits the width of the
numbers (2^32 - 1 in the code).

The argument. None of the properties is inductive alone. Between the moment the local
clock is read and the moment the mapping is live, a version is in flight through five
places: the updater's locals, the file, the channel, the listener's hand, the state.
`InOrder` says that what is published is ordered by version; `HeldInOrder` that what the
updater holds covers all of that and is not beyond the sheet; `FileInOrder` that a readable file covers what is published, and is readable from the
first publication on except during a rewrite; `Holding` that a published value is a
version. Together with the type invariant they form `OrderInv`, which mentions no clock:
`FileInOrder` gives `SnapshotKept`, `InOrder` gives `NeverRegresses`, and `FileInOrder`
across a restart gives the refinement of `MirroredMapping`. `Honest` says that
`lastUpdate`, stamped before the request, never claims more than what is published or
held, but for the clock's lead; that it claims no more than a readable file either, as
a failed fetch would publish that. It is inductive together with `OrderInv` (`IInv`) and
gives `LagsNoMore`: if `lastUpdate` is not before the last edit, the newest published
version is at most the lead before it; with no lead this is `ForgetsNoEdit`.

For the status endpoints, `Dated` says that `lastUpdate` is set before anything is
published, and that the handler reads the mapping before the time; the other order breaks
both properties. `ClockInOrder` says that the next time to be stored lies between the last
one and now, `AnswerInOrder` that what has been read lies between the last answer and the
present; with `OrderInv` for the order of the mappings this is inductive.

For a request, `ResolutionInv` says where it stands after each lookup: the live mapping
is among those it has seen (`SeenLive`), what it holds comes from mappings it has seen
(`Held`), is what any of them says as long as they agree on the request's own links
(`Exact`), and comes from a single one as long as none of them has an alias for the name
(`PlainSoFar`). The last three give one theorem each; only `UpdateMapping` adds to `seen`,
which weakens `Held`, and keeps the other two if the new mapping agrees with the earlier
ones or has no alias, and makes their premises false otherwise.

For the hooks, `HooksInv` describes a map in the middle of a loop that edits it: each
key is what the hooks so far, or the one that runs, have made of a key of the sheet, and
the former only if the loop is still to visit it; and no key of the sheet is without
such a descendant (`Renamed`). Each hook leaves its own results alone (`HookIdempotent`),
so that it does not matter whether Go visits a key that was inserted meanwhile. `RowsKept`
is the loop invariant of the rows, `FromRows` says that the names of a snapshot
are names of the sheet after the hooks; what the hooks do to such a name the second time
is `HookedTwice`: nothing, but for the slash of a name with a slash before its suffix.

For the process, `StartupInv` says what has been made before each step, and ties the
configuration, the hooks and the mux to the environment and the template they were made
from. What the mux then answers is shown by lemmas about `Dispatch` for an arbitrary
configuration (`UpdatesDispatched`, `LinksDispatched`,
`WellKnownDispatched`), and that production never enables the API by
`ApiOnlyInDevelopment`. `RunOrder` says that `Run` is in `Shutdown` only after the
signal, and that a running process has neither failed to serve nor panicked in `Setup`:
what the exit status is chosen by.

For the memory of the state layer, `HandedOver` says that every map in the channel, the
listener's hand and the state has been made and finished by the hooks; `Owned` that an
updater's map is nobody else's and finished exactly once it is to be sent; `Locking` that
a lookup that has found a map still holds the lock, so that the listener, which stores
only with the lock held, cannot replace it. That the maps under edit are not finished and
those handed over are is why they differ (`NoRaces`). For the refinement, `VersionAt` is
a map's version once it is finished: edits happen only to maps that `RedirectState` does
not know (`Invisible`), and of the listener's six steps two are its `ReceiveMapping` and
`UpdateMapping`.

Only model-checked: liveness (`Converges`, `FailureReported`, `CallsEnd`,
`EveryUpdateGoesLive`, `EditsReachVisitors`, `RequestsEnd`, `SignalEnds`, `ModifiedTimeSettles`,
`StatusAnswered`, `LookupsEnd`, `UpdatesLand`), which the prover cannot treat because of fairness and `ENABLED`.
`StatusAnswered` and `StatusTypeCorrect` belong together: a handler never waits for the
lock that it holds itself, since it is not at `store` while it holds it.

## Not modelled

- Rendering, headers, ETags, minification: functions of one result. Of the templates only
  which failures to parse them are fatal.
- Of the configuration: port, ETag, bodies, server header, repository link, build time;
  nothing else depends on them.
- The error in the answers of the status endpoints. It is read first and under its own
  lock, and travels through another channel than the mapping: it may be older or newer
  than the mapping in the same answer, and the documentation promises nothing about that.
- Scopes and options of Google's clients; the content of Google's answers beyond rows.
- Content, types and modification times of assets; directories below `data/assets`.
- The CSV source is not used by the program, and neither is `checkBasicAuth`.
- Idle keep-alive connections.

## Plan

Done: the pipeline with its abstract specification and proofs, rows and hooks,
resolution, startup with configuration and dispatch, lifecycle, the status endpoints
beside the pipeline, and the memory of the state layer, all with proofs. The requests that
behave as if resolved in one lookup are those of `PlainRequest` and `UndisturbedRequest`.
Next: the error that the state layer keeps beside the mapping, and what the status
endpoints may then report of the two.
