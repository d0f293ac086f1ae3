# Formal model of Sreality Tracker

TLA+ models, TLC runs and TLAPS proofs for the tracker of chata/chalupa
listings in `src/backend` (scraper job, API, database, raw storage), its
deployment in `src/infra` and its front end. Specifications are translated from
the code; documents are quoted only where the code is compared with them.

## 1. Inventory

| Part | State | Operations | Interacts with |
| --- | --- | --- | --- |
| Scrape pipeline (`scraper/pipeline.py`, `cli.py`) | `scrape_runs`, `listings`, `listing_observations`, `listing_events`; locals of one execution | `execute`, `_persist_detail`, `_finish_run`, `deactivate_missing_listings` | traversal (iterator), raw store, PostgreSQL, road enricher |
| Lifecycle rules (`domain/events.py`) | none | `observation_events`, `deactivation_event` | called by the pipeline |
| Manual trigger (`api/operations.py`, `api/job_trigger.py`) | the run row, a background task | POST, `_execute_trigger`, Cloud Run `jobs.run` | the job through the run row and Cloud Run |
| Raw storage (`storage/raw.py`) | objects per (run, listing) | `store_json`, `load_json` | pipeline |
| Search traversal, parser (`scraper/source.py`, `parser.py`) | page number, ids seen, detail mode | `iter_kind` | HTTP client |
| HTTP client (`scraper/client.py`) | time of the last request, cookies | GET with pacing, redirects, retries | Sreality |
| Distances (`distances/`, `listing_repository._distance_value`) | `listing_distances`, request counter | `ensure_air_distance`, `ensure_road_distance`, `backfill`, `compute_route` | pipeline, Routes API, read API |
| User data, image archive (`api/user_listing_service.py`, `storage/images.py`) | `user_listing_data`, `listing_images`, archive objects | PATCH, `_archive_listing_images` | image hosts, archive store |
| Authentication (`api/auth.py`, `auth_routes.py`, `owner.py`) | cookies only | login, callback, session, logout | Google, browser |
| Front end (`components/auth-provider.tsx`, `user-listing-controls.tsx`) | session and note state | refresh, logout, save | API |
| Legacy scraper (`src/run.py`, `src/scraper`, `src/utils`, `src/db_managment`) | files and SQLite tables | scrape, save, insert | Sreality |

Hard behaviours: two processes on one run or one listing; crashes between the
raw store and a commit; results computed from an earlier read; requests that
outlive their timeout; retries of finished work; traversals of a site that
changes underneath. `PROJECT.json` lists them by line under `hazards`.

What makes the parts correct: one truthful result per logical key; no event
counted twice; no deactivation without a complete successful run; history that
is only appended to; a raw object behind every observation; one job execution
per reservation; every reserved run settles; no execution hangs.

## 2. Modules

The tracker, from the site to the reader:

| Module | Models | Builds on |
| --- | --- | --- |
| `SrealityClient`, `SsrParser` | one paced HTTP session; what is read from a page | |
| `SearchTraversal` | `iter_kind` over a changing site | extends both, implements `ListingFeed` |
| `ListingEvents` | the pure rules of `domain/events.py`, `Detail`, `Listing` | |
| `ScrapePipeline` | processes that execute runs | extends `ListingEvents`, implements `ListingLifecycle` |
| `ScrapeSystem` | the manual trigger | extends `ScrapePipeline` |
| `ObjectStore` | both backends of the raw store and of the image archive | implements `WriteOnceStore` |
| `ImageArchive` | PATCH handlers, user data and archived images | extends `ObjectStore` |
| `Distances` | air and road distances, the back-fill | |
| `ReadApi` | the dashboard's queries | extends `ScrapePipeline` |
| `OwnerSession` | tabs, cookies and the API's session routes | |
| `LegacyRunner` | the scraper of 2024 | |
| `MigratedSchema` | the checks and unique keys of the migrations | used by the others |

Three modules are abstract specifications, each shown to be implemented and each
a promise to somebody. `ListingLifecycle`: a listing appears once, is withdrawn
only while active, returns only while withdrawn, each counted once.
`ListingFeed`: no listing twice, one end, nothing after it; that is all `Fetch`,
`CompleteCategory` and `FailCategory` of `ScrapePipeline` assume of a traversal.
`WriteOnceStore`: an object, once there, stays; `RawAccepts` of `ScrapePipeline`
assumes it.

The theorems are in eight modules. `ScrapePipelineProofs` has those of the pipeline
(types, raw objects and history; results and the deactivation gate; rows and
events; the lifecycle). `ScrapeSystemProofs` (the job with the trigger) and
`ReadApiProofs` (what the dashboard reads) build on it. `SearchTraversalProofs`,
`ImageArchiveProofs`, `DistancesProofs`, `OwnerSessionProofs` and
`LegacyRunnerProofs` stand alone. The `MC...` modules are instances for TLC.

Operators named `...Mutant` are plausible bugs, each placed before the
definition it would replace. They are used by no specification: they exist to
show that every checked property notices at least one of them.

### ScrapePipeline and the code

| Variable | Code |
| --- | --- |
| `run[k]` | row of `scrape_runs` with `logical_key` k (unique) |
| `listing[l]` | row of `listings` with `sreality_id` l (unique) |
| `observation[k][l]` | row of `listing_observations`, unique per listing and run |
| `events` | `listing_events`, unique per listing, run and type |
| `raw[k][l]` | raw object of run k and listing l |
| `pc`, `work`, `txn`, `closing` | control and locals of `execute`, `_persist_detail`, `_finish_run` |

One action is what happens between two points where another process can
interfere. `_persist_detail` is `OpenDetail` (SELECT ... FOR UPDATE, then the
observation check), `StoreRaw` or `RawConflict` (the store, outside the
transaction), and `CommitDetail` or `RefuseDetail`. `_finish_run` is
`FinishRead` (loads and computes), then `FinishIncomplete`, or `FinishSelect`
(the autoflushed UPDATE of the run row and the snapshot of missing listings)
and `FinishSucceeded` (FOR UPDATE waits, rereads, writes, commits).

A row lock is not a variable: a process holds one while its control is in the
transaction that took it (`RowLocked`, `RunRowLocked`). A listing that does not
exist yet has no row to lock, so both of two inserters pass `OpenDetail` and the
unique key decides at the end. FOR UPDATE under READ COMMITTED rereads the row
once the lock is granted, which `Dropped` models. The ORM writes only columns
whose value differs from the loaded one (`Flushed`), so a second finisher merges
its values into the row.

`Crash` is any way a process ends early: killed by the time limit, a lost
instance, an exception outside the per-category `try`, a database error at
commit, a deadlock abort. The transaction is undone; raw objects stay.

Abstractions. A detail is its kind, price and content hash; the raw payload is
taken to differ exactly when one of these does (the code leaves eight price
keys of the payload out of the hash; a change in one of those alone, for example
the old price, is not told apart). Times are left out. The three SELECTs of
`_finish_run` are one step: between them only another execution of the same key
can change what they read, and no property checked for shared keys compares the
counts they produce. Images and the two distances are written in the same
transaction or after it; they are in `ImageArchive` and `Distances`, and here an
exception in either is `FailCategory`. A consequence of leaving times out:
`observed_at` is taken before the row lock (`pipeline.py:129`), so that of two
executions the later to get the lock may write the earlier time, which
`ck_listings_seen_times_ordered` can refuse; that refusal is a `Crash`.

### ScrapeSystem and the code

`Reserve` and `Insert` are the SELECT and the COMMIT of `trigger_scrape_run`;
`SendRun`, `TriggerReturns`, `TriggerRaises` the background task's call;
`CheckRun` and `MarkFailed` its `except` branch, which loads the run without a
lock and writes by id at commit. `inFlight`, `launches` and `begun` describe
Cloud Run, which is external: a request is lost or accepted, possibly after the
caller gave up, and an accepted execution starts one process (`max_retries` is
0). `HandlerLost` is the API process dying or being throttled after its response
(`cpu_idle`). Manual keys are taken to be started by Cloud Run only; the CLI uses
keys of its own.

### SearchTraversal, its client and its parser

`trav` holds the locals of `iter_kind`, `fetch` those of the client's call in
progress, `age` and `gap` the time since the last request as the session knows
it and as it was. `FetchSearch` and `FetchDetail` start a call; `Answer`, `Follow`
and `Reject` are one GET and the treatment of its answer; `ReadSearch` and
`ReadDetail` parse the result. Sreality is external: it lists ids in an order, may
insert or remove one between any two requests (`Appear`, `Vanish`), and answers
with the page, a page that lacks something, a redirect, or an error. `Ads` gives
each listing's JSON values, of which the parser reads an integer, `None` or
`Text` (another type). Names, texts and images of a detail are left out.

### ObjectStore and ImageArchive

`objects` is the bucket or directory, `call` a writer inside `store_json` or
`store`: `Look`, `WriteTemporary`, `Link` for files, `Upload` for Cloud Storage,
`Compare` for both. A step may also fail (`Break`): "failed" is what the callers
catch, "raised" what they do not, a `GoogleAPICallError` while an object is read
back (`images.py:195`). `patch[h]` holds a handler's locals and the rows its session
loaded; since sessions do not expire what they loaded, a row is compared and
written by those copies (`Written`), column by column. `SaveUserData` is the first
commit of a PATCH; then, per image in the order of position and id
(`Current`), `MarkPending`, `Fetch`, `StoreImage` and `MarkFailed` or
`MarkArchived`; `Raise` ends the request with an error the loop does not catch,
`httpx.InvalidURL` among them. `abandoned` remembers how the last handler at work
on an image ended if it left no mark. `Observe` is `_upsert_images` of the
pipeline: it adds rows in the order of their ids and moves those that are there;
an image the source no longer shows keeps its row and position, so a position may
have several rows. `Served(p)` is what the archive route answers for position
`p`: `Answering` is `ORDER BY id LIMIT 1` over the rows that have an object
(`ArchivedAt`), `Loaded` what can be loaded of it.

### Distances

`Persist` is the beginning of the pipeline's `_persist_detail`, which reads the
clock (`observed_at`) before it waits for the row of the listing; `CommitDetail` is
its transaction with `Locate`, the coordinates and the air distance stamped with
that time, `RollBackDetail` its failure. Between the two other scrapers may read
the clock, commit, or both. `EnrichPersisted` and `NextListing` look the row up, `Ask`, `Retry`, `Fail` and `Answer`
are the attempts of `compute_route`, `Insert` and `Collide` its row. `Shown` is
`_distance_value`: the newest row. The formula of the air distance is abstract.

### ReadApi

Queries are functions of the tables, one snapshot each: `Items` a page of
`list_listings`, `PriceHistory` and `EventHistory` a listing's history,
`MedianPoint` a point of the median chart. There is no variable.

### OwnerSession

`flow` and `session` are the browser's two cookies, `tab` what each tab shows,
`calls` the requests on their way with the cookies they were sent with. An answer
changes cookies when it arrives. The API is stateless, so its decision is taken
with the answer, apart from expiry (`Outdated`). A login is a number; state,
nonce, verifier, CSRF token and signatures are that number, because cryptography
is taken to work. Google's consent page is external.

### LegacyRunner

`csv`, `json`, `geo` are the folders, the tables are bags because nothing keeps a
row unique. One action is a step between two writes. `run.name` is the minute the
file names of a run use for prices; progress files take the minute of the save.

## 3. Runs

| Run | Question | Instance |
| --- | --- | --- |
| `pipeline_own_keys` | gate, truth and finality of results with crashes and resumed runs; what histories, pages and medians say of them | `MCReadApi`: 2 processes, 2 keys, 2 listings, 3 details, 4 filters, 3 executions |
| `pipeline_shared_keys` | what survives when two processes execute the same key | 2 processes, 3 keys (1 shared), 1 listing whose price comes and goes, 3 executions |
| `pipeline_partial` | violation: a partial run holding deactivations | as `pipeline_shared_keys` |
| `system_safety` | racing POSTs, lost and late requests, dying processes | 2 handlers, 3 requests, 1 manual and 1 scheduled key, 3 executions |
| `system_liveness` | every reserved run settles, no execution hangs | fair, no process dies, 2 manual keys run side by side on 1 listing, 1 handler, 2 requests |
| `system_failed_trigger` | violation: a failed run holding deactivations | 2 handlers, 3 requests, 2 executions |
| `traversal` | what a complete traversal has seen, its requests, that it ends, that it is a `ListingFeed` | 4 listings on 2 pages, a fifth may appear, 1 change of the site, 3 attempts, delay 3, back-off from 2, latencies 0 and 2 |
| `images` | rows against objects, what stays archived, which picture answers for a position, fields of racing PATCHes, write-once objects | 2 handlers that race for 1 image or work one after the other on 2 that move between 2 positions, any earlier user data, 2 PATCHes, 2 contents (one no bitmap), both backends |
| `images_failed_marks` | violation: an image left pending by a handler that did not die | as `images` with 1 image |
| `distances` | the distance shown when runs overlap, the request budget, what a clean back-fill covers, that every enrichment and back-fill ends | fair, 2 scrapers and a back-fill, 2 listings, 2 places, 2 details, limits 1 and 3, 2 attempts |
| `session` | who may write, which login survives, that tabs learn of a logout | 2 tabs, 2 logins, 1 expiry, 1 session request per tab and 2 other requests on their way |
| `legacy` | what a finished run has stored, that rows keep their places | 2 estates, 2 prices, 2 runs, 2 minutes, progress saved after each detail |

Bounds of the pipeline. Three executions allow a listing to be created, missed
(and deactivated) and found again, or a run to crash and be resumed next to
another one. Two listings let a run find one and drop the other, and give a list
two pages; where only row races matter one listing is enough, because
transactions of different listings touch disjoint rows. The details give a price
fall together with a content and a kind change, and a price alone that falls and
rises; `PriceDetails` gives the missing price.

Bounds of the others. Two pages of two listings is the least for which an
insertion pushes a listing over a page boundary and adds a page; three attempts
make two different back-offs, and the two redirects allowed can be exceeded in
any of them. Two PATCHes let one handler favour while the other races it on the
same image, or one after the other retry what failed; user data may exist from
earlier requests, and sources change while a request is still to come. One content
is no bitmap, the other is. Two images at two positions let either answer for a
position, both share one, or move apart. Handlers meet at one image at a time, so
the race needs only one: the constraint `RaceForOneImage` leaves out two handlers
at work once both images are known. Two
details let a listing move, also while its route is asked for, and let two
scrapers observe it and commit in the other order. Limits of 1 and 3 are reached
with retries to spare. Two tabs and two logins are the least for a cookie to
change under a request; one expiry lets either cookie go at any moment. Two runs
and two minutes let a run meet the files of one that died, in the same minute or
the next.

`TypeOK` of the pipeline is a conjunct of `SystemTypeOK`, which `system_safety` checks.

Deadlock checking is off in every run because the bounded executions and requests
are used up. Symmetry permutes listings, handlers, or processes together with
their keys, and is used in safety runs only.

Fairness. `SteadySpec` removes process deaths. It is weak fairness of each
process's execution (`Job`): processes are scheduled, a traversal yields each
listing at most once per category and so ends (`TraversalEnds`), and a free lock is
granted; and weak fairness of handlers and of Cloud Run (an in-flight request is
decided, an accepted execution starts). With process deaths a reserved run may
stay RUNNING for ever: nobody repeats the work.
`SearchTraversal` and `Distances` assume that the process runs on and that every
request is answered or times out (the clients set timeouts);
`Work(e)` of a process is one disjunction, so no single outcome is forced. The
transaction of a detail and the call after it (`Detail(e)`) are fair too: a row
lock is granted in the end.
`OwnerSession` assumes that every session request is answered or lost and that the
owner comes back to every open tab (`visibilitychange` refreshes); logins, saves
and logouts are never forced.

What the violations show. Two contradict
`docs/architecture/m1-01-database-schema.md:246`, that a partial or failed run
never holds a bulk deactivation. In `pipeline_partial` the second finisher of
one key overwrites `succeeded` with `partial`. In `system_failed_trigger` no key
is executed twice: the trigger times out, reads RUNNING, and overwrites the
result the job commits in between. `images_failed_marks` contradicts
`backend/README.md:239`, that the archival is resilient and leaves single errors as
`failed`: an error that the loop does not catch (`user_listing_service.py:94`) ends
the request and leaves its image pending and the following ones untouched.

### What the properties leave out on purpose

A property is stated as strongly as the code keeps it. Where a premise excludes a
case, the case is in the model and the code does behave that way in it:

- `NothingIsPushedOut` (`removed`): after a removal the next page begins one
  listing later, and a complete traversal has missed one. A succeeded run may then
  deactivate a listing that is still offered.
- `ShownIsCurrent` (`confused`): a listing that returns to an earlier place keeps
  showing the newer row of the other place, because the cached row is not renewed
  (`persistence.py:41`, `listing_repository.py:87`); a route asked for before a move
  and stored after it is shown for the new place when it has none of its own, or
  an older one; and when a run commits a detail after another run has stored one
  that was observed later, the row of the later observation is shown although the
  listing is where the earlier one saw it (`pipeline.py:129`, `:185`). Nothing else
  misleads, whatever overlaps.
- `PendingHasAnOwner` (`abandoned`): an image stays pending after a death and after
  an error that nobody catches, until the listing is favoured again.
- `ServedUntilMoved`: the route finds a picture by its position
  (`user_listings.py:28`), which observations rewrite (`pipeline.py:352`). An address
  a page has loaded earlier may therefore show another image of the listing, or
  none, after the source has dropped or reordered images; and where a dropped image
  keeps its position, the row of the lower id answers, which may be the old one.
  `ArchivedForGood` is what remains true of the image itself.
- `WithinBudget` is per client: the "daily" limit is counted by each process.
- A 404 of a listing removed between search and detail fails its category
  (`source.py:92`).
- `FinishedRunStoresAll` (`stale`): when a details file takes the name of an
  earlier one that has geodata, its records get the earlier records' places
  (`utils/utils.py:231`) and those beyond its length are never inserted. It asks
  for at least one row of an estate: progress files are cumulative, so beyond
  `SaveEvery` details an estate is inserted several times (`scraper.py:93`). A
  detail that could not be read is kept as a record without data and never tried
  again; a file with only such records ends every later run in `Enrich`.
- `RowsMatchObjects` says nothing of the status: a racing PATCH may set an
  archived image back to pending or failed; the route does not look at the status,
  so it is still shown. An image stored with a content that is no known
  bitmap is archived and cannot be shown (`images.py:95` against `:154`).
- `LastLoginSurvives` (`overtaken`): the answer of one login's callback deletes the
  flow cookie of another begun since (`auth_routes.py:86`); a logout's late answer
  deletes a session another tab has received since (`auth_routes.py:103`).
- `SignedOutTabsLearn` needs the owner to come back: an old session answer that
  arrives after a logout shows the tab as signed in again until the next refresh
  (`auth-provider.tsx:40`).
- `PagesCoverOnce` is about one snapshot: pages fetched while a run commits may
  repeat or miss a listing. `MediansAreFinal` holds of the category, which never
  changes; the filters by region, district, favourite and distance join the past
  with present values that do (`listing_insight_repository.py:259`).

## 4. Proofs

All theorems hold for any values of the constants that satisfy the named
assumptions of the modules (which TLC evaluates in every run): any sets of keys,
listings (both finite), details and processes and any number of executions; any
site, page size and back-off; any images, handlers and request bodies; any
limits; any tabs and logins; any estates. Every safety and action property of a
passing run is a theorem.

| Module | Theorems | Statement |
| --- | --- | --- |
| `ScrapePipelineProofs` | `TypeCorrect`, `CoreInvariant`, `ArchiveCorrect`, `HistoryCorrect` | `[]TypeOK`, `[]CoreInv`, `[]ObservationsArchived`, `HistoryOnlyGrows` |
| | `ReflectionCorrect`, `ChangesCorrect` | `[]ListingReflectsObservation`, `[]ChangesComeFromOtherRuns` |
| | `LedgerInvariant`, `LedgerCorrect`, `LifecycleRefined` | `[]LedgerInv`, `[]LifecycleLedger`, `ImplementsLifecycle` |
| | `ResultInvariant`, `GateCorrect`, `NeverDropsCorrect`, `ResultCorrect`, `FinalCorrect` | under `KeysAreOwn`: `[]DeactivationNeedsSuccess`, `[]NeverDropsWhatItSaw`, `[]ResultMatchesHistory`, `FinishedRunsAreFinal` |
| `ScrapeSystemProofs` | `OneExecution`, `SystemTypes`, `SystemLifecycle`, `SystemLedger` | of `SystemSpec`: `[]OneExecutionPerReservation`, `[]SystemTypeOK`, `ImplementsLifecycle`, `[]LifecycleLedger` |
| | `SuccessCorrect`, `SystemNeverDrops` | under `ScheduledKeysAreOwn`: `[]SuccessTellsTheTruth`, `[]NeverDropsWhatItSaw` |
| `ReadApiProofs` | `StoryCorrect`, `PagesCorrect` | `[]HistoryTellsOneStory`, `[]PagesCoverOnce` |
| | `MediansCorrect` | under `KeysAreOwn`: `MediansAreFinal` |
| `SearchTraversalProofs` | `RequestsBounded`, `PaceCorrect` | `[]RequestBudget`, `PoliteRequests` |
| | `FeedImplemented`, `DetailsCorrect`, `NothingMissed` | `ImplementsListingFeed`, `[]DetailsFitSchema`, `[]NothingIsPushedOut` |
| `ImageArchiveProofs` | `ArchiveTypesCorrect`, `RowsCorrect`, `WriteOnceCorrect`, `ArchivedCorrect`, `ServedCorrect`, `FieldsCorrect`, `PendingCorrect` | `[]ArchiveTypeOK`, `[]RowsMatchObjects`, `ImplementsWriteOnce`, `ArchivedForGood`, `ServedUntilMoved`, `FieldsKeepApart`, `[]PendingHasAnOwner` |
| `DistancesProofs` | `BudgetCorrect`, `ShownCorrect`, `CoverCorrect` | `[]WithinBudget`, `[]ShownIsCurrent`, `[]CleanBackfillCovers` |
| `OwnerSessionProofs` | `LastLoginCorrect`, `WritesCorrect` | `[]LastLoginSurvives`, `WritesAreAuthorized` |
| `LegacyRunnerProofs` | `PlacesCorrect`, `StoredCorrect` | `[]RowsKeepTheirPlace`, `[]FinishedRunStoresAll` |

Why the invariants are stronger than what they prove.

- `CoreInv` is `TypeInv /\ ControlInv /\ ArchiveInv`. `TypeOK` alone is not
  inductive: that a count stays a number needs the event set to be finite, and
  `ControlInv`, which says what a process's locals are at each control point.
  `ObservationsArchived` needs `ArchiveInv`: a process about to commit has its
  detail in the raw store, which stays because the store is write-once
  (`RawIsWriteOnce`), even when another process stores for the same run and
  listing. `HistoryCorrect` follows: an observation can only be written again with
  the object's content.
- `ReflectionCorrect` and `ChangesCorrect` add that what a process read under the
  row lock reflects an observation, and that before its own commit this
  observation is another run's.
- `LedgerInv` is the argument of the row lock. At most one process holds a
  listing's row (`Exclusive`); what it read is still there and the listing is new
  to its run when it commits (`RowKept`), because every other writer of the row
  either fails on the unique key or waits for the lock; every event but a
  deactivation comes with its observation (`Told`). Then each commit moves the
  counts of one listing by exactly one event, and each finishing step those of
  the listings it drops; both map to steps of `ListingLifecycle`, all others to
  stutters. No assumption on keys: doubled executions are included.
- `ResultInv` needs `KeysAreOwn`, that no two processes are started with one key;
  `pipeline_partial` is the counterexample without it. While a process executes a
  run only it writes the run's rows (`OwnRun`), so what `_finish_run` computed is
  still true when it writes (`Prepared`); a deactivation is from a succeeded run
  that is complete and did not see the listing (`Justified`); a running run has
  deactivated nothing (`Fresh`).
- `ReservationInv` follows a token: the right to execute a manual key is made with
  the run row and is with the one handler that may call Cloud Run, in flight, or
  used up by an execution, never in two of these places (`OneToken`); a process of
  the key is the one that execution began (`OneProcess`). For `SystemLifecycle`
  and `SystemLedger` every step of the system is a step of the pipeline, or a
  handler that writes only run rows, which `CoreInv`, `LedgerInv` and the
  lifecycle do not notice (`RowWriters`); that a handler marks a row which exists
  comes from the token again.
- `SchemaInv` is why a row merged from two writers still meets the checks. A
  finisher writes only columns that differ from what it loaded, so the resulting
  row is a mixture (`Flushed`). At most one process of a run is between its query
  for missing listings and its commit (`OneWriter`, the lock of the run row), and
  no other process of the key writes the row meanwhile; the handler's mark changes
  two columns, and a row it marks no longer says succeeded.
- `TruthInv` is `ResultInv` with a second writer. The mark leaves the columns
  alone that `_finish_run` computed (`Marked`), so they are still true when they
  are written (`Computed`); a row that says running has dropped nothing
  (`Unfinished`). `ScheduledKeysAreOwn` asks only that no two processes are
  started with one scheduled key: a generated key holds the microsecond at which its
  process began (`cli.py:115`). Manual keys need no assumption, their
  reservation is proved to be exclusive.
- `TraversalInv` counts requests by attempt and redirects of the call in hand
  (`Spent`). For the feed it says that what was read is of the site and that
  whatever was yielded is in `seen_ids`, so a listing about to be yielded is new,
  whatever moved between the pages.
- `PaceInv` says that the session's own clock is right (`age = gap`) and that a call
  about to repeat a request has waited its back-off, counted from the answer. A
  back-off fits below `LongAgo`, the value at which both clocks stop.
- `DetailsCorrect` needs what `SsrParser` returns to meet the checks for every
  advert (`ParsedFits`, `YieldsFit`). The parser checks types, not ranges: that
  prices and areas are not negative and coordinates are on the globe is an
  assumption about Sreality (`AdsAssumption`); the database would refuse any other
  row.
- `MissInv` follows every listing of the start: it has been seen, or is on a page
  still to be read and within `total_pages`, or on the page in hand, or among its
  rows not yet yielded (`AheadInv`). An appearing listing moves the others to the
  right only (`InsertKeepsBeyond`), and `total_pages` covers the site it was read
  from (`PagesReach`), which has not lost a listing since.
- `ArchiveInv` is about copies: every copy of an image row a handler loaded,
  however long ago, fits the object (`Fits`), and a key that some handler loaded
  is still in the table. So a column-wise write by any of them leaves a fitting
  row. It rests on the objects being write-once, proved before. That an image stays
  archived and is served until it moves follows: its row keeps key and object
  (`NamedStays`), and of the rows of a position the least id is unique
  (`AnsweringIsFirst`).
- `PendingInv` adds that a handler at work has a copy saying pending. With
  `archived` or `failed` it therefore writes a change, also when another handler
  has written the row since: an equal copy would not have been flushed, and the
  row would have stayed pending for ever.
- `BudgetInv` counts by control point: a back-fill passes its limit only by the
  attempts of the listing in hand (`Allowed`).
- `ShownInv` orders the rows in time, though not in that of commits: the air row of
  the present place has a later time than any other of its listing, and the road
  rows of its place later ones than those of other places (`Newest`), unless the
  listing is confused. A detail that commits with an older time than a row of its
  listing confuses it, so each other one stays newest; an answer in hand is for the
  place it was asked for, which is where the listing is, and newer than what is
  known of the roads from elsewhere (`InHand`). `CoverInv` names the listings a back-fill has
  considered, as many as it counts, none of them among those left, each settled
  unless in hand or failed. Listings are finite because a count is compared with
  their number.
- `SessionInv`: while a tab is away to log in its login is its own and no cookie or
  request carries it (`AwayInv`), so a session cookie always belongs to a completed
  login of the owner's account; the flow cookie stays the last login's until its
  callback is sent and the callback carries it (`FlowInv`).
- `StoryInv` is the argument of the price chart: what a process read under the row
  lock is the price another run observed (`ToldPrice`), every price event has two
  observations on the right sides (`PriceTold`), and each new price brings an event
  (`Counted`, by cardinalities). Doubled executions are included. `MediansCorrect`
  needs `KeysAreOwn`, as a second execution adds observations to a succeeded run.
- `PagesCorrect` shows that ORDER BY is a strict total order, so that a listing's
  number of predecessors is its place and the places are 0, 1, ... without a gap
  (`Places`); a page is an interval of them (`PlacesBetween`).
- `LegacyInv`: geodata of a file are those of its records or the file is stale
  (`Matching`); the prices of a run are in the table all together or not at all
  (`Together`), which is why looking up each column on its own finds exactly the
  known rows; and a run at work has none in it (`Earlier`).

Model-checked only: liveness (`ExecutionsEnd`, `ReservedRunSettles`, `TraversalEnds`,
`EnrichmentsEnd`, `SignedOutTabsLearn`), because fairness and ENABLED are out of the
prover's reach. Recursive definitions and induction over data are out of its reach
as well; the modules under proof use neither.

## 5. Plan

Next, in this order: the safety half of the liveness properties as invariants
(what a process waits for is always held by another that can move); the times of
a listing (`first_seen_at`, `last_seen_at`) with the check that orders them; the
front end's explorer and price chart, whose late answers may overwrite newer
ones; torn files of the legacy scraper.

Not modelled and why:

- Notebooks (`src/old version`, `test and dev.ipynb`): hand-run cells, in an order
  nobody fixes, of what became the legacy scraper, and one-off analyses.
- Terraform, monitoring and build files: declarative; the limits they set on
  processes (no retries, time limit, idle CPU) are in the pipeline and the system.
- Maintenance scripts: offline reports without state.
- Settings and logging: pure validation and formatting.
- Front end: rendering, map, explorer and price chart (`price-dashboard.tsx:17`
  keeps old medians while new ones load and after they failed). The answer of a
  save to its form is left out too: text typed while a save is on its way is
  replaced by the answer (`user-listing-controls.tsx:23`).
- Read API: the map query, current medians, and the filters by region, district,
  area, distance and the owner's flags.
- Cryptography of cookies and tokens, the haversine formula, texts of a listing.
