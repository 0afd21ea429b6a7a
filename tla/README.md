# ListenBrainz server: TLA+ specifications

Specifications, model-checking configurations and proofs of the parts of the ListenBrainz
server whose correctness depends on the order in which several processes, transactions or
messages take their steps. Every definition is translated from the code under `src/`;
`PROJECT.json` gives, for each definition, the lines it stands for. Line numbers below are of
files under `src/listenbrainz/` unless another path is given.

- [1. The system](#1-the-system)
- [2. Modules and how they correspond to the code](#2-modules-and-how-they-correspond-to-the-code)
- [3. Runs, bounds and fairness](#3-runs-bounds-and-fairness)
- [4. Proofs](#4-proofs)
- [5. Where code and comments disagree](#5-where-code-and-comments-disagree)
- [6. Not modelled](#6-not-modelled)
- [7. Plan](#7-plan)

## 1. The system

### Components

| component | state it keeps | operations | interacts with |
|---|---|---|---|
| API and web (`webserver/`) | none of its own | submit listens, delete a listen, read a page of listens, request an export, an import, a deletion | publishes to RabbitMQ, queries and updates PostgreSQL, fills and invalidates Redis, uploads to object storage |
| timescale writer (`timescale_writer/`) | the message in hand | consume a message, look up MSIDs, write two databases, announce what is new | RabbitMQ, MessyBrainz, Timescale, the listens database, Redis |
| MessyBrainz (`messybrainz/`) | `messybrainz.submissions` | look up or create the MSID of a recording | called by the writer |
| listenstore (`listenstore/`) | the listen table of Timescale, the recent listens and daily counts of Redis | insert, fetch, queue a deletion | called by writer, web, cron |
| listens database (`db/listens.py`) | `listen`, `listen_user_metadata`, `listen_delete_metadata`, `deleted_user_listen_history` | six transactions: insert, delete pending, delete a history or an account, add missing rows, recalculate | called by the writer, the hourly cron job, background tasks, `manage.py` |
| listens cache (`webserver/listens_cache.py`) | pages, tracking sets and counts in Redis | get, set, invalidate | filled by readers, invalidated by whoever changes listens |
| background tasks (`background/`) | `background_tasks`, with claims | claim, run, release, remove | runs exports, imports and deletions |
| exports and imports (`background/export.py`, `background/listens_importer/`, `db/user_data_export.py`, `db/background.py`) | `user_data_export`, `user_data_import`, two buckets | request, cancel, delete, run, clean up | web, background tasks, cron |
| playlists (`db/playlist.py`, `webserver/views/playlist_api.py`) | `playlist.playlist`, `playlist_recording`, `playlist_collaborator` | create, copy, edit, delete; insert, delete and move recordings; replace what a bot made | web, the bot's submissions |
| timeline (`db/pinned_recording.py`, `db/user_relationship.py`, `db/user_timeline_event.py` and their views) | follows, events, pins, hidden events | follow, recommend, thank, pin, unpin, hide, delete; read a feed in threads | web, deletion of accounts |
| ClickHouse jobs (`clickhouse/`) | `clickhouse_query_jobs` with claims, a result queue | claim, run, release, fail, remove; handle results | PostgreSQL, RabbitMQ, CouchDB |
| external importers (`listens_importer/`, `domain/`) | `external_service_oauth`, `listens_importer` | poll Last.fm, Spotify, Libre.fm; refresh and revoke tokens | submit through the same pipeline |
| Spark results (`spark/`, `db/couchdb.py`, `src/listenbrainz_spark/`) | dated CouchDB databases | calculate and publish a run, replace a dataset, dump one | RabbitMQ, CouchDB |
| MBID mapping writer (`mbid_mapping_writer/`) | a priority queue in memory, the mapping tables, an index in the cache | take unique listens, match them in a pool of threads, recheck, walk through legacy listens | the unique queue, the mapping database |
| metadata caches (`metadata_cache/`) | a unique priority queue, cached albums | seed, crawl | external APIs, the unique queue |
| websockets (`websockets/`) | rooms | dispatch unique and playing-now listens | RabbitMQ |
| feedback, dumps, legacy API, art, radio, labs | rows and files of their own | short transactions, reads, batch jobs | PostgreSQL |

A listen's way: `POST submit-listens` → `incoming` queue → timescale writer → Timescale, then
the listens database (with the user's count and bounds) → Redis → `unique` queue → mapping
writer and websockets. Reads come from the listens database through the Redis cache. A single
listen is deleted by a queued request that an hourly job carries out; a history or an account by
a background task. Importers enter where the API does. Statistics go the other way: the cluster
publishes them, the Spark reader stores them in a new database, the API reads the newest.

### What is hard, and what must hold

- **Listens database.** Transactions of the writer, cron, background tasks and maintenance
  commands meet on the same listens and metadata rows under READ COMMITTED: deltas against
  recounts, snapshots against locks, lock order, rollbacks. *A user's count and bounds agree with
  the stored listens; a resolved request's listen is gone; ingestion is never part of a deadlock
  with a deletion; requests are resolved in the end.*
- **Ingestion.** Two databases without a common transaction, redelivery after a crash at any
  step, publications whose confirmation is lost, a list in Redis that is counted and pruned in requests
  of their own. *An accepted listen is never lost; a stored row
  is announced once, and only when it is stored; every message is settled.*
- **Cache.** Reads, fills and invalidations are separate requests to PostgreSQL and Redis. *A page
  that no reader raced with is current; a count is not ahead of the listens.*
- **Background tasks.** Claims that outlive crashes, SIGTERM at any step, files in a store without
  transactions, clean-up jobs that list and then delete, cancellations against workers. *One worker
  per task; a cancelled import imports nothing; a finished one never runs again; an unfinished
  export has its task; what arrives after a deletion was requested stays; tasks go away.*
- **Playlists.** A request reads the playlist in one transaction and writes positions computed from
  it in another; a move writes in two; nothing keeps positions apart. *Positions are 0, 1, 2 and so
  on; a list is what its requests asked for; a bot's playlist is replaced in one step.*
- **Timeline.** `NOW()` is when a request began, not when it writes; UPDATE and INSERT see snapshots
  of their own; a feed is read by seven threads, any of which may fail. *One active pin; every pin
  can be read; a feed holds what it should and marks what is hidden.*
- **ClickHouse jobs.** Claims expire while their workers are alive; results are published one by one
  and may be published again. *No result of a removed job is lost, results are handled in order, an
  ended job stays ended, and every job ends.*
- **Importers.** Pages shift while they are read, or are limited to the plays that one request answers; the latest
  time is recorded apart from the submission; tokens are refreshed by two processes. *No play is skipped; plays
  arrive.*
- **Statistics.** Start, data and end are separate messages that may be delivered twice; databases
  are chosen by their names when a message is handled, and read one by one while the reader deletes
  them. *Statistics do not vanish or grow older, neither in the databases nor for who reads them; a
  locked database is kept; messages are acked.*
- **Mapping writer.** Messages are acked before they are processed; what is lost is found by a walk
  through time, whose index is cached. *A listen without a row is on its way to one, and gets it.*

The hazards, each at its line and with the properties that cover it, are in `PROJECT.json`.

## 2. Modules and how they correspond to the code

| module | models | extends / instantiates |
|---|---|---|
| `ListensDB` | the transactions of `db/listens.py` | |
| `ListensDBProofs` | proofs about `ListensDB` | `ListensDB`, `TLAPS` |
| `ListenDelivery` | abstract: what ingestion promises | |
| `ListenPipeline` | API, queues, writer, MessyBrainz, both databases | `INSTANCE ListenDelivery` (refinement mapping `Delivery`) |
| `ListenPipelineProofs` | proofs about `ListenPipeline` and what feeds it, `ListensImporters` | `ListenPipeline`, `ListensImporters`, `TLAPS` |
| `ListensCache` | pages, tracking set and count in Redis | |
| `ListensCacheProofs` | proofs about `ListensCache` | `ListensCache`, `TLAPS` |
| `BackgroundTasks` | tasks, exports, imports, deletions, clean-up | |
| `BackgroundTasksProofs` | proofs about `BackgroundTasks` | `BackgroundTasks`, `TLAPS` |
| `PlaylistLists` | abstract: a playlist is a sequence that requests edit as they ask | |
| `Playlists` | rows with positions, and the requests that read and then write them | `INSTANCE PlaylistLists` (refinement mapping `Lists`) |
| `PlaylistsProofs` | proofs about `Playlists` | `Playlists`, `TLAPS` |
| `Timeline` | follows, events, pins, hidden events, feeds | |
| `TimelineProofs` | proofs about `Timeline` | `Timeline`, `TLAPS` |
| `QueryJobs` | job table, workers, result queue, consumer | |
| `QueryJobsProofs` | proofs about `QueryJobs` and the other source of statistics, `StatsResults` | `QueryJobs`, `StatsResults`, `TLAPS` |
| `ListensImporters` | Last.fm's and Spotify's importers for one user | |
| `StatsResults` | cluster, result queue, Spark reader, CouchDB, reads, dump | |
| `MappingQueue` | consumer, job queue, loader and thread pool of the mapping writer | |
| `MappingQueueProofs` | proofs about `MappingQueue` | `MappingQueue`, `TLAPS` |
| `MC...` | values of the constants for TLC | the module they are named after |

Each module ends with its properties. Operators named `X_Something` next to an operator `X` are
variants of `X` with a plausible bug; `PROJECT.json` says which property each of them breaks.

### ListensDB

A session is a database connection with a transaction of one call in progress. `op`, `pc` and
`arg` say which and how far; `rows` are the rows its first statement has still to insert or delete
(fixed in the statement's snapshot, in whatever order the plan visits them), `ins` and `del` what
it has written without committing. The metadata rows it has locked are those with `mlock[u] = s`,
and `mnew[u]` is the value that its commit publishes.

| call (`db/listens.py`) | actions |
|---|---|
| `insert` 137-179, one transaction per chunk | `BeginInsert`, `InsertRow` (waits for a transaction in progress on the key, then skips a duplicate), `AddCount` (locks metadata rows in `user_id` order and adds the delta to the latest committed row), `CommitInsert` (next chunk or end) |
| `delete_pending_listens` 182-256 | `BeginDeletePending` (advisory lock, snapshot of requests and listens), `DeleteRow`, `SubtractCount`, `RefreshBounds` (a second statement, so a later snapshot), `CommitDeletePending` (resolves the requests of the snapshot) |
| `delete_user` 259-295 | `BeginDeleteUser`, `DeleteRow`, then `LockMeta` and `RefreshMeta` or, for an account, `DropMeta`; `CommitDeleteUser` |
| `add_missing_to_listen_user_metadata` 298-316 | `BeginAddMissing`, `AddMissingRow`, `CommitAddMissing` |
| `recalculate_listen_counts` 343-384 | `BeginRecalculate`, `Compare`, `LockMeta`, `RefreshMeta`, `CommitRecalculate` (next batch or end) |
| `TimescaleListenStore.delete_listen` | `QueueDeletion` |
| `except: rollback`, lost connection | `Rollback`; `DeadlockVictim` is PostgreSQL's choice among the sessions of a waiting cycle |

External, modelled from their use: row locks, unique-index waits, READ COMMITTED snapshots,
deadlock detection. Abstracted: a listen's data column; `created` is a counter that `insert()`
advances. The metadata of a user starts as absent, empty or right, which is what sign-up, the
schema upgrade and earlier runs leave. A user is *synced* from the moment some state, comparison
or recount made the row right; the count and bounds invariants are about synced users, so they
also say that recalculation repairs whatever it finds wrong.

### ListenPipeline and ListenDelivery

`ListenDelivery` has four variables: listens taken in and not settled, stored, rejected, announced;
a listen may be let go of only when stored or rejected and announced only once and when stored.
`ListenPipeline` implements it (`DeliverySpec`): `open` is what is in messages not acked, `stored`
is the listens database, `announced` the messages of the unique queue. The unique messages keep their
listens by the places they have in the batch: what matters is which listens a message has and that it
has none twice.

`Submit`, `PublishChunk`, `PublishFails` are `insert_payload` and `publish_data_to_queue`
(`webserver/views/api_tools.py`); a lost confirmation publishes a chunk twice. A writer goes through
`Deliver`, `Lookup`, `Register` (MessyBrainz), `InsertTimescale`, `InsertListens`, `Account` (daily
count and cache invalidation, whose errors are swallowed), `AddRecent`, `CountRecent` and `PruneRecent`
(together `UpdateRecent`: ZADD, ZCARD and ZPOPMIN, each a request of its own), `PublishUnique`, `Ack`;
`Fail` is any error that leads to the rejection queue, `Crash` a death or a database error, after
which the message is delivered again. A whole transaction is one action here: how the transactions
interleave inside is `ListensDB`'s subject, and `InsertListens` is its abstraction (the rows that are
new are reported, all are stored). Of the recent list, `pushed` holds what was ever added; `stale` are the
writers whose count another writer has made too large by pruning, and `lapsed` what such writers popped.

### ListensCache

One user. Readers take `BeginPage`, `QueryListens`, `QueryBounds` (a second snapshot), `Track`,
`Fill`; or `BeginCount`, `FillCount`. A change commits in the database and then goes through the
requests of its invalidation: `DeleteCount` (not for ingestion), `ReadMembers`, `DeletePages`,
`DeleteTracking`. Changes are `Ingest`, `RequestDeletion`, `DeletePending`, `DeleteHistory` and
`DeleteAccount` (which invalidates nothing). Redis expiry is external. The history variables
`overlap`, `excused` and `late` mark the pages and counts that a named race may have left stale;
the properties say that everything else is current.

### BackgroundTasks

One user, several workers. `task[k]` is the row of kind `k` (the table is unique on user and kind).
`Claim`, `Release`, `Remove`, `ExpireClaim` are the claim protocol; a worker's `wpc` is the next
statement of the task's handler. Requests are `RequestExport`, `DeleteExport`, `RequestImport` →
`UploadFile` → `CreateImport`, `CancelImport` → `CommitCancel` (its transaction locks the import and
its task while it deletes the file), `RequestDeletion`. `Fail`, `Shutdown` and `Crash` can strike
at every step and lead where the code's `except`, `finally` and signal handler lead. `ListExports` /
`SweepArchives` and `ListFiles` / `SweepFiles` are the clean-up jobs, whose reading of the rows and
deletion of objects are separate steps. `SlowWorkers` says whether a task may outlast its claim.

### Playlists and PlaylistLists

`playlist[p]` is a row with its tracks, `[id, mbid, by, pos]`. A request is between its two
transactions when `req[q]` is not `Idle`: it has read the playlist (`Begin`: existence, rights, and
`known`, the number of recordings it counted) and has yet to write. `add_playlist_item`,
`delete_playlist_item`, `move_playlist_item`, `edit_playlist` and the creation by a bot begin a
request; `AddCommits`, `DeleteCommits`, `MoveDeletes` then `MoveAdds`, `EditCommits`, `CreateCommits`
end it with the UPDATE, DELETE and INSERT statements of `db/playlist.py`, and `Fails` loses what is
left of it. `create_playlist`, `copy_playlist`, `delete_playlist` are one step; `EraseUser` is the
deletion of an account with its cascade. `upset[p]` records that two requests edited `p` at once or
that a hole came about.

`PlaylistLists` is the same playlist without positions: a sequence, and what each request asks to do
with it. Every step of `Playlists` maps to an edit as asked, a request stated or given up, or a
playlist made or gone (`ListsAsAsked`); an upset playlist maps to `Unknown`, of which nothing is said.

### Timeline

Time is the number of requests: `Request(u)` authorizes the user and is the time `NOW()` has for the
whole request. Requests of one statement are one action. Those that check and then write are two
(`hide_user_timeline_event` → `Hide`, `create_thanks_event` and
`create_personal_recommendation_event` → `Insert`) and pins are three: the request
(`pin_recording_for_user`, `unpin_recording_for_user`), the snapshot of the UPDATE (`FindPins`), and
UPDATE, INSERT and commit (`pin`, `unpin`, `PinFails`). `Unpinned` says which rows the UPDATE changes:
those of its snapshot, looked at again once they are not locked. `user_feed` reads whom the user
follows; `ReadKind` is one of the threads, with a snapshot of its own and errors that leave its kind
out (`Unreadable` are the rows no thread can turn into objects); `get_feed_events_for_user` merges, marks
what is hidden by its id, and cuts.

### QueryJobs

`rows[j]` is a job's state and claim; a claim is its number, as the code compares `claimed_at`. A
worker goes through `claim_job`, `process_job`, `publish` (one result), `remove_job`; an error leads
through `Raises` to `fail_job`, SIGTERM to `release_on_shutdown`, a death to `Crash`, and `start` starts
the process again. `ClaimExpires` may hit a job that is being worked on. The broker may take a result
and lose its confirmation, or reject it. `callback` and `ack` are the consumer, which may restart
in between. No query is registered in the code yet, so the number of results is a constant.

### ListensImporters

Plays of the external account are numbered. `get_active_users_to_process` reads the row, which the batch then goes
by whatever the user does. Last.fm: `StartLastfm` counts the pages, `SubmitPage` submits one, from the oldest to
the newest, `RecordLatest` records its newest play, `SyncedLastfm` ends. Spotify: `RefreshSpotify`, `StoreSpotify`,
`RefusedSpotify` and `ReportRefused` are the token, `SubmitRecent` and `RecordRecent` the plays: `Recent` are those
that Spotify may answer when it is asked for at most `RecentLimit` after the recorded time (`limit=50`,
`spotify.py` 197). Which of more plays it answers is Spotify's, so the model has any, and `omitted` are those
before the newest answered that were not. Requests of the user are `music_services_connect`,
`music_services_callback`, `music_services_disconnect`, `delete_listens_history`, `refresh_service_token` with its
own three steps.

### StatsResults

A run publishes start, data and end messages (`StartRun`, `Publish`, `RunFails`), for the users of one member of
`FullRuns`: those who have listens in its range, who need not be those of the run before. The reader's main
thread takes messages over (`SparkReader_callback`) and acks what is handled (`on_iteration`). Its background thread
handles one after the other (`CouchDbDataset_handle_start`, `StatsDataset_handle_insert`,
`CouchDbDataset_handle_end` with `check_database_lock`, `delete_database`, `SweepEnds`), and then rolls back its
database sessions and puts the message on the ack queue (`process_message`). `handling` is how far it is. A rollback that
raises takes it out of `process_message` into the `except` of `run()` (`background.py` 135-138), which stops the
pools and joins the thread from within itself: `ThreadDies`. The main thread then takes messages and acks none, until
a lost connection (`RunRaises`: a new thread, the old pools) or a new process (`Restart`); what brings a dead
thread back is not counted in `MaxErrors`. `fetch_data` lists the
databases for a user's request, `get_document` asks the newest not asked yet, `nothing_found` ends without an answer;
the reader may take any of its steps in between. `dump_database`, `lock_database`, `unlock_database` are the dump.

`latest(u)` is the newest stored document of a user, what a read without anything in between answers. `StatsStay` is
about this and `AnswersNotOlder` about the reads. What they except is recorded: `counted` says whom a run has statistics of,
`missed` which were not stored although their message was handled, `again` how many messages at the head of the queue
have been handled before and were delivered again; a read is `crossed` when the database with the user's newest document is
deleted, or data are stored a second time, before it is answered.

### MappingQueue

`callback` puts a message in `pending` and acks it. `Collect`, `Take`, `Filled` are the loop of
`MappingJobQueue.run`, `JobStarts` and `JobCommits` a job in the pool, and `LoaderStarts`, `LoaderRechecks`,
`LoaderReads`, `LoaderFilters`, `LoaderPuts`, `LoaderEnds` the thread that loads rows to recheck and the next
window of legacy listens. `Dies` is an error that leaves the loop, wherever the walk is. `index` is where the walk
is and `cached` what a new process would resume at. Matching is external: any subset of a job's recordings is
found.

## 3. Runs, bounds and fairness

| run | instance | distinct states | shows |
|---|---|---|---|
| `ListensDBIngest` | 2 users, 2 timestamps, 2 sessions, insert and pending deletions, 2 inserts, 2 requests, 1 rollback | 412,863 | `ResolvedListensGone`, `NoInsertDeleteDeadlock`, `RequestsResolved` |
| `ListensDBCalls` | 1 user, 2 sessions, all six calls, chunks of 1 listen, 1 insert, 1 request, 1 rollback | 1,147,276 | `CountsInductive`, `CountsRight`, `BoundsRight` |
| `ListenPipelineSafety` | 1 writer, requests of 3 and 1 listens with one in common, 4 messages, a recent list of 1 pruned at 3, 2 failures | 368,561 | `AcceptedNotLost`, `FailedWriteStillReported`, `AnnouncedOnce`, `NewestAreThere`, the refinement `DeliverySpec`, and `MessagesSettled` |
| `ListensCacheSafety` | 2 listens, a page, 2 readers, 2 changers, 2 changes, 1 failure | 4,898,014 | `PagesFresh`, `CountNotAhead` |
| `BackgroundTasksExports` | 2 workers, 2 exports, a history deletion, 3 tasks, 1 failure | 1,344,806 | `OneWorkerPerTask`, `ExportHasTask`, `LaterListensKept` |
| `BackgroundTasksImports` | 2 workers, 2 imports of a service, an account deletion, 2 tasks, 1 failure | 122,240 | `CancelledNotImported`, `FinishedImportsStay`, `TasksSettle` |
| `Playlists` | 2 users and a bot, 2 requests at once, 2 recordings at a time, 2 playlists of at most 4 recordings, 2 edits | 339,078 | `PositionsContiguous`, `JamsReplaced`, the refinement `ListsAsAsked` |
| `Timeline` | 2 users, 2 requests at once, 3 requests, feeds of 1 event of 6 kinds, 1 failed thread | 3,443,149 | `OnePin`, `PinsReadable`, `FeedExact`, `HiddenMarked` |
| `QueryJobs` | 2 workers, a job with 2 results and one without, 3 failures | 444,433 | `ResultsNotLost`, `HandledInOrder`, `EndedStays`, `JobsSettle` |
| `ListensImporters` | either service, pages of 2, answers of 2, 4 plays, 3 tokens, 3 changes, 2 failures | 520,771 | `NoneSkipped`, `PlaysArrive` |
| `StatsResults` | 3 users, 2 runs of two of them, the same or not, reads of one who is in every run, 1 failure, the dump | 1,702,074 | `StatsStay`, `LockedKept`, `AnswersNotOlder`, `MessagesSettled` |
| `MappingQueue` | an old and a recent listen, windows of 2, 2 threads, 2 jobs queued, 1 failure, 1 recheck | 720,776 | `NoneForgotten`, `ListensMapped`, `RowsRechecked` |

Every module of the program's parts states a type invariant `TypeOK` (`ImportersTypeOK`, `StatsTypeOK`); TLC
confirms it in the configurations named when it is added to their invariants, and the theorems prove it of each of
these ten modules (section 4). Six more properties hold and are in no configuration: `TimescaleHasAll` and
`OneMsid` of `ListenPipeline` (`ListenPipelineSafety`), `UnfinishedHasFile` and `UnneededFilesGo` of
`BackgroundTasks` (`BackgroundTasksImports`), `CompletedHasArchiveOrSwept` (`BackgroundTasksExports`), and
`RecentKeepsNewest` of `ListenPipeline`. All but `UnneededFilesGo`, which is liveness, are proved.

`src/docker/docker-compose.yml` (136) runs one writer, and so does `ListenPipelineSafety`. With two
(`SPECIFICATION Spec`, `Writers = {w1, w2}`, `Batch <- SmallBatches`, `MaxMessages = 3`, 4,574,796 states)
`AcceptedNotLost`, `FailedWriteStillReported`, `AnnouncedOnce` and `TimescaleHasAll` hold too. `NewestAreThere` does
not: a writer that has counted the recent list pops after the other has pruned it. `RecentKeepsNewest` says what is
left of it, that nothing else than such a pop takes one of the newest away; it holds with two writers
(`SPECIFICATION Spec`, `Writers = {w1, w2}`, `Batch <- PrunedBatches`, `MaxMessages = 3`, `MaxFailures = 1`,
`SYMMETRY Alike`, 1,812,787 states).

**Why the bounds are enough to be interesting.** Every hazard the properties name needs two actors and one or two
data items: two transactions on one user's rows, two users for lock order, a duplicate listen for the upsert, a
request whose listen is not there, a batch larger than a message and than `INSERT_BATCH_SIZE` (both constants are 1
or 2 here), a second reader or changer between two requests to Redis, one failure at any step and, in the pipeline,
a second failure during recovery. Two edits of a playlist are enough for each to meet what the other has left, and
four recordings for a range in the middle. Three requests on a timeline are two pins that overlap and one that
follows, an event hidden and a feed that shows it, or an event that is deleted while the feed is read; pages of one
event are cut as soon as there are two. Two results of a job have an order; three failures are a lost confirmation,
an expired claim and a crash. Four plays on pages of two shift from one page to the next, and are more than one
answer of two. Three different listens are what it takes to prune a recent list of one; the other writer that would
prune it between the count and the pop is in the configuration above. Two runs have an older and a newer database;
of three users, the runs have one in common, who may have statistics in the newer database or not yet, and one each
whom the other run may lack. Two windows have a walk that is before
or past a listen. `MaxNow`, `MaxRequests`, `MaxMessages`, `MaxTasks`, `MaxListens`, `MaxChanges`, `MaxPlaylists`,
`MaxTracks`, `MaxPlays`, `MaxTokens`, `MaxRuns`, `MaxDue`, `MaxErrors` and `MaxFailures` cap counters that the program does not
cap; each is a guard of the action that counts. Sessions, workers, readers, ids and services are symmetric where
only safety is checked.

`CHECK_DEADLOCK FALSE` in most configurations: the system stops when the clients have asked for what
the bound allows, which is a state the program may well rest in. The importers' loop never rests, and
that configuration checks for deadlock. A set of sessions that wait for each other is not hidden by
this: it is a formula (`Deadlock`) of `ListensDB` and PostgreSQL breaks it.

**Fairness.**
- `ListensDB`: weak fairness of every session's next step and of deadlock resolution (a statement
  that can run does, and `deadlock_timeout` fires), and of starting `delete_pending_listens`, which
  `src/docker/services/cron/crontab` does every hour. Nothing forces ingestion, requests or failures.
- `ListenPipeline`: weak fairness of each writer's next step: runit starts a writer that exited and
  RabbitMQ delivers queued messages. Failures are bounded by `MaxFailures`, so a message that always
  fails in the database is not covered.
- `BackgroundTasks`: weak fairness of claiming and of each worker's steps (the container restarts
  them), of claims growing old, of a cancellation's commit and of the clean-up jobs.
- `QueryJobs`: of each worker's steps and its restart, of the consumer, and of claims that grow old
  while no worker holds the job; a job that is worked on need not lose its claim.
- `ListensImporters`: of the importer's own steps, which run in a loop with a pause.
- `StatsResults`: of publishing what a run has calculated, of the reader's main thread (its consumer and acks), and of
  the background thread while it lives. Nothing brings a dead thread back: a lost connection or a restart may, and
  `MessagesSettled` excepts the time until then.
- `MappingQueue`: of the consumer, the loader, the loop, the pool's threads, and of the day's passing
  after which a walk that has ended starts anew.
- `ListensCache`, `Playlists`, `Timeline`: safety only. (`Playlists` defines `FairSpec`, which one of the
  scenarios of section 5 uses.)

**What the history variables are for.** `erased`, `synced`, `targets`, `skipped`, `unreported`, `pushed`,
`overlap`, `excused`, `late`, `deleted`, `asked`, `submitted`, `cancelled`, `spoiled`, `swept`, `upset`, `twins`,
`crossed`, `handled` and `dropped` (of `QueryJobs`), `since`, `overtaken`, `stale`, `lapsed`, `counted`, `missed`,
`again`, `lost` and `passed` record what happened; no guard of an action reads them. Exceptions they make are named
in the property's comment: for instance, `PositionsContiguous` excepts playlists that two requests edited at once,
because the code itself says that such an edit can lead to invalid lists (`db/playlist.py` 988), and playlists with
a hole, because `HoledListsAsAsked` shows that those stay.


## 4. Proofs

Each proof module EXTENDS the module it is about; check one with `tlapm <module>.tla`. Two hold the proofs of
two components each, one after the other: `ListenPipelineProofs` ends with those of the importers, which submit to
the pipeline, and `QueryJobsProofs` with those of Spark's results, the other statistics. No theorem speaks of both;
the definitions of `ListensImporters` and `StatsResults` that every specification has bear the component's name
(`ImportersSpec`, `StatsSpec`) so that one module can extend two.

| theorem | module | statement |
|---|---|---|
| `TypeCorrect` | `ListensDBProofs` | `Spec => []TypeOK` |
| `CountsInductiveCorrect` | `ListensDBProofs` | `Spec => []CountsInductive` |
| `CountsCorrect` | `ListensDBProofs` | `Spec => []CountsRight`: a user's count, once right, stays equal to the number of committed listens until the account is deleted |
| `BoundsCorrect` | `ListensDBProofs` | `Spec => []BoundsRight`: so do the bounds of a history that reads page by |
| `NoInsertDeleteDeadlockCorrect` | `ListensDBProofs` | `Spec => []NoInsertDeleteDeadlock`: no cycle of waiting holds an ingestion and a deletion |
| `ResolvedListensGoneCorrect` | `ListensDBProofs` | `NoRepeats` implies `Spec => []ResolvedListensGone`: a request that is resolved has deleted its listen |
| `TypeCorrect` | `ListenPipelineProofs` | `Spec => []TypeOK` |
| `AcceptedNotLostCorrect` | `ListenPipelineProofs` | `Spec => []AcceptedNotLost`: what was answered with 200 waits, is stored or is rejected |
| `FailedWriteStillReportedCorrect` | `ListenPipelineProofs` | `Spec => []FailedWriteStillReported` |
| `AnnouncedOnceCorrect` | `ListenPipelineProofs` | `RepeatFree` implies `Spec => []AnnouncedOnce` |
| `RecentKeepsNewestCorrect` | `ListenPipelineProofs` | `Spec => []RecentKeepsNewest`: the newest ever added are in the list, or were popped on a stale count |
| `OneWriterKeepsNewest` | `ListenPipelineProofs` | `OneWriter` implies `Spec => []NewestAreThere`: with one writer they are in the list |
| `TimescaleHasAllCorrect` | `ListenPipelineProofs` | `Spec => []TimescaleHasAll` |
| `OneMsidCorrect` | `ListenPipelineProofs` | `OneWriter` implies `Spec => []OneMsid`: no recording gets a second MSID |
| `DeliveryRefined` | `ListenPipelineProofs` | `OneWriter` and `RepeatFree` imply `Spec => DeliverySpec`: the pipeline implements `ListenDelivery` |
| `ImportersTypeCorrect` | `ListenPipelineProofs` | `ImportersSpec => []ImportersTypeOK` |
| `NoneSkippedCorrect` | `ListenPipelineProofs` | `ImportersSpec => []NoneSkipped`: what is behind the recorded time has been accepted, or is excused: passed over by a race, or not in Spotify's answer |
| `TypeCorrect` | `ListensCacheProofs` | `Spec => []TypeOK`, with what a reader holds at each of its steps |
| `PagesFreshCorrect` | `ListensCacheProofs` | `Spec => []PagesFresh`: a cached page is what its queries would return, but for the races named |
| `CountNotAheadCorrect` | `ListensCacheProofs` | `Spec => []CountNotAhead` |
| `TypeCorrect` | `BackgroundTasksProofs` | `Spec => []TypeOK`, with slow workers too |
| `OneWorkerPerTaskCorrect` | `BackgroundTasksProofs` | `SlowWorkers = FALSE` implies `Spec => []OneWorkerPerTask` |
| `LaterListensKeptCorrect` | `BackgroundTasksProofs` | `Spec => []LaterListensKept`: a deletion takes nothing listened to after it was asked for |
| `CancelledNotImportedCorrect` | `BackgroundTasksProofs` | `Spec => []CancelledNotImported`: no listen of a cancelled import is submitted |
| `ExportHasTaskCorrect` | `BackgroundTasksProofs` | `SlowWorkers = FALSE` implies `Spec => []ExportHasTask` |
| `FinishedImportsStayCorrect` | `BackgroundTasksProofs` | `SlowWorkers = FALSE` implies `Spec => FinishedImportsStay` |
| `UnfinishedHasFileCorrect` | `BackgroundTasksProofs` | `SlowWorkers = FALSE` implies `Spec => []UnfinishedHasFile`: an import that can still run has its file |
| `CompletedHasArchiveOrSweptCorrect` | `BackgroundTasksProofs` | `SlowWorkers = FALSE` implies `Spec => []CompletedHasArchiveOrSwept`: a completed export has its archive, but for the race with a clean-up |
| `TypeCorrect` | `PlaylistsProofs` | `Spec => []TypeOK`: whoever a playlist or a recording names is a user that is there |
| `PositionsContiguousCorrect` | `PlaylistsProofs` | `Spec => []PositionsContiguous`: positions are 0, 1, 2 and so on |
| `JamsReplacedCorrect` | `PlaylistsProofs` | `Spec => JamsReplaced`: a bot's playlist for a user is replaced in one step |
| `ListsImplemented` | `PlaylistsProofs` | `Spec => ListsAsAsked`: the tables of positions implement `PlaylistLists` |
| `TypeCorrect` | `QueryJobsProofs` | `Spec => []TypeOK` |
| `ResultsNotLostCorrect` | `QueryJobsProofs` | `Spec => []ResultsNotLost`: a job is removed only when its results have reached the queue |
| `HandledInOrderCorrect` | `QueryJobsProofs` | `Spec => []HandledInOrder` |
| `EndedStaysCorrect` | `QueryJobsProofs` | `Spec => EndedStays`: no worker changes a job that has ended |
| `StatsTypeCorrect` | `QueryJobsProofs` | `StatsSpec => [](StatsTypeOK /\ StatsTypes)` |
| `StatsStayCorrect` | `QueryJobsProofs` | `StatsSpec => StatsStay`: a user's stored statistics neither vanish nor grow older, but for messages handled twice and runs that do not have or did not store the user |
| `AnswersNotOlderCorrect` | `QueryJobsProofs` | `StatsSpec => AnswersNotOlder`: nor do the answers, database by database, unless the user's newest is deleted meanwhile |
| `LockedKeptCorrect` | `QueryJobsProofs` | `StatsSpec => LockedKept`: only a LOCK set after the sweep's look for one is overrun |
| `TypeCorrect` | `MappingQueueProofs` | `Spec => []TypeOK`, with the room of the queue and the pool |
| `NoneForgottenCorrect` | `MappingQueueProofs` | `Spec => []NoneForgotten`: a listen without a row is on its way, or the walk was past it when it was lost |
| `TypeCorrect` | `TimelineProofs` | `Spec => []TypeOK` |
| `OnePinCorrect` | `TimelineProofs` | `Spec => []OnePin`: one active pin, but for requests that overlap |
| `PinsReadableCorrect` | `TimelineProofs` | `Spec => []PinsReadable`: pins end after they begin, but for requests that overlap |
| `FeedExactCorrect` | `TimelineProofs` | `Spec => FeedExact`: a feed has what it should and nothing else, whatever happens while it is read |
| `HiddenMarkedCorrect` | `TimelineProofs` | `Spec => HiddenMarked` |

**`ListensDBProofs`** holds for all sets of users, timestamps, MSIDs and sessions, all batches, batch
sizes and bounds. Its assumptions are those named in `ListensDB`: user ids and timestamps are naturals,
the batches are sequences of listens, the initial listens are finite, batch sizes are positive, bounds
are naturals, and `Null` is no number, session or metadata row.

`CountsRight` is not inductive: it speaks of committed state, and a commit publishes `mnew`, about
which it says nothing. `CountsInductive` adds what the code's comments argue informally:

- `FiniteRows`: cardinalities are numbers;
- `RowsOwned`: uncommitted rows belong to one transaction each, inserted ones are not stored yet,
  deleted ones still are (this is why two deltas never count a row twice);
- `OwnUserOnly`: a history deletion deletes rows of its own user;
- `IdleCalls`: a session without a transaction has written nothing;
- `LockedMeta`: who holds a metadata row is past its row statement, and the value it wrote differs
  from the committed one by exactly its delta, or, once recounted, equals what it will leave;
- `ReadyLocked`: who is ready to commit holds the rows of all users it concerns.

TLC checks it first (`ListensDBCalls`). The inductive invariant of the proof is its conjunction with
the type invariant: `IInvInit`, `IInvStep`, with one lemma per group of actions (`BeginCounts`,
`RowCounts`, `MetaCounts`, `RefreshCounts`, `CommitCounts`, ...), and the cardinality lemmas
`OfUnion` and `OfDifference`.

- `BoundsRight` needs the same for bounds, `LockedBounds`: what the holder of a metadata row wrote is the
  committed row widened by what it has inserted or, once it has read the listens again, has their bounds.
- `NoInsertDeleteDeadlock` follows from `LocksOrdered`: a session that waits for a metadata row holds
  only rows of users that come before it, and nobody who is past the rows of the listens waits for one.
  `OrderedNotStuck` shows that then there is no cycle: of the metadata rows waited for in it one would
  be the last. That last one is found by well-foundedness of the naturals (`WFMin` of
  `WellFoundedInduction`, which needs no operator as a parameter).
- `ResolvedListensGone` needs `Targeted` (a deletion in progress has deleted, or has still to delete, the
  listens of the requests in its snapshot) and `NewRows` (what an insertion has still to insert is new to
  the table and to every request). The second assumes `NoRepeats`, that no batch holds a listen twice: the
  chunks of a batch share one `created`, so that a listen that is in two chunks and is deleted between
  their transactions would be put back as what it was when it was deleted.

**`ListenPipelineProofs`** holds for all clients, writers, batches and sizes of messages; the batches are non-empty
sequences of listens with a time (`BatchAssumption`, `ListensAssumption`), sizes are positive. `TypeOK` carries
what all the rest needs: a writer that works holds a message of its own, and its batch consists of that message's
listens. `AllSettled` says that what a writer is about to report is stored, and what it is about to acknowledge
stored or rejected; `Reports` that a row is announced, or about to be by the one writer that inserted it, or of an
attempt that failed; `TimescaleFirst` that a writer at its second store is done with the first. `RecentKeepsNewest`
rests on `PoppedKeeps`, a lemma about cardinalities: the rows that remain when the lowest are popped have their
share of the highest. It applies to a writer whose count is not stale, which is no more than what the list holds
when it pops (`RecentOK`); a listen that a stale count pops lapses, and counts as there. `OneWriterKeepsNewest`
adds that one writer alone never has a stale count: another writer's pruning is all that makes a count too large.
`AnnouncedOnce` and the refinement assume `RepeatFree`: a request that has a listen twice is announced twice
(`OnlyInsertedAnnounced`, section 5). The refinement also assumes one writer, which is what
`docker/docker-compose.yml` (136) runs: of two, the second can register a recording that the first has looked up
and not yet registered, and one listen is stored under two MSIDs. `Registered` says that this does not happen to
one writer, and gives `OneMsid` as well; `DeliveryRefined` maps each action to one of `ListenDelivery`'s or a
stutter.

Its part on `ListensImporters` holds for pages of any positive size and any number of plays, tokens, changes and
errors; `Absent` is assumed to be no row. `ImportInv` has types, `RecordedKept` and `TurnKept`. `RecordedKept`
is `NoneSkipped`; it is not inductive, as what `RecordLatest` writes depends on the pages that came before.
`TurnKept` says what a turn that nothing has overtaken knows: all plays up to those that the current page starts
with are queued (`Behind(run.latest, queued, played - run.page * PageSize)`), and what it is about to
record is not newer than its page. `PagesCover` (the count of pages reaches back to the recorded time),
`NewestOnPage` and `PageCovers` are the arithmetic of pages that are numbered from the newest; a play that
arrives shifts them, and excuses what the turn leaves out. What Spotify's answer leaves out is excused when the newest
of the answer is recorded; all else up to that play has been submitted with it.

**`ListensCacheProofs`** holds for all pages, readers, changers and changes; the listens are finitely many
numbers. `CacheInv` has four parts: what a reader has read so far is what it would read now, unless a
change came in between, which it records (`ReadsCurrent`); what is cached is tracked, or excused
(`CachedTracked`); a page that is out of date, or a count that is ahead, has a changer about to delete it
(`StaleDoomed`, `AheadDoomed`). `TypeCorrect` has an invariant of its own, `Typed`; that the bounds of some
listens are listens (`BoundsType`) needs that a finite set of numbers has a greatest (`MaxExists`), found by
well-foundedness as the one with the fewest above it.

**`BackgroundTasksProofs`** holds for all workers, exports, imports, services and bounds; it assumes
that `None` is no service, row or held task, and for `TypeCorrect` that the bounds are naturals.
Five theorems also assume that no task outlasts its claim:
with `SlowWorkers = TRUE` TLC refutes four of them (section 5). The argument has seven layers.

- `Tables` gives types, and `TaskSteps` sorts all steps by what they do to the task table and to
  workers: a task is added, a row goes, a claim expires, a worker proceeds, exits, leaves or takes.
  Most of what follows is proved once per sort.
- `Ids`: ids are never used twice, and whoever holds a task knows its kind and reference. `Exclusive`:
  the row of a task that is worked on is claimed, so that nobody takes it; `OneWorkerPerTask` follows.
- `References` and `Stages`: a deletion refers to a time that is not after the user's last request, and
  only a task of its kind gets to a handler's steps. `LaterListensKept` is inductive with these.
- `CancelOnce`, which needs no `Exclusive`: an import that is being cancelled is waiting, a cancelled one
  is deleted, and one that a worker has begun is not waiting; so a worker that began before the
  cancellation makes it impossible, and one that began after it finds no file.
- `OneTask`: a task is queued for a row when the row is made and never again, so that two workers on
  one import or export would be on one task. `ExportsOwned` (who works on an export owns its task, and
  who is about to remove the task leaves the export finished) and `ImportsOwned` (who has begun an
  import finds it unfinished or deleted) give `ExportHasTask` and `FinishedImportsStay`.
- Files of imports (`FilesInv`): none of a request that is still on its way is old enough for the clean-up
  (`UploadsKept`); what this is about to delete is not the file of an unfinished import, and cannot become
  one (`NeededKept`); and a worker that deletes a file has ended its import or was interrupted
  (`UnlinkedLate`). `UnfinishedHasFile` follows from the second.
- Archives (`ArchivesInv`): a clean-up that reads the rows before it lists the bucket keeps the archives it read
  (`ListedKept`, `ArchivesListed`), and what a worker has uploaded and not yet written to its row is there, or was
  taken by a clean-up that could not know it (`ArchivesUploaded`). `CompletedHasArchiveOrSwept` follows.

`TypeCorrect` joins the layers that hold with slow workers too to `NamesGiven`, that every archive somebody
names has a name that was given, and to `Bounded`.

**`PlaylistsProofs`** holds for all users, requests, payloads (sequences of recordings) and bounds, the
bot being no user. The first lemmas are about the UPDATE, DELETE and INSERT statements: if the positions
of a table are 0 to n-1 (`Lined`), a gap opened by `Reordered` and filled by `Inserted` leaves 0 to
n+k-1, a deletion followed by its shift 0 to n-k-1, and a move is one after the other. The inductive
invariant `Inductive` adds to the positions what makes the second transaction of a request right:
`RequestsFit` says that the number of recordings a request has read is still the playlist's, unless
another edited it, and `Alone` that the playlists excepted, in `upset`, are those with two editors at a
time.

`TypeCorrect` follows from `TypeInv`, which also says that the ids of a playlist's rows are apart
(`FirstIdNew`), so that they rank its rows (`Ranked`) and what the API lists is a sequence of
recordings (`ListOK`). A row inserted by a request that began before an account was deleted names no
such account because the foreign keys are checked at the commit (`CanInsert`); the assumptions on
`Absent` and `Unknown` say that no row and no list is taken for them. `JamsReplaced` needs two facts
about requests that have read and not yet committed: `OldKnown`, that what such a request will delete
was made for its own user, as ids are not given again, and `Single`, that without two of them for one
user the playlist there is, is among what the one will delete.

`ListsImplemented` is the refinement of section 3, step by step. `Shows(T, s)` says that the rows `T` have
the positions of the sequence `s` and its recordings. What the API lists of a playlist that is not upset
is that sequence, and the only one (`ListShown`, `ShowsOne`); the UPDATE, DELETE and INSERT statements turn
a table that shows `s` into one that shows the edited `s` (`AddedShows`, `DeletedShows`, and `PutAdds` for
the second half of a move, which goes by a length that is too large). `Inductive` gives each request the
length it counts on; the refinement also needs `Remembered`, that the recordings a move has taken up and
the visibility an edit will write back are still those of the playlist. Commits map to `Perform`, reads and
failures to `AskOrGiveUp`, creations and deletions to `Rearrange`.

**`QueryJobsProofs`** holds for all workers, jobs and failure bounds, and any number of results per job.
Types come first, then `OnTheWay`: what a worker is about to publish next is one past what has
reached the queue from it, the queue's results of a job are in order with what is handled, and a job
that is gone has had every result pushed or rejected. `EndedStays` follows from
`Claimed`, which says that no two workers hold the claim numbered in the row.

Its part on `StatsResults` holds for all users and readers, any set of full runs, each a sequence of sets of users,
and any number of runs and errors; `None` is assumed to be no number and `Absent` no database. `StatsInv` has types
(`StatsTypes`), what the messages promise (`RunsKept`), and two parts about the deletions (`SweptBehind`) and the
reads (`ReadKept`). `RunsKept` is about the queue from the first message that was never handled, joined with what
the run has still to publish, so publishing, acking and delivering again leave it as it is, handling for the first
time takes its first, a new run is added at its end and a failed one cuts it: runs follow each other (`InOrder`),
none is older than what the databases hold (`NotOlder`), and for each end, a user whom its run counts has a
document in its database, or in a message ahead of the end, or was missed (`Completed`). It follows that when an
end is handled for the first time its database is the newest, and has all whom the run counts and did not miss; so
the databases that the sweep has left are older than one which has the user (`SweptBehind`), and `StatsStay`
follows. `ReadKept` says of a read that is not crossed that the document it began with, or a newer one, is in a
database that it has still to ask: it can be answered with nothing older. `LockedKept` needs that a database about
to be deleted and locked was locked late.

**`MappingQueueProofs`** holds for all recordings, messages, windows, days, room of the queue and threads,
and times that are integers. `QueueInv` has types, the room of the queue and the pool (`Bounded`), that only
what has been listened to is anywhere (`OnlyStored`), that the loader's window is behind the index of
the walk (`WalkInv`) and `AllOnTheirWay`: a listen without a row, not passed by the walk, is in a message,
a job, the loader's hands, or where the walk has yet to come. The last is stronger than `NoneForgotten`
while a window is being read, when the index has not moved and the listens of the window are in nobody's
hands yet. `Collect` says that the jobs that remain keep their order by an increasing map of their
places; that no more jobs remain than there were is then a fact about injections (`Placed`).

**`TimelineProofs`** holds for finitely many users, all ids of requests, kinds, page lengths and bounds.
`PinInv` relates the pins of a user to the requests to pin that are on their way: what the UPDATE of each
looks at is all that is active, unless another pin has been committed since (`FoundKnown`), and pins that
are not excepted were there when the request began (`CrossedKnown`). `FeedInv` relates what a feed has
collected to the tables: its rows concern its user, a row that was there and still is, of a kind that has
been read, is among the rows or was cut off (`KindsRead`), and what was cut off is older than a page full
of rows (`CutOlder`). The last needs `NewestEnough`, a lemma about cardinalities, each time a kind is
merged or the page is cut. `HiddenMarked` needs that
ids are never given again (`NewIds`), so that an id and a kind stand for one event (`KindById`).

**Only model-checked**:

- liveness under fairness (`RequestsResolved`, `TasksSettle`, `JobsSettle`, `PlaysArrive`, `ListensMapped`,
  `RowsRechecked`, and `MessagesSettled` of `ListenPipeline` and of `StatsResults`), which is out of
  TLAPS' reach;
- `UnneededFilesGo` of `BackgroundTasks`, liveness too and in no configuration.

Every other property of the runs, each invariant, action property and refinement, is stated by a theorem.

## 5. Where code and comments disagree

The modules also state properties that a comment, a docstring or a test leads a reader to expect and
that the code does not have, or not in every setting. They are in no configuration. Each can be seen to
fail by putting it, as an INVARIANT or a PROPERTY as said, in place of the properties of the
configuration named, with the constants changed as said.

| property | configuration, with | the text, and what the code does |
|---|---|---|
| `NoDeletionDeadlock` (invariant) | `ListensDBCalls`, `Ops = {"deletePending", "deleteUser"}`, `MaxRequests = 2`, no symmetry | `db/listens.py` 263: deletions do not deadlock with each other. Both delete the same two listens in opposite orders |
| `OnlyAfterCutoffRemain` (property) | `ListensDBCalls`, `Ops = {"insert", "deleteUser"}`, no symmetry | `db/listens.py` 269: only listens created after the cutoff remain. A batch stamped before it commits after the deletion's snapshot and stays |
| `InsertedAreAnnounced` (invariant) | `ListenPipelineSafety` | `timescale_writer/timescale_writer.py` 59: a listen that inserts successfully goes to the unique queue. It does not when the writer dies after the commit: the redelivery reports nothing new |
| `RejectedFailedToInsert` (property) | `ListenPipelineSafety` | an error after the commit rejects a message whose listens are stored (`timescale_writer.py` 179) |
| `OnlyInsertedAnnounced` (invariant) | `ListenPipelineSafety`, `Batch <- RepeatingBatches` | a listen that is twice in a message is announced twice (`timescale_writer.py` 164) |
| `NewestAreThere` (invariant) | `ListenPipelineSafety`, `SPECIFICATION Spec`, `Writers = {w1, w2}`, `Batch <- PrunedBatches`, `MaxMessages = 3`, `MaxFailures = 1` | `listenstore/redis_listenstore.py` 86: the list is pruned when it reaches twice the desired size. The count and the pop are two requests: a writer that pops after another has pruned pops as many again, and fewer than the desired size remain |
| `InvalidatesAll` (property) | `ListensCacheSafety`, `Pages <- TwoPages` | `webserver/listens_cache.py` 82: all cached listens are invalidated. A page tracked during an invalidation is untracked and missed by the next |
| `DeletedNotCached` (invariant) | `ListensCacheSafety` | a reader fills its page after the deletion's invalidation, and the deleted listen is cached again |
| `ImportHasTask` (invariant) | `BackgroundTasksImports`, `SPECIFICATION Spec`, `Kinds <- OnlyImports`, `Services = {s1, s2}` | `import_listens.py` 131: if the task exists, the new entry is rolled back. The result of `ON CONFLICT DO NOTHING` (`db/background.py` 42) is ignored, and the import waits without a task |
| `ReleasedKeepsFile` (invariant) | `BackgroundTasksImports`, `SPECIFICATION Spec` | `background_tasks.py` 59, `storage.py` 18: a released task can be retried, an unfinished import keeps its file. SIGTERM releases the task and the `finally` clause deletes the file |
| `HistoryDeleted` (invariant) | `BackgroundTasksExports`, `Kinds <- OnlyHistory` | a second request is swallowed while the first is queued (`background_tasks.py` 17) |
| `CompletedHasArchive` (invariant) | `BackgroundTasksExports`, `Kinds <- OnlyExports` | the clean-up lists the bucket after an export that it has not read has uploaded |
| `OneWorkerPerTask`, `ExportHasTask` (invariants) | `BackgroundTasksExports`, `SlowWorkers = TRUE` | a task outlasts its claim; the first worker to end removes or releases it under the second |
| `UnfinishedHasFile` (invariant) | `BackgroundTasksImports`, `SPECIFICATION Spec`, `SlowWorkers = TRUE` | the same: a worker begins an import whose file another has deleted, having ended it |
| `CompletedHasArchiveOrSwept` (invariant) | `BackgroundTasksExports`, `Kinds <- OnlyExports`, `SlowWorkers = TRUE` | the same: the first worker completes the export, whose row by then names the archive that the second has still to upload |
| `HoledListsAsAsked` (property) | `Playlists`, `SPECIFICATION FairSpec`, `Requests = {q1}`, `MaxPlaylists = 1`, `MaxTracks = 6`, `MaxRequests = 3` | `db/playlist.py` 1035: recordings past the end are appended. The deletion of an account deletes the recordings it added (`admin/sql/create_foreign_keys.sql` 207) and leaves a hole; the number of recordings is then not the end, and what is appended comes before the last |
| `RetriedAfterError` (property) | `ListensImporters` | `domain/importer_service.py` 35: `retry` says whether to retry the import on the next run. `exclude_error` starts as true (`listens_importer/base.py` 35) and only Last.fm's importer ever changes it: Spotify's leaves users with a retryable error out for good |
| `NoneExcused` (invariant) | `ListensImporters` | a play that arrives while a batch works through its pages shifts them (`listens_importer/lastfm.py` 162): one that falls from a page to come onto the page just done is never submitted, and later times are recorded past it |
| `NothingOmitted` (property) | `ListensImporters` | `listens_importer/spotify.py` 197, 261-265: at most 50 plays are asked for and the newest of them is recorded. If there are more, those that the answer leaves out and are older than its newest are never submitted |
| `ConnectionKept` (property) | `ListensImporters` | a refused token is taken for revoked access (`domain/spotify.py` 222). One that another process has just replaced is refused too, and the connection is dropped |
| `StayWhenRepeated` (property) | `StatsResults` | `db/couchdb.py` 101: all but the latest database are deleted. An end message that is delivered again, after the next run has created its database, deletes the complete one and keeps the one that is being filled |
| `StayWhoeverListens` (property) | `StatsResults` | `db/couchdb.py` 133-135: all databases are queried until user data is found. Only those of the last complete run are left: who is not in it, or was not stored in it, has nothing |
| `AnswersNeverOlder` (property) | `StatsResults` | the same lines: the databases are asked one by one (143-149). One that has nothing of the user is the newest, and the older ones are deleted before they are asked |
| `AlwaysSettled` (property) | `StatsResults` | `spark/background.py` 136: an unhandled error stops the background job. The thread joins itself (106), which raises and ends it, and the process goes on taking messages without acks |
| `HandledAreStored` (invariant) | `StatsResults` | `spark/background.py` 124, 142-145: what is handled is acked. `spark_dataset.py` 157-158 catches the error of the handler's thread, so what is not stored is acked as well |
| `LegacyHasNoEntry` (property) | `MappingQueue` | `job_queue.py` 196: legacy listens have no entry. A job in the pool may commit one between the reading of the window and the putting (144-147) |
| `MappedWhateverDies` (property) | `MappingQueue` | a message is acked before it is processed, and the walk back that would find its listens starts at its cached index after a restart (`job_queue.py` 275, 305-326) |
| `AlwaysOnePin` (invariant) | `Timeline` | a request to pin ends the active pin in its own snapshot (`db/pinned_recording.py` 38): two that overlap leave two active |
| `AllPinsReadable` (invariant) | `Timeline` | `db/model/pinned_recording.py` 20 and 39: `pinned_until` is greater than `created`. A pin that began before the one it ends is given an end before its beginning and can no longer be read |
| `PagesWithinWindow` (property) | `Timeline` | `webserver/views/user_timeline_event_api.py` 255: events between `min_ts` and `max_ts`. `AND` binds more closely than `OR` in `db/user_timeline_event.py` 248-252 |
| `OnlyHiddenMarked` (property) | `Timeline`, `Handlers = {g}`, `MaxNow = 4`, `Kinds = {"recommendation", "pin"}`, `MaxFailures = 0` | ids of pins and of events are compared as if they were one sequence (`db/user_timeline_event.py` 399-411): an event with the id of a hidden pin is marked hidden |
| `AllHiddenMarked` (property) | `Timeline`, `Handlers = {g}`, `MaxNow = 5`, `Kinds = {"recommendation"}`, `MaxFailures = 0` | only the newest `count` hidden rows are read: an older one is shown |

With `SlowWorkers = FALSE` the branches of `BeginImport` and `BeginExport` for a rival that began
meanwhile serve only imports and exports whose earlier run was interrupted. In `Timeline`, a personal
recommendation whose recipients are all gone when it is written stores no list of users, and the
recommender's feed loses its personal recommendations from then on (`Unreadable`).

## 6. Not modelled

- Payload validation, metadata lookups, file parsers, archive contents, e-mails, progress texts: data
  the properties do not distinguish.
- `frontend/`, the calculations of `src/listenbrainz_spark/`, `mbid_mapping/`, art, radio, labs API:
  presentation and batch computation without a protocol between processes.
- Production and import of dumps: files, one process at a time. (The dump of statistics is in
  `StatsResults`.)
- Metadata caches, websockets, playing-now, feedback, reviews, the legacy API: single short
  transactions, or queues whose losses are made good by the next crawl.
- Of the mapping writer: the second queue object that `start()` makes, rechecks that keep falling due (`MaxDue`),
  listens that keep coming (ingestion is finite, so that `RowsRechecked` says nothing of a queue that new listens
  never let run empty: rechecks are loaded only when it is), the doubling of `check_again`, a lookup that
  overwrites a newer one, matching itself.
- Of the importers: how Spotify chooses among more plays than it is asked for (any choice is in the model),
  Libre.fm (the code of Last.fm), other OAuth services, the import of feedback.
- Of playlists: search, export to and import from services, and recordings' metadata.
- Of Spark: a connection that kombu takes up again by itself with the reader's threads as they are, results other
  than user and entity statistics that are stored in dated databases.
- Deleting an account also deletes rows by foreign key: those of tasks, exports, imports, playlists,
  follows, events and pins are in the modules of these.
- PostgreSQL, RabbitMQ, Redis, CouchDB and the object store are assumed to do what the code relies on;
  their own failures appear as failed or repeated calls.

## 7. Plan

Done: the modules of section 2. Left, in order:

1. A composition of `ListenPipeline` with `ListensCache`, in which the writer's invalidation is the
   change, and of `ListensDB` with `BackgroundTasks` for the account's deletion.
2. Modules for the metadata crawler's unique queue, playing-now, feedback, and the dumps' records.
