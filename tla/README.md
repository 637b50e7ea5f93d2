# Verification of the AI Workforce backend

TLA+ specifications of the parts of this repository that keep state several
processes share, TLC configurations that check them on small instances, and
TLAPS proofs about them. The reference is the code; line numbers are those of
the files at the commit this directory stands beside. `PROJECT.json` maps every
definition to the lines it models.

## The system

AI Workforce is a FastAPI backend (`backend/`), SQLAlchemy models and repositories
over PostgreSQL (`database/`), Redis for queues, caches, sessions and locks, and a
small LangGraph runtime (`runtime/`). A request is handled by one service object
with one SQLAlchemy session (`database/session/__init__.py:15-29`); workers
(`backend/workers/`) open a session of their own and are started again and again
from outside. Processes share only PostgreSQL and Redis. The session is created
with `autoflush=False` and `expire_on_commit=False`, at PostgreSQL's default
isolation READ COMMITTED, and without `SELECT ... FOR UPDATE` anywhere: handlers
decide on rows they read earlier. That, and Redis commands issued before the
commit, is where the hard behaviour of this code lies.

| Component | State | Operations | Interacts with | Hard behaviour | Correct when |
|---|---|---|---|---|---|
| Knowledge engine (`services/knowledge_service.py`) | documents, versions, chunks and embeddings (PostgreSQL); index queue, search cache (Redis) | upload, inline upload, delete, reindex, search; worker: process jobs | index worker, searches | stale reads, lost updates, job pushed and cache invalidated before the commit, popped jobs lost, two-query deletes | version numbers are gapless and unique, the current pointer is sound, chunks match the last indexing, deleted text stays hidden, the cache converges, queued jobs get indexed |
| Integration hub (`services/integration_service.py`) | integrations, OAuth tokens, permissions (PostgreSQL); refresh lock (Redis); signed OAuth states in the hands of clients | connect, callback, validate, test, disconnect; worker: refresh due tokens | providers, refresh worker | a long sweep over rows loaded at its start, lock with a time to live, late and repeated callbacks, overlapping connects | connected implies credentials, disconnected says since when, someone may configure, refresh tokens are presented once, due tokens get refreshed |
| Task workflow (`runtime/planner`, `executor`, `workflow_engine`) | plan, step index, output of each task | planner node, executor node, conditional edge | event loop | interleaved tasks, the end condition | every step once and in order, every task ends |
| Authentication (`services/auth_service.py`, `token_service.py`, `core/deps.py`) | users, organizations (PostgreSQL); refresh sessions, one-time tokens, revoked access tokens (Redis) | register, login, refresh, logout, forgot and reset password, verify, invite, accept | notification service, users and organizations, every protected route | get-then-delete on tokens, Redis written before or after the commit, crashes between the two, locks between registrations, invitations and deletions | a token is used once, a revoked session stays revoked, an account is active exactly when it is verified, nobody is stuck without a token |
| Users and organizations (`services/user_service.py`, `organization_service.py`) | rows | invite, activate, delete workspace, update names | authentication | an invitation into a workspace that is being deleted | every user has an organization, every organization its owner |
| Chunker (`services/knowledge/chunking.py`) | none between calls | chunk | knowledge engine | a buffer and cut paragraphs that share one index, sizes in two units, overlaps as large as a chunk | unique indexes, reading order, no word lost, the loops end |
| Migrations (`database/migrations/`) | the schema, `alembic_version` | four upgrades, four downgrades | every table, the models | order against foreign keys, types that outlive their tables, broken-off and simultaneous runs | a downgrade undoes its upgrade, the schema is that of the version and of the models |
| Parsers, embedding providers, similarity | none | parse, embed, score | knowledge engine | none that is discrete | - |
| Employees, agent registry | rows | create, read, delete, clone | - | none; the routers cannot be loaded | - |
| Runtime service | none | delegates to an `orchestration` package that the repository does not contain | - | - | - |
| Tool manager, event bus | none | retry a call that is passed in; publish to Redis | nothing calls them | - | - |
| Analytics, billing, conversations, memory, roles, permissions | none | placeholder routes | - | - | - |
| Apps, infrastructure, notebooks, configuration | none | - | - | - | - |

## Modules

| Module | Models |
|---|---|
| `Orm.tla` | `Written`: what a flush of SQLAlchemy writes of one row |
| `KnowledgeIndex.tla` | the knowledge engine with its queue, workers and cache |
| `KnowledgeIndexProofs.tla` | theorems about `KnowledgeIndex` and their proofs; `VersionLog` is implemented |
| `MCKnowledgeIndex.tla` | symmetry for TLC |
| `IntegrationHub.tla` | the integration hub with its refresh workers, lock and OAuth states |
| `IntegrationHubProofs.tla` | theorems about `IntegrationHub` and their proofs |
| `MCIntegrationHub.tla` | symmetry for TLC |
| `VersionLog.tla` | what the knowledge engine promises of versions: an abstract log |
| `Chunker.tla` | the recursive chunker, a turn of its loops at a time |
| `ChunkerProofs.tla` | theorems about `Chunker` and their proofs |
| `MCChunker.tla` | all small texts, for TLC |
| `AuthSessions.tla` | accounts, tokens and sessions, users and organizations |
| `AuthSessionsProofs.tla` | theorems about `AuthSessions` and their proofs |
| `MCAuthSessions.tla` | symmetry for TLC |
| `RowLocks.tla` | the locks that requests about accounts take, statement by statement |
| `RowLocksProofs.tla` | a theorem about `RowLocks` and its proof |
| `MCRowLocks.tla` | symmetry for TLC |
| `Migrations.tla` | the four revisions of the schema, the declared models, runs of Alembic |
| `SchemaHistory.tla` | what running migrations promises: an abstract history of versions |
| `MigrationsProofs.tla` | theorems about `Migrations` and their proofs; `SchemaHistory` is implemented |
| `Workflow.tla` | the task workflow |
| `WorkflowProofs.tla` | theorems about `Workflow` and their proofs |

Definitions marked *Mutant* in a comment are wrong on purpose: each is a plausible
bug of the definition that follows it, and is used by no specification. TLC finds
the property named in `PROJECT.json` violated when it replaces the right one.

### Sessions and transactions

This is how `KnowledgeIndex` and `IntegrationHub` model a request; `AuthSessions` does the
same but for rows, where it keeps the one row a request loads and lets the commit
change only the columns the request sets, which is all those handlers do.

A session is a record with a program counter. Each query that reads rows is a
step of its own and puts the rows it read into the record; the writes of a
handler are collected into one *flush* step, which takes the row locks, and one
*commit* step. Between any two steps other sessions may move. This is sound
because flushes become visible only at the commit, and because of row locks: a
flush waits (`CanLock`) for another flushed session that locks a row it would
lock. Where the code flushes early (a new document or integration is inserted
before the next read), the insert only locks, and the later flush step stands
for both.

- `Written(row, none, loaded, new)`: an UPDATE contains only the columns whose new
  value differs from the value this session loaded, so a stale session may write
  some columns over a newer row and leave the others. A row it did not find is
  inserted.
- Timestamps that are always written anew (`deleted_at`, `revoked_at`,
  `disconnected_at`) count as changed even when they were set.
- Unique constraints make a flush raise: the flush step is not enabled, `Fail` is.
- `Fail` stands for every exception and for a crash: the transaction rolls back,
  Redis keeps what was done. It may happen at every point of every operation.
- Redis commands take effect at the flush step, before the commit, as in the code.

### KnowledgeIndex

`documents`, `document_versions` and `document_chunks` are committed rows, `queue` and
`cache` the Redis list and entry, `sess` the sessions, `issued` counts version ids
(ids of rolled-back uploads are not reused), and `clock` stands for `utcnow()`.

| Code | Steps |
|---|---|
| `upload_document` | `UploadRead` (document row, early return as guard), `UploadList` (other versions), `UploadFlush` (new rows; push the job, or process inline and invalidate the cache), `Commit` |
| `delete_document` | `DeleteRead`, `DeleteList` (versions), `DeleteChunks` (chunks), `DeleteFlush`, `Commit` |
| `reindex_document` | `ReindexRead`, `ReindexLoad` (current version), `ProcessFlush`, `Commit` |
| `process_background_jobs`, `ingest_pending_version` | `WorkerPop`, `WorkerDiscard` or `WorkerLoadVersion`, `WorkerLoadDocument`, `ProcessFlush`, `Commit` |
| `_search` | `SearchRead` (cache miss and query), `SearchStore`; a hit changes nothing |
| Redis time to live | `CacheExpire` |

Abstractions: one organization and one active knowledge base (no code sets
`KnowledgeBase.deleted_at`); one search request, so one cache entry, which holds the
set of versions found; chunk texts, embeddings, scores and logs are left out. The
chunk rows of a version are identified by the indexing that created them. The
DELETE and the INSERTs of an indexing are one step: were another indexing of the
same version to commit in between, the unique constraint on
`(version_id, chunk_index)` would refuse the INSERTs, which is `Fail`. The version rows
that `delete_document` changes are read by two queries a moment apart
(`selectinload`, then `list_by_document`); the model reads them at the second. Each
job of a worker reads its rows anew: SQLAlchemy's identity map is weak and
nothing refers to the rows of the job before.

### IntegrationHub

`integrations`, `oauth_tokens` and `integration_permissions` are committed rows, one
integration per provider of one organization. `refresh_lock` is the set of locks in
Redis, `oauth_states` the providers with a state that is signed and has not run out,
`due` those whose access token is within the refresh window, `used` the refresh tokens
presented to a provider, `unreadable` those encrypted with a key that has been replaced since.

| Code | Steps |
|---|---|
| `connect` (with or without a code) | `ConnectRead` (guard: not yet, or disconnected), `TokenRead`, `PermissionsClear` (the DELETE), `HandlerFlush`, `Commit` |
| `callback`, `authenticate` | `CallbackRead`, `TokenRead`, `HandlerFlush`, `Commit` |
| `validate` | `ValidateRead`, `TokenRead` (ends without a token), `HandlerFlush`, `Commit` |
| `disconnect` | `DisconnectRead`, `TokenRead`, `HandlerFlush`, `Commit` |
| `refresh_due_tokens` | `RefreshList`, `RefreshLoad`, then per token `RefreshLock`, `RefreshFlush` (success or the except branch), `Commit` |
| time | `TokenDue`, `LockExpire`, `StateExpire` |
| another `integration_encryption_key` in the settings | `KeyReplaced` |

Abstractions: users are Owners or Admins, whom no permission limits; `test` writes
logs only and is left out, as are the lists; providers are the placeholders of
`providers.py`, whose `validate` always succeeds and whose refresh raises nothing, so a
refresh fails exactly when the stored token does not decrypt, and then on every sweep until
somebody authorises anew; the code sets no limit to the attempts. The counter of attempts
is kept up to `MaxAttempts`, which ends no refresh. `validate` has no route yet but is part of the
service. A `DELETE` of permissions sees the rows committed when it starts: the
field `late` marks a connect whose DELETE started before another's commit.

### VersionLog

For each document the number of its versions, and which of them have been indexed
and deleted; an upload adds the next number, an indexing and a delete only add. In
`KnowledgeIndex`, `Log == INSTANCE VersionLog` maps these to the committed rows
(`latest_version_number`, `indexed_at`, `deleted_at`), and `ImplementsLog` says that
every commit of the detailed system, made from rows that may be stale, is one such
step or changes nothing of it. That a delete may miss a version committed meanwhile
is part of what the log allows, because the code does.

### Chunker

A text is a sequence of paragraphs, each its number of words and characters; a
word is its place. `Gather`, `Spill`, `SplitPiece`, `SplitEnd` and `Finish` are the branches of
the loop over paragraphs, the loop over the pieces of a long one, and the end. Left out
are headings, checksums and joining text. Two peculiarities of the code are in the model: the
buffer is measured in characters and a piece in words, by the same setting; and the
index moves on before a long paragraph even when the buffer was empty, so indexes are
unique but not gapless. `backend/core/config.py:37-38` validates neither size nor overlap, so
both are any integers: `PieceEnd` is Python's slice, `Pieces` drops a piece that comes out empty.

### AuthSessions

`users` and `organizations` are committed rows, `redis` the keys of refresh sessions and
one-time tokens, `blacklist` those of revoked access tokens, `tokens` the claims every
token was made with, `held` and `access` the tokens that somebody was given and that have
not run out.

| Code | Steps |
|---|---|
| `register` | `RegisterRead`, `Flush`, `Commit`, `Issue`, `Answer` |
| `invite_user` | `Present`, `Authorize` (`core/deps.py`), `InviteRead`, `Flush`, `Issue`, `Commit`, `Answer` |
| `delete_workspace` | `Present`, `Authorize`, `DeleteRead`, `Flush`, `Commit` |
| `login` | `LoginRead`, `LoginOrganization`, `Issue`, `Answer` |
| `refresh` | `RefreshGet`, `RefreshLoad`, `RefreshDelete`, `Issue`, `Answer` |
| `logout` | `LogoutBlacklist`, `LogoutDelete` |
| `forgot_password` | `ForgotRead`, `Issue`, `Answer` |
| `reset_password`, `verify_email`, `accept_invite` | `ConsumeGet`, `ConsumeDelete`, `ConsumeLoad`, `Flush`, `Commit` |
| time to live and `exp` | `Expire`, `AccessExpire`, `BlacklistExpire` |

Abstractions: a JWT is its claims, the signature and bcrypt work; a pair of access and
refresh token is one member of `Tokens`; ids are drawn at the read rather than at the
flush; an organization has the id of the user who registered it. The notification
service only logs the first 16 characters of a token; the model takes the delivery for
granted, so that what follows can be checked. `Raises` lists the steps at which the code
answers with an error; `Fail` is that or, up to `MaxFailures`, a crash. `Flush` is the
moment at which a request has the last of its locks; the order it takes them in is left to
`RowLocks`. `logout` revokes the access token before it looks at the refresh token, which may be
of another pair or not decode at all.

`BlacklistExpire` may take the key of a token that still decodes only if the time to live
allows it. `KeyEndsFirst` works that out: `_ttl_seconds` of a claim `exp`, from a clock rounded
down to whole seconds at the moment it is read, counted by Redis from a later moment, against
the moment at which the token stops to decode. Application servers and Redis are taken to
share a clock.

### RowLocks

The same requests once more, without tokens and steps between queries: what they lock and in
which order. `Order` lists the statements of each transaction. `register` inserts the
organization, and flushes, before the user (`auth_service.py:68, 79`); `invite_user` inserts a user,
which takes the address in the unique index and then the key of the organization;
`delete_workspace` deletes the users it has loaded, one row at a time in the order of their keys, then the
organization, then by cascade the users that came in meanwhile; `update_current` changes the
domain; `update_user` stands for the requests that update one user. A statement waits while
another transaction holds what it wants (`Blockers`), a row that is deleted or updated keeps its unique values
(`Keeps`), a transaction whose statement a key refuses ends (`Fail`), and of transactions that wait in
a circle PostgreSQL rolls one back (`Victim`). The locks themselves are external. `Init` is any rows
that keep the keys. Only tables of accounts are here: what a deletion cascades to in
the tables of the knowledge engine and the hub, and the requests that lock those, are not.

### Migrations

The revisions are sequences of the statements they execute. A table is reduced to what
other statements and the models depend on: foreign keys, uniqueness, enumeration
types created with it, Boolean columns whose default is a number. `Accepts`, `Made`, `Drops` and
`Apply` are what PostgreSQL makes of a statement (external), `SchemaAt` what the upgrades up to a
version make; a run of Alembic executes the scripts
from one version to another in a single transaction (`env.py:44-45`), numbers after each,
and commits or rolls back as a whole. The database is PostgreSQL, which refuses a number as the
default of a Boolean column (`WritesDefault`). `DefaultsMended = FALSE` is the scripts as they are;
`TRUE` is the scripts with those defaults written as Booleans, so that what they do beyond the
first revision can be seen. `Metadata` is what the models declare.

### SchemaHistory

A version, its schema, and the move each migrator is planning. A move is made as a whole,
and only on the version it was planned from. In `Migrations`, `History == INSTANCE
SchemaHistory` maps a run to the move from the version it began at to its target (or, once it
holds the row of `alembic_version`, from the version the row has), and
`ImplementsHistory` says that statements which interleave, wait for each other's locks and break
off are, to whoever looks at the database, one whole move after the other.

### Workflow

One task per member of `Tasks`; `planner_node` and `executor_node` are the nodes,
`should_continue` the conditional edge evaluated after each. The plan is the mock
plan of the code with its three steps.

## Runs

| Run | Question | Instance |
|---|---|---|
| `knowledge_safety` | `TypeOK`, `VersionNumbering`, `CurrentVersionOwned`, `OnlyDeleteHides`, `ImplementsLog` | 2 requests, 1 document, 2 contents, 3 versions, 1 indexing |
| `knowledge_cache` | `ServedWasIndexed`, `VersionNumbering`, `ChunksOfLastIndexing`, `DeletedStaysHidden`, `CacheConverges`, `QueuedIsIndexed`, under `ReliableSpec` | 1 request, 1 worker, 1 search, 2 contents, 2 versions, 1 indexing begun by a request |
| `knowledge_lost_job` | `SubmittedIsIndexed` is violated under `ReliableSpec` | 1 request, 1 worker, 1 search, 1 content, 2 versions |
| `hub_requests` | `TypeOK`, `DisconnectedDated`, `SomeoneConfigures`, `ConnectedHasToken` | 2 requests, 2 users, 1 provider, 2 tokens, 1 failure |
| `hub_workers` | `RefreshTokenUsedOnce`, `RevokedUntilAuthorized`, `DueIsRefreshed` | 1 request, 2 workers, 1 provider, 2 tokens, the first of which a replaced key may make unreadable, attempts counted up to 1, 1 failure; locks outlive sweeps |
| `hub_disconnect` | `DisconnectedStays` is violated | 1 request, 1 worker |
| `auth_overlap` | `TypeOK`, `WorkspaceWhole`, `ActiveIsVerified`, `PendingCanProceed`, `PasswordByOwnToken`, `AccountsMoveOn`, `RevokedStaysRevoked`, `BlacklistOutlivesToken` | 2 requests, 2 addresses, 2 ids, 3 tokens, 1 crash; 2 moments a second |
| `auth_twice` | `OneTimeTokenUsedOnce` is violated | 2 requests, 1 address, 2 tokens |
| `row_locks` | `OrdersAgree` | 3 requests, 2 organizations, 3 users, 3 addresses, 1 domain |
| `migration_runs` | `VersionMatchesSchema`, `OnlyDefaultsRefused`, `WorkspaceRowsFollow`, `MigratedIsDeclared`, `ImplementsHistory` | 2 migrators, defaults mended |
| `chunker_texts` | `TypeOK`, `OneRowPerIndex`, `ReadingOrder`, `NothingLost`, `EveryTurnAdvances` | all texts of up to 3 paragraphs of up to 3 words and 5 characters; sizes -1, 0, 1, 2, 7; overlaps -1, 0, 1, 2 |
| `workflow_tasks` | `TypeOK`, `EndedComplete`, `EveryTaskEnds` | 3 tasks |

**Bounds.** Every hazard listed for these components involves two sessions, or a
session and a worker, on one row, so two sessions per run (three where a request meets
two workers) and one document or integration meet each of them; what a sweep over several
integrations leaves behind is proved, not run (`CredentialsCorrect`). Two
contents let a live document be uploaded again; two versions are an old and a
new one, and a third lets two uploads take the same next number; ids of failed uploads count, so both committed and lost ids occur.
`MaxIndexings` limits what handlers may begin, never what a worker does.
`MaxTokens` stops new tokens and time, never a refresh under way: a sweep is
always able to finish. `MaxFailures` limits crashes only; an operation that a
constraint refuses is always allowed to fail. Symmetry is used in runs whose
properties are invariants, action properties or a refinement, never with liveness. Deadlock is
checked everywhere but in the workflow and the chunker, which end, and in
`AuthSessions`, where requests stop once the ids and tokens of the bounds are used up.

In `AuthSessions` every hazard is between two requests, or between a request and a token
handed out earlier. Two ids are two registrations, an owner and somebody invited, or an
owner and the successor who registers the same address; three tokens are a verification, a
session, and what it is rotated or invited into or a password is reset with. `CanIssue` begins a
request that will create a token only while one is left, and leaves it waiting before `Issue` if
another takes the last: so the old token of `PasswordByOwnToken` can be used while the new account,
whose own token is beyond the bound, is already committed. `Moments` and `ExpTimes` put the reading of
the clock and `SETEX` at and between the seconds, before and after `exp`. In `RowLocks` a third request
can stand between two that would otherwise not meet, and a third user can come into a workspace whose
two users are being deleted. `Migrations` has no bound but the number of migrators: any version to any
other, broken off anywhere. The sizes of `Chunker` lie below and above a paragraph, or are none and negative, the
overlaps below, at and above a size, and negative: three paragraphs are one gathered, one cut and one
after it.

**Fairness.** `KnowledgeIndex`: weak fairness of each session's next step once an
operation has begun, of the workers (they are started again and again), and of
the expiry of the cache entry. No request is ever obliged to come. A worker gets
the row locks it waits for (strong fairness of its `ProcessFlush`), because PostgreSQL grants
them in the order they are asked for: a stream of requests cannot overtake it for ever.
Failure is not fair; `ReliableSpec` lets requests and searches fail but no worker, since the job it has popped would be gone. `IntegrationHub`: weak fairness of
every session and of the expiry of locks, and strong fairness of `RefreshFlush`, for the same
reason as above. No fairness makes a refresh succeed: whether it does is whether its token
decrypts. `DueIsRefreshed` promises that a due token is refreshed or disconnected, or, if it does
not decrypt, that its integration is shown as expired; crashes are limited by `MaxFailures`, and with
providers that do more than the placeholders an answer could also fail to come. With `LocksOutlive` the model makes the timing assumption of the code: a lock
outlives the refresh it was set for and the sweeps that listed the token before (60 seconds,
unless a sweep takes longer); a lock that a crash left behind still expires.
`AuthSessions`, `RowLocks` and `Migrations` state no liveness.
`Workflow`: the event loop runs every node that is ready.

## What the runs show, and what they do not

The numbering of versions, the current pointer and the pairing of chunks with
`indexed_at` survive every overlap. The first two rest on the order of the
worker's reads (version, then document), on the unique constraint and on row
locks, not on any check in the service. Only a delete takes text out of the
search, and a deleted version stays out of it. The cache may serve a result that is
out of date, for at most its time to live.

Accounts keep together without any lock in the code: a workspace and its users go as one,
because foreign key, unique index and row locks order invitation, registration and
deletion; verification and invitation agree on what active means; and a token for an
account that was deleted never reaches the one registered with its address, because
users are looked up by id and organization. Requests about one account write rows they read
earlier, and still undo nothing of each other (`AccountsMoveOn`), because an UPDATE names only
the columns its handler set; the same keeps a late sweep from making revoked credentials usable
(`RevokedUntilAuthorized`). No token comes back once its key is gone, and
a revoked access token stays refused until it no longer decodes. Without crashes, and with
tokens that last, nobody is stuck; after a crash between commit and token somebody may be,
for no operation issues another verification token or invitation. The scripts are in the right
order, undo each other, and carry the deletion of a workspace to all 20 tables; but none after the first
gets that far as long as its Boolean defaults are numbers. The chunker always ends and keeps the order, whatever its
settings. It loses no word as long as the size is positive and the overlap not negative; nothing validates
either, and otherwise words are lost: with a size of 0 every piece of a paragraph is empty, and with a
negative overlap the pieces leave gaps.

Requests about accounts do not wait for each other in a circle (`OrdersAgree`), with two exceptions that
the model reaches and no line of the repository rules out: two deletions of one workspace,
when an invitation is committed after the first has loaded the users and before the second has, so that the
first comes to the new user only by cascade and the second before the organization; and a change of
domain, which locks the organization and waits for a domain, when a registration holds that domain and waits
for an address, and an invitation into the organization holds the address. PostgreSQL ends either by rolling one of them back, and nothing repeats it.

Three runs end in a counterexample, each against a line of the repository:

1. `knowledge_lost_job`: the index job is pushed before the commit
   (`knowledge_service.py:222-223`). A worker that pops it at once finds no version
   and drops the job; the version is never indexed.
2. `hub_disconnect`: a sweep writes the status of rows it loaded at its start
   (`integration_service.py:297, 310`) over a disconnect.
3. `auth_twice`: `consume_one_time_token` gets and deletes as two commands
   (`token_service.py:108, 111`): two requests with one token both go through.

The models reach more that a line of the repository does not expect; these have no run:

- `_process_version` sets `is_current` (`knowledge_service.py:351`) and clears no other version:
  with two current rows `get_current` (`repositories/knowledge.py:83-88`), which nothing calls,
  would raise.
- `refresh` deletes a session without looking whether it is still there
  (`auth_service.py:115, 119`): a logout in between does not stop the new pair, and two
  refreshes with one token yield two pairs.
- Boolean columns with `server_default=sa.text("1")` (`0002_integration_hub.py:90` and others)
  are refused by PostgreSQL, so that no revision after the first can be applied there; the
  tests use SQLite and `create_all`. `OnlyDefaultsRefused` says so of the scripts as they are, and
  the theorem `DefaultsRefused` that these defaults are all that is refused.
- `documents.current_version_id` is made without the foreign key that the model declares
  (`0003_knowledge_engine.py:64`, `models/knowledge.py:119-121`): `MigratedIsDeclared` says that
  the tables have no more than their models, not that they have all of it.
- `should_continue` ends the graph before the executor can write `final_output`, which
  `tests/test_core_engine.py:36` expects: proved as `OutputNeverWritten`.

Seen on the way and outside these modules: `alembic.ini` points to
`backend/database/migrations`, which does not exist; enumeration types are native in the
scripts and `native_enum=False` in the models; embeddings are JSON in one and not in the
other; no revision makes the tables of employees and of the agent registry;
`backend/api/router.py` imports a service whose `orchestration` package is not in the
repository, and the employee router a `get_db` that does not exist, so that neither
application can be loaded as it is. The services are modelled as their tests use them.

Other behaviour the models reach and nothing in the repository rules out, so no
property speaks of it, is listed under `hazards` in `PROJECT.json` with a note. The
most notable: a second delete racing a re-upload deletes chunks of a version it
did not list and leaves a live document no search finds; a late callback connects
an integration again after a disconnect; a refresh lock that runs out during a sweep
lets a refresh token be presented twice (`RefreshTokenUsedOnce` assumes `LocksOutlive`).

## Proofs

`KnowledgeIndexProofs.tla` proves, for all sets of documents, contents, sessions and
all bounds, from the three named assumptions of `KnowledgeIndex` (bounds are
naturals; handlers, searchers and workers are disjoint; `None` is no row and no key):

| Theorem | States |
|---|---|
| `TypeCorrect` | `Spec => []TypeOK` |
| `NumberingCorrect` | `Spec => []VersionNumbering` |
| `CurrentCorrect` | `Spec => []CurrentVersionOwned` |

None of the three is inductive alone: what a commit writes depends on what its
session loaded long before. The inductive invariant `IInv` adds what such a row
still says of the committed one:

- `ShapeOf`: what an operation has filled in by the time it reaches a step;
- `LoadedVersionsOf`, `LoadedDocumentOf`: rows are never removed, a version keeps its
  document and number, `latest_version_number` only grows;
- `LoadedNumberOf`: an indexing carries no number above the latest it loaded, which
  is why the maximum it writes back changes nothing;
- `FreshOf`: an upload that has been flushed adds exactly the next number to the
  latest row, because it found no duplicate and holds the lock;
- `Exclusive`: two flushed sessions lock no row in common;
- `IssuedFirst`: no version has an id that was not issued.

Each action has a lemma that it preserves `IInv`. Actions that only change one
session go through `LocalStep` and `LoadStep`; the work is in `Commit`, one lemma per
kind of operation.

`IntegrationHubProofs.tla` proves, for all sets of providers, users and sessions and
all bounds, from the named assumptions of `IntegrationHub` (bounds are naturals;
handlers and workers are disjoint; `None` is no row), whether or not locks outlive sweeps:

| Theorem | States |
|---|---|
| `HubTypeCorrect` | `Spec => []TypeOK` |
| `CredentialsCorrect` | `Spec => []ConnectedHasToken` |
| `DatesCorrect` | `Spec => []DisconnectedDated` |
| `ConfigurerCorrect` | `Spec => []SomeoneConfigures` |

The inductive invariant `HInv` joins the four properties with what every session
knows (`SessionInv`): which rows an operation has found by each step, that a connect
started from no integration or a disconnected one and grants its user the right to
configure, and that rows found are still there. Two facts about the tables complete
it: a token row and a handed-out state have an integration. `CommittedIntegration`
is the heart of the argument: whatever the committed row has become since it was
loaded, merging the changed columns into it keeps status and date in agreement,
because every operation either writes both or neither of what the date depends on.

The same module proves `TokenUsedOnce`, `Spec => []RefreshTokenUsedOnce`, under the
two conditions the property states: locks outlive sweeps and nothing has crashed. The lock alone
does not prove it, since a token is read at the start of a sweep and presented much later, and a
callback may replace it meanwhile. `RInv` adds to `HInv`

- `Fresh`: a pair of tokens belongs to one provider and is known to one session until it is
  committed; without it a committed token could be one that was presented already;
- `Once`: a refresh under way holds the lock of its provider and is the only one; a token that
  was presented since a sweep listed it still has its lock (`ListedUnused`); and a committed
  token that was presented is about to be replaced (`CurrentUnused`), so that whoever takes the
  lock next finds another.

With the same invariant it proves `RevokedCredentials`, `Spec => RevokedUntilAuthorized`, without
those conditions. Only a commit changes a row of credentials (`TokensCommitted`). A sweep does not
change `revoked_at`, so its UPDATE leaves it alone whatever it had loaded, and a disconnect sets
it (`RevokedRow`); so the session was an authorisation, and by `Fresh` its new pair differs from the
one it loaded, so that the pair is written with the cleared `revoked_at` and never without.

It also proves what a version goes through:

| Theorem | States |
|---|---|
| `LogImplemented` | `Spec => ImplementsLog` |
| `ChunksCorrect` | `Spec => []ChunksOfLastIndexing` |
| `ServedCorrect` | `Spec => []ServedWasIndexed` |
| `DeletionLasts` | `Spec => DeletedStaysHidden` |
| `OnlyDeletionHides` | `Spec => OnlyDeleteHides` |

For the log, the initial state maps to an empty one, and every step maps to an upload, an
indexing, a deletion or a stutter. It rests on `IInv` and on one more fact, that a flushed
indexing has drawn its time; only `Commit` changes what the log sees, one lemma per kind of
operation. The other four need `Past`: no time is later than the clock, a
flushed indexing has a later one than the row it loaded, and what a search has found or the
cache holds was indexed. Without the times a flush could write an `indexed_at` equal to the one it
loaded, which is no change to SQLAlchemy and would leave the row with the time of another
indexing next to the chunks of this one.

`AuthSessionsProofs.tla` proves, for all sets of addresses, ids, tokens and requests and any
number of crashes, from the named assumptions of `AuthSessions`:

| Theorem | States |
|---|---|
| `AuthTypeCorrect` | `Spec => []TypeOK` |
| `WorkspacesWhole` | `Spec => []WorkspaceWhole` |
| `ActiveVerified` | `Spec => []ActiveIsVerified` |
| `PasswordOwned` | `Spec => []PasswordByOwnToken` |
| `RevocationLasts` | `Spec => RevokedStaysRevoked` |
| `RevokedStaysRefused` | `Spec => BlacklistOutlivesToken` |
| `AccountsProgress` | `Spec => AccountsMoveOn` |
| `PendingProceeds` | `Spec => []PendingCanProceed` |

Its inductive invariant `AuthInv` says of each request what it has found out and can still
rely on (`Shape`, `Holds`, `Inserts`, `Relies`), and of two requests (`Apart`) that a fresh id is
nobody else's and that the locks of a deletion keep out whatever refers to the
workspace. Without `Apart` a commit could put a user into a workspace that another
commit has just removed; without `Holds` nothing would tie the token a request consumed
to the row it updates.

`PendingProceeds` needs more, `PendInv`: that a user who is not active is covered, by a token or
by a request, says nothing of the step after. A request may consume the token and then fail to
activate the row, so it adds what makes that step succeed: the token presented is of the type
the operation takes and the token carried is in Redis (`Tied`), no two requests carry or present the
same new one (`OwnToken`), and the token agrees with the row it was made for in organization and
status (`Claims`).

`AccountsProgress` needs to know that a request which is about to write a password has used up
the token it was asked for with (`SpentNext`): the deletion happens steps before the commit, and in
between other requests create keys, but only under tokens that were never used (`KeysAreNew`).

`RevokedStaysRefused` is arithmetic, for every precision of the clock and all moments: a clock rounded down
never makes the seconds left to `exp` too few (`TtlLongEnough`), Redis counts them from no earlier
moment, and so no key in the blacklist ends before its token (`KeysLast`).

`RowLocksProofs.tla` proves `LocksAgree`, `Spec => []OrdersAgree`, for any number of requests and rows and any
order of primary keys that has a first in every set. The invariant `LInv` says what a transaction is about
(`Shape`), which locks it can hold while its next statement waits (`Held`), that an id about to be inserted is
nobody else's (`Drawn`), and to which workspace the users belong that a deletion has locked or still will
(`Members`, `Shared`). `NoneIsStuck` then takes requests that all wait for one of themselves, without an
exception among them. A deletion could wait only for another deletion of its workspace, so there is
none; without deletions no invitation waits for its organization, and without those no registration
for its address. So each waits at its first lock and holds none, and nobody waits for it.

`ChunkerProofs.tla` proves, for all texts, sizes and overlaps, zero and negative ones included, `ChunkerTypeCorrect`,
`IndexesDistinct`, `OrderCorrect`, `Complete` and `TurnsAdvance` (the five properties of
`chunker_texts`; `NothingLost` is stated for a positive size and an overlap that is not negative). Its invariant says where the buffer begins (`BufferInv`), that every word passed is
in the buffer or in a chunk (`CoveredInv`), and that the chunks so far have smaller
indexes and begin before the next one (`FrontierInv`).

`WorkflowProofs.tla` proves, for any number of tasks, `WorkflowTypeCorrect`, `EndedTasksComplete`
(`EndedComplete`) and `OutputNeverWritten`: the final output stays unwritten for every
task. Its invariant `Progress` ties the index, the statuses and
the steps executed together.

`MigrationsProofs.tla` proves, for any number of migrators and any versions they go from and to:

| Theorem | States |
|---|---|
| `SchemaCorrect` | `Spec => []VersionMatchesSchema` |
| `DeclaredOnly` | `Spec => []MigratedIsDeclared` |
| `RowsFollow` | `Spec => []WorkspaceRowsFollow` |
| `DefaultsRefused` | `Spec => []OnlyDefaultsRefused` |
| `HistoryImplemented` | `Spec => ImplementsHistory` |

The scripts are looked up once: what each revision makes (`UpgradesMake`), that its downgrade
drops all of that (`Undone`) and nothing of another (`Spared`), and at which place each name is made
and dropped (`MadeInOrder`, `DroppedInOrder`), so that what a table refers to comes before it and
goes after it (`TablesBackward`, `IndexesBackward`, `TypesLast`). The invariant `MInv` says what a
migrator sees. Once it has written `alembic_version` it holds the row, nobody else can commit, and it
sees what it would alone. Before that others may commit anything, so `RunInv` speaks only of
what its own statements have made and dropped, and `OlderCommitted` shows that a downgrade which is
not refused found its version still committed. `ViewIsExpected` puts the two together where the
version is written: if it is still the one the run began at, the run sees what it would alone.

`SchemaAt`, which the invariants compare with, is the union of what the upgrades make;
that running the scripts up and down arrives there is what is proved. All of this holds for the
scripts as they are and with mended defaults. `DefaultsRefused` says, for both, that a migrator which was not
overtaken has no statement refused but those defaults, and that only as long as they are not mended.

For `HistoryImplemented`, a `Begin` is a `Plan`, every statement and every `Number` a stutter, a rollback
a `GiveUp`, and a `Commit` a `Move`. The last rests on `MInv`: what the run sees is the schema of the version it
has written, and as it holds the row of `alembic_version`, nobody has committed since, so that
the move is still one from the version it was planned from. That it is a move at all needs
`Elsewhere`: a run that has the row is not on its way to the version there is.

Model-checked only: liveness (`CacheConverges`, `QueuedIsIndexed`, `DueIsRefreshed`, `EveryTaskEnds`), since
reasoning about fairness is out of the prover's reach. Every other property of a passing run is
a theorem.

## Not modelled, and the plan

The plan's modules are written, and the safety properties they state are proved.

Left out, and why:

- knowledge engine: creating a knowledge base (one insert; no code sets its `deleted_at`, so it
  is never taken up again), retrieval logs, lists and health;
- integration hub: `test` (writes logs only), lists, and members whom permissions limit;
- users and organizations: the values of names and domains (`RowLocks` has what a change of
  domain locks and refuses), and operations and the status *suspended* that no route reaches;
- locks that a deleted workspace takes, by cascade, in the tables of the knowledge engine and
  the hub, against requests that hold them;
- parsers, embeddings and similarity: stateless conversions and floating point;
- employees and the agent registry: one insert or delete per session, in routers that cannot be
  loaded; the runtime service: it delegates to a package that is not here;
- tool manager and event bus: nothing calls them;
- placeholder routes, configuration, front ends, notebooks and deployment files: no logic.
