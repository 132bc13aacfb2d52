# A TLA+ model of the VPDB server

VPDB is a Node.js server (Koa, MongoDB through Mongoose, Redis, Bull) that stores virtual
pinball tables and the files, media and metadata around them.  The code is in `src/src/app`;
paths below are relative to that directory.

The server keeps almost no state in memory.  What matters is in MongoDB, in Redis and in two
storage directories, and several processes of a pm2 cluster work on it at once.  Every `await`
is a point where another request, another process or a worker may step in, there are no
transactions, and most handlers read a document, wait, and then write something they derived
from it.  That is what the modules here are about.

| module | what it is | section |
| --- | --- | --- |
| `FileProcessing` | one uploaded file: upload, processing jobs, activation, deletion, download | 3 |
| `Derivation` | what the file's document promises; `FileProcessing` implements it | 3 |
| `FileKinds`, `Pipeline` | the file types, and the jobs a file of each type leads to | 3 |
| `ApiCache` | the cache of GET responses against the handlers that change content | 4 |
| `Quota` | the download credits of one user against concurrent downloads | 5 |
| `Archive` | downloads of releases and single files, and what they count | 5 |
| `Accounts`, `Ratings`, `Stars`, `Community` | votes, stars and their counters, while users are merged | 6 |
| `Moderation`, `Comments` | releases and backglasses under moderation, their lists, and comments | 7 |
| `Identity` | accounts: registered, confirmed, linked, changed, merged, with roles in Redis | 8 |
| `Permissions`, `Sessions` | the access control lists; tokens and what they authorize | 8 |
| `LoginBackoff`, `PasswordReset` | the back-off of an address; resetting a password | 8 |
| `Catalogue` | games, ROMs, game requests and the entries that refer to games | 9 |
| `Attachments` | the documents that take, exchange and drop uploaded files | 9 |
| `Uploads` | raw and multipart uploads, and how they are answered | 9 |
| `Versions`, `TableFiles`, `Rotation` | the array of versions of a release, its table files, its images | 9 |
| `BlockIndex`, `Listing` | the index of table contents; lists, page by page | 10 |
| `…Proofs` | theorems, see section 12 | |
| `MC…` | the instances TLC checks, see section 11 | |

`PROJECT.json` lists components, runs, mutants, findings, hazards and theorems, and maps every
definition to the lines it models.

Definitions that a comment calls a *mutant* belong to no specification: each is a form of the
definition behind it with a plausible mistake, and shows that the property it is for can fail.

Two conventions run through all modules.  An action is the code between two awaits that others
can observe.  And where the code is known not to keep a promise, the property does not hide
the case but names it: a *history* variable records what happened (two requests overlapped, a
request died half-way), nothing but properties reads it, and the property holds for all that
is not recorded.


## 1. Inventory

For each part: its state, its operations, what it talks to, what is hard about it, and what
would make it correct.

### Files

**File processing** (`files/processor/processor.{queue,worker,manager}.ts`).  State: Bull
queues in Redis, one per job type (creation, optimization) and MIME category, with priorities;
two kinds of Redis keys, `queue:delete:<id>` and `queue:rename:<path>`; the files in the
protected and the public directory; `variations` and `is_active` of the File document.
Operations: `processFile` queues the jobs of an upload; the creation worker makes a variation
from a copy of its source, describes it, moves it into place and queues what depends on it;
the optimization worker rewrites a file; `activateFile` moves public variations out of the
protected directory; `deleteProcessingFile` stops the jobs of a deleted file; `stats` lets a
download wait for a variation.  Hard: all of these overlap, on several nodes, for minutes, and
they coordinate by scanning queues and by keys that a worker reads once.  Correct: every
variation is created and stays stored; nothing is public before activation; creation and
optimization of a file never overlap; deletion leaves nothing; waiting downloads are answered;
queues drain.

**File documents and uploads** (`files/file.{util,ts,schema,api}.ts`).  State: the File
collection.  Operations: `create` (store, read the metadata, save, place, queue), `getPath`,
`switchToActive`, `remove`, `FileApi.del`.  Talks to file processing and, through the file
reference plugin, to every entity with files.  Hard: `del` tests `is_active` on a document it
then holds over several awaits.

**File storage** (`files/file.storage.ts`).  Upload bodies, raw or multipart, and downloads:
find the file, check the permissions and the quota, wait for the variation, stream.  Hard: the
multipart parser's `finish` event and the promise of `create` settle in either order.

**Processors, metadata, file types** (`files/processor/*.processor.ts`, `files/metadata`,
`files/file.types.ts`).  Libraries behind an interface, and tables of constants.  For the rest
of the system a processor writes its destination, returns null or throws.

**Table blocks** (`files/processor/vpt.blockindex.processor.ts`,
`files/file.blockmatch.api.ts`, `common/visualpinball.table.ts`).  State: a document per block
of table contents with the files it was found in.  Operations: a job takes a table apart and
indexes its blocks; removing files and releases takes them out; the API compares files by
common blocks.  Hard: the job inserts or saves blocks it has looked up before.  Correct: the
matches are those the contents ask for.

### Cross-cutting

**API cache** (`common/api.cache.ts`).  State in Redis: responses by path and user, reference
sets from tags (entity and level, listed model, user) to keys, counters beside the responses.
Operations: the middleware serves a hit or computes and stores a miss; fifteen `invalidate…`
methods; counters.  Talks to every handler that writes.  Hard: the miss reads the database
before it stores, the store is not atomic with its tags, and which tags a handler must look up
is decided by hand.  Correct: a stored response equals what its route would answer, or is
about to be deleted.

**Moderation plugin** (`common/mongoose/moderation.plugin.ts`).  State: `moderation` of
releases, backglasses and ROMs.  Operations: approve, refuse, moderate, delete, undelete,
automatic approval on the first save; the release counter of the game follows changes of
`is_approved`.  Hard: the change is judged against the document loaded earlier, so two
moderators both count; delete and undelete write flags of a stale document back.

**Metrics and counters** (`common/mongoose/metrics.plugin.ts`, `common/metrics.ts`),
**ratings** (`ratings`), **stars** (`stars`), **comments** (`comments`).  State: one rating
and one star per user and entity, counters and a rating summary in the entity, counters again
in Redis.  Hard: duplicates are looked for before the save; summaries are aggregated and then
written, so they may be written in the wrong order; a star and its counter are two writes.
Correct: counters count, at most one star and rating per user, the last summary wins.

**Quota** (`common/quota.ts`).  State: a sorted set per user and period in Redis.  Operations:
`get`, `assert`, `consume`.  Hard: assert reads and consumes in two round trips; two downloads
in one millisecond at one cost are one member; the key expires only if one request sets the
expiry.  Correct: never more than the plan's credits, and they come back.

**Tokens and authentication** (`tokens`, `common/middleware/authentication.middleware.ts`,
`common/scope.ts`, `common/acl.ts`).  State: application tokens with type, scopes, expiry and
activity; JSON Web Tokens, which only expire; roles in Redis.  Hard: tokens beget tokens, and
account and token may change while a request is under way.  Correct: what authorizes a request
goes back to credentials and was good when the request came.

**Accounts** (`authentication`, `users`, `profile`, `common/acl.ts`).  State: users with local
and provider credentials, e-mail confirmation and reset tokens, login back-off in Redis.
Operations: registration, confirmation, OAuth identification and creation, password reset,
merging of users.  Hard: `mergeUsers` moves references in some twenty collections one after
the other; the first user becomes root after a count; confirmation merges documents read
earlier; the lock of the back-off gets its expiry in a second command.  Correct: one root, one
account per confirmed address, a merge that leaves no reference to the removed user and no
duplicate of what it moved.

**Base API** (`common/api.ts`).  Validation and response helpers, pages and their links, the
authorization of a route, and the back-off of an address after failed logins: a counter and a
lock with its own expiry in Redis, set command by command.

**File reference plugin** (`common/mongoose/file.reference.plugin.ts`).  Validates that
referenced files are inactive, activates them after the save, removes them with the entity.
Hard: two parents may validate the same file before either activates it.

**Other plugins, serializers, settings** (`common/mongoose`, `common/serializer.ts`).
Functions of one document.

### Content

**Games, game requests, ROMs, backglasses, media, tags, builds**.  Each a collection with
create, read, update and delete.  References are ids that nothing checks but the handlers: a
game is removed after its releases were counted, a ROM looks for its game and a game for its
ROMs, a build is removed after its uses were looked for.  Correct: nothing refers to what is
gone; what belongs together finds each other in either order.

**Releases, versions and files** (`releases`).  A release holds its versions, these their
files, in one document with Mongoose's counter `__v`; requests push into documents loaded
before.  Playfield images are rotated *before* a request is validated
(`release.abstract.api.ts`), with a rollback that is to undo it.  Lists filter and show files
by flavor.  Correct: nothing that was answered with 201 is lost, images are as they were
accepted, lists show what was asked for.

**Release storage** (`releases/release.storage.ts`).  An archive of a release's files:
collected, charged, counted in up to a dozen documents, named apart.

**Event and user logs** only append.  **IPDB, mailer, Slack bot** are I/O with third parties.
**Infrastructure** (`server.ts`, `state.ts`, middleware) starts processes; the cluster appears
as the constant `Nodes`.  **Miscellaneous API** serves the cached sitemap and flushes the
cache.  **Scripts and migrations** run by hand on a stopped system.


## 2. Plan

The order in which the system was modelled, most important behaviour first.

1. The file pipeline: it has the most actors, its hazards destroy data, and its comments make
   claims about concurrency.  *Done*: `FileProcessing`, `Derivation`, `Pipeline`, `Uploads`,
   `Attachments`, `Rotation`.
2. The cache, which every other part calls.  *Done*: `ApiCache`.
3. What is counted: credits, votes, stars, comments, downloads.  *Done*: `Quota`, `Community`,
   `Comments`, `Archive`.
4. Moderation.  *Done*: `Moderation`.
5. Accounts and what they may do.  *Done*: `Identity`, `Sessions`, `Permissions`,
   `LoginBackoff`, `PasswordReset`.
6. The content and its references.  *Done*: `Catalogue`, `Versions`, `TableFiles`.
7. What readers see: lists and block matches.  *Done*: `Listing`, `BlockIndex`.
8. Proofs.  *Done* for `FileProcessing` with its refinement, `ApiCache`, `Quota`,
   `LoginBackoff`, `PasswordReset`, `Sessions`, `Identity`, `Community`, `Moderation` with
   `Comments`, `Catalogue`, `Attachments`, `Uploads`, `Versions`, `TableFiles`, `Rotation`,
   `Listing`, `Archive`, `Pipeline` and `BlockIndex`: every safety property of a run is a
   theorem.

Left: reprocessing of a file and Bull's second attempt at a stalled job in `FileProcessing`;
comments and builds as writers of `ApiCache`.


## 3. FileProcessing

### State

| variable | in the code |
| --- | --- |
| `doc` | the File document: existence, `is_active`, names in `variations` |
| `fs` | the paths in the storage directories: directory, item, suffix |
| `pc`, `src`, `dest` | the Bull jobs: queue state or step of the worker, `srcPath`, `destPath` |
| `seen`, `runner` | `is_active` in the worker's copy of the document, the node that runs the job |
| `lock`, `renamed` | the keys `queue:delete:<id>` and `queue:rename:<path>` |
| `upload` | where `FileUtil.create` is |
| `act` | where `switchToActive` and `activateFile` are |
| `del` | where the deletion is and what it read; `quiet` is history |
| `get` | where a download is in `FileStorage.find`, `stats` and `serve` |

Items are the original and the variations of a file type, with their source, category,
processor priority and cost given by constants, so a file type is a value of the constants and
the theorems hold for all of them.

### Actions

One action is the code between two awaits that others can observe.

* `UploadStore … UploadQueue` follow `FileUtil.create` and `processFile`: the file is written,
  the metadata read (the only refusal), the document saved, the original placed (copied if an
  optimizer will rewrite it), and one job queued per await, creations first.
* `Take` is Bull handing the first job of a queue to a free worker of a node.
* `Load, CreateCopy … CreateEnd` follow `ProcessorWorker.create`, including the copy outside
  the `try` block, the processor that throws, the check of the delete key, the look-up of the
  rename key, the reload and `continueCreation`, one queued job per await.
* `OptimizeProcess, OptimizeCheckDeleted, Resolve, OptimizeMove` follow `optimize`.
* `ActivateSave, ActivateScan, ActivateFlag, ActivateStat, ActivateRename` follow
  `switchToActive` and `activateFile`: the flag is saved, each queue's active jobs are listed
  and their items flagged for the worker, the other items moved one by one.
* `DeleteLoad … DeleteUnlock` follow `FileApi.del` or the removal with a parent,
  `FileUtil.remove` and `deleteProcessingFile` with its background part.
* `GetLoad … GetOpen` follow a download.

Merged awaits, and why nothing is lost:

* `CreateMove` unlinks and renames in one step: nothing lies at the final path before a file
  is processed again, so the unlink never happens.
* `OptimizeCheckDeleted` contains the metadata update before it: the name is already in
  `variations` (lemma `DocGrows`), so the update changes nothing the model holds.
* Directories exist; `mkdirp` is left out.
* Every item has at most one processor per queue, as in `file.types.ts`.
* Other files only delay the jobs of this one, which every interleaving covers.

### Runs

All with an image type in which `small` is made from `medium`, and `medium` from the upload: a
chain, because a variation of a variation is queued by a worker and not by the upload.

| run | instance | properties |
| --- | --- | --- |
| `MC_upload` | everything optimized, the optimizer of `small` returns null, a download of `small`, two nodes | `TypeOK`, `ProcessedCompletely`, `GetFinds`, `EventuallyProcessed` |
| `MC_activate` | activation at any time, processors may throw, two nodes | `OneWriter`, `NothingLost`, `PublicOnlyIfActivated` |
| `MC_race` | activation against deletion by owner or parent | `DerivationSpec`, `EventuallyQuiet`, `QuietDeleteIsClean` |

Bounds: one file (files share nothing but queue slots), one activation, one deletion and one
download per behaviour (the code starts at most one of the first two; the downloads of a file
do not affect each other), a chain of two variations (a source that is itself a variation, one
that is not, a leaf), two nodes where it matters who hears an event.  `CHECK_DEADLOCK FALSE`:
a file that is processed and a request that is answered have nothing left to do.

What they show.  `ProcessedCompletely` and `EventuallyProcessed`: an upload nobody interferes
with is processed to the end, with nothing missing and no intermediate file.  `GetFinds`: a
download that is woken finds its file, because a job completes only after the move.
`OneWriter`: the queueing order of `continueCreation` keeps creation and optimization of a
file apart, although nothing locks them.  `NothingLost`: between worker, optimizer and
activation a created variation is always in one of its two places.  `PublicOnlyIfActivated`:
stale documents never publish a file.  `QuietDeleteIsClean`: a deletion that begins when no
job is outstanding removes everything.  `EventuallyQuiet`: no interleaving of activation and
deletion leaves a job in a queue.

`Finding_lost_wakeup` refutes the comment in `processor.queue.ts:70` that the socket of a
download is kept until the item is available: the job ends between the count and the
registration, or on another node, and the request hangs.

What the exceptions in these properties stand for: a deletion while jobs are running may leave
files, because a worker that has passed the check of the delete key moves its result into
place after the files were removed (hence `QuietDeleteIsClean`, of deletions with no job
outstanding); and an activation may leave a variation in the protected directory, when the
worker asked for the flag before it was set, when the job was waiting with the old path, or
when its optimizer fails after the flag was set (hence `NothingLost`: in one of two places).

Read in the code but not run: a variation whose own source is not finished has no job yet and
is answered 404 at once (`processor.queue.ts:199`), where `files/processor/README.md` says the
socket is kept open; a file that an activation has not moved yet is looked for in the public
directory only (:166), where that README says the original directory serves it.

### Fairness

`FairSpec` assumes weak fairness of the upload once begun, of every job's worker, of `Take`
for every job, of an activation once begun, of the deletion and of the download.  That is the
Node.js event loop and Bull's polling.  No client is obliged to come, and no processor to
succeed.  A node that stops for good is outside this assumption.

### Pipeline

`FileProcessing` has every step of the jobs of one file with two variations; `Pipeline` has
every file type with every processor (`FileKinds` are the tables of types and categories), and
a job that is taken and finished.  `waiting` are Bull's queues in the order of the priorities,
`active` the jobs at work, `made` which version of the original each item was made of.
`QueueUpload` is `processFile` of an upload, `FinishCreation` queues what `continueCreation`
does, `FailCreation` is a processor that throws.  `RotateUpload` and `QueueRotated` are what a
release does to an image that was uploaded as `playfield`: it gets a type with more variations
and is queued once more.

`EveryVariationMade` (run `MC_access`): once no job is left a file has every variation of its
type, of the image as it is now, but for a job that was still at work on the image before it
was rotated (the code does not stop it: `release.abstract.api.ts:190`); no job starts without
its source; no job is in a queue that activation and deletion do not scan.  Two workers per
queue: an old and a new job of one variation at once is the race there is.  Image, video,
table and backglass libraries appear by their outcome.  `AccessProofs` proves it for every
file the API accepts and any number of workers (section 12).

### Proofs

`FileProcessingProofs`, from the assumptions on the constants alone (the sources form a
function into the items, only variations are public, every job has a queue):

* `TypeCorrect`: `TypeOK`.  It is not inductive: a worker adds its `dest[j]` to the stored
  paths, so queued jobs must have one, beside the files of their own item.  `TypeInv` adds
  that.
* `OneWriterAlways`, `NothingPublicEarly`, `NothingEverLost`, from `IInv == TypeInv /\
  OrderInv /\ PublicInv /\ StoredInv`.
  * `OrderInv`: a variation is described only by its own job, jobs exist only once the item
    before them is available, a removed document stays removed, `OneWriter`.
  * `PublicInv`: a job whose copy of the document is active, or that found a rename key,
    implies that the document has been activated; then `PublicOnlyIfActivated`.
  * `StoredInv`: `NothingLost`.  It needs `OneWriter`: only then is the final file not between
    unlink and rename of two jobs.
* Lemmas `AnyJobStep` and `AnyDocStep` say once what any step may do to a job and to the
  document; each invariant is then proved per kind of step, not per action.

`ImplementsDerivation`: every step of `Spec` is a step of `Derivation` or a stutter, under the
mapping in `FileProcessing` (`Phase`, `doc.active`, `doc.variations`).  It uses `OrderInv` for
the one case that is not immediate: a job that describes a variation finds its source described.

`UploadsAreProcessed`, `RequestsFind` and `QuietDeletionsAreClean` have the hypotheses of the
runs that check their properties: no processor fails, and nobody activates or deletes the file
(the third: as `QuietDeleteIsClean` says).  `CalmInv` describes the disk while nobody has begun
to: a path is stored if and only if it is what the upload (`Uploaded`) or one job at its
present step (`Made`) has there, and no two have the same.  A step of a job replaces what it
had by what it has then (`CalmMove`, `Tidied`); that an optimizer replaces a file that is there
comes from `Available`.  When no job is left the disk follows from what is described
(`TidyWhenQuiet`).  `UploadsAreProcessed` further assumes that every set of variations has one
whose source is outside of it, which is how a finite tree is said without counting; applied to
the variations that are not described it leaves none.  `RequestsFind` (`GetInv`) needs that a
file in place stays there (`FinalStays`), `QuietDeletionsAreClean` (`QuietInv`) that no job
comes once none is outstanding (`StaysQuiet`).

Only model-checked: the liveness properties.


## 4. ApiCache

### State

| variable | in the code |
| --- | --- |
| `db` | what the cached routes read: one game, releases, a backglass, a medium, their author |
| `cache` | the responses under `api-cache:…` |
| `refs` | the sets under `api-cache-ref:…`, as pairs of tag and key |
| `miss` | requests in the middleware between the look-up and the last `sadd` |
| `writer` | requests in `invalidate…`: calls left, tag lists left, keys found |
| `excused` | history, see below |

The routes are the ones with caching enabled that show content: the lists and details of
releases and games, and the sitemap.  An entity is a few values, split the way the serializers
and the invalidation levels split it: what every mention shows (`name`), what only lists and
details show (`more`, `rating`, the reader's star).  `Shown` is what the queries of a route
select, `LevelOf`, `Lists` and `Tags` are the references and list models the routes are
registered with.

### Actions

* `Request, Read, Store, Tag`: the middleware and `setCache`, an action per await.  `Read` is
  the last query of the route; a route with several queries can mix two states of the
  database, which counts as a miss overlapped by a write.  Production does not await
  `setCache`, so the client's answer plays no part.  The `sadd`s leave together on one
  connection.
* `Expire`: responses of signed-in users live for a day.
* `MissFails, WriterFails`: the process dies, or MongoDB or Redis answers with an error.
* `NextCall, Scan, Drop, Finish`: the calls of a handler in order; per call the reference sets
  are read, then the keys found deleted one by one.
* `InvalidateAll`: the Lua script behind the flush, atomic.
* The handlers: `Save` writes the document; the plan is the calls the code makes, with the
  levels it passes, and with the game it fails to name when `_game` is not populated
  (`deleteRelease`, `validateFile`).

### What is claimed

A cache without locks cannot always be fresh.  `StaleOnlyIfExcused` states exactly when it is:
a stored response that differs from what its route would answer now is about to be deleted by
a handler under way, or `excused` contains it, which happens only when

1. a write happened while the miss that stored it was under way, or between its `set` and its
   `sadd`s;
2. the process failed between the `set` and the `sadd`s, or in the middle of an invalidation;
3. a handler changed a page that its invalidation forgets.  These are `starRelease` for the
   details of the release, `deleteRelease` for all pages (it invalidates and then removes),
   approving a backglass for the details of its game (no page carries its tag yet),
   `updateBackglass` for the details of the game and `createMedium` for the details of the
   game and the sitemap (they invalidate nothing), a renamed author for the sitemap.

For every other pair of the twenty handlers and five pages the tags suffice, and that is what
the run and the proof establish.  `Findable` is the other half: a response without an excuse
is in all its reference sets, or its miss is about to put it there.

`MC_reading` checks both with one miss, one writer, one release, a reader with and without a
token, two values per field and all handlers.  One miss and one writer suffice for every pair
of page and handler, which is where the errors would be; their combinations are covered by the
proof.

### Proofs

`ReadingProofs` proves `CacheTypeCorrect`, `StaleOnlyWithExcuse` and `AlwaysFindable` for any
number of releases, readers, misses and writers, from the assumptions that the entities
differ, that there is a value, and that the anonymous reader is none of the readers.

The inductive invariant is `IInv == TypeOK /\ Current /\ Tagged /\ StaleOnlyIfExcused`.
`Current`: a miss that no write has overtaken holds, and has stored, what its route answers
now, unless a raced twin replaced it.  `Tagged` is `Findable` with the miss required not to be
raced; without that, a tag step could tag a body other than the stored one.

The argument has two halves.  *Data*: `Covers(newdb, plan, gaps)` says that every page the
change alters carries all the tags of some tag list in the plan, or is a gap; one lemma per
handler (`GameHandlers … AuthorHandler`) proves it from what the page shows (`EditShows`,
`ReleaseReach`, `AssetReach`) and how it is tagged.  *Protocol*: `SaveKeeps` turns `Covers`
into the invariant (the page is tagged, so the plan will find it: it is `Pending`);
`RemovalKeeps` and `WriterKeeps` show that no later step of an invalidation loses what is
pending.

### Left out

Counters (`mset`, `mget`, `incrementCounter`), which live beside the response and are in
`Stars`; `invalidateAllEntities`, provider tokens, builds, comments, creation and deletion of
games; a hit, which changes nothing; readers who are creators or moderators and see more; the
deferred mails, logs and view counters of the handlers; games of type `og`, for which the
first release also changes the list of games.


## 5. Quota and Archive

`Quota` follows one user with a limited plan.  `debits` is the sorted set in Redis, `ttl` its
expiry, `req` the downloads, `now` the clock; `grants` and `timeless` are history.

* `Ask, Read, Decide, Add, Expire, Serve`: `Quota.assert` with `get` and `consume`, an action
  per round trip, for one file (`FileStorage.get`) or the files of a release
  (`ReleaseStorage.download`).  `Add` is the `MULTI` of `zadd` and `zrange`; a member is the
  time and the weight, so two equal debits in a millisecond are one.  `Expire` is the
  `pexpire` of the request that found its own member alone.
* `Tick` moves the clock and drops the whole set when its time has come, `Fail` ends a request
  at any await.

`OverspentOnlyByRaces`: of the downloads in a period, those that neither were overtaken
between their read and their debit nor shared a member cost no more than the plan gives.  The
code has no lock, so more cannot be said; less would hide a wrong comparison or a lost debit.
`PeriodEnds`: a set of debits has an expiry at most a period away, or the request that began
it is about to set it, or died before.  The last case is real: no later request finds one
member, so the user's credits never come back.

`MC_access` checks both with three requests, two files of one credit and a free one, a short
period and a clock that passes its end.  Three requests are a first one that begins the period
and two that race.

`AccessProofs` proves both for every plan, cost and number of requests.  Neither is inductive
alone (section 12).

Left out: headers, unlimited plans (return at once), `getCost` (a table), the owner's and
public files (no quota).  `reset` is documented as the seconds until the period ends
(`common/quota.ts`, interface `UserQuota`), but is a point in time once a period is active.

`Archive` has what a download costs and counts beyond the credits.  `fetch` are the requests,
`counted` the counter of downloads of every document, `score` the popularity computed from it;
`lost` and `raced` are history.

* `Collect, Charge` are `collectFiles` with the shelf of versions and the dry run of
  `checkDownload`; `CountDownload` are the increments of `Promise.all` in any order, of which
  one may fail; `AppendTable, Finalize` put the files into the archive under names told apart
  by `(n)` and unpack archives into it; `ServeFile, CountServed, Served` are the download of
  one file, whose increments follow each other.

`ArchiveAsAsked`: an archive has the tables asked for and no other, all other files of their
versions, no two tables of one name, and nothing unpacked on top of one.  `DownloadsAgree`:
when nothing is under way and no increment was lost, the tables were downloaded as often as
the game in archives and they on their own, none more often than its file, and every score is
that of its counter but where another request counted in between (the score is computed from
the counter of the loaded document, `metrics.plugin.ts:94`).  Both are proved for any release
and any number of requests.

The instance: two versions, the newer with two tables that get the same name and a rar with a
table of that name again; a picture, media of the game; two requests at a time, which is a
race of two scores; an increment that may fail at a release, a table and a file.

Read in the code: all files of a touched version are counted, requested or not; a download of
a single file does not count for the game; the credits are gone when a counter fails
afterwards; media of one name are not told apart; a rar without entries never resolves.  Left
out: the bytes of `zipStream`, licence text, headers.


## 6. Accounts, Ratings, Stars, Community

### State

| variable | in the code |
| --- | --- |
| `users`, `merge`, `ghosts` | the User collection, where each `mergeUsers` is; history |
| `ratings` | the Rating collection |
| `entity`, `atm` | `rating` of games and releases, the key `metrics:atm` |
| `rateReq`, `outdated`, `revoters` | the rating requests; history |
| `stars`, `db`, `counters`, `stored` | the Star collection of one entity, its counters in MongoDB and in Redis, whether its details are cached |
| `starReq`, `drifted`, `shifted`, `restarrers` | the star and detail requests; history |

A mean is a sum and a count, so an entity's average, votes and score are the record of what
they were computed from.

### Actions

* `FindRating, SaveRating` are `create`, `update` and `del` of `RatingApi`; `ReadMean, AddUp,
  Put` the global mean and `updateEntityMetrics`; `Compare, KeepMean, ListRated` the rest of
  `onRatingUpdated` with its loop over all rated entities, which comes back to `AddUp` and
  `Put`.
* `FindNoStar, SaveStar, FindStar, RemoveStar` are `_star` and `_unstar`, followed by `Bump`
  (Redis) and `Count` (MongoDB) of `incrementCounter`.
* `Load` and `Hit` are a GET of the entity's details on a cache miss and hit, with the view
  counter; `StoreResponse, SetCounters` what `setCache` does with body and counters; `Forget`
  any invalidation.
* `MergeRatings, MergeStars, RemoveMerged, MergeFails` are `mergeUsers`, from its update of
  the ratings to the removal of the merged user.
* `RateFails, StarFails`: the process dies, or a database answers with an error.

Merged awaits: a request is authenticated in the step that looks for its rating or star
(`Admit`); a merge between the two is the same as one right after.  Two merges do not share a
user.

### Properties

All hold of the code with exceptions that the code has, and the properties name them.

* `AverageCurrent`: unless the last write of an entity's summary was computed before its last
  rating, or a request failed before that write, the summary is that of the ratings.  It is
  what the order save, aggregate, write gives, also against the loop of another request.
* `StarsAgree`: the counter is the number of stars, but for requests between the two writes, a
  crash there, and a star that was removed twice; and the cached counter is that of the
  database, but for requests between the two and responses that brought back what they had
  read.  For the views no such property holds: a miss loads the document, bumps the counter
  and stores the old value.
* `VotesHold`: nobody has two ratings or stars but by overlapping requests or by a merge, and
  a rating or star belongs to a user who exists, but for users who were voting while they were
  merged away.

`MC_community` checks them with two users, two games, one rating and one star from before, two
requests that may be of either kind and one merge.  Two requests are a race; two games let the
loop over all entities meet a vote on another one.  `CHECK_DEADLOCK FALSE`: requests and merge
end.

All three are proved too (section 12).

The merge is the exception in `VotesHold` because the comments "then, remove duplicate
ratings" and "then, remove duplicate stars" (`users/user.util.ts:210, 235`) do not hold: the
updates before have left nothing under the name that is looked for, so the kept user may have
two ratings of one game.

Read in the code but not run: `metrics.ts:48` drops the fraction of the stored mean, so a
change from 7.33 to 7 goes unnoticed, and one key serves games and releases.

Left out: the other collections of a merge, hotness scores, the minimum number of votes in the
score.


## 7. Moderation and Comments

`Moderation` follows releases and backglasses of one game.

| variable | in the code |
| --- | --- |
| `saved`, `creator` | which entities are in their collections, `_created_by` |
| `moderation` | `is_approved`, `is_refused`, `is_deleted`, `auto_approved`, `history` |
| `counted` | what the game's `counter.releases` got for each release |
| `req` | the requests, each with the moderation data of the document it loaded |
| `outrun`, `rewritten`, `failed` | history |

* `Create, CreateReload, CreateCountAny`/`CreateCount` are the first save with its automatic
  approval, the second load for the files, and the counter hook after the response.
* `Moderate, ModerateUpdate, ModerateCount` are `handleModeration`: the loaded document
  decides what the update writes (`Moderated`) and whether the counter moves.
* `Delete, RemoveEntity` remove a release or backglass; `Die` ends any request.
* `Listed` and `Viewable` are the queries and checks that decide what a reader sees:
  moderation, restricted games, owners and authors, with the `moderation` filter.

`Comments` extends it: `StartComment, SaveComment` (public or for the moderation),
`CommentOnModeration` (the message of a decision), `StartMove, SaveMove` between the two,
`Count` for each of three counters, `RemoveComments` with the release, `CommentDies`.  A move
is made on a document loaded before (`was`), and Mongoose writes the reference only where it
differs from what was loaded; what is counted does not depend on it.

* `ReleasesCounted`: the game has counted a release once if it is approved and else not,
  unless its flags changed between a request's read and its use, or a request died.
* `HistoryExplains`: the flags are what the history tells, but for deletions that wrote back
  flags loaded before another decision (`moderation.plugin.ts:418`).
* `ListedIsViewable`: whatever a list shows a reader, the view opens for him.  The two are
  written in different words: queries on one side, checks of a document on the other.
* `CommentsConsistent`: a comment is counted once where it is public and gone with its
  release, but a comment that a request counted as moved and did not move (it was there
  already, or was there when the request loaded it, so that nothing was written while another
  request moved it away, `comment.api.ts:221-260`), one saved while its release was going, and
  users whose counter a moderator moved (it is the mover's counter that moves, :227).

All four are proved too (section 12).

`MC_moderation`: a release and a restricted backglass, their author and a moderator whose
releases are approved at once, three requests.  Two moderators race each other, the third
request removes or comments; every kind of request occurs in every position.

Left out: messages and mails of the moderation, editing a comment's text, the serializer.


## 8. Accounts and access

### Identity

| variable | in the code |
| --- | --- |
| `users` | the User collection: address, status, validated addresses, provider, roles, `__v` |
| `acl` | the roles in Redis |
| `req`, `started`, `born` | the requests with the documents they hold; bounds |
| `vouched`, `asRoot`, `raced`, `twins`, `gained`, `crossed`, `failed` | history |

A save is accepted as MongoDB and Mongoose accept it (`CanSave`): the address is unique, a
list is written only over the `__v` that was loaded, a removed document cannot be saved.

* `Register, CountUsers, InsertUser, Grant` are `UserUtil.createUser`, with root for the
  first.
* `ProviderPut` is PUT users; `PatchEmail, Resend` the change of an address and its mail.
* `OAuth, FindOthers, IdentifyUser` are the callback of a provider: created, found, linked, or
  merged; `DropPending` removes registrations never confirmed; `MergeUser, RemoveMerged` are
  `mergeUsers`.
* `Confirm, FindSame, ConfirmMerge` are the confirmation of an address.
* `AdminUpdate, RevokeRoles` change an account and then Redis; `Restart` fills Redis from
  MongoDB; `Die`.

`AclFollowsRoles`: when nobody is at work on an account, Redis has its roles; excepted are two
updates that cross, and who was merged into, until the next start (`mergeUsers` saves roles
and tells Redis only of the removed user).  `OneRoot`: one account at most was created as
root, but for two that counted before the other was saved.  `IdentifiedOnce`: neither an id at
the provider nor a validated address belongs to two accounts, but to `twins`: an account that
got it although somebody had got it since the request looked, or although a third account had
it besides the two merged, or to which `PUT users` wrote it as the first of several that
match.  All three are proved too (section 12).

The case of the third account lies beyond the bounds of `MC_identity`.  It takes two merges of
one account, each of which has loaded it and one other; the proof did not go through without
it, and `twins` records it since (`MergesAlone`).

`Finding_mailed` refutes `doc/api/v1/user/user.raml:91`: the token for a new address is mailed
to the old one, because `profile.api.ts:436` sets the address back before the mail is made.

`MC_identity`: three accounts, two addresses, one person at the provider, two requests at a
time and three in all.  A merge needs two accounts and a third to be confused with; two
addresses are an old and a new one; three requests are an account, a second one, and what
brings them together.

Read in the code: a merge does not take over the user name and the local credentials;
`confirm` with `keepUser` of the other account leaves the confirming one inactive; a login by
OAuth may remove a pending account that was confirmed since it was loaded.

### Sessions and Permissions

`Permissions` are the tables of `acl.ts`: what a role allows and inherits.  `Sessions` has
`account`, `jwts` (those that have not expired), `tokens` (the application tokens) and `ctx`,
the state of a request between the middleware and its handler.

* `Login, LoginOAuth` issue sessions; `ReceiveJwt, ReceiveAppToken` are the middleware with
  its checks in order, and with the error it leaves to the handler; `Authorize` is `Api.auth`
  with plan, scope, role and the routes for services; `HandlerEnds` the others.
* `CreateToken, UpdateToken, DeleteToken, CreateStorageToken, SetPassword` are handlers;
  `UpdateUser` an administrator; `JwtExpires, TokenExpires`.

`AuthorizedByCredentials`: a token that was created without the password goes back to a
session which its holder got for a password or from the provider and that was not refreshed;
and no handler runs for a token that was not good when the request came, even though routes
for services ignore the middleware's error.  It is proved too.  The instance has one user, one
token, one request and one file, with every role change, expiry and deactivation between any
two steps.

### LoginBackoff and PasswordReset

`num`, `numExpires`, `lock` are the keys of one address, `login` the logins, one action per
Redis command (`AssertUnlocked … KeepCounter`), with `LockElapses, CounterElapses` and `Die`.
`BackoffHolds`: a lock and a counter that is kept have an expiry or are about to get it, and a
failure that calls for a wait blocks the address until the wait is over; a process that dies
between two commands is the exception, and may leave a lock without expiry, which the check
takes for none.  Three logins: one that counts, one that passes between, one that locks; two
delays, of which the first is no wait.  Proved too.

`PasswordReset` has the token in the account, the mails and the resets: `RequestReset,
MailToken, ExpireToken, FindReset` and the save.  `ResetOnce`: a token sets the password once
and never after a newer one, and the last stays good until it is used or expires, unless
resets overlapped or a request came during one (the reset removes whatever token is there when
it saves).  Three tokens, two resets: an older one, a newer one and one requested meanwhile.
It is proved too.


## 9. Content

### Catalogue

`game`, `rom`, `wanted`, `entry` are collections, `job` the handlers with what they looked
up.  `CreateGame … CloseRequest` create a game, link all ROMs of its number (`LinkRom`, one
update per ROM) and close the request.  A recreation has a number, which is looked for when the
game is validated and again when it is saved (`ValidateGame`); an original may have one, which
nobody looks for (`game.schema.ts:129`).  `CountReleases, CountBackglasses, RemoveGame` delete one;
`FindGameOfRom, InsertRom`, `FindRequestedGame, FindDupe, InsertRequest`, `FindGame,
SaveEntry` create the others; `Fail` breaks off at any await.

`NoDanglingGame`: a release or backglass shows a game that exists, but one saved while its
game was counted and removed, and a backglass that took its game from the ROM of a removed
game (`game.api.ts` leaves ROMs with their `_game`).  `GamesFound`: ROMs and requests find the
game of their machine in either order, if the game was created to its end and there never were
two: neither two recreations created at once, nor an original with a number that was taken,
which takes over the ROMs of the game that has it (`game.api.ts:102-108`); `excused` of a game
records that.  Both are proved too (section 12).

`InsertRequest` notes as excused whoever asks for a machine for which another request has been
saved since the duplicates were looked for: of two requests for a machine the creation of the
game closes one.  The runs have one request; that the property needs this note came out of the
proof.

### Attachments

`upload` and `holder` are files and the documents that refer to them, `task` the handlers.
`CreateHolder, ReplaceFile, ReplaceImage, AddFile` begin a handler; `Validate, SaveHolder,
ActivateFiles, RemoveOld` are its awaits with the reference plugin; `LoadHolder, RemoveHolder`
and `LoadFile, RemoveFile` remove.

`FilesAccounted`: no file of a document is missing, and no active file is left without one,
with the exceptions the code has: files two documents took at once, or that an update or a
version took while active (the validator wants `_created_by`, which versions lack), requests
that overlapped or died, and the old playfield image when a version exchanges it.  It is
proved too (section 12).

### Uploads

`post` are the requests with the variables of `handleMultipartUpload`, `creation` where
`FileUtil.create` is, `answer` what the client is told.  `Part, BodyEnds, BodyBroken` are the
events of the parser, `Save … Refused` the promise, `Remove, CleanUp` what takes a file back.

`UploadAnswered`: whichever of the two comes first, an upload of one file is answered when
both are over, and its file is there if and only if the client was told so (but one whose
creation failed after the save, or whose body broke off behind the file).  It is proved too.
Of other bodies the code does not keep it: two parts, the first created before the body ends,
are answered 201 with a file that is being removed (a `return` is missing,
`file.storage.ts:271`); created after it, the request is refused and the file stays; a body
without parts is never answered.  `MaxParts = 2` includes these.

### Versions, TableFiles, Rotation

`Versions` has the array of versions of one release, `revision` its `__v`; a request loads,
checks, loads again and saves.  `LoadToAdd, LoadToCheck, LoadToUpdate, SaveArray,
SaveValidation, CountDownload`.  `VersionsKept`: an added version is not lost, and downloads
and validations stay but for what happens during an edit (saving the array writes counters
back as loaded).  It is proved too.

`TableFiles` has the files of a version with flavor, builds and playfield image, and the
builds: `LoadFiles, LoadDocument, ValidateTables, SaveTables`, and `FindUses, RemoveBuild`.
`TablesConsistent`: no two files have one flavor and one set of builds, however requests
overlap - but by an update, because only new files are compared; and a file names builds that
exist, but those removed while it was saved.  It is proved too (section 12).  `ShownAsAsked`: a release
with a file as asked for is listed with one and with nothing else, and its picture is of that
file and of its orientation.  This relates three pieces of code: the filter in MongoDB, that
in the serializer, and the weights that choose a picture.

`Rotation` follows one playfield image: `RotateFile, RecordUnvalidated, PassValidation,
PostProcess`, and `FailValidation, Rollback, AbandonRotation`.  `ImageAsAccepted`: however
many requests were rejected or broken off, a request that passes leaves the file turned by its
angle from what was accepted before.  It is proved too.  `spoiled` are the turns the code does
not follow: a rotation back to 0 is falsy and not recorded (`release.abstract.api.ts:182`), a
rollback turns the wrong way, a process died before `postProcess`, an angle of 0 after a
rejected turn.  `Finding_rollback` refutes the comment at `release.abstract.api.ts:131`: the
rollback rotates by `+rotation` (:154) where the rotation was made by its negative, so that an
image in use at 90 degrees is left at 270.

`MC_content` checks this section: two games, a ROM, a request, an entry of each kind and a
number; two files, two documents with one file each and a release with several, of which one
is never saved; three versions with two names; two table files, two builds, offers that fit
and one that does not; two handlers at a time in each part.  Two handlers are a race; two
documents and two files let one file be taken twice or two exchanged.

Read in the code: creating a release or a version never rolls back a rotation; `updateVersion`
checks one loaded document and saves another; `file_type` of an image is not restored; square
images pass the check of the aspect ratio; deleting a tag does not look for its uses.


## 10. What readers see

### BlockIndex

`block` is the collection of blocks, `vpt` and `shelf` the files and releases, `indexing` the
jobs.  Reading a table is a pipeline of operators (`ParseBiff`, `ParseImage`, `Hashed`,
`AnalyzeFile`); a job looks its blocks up and inserts or saves one per await (`FindBlocks,
InsertBlock, UpdateBlock`); `BeginRemoval, PullOne, SweepRelease` and `RemoveTable,
PullBlocks, SweepBlocks` remove.  A block two jobs insert, or one saved over a newer `__v`,
fails the job, which is not repeated.

`MatchesByContent`: the matches of a published file are those its contents ask for, computed
independently from the streams (`Contents`), in every order of two jobs and of removals beside
them; and no block lists a file that is gone, unless it was removed while its job was at
work.  Three tables of two releases, with a picture in common under two names, a sound twice,
an item: a block of three, of one, and a file that is above or below the half.  `ReadingProofs`
proves it for tables with any streams.

A chunk has one of four tags, those the code tells apart, and `NAME` for all others; its data
stands for itself and has a size.  Blocks are compared as streams or as the data of a picture
or sound, where the code compares hashes: two contents have one hash only if they are equal.

### Listing

A list is `Matching` entities sorted by one key, `rank`: a date, a title, a score.  Keys are
not unique and nothing breaks a tie (`game.api.ts:375-390`, `log.event.api.ts:148`), so that
each find has the equal ones in an order of its own (`Orders`, `Place`).  A reader asks with a
filter (`AskFor`), the handler looks up what the filter needs (`LookUp`), counts and finds in
parallel (`CountEntries, FindEntries`), and the reader follows the link to the next page
(`FollowNext`).  Events, games, releases, backglasses and ROMs are paged; tags, builds and
users whole.  Entities come and go between any two steps, and games and releases change their
places (`Rerank`).

`WalkSeesAll`: a walk from the first page to the last shows all that was in the list all the
time, unless the list has pages and something left it or its place in it, came between the
count and the find, or came to a page because the request had looked up its filter before (the
stars of the reader, the games of his releases); and but for what a page ended among its
equals, in `torn`: the find for the next page may put those first that were shown before, and
an entity is lost although nothing has changed.  Without `torn` the property fails.  The
instance has two to three entities per list, two events of one time and a game that may come to
be as popular as another, pages of one entity or of the default size, and two changes: an
entity before the reader's place and one behind.  It is proved too, for lists of any length and
any number of changes (section 12).

Modelled as it is: the list of backglasses of one game shows those of all games to readers who
see no restricted games, because the restriction assigns `_game` anew
(`game.reference.plugin.ts`, `BackglassMatches`).  Left out: texts to search for.


## 11. Runs

An instance of several modules checks them side by side, one part at a time: a variable `part`
says which, the others keep their initial state.  The parts share no state, so nothing is
lost; it keeps each model small.

| run | module | parts | properties | distinct states |
| --- | --- | --- | --- | --- |
| `MC_upload` | `MCFileProcessing` | an upload nobody disturbs | `TypeOK`, `ProcessedCompletely`, `GetFinds`, `EventuallyProcessed` | 83 000 |
| `MC_activate` | | with an activation | `OneWriter`, `NothingLost`, `PublicOnlyIfActivated` | 95 000 |
| `MC_race` | | with activation and deletion | `DerivationSpec`, `EventuallyQuiet`, `QuietDeleteIsClean` | 171 000 |
| `MC_reading` | `MCReading` | cache, blocks, lists | `StaleOnlyIfExcused`, `Findable`, `MatchesByContent`, `WalkSeesAll` | 1 649 000 |
| `MC_community` | `MCCommunity` | votes, stars, a merge | `AverageCurrent`, `StarsAgree`, `VotesHold` | 2 252 000 |
| `MC_moderation` | `MCModeration` | moderation with comments | `ReleasesCounted`, `HistoryExplains`, `ListedIsViewable`, `CommentsConsistent` | 692 000 |
| `MC_identity` | `MCIdentity` | accounts | `AclFollowsRoles`, `OneRoot`, `IdentifiedOnce` | 560 000 |
| `MC_access` | `MCAccess` | back-off, reset, sessions, quota, archive, pipeline | `ArchiveAsAsked`, `DownloadsAgree`, `EveryVariationMade`, `AuthorizedByCredentials`, `BackoffHolds`, `ResetOnce`, `OverspentOnlyByRaces`, `PeriodEnds` | 622 000 |
| `MC_content` | `MCContent` | catalogue, attachments, uploads, versions, tables, rotation | `NoDanglingGame`, `GamesFound`, `FilesAccounted`, `VersionsKept`, `ImageAsAccepted`, `UploadAnswered`, `TablesConsistent`, `ShownAsAsked` | 1 333 000 |
| `Finding_lost_wakeup` | `MCFileProcessing` | | `RequestAnswered` is violated | |
| `Finding_mailed` | `MCIdentity` | | `ValidatedIsVouched` is violated | |
| `Finding_rollback` | `MCContent` | | `RollbackRestores` is violated | |

The bounds of each part are in its section: two of everything that races, a third where a race
has a bystander.  Handlers, logins, accounts and files that the models do not tell apart are
symmetric; runs with liveness properties use no symmetry.

All runs have `CHECK_DEADLOCK FALSE`: requests, jobs and uploads are bounded in number, and
when all are answered the model has nothing left to do, as the server would wait for the next
one.

Fairness is assumed in one place, `FairSpec` of `FileProcessing` (section 3), for the liveness
properties `EventuallyProcessed`, `EventuallyQuiet` and `RequestAnswered`.  Everywhere else
requests may die at any await, so that nothing need happen; what must not be lost is stated as
safety of the states in which nobody is at work.


## 12. Proofs

Proved by TLAPS for all values of the constants:

| module | theorem | states |
| --- | --- | --- |
| `FileProcessingProofs` | `TypeCorrect`, `OneWriterAlways`, `NothingPublicEarly`, `NothingEverLost` | `TypeOK`, `OneWriter`, `PublicOnlyIfActivated`, `NothingLost` |
| | `UploadsAreProcessed`, `RequestsFind`, `QuietDeletionsAreClean` | `ProcessedCompletely`, `GetFinds`, `QuietDeleteIsClean` |
| | `ImplementsDerivation` | `DerivationSpec`, the refinement |
| `ReadingProofs` | `CacheTypeCorrect`, `StaleOnlyWithExcuse`, `AlwaysFindable` | the types, `StaleOnlyIfExcused`, `Findable` |
| | `WalksSeeAll`, `MatchedByContent` | `WalkSeesAll`, `MatchesByContent` |
| `CommunityProofs` | `AveragesFollowRatings`, `StarsAreCounted`, `OneVoteEverybody` | `AverageCurrent`, `StarsAgree`, `VotesHold` |
| `ModerationProofs` | `ReleasesAreCounted`, `HistoryTells`, `ListedOpens`, `CommentsAreCounted` | `ReleasesCounted`, `HistoryExplains`, `ListedIsViewable`, `CommentsConsistent` |
| `IdentityProofs` | `RolesFollow`, `OnlyOneRoot`, `OneAccountEach` | `AclFollowsRoles`, `OneRoot`, `IdentifiedOnce` |
| `AccessProofs` | `AuthorityHasAnOrigin`, `TokensResetOnce` | `AuthorizedByCredentials`, `ResetOnce` |
| | `WaitsNeitherLostNorLasting` | `BackoffHolds` |
| | `PeriodsEnd`, `OverspentOnlyInRaces` | `PeriodEnds`, `OverspentOnlyByRaces` |
| | `ArchivesAsAsked`, `DownloadsAlwaysAgree` | `ArchiveAsAsked`, `DownloadsAgree` |
| | `AllVariationsMade` | `EveryVariationMade` |
| `CatalogueProofs` | `NobodyMissesTheGame`, `GamesStayForEntries` | `GamesFound`, `NoDanglingGame` |
| `ContentProofs` | `PassedAsAccepted`, `NoVersionLost`, `FlavorsStayDistinct` | `ImageAsAccepted`, `VersionsKept`, `TablesConsistent` |
| | `OneFileAnswered`, `FilesAgree` | `UploadAnswered`, `FilesAccounted` |
| | `WhatIsAskedIsShown` | `ShownAsAsked` |

The proofs rest on the named assumptions on the constants, each in the module that declares
them, and on nothing else.  They say that the names of absence (`None`, `Unset`, `NoSecret`,
`Absent`) name nothing that exists, that tables are functions into what they should be
(`Cost`, `Delay`, `Model`, `Authors`, `Source`), that what counts and sums run over is finite:
ratings, stars, requests, the files of a release or of a quota; that the entities of lists are
finite in number and sorted by integers, that new documents have names no old one has; that
the files of a release are of types the API accepts, tables and only tables have an image of
their playfield, and neither it nor media are tables, the entries of an archive are in
directories with names; and that streams are sequences of chunks whose data has a size.  TLC
evaluates all of them.

An invariant is proved from an inductive one that is stated at the head of the part of the
module.  Those of the file's processing and of the cache are described in sections 3 and 4.  The
others:

* **Ratings and stars** (`CommunityInv`).  A request that is to write an entity, and that
  nobody overtook, has the sum of the ratings as it is (`Summed`); so the summary is current or
  somebody is still to write it (`Current`).  An average is kept as the sum and the number of
  the votes, so nothing has to be shown about sums but that equal ratings have equal ones.
  A counter of stars is their number less the requests that have to count one up and more
  those that have to count one down, as cardinalities of the sets of such requests (`Late`,
  `Halfway`), and each step moves one request in or out of a set.  A voter whose look-up found
  nothing is the only one to vote for himself there (`OneRating`, `OneStar`).  The voters exist
  as long as nobody merges them but with a note of it (`Known`), and merges share no user
  (`Apart`).
* **Moderation** (`CountInv`).  A game has counted a release once if it is approved, less the
  requests that still owe their count and more those that still repay one (`Owes`, `Repays`);
  or the release is gone and some request will find out (`Doomed`).  `HistoryExplains` is
  inductive: it is stated by the last decision in the history and not by a fold over it, which
  would need induction.
* **Comments** (`StrayInv`, `TallyInv`, `SaidInv`).  The same account for the three counters: a
  counter is one for a public comment, less the requests due to count it up, more those due to
  count it down; a move that writes nothing and counts is noted (`MovedOrNoted`).  Of a user's own counter a lower bound is kept, because other people's
  requests move it.  A comment without a release would need one that was saved while the
  release was going.
* **Identity** (`IdentityInv`).  `AsOf`, for everything a request holds of an account: if it
  was loaded at MongoDB's present `__v`, its roles and validated addresses are MongoDB's.  So
  an accepted save changes what the request believes to change.  `RolesInv`: Redis has no role
  too many but one that a request is about to take, and none too few but one that a request is
  about to give.  `Covered`: whoever had the id or the address when the request looked is gone
  by now, or still in the request's hands to be merged; hence two accounts that are alike are
  one just merged and the one it was merged into (`TwinInv`).
* **Sessions** (`SessionsInv`).  A session that is not refreshed is either fresh or good for
  files only (`GoodJwt`), a token goes back to a fresh session (`GoodToken`), and what a
  request has in its context was good when it came (`GoodContext`).
* **Lists** (`WalkInv`).  What the reader has still to see has at least as many entities before
  it as the pages behind him hold (`Lower`, `PagesKnown`); once the page is found, as many as
  the page before him holds, too; so a count taken of the same list says that there is a next
  page (`NextPagesAre`).  An entity that comes only moves the others back, whether it comes to
  the list or to what the request has looked up, and one that leaves is recorded.  Equal ones
  do not count as before one another; the first of them has as many before it as are lower
  (`FirstOfEquals`), so a page that ends before one of them and does not part them ends before
  all.
* **Password reset** (`ResetInv`).  The account holds the newest token or none (`HoldsNewest`),
  a token that nobody overlapped has one reset, to come or over (`OneUse`), and a token stored
  while another was about to be used is overlapped (`NewerOverlap`): with that, an older token
  that is used after a newer one can only have been looked up before.
* **Back-off** (`BackoffInv`).  Until a wait is over there is a lock, or a login is about to
  set it.
* **Quota** (`QuotaInv`, `SpentInv`).  That an expiry lies ahead of the clock and a period not
  behind it needs the types of both.  What a request that nobody overtook found left is still
  there (`LeftIsThere`), and what was granted without an excuse is at most what is debited; so
  the next such grant leaves the sum within the credits.
* **Archives** (`FetchInv`, `CountsInv`, `ScoreInv`).  `GoodFetch` says what a request holds at
  each await: the tables that were asked for and what else belongs to their versions
  (`Selected`), names that differ (`NamedApart`: a name that is taken gets the least free
  number, and there is one), the increments still to come.  While no increment is lost, the
  counter of a table is the number of requests of which it has landed, that of the game the
  number of pairs of a request and one of its tables.
* **Pipeline** (`PipelineInv`).  First a table: of every file the API accepts, each variation
  has exactly one processor, and is made from the original or from one that is.  Then: a
  variation that is not made of the original as it is has a job on the way, or waits for its
  source, which has one (`MadeOrComing`); a job in a queue has its source (`JobsReady`); a job
  that is older than the rotation is noted in `stale` (`OldOnesStale`).
* **Block index** (`IndexInv`).  A copy of a block at its present `__v` lacks no file of it
  (`CopiesComplete`): so a save that is accepted takes nobody out.  A table that stays is in
  all its blocks but those its job is still to save (`Indexed`).  Who was taken out when no job
  was at work is in no block and in no copy a job holds (`AbsentFromIndex`), and while there is
  an empty block, somebody is about to sweep (`SweepToCome`).  `BlocksAreContents`: what the
  pipeline of operators makes of the streams is what `Contents` says of them.
* **Catalogue** (`CatalogueInv`).  As long as no game was given another number, a handler that
  nobody overtook knows of every game of its machine (`NumbersKnown`), and there is one
  (`OneInTime`).  Then a ROM or a request that its game has not found is either in the list the
  game's creator holds, or the creator has not looked yet (`RomsKnown`, `RequestsKnown`).
* **Attachments** (`AttachmentInv`).  The invariant looks at one file.  Until something the
  code does not guard against has happened to it, whoever refers to it has it alone (`Alone`),
  a request that was not overtaken finds it as when it began (`Undisturbed`), what a request
  drops only its document had (`Dropped`), and an active file has a document or somebody is
  to remove it (`Wanted`).
* **Uploads** (`UploadsInv`).  One condition for each request, `Sound`: how far it is, what its
  handler has noted of the creation, what the client was told.  A step of one request leaves
  the others alone (`OnlyAndSound`).
* **Versions** (`VersionInv`), the argument for Mongoose's `__v`.  A document loaded at the
  present `__v` has exactly the versions the release has, and says the same of those not
  touched since.  So a save that MongoDB accepts loses no version (`ArrayKeeps`), and after it
  no other loaded array is at the present `__v`.
* **Table files** (`TableInv`).  A request at the present revision saves the rows it compared;
  the row it adds is like none of them, or excused as edited.  A build that is being removed
  had no use when they were looked for, and whoever has it in a file he is about to save
  excuses it.  That the best file is shown (`ShownAsAsked`) needs of the state only that every
  file has a picture that fits its flavor (`FitInv`); the rest is about what the weights of
  flavors order, for any number of files.
* **Rotation** (`RotationInv`).  `ImageAsAccepted` speaks of one moment, after the save.  The
  invariant says what file, `rotation` and `unvalidatedRotation` have to do with each other at
  every await: the validated rotation is the accepted one (`Validated`), what is recorded is
  never the validated rotation (`Differs`), what a rejected request has left goes with a file
  that is still turned (`Leftover`), and a request at work has turned the file from the
  validated rotation (`Turned`, `Unturned`).  It is inductive for images that are not spoiled,
  and the proof shows that the exceptions in `spoiled` are all there are.

What the proofs changed in the model.  `IdentifiedOnce`, `GamesFound` and `WalkSeesAll` were
false outside the bounds of their runs, and the history they except was extended (sections 8,
9 and 10).  For `WalkSeesAll` it takes three changes: an event that matches only by the stars
looked up before it was counted or found puts another one off its page.  The
exceptions of `HistoryExplains` and the summary in `Ratings` are stated so that no induction
over a sequence or a sum is needed; they say the same.  In `BlockIndex`, reading a stream gives the positions of its blocks
and no sequence of them, because nothing can be proved about `SelectSeq`; in `Quota`, `Archive`
and `TableFiles` sums, names and weights are sums and functions over finite sets.

Sums and folds.  The induction theorems of the library take an operator as a parameter, which
the provers cannot instantiate.  What the proofs need of a sum over a set of any size, of names
given one after the other, or of jobs put into queues, they get without them.  A fold is by its
definition a function equal to something with itself in it (`SumsUp`); there is one such
function on every finite set, which agrees with that on every other (`SumsExist`, `SumsAgree`);
and what it computes has no minimal counterexample, as the strict subsets of a finite set are
well-founded (`WFMin`, `FS_StrictSubsetOrderingWellFounded`).  Where a sum has to be compared
with another, as in `Quota`, it is shown to be the number of the units of what is weighed, to
which the facts about cardinality apply.

Only model-checked: `EventuallyProcessed` and `EventuallyQuiet`, which are liveness under
fairness and out of the prover's reach.

No module uses recursive operators, so all can be proved about.


## 13. Not modelled

* In modelled components: `reprocessFile` and the keys `queue:rename:<path>` it leaves (a
  script calls it); Bull's second attempt at a stalled job (the retry is Bull's, not in
  `src/`); `invalidateAllEntities`, provider tokens, builds and comments as writers of the
  cache; messages and mails; the collections of a merge other than users, ratings and stars,
  which are updated in the same way; `UserApi.del`, which only the role of the tests may call;
  editing a comment; authors and links of releases and backglasses; the user log, of the form
  of the event log.
* Image, video, mesh and table processing by libraries: for the system a processor writes its
  file, returns null, or throws, and that is modelled.
* IPDB, mailer, Slack bot, OAuth profiles: I/O with third parties.
* Serializers, but for what lists show, and settings: functions of a document or of a
  configuration.
* Process infrastructure: starting, logging, error formatting.  The cluster is the constant
  `Nodes`.
* Scripts and migrations: run by hand on a stopped system.

Hazards without a property, with the reason, are in `PROJECT.json`: the stalled job above, and
`metrics.ts:48`, where the code is modelled as it is and no promise is left to state.
