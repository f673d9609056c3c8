# TFI-meme-banisa in TLA+

A specification of the server of TFI-meme-banisa: memes are uploaded over HTTP,
tagged by background jobs (caption, OCR, faces, embedding), kept in SQLite and
Qdrant, and found by hybrid search. Paths and lines are those of the repository
(`src/`); `PROJECT.json` maps every definition to the lines it stands for.

## The system

| Part | State it keeps | Operations | What is hard | What makes it correct |
|---|---|---|---|---|
| **Job queue** (`server/jobs.py`, the `jobs` table of `db/store.py`, `lifespan` of `server/app.py`) | rows PENDING / RUNNING / DONE / ERROR; `asyncio.Queue`; one worker task | `start`, `requeue_unfinished`, `enqueue`, `enqueue_pipeline`, `_put`, `_worker`, `_run_with_retries`, `shutdown`, `status_for_meme` | requests run on the event loop *and* in threadpool threads; a row is committed before its job is put; crash, restart, retries, a sentinel for shutdown; memes deleted while their jobs wait | no job lost, doubled or run out of order; settled once; bounded attempts; a clean stop drains |
| **Job handlers** (`_do_caption`, `_do_ocr`, `_do_face`, `_do_embed`) | metadata row, Qdrant point | read a row, call a model, write | every handler reads, works for seconds, then writes, while requests go on | what search knows catches up with the row |
| **Endpoints** (`server/app.py`) | rows, image files, point | upload, edit, delete (one, many, a cluster), auto_tag, label and describe clusters, rate, search, list | several stores written one after the other without a transaction | no store is left behind for good |
| **SQLite store** (`db/store.py`) | memes, metadata, memes_fts, jobs, faces, logs | one function per statement group, under one lock | two commits in `update_metadata` | keyword index = metadata |
| **Schema migrations** (`db/schema.py`, `db/init.py`) | tables, columns, `schema_version` | `apply_migrations` | each statement commits by itself, the version later | a version is backed by its objects; upgrades finish |
| **Vector store** (`server/qdrant_store.py`, `qdrant_schema.py`) | one point per meme | upsert, delete, search per field | may fail; not in the transaction | see handlers |
| **Hybrid search** (`server/search.py`) | none | fuse, load, filter, boost, cut | rows change during a search; arithmetic and ties | evidence decides; nothing better left out |
| **Face clusters** (endpoints, `scripts/face_cluster.py`, `face_refs.json`) | faces, cluster ids, labels, descriptions | extract, cluster, label, describe, delete, build references | read-modify-write in three places; ids re-ranked; a file rewritten without a lock | nobody tagged as somebody else; one line a cluster; a scan skips nothing |
| **Model loaders** (`collectors/`) | module globals | `get_model`, `get_app` | double-checked locking; two globals; a patched library function; loads that raise | loaded once, never seen half-made, a failure leaves no trace |
| **Scripts** (`reindex.py`, `fetch_stickers.py`, `face_tag.py`, `build_face_refs.py`) | state files | batch loops over other sites, the server, the tables | kill in the middle, lost answers, state files written over | resumed without skipping, nothing delivered twice |
| **Web pages** (`static/`) | list, selection, poll timers | paging, search, upload, delete | answers out of order | the page shows one listing |

How they interact: an endpoint writes SQLite through `db/store.py` (every call
under one re-entrant lock), then asks the job queue for a job; the worker
coroutine takes jobs from the queue in order and runs each handler in a thread
(`asyncio.to_thread`); handlers write SQLite through the same lock, and Qdrant
without one. Synchronous endpoints run in threadpool threads and reach the
queue through `call_soon_threadsafe`; the upload coroutine runs on the event
loop itself and never awaits between `create_meme` and its last `enqueue`. A
process that dies is restarted by the service manager
(`scripts/tfibanisa.plist`, KeepAlive), and `requeue_unfinished` refills the
queue from the table.

## Modules

| Module | What it is |
|---|---|
| `JobTypes` | rows of the `jobs` table and what can be said of a table of them |
| `JobTable` | the abstract specification: what the queue promises about its rows alone |
| `JobQueue` | the job queue with its table, its worker and the life of the process |
| `JobQueue_proofs` | the theorems about `JobQueue`, proved |
| `MCJobQueue` | model values for `JobQueue` |
| `MemeIndex`, `MCMemeIndex` | row, keyword entry, image file and Qdrant point of a meme, under uploads, edits, deletions and the job handlers; contains `JobQueue` as an instance |
| `MemeIndex_proofs` | the theorems about `MemeIndex`: the queue inside it is `JobQueue`, and its indexes catch up |
| `FaceClusters`, `MCFaceClusters` | faces, clusters, tags, description lines and `face_refs.json`, under the scripts, the endpoints and the FACE job |
| `FaceClusters_proofs` | the theorems about `FaceClusters` |
| `FaceScan`, `MCFaceScan` | the extraction of faces with `face_scan.json` and the crops, killed and run again beside uploads and deletions |
| `FaceScan_proofs` | the theorems about `FaceScan` |
| `Migrations` | `apply_migrations` statement by statement, by the server and scripts at once, with crashes |
| `Migrations_proofs` | the theorems about `Migrations` |
| `RankFusion`, `MCRankFusion` | hybrid search's fusion, with rows changing while it loads them |
| `RankFusion_proofs` | the theorems about `RankFusion` |
| `ModelCache` | the abstract specification of a lazily loaded model |
| `LazyModel`, `MCLazyModel` | the three loaders, under any number of threads, with loads that raise |
| `LazyModel_proofs` | the theorems about `LazyModel`, among them that it implements `ModelCache` |
| `FetchStickers`, `MCFetchStickers` | the sticker fetcher with its state file, over failures, lost answers, kills and later runs |
| `FetchStickers_proofs` | the theorems about `FetchStickers` |

Operators whose comment starts with *Mutant* are plausible bugs: each replaces
one definition to show that a property would notice. They are part of no
specification.

### JobQueue: state and code

| Variable | Code |
|---|---|
| `server` | where `lifespan` is: down, starting (before `yield`), serving, stopping (`shutdown` awaits the worker), stopped |
| `memes`, `jobs`, `nextId` | the tables and the AUTOINCREMENT counter; deleting a meme cascades to its jobs |
| `cursor` | progress of the loop in `requeue_unfinished` |
| `queue` | `self.queue`; `None` is the stop sentinel |
| `ready` | callbacks scheduled with `call_soon_threadsafe` |
| `hands[t]` | a thread between `create_job` and `_put` |
| `pipeline` | the steps an upload on the event loop has still to enqueue |
| `workerUp`, `current`, `attempt` | the worker task, its job, the loop variable of `_run_with_retries` |
| `crashes`, `faults` | bounds only |

A step is one call of the store (it holds the lock) or one synchronous stretch
of the event loop; a stretch that commits several rows (`enqueue_pipeline`) is
several steps, during which only threads run (`pipeline = <<>>` guards what
else runs on the loop). The handler is not in this module: it succeeds or
raises. Foreign-key refusals, the silent `UPDATE` of a row that is gone and the
two updates outside the `try` are modelled.

### MemeIndex: state and code

`meta` is the metadata row, reduced to what the vectors depend on: whether
there is a caption (the model is deterministic, a second caption is the same)
and which dialogue the user or OCR gave. `fts` and `point` hold the metadata
their entry was built from, so *stale* means *different from `meta`*. `ftsDue`
is the moment between the two commits of `update_metadata`, when the lock keeps
everyone else out but a crash does not. `act[t]` is the next write of the
request in thread `t`; `uploading` and `pipeline` belong to the upload on the
event loop; `work` is where the handler is and what it has read; `rebuild` are
the memes `scripts/reindex.py` has still to embed, and `excused` remembers what
a crash in a request, or a rebuild that was cut short, has left undone of each
meme (its keyword entry, its point, its file) until something redoes it. The lookup that answers 404
and the first write of an edit or a deletion are one step: a row deleted
between the two is not written, as if the deletion came right after. Likewise
the two commits of an upload (`create_meme`, `update_metadata`).

The rebuild drops the collection and embeds meme by meme while the server is
down: embedded Qdrant lets only one process in, so the server does not start
beside it. A crashed server is started again by the service manager without it,
so a rebuild also meets rows that still have jobs.

Every action is an action of `JobQueue` with its effect on the data, or leaves
the queue alone: that is the property `QueueSpec`, checked and proved, so what
is proved of the queue holds with the data around it.

### FaceClusters: state and code

`rows`, `cluster` and `label` are the table `faces`, `record` is
`face_clusters`, `actors` and `lines` are the two fields of the metadata rows
that are written here (a description is the set of its `[face #N]` lines), and
`refs` is `face_refs.json`. `req[t]` is what a thread, or the worker for FACE
jobs, is doing: every request works through the memes it found at its start,
one transaction for each read and each write. `stale` and `cut` say whether a
changed meme has had its RE_EMBED enqueued; what becomes of the job is
`MemeIndex`'s subject.

The clustering is a process of its own without a lock: it reads the faces
(`reading`) and writes the numbers (`WriteClusters`) at any step of any request.
`shown` is history: everybody a number has ever stood for, so everybody a page
of whatever age can have shown under it. The script is assumed to run
once at a time, extracting first and clustering then (its `main`).

The model knows who is in a picture (`PersonOf`); the code does not. Clustering
and recognition are taken to be right (they may miss, they do not confuse), and
a user names whom his page shows him. So a wrong tag is the code's: a number, a
name or a reference used after it has come to mean somebody else. The code does
this in one way, when a label or a description is given to a number that a
clustering has turned to another person, before the request or between its
uses of the number (`app.py:387`, 390, 412); `mixed` remembers who was given whose name, and the
properties say that nothing else goes wrong. Tied clusters are numbered in any
order, but unchanged rows keep their numbers. `face_refs.json` is
opened (and emptied) and written in two steps; a text written over another one
may leave the end of the longer one.

`build_face_refs.py` is a process of its own (`Builder`): it reads the old
references or starts with none, finds for each name a portrait (written as the
person it shows) and adopts faces like it from memes tagged with the name, and
writes the file at its end, over whatever labelling has written meanwhile. The
sweep `face_tag.py` is its `auto_tag` requests: `Recognize` by a thread matches
against the references of the moment, where the sweep uses those it read at its
start; names found with either are names of references, and references of
earlier moments were clean as well.

### FaceScan: state and code

`scan` is the process: the memes still to do, those done, how many since the
last write of `saved` (`face_scan.json`, not whole between its opening and its
writing), the meme and the face it is at. `rows` is the table `faces`, `crops`
the files. `deletion` is one `_delete_memes` of any memes: the crops of all of
them listed first, then image and row of each, then the crops unlinked; an
exception or a crash may end it at any step (`DeletionFails`), and nothing
takes up the rest. One deletion runs at a time. `missed`, `late` and
`abandoned` are history: memes that had a reason not to be scanned whole, faces
or crops that came too late for a deletion's list, and crops on the list of a
deletion that was cut short after their face was gone. Inserting a face of a
meme that is gone fails by the foreign key (`InsertFails`), and the scan goes on.

### Migrations: state and code

Each process has its own `script`, `statement`, `pending` row of
`schema_version` and `phase`; `objects`, `fts` and `version` are the shared
database. A process with an uncommitted version row holds SQLite's write lock
(`Unlocked`). The server is started again when it fails or crashes; a script is
run once. `overlap` is history: migration 4 was run by a process beside or
after another that had come as far.

### LazyModel and ModelCache

`loader` says which of the three loaders the module is an instance of; the
steps between the second check and the publication differ (`PatchScanner`,
`LoadProcessor`, `LoadWeights` for captions, `LoadEmbedder`, `CreateApp` and
`PrepareApp`). `model` and `processor` hold the number of the call that loaded
them, so that a second load would show; `scanner` is whose patch of
`transformers` is in place. Every step may raise: the `with` blocks restore the
scanner and release the lock. Under the refinement mapping (`Cache` in
`LazyModel`) the publication of the model is `ModelCache`'s `Load`.

### FetchStickers: state and code

`run` is the process with its local variables (`seen_packs`, `seen_hashes`,
`uploaded`, `packs_taken`, the place in the three loops); `saved` is
`fetch_state.json`; `server` are the stickers the server has, `stored` those it
ever had (users delete). A sticker is its content, as its hash; packs may share
some. A search returns any packs, in any order, again and again. `UploadFails`
covers a refusal and a lost answer: the server may have the sticker. `lost`,
`posts`, `unanswered` and `crashes` are history.

### RankFusion: state and code

`hits` are the rankings of the sources, `source` and `rank` the place in the
loops over them, `rrf` the dictionary of scores, `todo` its keys in the order
they were inserted, `seen` the rows as they were when `get_meme` read them.
The two loops of the code (vector fields, keyword index) are one over all
sources. Scores are exact: integers in units of 1/(1000 `Scale`), where `Scale`
is a common multiple of the denominators; the code's floats err by less than
one part in 10^15, the sixth decimal is what counts. `round` of an exact half
goes up here. `Sorted` says what a stable sort returns, not how.

## Runs

| Run | Bounds | Shows |
|---|---|---|
| `jobqueue` | 1 meme, 2 threads, 4 rows, 2 attempts, 1 crash, 1 database error | all safety properties of the queue, the inductive invariant, that it implements `JobTable`; jobs settle or the worker is gone, shutdowns end |
| `memeindex_safety` | 1 meme, 2 threads, 4 rows, 1 attempt, 1 crash, failing models and Qdrant, rebuilds | both search indexes catch up or the reason is on record; a missing image shows; the queue inside is `JobQueue` |
| `memeindex_liveness` | 1 meme, 1 thread, 6 rows, 2 attempts, rebuilds | with duplicate uploads, retries and re-uploads after a deletion: stale points have an embedding to come and converge, a finished meme stays put |
| `faceclusters` | 3 memes, 4 faces of 2 people, 2 threads, the worker and the builder, 4 requests, clusterings or crashes (the builder counts 2), 3 references a name, 2 a cluster, 1 a portrait | tags, references and lines are wrong only where a number had changed hands when it was given a name; references are bounded, one line a cluster, a line is lost only to a text read before it; changes are re-embedded |
| `facescan` | 3 memes with 4 faces, a state written every 2 memes, 2 kills, failures, uploads, deletions of any of the memes, or deletions cut short | a resumed scan skips nothing, repeats one batch at most, and crops are left in three named windows only |
| `migrations_restart` | the server and 2 scripts, 2 crashes, every earlier version | versions are backed; only a half-applied ALTER TABLE stops an upgrade |
| `lazymodel` | 3 threads, 4 calls, all three loaders, any step may raise | one load at a time and one in all, no half-made model, calls end, `ModelCache` is implemented |
| `fetchstickers` | 2 packs sharing one of 3 stickers, 2 keywords, 2 pages, 1 pack a keyword, 2 stickers a run, 3 failures, kills or deletions | what is remembered is delivered, one failure costs one sticker, nothing new is posted twice |
| `rankfusion` | 3 memes, 3 sources, 2 hits each, 1 row changing, limit 2 | the order respects the evidence; nothing better is left out |

Three more runs look for the violation of a sentence of the repository, and find
it (`findings` of `PROJECT.json`):

| Run | Sentence | What happens |
|---|---|---|
| `memeindex_points_doc` | USAGE.md:95 "search index entries are all removed" | an EMBED that read the row before the deletion puts the point back |
| `memeindex_ocr_doc` | jobs.py:146 "no dialogue was provided" | OCR overwrites a dialogue saved between its read and its write |
| `faceclusters_headings_doc` | USAGE.md:109 "`[face #N] Name: text`" | after a clustering the line of one person is headed by the name its number had before |

Four more findings are read off properties that hold: each says in which cases a
sentence of the repository fails, and its run that there are no others.

| Run, property | Sentence | What happens |
|---|---|---|
| `jobqueue`, `CleanStopDrains` | jobs.py:59 "pending jobs stay PENDING in DB" | the opposite: a clean stop runs the whole backlog and leaves none PENDING |
| `facescan`, `CropsAreReclaimed` | app.py:237 "Permanently delete memes: ... image and face-crop files" | crops stay behind in three windows between the listing and the unlinking |
| `faceclusters`, `LinesStay` | app.py:431 "leaving other clusters' lines intact" | a line added between the read and the write of a description is lost |
| `faceclusters`, `TagsAreTrue` | app.py:383 "tags every sticker containing that face, and teaches the recognizer" | a number that a clustering has turned to another person gives that person's face the name |

**Bounds.** Four rows are the longest pipeline, or a pipeline of three and a
request beside it: enough for a job in each of the places it can be (queue,
callback, thread, worker) at once. Two threads are enough for two requests to
race each other, the upload and the worker. One meme that is deleted and
uploaded again meets the jobs of its earlier life, which differ in type from the
rows a reused id would have; that a job never writes another meme's row is left
to the proof (`JobsOwnTheirRows`). Two attempts are a
first one that is retried and a last one that is not. A crash can fall anywhere, and clean stops and starts
are unlimited. The proofs have none of these bounds. In `MemeIndex` memes meet
in the queue only, so one is enough; six rows let a meme be uploaded, deleted
and uploaded again with jobs of its first life still queued. `Room` and
`Reserved` keep a bound from stopping a request half way. In `RankFusion` two
hits of three memes cover being first, second and absent in each source.
In `FaceClusters` one meme shows both people and each
has one of their own, so that deleting a meme or scanning one changes the
ranking; four budgeted steps are two clusterings with a request before each, or
a request racing two others after a clustering, a clustering in the middle of
a request and a second request that meets its names, or a build of the references
with two requests beside it. In `FaceScan` a batch of two out of three memes
has a write in the middle and one at the end, and two kills can hit two
different batches, or a deletion of several memes can be cut short after a scan. In `Migrations` two scripts and the server are enough for
one process to be overtaken by two. In `LazyModel` three threads can wait for
the lock, come late and be refused at once, and the fourth call comes after a
failure. In `FetchStickers` the limits are small enough that every one of them
is reached, and three failures can be a kill, a lost answer and a deletion
together. Symmetry is used in safety runs
only. Deadlock is not checked: a stopped server
may stay stopped, and the bounds end every behaviour.

**Fairness.** Synchronous code runs to its end (weak fairness of startup, of the
pipeline and of the second half of `enqueue`); the event loop runs its
callbacks in order, so that a stream of uploads cannot keep the worker or a
delivery from its turn (strong fairness); the service manager restarts a
process that died. That a handler returns or raises is an assumption: nothing
in the code bounds a model call. A server stopped on purpose need not start. A
model load ends or raises and threads run (weak fairness in `LazyModel`: calls
are bounded, so nobody waits for the lock for ever); in `Migrations` the server is started again whenever it has ended
and everyone who waits for SQLite's lock gets it in the end (strong fairness),
while scripts are not started again: two processes both restarted for ever
could keep each other from opening the database.

## Proofs

`JobQueue_proofs` proves, for any finite or infinite sets of memes and threads
and any number of rows, attempts, crashes and faults:

- `TypeCorrect`: `Spec => []TypeOK`;
- `Inductive`: `Spec => []IInv`, the inductive invariant (`MemoryInv` for the
  properties below, and three conjuncts that the data around the queue needs);
- its consequences `JobsAreNotForgotten`, `JobsAreHeldOnce`,
  `JobsOwnTheirRows`, `CleanStopsDrain`, `PipelineRunsInOrder`;
- `TablePromiseIsKept`: `Spec => KeepsTablePromise`, the queue implements
  `JobTable`;
- `SettledForever`: `Spec => FinishedForever`.

Assumptions: the bounds are natural numbers (`MaxJobsAssumption`,
`BoundsAssumption`) and `None` is neither a row nor a job (`NoRowAssumption`,
`NoneAssumption`).

Why the invariant is what it is. `NothingForgotten` needs to know what memory
holds in each phase of the process (`PhaseInv`), in particular that the
sentinel is last, so that the worker stops with nothing behind it; and how far
the loop of `requeue_unfinished` has come (`RequeueInv`: rows up to the cursor
are queued, no row beyond it is). `HeldOnce` needs that ids not given out yet
belong to nobody (`FreshInv`), or a new row could be held already; the same
fact, and ids never being reused, give `RowIdentity`. `HeldInv` (a job in
memory is of an unsettled row) makes settled rows final. `PipelineOrder`
follows from `OrderInv` (pipeline jobs are queued by id, other threads put
nothing but RE_EMBED) together with `NothingForgotten`: an earlier pipeline row
still unsettled would have to be in the queue behind the current one. One lemma
per action shows each conjunct it can disturb. `RowsHaveMemes` (the foreign
key), `LeftoverInv` (a job whose row a deletion has taken is older than every
row its meme has now) and `PipelineInv` (an upload's remaining jobs are of one
meme and end with its embedding) are for `MemeIndex`.

`MemeIndex_proofs` proves, for any memes, threads, rows, attempts, crashes and
texts, `QueueIsRefined`: `Spec => QueueSpec`. Every action is a step of
`JobQueue` or leaves its variables alone, so each theorem above holds of the
queue beside uploads, edits, deletions, handlers and rebuilds. The invariant it
needs (`RequestsKeep`) is that what a request remembers between its writes is a
meme, since the queue's actions take it from there.

The same module proves what `MemeIndex` says of the data: `TypeCorrect`,
`IndexIsCaughtUp`, `KeywordsAreCaughtUp` and `ImagesAreMissed`, from
`DataInductive`: `Spec => []IInv`. The facts about the queue come from
`JobQueue_proofs` (`JQ == INSTANCE JobQueue_proofs`, carried over by
`QueueIsRefined`). `IndexCatchesUp` is not inductive: a text can be written
while no embedding is queued after the writer, or while one is running that has
read the old text. `TextsAreEmbedded` says that every job that can still write a
text, those left of an earlier life of the meme included, has an embedding with
a larger id behind it (here `LeftoverInv` and `OrderInv` are needed), and
`OldReadsAreRepeated` that an embedding whose reading has gone old is followed
by another. `KeywordIndexCatchesUp` needs to know who would do an interrupted
update again (`UpdatesAreOwned`), that a text job is not done before its update
is indexed (`WritesAreIndexed`), and that a left text job runs before those of
the present life end (`LeftTextsAreCovered`). `MissingImageShows` needs that an
image the handler has read goes only by a deletion (`ReadImagesAreKept`).
Assumptions beside the queue's: `None` is not a meme, not a set of memes and not
metadata.

`LazyModel_proofs` proves, for any set of threads and any number of calls:
`Invariance` (the inductive invariant: who is between the two checks and the
publication holds the lock, what it has loaded is its own, a patch is in place
exactly during a caption load), `TypeCorrect`, `ScannerIsRestored`,
`ModelsAreWhole`, and `ImplementsCache`: every step of a loader is a step of
`ModelCache` or a stutter under the mapping.

`FetchStickers_proofs` proves, for any packs, stickers, limits, failures and
kills: `Invariance`, `TypeCorrect`, `KnownIsStored`, `SeenIsFetched` and
`NewIsPostedOnce`. The invariant says where the open pack stands (each of its
stickers is delivered, lost, or still to come: `PackProgress`), that between two
packs the file holds what the run knows (`FileKeepsUp`), and counts posts
against kills and unanswered posts with one to spare for a hash that is not
known (`Accounted`): without `FileKeepsUp` a run that ends by itself could
forget, and the next one post again.

`FaceScan_proofs` proves, for any memes, faces, batch, kills, failures, uploads
and deletions: `Invariance`, `TypeCorrect` (of `TypeOK`, which no run needs to
check any more), `ResumeSkipsNothing`, `CropsAreAccountedFor` and `KillsAreCheap`. The
first invariant follows the meme in hand (`InHand`: its faces are stored or
still to be inserted, unless it is missed) until it counts as scanned, and the
memes on the list of a deletion (`ListedOrLate`: its crops miss only faces inserted
later). `KillsCostOneBatch` counts, and the number of memes detected
twice is not enough for that: `CountInv` (proved by `CountIsKept`) bounds those
detected twice together with those that will be (`Cost`), and says that a
process holds less than a batch the file does not list (`Window`). A kill then
adds one batch at most, and nothing else adds any. `MemesAssumption` (the memes
are finite) is for the counting.

`FaceClusters_proofs` proves, for any memes, finite sets of faces and people,
threads and bounds, with a clustering at any step of any request: `Invariance`,
`TypeCorrect`, `NobodyElseIsMistaken`, `NamesAreTaughtRight`, `LinesAreTrue`,
`OtherLinesStay` and `ChangesAreReembedded`. What is
said of tags, references and lines is not inductive: a wrong tag is written by a
request that went wrong several steps before. `Fits` says of every request that what it carries
is right for all the memes it has still to write, or was mixed up when the
request looked its number up: the names it is to add are of people in them, or
given to people in them (`NamesFor`); the line is about such people, and the
references it read or collected show whom they are filed under (`StandsFor`).
`NumbersFit` ties the numbers to their history: a face's number has been shown
for its person, and a record names people its number has been shown for. That a
clustering may come at any step is no threat to it, because `shown` and `mixed`
only grow (`Grows`): what a request carries was right by a history
that still holds. The theorems rest on clustering and recognition being right,
and on users who name whom some page has shown under the number. References are
bounded because labelling cuts what it appends and the builder starts over with
a portrait and `MaxDomain` faces at most. Assumptions: the faces and
people are finite (they are counted), people are not faces, `None` is no
cluster, the worker and the builder are no request threads.

`Migrations_proofs` proves, for any scripts beside the server and any number of
crashes: `Invariance` and `RecordedIsThere`. The proof knows of each process
how far its script has come (`Progress`), that the objects of the statements it
has passed are there although other processes run the same script (`Backed`),
and that nobody else can write while a version row is uncommitted. The keyword
index needs more: migration 5 begins with an ALTER TABLE that succeeds once
(`LastRunsOnce`), so a single process rebuilds the index for version 5, and
the state of the index follows from the place of that one (`Rebuilt`) unless
migration 4 has been run after it (`overlap`).

`RankFusion_proofs` proves, for any memes, sources, rankings, rows and changes:
`Invariance`, `EvidenceIsDecisive` and `NothingBetterIsLeftOut`. The sum of the
contributions is followed hit by hit (`Ahead`): a meme is never below one it
dominates, in the middle of a source it is ahead by the contribution of its own
rank until the other's hit is fused, and after a source that prefers it by what
shows after rounding (`Clear`). The lemma behind it, `ContributionOfRank`, is
where the numbers of the code count: one rank at weight w is worth
w/((60+j)(60+k)), at least a millionth as long as 60 + `MaxHits` squared is at
most a million times the smallest weight (`WeightAssumption`). The code has
0.6 and at most 200 hits a source (a limit of 100, doubled): 67,600 against
600,000. Boosts of two memes are compared as they were read, whatever has
happened to the rows since.

`DoneIsDone` in `MemeIndex_proofs` is the action property `DoneMeansDone`: a
handler writes its own meme only, its job's row is RUNNING by the queue's
invariant, so the status of that meme is not "done" unless the job is a
leftover; every other write belongs to a request, or to the rebuild, which
needs the server down.

The inductive invariants of `FaceClusters`, `Migrations`, `RankFusion` and the
counting one of `FaceScan` were checked by TLC on the instances of their runs
before they were proved; they are not listed as properties of the runs, since
the theorems say more.

Every invariant and action property that a run checks is proved. Only
model-checked is liveness (`EveryJobSettles`, `ShutdownEnds`, `IndexConverges`,
`Upgrades`, `CallsEnd`), which is out of the prover's reach, as
ENABLED is. Induction over data is too: where the code folds over a list, the
model takes one element a step and the proof is one over steps.

## Not modelled

The models, the image decoder, Tesseract, Qdrant's and FTS5's ranking and
transliteration are inputs or outcomes. Reads that change nothing (lists,
lookups, statistics), the logs of searches and embeddings, and ratings outside
`RankFusion` are left out. Qdrant's payload indexes are left out: embedded
Qdrant keeps none. The web pages are browser code that shows what the endpoints
return; no line of the repository says what a page shows when answers come out
of order. SQLite's busy timeout is left out: a process waits for the lock.
In `FaceClusters` a deleted meme is not uploaded again.

## Known limits of the code

Beside the findings, the models reach states that no property forbids,
because no line of the repository does, or that a property names as its
exception:

- An edit that a crash cuts off between the commit of its text and that of its
  RE_EMBED job (`app.py:308`) stays out of semantic search until the next edit:
  `excused` in `IndexCatchesUp`.
- A rebuild that is cut short (`reindex.py:39`) leaves the rest of the memes
  out of semantic search, without a job: `excused` again.
- A meme whose texts are all cleared keeps its last point (`EmbedRead` is done
  without an upsert, `jobs.py:176`).
- A deletion can unlink the image a concurrent upload of the same meme has just
  written (`app.py:469`); the row then shows it by a failed job
  (`MissingImageShows`).
- Clusters are numbered by rank on every clustering, and lines keep the old
  numbers: describing the new number 1 removes the line about the old one
  (`WriteLine`, `app.py:449`), and deleting it removes the record the old one left.
- A meme deleted while its cluster is labelled ends the request, and the memes
  after it stay without the name (`Reembed`); a name that has `MaxRefs` references
  learns nothing from further ones (`ReadRefs`).
- Racing writers of `face_refs.json` can leave it unreadable (`SaveRefs`), one
  that is killed leaves it empty (`OpenRefs`), and a cluster deleted while it
  is being named leaves a name without a face, which fails every later match
  (`Loadable`). `face_scan.json` and `fetch_state.json` are written the same
  way: a kill between opening and writing stops every later run (`StartScan`,
  `StartRun`).
- A meme deleted and uploaded again keeps its id and is not scanned for faces
  again (`missed` in `SavedIsScanned`).
- An ALTER TABLE that ran without its version being committed fails on every
  later start (`HalfApplied`, `schema.py:153`), and a process that read an old
  version while another was migrating runs migration 4 after migration 5,
  which leaves the keyword index without its description column at version 5
  (`overlap`).
- The verified bonus of search does not always put verified memes first
  (`search.py:128`); a database error in one of the two updates outside the `try` ends the worker for good
  (`WorkerDies`, `jobs.py:112`; `WorkerGone` in `EveryJobSettles`), and a job that
  kills the process is tried again at every start, whatever its attempts.

## Plan

Done: every component of the table above except the web pages, and a proof of
every safety property that a run checks.

Theorems to add: the safety half of the liveness properties, as invariants that
say what a stuck state would look like. For `Upgrades`: a server that has not
opened the database is at a statement that can run, waits for a lock somebody
holds, or `HalfApplied` holds. For `EveryJobSettles`: an unsettled
row of a serving process waits for jobs ahead of it in memory only.
