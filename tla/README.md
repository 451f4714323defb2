# iPaper in TLA+

TLA+ models, TLC configurations and TLAPS proofs for iPaper, a self-hosted
reader of scientific papers: a Flask application with a React client, a
Translation Worker and a Document Worker beside it, and one SQLite database.

The project covers six clusters of the system, each with specifications, runs
and proofs of its own:

- the *structured-processing engine* (`ipaper/processing/`): the queue of jobs
  that parse a paper with a cloud supplier, translate it block by block with a
  language model, cost money per request, and are cancelled, resumed and
  restarted while requests are out;
- *whole-PDF translation*: the rows and threads of the Web process and the
  Translation Worker they drive;
- the *main note* of a paper, written by several pages over a network that
  loses and delays requests;
- the *metadata queue*: lookups of bibliographic records, and the outbox that
  keeps the search index in step;
- *keywords*: automatic and manual tags, merges, undo and their queue;
- the files of the *daily arXiv* papers: a persisted queue and its coordinator.

- [1. The system](#1-the-system) - components, state, operations, hazards
- [2. The modules](#2-the-modules) - what models what
- [3. The runs](#3-the-runs) - bounds, fairness, what TLC shows
- [4. The proofs](#4-the-proofs) - theorems, invariants, assumptions
- [5. What disagreed](#5-what-disagreed)
- [6. What is not modelled](#6-what-is-not-modelled)
- [7. Plan](#7-plan)

Paths below are relative to `src/ipaper/`, those that start with `docs/` or `src/` to the repository.

## 1. The system

One Web process (Gunicorn, several request threads) owns the database and
starts the engine's dispatcher thread, a pool of two worker threads and the
threads of the metadata, keyword and topic queues. The Translation Worker
(BabelDOC, whole-PDF translation) and the Document Worker (validation,
splitting and conversion of untrusted documents) are separate HTTP services
the Web process polls. Writes to the database are `BEGIN IMMEDIATE`
transactions: one writer at a time. Files live beside it and are not covered by
its transactions, which is where most crash hazards come from.

### 1.1 The structured-processing engine

| Component | State | Operations | Correct when |
|---|---|---|---|
| Job table (`processing/jobs.py`) | `processing_jobs`: status, cancel flag, budget, usage, checkpoint, reservation; `processing_attempts` | create, claim, check, checkpoint, reserve_attempt, finish_attempt, finish, cancel, resume, recover | one active job per account; bounded queue; a finished row is not rewritten; usage within budget; no stale flag |
| Dispatcher and pool (`processing/service.py`) | `active` futures, `stop`, `wake`; two worker threads | reap, read the queue, submit, shutdown, start | every job that is claimed is settled; queued jobs of active accounts get a worker |
| Translation run (`processing/pipeline.py`, `translation.py`, `model_transport.py`) | the position of the run, unit checkpoint files, one transport process per request | scope check, block loop, charge, send, 429 retry, unknown outcome, publication | nothing is paid for twice, nothing is sent after a cancellation or behind an unknown outcome |
| Parsing run and MinerU client (`processing/pipeline.py`, `cloud.py`) | checkpoint (batches, part results, parse id), archives, attempts | split, submit, upload, poll, publish a part, merge | at most one batch per part; the checkpoint is true; work recorded is kept |
| Results and translations (`processing/store.py`) | `processing_results`, `processing_block_translations`, revisions, artifact files | begin_translation, finish_translation, publish_structure, publish_layout, reads | a late answer never replaces a newer one; rows and files agree; old text survives a failed attempt |
| Quota and maintenance (`processing/maintenance.py`, `store.py`) | `reserved_bytes`, result bytes, retained checkpoints, a backup lease | reserve, check_quota, settle, cleanup, backup | an account stays within its quota; cleanup removes nothing in use |
| Accounts (`local_auth.py`, `auth.py`) | users, sessions, roles | create, disable, enable, sign in | a disabled account's work stops |
| Preflight, profiles, routes (`routes.py`, `profiles.py`, `sources.py`) | model profile and its revision, chat sources | estimate, edit, resume plan | the plan shown is the plan admitted |
| Selection translation (`selection.py`), understanding (`understanding*.py`, `digest_cache.py`) | further kinds of jobs in the same table, with caches and generations of their own | translate a selection; overview, interpretation, export | as above; a stale generation does not replace a newer one |
| Understanding chat (`understanding_chat.py`, `chat_transport.py`) | turns, partial text | send, stop, interrupt at startup | a turn ends in one final state |
| Notes and positions (`notes.py`, `reading.py`, and the page's `src/frontend/src/noteSession.ts`) | notes with revisions, drafts, trash, reading positions; on the page a text, its base, a queue of requests | save from a base revision, insert an excerpt, decide a conflict, restore | no text is lost to a concurrent save (`NoteSessions`, `SharedNote`) |

They interact through the job table. A request handler inserts or changes a
row and sets `wake`; the dispatcher reads rows and submits runs; a run reads
its row again at every check, and writes it in transactions that repeat the
guards that matter. Nothing else synchronises them: a cancellation is a flag a
run may see later, a second cancellation makes the row terminal under a run
that is still waiting for the supplier, and a restart finds rows whose run no
longer exists.

The hard behaviours are therefore: a cancellation between a check and the
request it allowed; a row read before it changed (the dispatcher's list, a page
of blocks, a finished future); answers that are lost after the supplier acted;
a crash between a file and its row, between a charge and its request, between a
batch and its record; overlapping runs of one account; resumes that continue
from whatever these left behind.

### 1.2 The rest of iPaper

| Component | State | Hard behaviour | Correct when |
|---|---|---|---|
| Whole-PDF translation, Web side (`agent_translate_route.py`, `translate_pdf.py`, `translation_job_dao.py`) | one row per job, a dispatcher, a monitor thread per job | handlers, dispatcher and monitors write the row without conditions | a completed row has its file, a running row a monitor, an occupied row somebody who serves it (`TranslationJobs`) |
| Translation Worker (`translation_worker/`) | jobs in memory, `status.json`, one process, watchdog and reader threads | pause against cancel against exit of the process; recovery from `status.json` | one job is at work at a time (`TranslationWorker`) |
| Document Worker (`document_worker/`) | bounded queue, one process at a time, timeouts | release of a job while its thread still writes | a released job writes nothing; the queue drains |
| Document safety and structure (`safety.py`, `structure.py`) | none | data transformation | - |
| Metadata queue (`metadata/`) | heads with revisions, batches, items, an outbox of index events, a thread | edits, deletion, cancellation and restart while a lookup is out; an index written between two reads | no late lookup changes a paper, no change misses the index (`PaperMetadata`) |
| Keywords (`keywords/`) | tags, links, exclusions, an operation log, pending rows, items | tag edits, merges and undo while papers change and runs are out | what was taken off a paper does not come back by itself, no change is lost (`KeywordTags`, `Keywords`) |
| Topics (`topics/`) | proposals over a tree of definitions with revisions | jobs for an old revision | as keywords |
| Daily arXiv (`tools/basic_tools/daily_arxiv*.py`) | one row per paper and account, `asset_job_id`, the files of a day | a row put back in the queue while its PDF is fetched; outages, restarts, missing files | no row is left at work, a late end settles nothing, every account is served (`DailyAssets`) |
| Bounded executor, summaries (`runtime/task_queue.py`, `summary_pdf.py`) | a semaphore and a pool | release on every path | a slot is released once |
| Chat with a paper, categories, import, upload, Zotero, settings, workspace state, reading activity | rows and files written inside one request | tree edits against moves | - |
| Paper storage and search (`core/`) | files, an index rebuilt from them | rebuild against change | the index follows the papers |
| Migrations, security helpers, Web wiring, client | none that outlives a call | - | - |

The metadata queue, the keyword queue and the engine share a design: rows in
SQLite, a dispatcher thread woken by an event, a small pool, and a transaction
at the end of a run that compares what the run was started for with what is
there now. They differ in what they compare, and so have modules of their own:
a status and a flag (engine), the revision of the paper's head and a batch's
flag (metadata), the revision of the paper's tags and the version of its text
(keywords). The clusters meet at few points: a paper's import queues metadata
and keywords, and the title and abstract that metadata accepts are part of what
keywords read (a change of `source` in `Keywords`).

`PROJECT.json` lists every component with its status, and under `hazards` the
places in the code where the behaviours above bite, with the properties that
cover them or the reason none does yet.

## 2. The modules

```
JobTable  <--- ProcessingJobs  <--- MCProcessingJobs  (4 configurations)
      ^            ^
      |            +--- ProcessingJobs_proofs
      +--- CloudParse <--- MCCloudParse
                   ^
                   +--- CloudParse_proofs
BlockTranslation <--- MCBlockTranslation
       ^
       +--- BlockTranslation_proofs

TranslationWorker <--- TranslationJobs <--- MCTranslationJobs  (2 configurations)
                             ^
                             +--- TranslationJobs_proofs
PaperNotes <--- NoteSessions <--- MCNoteSessions
                  |    ^
     SharedNote <-+    +--- NoteSessions_proofs
PaperMetadata <--- MCPaperMetadata
       ^
       +--- PaperMetadata_proofs
KeywordTags <--- Keywords <--- MCKeywords
                    ^
                    +--- Keywords_proofs
DailyAssets <--- MCDailyAssets
       ^
       +--- DailyAssets_proofs
```

An arrow points at what a module extends; `NoteSessions` instantiates
`SharedNote`, and `ProcessingJobs` and `CloudParse` instantiate `JobTable`, as
what they implement.

### 2.1 The engine

**JobTable** is the abstract specification: the table and its transactions.
Every operation of `ProcessingJobs` (the class in `jobs.py`) that changes a
status is one fragment - `InsertJob`, `ClaimJob`, `CancelJob`, `RequeueJob`,
`FinishJob`, `RecoverJobs` - and `TableSpec` says that a table changes in these
ways and no other. Rows are named by their idempotency key: creating the same
request again returns the row and changes nothing, so a job is inserted once.

**ProcessingJobs** is the engine for a translation job. Variables `requests`,
`budget`, `saved` are durable (usage and budget columns, unit checkpoint
files); `active`, `picked`, `stopping` belong to the dispatcher (`picked` is
the list it read and has not submitted yet); `run[j]` is the worker thread: its
place (`pc`), the block in hand, whether it retried, whether a block failed.
Each place lies between two steps another thread can come between:

| pc | the thread | code |
|---|---|---|
| `submitted` | is in the pool, before claim | `service.py:103`, `jobs.py:281` |
| `scope` | has claimed; scope and configuration come next | `pipeline.py:573` |
| `loop` | is at a block of the loop | `pipeline.py:605` |
| `request` | has entered `translate`; nothing is charged | `translation.py:217`, `jobs.py:292` |
| `charged` | has committed the charge; nothing is sent | `jobs.py:308` |
| `flight` | waits for the supplier | `translation.py:171` |
| `ending` | has an outcome; `finish()` comes next | `pipeline.py:324` |
| `raised`, `done` | has ended; the future says how | `service.py:86` |

One block stands for one batch of at most eight units, the amount one request
carries. `late` and `unresolved` are history variables: requests sent since the
job's cancellation, and whether an outcome is unknown and the user has not
resumed since.

**BlockTranslation** is the publication of translations in one result, written
by several runs: the job that created it and re-translations of a part of it.
Generations name revisions, so `active[b]` can be compared with
`generation[b]`. The transaction of `finish_translation` writes the revision's
file before it commits; it is the two steps `Publish` and `Commit`, with
`Rollback` and `Crash` as the other ways it may end. `admitted` and `told` are
what matters of the job table here: which job occupies the account, and which
jobs are asked to stop. A run reads blocks by pages and decides from the page,
not from the current row (`seen`).

**CloudParse** is the parsing stage against a supplier that may accept a
request whose answer is lost. `creates` holds the statuses of the attempts of a
part, `batch`, `recorded` and `parsed` what the checkpoint says, `archive` the
file on disk, `published` the results. `accepted` and `uploads` are what the
supplier saw: no code reads them, the properties are about them. The dispatcher
is reduced to `Start`.

### 2.2 Whole-PDF translation

**TranslationWorker** is the service: `known` its jobs in memory, `stop` the
terminal status that a cancellation or pause asked for, `thread[j]` the thread
of `_run` (`started`, `watching` the process, `returned` from the executor,
`ending` with an outcome), `process[j]` the BabelDOC process, `file` the status
in `status.json`, from which a restarted Worker knows its jobs (`recovered`;
they have no cancel event). `WorkerStep` are its own steps, among them
`RestartWorker`; `Submit`, `PauseCall` and `CancelCall` are what a call does.

**TranslationJobs** composes it with the Web process. `row` is the column
`translation_jobs.status`; the dispatcher thread is a program counter (`idle`,
`picked`, `asked`, `claimed`, `created`, `marked`, `dead`), since every place
lies between a read, a write of the row and a call that may fail: `MarkRunning`
writes `running`, `StartMonitor` comes after the event of it was written. What
no clause catches, a failing database first of all, ends the thread at any of
these places (`DispatcherDies`) and a monitor's thread likewise when the write
of its failure fails too (`MonitorRaises`); `lost` remembers, for the properties
only, whose row was left so. A monitor polls
(`poll`, `polled`), publishes the file (`promoted`), completes the row
(`completed`) and removes the directory. A request reads the row, calls the
Worker and writes the row, in three steps. None of these writes but `Enqueue`
looks at what it replaces. Requests are served one at a time, against
the steps of everybody else.

### 2.3 Reading notes

**PaperNotes** is the server: `note`, the drafts in `conflicts`, provenance
(`entries`) and deleted annotations. Each handler is one transaction. A text is
the set of what it contains: pieces that somebody typed and the blocks of
inserted sources.

**NoteSessions** is the page (`NoteSession` in `noteSession.ts`): per page the
text in the editor, its `base`, what it takes for `confirmed`, a conflict that
freezes saving, the text whose fate it does not know (`unsure`), and one request
of its queue at a time (`pc`), beside which a `GET` (`read`) and insertions of an
excerpt (`inserts`) may be under way: the handler writes, reads the note for its
answer in a second transaction, and the page takes that answer whenever it comes,
also after a newer one, unless it is busy by then. `Discard` gives a draft up.
The network loses answers and requests; a request that failed for its page may
still arrive (`late`). `before` is a history variable: the texts a page has had
in its editor, or its user chose to keep.

**SharedNote** is what this is for: a version is replaced only by a writer who
had it before them, by a version that contains it, or after it was set aside.
`NothingUnseenReplaced` says that `NoteSessions` implements it, with the
conflicts as what is set aside.

### 2.4 The metadata queue

**PaperMetadata** has the heads of papers (revision, and where the value of a
field comes from), the outbox `event` and the search `index`, batches with the
revisions of their selection, items, and the run of an item: look up its clues,
ask the providers in turn within a budget of requests, retry, park for a rate
limit, decide, apply. `sync` is what `sync_indexes()` holds between selecting
rows, reading a paper, writing the index and clearing the event. The results of
providers are nondeterministic.

### 2.5 Keywords

**KeywordTags** has the tables (`tags`: catalogue, links, exclusions, and per
paper a revision and the input of its last run) and the operations on them: add,
confirm, remove, clear, reset, merge, delete, restore, apply, undo. `log` holds the
tables before and after an operation, which is what undo compares and restores.
Where a merged name leads is the closure `Reach`. `removed` is a history variable:
what was taken off a paper and not put back. Put back is what is added again, what
was taken off before the corrections were reset, and whatever leads to a tag that
an undo gives the paper back or no longer excludes (`GivenBack`, `PutBack`). The
one undo that does not count is that of a merge, for the links it returns to the
tag it splits off again.

**Keywords** is the queue: a change of a paper leaves a row in `pending`, the
dispatcher takes it, reads the automatic setting for it, creates an item or does
not, and clears the row if it is unchanged (`intake`); a run reads, sends,
compares and applies. The setting can be switched at any time (`SwitchAutomatic`);
`skipped` is a history variable, the papers whose change the dispatcher last let
pass because of it. A local and a model run differ in that a model request is
sent once. An item that waits for another one takes over its end if that was a
failure, an interruption or a cancellation, and runs after any other.

### 2.6 Daily arXiv

**DailyAssets** has one row per paper and account with its `status`, whether
`asset_job_id` is that of the attempt under way (`job`), its failures, and the
files; `work` is the coordinator thread (locate, fetch, check, publish, record,
finish), `visit` the request being handled: discovery, retry, a view that finds
a file missing, removal of an expired paper. A request is one to three steps,
since `enqueue` reads a row before it updates it. Whatever fails between the
claim and the end of an attempt is caught and counted (`Fail`); the claim and
the end themselves are outside of every `try`, so that a database that fails
there ends the thread for good (`ThreadEnds`), its row left as it is.

### 2.7 Conventions

Names follow the code: an action has the name of its handler or of what the
statement does. `PROJECT.json` maps each definition to its lines. Operators
directly above another one and named for a deviation
(`QueueHasRoomOffByOne`, `KeepFile`, ...) are the mutated forms that the
mutants substitute; nothing else uses them.

## 3. The runs

| Run | Instance | States | Checks |
|---|---|---|---|
| `processing_jobs` | 2 jobs of 1 account, 1 block, 2 workers, queue of 1, 1 resume, 1 restart | 1.3 M | `TypeOK`, `OneActiveJobPerOwner`, `NoStaleCancelFlag`, `RunningHasRun`, `TableSpec` |
| `job_requests` | 1 job, 3 blocks, up to 4 requests, 2 resumes, 1 restart | 0.45 M | `ChargedWithinBudget`, `AtMostOneLateRequest`, `NoSilentRetry`, `SavedNeverResent` |
| `processing_jobs_live` | 2 accounts with a job each, 1 worker, queue of 1, 1 resume | 0.34 M | `QueueBounded`, `CancellationEnds`, `QueuedServed` |
| `block_translation` | a whole translation and a re-translation, 2 blocks, pages of 1, 1 resume, 1 crash | 1.5 M | `TypeOK`, `CompletedIsCurrent`, `RevisionsHaveFiles`, `CompletedIsWhole`, `OrphansComeFromCrashes`, `ReadableStaysReadable` |
| `cloud_parse` | 1 job, 2 parts, 3 resumes, 2 restarts | 34 k | `TypeOK`, `AtMostOneBatch`, `UploadsAreRecorded`, `CheckpointIsTrue`, `TableSpec` |
| `one_run_per_owner` | 2 jobs of 1 account, 1 block | - | `OneRunPerOwner`, which fails (section 5) |
| `translation_jobs` | 1 job, 2 monitors, 1 request that stops it, 1 restart of either process | 2.5 M | `TypeOK`, `OneThread`, `CompletedIsPublished`, `RunningIsWatched` |
| `dispatching_rows` | 1 job, 1 monitor, no restart and no request that stops it | - | `OccupiedIsServed`, which fails (section 5) |
| `reading_notes` | 2 pages, 1 piece, 1 excerpt, 3 edits, 1 failure, 1 decision, 1 page at a time with requests beside its queue | 1.3 M | `TypeOK`, `BaseIsConfirmed`, `NothingUnseenReplaced` |
| `paper_metadata` | 1 paper, 2 batches, 3 revisions, 1 provider, 2 requests, 1 retry, 1 failure | 2.2 M | `TypeOK`, `IndexFollows`, `LateResultRefused` |
| `keywords` | 1 paper, 2 tags, 2 items, 2 versions of the paper, 3 disturbances | 1.5 M | `TypeOK`, `QuietIsCurrent`, `RemovedStaysOut` |
| `daily_assets` | 2 accounts with a paper each, 2 failures, 1 disturbance | 0.64 M | `InFlightIsWorked`, `QueuedIsClaimedFirst`, `WantedIsSettled` |

What they ask:

- *processing_jobs*: dispatcher, threads, handlers, an administrator and a
  restart in every order. `RunningHasRun` is the one that ties the row to the
  threads: a status that blocks its account always has a future that will settle
  it, also when `claim` or `finish` raised inside the thread. `TableSpec` is the
  refinement: the engine changes a row in one of the table's transactions only.
- *job_requests*: the money. Three blocks and a budget of up to four requests
  allow a 429 retry, a budget that runs out in the middle, a resume with a
  larger one, a crash between the charge and the answer.
- *processing_jobs_live*: one worker and a queue of one are the tightest limits
  under which two accounts still meet: the pool is full, the queue is full,
  `picked` is stale.
- *block_translation*: the smallest overlap of two runs on one block while the
  page in memory is stale; a block outside the scope of the second run; and a
  crash inside the publishing transaction.
- *cloud_parse*: two parts, so that work continues after a recorded part; three
  resumes and two restarts, because a duplicate submission needs an answer that
  is lost, a restart that settles the attempt or does not, and a resume after it.
- *translation_jobs*: one job is the hard case, since every actor then writes
  the same row: two monitors of it (the second after a restart of the Worker or
  a resume), the dispatcher, a request, and a restart of one of the processes.
  `RunningIsWatched` is what the dispatcher depends on, which waits while any
  row is running: over all the ways in which a monitor ends, only a thread that
  died of an exception (`lost`) leaves a running row without one. The monitors
  are interchangeable (`SYMMETRY`); no liveness is checked here.
- *dispatching_rows*: the same question about the other status the dispatcher
  waits for; the rows that a dead thread left (`lost`) are excused, so that the
  counterexample is the failing call alone.
- *reading_notes*: two pages on one note, of which one may be late by a whole
  save and a decision. Three edits let both pages type and one of them type
  while its request is out; the lost request may arrive after any of it, and so
  may the answer of an insertion. The read and the insertions of one page at a
  time (`MaxBeside`) overlap with each other and with the queues of both pages.
  Saved answers, appended to whatever the note is, are left to the theorems.
  `NothingUnseenReplaced` is the refinement of `SharedNote`.
- *paper_metadata*: two batches, so that a lookup of one is linked to the other
  and outlives its cancellation; three revisions, so that a lookup is overtaken
  by an edit while the index still holds the first one; a restart or a failed
  write anywhere. `IndexFollows` is the promise of the outbox across
  select, read, write and clear; `LateResultRefused` that of `apply`.
- *keywords*: two tags are the smallest merge, and undo of it; the two versions
  of the paper let a run be overtaken by a change, and three disturbances let a
  user edit, undo, switch the setting, and a run restart or be cancelled in between.
- *daily_assets*: two accounts, because the turn of one must end; two failures
  stand for the five after which a row is given up, and the one disturbance is a
  restart or a removal. Outages and the end of the thread are not bounded.

**Bounds.** Charges are bounded by the budget, as in the code. Resumes
(`MaxResumes`) and restarts (`MaxRestarts`, `MaxCrashes`) are guards of the
models only; the theorems hold for every value of them, so for the properties
that are proved the bounds matter to TLC's run time alone. In the other runs `MaxRequests`, `MaxRestarts`,
`MaxEdits`, `MaxFailures`, `MaxDecisions`, `MaxBeside`, `MaxBatches`, `MaxRevision`,
`MaxItems`, `MaxChanges` and `MaxDisturbances` are bounds of the same kind
(`PaperMetadata`'s `MaxRequests` is the code's own budget of 8, `MaxRetries` its 2,
`DailyAssets`' `GiveUp` its 5); the theorems cover every value of them too,
but for liveness, where the instance is all that is shown. Two jobs per account
are enough for every property of pairs; `JobTable` proves it for any number.
The queue limit is 20 and the pool 2 in the code; limits of 1 reach the full
queue and the full pool with two jobs. Symmetry is used where no liveness is
checked and no definition tells the elements apart: pages in `reading_notes`,
tags in `keywords`.

**Deadlock** is checked in the runs of `ProcessingJobs`, `CloudParse` and
`DailyAssets`. In the other models every thread may be at rest, the requests of
users be used up and nothing be due: such a system really stops until somebody
asks for something, and their configurations say so.

**Fairness in the engine** (`FairSpec` of `ProcessingJobs`) is weak fairness of the dispatcher as a whole and of
each run. The dispatcher is one thread in `while not stop` that survives any
exception (`service.py:63`) and is woken every second. A run always gets on: a
request is cut off after 120 s by its parent process, a wait for a model slot
ends because the slot is released in a `finally`, and a blocked database ends in
an exception that leads to `raised`. Nothing is assumed about users: nobody has
to cancel, resume, enable an account or restart the service. Both liveness
properties allow `stopping`: `shutdown()` ends the dispatcher, and what it
leaves is settled by the next start, which nobody is obliged to make.

**Fairness in DailyAssets** (`FairSpec`) is weak fairness of the coordinator and
of `Due`: the thread goes on, and the time of the next attempt comes. A fetch is
cut off by its timeouts, and each pass is followed by the next
(`daily_arxiv_assets.py`). The fairness is that of a thread that is there: it may
end at any claim or end (`ThreadEnds` is no part of `Coordinate`), after which
nothing is enabled for it, and `WantedIsSettled` then promises nothing more.
Outages are tried again every minute and never counted, so a row whose Worker is
never there waits for ever: the property's premise is that they stop at some
time, and only that. Nothing is assumed about requests, nor that one already
begun goes on. It is a property of two accounts; of three it is false
(section 5.2).

## 4. The proofs

`tlapm` checks every theorem for any finite set of jobs, any accounts, and every
value of the other constants that the named assumptions allow: positive limits
and sizes, an owner for every job or row, finite sets of jobs, monitors and
papers where something is counted (`JobTableAssumption`,
`ProcessingJobsAssumption`, `CloudParseAssumption`, `BlockTranslationAssumption`,
`TranslationWorkerAssumption`, `TranslationJobsAssumption`,
`PaperNotesAssumption`, `NoteSessionsAssumption`, `PaperMetadataAssumption`,
`KeywordTagsAssumption`, `KeywordsAssumption`, `OwnersAssumption`,
`GiveUpAssumption`, `BoundAssumption`). TLC evaluates the
assumptions on every run.

**ProcessingJobs_proofs.** `TableCorrect` is about the table alone: every behaviour of `TableSpec` keeps
`OneActiveJobPerOwner`, `QueueBounded` and `NoStaleCancelFlag`. The invariant
needs one more part, `AbsentIsClean` (a row that was never inserted carries no
cancellation), or the insertion could start a job with an old flag. The queue
bound is an argument about the cardinality of `Queued` before and after a step.

`ImplementsTable` maps every step of the engine to a
transaction of the table or to a stutter; `TableInvariants` then carries the
table's invariants over. `TypeOK` is not inductive: that a run's block counter
stays in range depends on where the run is. `AtBlock` (between the loop and the
answer a run has in hand a block without a saved translation) closes it, and is
at once the reason for `SavedBlocksStaySaved`. The other theorems each have their
strengthening:

| Theorem | Property | Strengthening |
|---|---|---|
| `BudgetKept` | `ChargedWithinBudget` | nothing is charged to a row before it exists, so that the budget it is created with covers its usage |
| `SlotIsHeldByARun` | `RunningHasRun` | `SlotInv`: a thread belongs to an entry of `active`; what is picked or running was inserted |
| `CancellationStopsRequests` | `AtMostOneLateRequest` | `LateInv`: once a late request has left, the flag is set and the run is past its charge |
| `UnknownIsNotRetried` | `NoSilentRetry` | `UnresolvedInv`: an unresolved job either has a run that is ending or a terminal row, which only the user's resume leaves |
| `QueueKeepsItsLimit` | `QueueBounded` | the refinement, and the table's own invariants |
| `CancellationIsNotInherited` | `NoStaleCancelFlag` | the refinement, with `AbsentIsClean` |
| `TypesKept` | `TypeOK` | `AtBlock`, as above |

`RunningHasRun` and `UnresolvedInv` meet at the dangerous case, a run that
outlives its row: the proof needs that a row whose run is not at work is not
`running`.

Two theorems say what no run checks. `CancelledRunsRunOut` is what can be proved
of `CancellationEnds`: while a row is `cancelling`, `StepsLeft` (the request that
was charged, its answer, the next check, `finish()`) goes down with every step of
the run, which therefore goes round no loop, and no step of another thread touches
it; that the thread and the dispatcher go on is left to the fairness TLC assumes. `OnlyTheActiveJobPays`
bounds the finding of `one_run_per_owner` (section 5.1): runs of one account may
overlap, but a charge is made only for its one active job.

**CloudParse_proofs.** One inductive invariant, `ParseInv`: per job, what the
attempts table, the checkpoint, the supplier and the place of the run say of
each part. Its parts are `Traced` (a batch the supplier accepted is recorded,
or its attempt is undecided, or the run has the answer in hand), `InStep` (the
place of the run agrees with the records of its part), `Uploaded`, `Results`,
`Row` and `Decided`. Each action keeps it by a lemma of its own. From it follow
`OneBatchPerPart`, `UploadsFollowRecords` and `CheckpointHolds`;
`ImplementsTable` is the refinement.

**BlockTranslation_proofs.** `TypeInv` (with `InHand`: a run at work has a
block and a generation that was begun) and `Publication`, the conjunction of
`Writing` (the open transaction is one run's, holds the current generation and
has written its file), `Revised` (revisions belong to generations that were
begun and are decided), `CompletedIsCurrent` and `RevisionsHaveFiles`, are
inductive together. `Writing` is what makes the late answer harmless: the row
is compared inside the transaction, so nothing can begin a newer generation
before it commits. `Revised` is why a rollback may delete the file it wrote.
From them follow `CompletedBlocksAreCurrent`, `CommittedRevisionsHaveFiles` and
`ReadableBlocksStay`; `CompletedResultIsWhole` adds that what is readable only
grows. `OrphansAreCounted` counts: a step of a run never adds to the files that
have neither a revision nor an open transaction (`Abandoned`), and a crash adds
at most the one of the open transaction. So every property that the run
`block_translation` checks is proved for any number of runs, blocks, resumes and
crashes.

**TranslationJobs_proofs.** The run has one job and two monitors, the theorems
any number of each. The invariant is `WorkerInv` and `WebInv`. `WorkerInv` adds
to the types the reason for `OneThread`, `Alone`: a job with a thread reads as
queued or running, `submit()` refuses while any job does, and only the end of
the thread leaves these statuses. `WebInv` has `Promoted` (a monitor past the
publication has published) for `CompletedIsPublished`, and `Heard` (an answer
that a monitor acts on is one the Worker gave, so the row it writes from it is
one of a job's statuses) with `Watched` for `RunningIsWatched`: `running` is
written by a monitor that goes on polling or by the dispatcher, which starts one
next, and either writes something else before it ends or dies of an exception
and is in `lost`. `LeftRowsBlockTheQueue`
follows the finding of `dispatching_rows`, and those deaths, to the end: a row
that is `dispatching` or `running` and in nobody's hands stays so, and no queued job of any account is picked,
until a request for that very job writes the row or the Web process restarts.

**NoteSessions_proofs.** The run has two pages and one piece of text, the
theorems any number of pages, texts, edits, failures and requests beside the queues. The invariant says of
everything that travels, an answer, a page's base, a late request, that it is of
an earlier revision or is the note (`Current`), and that what a page has sent,
or takes for confirmed, was in its editor (`before`); a page that no conflict
froze displays its base (`Shows`), which `Discard` goes back to. Each action then is shown
to be `Served` (it leaves the note alone, or sets something aside, or is a write
by one page in the sense of `SharedNote`) and to let `before` grow; together
that is the refinement `SharedNoteKept`. The case that needs the invariant is a
late save: it is accepted only if its base is still the revision, and then
`Current` says that the text it replaces is the one its page had.

**PaperMetadata_proofs.** The run has one paper; the theorems have any number,
so that `sync_indexes()` works through several rows. `SyncInv` follows a paper
from its selection to the clearing of its event: what was selected is not newer
than what was read, that is not newer than the head, and a written index is what
was read; so an event that is cleared because it still has the selected revision
belongs to an index that has it too. `QueueInv` says that a batch keeps the
revisions of its selection as long as an item or a run belongs to it, that
batches are numbered without gaps, and that a run beyond its first look has its
clues from the revision of its batch, which is what `LateResultRefused` compares.

**DailyAssets_proofs.** `InFlightIsWorked` is inductive with the types:
`asset_job_id` is set by the claim, and every write that takes a row out of the
attempt's hands clears it; a thread that dies at the end of an attempt keeps the
attempt's row in `work`. `LateEndsSettleNothing` follows from it: the end of
an attempt that lost its row finds no row with its id.

**Keywords_proofs.** The run has one paper, two tags and two items; the theorems
have any number of each, and a log of any length. They rest on lemmas about
where merges lead: `Reach` is the least set that is closed under merging, so a
tag has at most one end (`OneEnd`), a merge lengthens paths and an undone merge
shortens them.

*RemovedStaysOut* needs an invariant about every entry of the log, since any
entry may still be undone. `OffInv` says: what was removed is excluded, and not
linked automatically, at every tag its name leads to (`RemovedIsOff`); a merge
that can be undone is in force, and the only one of its tag (`MergesHold`,
`MergedOnce`); and the tables from before it have no automatic link to what was
removed (`UndoneMergesAreOff`, the part without which the invariant is not
inductive). An operation is first reduced to what it may do to tags, links and
exclusions (`Edit`, with `MergesGrow`, `OffStays` and `LinksMove`); that every
operation is such an edit, that an undo keeps `OffInv`, and that the transaction
of a run does, are lemmas of their own. The invariant leaves a removed tag no new
link but one of the user's; `LinksMove`, a fact about single steps, says where
that one comes from.

*QuietIsCurrent* compares the tags of a paper with what a run once read, and no
variable says which run that was. The invariant therefore speaks of some `base`,
for every paper the revision that its last applied run left it with and the
version that run had read, and a step of the proof names the new one. `RowInv`
relates the base to the log: an edit raises the revision of a paper by one and
its undo lowers it again, so an undo brings back the input of the last run or
none, never that of an earlier one. `QueueInv` follows a change from its pending
row to the item: an automatic item that counts has read what the paper says or
its result is the base (`Okay`); this holds of the last automatic item once the
change is served (`Served`, `Current`), and of all items from one of the current
version on (`Heard`), which is why the dispatcher may take an existing item for a
pending row. A change makes its paper unserved, and a pending row that changed
since it was read is not cleared. Nothing is said of the papers in `skipped`;
that a row in the dispatcher's hand is still pending (`InHand`) is what lets a
paper leave `skipped`.

**Model-checked only.** Liveness under fairness (`CancellationEnds`,
`QueuedServed`, `WantedIsSettled`) is outside what the prover handles, but for
the part of the first that `CancelledRunsRunOut` states. The
cardinality bound of the pool (`Cardinality(active)` against `Workers`) is a
guard and not stated as a property. Every other property of a passing run is
proved.

## 5. What disagreed

### 5.1 Shown by a run

`docs/development/dual-translation.md:31` promises one active task per user
("每用户一个活动任务"), and `create` and `resume` enforce it against rows that
are queued, running or cancelling. `cancel` sends a row that is not `running`
to `cancelled` at once, a row that is `cancelling` included (`jobs.py:354`).
So a second press of cancel, while the first waits for a run whose request is
out, makes the row terminal and frees the account; the account starts another
job, and the second worker thread runs it beside the first. The run
`one_run_per_owner` shows it: create, claim, charge, send, cancel, cancel,
create, dispatch, claim. `OneActiveJobPerOwner`, the same promise read of the
rows, is proved.

The consequences are bounded, which is what most of the properties say: the
overlapping run sends nothing more (`AtMostOneLateRequest`), cannot replace a
newer translation (`CompletedIsCurrent`), charges nothing once the other is
active (`OnlyTheActiveJobPays`), loses no batch it has created without
leaving an undecided attempt (`AtMostOneBatch`) and still has a future
(`RunningHasRun`). One consequence is left open: when the *same* job is resumed
in that window, the old run's `finish()` finds the row queued and settles it
with its own outcome, so the resume is lost (`jobs.py:327`).

`docs/releases/v0.10.0.md:8` says of whole-PDF translation that "Paused,
interrupted, and network-failed jobs can be resumed or retried". The dispatcher
writes a row as `dispatching` before it asks the Worker for the job; when that
call fails it calls `enqueue`, whose `UPDATE` matches only rows that are paused,
failed, recovering or queued (`agent_translate_route.py:173`). The row stays
`dispatching`: neither resume nor retry accepts it, and the dispatcher, which
waits while any row is dispatching or running, serves nobody until the owner of
that job cancels it (or pauses or deletes it, which need a Worker that knows the
job or cannot be reached) or the Web process restarts. The run `dispatching_rows`
shows it with one job and no other disturbance; the theorem
`LeftRowsBlockTheQueue` says that nothing else ends it. A database exception
that ends the dispatcher or a monitor between two of their writes leaves a row
in the same state (hazard at `agent_translate_route.py:167`); the dispatcher's
thread is then gone until the Web process restarts, whatever becomes of the row.

### 5.2 Observed while modelling

No run is registered for these; each is a step of the model, and the properties
above are stated so that they hold beside it.

- *Notes.* A page that decides a conflict for the server's version while its
  user types on saves what was typed over that version, without a draft of it.
  This is what `docs/development/reading-notes.md:53` describes; the version may
  never have been in that editor, so `before` counts what a user chose to keep
  as seen. `note()` lists the last twenty drafts only.
- *Translation rows.* A second monitor of a job turns the row that the first has
  completed into failed (`translate_pdf.py:241`): the first removed the directory
  that the second wants to publish from. `CompletedIsPublished` does not see it. A
  PDF that is gone when its digest is taken ends the dispatcher's thread with the
  row still queued (`agent_translate_route.py:149`): no property claims that a
  queued job is served.
- *Metadata.* A save that changes nothing of the head still queues an event of
  the same revision. `publish_memory` may replace a newer copy of a paper in
  memory. A retry of a batch is refused as a whole if one of its papers was
  deleted. An item that is linked to one of another batch inherits its
  cancellation.
- *Keywords.* An undo compares the rows that its operation changed, and no
  others. Remove u from a paper, remove t, merge t into u, and undo the removal of
  u: the only exclusion that is left of both goes with it, and the next automatic
  run may link the paper to u, under which t now goes.
  `docs/development/keywords.md:38` says otherwise: only adding a tag again or a
  reset lifts an exclusion, and a merge passes it on. `RemovedStaysOut` counts
  such an undo as putting t back (`PutBack`), and says so of these pairs of paper
  and tag only. Merge a tag after it was removed from a paper, and undo the
  removal: the paper has a link to the merged tag again. A merge moves a link of
  the user's to a tag that the user took off that paper; the link wins over the
  exclusion, and the property allows it as the user's own. A change of a paper
  that is cleared while automatic keywords are off is not taken up when they are
  switched on again, and an automatic run that an edit of the tags overtook ends
  as stale and is not repeated: `QuietIsCurrent` excuses both.
  `start()` queues a running item of a cancelled batch again. Linked items, which
  wait for another, fill the owner's share of what the dispatcher reads.
- *Daily arXiv.* `docs/releases/v0.10.3.md:12` says that infrastructure failures
  do not consume an attempt, but `_inspect_pdf` turns an exception of the
  Document Worker into `pdf_invalid` (`daily_arxiv.py:1148`), which does. The
  same notes (line 3) say that the coordinator rotates between users;
  `_choose_fair` starts again at the first account when the one served last has
  no claimable row, so that of three accounts two can keep the third waiting:
  `WantedIsSettled` holds of two accounts only, and is checked for two.
  `enqueue` promises not to disturb work in progress but looks before it
  updates; `InFlightIsWorked` and `QueuedIsClaimedFirst` show that the row is
  then fetched a second time and nothing worse happens. A failed row is queued
  again by each discovery; a crash between `save_paper` and `save_candidate`
  leaves a paper without a row; the processor's last save brings back a paper
  removed meanwhile; `retry_count` is never reset by a success.

## 6. What is not modelled

Of the engine: tokens and execution time as numbers (`reserve_attempt` charges
them in the statement that charges requests; that time may run out is a
nondeterministic failure, `GiveUp`, `Stopped`); events; the contents of blocks,
units and archives; the hourly cleanup of checkpoints and the quota (a quota
may refuse any publication); preflight and estimates; the kinds of jobs other
than translation and parsing; the interruption of chat turns at startup. In
`BlockTranslation` a job is resumed only after its earlier run ended: a resume
in between lets that run do no more than end, in the steps `ProcessingJobs` has.

Of the other clusters:

- *Whole-PDF translation*: the order of the queue, progress and event log of a
  row, the listing routes, credentials and options of a job. Two requests of
  users at a time.
- *Notes*: annotations beyond being deleted or not, anchors, bookmarks, search,
  navigation, export, and the end of a page with unsaved text.
- *Metadata*: more than one owner, the differences between ends of an item that
  no code reads again, the parsing and matching of records, the copy of papers in
  memory, duplicates, BibTeX, clean shutdown.
- *Keywords*: more than one owner, renames and aliases (which keep the tag), the
  extraction, runs that organise the whole library, summaries, deletion of
  papers, clean shutdown, a full queue. The input of a run is one version: the
  adopted signature of a paper and its full input change together. The library
  starts with any set of tags and one paper not yet tagged.
- *Daily arXiv*: rounds and their scheduler, ranking and lists, previews, the
  order of rows by `updated_at`, the copy into the library.

Of the rest, the components planned below, and those that hold nothing for a
model checker to interleave: data transformation (document safety, ranking,
search text, parsing of imports), a single write inside a request (settings,
workspace state, reading activity, chat history), one-shot scripts
(migrations), pure functions (security helpers) or wiring (application,
client). They are most of the code by lines.

## 7. Plan

In this order; each is one module with its MC module, run and mutants.

1. `StorageQuota`: reservation at admission, `check_quota` at publication,
   settlement at the end, cancellation that measures files a run still writes,
   cleanup of retained checkpoints. To state: reserved plus occupied bytes stay
   within the account's quota; cleanup removes nothing a resumable job needs.
2. The life cycle of a job as an abstract specification over the whole
   conversation (create, cancel, resume, outcome) and the stale `finish()` of
   section 5 against it.
3. `DocumentWorker`: queue, timeout, release. To state: a released job writes
   nothing; one process at a time; the queue drains.
4. Topics: a proposal for an old definition is refused, and undone whole.
5. The other kinds of jobs (selection, understanding, chat turns) with the model
   slots; category moves against tree edits; the bounded executor.

To prove: as above, types and the main safety property of each new module, and
the refinement of the life cycle.
