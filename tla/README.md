# Doorlock Sentinel: specifications, model checking and proofs

This directory holds TLA+ models of the door-lock recording service in
`doorlock-sentinel/`: what its durable state machines do when threads, retries,
timeouts and crashes interleave, which properties hold on bounded instances
(TLC), which hold for every instance (TLAPS), and where the code disagrees with
its documentation. Paths below are relative to `doorlock-sentinel/`; Python
files are in `src/doorlock_sentinel/`, the bot's in `services/wecom-bot/src/`.

## 1. The system and its parts

One container runs two processes under supervisord (`docker/supervisord.conf`,
`autorestart=true`). **recognition** (Python, uvicorn, one worker) is the only
writer of a SQLite database; it runs three background workers (ingest, download
status, manifest), each in an asyncio task that calls `to_thread`, beside the
threads of web and internal requests. **wecom-bot** (Node) owns no data: it
claims, sends and acknowledges messages through the internal HTTP API. A
separate process, the cloud playback resolver, keeps a rotating token.

| Part | State | Operations | Interacts with | What must be true |
|---|---|---|---|---|
| Outbox (`outbox.py`) | `outbox_messages`: state, lease, attempts, dedupe key | enqueue, claim_messages, acknowledge, reject | written by ingest, pipeline, download status; read by the bot | sent means received; nothing forgotten; at most once without faults |
| Internal API, bot (`internal_api.py`, `index.ts`, `api.ts`) | the bot's loop and batch, requests in flight | claim, ack, nack, poll loop, timeout, restart | Outbox | as above, with late handlers and restarts |
| Ingest (`ingest.py`) | `video_ingest`: state, lease, attempts, digest, flags | recover_stale, discover, claim_one, _prepare_hash, fail, request_retry | inbox files, pipeline, outbox, web | every file ends processed, duplicate or announced dead; once |
| Pipeline (`pipeline.py`) | events, tracks, image files | process | everything below | an event, its rows and its images exist together |
| Identity (`recognition.py`) | prototypes, person index, unknown clusters | match, observe_person, assign, refresh, rebuild | pipeline, people | no person holds two tracks of one frame; counts and index agree with rows |
| Corrections (`people.py`) | operations with before/after | label, assign, rename, merge, split, false positive, undo | identity tables, web | undo restores; constraints survive every order |
| Artifacts (`artifacts.py`) | `artifact_manifest`, receipts, manifest file | register, promote, receipt, reconcile, export, snapshot | pipeline, backup task | `verified` only with equal bytes; the manifest catches up |
| Download status (`download_status.py`) | `download_reports`, last signature | sync, HTTP report | downloader's journal, outbox | the latest report wins; every failure is announced |
| Tracking (`tracking.py`) | none beyond a call | build_tracks, cooccurring_track_pairs | pipeline | a track holds one face of a frame; co-occurrence is exact |
| Risk (`risk.py`) | none | risk score | pipeline | pure |
| Name migration (`media_migration.py`) | lock file, renamed files, rows | plan, apply, rollback | files and database | files and rows agree after a failure |
| Resolver (`services/cloud-playback`) | token file, intent file | ensure_token, resolve | 115 API | a rotated token is never lost or used twice |
| Login (`security.py`) | sessions, attempts | login, session, csrf, throttle, prune | web | expiry and windows |

Hard behaviours, with their lines, are the `hazards` of `PROJECT.json`. The
common root of many is the database session (`db.py:12-49`): reads open no
write lock, `autoflush=False` hides unflushed changes from queries, and
SQLAlchemy writes only the columns whose value differs from the one read, so two
sessions on one row merge column by column.

## 2. Modules

| Module | Models | Built on |
|---|---|---|
| `Outbox` | the table and the four functions of `outbox.py` | - |
| `AtLeastOnce` | abstract: what delivery promises | - |
| `Delivery` | the bot's loop, the internal API, timeouts, crashes | `Outbox`; refines `AtLeastOnce` |
| `DeliveryProofs` | every property of `Delivery` but liveness: types, safety, the action property, the refinement | `Delivery`, `AtLeastOnce` |
| `Ingest` | `ingest.py`, the transactions of `pipeline.process`, `request_retry` | - |
| `IngestProofs` | types, safety and the action property of `Ingest` | `Ingest` |
| `Identity` | the tables of `models.py:148-321` that say who is who; `recognition.py`, the matching loop of `pipeline.process`, `people.py` | - |
| `IdentityProofs` | every property of `Identity`: types, clusters, labels, index, owners, samples, observations, constraints, undo | `Identity` |
| `Artifacts` | `artifacts.py`, the routes of `internal_api.py:121-163` | - |
| `ArtifactsProofs` | the invariant and both action properties of `Artifacts` | `Artifacts` |
| `Downloads` | `download_status.py`, the route `internal_api.py:103-118` | - |
| `DownloadsProofs` | the invariant of `Downloads` | `Downloads` |
| `Migration` | `media_migration.py` | - |
| `MigrationProofs` | safety and both action properties of `Migration` | `Migration` |
| `Resolver` | `services/cloud-playback/resolver.py` | - |
| `ResolverProofs` | all three invariants of `Resolver` | `Resolver` |
| `Tracking` | `tracking.py` | - |
| `TrackingProofs` | all four invariants of `Tracking` | `Tracking` |
| `MC...` | constants for TLC, one module for each of these | |

### Outbox and Delivery

`row` is the table by dedupe key; a timestamp is what its queries ask of it
(`lease`: NULL, running or over; `due`: `available_at <= now`). A handler is two
steps, because the session's SELECT takes no lock: *read* (the snapshot `snap`
of the rows) and *commit*. `Claimed`, `Acked`, `Rejected` therefore take the
stored row `r` and the snapshot `s`, and leave a column alone when the code
assigns the value it had in `s`.

`pc`, `batch`, `current`, `call` are the bot's loop (`index.ts:39-68`): `idle`
-> `claiming` -> `next` -> `deliver` -> `ack` -> `acking` -> `next`, with `nack`,
`nacking` after a failure of either the send or the ack, and back to `idle`
(abandoning the batch) when the nack or the claim fails. The 15 s timeout of
`api.ts:23` is shorter than the 30 s lock wait of `db.py:16`: `CallFails` and
`BotCrashes` may leave the request behind in `strays`, which still read and
commit at any later time (or never). A restarted bot chooses its name again:
`hostname:pid` may repeat inside a container. `SendFailsLate` is a send reported as
failed although it got through. `delivered`, `claims`, `faults` are history.

### Ingest

A row stands for a *fingerprint* (path, size, mtime: one version of one file);
it remembers only the path, so hashing and analysis read whatever version is
there. `disk`, `stable` are the inbox, changed at any time by the downloader.
`worker` is the single ingest loop; its places are the transactions of the code
(`ClaimReads`/`ClaimCommits` are `claim_one`, which can overlap `request_retry`;
`Hash`, `Dedupe` are `_prepare_hash`; `Start`, `Analyse`, `Commit`, `CommitFails`
are `pipeline.process`; `Fail` is `fail`). `asked` holds retry requests between
their read and their commit. `images` is what the image files of a path show:
their names come from the video's name (`pipeline.py:192-201`, current naming).
The code takes the name without its directory, and the day, so files of one name and day in
two directories share their images too; for the models these are two versions of one path.
`Crash` can happen between any two of these steps and kills the web threads too. The database
may fail in each of them, with what the code makes of it: an error of `process_one` goes to
`fail` (`ProcessFails`), one of `claim_one` or of `fail` itself to the loop (`LoopFails`), and
one of `recover_stale`, which `run` awaits before its loop and outside its `try`
(`ingest.py:232`), ends the task (`RecoverFails`). Nothing starts it again while the process
lives (`api.py:44-50`): the worker stays at `ended`, until a crash.

### Identity

`db` is the stored rows: `owner` and `home` of every track (`person_id`, and
`unknown_cluster_id` with its member row), cannot-links, clusters, people,
observations, prototypes and, per person, the set of prototypes that went into
the centroid of the `person_index` row (`{}`: no row). A row that moves between
people keeps its key and changes `of`, because the code remembers row ids in an
operation's `before_json` and uses them at the undo.

A correction takes SQLite's write lock before it reads (`web_common.py:31`) and an
event is one transaction, so each is one step. The order inside it matters all
the same: the session does not flush before a query (`db.py:26`), so every query
of the code is an expression over `db`, the rows stored when the query runs, and
never over what the request changed before. `Learned` (`observe_person`,
`admit_prototype`) reads its own rows, since these functions flush;
`MergePeople` and `UndoMergePeople` rebuild indexes, `Split`, `MergeClusters` and
`UndoMergeClusters` refresh clusters, from rows that are not flushed.
`Mutates` commits the new rows if they satisfy the foreign keys and unique
constraints (`Sound`), and otherwise rolls back and remembers the kind of request in
`failed`. `log` is `manual_operations` with what each needs for its undo, `undone`
the `undone_at`; any operation may be undone, once, at any later time, under the
guards of `undo_operation`. `Kinds` says which requests an instance makes ("correct":
assignments with reviewed conflicts; the "undo_..." are kinds of their own).
`last`, `failed` are history.

Two things that the code lets happen break most of what should hold, and the properties
about owners name them as their premises. `Mixed`: clusters were merged, which
`merge_clusters` does without looking at their status, so tracks that have a person get
into an open cluster. `Crossed`: a merge of people was undone although its target had been
merged itself in between, which the guard of `undo_operation` does not look at.

`Arrive`, `Recognise`, `Cluster` are the event's transaction: its tracks and links,
then one decision per track, in any order. A track may resemble any person who has an
index row and a prototype, or any open cluster, or none.

### Artifacts

`row` and `receipt` are `artifact_manifest` and `backup_receipts`, `present` the files
that `safe_artifact_path` finds. The manifest file is the number of the last `changes` of
the table that it shows (`listed`). Each thread has its place and what it has read. A receipt
reads the artifact, then the receipt, then commits the columns that differ
(`ReceiptReadsArtifact`, `ReceiptReadsReceipt`, `ReceiptCommits`); reconciliation reads
all rows, looks at the files and commits (`ReconcileReads`, `ReconcileLooks`,
`ReconcileCommits`). Whoever commits then exports: `ExportLocks`, `ExportReads`,
`ExportWrites` are `export_manifest` under `_MANIFEST_LOCK`. `Register` is the end of an
analysis or of a snapshot. `overlapped` is history: the artifacts of which two receipts were
handled at once.

### Downloads

`journal` are the complete lines, `torn` says that a further one is being written; the pair
stands for size and mtime. `Stat`, `Read`, `ReadRow`, `Apply`, `Commit`, `Alarm` are the
steps of `sync`: the signature is taken before the file is read and kept in memory
(`last`). The first insert of the transaction takes SQLite's write lock (`writing`), so an
HTTP report (`ReportReads`, `ReportCommits`) may read before and commit after it.
`announced` and `alarms` are the outbox rows of the two topics, by what their dedupe keys
are made of.

### Migration

`old` and `new` say what the two names of each image refer to, `migrated` which of them the
rows hold. `proc` is a migration: `plan`, `link` and `unlink` for every image, `sync`,
`commit`, `committed`, `export`, `verify`, `end`, and `undo`, `undounlink` for the
rollback. `Fails` is an exception at any call, `Interrupted` a Ctrl-C, which
`except Exception` (`media_migration.py:245`) does not catch, `Killed` leaves the lock file.
`Repair` is what `docs/operations.md` asks of the operator after one of these.

### Resolver

`dir` is the directory of the state file (token, intent, temporary file), `views` what a power
loss may leave of it: any state since the last `fsync` of the directory. `proc` is a process with
the token it holds in memory. `CheckToken`, the five steps of `atomic_save` (`OpenTemp`
to `SyncDir`, for the intent and then for the state), `RefreshTaken` or
`RefreshNotTaken`, `ReadBack` and `UnlinkIntent` are `ensure_token`. `current` is
the token that the provider would take, `times` counts how often each was presented.

### Tracking

One `Detect` per frame finds its faces, best first, and gives any pair of a face and a
track that is not too long gone a score or none. `Match` takes the best candidate left, as
`sorted(candidates, reverse=True)` does; when none is left (`Matched`), `BeginTrack` goes
through the faces again and starts a track with each that was not taken, and `FrameDone` ends the frame.
`added` is history: all faces a track was ever given, also those that `_Track.add` trimmed
away.

## 3. What the runs check

| Run | Instance | Properties | Shows |
|---|---|---|---|
| `delivery_batch` | 2 messages of two priorities, 2 bot names, 1 fault, 2 attempts, fair | `TypeOK`, `SentWasDelivered`, `RepeatsNeedFaults`, `DeadWasClaimedOften`, `SentIsFinal`, `DeliversAtLeastOnce`, `Settles` | no row is sent unreceived; a fault costs at most one repetition; dead needs the attempts; a sent row is untouched before the first fault and opened again by two kinds of late requests only; refinement of `AtLeastOnce`; every message is sent or dead in the end |
| `ingest_one_path` | 2 versions of one path, 3 puts, 2 requests | `ProcessedIsFinal`, `OneRowPerEvent` | a processed row is reopened only by a request that saw it dead; no content is recorded twice, although a row may be hashed from the bytes of the other version |
| `ingest_twins` | 2 files with equal bytes and own paths, 1 crash or database error, 1 request, fair | `TypeOK`, `DeadIsAnnounced`, `ImagesKept`, `Finishes` | no silent dead row; committed images stay while paths are not reused; every discovered file ends, unless the ingest task has ended |
| `identity` | 4 tracks, 2 events, 1 frame of two; 4 operations of every kind | `TypeOK`, `PeopleApart`, `OwnersAreActive`, `SamplesAreOwn`, `ObservationsGrounded`, `LabeledHasPerson`, `OnlyUndoLabelFails`, `ClustersApart`, `IndexCovers`, `UndoRestores` | nobody has, and no cluster holds, two faces of one frame; owners, samples and observations agree in any order of corrections and undos; the index is built from all prototypes; an immediate undo restores the rows, until clusters are merged or undos cross |
| `resolver` | 2 processes, 5 tokens, 3 crashes or power losses, 2 reconciliations | `PresentedOnce`, `LostTokenIsMarked`, `ServesStoredToken` | no token is presented twice; a spent token on disk is marked by the intent, whatever a power loss leaves; nobody works with a replaced token |
| `artifacts` | 1 artifact with or without a receipt, 2 request threads beside reconciliation, 2 requests, 1 file vanishing or returning, 1 crash or failed export, fair | `BackupAgrees`, `ManifestGoesForward`, `AnsweredIsListed`, `MissingIsListed` | rows agree with receipts; the manifest never goes back, shows what was answered, and catches up; rows and files agree when both rest |
| `downloads` | 2 downloads, 2 lines, 2 HTTP reports on one of them, 1 fault, fair | `FailureIsAnnounced`, `JournalIsApplied` | a failed download has its message; a journal at rest is applied to its last line, or announced as unreadable |
| `migration` | 3 images, 2 migrations at once, 3 in all, 3 faults | `ImagesExist`, `RowsNameImages`, `RollbackRestores`, `ForeignFilesStay` | no image is ever lost; one migration runs at a time; rows and names agree when nothing was killed or interrupted; a rollback restores; foreign files stay |
| `tracking` | 4 frames of up to 2 faces, 4 tracks, gaps of at most 2, 2 samples a track | `FacesApart`, `BestAreKept`, `SeenTogether`, `NoBetterPair` | for every scoring, as long as the tracks begun and the faces of a frame are four at most, tracks are one-to-one within a frame and greedy, their samples the best, and pairs seen together exact despite trimming |

The five runs from `resolver` on have their type invariant as a conjunct of one
invariant each (`ServesStoredToken`, `BackupAgrees`, `FailureIsAnnounced`,
`RowsNameImages`, `FacesApart`).

Runs that TLC is expected to refute, each a documented statement:

| Run | Statement | What happens |
|---|---|---|
| `ingest_twin_fails` | equal content is deduplicated (`README.md:25`) | the duplicate copies a unique `event_id`: the commit fails until the row is dead |
| `identity_undo` | the system checks whether later data still allow a safe undo (`static/app.js:697`) | x is merged into s, s into t; the first undo gives x its tracks back, the second gives them to s, while x keeps its observation |
| `identity_split` | samples can be split off (`docs/natural-learning.md:47`) | the new cluster is refreshed before it has stored members, deleted, and the commit fails |

More statements that the models contradict, without a run of their own:

- Images are removed only without a commit (`docs/architecture.md:79`): a new version of a
  processed path overwrites and unlinks the images of the committed event (`Ingest` with two
  digests on one path; `ImagesKept` holds where there are no such versions, as in `ingest_twins`).
- After an interruption the lease brings processing back (`docs/architecture.md:78`): an error of
  the database in `recover_stale` at the start (`ingest.py:232`) ends the ingest task while the
  process, its web pages and its health check (`api.py:126`) go on, and nothing is analysed until
  it is restarted. `Finishes` has this as its only exception.
- Going dead writes a message (`docs/operations.md:18`): the second death of a row, after a retry
  request, meets the dedupe key of the first (`ingest.py:228`, `outbox.py:22-24`).
- The centroid of a person is that of all prototypes (`docs/architecture.md:73`): a merge of people
  rebuilds it before the prototypes it moves are flushed (`people.py:634`); `IndexCovers` has the
  premise that no people were merged.
- A failed refresh of the resolver keeps its intent when the outcome is unclear, while refusals only
  pause it for 300 or 60 seconds (`services/cloud-playback/README.md:20-22`): a refresh that
  falls into such a pause is refused after its intent was saved (`resolver.py:103`, `67-68`), so nothing
  was sent and every later refresh is refused until somebody reconciles. A save that fails does the
  same, and a leftover `.pending` file (`resolver.py:41`) blocks every later save.
- The artifact shows its receipt (`docs/architecture.md:81`): two receipts of one artifact at once,
  verified and failed, merge column by column (`BackupAgrees` exempts `overlapped` artifacts); a
  failed receipt after a verified one leaves `state` verified (`artifacts.py:206`); and when a file
  comes back while its receipt is verified, reconciliation writes `receipt_pending` from the row it
  read before (`artifacts.py:316`), which nothing repairs.
- Every failed download is announced (`docs/downloader-contract.md:78`): a second failure after a
  success meets the dedupe key of the first (`download_status.py:62-79`). After any new line, and
  after every restart, older lines of the journal overwrite newer HTTP reports
  (`download_status.py:57`). One bad line stops the journal for ever, since it only grows.
- A failing migration is rolled back (`docs/operations.md`): an interrupt during the renames is not
  (`media_migration.py:245`), but removes the lock file; and after an unlink that fails, the image
  keeps both names, on which every later plan refuses (`RollbackRestores` exempts that image).
- A message whose sends fail 12 times is dropped (`outbox.py:97`; `docs/operations.md:30`
  says it is not), and an analysis can die after fewer failures than the schedule has
  retries, since claims lost to crashes count (`ingest.py:192`).
- "All corrections can be undone" (`docs/natural-learning.md:47`): the undo of a merge of
  clusters fails like a split (`people.py:969`); the undo of a merge of people leaves the
  source without an index row, so it is not recognised any more (`people.py:950`); a label over
  tracks of a labelled cluster that was merged is undone by giving them to nobody
  (`people.py:830`).
- Two clusters of one event are assigned to one person: the undo of the first deletes the
  observation of both (`people.py:892`; `docs/natural-learning.md:55`).
- The undo of an assignment, after a cluster with an owner's tracks was merged and
  assigned, restores that owner beside another track of the same frame (`people.py:901`), and
  the undo of a merge of clusters returns tracks to a cluster that has got others
  (`people.py:961`): the permanent link of `docs/natural-learning.md:40` is ignored. These need
  four tracks and five or six operations, and are why `ClustersApart` and the properties
  about owners have their premises.

**Bounds.** `MaxAttempts = 2` instead of 12 and `Schedule = 1` instead of 3 keep
one retry before the end, the case that matters. Two messages are needed for a
batch with a rest to abandon; two names for a stranger's lease; one fault is enough for a
late handler to meet those of the next bot (for any number of faults `SentWasDelivered` and
`DeadWasClaimedOften` are proved). Two file versions
have equal bytes (`ingest_twins`) or equal paths (`ingest_one_path`), the two ways in which
files can meet in the code; two requests can overlap. `MaxFaults`, `MaxCrashes`, `MaxRequests`,
`MaxPuts` bound only what comes from outside. Deadlock is checked in the run of
`Delivery`, where the bot polls for ever, and in those of `Ingest` without errors of the
database, where the worker scans for ever; `ingest_twins` may stop, when the task has ended.

In `Identity` there are a frame of two and a track of another event, which may come
before or after; the fourth track shares an event with the frame but
is not in it, so that two people who have an event in common can be merged. The one
track with the quality of a prototype is that of the other event, the one that can teach
a face before the frame is seen. The two tracks of the frame can be exchanged, which is
the symmetry of the run. `MaxOps` counts recorded operations, undos included: two
labels, a merge of them and an undo of any of the three are four, and so are a label, its
undo, and both again. Longer histories, of which the crossing undos need seven operations
(`identity_undo` makes only the requests that it takes), are the business of the
proofs, which hold for any number. Deadlock is not checked there: when the
events are analysed and `MaxOps` is reached nothing is left to do.

One artifact is enough in `Artifacts`: rows meet only in the manifest, which is represented by a
count. It may have a receipt, and have lost its file, when the process starts. Two
downloads make a transaction of two reports in `Downloads`, of which one meets HTTP; two
lines are two reports of one download, or one of each. Three images in `Migration` give a rollback
a first, a middle and a last one. In `Resolver`, five tokens are more than the refreshes that two
reconciliations allow. Four frames in `Tracking` hold a track that is gone too long to be
continued, and more faces than a track keeps samples; `MaxTracks` bounds the tracks begun and the faces
of the next frame together (the proofs are for any bound). Deadlock is not checked in
`Downloads`, `Migration` and `Tracking`, which come to rest when their bounds are reached.

**Fairness.** `WF(BotStep)` and `WF(WorkerStep)`: the loops run while their
process lives (`while (!stopping)`, `while not self._stop`, each with a catch for every error). The
ingest task can end before its loop; then no `WorkerStep` is enabled, and fairness asks nothing of
it. `WF(BotStarts)`,
`WF(Restart)`: supervisord restarts both. `WF(TimePasses(m))`, `WF(LeaseExpires)`,
`WF(BackoffElapses)`, `WF(Settle)`: clocks advance. Nothing else is fair: sends and
analyses may fail every time, files may vanish, a late handler may never commit.
`Artifacts` adds that a request that was begun and an export that can go on do so
(`WF(Handle(t))`, `WF(Export(t))`), but not that a thread ever wins the race for the lock;
`Downloads` only has the loop of `download_status.py:218` (`WF(Sync)`). Migration, Resolver and
Tracking have safety only: nothing in them must happen.

**Mutants.** Every property of a passing run has a mutant of a definition that
models code (operators commented "Mutant of ..."), which makes it fail.

## 4. What is proved

`DeliveryProofs`, from `OutboxAssumption` and `DeliveryAssumption` only (finite
set of keys, priorities and limits of their types), for any number of messages,
workers and faults:

- `TypeCorrect`: `Spec => []TypeOK`.
- `SentSafe`: `Spec => []SentWasDelivered`.
- `DeadSafe`: `Spec => []DeadWasClaimedOften`.
- `SentSettled`: `Spec => SentIsFinal`.
- `KeepsPromise`: `Spec => DeliversAtLeastOnce`, the refinement of `AtLeastOnce`.
- `RepeatsBounded`: `Spec => []RepeatsNeedFaults`.

`SentSafe` and `DeadSafe` share the inductive invariant `IInv`. Neither property is inductive:
a commit writes what its handler read long before. `IInv` adds that every request,
awaited or left behind, is `Grounded`: an ack is about received messages only,
and the attempts in a snapshot are at most the claims committed so far; and that
at `pc = "ack"` the current message was received. `GroundedStable` says that this
survives every step because the two histories only grow, `CommitSafe` that a
grounded commit keeps both properties, and `IInvStep` goes through the actions.

The other three need to know where the bot is. `Loop` says what it holds at each place and which
request it waits for, and that before the first fault nothing is left behind; `KeysStored`
that every message named anywhere has a row. The first half of `SentIsFinal`, that a sent row is
not written before the first fault, is about calm weather: `Calm` says
that, as long as there was no fault, each row is as the place of the bot requires (`InOrder`), and what
the one handler at work has read is still what is stored (`Fresh`), so that it writes what it
means to. The second half is about any number of faults: `FoundOpen` (what a claim found was
pending or leased) and what each commit writes leave two requests that can open a sent row again, a claim
that found it pending and a rejection that found it held. The second may even have read it while it was
sent: a late claim of a leased row leaves `sent` alone but writes its owner. The refinement maps a row to its `Stage` (absent, open, sent, dead); each step changes the
stage of one message at most as `AtLeastOnce` allows, or of none (`RefinesStep`), from `IInv` and `Calm`
together. `RepeatsNeedFaults` is shown by a potential: `Paid` says of each message, at each place, that
what was delivered, what strays can still reopen, and what the bot and the row can still
deliver without a further fault is at most one more than the faults so far. A fault raises the account by
one and adds at most one stray or one further delivery; every other step only spends.

`IngestProofs`, from `IngestAssumption`, for any files, paths, digests, schedule and faults:

- `TypeCorrect`: `Spec => []TypeOK`.
- `EventsOnce`: `Spec => []OneRowPerEvent`.
- `DeathsAnnounced`: `Spec => []DeadIsAnnounced`.
- `DoneStaysDone`: `Spec => ProcessedIsFinal`.
- `ImagesStay`: `OwnPaths => (Spec /\ []NoOverlap => []ImagesKept)`.

The UNIQUE columns alone do not give `OneRowPerEvent`: a row could lose its event to another
digest. `IInv` adds `Recorded` (an event is the digest of its own row, and is committed), `AtWork`
(the claimed row is not done, and from the commit of its digest on the worker holds that
digest), so that a row which already has its event cannot commit another; `Told` (who is
marked as announced has the message, so what a late request writes over it does no harm), and
`Asked` (a request saw a waiting or dead row). `TwinsClash` shows on the way that no row ever
becomes a duplicate, whatever the instance: the commit always meets the UNIQUE constraint, as
the run `ingest_twin_fails` shows for one.

`ImagesKept` is false without its two premises, so the theorem states them: no two files share a path
(`OwnPaths`), and no two requests for one row are open at once (`NoOverlap`); the number of requests,
crashes and files is free. `ingest_twins` is an instance of both. `ImagesInv` says what they buy: a
request that read a dead row still finds it dead (`StillDead`), so it never reopens a processed one, and
a row with an event is done (`Finished`), so the worker draws and removes only images of rows without one.

`IdentityProofs`, from `IdentityAssumption` (a frame is two tracks of one event), for any
tracks, events, frames and number of operations:

- `FramesApart`: `Spec => []ClustersApart`.
- `WellTyped`: `Spec => []TypeOK`.
- `LabelsNamePersons`: `Spec => []LabeledHasPerson`.
- `IndexIsWhole`: `Spec => []IndexCovers`.
- `OwnersStayActive`: `Spec => []OwnersAreActive`.
- `FramesShowTwo`: `Spec => []PeopleApart`.
- `SamplesFollow`: `Spec => []SamplesAreOwn`.
- `SightsAreGrounded`: `Spec => []ObservationsGrounded`.
- `OnlyTwoFail`: `Spec => []OnlyUndoLabelFails`.
- `UndoIsInverse`: `Spec => UndoRestores`.

`ClustersApart` is not inductive because an undo puts links back. `IInv` adds `Fresh`
(an undecided track is in no cluster and no cluster is named after it, so an event's
links cannot join members), `Housed` (the cluster of a track exists) and `Recorded`: a
link that an assignment deleted leads from inside its cluster to the outside
(`Bridges`). The undo requires that the cluster has the tracks it had, so the link still
leads out of it when it comes back. `Committed` says this once for every request,
`Unmoved` for those that move no track. The premise of `ClustersApart`, that no merge of
clusters was undone, is the other half of the invariant: once it is false
(`Wandered`) it stays false, because operations are numbered and stay undone
(`NumberedStep`).

Types need what operations record (`EntryOK`), since an undo writes it back, and that a person is
not there before the operation that creates it (`Unborn`). For each action one lemma says
what rows it writes, table by table (`LabelRows` to `UndoMergePeopleRows`); every later proof cites
these and expands no action again. `IndexCovers` needs that a key of a prototype names the person it
was made for, so that the undo of an assignment deletes prototypes of that person only.

The three properties of owners share the invariant `Mixed \/ Crossed \/ Straight`. Both
excuses last (`BadStays`, which needs that what an undo names is undone), so every step may assume
`Straight` and that it does not end in an excuse. `Straight` has three parts:

- `IInv` again: members and links.
- `MarkInv`, about clusters: at most one operation that stands (not undone) holds a cluster, and then the cluster
  is not open (`OneMark`); the tracks of a label or assignment that stands are still the members of its
  cluster (`TokenTracks`), and a cluster names the person of that operation (`Named`). So tracks of
  two labels are different tracks, and the undo of a label finds the tracks it gave.
- `OwnInv`, about people. `TreeInv` says that the merges of people that stand form a forest:
  whoever is merged is the source of exactly one of them (`Held`), what came to a person goes on when that
  person is merged (`Nested`), two merges into one person moved different tracks (`Siblings`), and a
  track moved twice came to the second merge by way of the first (`Laid`). `OwnedInv` says where the
  tracks are: those of a label with its person until a merge takes them from there (`First`), those
  of a merge with its target while that is active (`Kept`), an assignment found its tracks with nobody
  (`Cleared`), and prototypes are where their tracks are and were recorded when these moved
  (`OwnSamples`, `SamplesRecorded`). `Unowned` and `Parted` are what matching and `merge_people` preserve.

`Cleared` is why the undo of an assignment, which restores owners of long ago, restores nobody; and
`Nested` and `Siblings` are why an undo of a merge of people gives back exactly what came with it,
provided that the target is not merged itself: `NotCrossing` is that proviso, and without it the run
`identity_undo` shows a violation. A guard in `undo_operation` that refuses when the target
is merged would make `Crossed` impossible, and the proof would cover every history without
merges of clusters.

Observations carry no track, only an event, and two tracks of one event may lie with two people.
`ObsInv` therefore gives each observation a track of its event that was moved by exactly the merges
that moved the observation (`Anchored`, from which `ObservationsGrounded` is immediate). The same is
so, up to the merge that deleted it as a duplicate, of an observation that may come back
(`AsideAnchored`); such a key is in no row and in no later operation (`Gone`). An assignment that
stands recorded the observations it made of its tracks (second part of `Shows`), so its undo deletes
no anchor without what hangs on it. The last conjunct is `Sound(db)`, the schema's constraints
themselves: that anchors remain and that commits satisfy the constraints are shown together.

`OnlyUndoLabelFails` follows: for each request one lemma (`SoundLearns` to `SoundUnmerges`) shows that
its rows satisfy the constraints, in particular that what `merge_people` leaves has one
observation of a person per event and one prototype per track, and that what its undo brings back meets none in
the database. Splits and the undo of a label are all that is left, and both do fail.

`UndoRestores` relates two states that are two steps apart. `LastInv` says what the latest operation
did to the rows in `last` (`Since`, one formula for each kind), and `UndoneBack` that the undo of
that kind takes it back. It starts from `Seen` = `Straight` and `ObsInv`: that a cluster which is
labelled was open and its tracks nobody's, and that the keys of an operation are new, is what
makes "set to NULL" and "delete what is recorded" inverses. Both premises are needed. With `Mixed` the
cluster may hold tracks that have a person; after crossed undos a track can have an owner and
still be in an open cluster, and then a label and its undo lose that owner, in a history of ten
operations, longer than those of the run `identity`: the attempt to prove the property without
`~Crossed` found it.

`ResolverProofs`, from `ResolverAssumption` (bounds are natural numbers), for any processes,
tokens, crashes and power losses:

- `TokensPresentedOnce`: `Spec => []PresentedOnce`.
- `SpentTokensMarked`: `Spec => []LostTokenIsMarked`.
- `StoredTokenServed`: `Spec => []ServesStoredToken`.

None is inductive: a token may be presented because of what the disk has held since the
intent was saved, and a power loss may bring back any of `views`. `IInv` adds `Unspent` (where
some surviving directory has no intent, the current token was never presented, nor was any
later one), `Alone` (the lease), and for each place of `ensure_token` what the process holds:
`Asking` before the request, `Holding` after it, `Placed` for what the `fsync`s so far have made
certain. `OneMoves` reduces a step to the process that moves, since the others are off.

`MigrationProofs`, from `MigrationAssumption`, for any images, processes, runs and faults:

- `NoImageLost`: `Spec => []ImagesExist`.
- `RowsAgree`: `Spec => []RowsNameImages`.
- `RollbacksRestore`: `Spec => RollbackRestores`.
- `ForeignFilesKept`: `Spec => ForeignFilesStay`.

`IInv` adds that migrations exclude each other (`Alone`), and in `Own` that an image is either
renamed, still to do, or the one at hand, which has both names while one is being removed:
without it an `unlink` could take the last name. `Progress` accounts for the names
at each place unless something was interrupted; the commit and the end of a rollback need it.
The list of renamed images is a sequence, about which `Appended`, `Shortened` and `NoneDone` say
what is needed.

`ArtifactsProofs`, from `ArtifactsAssumption`, for any artifacts, threads, requests and faults:

- `BackupsAgree`: `Spec => []BackupAgrees`.
- `ManifestsGoForward`: `Spec => ManifestGoesForward`.
- `AnswersAreListed`: `Spec => AnsweredIsListed`.

`IInv` adds `Newer`: what a thread is about to write lies between what the manifest shows
and the changes committed, and is at least what the thread itself committed; it stays so
because the lock of the export lets nobody else write meanwhile. For `BackupAgrees` it adds `Alone`: the
handler of a receipt, unless another one of the same artifact was at work, writes over exactly
the row and the receipt it read, whatever promotions and reconciliations commit in between; and
`Noted`: two handlers of one artifact are recorded in `overlapped`.

`DownloadsProofs`, from `DownloadsAssumption`, for any downloads, lines, reports and faults:

- `FailuresAnnounced`: `Spec => []FailureIsAnnounced`.

The worker and the handler write rows with what they read of them long before, so a row could be
marked as announced by a transaction that never commits its message. `IInv` adds `Told` (a row that is
failed or marked has its message) and `Sure` (so has what either of them has read), and
`Room`, that a line being written fits the journal; `MergedTold` says it of what a report writes.

`TrackingProofs`, from `TrackingAssumption`, for any frames, faces, scores and bounds:

- `TracksApart`: `Spec => []FacesApart`.
- `SamplesAreBest`: `Spec => []BestAreKept`.
- `PairsAreExact`: `Spec => []SeenTogether`.
- `AssignmentIsGreedy`: `Spec => []NoBetterPair`.

`IInv` adds `Placed` (a face of the frame at hand is in the track it was taken for, or has begun
one), from which a candidate that is not `Used` meets no face of its frame in its track, and
`Greedy` (what was looked at lost to a taken pair, and nothing left is better than what was
taken). The arithmetic of `_Track.add` is in three lemmas: in sorted samples those that are not worse than a
face are the first ones (`AboveFirst`, by counting, since induction is out of reach), so inserting keeps
them sorted (`InsertedSorted`), and dropping the last one keeps the best (`AddLeavesBest`).

Only model-checked: liveness (`Settles`, `Finishes`, `MissingIsListed`, `JournalIsApplied`), since the
prover does not handle ENABLED. Every invariant and action property that a passing run checks is proved.

## 5. Abstractions

- Payloads, texts, digests, names are model values. Only what a query compares of
  a timestamp is kept; `born` stands for `created_at` and creation times are distinct
  in `Outbox`, possibly equal within one scan in `Ingest`.
- `Delivery`: a 409 answer to an ack leads to a nack, as in the code; a 500 or a
  dropped connection is `CallFails` with or without a later commit. Messages are
  enqueued at any time by an unnamed transaction. The clean shutdown finishes as a
  crash does, and `limit` is constant.
- `Ingest`: the model files are ready (otherwise the loop only discovers) and failure
  notifications are on, as by default. Transactions on the claimed row other than
  `claim_one` are one step: the columns a request writes meanwhile are disjoint
  from theirs or written before or after with the same result. What an event
  contains is only whether it has images.
- `Identity`: similarity is a free choice, so which samples are alike, the four best
  candidates, margins and the prototypes enabled for search are left open. candidate and
  review_ready are one status, provisional and trusted another. Renames, replayed
  requests (idempotency keys), counts of rows and the audit are left out. The undo
  of a split is not modelled because no split commits; if the missing flush were added, it would
  have to be.

- `Artifacts`: of checksum and size only whether they match; retention dates, locators and the
  contents of a snapshot are left out. Files vanish and come back on their own.
- `Downloads`: of a report only its state; `discovered` and `retrying` are one. A bad line is any
  that the checks refuse. Whether a transaction has inserted something decides who holds the
  write lock.
- `Migration`: the service is stopped, so nobody else writes the rows. The names of images are
  distinct by construction (`media_migration.py:134`); the other checks of the plan refuse or not.
  Files of others appear but never remove ours.
- `Resolver`: times are facts that change at any moment; the provider takes the current token only.
- `Tracking`: a score is any value, at equal distances in time.

## 6. Not modelled, and the plan

Numerical inference, video decoding, the web pages, logging, configuration,
container and schema files have no protocol of their own and stay out; risk scoring is a sum
over one event, the new names of `media_names.py` a string format. What is left, in this order:

1. `Sessions`: throttle window and expiry (`security.py`).
2. `Alerts`: `Ingest` and `Downloads` composed with `Outbox`, so that a death is delivered.

Proofs: the premises of `IndexCovers` and `LabeledHasPerson` name what merges and undos break;
narrower ones could be proved, cluster by cluster. Types of the components whose type invariant is
part of another theorem (`Artifacts`, `Downloads`, `Migration`, `Resolver`, `Tracking`) could be theorems.
Out of the prover's reach: liveness, ENABLED, and what recursive definitions
compute for every input; recursive operators stay out of modules with theorems.
