# Verification of SaveBox

SaveBox is an encrypted drive: an Angular client that encrypts files in the
browser, and a C++ server (Crow, PostgreSQL, a directory of `.dat` files and,
optionally, the user's Google Drive) that stores what it cannot read. This
directory holds TLA+ models of the parts in which threads, requests, sessions,
timers and clicks meet, TLC configurations that check them on small instances,
and proofs that hold for all instances.

    tlc -config LedgerFull.cfg MCStorageLedger     # one run
    tlapm StorageLedgerProofs.tla                  # one module of proofs

Paths below are relative to the repository. `FileManager.cpp`,
`FolderManager.cpp`, `DatabasePool.cpp` are in `backend/src/database/`,
`GarbageCollector.cpp` and `FileChunker.cpp` in `backend/src/storage/`,
`GoogleDriveService.cpp` in `backend/src/Services/`, `ApiRouter.cpp` in
`backend/src/controllers/`; of the frontend, `core/` and `features/` are in
`frontend/src/app/`, and `drive.store.ts` is in `features/drive/state/`.

## 1. The system

| Component | State it keeps | Operations | Meets |
|---|---|---|---|
| Connection pool (`DatabasePool.cpp`) | queue of idle connections, one mutex and condition, shutdown flag | `acquire_connection`, `return_connection`, `close_all` | every request thread and collector run |
| Storage ledger (`FileManager.cpp`, `FolderManager.cpp`) | rows of `files`, `folders`; `users.used_storage_bytes` | start and finish uploads, trash, restore, delete, move, empty the trash, unlink | collector, Google accounts, drive view |
| Chunked upload, server (`ApiRouter.cpp:905-1020`, `FileChunker.cpp`) | `file_chunks`, `is_upload_complete`, `<id>.dat` | begin, chunk, progress, finish | sessions of browsers, collector |
| Garbage collector (`GarbageCollector.cpp`) | what phase 1 read | list, refund and delete, erase bytes, Google phase, sweep orphans | everything above, and itself: runs overlap |
| Upload sessions, browser (`upload-engine.service.ts`, `drive.store.ts`) | chunk loop, nonce, list of chunks to skip, pause | start, pause, resume, recover | server, by requests whose answers get lost |
| Upload batches, browser (`upload-batch-coordinator.service.ts`, `upload-queue.ts`, `drive.store.ts`) | queue of operations, window, queue of requests, list of transfers with flags and groups | submit, pause, resume, cancel, recover, clear | upload sessions, dialogs |
| Encrypted file format (`core/crypto/kasumi-crypto.service.ts`, the file routes) | none | encrypt, read a header, open a chunk, open a whole file, answer a range | downloads, video |
| Downloads, browser (`drive.store.ts`, the page of a shared link) | one record per download, shared by its loops | download, pause, resume, cancel | file routes, transfer panel |
| Video streaming, browser (`video-stream.service.ts`, `video-player.component.ts`) | stream, generation, loads under way, two workers, `SourceBuffer` | open, play, seek, evict, retry, close | file routes, file format |
| Session state, browser (`app-state.service.ts`, `auth.service.ts`, `crypto.service.ts`, interceptors, guards, pages) | token, user, vault key, lock, route | log in, register, set up, unlock, lock, change the phrase, refresh, log out | answers of any request |
| Drive view, browser (`drive.store.ts`, the file list, the home page, the sidebar) | copies of the tree and the trash, folder, history, selection, menu, dialog, drops | load, navigate, select, trash, restore, rename, move, create, delete, drop, lock | storage ledger, pins |
| Pinned folders (`FolderManager.cpp:909-1024`, `pinned-folders.store.ts`) | positions 0..9; the list and pending marks | pin, unpin, reorder, normalise | folder tree |
| Folder tree (`FolderManager.cpp`) | `parent_id`, `deleted_at` | create, move, trash, restore, create in batches | ledger, shares, pins |
| Server sessions (`AuthService.cpp`) | `token_version`, `user_sessions` | log in, log out, log out everywhere, change password | every route |
| Rate limit (`RateLimitMiddleware.hpp`) | windows and bans per client | count, ban, forget | every route |
| Google key cache (`GoogleJwksCache.cpp`) | keys, expiry, fetch under way | look up, fetch, wait | logins |
| Google accounts (`GoogleDriveService.cpp`) | links, OAuth states, token cache, pending deletions | link, look up, unlink, queue a deletion | pool (nested), collector |
| Shared links (`FileManager.cpp:445-553`, `ApiRouter.cpp:1734-1985`) | token, hourly limit, Google permission | create, rotate, revoke, read | ledger, downloads |
| Collector thread (`main.cpp`, `ApiRouter.cpp:29-40`) | `gc_running`, condition | daily run, detached runs, shutdown | pool |

Threads of the server share the pool, the disk and the database; transactions
lock the user's row (`SELECT ... FOR UPDATE`) where they change the account.
The collector meets everyone through the tables and the disk and takes no lock
that spans its phases. The browser is one thread, but every `await` is a point
where any other call goes on, and the user clicks at all of them; it talks to
the server by requests whose answers can be lost, late or out of order.

What is hard about it, by line, is the list `hazards` of `PROJECT.json`. The
main themes: work done under a connection that needs a second one; a wake-up
between a push and its notification; a charge, a refund and a deletion made by
different transactions; a list read in one phase and acted on in a later one;
bytes on disk, which no transaction protects; handlers made of four
transactions, any of which can be the last; and, in the browser, flags that ask
a loop to stop while another is begun, answers that come after the session, the
lock, the folder or the stream they belong to, and copies that older answers
overwrite.

What makes each component correct:

- pool: one user for a connection, no connection lost, no sleeper forgotten,
  every request served, shutdown frees everyone;
- ledger: the account never exceeds the quota and moves by exactly what is
  added and deleted; nothing the user keeps is deleted;
- upload: complete means all chunks recorded, stored and of one encryption; an
  upload whose chunks are all there becomes complete; success is not reported
  without cause; every session and batch ends; each candidate gets one result;
- download: what is saved is whole; what fails has a reason; the panel is true;
- file format: what is written can be read, in one go or by ranges, a loss is
  noticed, and no nonce is used twice in one encryption;
- video: the decoder gets chunks in order, nothing is skipped, updates of the
  buffer do not meet;
- session: token, user and key belong together; nothing is left after a logout;
  what was uploaded stays readable whatever fails while the phrase changes;
- drive view: what is shown converges to what the server has, what is acted on
  is what was chosen, nothing shows under the lock;
- pins: at most ten, positions contiguous, the browser converges to the server;
- folder tree: no cycles, no live folder below a trashed one;
- server sessions: no token outlives a global logout; at most ten sessions;
- rate limit: counts within a window, bans last, the table stays bounded;
- key cache: one fetch at a time, no waiter stays behind, no expired key used;
- Google accounts: an OAuth state is used once, what is deleted here is deleted
  there in the end;
- shared links: no file readable after its link is revoked.

## 2. The models

Every module with an `MC` companion is parameterised by constants; the
companion adds only what a configuration cannot write (symmetry sets, functions
and sequences as values).

### DatabasePool, ConnectionLeases

The pool and the threads that use it. `connections` is the queue, `isOpen`
what the server knows of a connection, `pc` the place of each thread. `Acquire`
is `acquire_connection` from the lock to the return (lines 65-103): wait,
throw on shutdown, pop, replace a dead connection or throw when that fails,
which it may for the connections in `Unreachable`.
The wait is a state (`sleeping`), left by a notification or spuriously, and
re-tests the predicate. `return_connection` is two steps, because the mutex is
released between the push (`Release`) and `notify_one` (`Notify`), and another
thread can take the connection in between. `CloseAll` is `close_all`,
`ServerDrops` the loss of a connection. A thread in `Nested` borrows a second
connection while it holds its first, as every caller of
`get_access_token_for_storage` on a cache miss does; a collector run does so
several times (`MaxLookups`).

`ConnectionLeases` is what callers may rely on, without queue, mutex or
waiters: connections are lent, come back, are lost only if they cannot be
opened anew, and are not lent after the pool has closed. `LeasesKept` says
that `DatabasePool` implements it: `idle` is the set of queued connections,
`lent` what each thread holds.

### StorageLedger

A user's rows and account. Each transaction of a request is one action that
carries all its checks, its changes of rows and its charge or refund:
`InitUpload` (of `init_upload` and `init_external_upload`, with the replacement
of an unfinished namesake), `BatchInitUploads`, `MarkUploadComplete`,
`FinalizeExternalUpload`, `DeleteFiles`, `RestoreFile`, `HardDeleteFiles`,
`EmptyTrash`, `UpdateFile`, the folder operations with their recursive
descent (`FolderTree`) and the database's cascades, and `UnlinkAccount`.
A collector run is two actions, since it reads its refunds (`CollectorReads`)
in a transaction other than the one that refunds and deletes
(`CollectorCommits`), and runs overlap. `Refunded` is
`GREATEST(0, used - freed)`. A row is charged its size, or 2048 when its bytes
are at Google (`Charge`). `HoursPass` and `MonthPasses` age rows to the limits
of four hours and thirty days.

### ChunkUpload

The uploads of one name into one folder by any number of sessions, with their
chunk requests on the server, the disk, and the collector. A session
(`at`, `next`, `skip`, `nonce`) is `_uploadSingleFile` or `recoverUpload` with
the loop of the upload engine. A request (`request`) is one step per
transaction of `handle_upload_chunk`: admit, write, record, count, mark. The
disk (`disk`) keeps, for each chunk, the nonce it was encrypted under or
nothing. A replacement by `init_upload` is two steps, `StartUpload` and
`CommitUpload`, because its check of the old row is neither locked nor repeated
by the `DELETE`. A collector run is four steps: list, erase, commit, sweep.
`Faults` chooses which failures happen: a request fails after any of its
steps, an answer is lost, a write is reported as made and is not, a hard
deletion rolls back after it has erased bytes. `Clock` says which delays
may pass.

`StorageLedger` and `ChunkUpload` overlap on purpose at the row of a file: the
one follows its charge with any number of files and folders, the other its
bytes and chunks. Both contain the collector, each with the phases that touch
its state.

### UploadBatch, BatchReports

All uploads of one browser, above the level of bytes. `item`, `pending`,
`paused`, `active` and `counted` are the list of transfers of `DriveStore` and
its flags; `tail` is `operationTail`, on which batches queue behind each other;
`op` is the operation that the coordinator processes, window by window, with the
candidates that are being prepared, wait in the `UploadQueue` or run; `loop` is
each upload loop at its last `await`, and a transfer may have two: the one it
was started with and one that a resume has begun. Videos of a submission are
uploaded one by one with their proxy, with a dialog at a conflict, before their
batch; recoveries run beside everything. The clicks of the panel (pause, resume,
cancel, of a transfer and of a group, and clearing) are actions that may come at
any moment. `stored` is what the server has confirmed.

`BatchReports` is what the coordinator promises: operations end in the order of
their calls, and each reports one result per candidate before the next begins.
`ReportsOnce` is the refinement: `order` is the current operation and the tail,
`due` its candidates without a result, `count` the sum of its summary.

### KasumiFormat, Downloads

`KasumiFormat` is a module of functions: the sizes and places of header,
metadata and chunks, the nonce of a chunk, what `extractMetadata`,
`decryptChunk` and `decryptFile` accept of a file cut short, and which ranges
the file routes answer. The cipher is abstracted to which bytes open under
which nonce.

`Downloads` extends it by one transfer: header, metadata, and a loop of
requests, by ranges, from Google or behind a link. `PauseTransfer`,
`ResumeDownload` and `CancelTransfer` set flags as the code does, and a resume
begins another loop on the same record `state`, whether or not the old one has
ended. `saved` are the files handed to the browser.

### VideoStream

`stream` holds what each call of `initializeStream` has made: how far it is
(`at`), the next chunk to ask for, requests under way, the generation that a
seek increments, the tasks behind the `processLock`, the buffer, the operation
the `SourceBuffer` is busy with, and the mailbox and position of the
transmuxer. `state` says which stream the service believes in. Actions are
answers of the network and of workers, ends of appends and removals, timers, and
the user's open, play, seek, retry and close. Time is counted in chunks.

### Session

One tab and the server's view of it: `app`, `token`, `vaultKey`, `unlocked` are
the fields of `AppStateService`, `AuthService` and `CryptoService`; `page` and
`view` the route and the form. `flow` holds, for each kind of call (login,
registration, set-up, unlock, change of phrase or profile, any request, refresh,
logout), which `await` it is at and what it has read before. Every action is a
flow's code up to its next `await`, with the interceptors' reaction to a refusal
(`Refused`, `Forbidden`) and the guards' redirection (`Navigate`) in the action
whose answer causes them. `session`, `cookie` and `vault` are the server's.
`strayed` notes that a flow has gone on after its session ended, or that a
refresh has failed and left the vault key in memory. A token is issued by the
server's `generate_token`, which swallows every failure of the database: its
session may not be stored, and its claims may name nobody (`Claims`); a tab that
is given such a token shows a user without an e-mail (`Nameless`). Nothing can be
clicked before the session has been restored, because the application is not
shown until then (`AtHome`). `Separate` is what the proofs assume about the
calls that overlap.

### DriveView

What the user sees and does to a drive. The server is `StorageLedger` itself,
by `INSTANCE`: a request of the browser is an action of the ledger, or the
request's failure. `list` and `trash` are the copies in `DriveStore`; a task is
the list of what an asynchronous method has still to await, so that a load is
three steps (the server reads, the names are decrypted, the rows are shown) and
other tasks, the lock and the user come in between. Navigation (`current`,
`back`, `forward`, `view`), selection, menu, dialog, drag and drop are state,
and `picked` and `pointed` remember what the user has chosen, to be compared
with what is acted on. A video's hidden proxy, which the code looks for by name
in its copies, is a file of its own (`Pairs`). `odd` collects the named
departures.

## 3. The runs

| Run | Instance | Shows |
|---|---|---|
| `pool_serves` | 4 threads, 3 connections of which one may fail to be opened anew, 1 nested thread with up to 2 lookups | single use, wake-ups, the pool implements `ConnectionLeases`; every request is served and shutdown frees the waiters, under fair scheduling |
| `ledger_full` | 2 files, 2 folders, both providers, a collector | the quota; the balance of every step except three that are named; finished live files survive; live folders stay reachable |
| `upload_races` | 1 file, 2 chunks, an upload and two recoveries, lost answers | recorded, stored and complete agree; whoever is last completes the upload |
| `upload_replaces` | 2 files, 2 chunks, two uploads of one name, all faults | one encryption per file; success means all recorded |
| `uploads_collected` | an upload, a recovery, a collector, 2 chunks, all faults and delays | the collector spares the rows of finished files; their bytes are lost only by three steps that are named |
| `uploads_end` | an upload, a recovery, a collector, lost answers, four hours | every session ends, deleted bytes are erased in the end |
| `upload_new_nonce` | an upload and its recovery, 2 chunks | **violated** `RecoveryKeepsNonce`: the server refuses the bytes the nonce is read from |
| `transfers_settle` | four scenarios: two windows with a name twice, a queue of two operations, a video with its batch, a recovery | done means stored; groups are honest; `BatchReports` is implemented; every queued batch ends |
| `session_logout`, `session_lock` | as `session_holds` | *violation expected*: a failed refresh logs out, and a 403 locks, and the vault key stays in memory |
| `session_holds` | 2 accounts, 2 phrases, 2 vault keys, 3 logins, seven sets of calls that interleave | token and user agree; the drive is open with the stored key of its user; what was uploaded stays readable; logged out is wiped |
| `video_plays` | 3 chunks, both places of the index, 2 streams, 2 seeks, failing requests and appends | order of chunks, nothing skipped, no update while another runs |
| `drive_view` | a video and its proxy, 2 folders, 2 tasks, fourteen starting points | the list, the proxies and the pins settle; names hidden under the lock; acts on what was chosen; drops land |
| `downloads` | files of 0 to 3 chunks with the sizes of the code, whole or cut at every boundary; three ways; 3 loops | only whole files are saved; failures have a cause; both readers accept the same files; the panel is true; downloads end |

The violated property is the finding of `PROJECT.json`: it quotes the comment
of the repository that says otherwise, and the trace TLC prints is the schedule.

### Named exceptions

Many passing properties would fail if they did not name the steps that break
them. The names are part of the result: nothing else breaks them, and each is a
defect, or a decision, of the code at the line given.

*Server.*

- `LeasesKept` allows the loss of a connection that cannot be opened anew:
  `acquire_connection` pops before the reconnect that may throw
  (`DatabasePool.cpp:79`).
- `AllServed` needs an instance with fewer nested threads than lasting
  connections. With as many, each holds one and waits for another for ever
  (`ApiRouter.cpp:1044`; `main.cpp:40` opens two).
- `BalancedSteps` excepts `ReplacesAcrossProviders` (an unfinished upload
  replaced by one for the other provider is refunded by the kind of the new
  one, `FileManager.cpp:60-65` and `846-853`), `CommitsStaleRefund`
  (`GarbageCollector.cpp:69-85`) and `TakesYoungerFilesAlong` (`update_file`
  accepts a folder in the trash, `FileManager.cpp:370-373`, and the foreign key
  of `DatabaseMigration.cpp:90` deletes the file with that folder, without a
  refund).
- `StoredBytesStay` excepts a hard deletion that erases the bytes before a
  transaction that then rolls back (`FileManager.cpp:669-678`), and the
  collector's erasure and sweep by what phase 1 has read
  (`GarbageCollector.cpp:56-64`, `163`). With the fault `disk`
  (`write_chunk` ignores a failing write, `FileChunker.cpp:38-43`) they are
  the ways in which `CompleteMeansStored` fails outside of `upload_races`.
- `CollectorSparesFinished` excepts the replacement of a file that was
  unfinished when `init_upload` looked (`FileManager.cpp:44-63`) and has been
  finished since.
- `SuccessMeansSaved` speaks of recorded chunks, not of a complete file: a
  request that fails between recording the last chunk and marking
  (`ApiRouter.cpp:1005-1011`) leaves an upload that nothing completes, since
  the session skips recorded chunks (`upload-engine.service.ts:81`).

*Uploads and downloads in the browser.*

- `GroupsHonest` excepts groups with a video in `retried`: cancelled while its
  conflict is being asked about, it comes back with the second try, counted and
  listed at once (`_doUpload`).
- `OperationsEnd` is about batches that have been queued. A submission whose
  videos wait for a dialog that another dialog has replaced never queues its
  batch: the first promise is never settled (`dialog.service.ts:42-58`).
- `ErrorsHaveCauses` and `PanelTellsTrue` except a transfer in `overlap`: it
  was resumed while its old loop still waited. By ranges the slower loop then
  fails to authenticate, may show an error for a file that was saved, or forget
  the transfer that the other still uses; from Google the file is saved twice.
  `SavedIsWhole` has no exception: the index of a chunk is read after the
  `await`, so that a chunk asked for by the wrong loop does not open.
- "Readable" in `ErrorsHaveCauses` is a statement about the file: a link whose
  file is longer than 4 MiB cannot be fetched whole
  (`MAX_FULL_DOWNLOAD_SIZE` in `ApiRouter.cpp`,
  `shared-file.component.ts:319`), and metadata beyond the first 128 KiB makes
  a file unreadable by ranges.

*Session.* `UnlockedWithOwnKey`, `FilesStayReadable` and `SignedOutIsWiped`
except what happens once the tab has `strayed`, in one of two ways. A call has
outlived its session: none of `AuthService.logout`, the interceptors and the
pages cancels what is under way, so that a late set-up puts a key into a
logged-out tab, a late unlock opens the drive of the next user, and a late change
of phrase is stored under the account of the new token. Or the vault key has
outlived its session: a refresh that fails (after a set-up or a change of the
profile; `auth.service.ts:74-77`) calls `appState.logout()` and neither
`lockVault` nor anything that clears `jwtToken`, so that nobody is shown and the
key is still in memory. When the next user signs in, in the same tab, the
settings offer to change the phrase, since `_isUnlocked` is still set, and
`changeSecurityPhrase` (`crypto.service.ts:160`) would seal the key of the first
user as the vault of the second, whose files could not be read any more. The run
`session_logout` shows the first step of this: it checks `LogoutWipes`, what the
comment at `crypto.service.ts:25` promises ("Wiped on lock/logout") of a step
that logs out, and finds the failed refresh. `session_lock` does the same for
what locks (`LockWipes`, `app-state.service.ts:73`): a refused request
(`error.interceptor.ts:28-30`) and a change of the profile lock the application
and leave the key in memory; the exceptions above do not need this, because the
key that is left is the user's own. `TokenIsUsers` has no exception.

*Video.* `FedInOrder` except `failed` and `early` (the chunk that a seek finds
in the transmuxer's mail is of an older generation, and is included),
`NothingSkipped` and `BufferNotBusy` except, by the names in `upset`: `failed`, a load has failed, or has met another update of the
buffer (`video-stream.service.ts:605`), and its chunks are never asked for
again; `early`, a seek within the buffer ended while one out of it was still
preparing; `gap`, a seek within the buffer, after which what is missing ahead is
neither on its way nor to come, or is there and about to be removed by an
eviction that was decided before the seek; `late`, a seek out of the buffer that met a load
which was already appending; `overlap`, a stream was closed while its header or
its `MediaSource` was awaited, lives on beside the next one, and, if it fails,
ends the workers of that. The model begins nothing new after an overlap
(`MayAct`), it only lets both streams run out.

*Drive view*, by the names in `odd`:

- `failed`: a request of the method failed, after which it does not load anew;
  `swept`: a folder of the trash was deleted for good and took a live file
  along that had been moved into it; the store then reloads the trash alone
  (`drive.store.ts:1626`), and the list still shows the file;
- `overtaken`: rows older than the ones shown replaced them, because loads are
  not numbered (`drive.store.ts:479`);
- `late`: names or a thumbnail that were being decrypted at the moment of the
  lock appear after it (`drive.store.ts:430`); `nameless`: the converse;
- `strays`: a call did not find the proxy of its video: the batch into the
  trash and moves do not look for it, restoring or deleting a single video
  looks for the name that older versions gave it (`__PROXY__`), and every call
  looks in a copy that may be stale; or the batch out of the trash asked twice
  for a file, or took one for a proxy of another video of the same name; or the
  user took a proxy by itself, which only the list of the trash shows;
  `crossed`: a request about a video was made while the call for its proxy
  that an earlier one owes was still to come;
- `pinsOvertaken`: the list of pins asked for before a change arrived after it
  (`pinned-folders.store.ts:44`); `repinned`: a folder that was in the trash,
  with its pin, when the pins were loaded has been restored, and its pin is
  shown only after the next visit;
- `kept`: the selection survived a way to another folder or view, although what
  was selected is no longer shown (`navigateUp`, `onViewChange`), so that the bar
  over the selection (`file-list.component.ts:2096`) acts on what is not seen;
  `another` notes that it did. Files and folders count their ids separately, and
  the selection and the menu (`file-list.component.ts:1349`) hold only ids: a
  file and a folder with one id are taken together or for each other, which
  `alike` notes;
- `dropsMeet`: two drops were being read at once, and share one
  `dropTargetFolderId` (`vault-home.component.ts:453`); `dropLost` and
  `dropAstray` note what became of one of them.

### Bounds, and why they are enough

- Pool: every hazard is between a thread that holds, one that waits, one that
  returns and one that arrives late, and so needs at most four threads.
  `main.cpp:40` opens two connections; a third is there to be lost. One nested
  thread on two lasting connections is the most the pool serves. The proofs
  remove these bounds.
- Ledger: two files are needed for a replacement and for a collision of names;
  a batch is two; two folders make a tree. A local file of 3 and an external
  one of 2 fill the quota of 5, and two local ones exceed it. One collector
  meets every request between its two phases, and the proof of the quota is for
  any number.
- Upload: two chunks distinguish the first, the last and the skipped one, two
  recoveries race for the last, two ids allow one replacement. Where one chunk
  is enough to break a property, one is used.
- Batches: a window of two instead of five, so that three candidates make two
  windows; one local upload at a time instead of two, so that the queue fills;
  a name twice; one file at Google. `Scenarios` says which submissions meet: a
  batch alone, two in the queue with a video, a video, a recovery. `Resumed`
  are the transfers that are resumed. The proof of `SuccessMeansStored` is for
  any of these.
- Downloads: the sizes are those of the code; the files are chosen at each of
  its boundaries (`MCSizes`, `MCMetas`, `MCKept`). Three loops are an original
  and two resumes. The proofs are for any file and number of loops.
- Video: three chunks are a first, a middle and a last; two requests at a time,
  room for two chunks, one ahead and one behind make every limit bite. Two
  streams are a close and a reopening, two seeks one that overtakes another. With
  loads of two or three chunks, two segments per chunk or nothing kept behind,
  the same properties hold; what `failed` and `gap` say of a lost load and of an
  early eviction was found there. The proofs are for all of these numbers.
- Session: two accounts are an earlier and a later user of the tab; two keys
  are one set-up repeated. `Together` are the sets of kinds of calls that are
  under way at once, besides refresh and logout: what may meet a login, and
  what begins from nothing. `Tokens` is one more than there are flows to carry
  them. `GoesOn = FALSE`: nothing new is begun after the tab has strayed,
  since nothing but `TokenIsUsers` is promised from then on; that one
  is proved without the bound.
- Drive view: a video with its proxy is where two rows must move together; two
  folders make a way and a tree; two tasks are a change and a load, or two
  loads. The video and the first folder have one id (`MCNumber`), as have the
  proxy and the second, since the tables count apart. `Starts` pairs what the
  server holds with what the user does then (`play`): methods that never meet
  in one state are not interleaved. `MaxTrail` and `MaxDrops` are two.
- Time passes for all rows at once. It only decides which rows the collector
  may take, and a row created after it passes is young again.
- Ids are given out once (`Unborn`, `Gone`), as `SERIAL` does. When they, or
  the calls a run allows, are used up, nothing may be left to do: this is why
  only the runs of the pool and of the ledger check for deadlock.

### Fairness

`DatabasePool`: a thread that can go on does (`WF` on its step), as the
scheduler guarantees. Nothing obliges the server to drop connections, the
library to wake threads without a reason, or the process to stop.

`ChunkUpload`: the loop of a session and the handler of its request go on
(timers and threads), and a collector's step is taken in the end, because the
thread of `main.cpp` runs it every 24 hours. Nobody has to start, pause,
resume or delete anything, no fault has to happen, and no time has to pass.
`SessionsEnd` therefore excludes paused sessions, and `OrphansSwept` relies on
the collector.

`UploadBatch`: a request is answered or fails, and the browser runs a
continuation that is ready: `WF` on the coordinator, the loops and the
continuations of single uploads. No click is fair, an answer to a dialog
included.

`Downloads`: the same, on the answers to requests and the end of a decryption.
`DownloadsEnd` says nothing of a paused transfer.

`Session`, `VideoStream` and `DriveView` have safety properties only. The
"settles" of `DriveView` are invariants of the states in which no task is under
way.

## 4. The proofs

| Theorem | Says | By |
|---|---|---|
| `DatabasePoolProofs!Typing` | `TypeOK`, and `Shape`: which of its connections a thread holds at each place | inductive as it stands |
| `DatabasePoolProofs!Unshared` | `NoSharedConnection` | inductive with `TypeOK` and `Shape`; `PopElements` and `PushElements` say what the queue operations do to the set of idle connections |
| `DatabasePoolProofs!NotLost` | `NoConnectionLost` | inductive with the above |
| `DatabasePoolProofs!NotBlocked` | `NotSelfBlocked`, if there are fewer nested threads than connections that can be opened anew | follows from `NotLost`: `FewNestedLeaveOne` counts the connections nested threads can hold |
| `DatabasePoolProofs!WakeupsKept` | `NoLostWakeup` | inductive with `ClosedIsEmpty`; `HandedOver` counts the wake-ups on their way |
| `DatabasePoolProofs!LeasesHonoured` | `Spec => LeasesKept`: the pool implements `ConnectionLeases` | each step lends, returns, loses, closes or stutters, given the invariants above |
| `StorageLedgerProofs!WithinQuota` | `TypeOK` and `QuotaNeverExceeded` | inductive as they stand; `TotalType` and `RefundedBounds` say that a refund is a natural number and never adds |
| `StorageLedgerProofs!FoldersReachable` | `LiveFoldersReachable` | inductive with `FoldersAgree`: what is below a folder in the trash is in the trash with it |
| `StorageLedgerProofs!FinishedFilesSurvive` | `LiveFilesSurvive`, an action property | per action, with `TrashHoldsTrash`: a folder that goes for good takes no live folder along |
| `StorageLedgerProofs!AccountBalances` | `BalancedSteps`, an action property | per action, with `NamesUnique`, see below |
| `ChunkUploadProofs!Typing`, `Recorded` | `TypeOK`, `CompleteMeansRecorded` | inductive with `Aimed`, `Asked`, `Counted`, see below |
| `ChunkUploadProofs!SuccessIsSaved` | `SuccessMeansSaved` | inductive with `AllRight`: what a session was told to skip, has passed and is told `ok` about is recorded; `ChunksKept`: no step takes a chunk of a row that stays |
| `ChunkUploadProofs!FinishedSpared` | `CollectorSparesFinished`, an action property | `WhoDeletes`: a row goes by phase 2, which selects anew, by a hard deletion of trash, or by a replacement; `ReplacersStay` |
| `ChunkUploadProofs!BytesStay` | `StoredBytesStay`, an action property | per action; `WritesKeep`: a chunk that is written again is not a hole |
| `ChunkUploadProofs!OneKeyPerFile` | `OneEncryption`, if there are no recoveries | inductive with `OneOwner`, `OwnNonces`, `UnbornIsEmpty`, `OfOne`, see below |
| `ChunkUploadProofs!CompletionDue` | `RecordedGetsComplete`, if no request fails | inductive with `Due` and `UnbornUnsaved`: some request under way still has to count or to mark |
| `ChunkUploadProofs!CompleteIsStored` | `CompleteMeansStored`, without collectors, failing disks and aborted deletions | inductive with `Written`: what is recorded, or about to be, is on disk |
| `UploadBatchProofs!UploadTypes` | `TypeOK` | inductive with the types of the reports; `WithoutThem` says what taking tasks out of a queue leaves |
| `UploadBatchProofs!DoneIsStored` | `SuccessMeansStored` | inductive with `LoopsRight`, see below |
| `UploadBatchProofs!PausedIsQuiet` | `PauseHolds`: no loop begins a request while its transfer is paused | an action property: per action, with the same invariant |
| `UploadBatchProofs!GroupsTellTrue` | `GroupsHonest` | inductive with `CountedAreGone` and `LaterAreNew` |
| `UploadBatchProofs!CoordinatorReports` | `Spec => ReportsOnce`: the coordinator implements `BatchReports` | each step begins an operation, reports a result, ends one or stutters, given `Sound` and `NotCalledYet`, see below |
| `UploadBatchProofs!EveryResultOnce` | an operation of the coordinator has as many results as candidates when it ends: `Adds` of `BatchReports` | inductive with `WaitsOnce` for the actions of `BatchReports`, which by the refinement are all that the coordinator does |
| `SessionProofs!TokensMatch`, `KeysAreWiped` | `TokenIsUsers`, `SignedOutIsWiped` | inductive together with `Nobody`, see below |
| `SessionProofs!SessionTypes` | `TypeOK` | inductive as it stands, flow by flow |
| `SessionProofs!OwnKeyOpens`, `FilesReadable` | `UnlockedWithOwnKey`, `FilesStayReadable`, if the flows that overlap are `Separate` | inductive together, see below |
| `VideoStreamProofs!StreamsFine` | the inductive invariant of the streams, until a seek within the buffer has ended one out of it | per function on a stream, then per action, see below |
| `VideoStreamProofs!ComesToPlay` | `NothingSkipped` | follows from `Coming` |
| `VideoStreamProofs!UpdatesOneByOne` | `BufferNotBusy` | follows from `NoneWaits`: who is at work of the generation is alone |
| `VideoStreamProofs!ChunksInOrder` | `FedInOrder`, an action property | follows from `Feeding` in the state before the step, and while a seek is prepared from `HInv`: what is left in the mail then is the one chunk that comes next, before the seek |
| `DownloadsProofs!PiecesTile` | the pieces of a file follow one another without gap or overlap, the last ends with it | arithmetic of `Start` and `PlainSize` |
| `DownloadsProofs!NoNonceTwice` | one encryption seals no two pieces under one nonce | `NoncesDiffer`: eight digits to the base 256 determine an index below 2^64; the metadata's index is no chunk's |
| `DownloadsProofs!AcceptsTheWhole` | `decryptFile` accepts a file of one byte or more exactly when all of it is there | the offset after each round of its loop, by induction over the rounds |
| `DownloadsProofs!DownloadTypes`, `WholeSaved` | `TypeOK`, `SavedIsWhole` | inductive with `Progress`: the first `index` chunks are there, in order, and `total` is their length |
| `DownloadsProofs!PanelTrue` | `PanelTellsTrue` | inductive with `Shown`: without an overlap at most one loop runs, and each status says which |
| `DownloadsProofs!CausesKnown` | `ErrorsHaveCauses` | inductive with `Going`: the range a loop asks for begins where the chunks it has end, and holds one that opens |
| `DownloadsProofs!WholeReads` | `WholeMeansReadable` | follows from `AcceptsTheWhole` in every state |
| `DriveViewProofs!DriveTyped` | `TypeOK` | inductive with the types of the tasks and with what `StorageLedgerProofs` shows of the server |
| `DriveViewProofs!ListFollowsServer` | `ViewSettles` | inductive with `ViewInv` and `NamedInv`, see below |
| `DriveViewProofs!ProxiesFollow` | `TwinsTogether` | inductive with `TwinInv` and `OneAsked`, see below |
| `DriveViewProofs!PinsFollowServer` | `PinsSettle` | inductive with `PinInv`: each pin that is waited for has one task, and a folder that is not waited for is shown as the server has it |
| `DriveViewProofs!ActsOnChosen` | `ActsOnPicked` | inductive with `PickInv` and `PointInv`: the numbers selected are those of the items picked |
| `DriveViewProofs!NamesStayHidden` | `NamesHidden` | inductive as it stands |
| `DriveViewProofs!DropsLandWhereMade` | `DropsLand` | inductive with `DropsInv`: until two drops meet there is one at most, and its folder is the one noted |

They hold for any number of threads, connections, lookups, files, folders,
names, sizes, sessions, chunks, loops, batches, accounts, phrases, loads,
streams, seeks, tasks, starts of the drive and overlapping collectors, and under every choice of faults and delays; the only
assumptions are those named in the modules (`PoolAssumption`,
`LedgerAssumption`, `UploadAssumption`, `BatchAssumption`,
`DistinctAssumption`, `SessionAssumption`, `VideoAssumption`,
`FormatAssumption`, `DownloadsAssumption`, `DriveViewAssumption`,
`StartsAssumption`): sets are finite where they are counted, the
markers for "nothing" are not values, and sizes are positive.

*Why an account balances.* The charge of a set of rows is a count of pairs of a
row and a byte, so that adding up needs no recursion (`CostEach`, `TotalMoves`:
a step moves the total by the charge of the rows that come and go). A refund is
exact when the account holds at least what its rows are charged
(`RefundBalances`), which is why `BalancedSteps` asks for nothing when it holds
less. A replacement refunds the one row it deletes: that there is only one is
`NamesUnique`, what the two unique indexes on `files` keep. Unlinking deletes
the rows of one provider and refunds them by counting (`UnlinkAccount`).

*Why `CompleteMeansRecorded` needs a stronger invariant.* A file is marked
complete by a request that counted earlier, in another transaction. The step
`MarkComplete` alone says nothing about the chunks. `Counted` says that a
request about to mark a file whose row still exists has all its chunks
recorded; that no step removes a chunk of an existing row keeps it true;
`Asked` says which chunk a request is about, so that recording it stays within
the file's chunks, and `Aimed` that a request under way has a target. The
count of recorded chunks reaches `total_chunks` only when all are recorded
because they are a subset of a finite set of that size (`AllChunks`).

*Why the last chunk completes the upload.* `Due` says of every unfinished row
with all its chunks recorded, in the trash too, that some request about it is
between recording and marking; a request that has recorded cannot be told
"not yet" by its count, since the count was taken after. It is preserved only
while no request fails in between. `Written` needs that nothing takes a chunk
of an existing row: without collectors, failing disks and aborted deletions
`ChunkStays`.

*Why a file is of one encryption.* A session that was given an id, or has a
request left, owns the file (`Owner`); `OwnersKept` and `BornForGood` show that
an id is given out once, so a file has one owner at a time (`OneOwner`), and
`UnbornIsEmpty` that a new owner finds nothing on disk. What is there is
therefore the last owner's (`OfOne`), whatever was retried, paused, replaced,
trashed or swept in between. A recovery breaks it: it is a second owner with a
nonce of its own, which is what the run `upload_new_nonce` shows.

*Why two loops on one upload do no harm.* A transfer becomes a success when the
loop that ends finds no chunk left. `LoopsRight` says of each loop, at each of
its places, that what it has passed or skips is stored and that a loop which is
done has seen all of it; it needs that `stored` only grows, whichever loop the
answer belongs to. That a loop which has not passed all chunks has a next one
is the well-ordering of the naturals (`LeastChunk`).

*Why groups tell the truth.* A transfer that was counted as cancelled must not
be in the list again (`CountedAreGone`). Only a submission lists transfers, and
what a submission has yet to list is new (`LaterAreNew`); the exception is the
second try of a video, and it is named (`retried`).

*Why the coordinator keeps its promise.* What is due to be reported is spread
over five places: candidates of later windows, of this window not yet taken up,
prepared, waiting in the queue, running. `Sound` says that these places do not
share a candidate and hold only what this window has taken up, so that each
result is reported when its candidate leaves the last of them (`DueIs`), and
that a window ends only when they are empty. That a queue without some tasks
(`Without`, the filter of `UploadQueue`) holds exactly the others is proved by
induction over its length. `NotCalledYet` says that the sums of an operation
begin at zero. By the refinement what is shown
of the actions of `BatchReports` (`CountStep`) holds of the coordinator
(`EveryResultOnce`).

*Why an open drive has the right key.* `VaultInv` follows six things at once:
which flows can run together (`OneByOne`), what runs while the application
starts (`Starting`), that who is shown has a token and a cookie of one session
(`TokenHeld`), which page shows whom (`Doors`), how lock, key and status agree
with the stored vault (`Opened`), and, for each flow that is still of this
session, what it has read and is about to write (`FlowsGood`); the last four
only until the tab has strayed. Of a user without claims `Opened` says nothing,
and needs not: no call of the vault begins without an e-mail, and no request is
accepted with such a token. The theorems are about overlaps that
are `Separate`. The hypothesis is needed: when a login, a registration and a
verification of one tab overlap, a drive can be left locked with a user who has
no vault yet, and a request that is refused beside a repeated set-up locks it
between two keys. The login page disables its form while it waits, and a set-up
is a page of its own, so that a user does not get there; TLC evaluates
`Separate` for the calls that `session_holds` interleaves.

*Why a token never belongs to another user.* `jwtToken` and the user are
written in different places, but in one continuation. `TokenIsUsers` is
inductive because a refresh takes a user only together with a token. That a
logged-out tab has no key needs `Nobody`: when nobody is shown, the set-up, the
only call that puts a key into memory without a user's answer, is off or has
outlived its session, and a key that a failed refresh leaves is noted in
`strayed`.

*Why nothing of a video is skipped.* A promise about what the decoder gets next
needs all that leads there: who is at work, for which generation, and what each
load has still in hand. `AllFine` says of all streams that only one is live, the
one begun last (`Sole`), and of each stream `Fine`:

- `Working`: of each generation only the first task is at work (`OneAtWork`);
  what remains of older generations is past the checks that would end it
  (`Leftovers`); the update of the `SourceBuffer` belongs to a task that is
  there or to the seek of this generation (`Owned`); while a seek out of the
  buffer is prepared nothing else is loaded (`Preparing`).
- `InTurn`: the loads in line are of consecutive chunks, up to `next`.
  `Feeding`: the transmuxer has been given what comes before the first load, or
  the chunk that this one has in hand. Both hold until a load fails.
- `Coming`: from the playhead to `next` every chunk is buffered or in a load,
  and no eviction reaches it. It needs `InTurn`, since a load that ends hands
  over to the one behind it, and that an eviction of what has been played stays
  behind the playhead as long as this only goes forward: a seek within the
  buffer may go back, which is why `gap` asks for that, too.
- `NoneWaits` and `Evicting`: no task waits for the buffer unless a seek has met
  an append, and an eviction that has begun has its update.

The actions are made of functions on one stream (`ScheduleNextChunk`, `Drops`,
`Ticks`, `Appends`, `Cleared`, `Updated` and others), so each has a lemma of
its own, and the actions follow from these. What a queue is after some of its
tasks have gone (`Kept`), and after scheduling again and again
(`SchedulesAhead`), are proved by induction over the naturals.

*Why a download ends only with a cause.* A range that the loop asks for begins
where the chunks it has end (`Going`), which is a place where a chunk begins,
and is a range that the server answers; the header and the metadata are within
the first range because `Window <= MaxRange`. So what arrives opens, unless the
file is cut short or another loop has moved the index. That the whole-file
reader agrees, `AcceptsTheWhole`, is an induction over the rounds of
`decryptFile`: after round n the offset is where chunk n begins.

*Why the list is the server's in the end.* `clock` counts the changes of the
server, and a copy remembers the one it was read at. `ViewInv` says that from
some change on every copy, shown or on its way, that is not older than it is
what the server has (`FreshFrom`), and that such a copy is shown or a load of
the tree is still to come (`Due`). Each method of `DriveStore` that changes what
the tree shows ends in `loadTree` (`Reloads`; `ItemPlans`, `BatchPlans` and
`RestorePlans` check this of each), so that a change moves this point to itself
and leaves a load due, and a change of the trash alone does not move it
(`TreeStays`). That a proxy found on the way gets a request of its own is
`TwinOnward`. Without a load that is overtaken the copy shown is never older
than the one it replaces (`ShownFresh`). The lock and the unlock change names
only (`UnnamedTree`), and while the drive is unlocked names that are not shown
are being read (`NamedInv`). What a request does to the storage is proved once,
in `StorageLedgerProofs`, and used through an instance (`LedgerKeeps`).

*Why a proxy ends where its video is.* No request takes both but the batches
into the trash and for good, so that between two requests a pair is apart.
`TwinInv` says of each pair that it is together, or that exactly one task still
owes the request for the proxy (`OwesIt`), and that this request finds what it
needs to bring the two together again (`Ready`: for a rename, say, that both are
in one folder and the new name is the video's; for a restore, that the video came
to where the proxy's row points). Every task is in one of few forms (`Regular`):
it is about neither of the pair or about both at once (`Quiet`), a method for the
video whose step for the proxy follows (`Opens`), a batch that restores both, the
video first (`Restoring`), or one of these past the video's request. A request
about other files or about folders leaves the two alike or moves them alike
(`FileEffects`, `FolderEffects`, `PairedKept`); the pair's own requests lead from
one form to the next (`VideoAsked`, `ProxyAsked`, `PairRequest`); one that comes
in between, of another task, is what `crossed` notes (`NotCrossed`). A step that
looks for the proxy and does not find it is noted in `strays`, else it becomes
the request that is owed (`TwinSeen`, `PairFound`). That what the user asks for
starts in one of the forms rests on the flags (`ItemsStart`, `BatchesStart`), on
`OneAsked`, a dialog for one item being about one, and for the batch that
restores on every item having its turn (`AllTurns`, by counting) and each video's
coming before those of its proxies. Of the constants it uses that no file belongs
to two pairs and that each pair is together when the page is opened.

*Why the pool cannot be exhausted by its own users.* `NotBlocked` is where the
code's safety margin appears as a hypothesis:
`Cardinality(Nested) < Cardinality(Conns \ Unreachable)`. The server does not
enforce it.

Checked by TLC and not proved. Liveness, which is beyond the prover:
`AllServed`, `ShutdownFreesWaiters`, `SessionsEnd`, `OrphansSwept`,
`OperationsEnd`, `DownloadsEnd`. Every other property of a run is stated by a
theorem, three of them in a setting: `CompleteMeansStored` holds in that of
`upload_races`, without collectors, failing disks and aborted deletions,
`RecordedGetsComplete` without failing requests, `OneEncryption` without
recoveries, all as proved.
Recursive functions and folds over data are computed by TLC; where a theorem
needs one for every input, it is stated with sets and proved by induction over
the naturals (`LeastNat`, `SetInduction` and the library's
`NatLessThanWellFounded`).

Proved and in no run: `PauseHolds`, `NotSelfBlocked`, `NoConnectionLost`,
`PiecesTile`, `NoncesDiffer` and
`NoNonceTwice`, `AcceptsTheWhole`, and `Adds` of `BatchReports` by
`EveryResultOnce`.

## 5. What is left out

Abstracted:

- Names of folders, contents, exact sizes but for the file format: no other
  property depends on them.
- The cipher, key derivation, signatures: which key opens what is in `Session`
  and `KasumiFormat`, the algorithms are libraries.
- In `ChunkUpload` the quota and folders (they are in `StorageLedger`), in
  `UploadBatch` the server (it is in `ChunkUpload`).

Not modelled:

- *Folder tree by statements.* `StorageLedger` and `DriveView` run each request
  in one step. That two moves may close a cycle (`FolderManager.cpp:502`), that
  a folder may be created under one that is being trashed
  (`FolderManager.cpp:141`), and that `currentPath` then does not end, is listed
  as a hazard without a property.
- *Positions of pins* on the server and their normalisation
  (`FolderManager.cpp:951`); `reorder` is called by no component.
- *Server sessions* (`AuthService.cpp:276`, `293`), *rate limit*
  (`RateLimitMiddleware.hpp:157`: a ban is returned before it is stored) and
  *Google key cache* (`GoogleJwksCache.cpp:78`): small and independent of all
  other state; the effect of the first on a tab is in `Session`.
- *Google accounts* beyond charges and nested lookups: OAuth states, token
  cache, the queue of deletions (`GarbageCollector.cpp:144` forgets one when
  the lookup throws) and unlinking in two stages (`GoogleDriveService.cpp:505`).
- *Shared links* beyond the download: rotation, limit, revocation at Google
  (`FileManager.cpp:460`).
- *Collector thread, shutdown, detached runs* (`main.cpp:100`,
  `ApiRouter.cpp:31`): the waits of the C++ runtime at the end of the process.
- *Conversion of videos before an upload*
  (`video-transcoder.service.ts`), e-mail, storage of pictures, request parsing,
  templates and styles, the image viewer: sequential, libraries, or without a
  property. The image viewer and the page of a link fetch whole files, which the
  server refuses above 4 MiB; `Downloads` has that of the link.

## 6. Plan

Done: the pool, the ledger, uploads of both sides, batches, downloads and the
file format, video, the session, the drive view, two abstract specifications.
The configurations are a dozen on purpose; what follows replaces or joins them.

1. `FolderTree`: the statements of `update_folder`, `create_folder`,
   `batch_create_folders` and `delete_folder` as steps of their own, since
   only some of them take the advisory lock. Acyclicity under the lock.
2. An abstract upload: a file that appears complete or not at all, implemented
   by `ChunkUpload`.
3. `ExternalDeletions`: the queue of deletions, two-stage unlinking and the
   collector's third phase, composed with the pool by its nested lookups.
4. `ServerSessions`, `ShareLinks`, `JwksCache`, `RateLimit`, `CollectorThread`.
