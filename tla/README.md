# Nobsidian in TLA+

Nobsidian keeps an Obsidian vault and a Notion workspace in step. Its core (`src/packages/core`)
runs inside two programs, the command line `nobsi` (`src/packages/cli`) and an Obsidian plugin
(`src/packages/obsidian-plugin`), which may both work on one vault. This directory models the
parts of it that are hard to test: what happens when people edit both sides while a sync is going
on, when a request is lost or a process dies half way, and when several processes or timers meet.

Contents

1. The system
2. The modules and how they correspond to the code
3. The runs, what they show, and their bounds
4. Fairness
5. What the code does not do (findings)
6. What is proved, from what, and how
7. What is only model-checked, and what is not modelled
8. Plan

To repeat the checks, for each row of this table and each configuration in it
`tlc -config <configuration> <module>`:

| Module | Configurations | What it instantiates |
|---|---|---|
| `MCNoteSync` | `NoteSyncSafety`, `NoteSyncLive`, `NoteSyncStat`, `NoteSyncTitle`, `NoteSyncOwnWrite` | NoteSync |
| `MCInterruptedCreate` | `InterruptedCreate`, `InterruptedCreatePull` | InterruptedCreate |
| `MCStateFile` | `StateFileCrowded` | StateFile |
| `MCRemoteScan` | `RemoteScan` | RemoteScan |
| `MCConflict` | `ConflictMarks` | ConflictResolution |
| `MCWatchAndFile` | `WatchAndFile` | WatchSync and StateFile, with their liveness |
| `MCMachines` | `Machines` | LocalMoves, ConflictResolution, RowColumns, PluginSync, NotionRequests, FolderPages, safety |

The last two explore several machines that share nothing in one run: a variable `on`, chosen in
the initial states, says which machine moves, and the others stay in their initial state. A
property of one machine is then checked in exactly the states that machine reaches by itself.

The proofs: `tlapm M.tla` for `NoteSyncProofs`, `WatchAndFileProofs`, `RemoteScanProofs`,
`InterruptedCreateProofs`, `LocalMovesProofs`, `RowColumnsProofs`, `PluginAndRequestsProofs` and
`ConflictAndFoldersProofs` (the last two, and `WatchAndFileProofs`, hold the proofs of two machines
each). `PROJECT.json` lists the runs, for every definition the lines it stands for, for every
property a mutation of the code it catches, and the hazards with the properties that cover them.


## 1. The system

### 1.1 Parts, their state and their operations

Paths are relative to `src/packages/core/src` unless they say otherwise.

| Part | State it keeps | Operations | What makes it correct |
|---|---|---|---|
| Remote observation (`sync/remote-observation.ts`, `sync/run-observation.ts`) | in a row: Notion's edit time, its last editor, when we saw them, the fingerprint of the body | judge a page unchanged, record what was seen | a page it calls unchanged is unchanged |
| Note sync (`sync/page-puller.ts`, `sync/page-pusher.ts`, `sync/remote-drift.ts`, `sync/update-journal.ts`, `sync/conflict-detector.ts`, `sync/change-detector.ts`) | the row of a note: hash and text of the last sync, file stat, fingerprint, status; an open update in `pending_operations` | pullUpdate, pushUpdate, the scan of the vault | no edit is lost without being announced, no false conflict, no edit stays unseen, both sides become equal |
| Creating pages (`sync/page-pusher.ts`, `sync/interrupted-sync.ts`) | a placeholder row, an open create in `pending_operations` | pushCreate, recovery at the start of a push, adoption | one page per note, however often the create was interrupted |
| State database file and its lock (`state/state-lock.ts`, `state/state-db.ts`, plugin `state/state-db-file.ts`, `state/sqljs-state-db.ts`) | `sync.db`, its `-wal`, the lock file; the plugin's copy in memory | acquire, take over, release; load, flush, close; open, commit, close | one opener at a time, no written record is lost, no dead lock stays |
| Watch (`watcher/watch-sync-service.ts`, `watcher/file-watcher.ts`, CLI `commands/watch.ts`) | pending paths, debounce timer, periodic request, sync in flight, abort | file event, timer, periodic tick, sync returns or throws, stop, forced exit | every change is synced, nothing waits without a cause, stop is final |
| Remote scan (`sync/remote-detector.ts`, `sync/remote-scan.ts`, `sync/pull-watermark.ts`, `sync/deletion-sweep.ts`) | watermark, kind of the last scan, cursor of the sweep | full scan, incremental scan, advance of the watermark, sweep | every change is received, the watermark passes none that is not, a page that is gone is noticed |
| Remote deletion, moves, renames (`sync/remote-deletion.ts`, `sync/remote-moves.ts`, `sync/remote-renames.ts`, `sync/note-relocation.ts`) | rows, vault files | remove, move, rename a note after its page | no unsynced edit is removed, no note is removed whose page lives |
| Conflict resolution (`sync/conflict-workflow.ts`, `conflict/resolver.ts`, `conflict/merger.ts`) | rows in state conflict, the list shown | list, resolve, propagate or reopen, clear | a choice destroys only what the person who chose had seen |
| Orchestrator (`sync/orchestrator.ts`, `sync/operation-gate.ts`) | one operation at a time, abort signal | sync, pull, push, two passes over what failed | pull before push, one failed item does not stop the others |
| Plugin scheduling (plugin `sync/sync-controller.ts`, `main.ts`, `vault-adapter.ts`, `connection/connection-engine.ts`) | operation running, pending vault sync, debounce, engines | vault event, interval, commands, re-initialise, shutdown | as the watch, and no engine is used after it was closed |
| Local planner, moves (`sync/local-planner.ts`, `sync/local-moves.ts`) | rows, files | scan of the vault to creations, edits, moves and deletions | a moved note is not a deletion and a creation |
| Database columns (`sync/database-syncer.ts`, `sync/schema-follow.ts`, `sync/schema-push.ts`, `sync/frontmatter-merge.ts`) | the schema ledger (`db_schemas`), the base snapshots of the rows | follow the columns' renames and removals into the notes, refresh computed values, rename columns after keys, send cells | no value is lost in a rename from either side, every note shows its row |
| Folders (`sync/folder-placement.ts`, `sync/folder-container.ts`) | rows of folders and of folder notes; in a push, the folders without a page | prepare the folders of new notes, adopt a folder's page for its note, place a note | one page per folder and note, every note below its folder's page |
| Making and moving rows, link passes, attachments, views | rows, upload ledger | link rewriting, uploads | see `PROJECT.json`, components |
| Conversion (`converter/`, `notion/block-builder.ts`) | none | Markdown to blocks and back | text only; the models use that what is sent is what the fingerprint is of |
| Notion client (`notion/client.ts`) | slots, the schedule, the rest after a rejection, the memory of the block limit | a request: slot, place, retries, deadline | requests keep the schedule; what must not be applied twice is not |
| Configuration, audit, other commands, plugin views | settings; nothing | load; compare; display | not modelled |

### 1.2 How the parts interact

A **sync** is a call of `SyncOrchestrator.sync`: a pull (scan Notion, apply every change with
`pullUpdate` or `createPulledPage`, then follow deletions, advance the watermark) and then a push
(recover what an earlier push left open, scan the vault, apply with `pushCreate` and `pushUpdate`
in a pool of workers; what failed is tried once more). `OperationGate` admits one operation per
process. All of them read and write the rows of **`sync.db`**; between two requests to Notion
anything may happen to the file, the page and the process. Syncs are started by the **watch**
(file events through a debounce, an interval), by the **plugin's controller** (vault events, an
interval, commands), or by one CLI command. The plugin and the CLI are different processes, so
`sync.db` itself is guarded by a **lock file**; the plugin holds a copy of the database in memory
and writes the whole file, the CLI writes a WAL file that is merged when it closes. Notion is
shared with people, who edit pages while any of this goes on, and it answers with edit times that
have no seconds and a search index that lags.

### 1.3 What is hard

* *Reads that are stale when used.* A page is judged by its stamp, read, decided about, and
  written over; a file is hashed, sent and recorded; between any two of these someone may write.
* *Requests with unknown outcome.* A create or an update may have reached Notion although no
  answer came.
* *Death between two steps.* Row, journal and Notion are three stores without a transaction.
* *Coarse clocks.* Notion's minute, the device's milliseconds, and a skew between the two.
* *Several openers.* A plugin whose window is reloaded, an Obsidian that crashed, commands in
  terminals.
* *Several causes of one sync.* Timers, periods, file events the sync itself causes, and a stop.
* *Identity.* A vault has paths and Notion has ids: a note that was renamed, and a column or key
  that was, must be recognised as the old one, by comparison with what was last seen, while names
  are given up and taken again.
* *A person in the middle.* A conflict is shown, thought about and answered; the file and the page
  go on changing meanwhile.

`PROJECT.json`, *hazards*, lists each of these at the line where it bites.


## 2. The modules

### 2.1 RemoteObservation

Pure operators over stamps. `IsSettled`, `Changed`, `OnlyBotWrote` are `isSettled` and the
branches of `compareRemote`; `Unchanged` is `RunObservation.verdict`; `Observe` is what `fieldsOf`
and `record` put into a row. Time is in minutes (`EDIT_TIME_RESOLUTION_MS`), the margin for skew
(`CLOCK_SKEW_MARGIN_MS`, sixty seconds) is one minute. `Unknown` is an editor Notion did not name,
`NoPrint` a row without fingerprint, `NoText` a row without text. A fingerprint is the body
itself: two bodies have one fingerprint only if they are equal.

### 2.2 NoteSync

One note linked to one page, and the two operations on it, request by request.

| Variable | Code |
|---|---|
| `remote` | the Notion page: body, what is outside the body, `last_edited_time`, `last_edited_by` |
| `local`, `fresh` | the text of the file; whether its mtime and size are those in the row |
| `rec` | the row of `sync_state`: `base` is `content_hash` and `base_snapshot`, `edited`/`by`/`seen` the observation, `print` the body fingerprint, `status` |
| `journal` | the text of an update left open in `pending_operations` (`UpdateJournal`) |
| `run`, `page`, `text`, `settles`, `phase` | the local variables of the run that is going on, and where it is |
| `minute`, `strategy` | Notion's clock; `config.sync.conflictStrategy` |
| `made`, `spared` | ghost variables: the edits people made, and those whose loss is announced or due to a race no API can close |

A text is the *set of edits it contains*; that is what the properties distinguish. `pullUpdate` is
`PullGetPage` (getPage) - `PullGetBody` - one of the `Decide` actions (the file is read and the
branches of `resolvePullConflict` taken in one uninterrupted stretch) - `PullWrite` - `PullStore`,
or the pair for a merged file. `pushUpdate` is `PushRead` - `PushLive` (getPage and the judgement
by stamp) - `PushDrift` (fingerprint) - `PushBody` - `PushTitle` - `PushStore`. Code, synced
references and media (`late`, any part of the body) are sent as place holders and filled in
afterwards (`PushFill`). Then, or when the answer to the body was cut, the page is read again and
its fingerprint taken from that (`PushReread`); if the filling fails, the page is read and recorded
too before the push gives up (`FillFails`, `SalvagePage`, `SalvageBody`). `RequestFails` is
a request that did not arrive, `PushBody` and `PushTitle` may succeed and yet fail for the caller,
`ItemFails` is the second pass, `Crash` ends the process. `Tick`, `HumanEdit` and `LocalEdit` are
the environment.

`spared` makes "no edit is lost" meaningful: an edit is excused when the strategy announces its
loss (local-first and remote-first overwrite), when it lands between the last read and the write
that destroys it (neither the vault nor Notion has a compare-and-write), and, if
`OwnWriteExcused`, when the code's rule about its own interrupted write explains it. That
excuse is off in the run NoteSyncOwnWrite, which shows what it hides. `RereadExcused` excuses what
a push reads back with its own write: a person's edit made between the body and the second reading
is in the recorded fingerprint and nobody has received it. A pull still brings it while the note is
as it was sent; once the note was edited, a pull has nothing to take and the next push overwrites it
(section 5).

Simplifications: decorations (icon, cover, properties) are edits outside the body, sent with the
title; the strategy `duplicate`, which ends in the same conflict state, is not distinguished from
`manual`; titles are sets of edits like bodies, so a run that merely compares them
over-approximates; a place holder is filled in where it stands, so filling it in adds to the body and
takes nothing away; the requests that fill in several are one step; attachments of a folder, whose
push also records a fingerprint read later (`orchestrator.ts:471`), are left out; a request whose deadline passed does nothing later (see the hazards).

### 2.3 InterruptedCreate

Notes that have no page, the push that makes pages for them, the recovery that follows an
interrupted one, and the pull that may meet the pages in between. `row` is the row of each note
(none, `placeholder`, `mapped`, `adopted`, `synced`, `conflict`), `op` its open create in
`pending_operations`, `pages` the children of the Notion parent in listing order, `copies` the
pages a pull turned into new notes, `at` and `cand` the position and candidates of the note's
worker. A push is `StartPush` - `Recover...` for each open entry (map known, adopt an orphan, or
nothing found: drop the placeholder) - `StartPool`, then the workers `BeginCreate` -
`ListChildren` - `GetTrashed` - `Adopt` or `CreatePage` - `MapPage` - `FinishPage` (or
`UpdatePage` for an adopted one) side by side, then one retry pass. A pull (`StartPull`) visits
every page: `PullRelink`, `PullCopy`, `PullUnsettled`, `PullUnchanged`. People make pages of the
same title and trash untracked ones; `Crash` kills the process anywhere; `CreatePage` may lose its
answer.

All notes and pages of the model share parent and title, since only those can meet
(`findChildPageByTitle` compares both). The strategy is taken to be manual where an adopted page
and its note differ, and whether a pull finds an unsettled page unchanged is left open. Requests
that arrive after their deadline and a second process (kept away by the lock, 2.4) are excluded.

### 2.4 StateFile

The lock file and the two ways to write `sync.db`. `lock` is the lock file as a system call sees
it (free, empty, held, and whether its owner is gone), `looking` the openers whose read of it is
still current (`readHeld` ... `removeIfUnchanged`), `at` where each opener is, `db`/`wal`/`paired`
the files, `fresh` the plugins whose stamp of the file still holds, `attached` the commands whose
descriptor is the file that has the name, `copy`/`out` the plugin's memory and what it last
exported, `durable` the records that reached the disk. Each action is one system call or one
uninterrupted stretch: `CreateLockFile` (open with `wx`), `FillLockFile`, `ReadHeld`,
`CompareHeld`, `RemoveHeld`; `LoadCopy`, `Change`, `Flush` (which checks `MayWrite`,
`assertCurrent`), `ReplaceFile` (rename), `StampFile`, `PluginClose`; `OpenDatabase`, `Commit`,
`CloseDatabase`; `Release`, `Unlock`. `Crash` ends any process, `ReloadWindow` is Ctrl+R in
Obsidian, which keeps the PID and so leaves a lock that only its own restart recognises as dead
(`processContext`), `TwoMinutes` makes an empty lock file old enough to be abandoned.

`Crowded` says whether two openers may be at the removal of one dead lock at the same moment. All
openers run on one machine; PIDs are not reused; taking over a lock of another PID scope after two
minutes of silence, and the heartbeat that prevents it, are left out; a refused opener gives up
and comes back (the five attempts are not counted). Records the plugin has not flushed (it flushes
every five seconds) may be lost in a crash by design; `RecordsKept` is about `durable`.

### 2.5 AutoSync and WatchSync

`AutoSync` is the promise of an automatic sync, whichever program makes it: a change asks for a
sync (`Want`, `WantAll`), one sync at a time takes everything that was asked for (`Take`), a sync
finishes or gives back what it took, a stop forgets what was wanted, after `Close` nothing moves.
`WatchSync` is `nobsi watch`: one step is one JavaScript callback up to its next await. `pending`
is `pendingChanges`, `debounce` the debounce timer, `queued`/`full` are `syncQueued` and
`fullSyncQueued`, `inFlight` the sync (all, batch, aborted, returned: the orchestrator's promise
has settled and the continuation has still to run), `proc` the command (up, closing, waiting,
closed, killed). `HandleFileChange`, `DebounceFires`, `RequestFullSync`, `SyncReturns`,
`SyncThrows`, `Resume`, `Stop`, `WatcherClosed`, `Close`, `ForcedExit` are the callbacks of the
service and of `watchCommand`; `LocalEdit`, `RemoteEdit`, `Report` (chokidar delivers an event)
and `SyncItem`, `ItemFails` (the orchestrator inside a sync) are the environment. A sync's own
writes are reported like a user's (`FileWatcher` cannot tell), so `SyncItem` causes events too.

`WatchSync` implements `AutoSync` with the mapping `Doing` (what the running sync has taken); this
is the property `KeepsItsPromise`.

### 2.6 RemoteScan

How a pull finds out what happened in Notion, and what it writes down when it is done:
`RemoteDetector`, the traversal and the searches of the client, the deletion sweep,
`RemoteMoveFollower`, and `executePull` from the choice of the scan to `finalize`. `parent`,
`edited`, `trashed` are Notion, `shown` what its search knows; `seen`, `under`, `lastPull`,
`cursor` are the rows, `last_pull_at` and `deletion_sweep_cursor`; the rest is the pull under way
(`toList` the nodes the traversal has still to read, `heard` what a listing or a search showed
alive, `toAsk` the tracked pages to be asked for one by one, `due` the changes found, `doomed` the
deletions found). One step is one request, or what runs between two: `StartFull` or
`StartIncremental`; `ListNode`, `SkipNode`, `SearchInstead`, `Compare` (full) or nothing
(incremental, where the search is one step); `Ask`, `Judge`, `AskBelow`, `SweepDone`; `Receive`,
`Remove`, `TakeChild`, then the retry of what failed; `Finish` with the new watermark. `AskFails`,
`ItemFails`, `ChildUnread`, `Cancel` and `Abandon` (death, or an error that ends the pull) are the
faults; people `Create`, `Edit`, `Move`, `Trash` and `Restore` pages; `Index` and `Tick` are search
and the clock.

Ghosts: `wasOut` are the pages outside the vault at some time since the pull began; `hidden` and
`fresh` those no incremental search will show: a page below a parent that could not be read
(`remote-detector.ts:576`), one moved in or restored with an old edit time, one a skipped node hid
from a full scan, and one behind the watermark that a pull had in hand when it was cut off
(`LeaveBehind`): a cancelled pull forgets what it read only in a body, one that dies also the changes
it detected. The properties exempt exactly these, so a change that is missed for any other
reason violates them. The last was found by the attempt to prove `WatermarkPromise`, which is false
without it from three pages on (section 5).

Simplifications: the strategy is remote-first (what the others do with one note is NoteSync's);
a note's move takes place (two notes moved to one path are not modelled); search is atomic over
its pages; `Lag < Window` is assumed, what search indexes later than the fifteen minutes is lost
to incremental pulls by design.

### 2.7 LocalMoves

Notes renamed, moved and edited in the vault while a push runs: the scan of the files, the pairing
of a tracked path without a file with a file without a row (by the plugin's rename hint, by equal
text, or by similar text), the plan, its adoption into the state DB together with an operation that
remembers the last place known to Notion, and the push that moves the page, sets its title and
closes the operation. `where`/`version` are the vault, `hints` the rename hints (`hinting` is TRUE
in the plugin, FALSE in the CLI, which hears of no renames), `onNotion` the pages, `tracked` the
rows with their open move (`origin`), `listing`, `plan` and `tasks` the push under way. Steps:
`ListFiles`, `MakePlan`, `Adopt`; `PushCreate`, `PushUpdate`, `PushDelete`; for a moved note
`StartMove`, `MovePage`, `SetTitle`, `StoreMove`, `SendMoved`; `Misses` (a failed request, tried
once more), `PushDies`; people rename, edit, create and delete at any of them.

Ghosts: `severed` are notes whose history the scan cannot know: in the CLI, a note renamed and
edited at once; a note that comes to a path the state DB still holds for another, or where a push
is about to create a page, or from where another note was renamed by a hint that still stands (and
that other note); one renamed between the listing of the files and the reading of the hints, or
from or to a path where a note is about to be adopted. `torn` are pages whose note was renamed
again while a move was half done. `calm` is TRUE while nothing changed and nothing failed since
the last push began.

Simplifications: the pages of folders exist (FolderPages has what creates them); a title is a file
name; notes with a title in the frontmatter, rows of databases and the following of remote moves
are left out; `deleteSync` is on; the requests of one create, update or delete are one step here,
as they are NoteSync's and InterruptedCreate's matter; mtime and size distinguish texts (NoteSync
has the case where they do not); which of several similar texts is the partner is left open.

### 2.8 PluginSync

The plugin: the engine of the vault and one for each folder with a connection of its own, their
controllers, the timers they share, and the promise chain `initializing` that opens and closes
them. The window runs one callback at a time, up to its next await: a step. `ready`/`base` are the
controllers and the state DBs, `op` is `active`, `again` is `vaultSyncPending`, `timer`/`waiting`
the debounce and its queue, `clock` the interval, `jobs` what is left of the chain. Actions:
`UserRuns` (sync, pull, push, status), `ClockTicks`, `EditsNote`, `DebounceEnds`, `Writes` (the
adapter's own write and its event), `Ends`, `EndsAndAsks`/`Answers` (the question about `.base`
filters), `TogglesAutoSync`, `Reconnects`, `Unloads`, and the jobs of the chain (`CloseBegins`,
`CloseEnds`, `CloseFails`, `OpensBase`, `MakesController`, `OpenFails`, `SetsClock`). `accepted`
is a ghost: edits that called for a sync, and none has begun since.

Simplifications: one note per engine; what an operation does is the matter of the other modules,
so an operation may end at any time, a cancelled one too; edits made while an engine is not ready,
or within the window of the adapter's own write, are left to the periodic sync, as in the code;
reloading the plugin is a new start; mobile is left out; the state DB of a folder that cannot be
closed keeps its lock until the window ends.

### 2.9 ConflictResolution

A note in conflict, from the listing to the answer in Notion, and what people do to file and page
in between. A text is the set of edits it holds, and `Marks` are the conflict markers a merge leaves
in it. `note`, `copies`, `page`, `rec` are the file, its `.conflict` copies, the page and the row;
`list` is the Conflict that was listed, the answer and what is sent; `stage` is where the resolution
is: `ListsFile`, `AsksPresence`, `ReadsBody`, `ClearsStale` or `LeavesIt`, `Chooses`, `Untracks`,
`CreatesAgain`, `WritesRemote`, `WritesMerged`, `WritesCopy`, `Stores`, `ReadsFile`, `Sends`,
`ReadsBack`, `RecordsSent`, `Fails`, `AnswerDies`; in the direction that only receives, the two
requests of `recordRemoteSeen`: `SeesLater` or `SeesListed` for the stamp, then `RecordsSeen` for the
body. A pull and a push between resolutions are one
step each (`PullsPage`, `PullsDeletion`, `PullsNone`, `PushesNew`, `Pushes`): nothing runs beside a
resolution, and their own steps are NoteSync's.

Every edit has a place, or a reason it went: the ghost `gave` holds the edits given up, by cause
(the *choice*; the *trash*; a *race* between the read and the write; two edits of one *minute*; an
edit *between* the two requests of `recordRemoteSeen`; one *reread* by a push with what it sent; the
*marks* of a merge nobody cleaned; a *death* between storing and sending; an edit the record
calls *seen*). `NoEditLost` is that there is no other way. The causes the code accepts are in the
comments of the source; those it denies are finding 6 and the observations in section 5.

Simplifications: one note, strategy manual; edits only add; a person does not delete the file or
take the page out of the trash; `push --force`, the update journal, rows of databases, a null base
snapshot and the previews are left out. The resolver's writing of the file and its storing of the
row are two steps. Time is Notion's minute.

### 2.10 NotionRequests

The gate every request to Notion passes: a slot of the semaphore, a place in the schedule (at
least `minRequestInterval` apart), the rest everyone takes after a rejected request, the retries
with their backoff, and the memory that the workspace takes no more blocks. A call is one use of
the gate, a step lasts up to its next await: `Starts`, `Acquires`, `Rested`, `GoesOut`, one of
`Succeeds`, `Rejected` (429, with a Retry-After or without), `NoAnswer` (timeout, 5xx: applied or
not), `Refused`, then `Retries`. Timers may fire late, never early. `asked` and `places` are ghosts:
until when a rejection asked for quiet, and the places requests went out from.

Simplifications: a place that is due at once is waited for in a step of its own (one interleaving
more than the code has); failures of a code the client does not know end the call as *lost*; who
gets a free slot is left open; the fifty methods that use the gate, and paging, are left out.

### 2.11 RowColumns

The columns of one database and the frontmatter keys of its row notes. `schema` and `cells` are
Notion, `notes` the vault, `synced` the base snapshots and `ledger` the `db_schemas` row: the
columns as the last pull saw them, by id. A pull is `PullStarts` - `PullQueries` - `Rekeys` and
`RecordsKeys` for each row (`followSchema`: carry renamed and removed columns into note and
snapshot) - `FollowEnds` - `PullsRow` for each changed or refreshed row - `PullEnds`. A push is
`PlansPush` (read renamed keys out of the changed rows) - `RenamesFirst`, `RekeysSnapshot`,
`NextRename` - `SendsRow`, `RecordsRow` - `PushEnds`. Rows, requests and the process fail at any
step (`RekeyFails`, `RowFails`, `RenameFails`, `SendFails`, `RunDies`). People type and delete
values, edit cells, rename and remove columns, change formulas, and rename a key in Obsidian, which
rewrites one note after the other (`StartsRenaming`, `RenamesNext`). A planned rename holds the
records of its rows as they were read for the plan, and it is these that `RekeysSnapshot` rekeys and
writes back, as the code does: the second rename of one push gives the first its old key back in the
snapshot (`OldRecord`).

A value is a token, the column it was written for and when, so that it can be recognised wherever it
is carried. The ghost `kept` are the values written that nobody deleted or replaced, `gone` those
given up, by cause: *unseen* (a push replaces a cell it had not seen change), *unheard* (a push has
no column to send a value to, and records the note as synced), *squeezed* (two keys become one),
*taken* (a column takes the name of a key of the user's own), *twice* (the value stands in one note
or row twice and is not told from its copy), *cut off* (a death comes between the writing of a note
whose keys were carried along and the record of it). `halfway` are the rows that a pull which failed
or died carried along to names the ledger does not have. `behind` are rows that may not show their
page until it is received again: those whose own keys stood in a column's way; that were unsent,
failed or left when values were refreshed; that met a renaming from the other side; that are
`halfway` when a column is renamed once more, or were carried along when a column got the name of
another; those a pull read under one request's names and carried along by the other's; and those
whose snapshot was rekeyed from an old record.
`undisturbed` says that nothing happened beside the last pull.

Simplifications: a note is its frontmatter; one data source; strategy manual; rows are not made,
deleted or moved; `.base` files and sidecars are left out; stamps are the set `edited` of rows whose
stamp does not prove that they are as last seen.


### 2.12 FolderPages

What gives a folder its page while new notes are pushed. `inVault` is the vault, `made` all pages
ever made, in the order a parent lists them and with what each was made for, `pageId` and
`openCreate` are the rows and the open creates, of notes (`File`) and of folders that have a page of
their own (`Alone`). `PageAt` is `folderContainer`: the page of the folder note, of the folder
alone, or of the note beside it; `ParentOf` is `resolveNotionParent`. A push is `StartsPush` -
`RecoversNote` or `CannotRecover` - `BeginsFirstPass` - one of the actions of `Preparing` for each
folder, the upper ones first - `BeginsPool` - the steps of `pushCreate` for each note - `EndsPass`,
once more from the folders on for what failed. A folder's own note, or the note beside it, is pushed
before the others (`PushesFirst`, `HasPushedFirst`); a folder page that exists is given to the
folder note written later (`Adopts`); otherwise one is looked for and made (`FindsFolderPage`,
`MakesFolderPage`), not while the page of the folder note may exist (`WaitsForNote`). What fails is
in `unprepared`, with all below it. Answers get lost, requests fail, the push dies at any step, it
is limited to some of the notes (any set of them, which is more than the paths a user can give), and
notes are written at any time. `smooth` is a ghost: the last push took everything and nothing
happened beside it.

Simplifications: databases and their folders, moved folders, deleted and renamed notes, pulls and
the bodies are left out; a title is a file name; looking for a page and recording the one found is
one step, because what two searches do to each other is in InterruptedCreate; so is recording a page
that was made and closing its operation (a recovery closes it if a death comes between).



## 3. The runs

States and times are of one ordinary machine with two workers.

| Run | Question | Bounds | Result |
|---|---|---|---|
| NoteSyncSafety | Is any body edit lost, with lost requests, crashes and edits at any moment? | 2 body edits and 1 title edit, clock 1..3, skew 1, merge | holds; 13.3 million states, two minutes |
| NoteSyncLive | If requests succeed and files rest during a run: convergence, no false conflict, no hidden edit? | the same edits, all four strategies | holds; 1.1 million states, one minute |
| NoteSyncStat | May an edit made during a push be hidden from the scan? | 2 body edits, no failure | violated: finding 1 |
| NoteSyncTitle | Is a title edit ever lost? | 2 title edits, no failure | violated: finding 2 |
| NoteSyncOwnWrite | Is the rule about the tool's own interrupted write exact? | 2 body edits, failures | violated: finding 3 |
| InterruptedCreate | Do interrupted creates end in one page per note, and every note on a page? | 2 notes, 3 troubles (lost answers, crashes, people) | holds; 1.9 million states, two minutes |
| InterruptedCreatePull | The same if a sync pulls before it recovers? | the same | violated: finding 4 |
| StateFileCrowded | If two openers remove one dead lock at once, is there still one opener? | 2 records, 2 deaths | violated: finding 5 |
| WatchAndFile | Does the watch keep the promise, strand nothing, land every change and come to rest? Has the state file one opener, no lost record, no dead lock that stays? | watch: 2 notes, 3 edits; file: one Obsidian, two commands, 3 records, 3 deaths | holds; 71 thousand states, a minute and a half |
| RemoteScan | Is any reachable change passed over, any note removed without cause, any deletion unnoticed, when search lags, requests fail and pulls die? | 2 pages, 2 events, clock 1..2, window 1, 1 fault, one page asked for per sweep | holds; about a minute and a half |
| Machines | Do renamed notes keep their pages, conflicts lose no edit, columns lose no value, plugin engines run on open DBs and forget no edit, requests keep the schedule, folders have one page and notes lie below it? | see below | holds; 1.9 million states, two minutes |
| ConflictMarks | Does a note that keeps its merge markers wait for a person? | 1 edit per side, nothing fails | violated: finding 6 |

Properties, by module.

* NoteSync. `SettledIsExact`: a stamp that is settled and still the recorded one vouches for the
  recorded body; this is what allows a push to overwrite without reading. `BodyEditsKept` (and
  `EditsKept`): an edit is in the file, in the page, or excused. `NoFalseConflict`: a step that
  makes a conflict has read a page with something the file lacks. `ScanSeesEdits`: between runs an
  unsynced edit is visible to the next scan. `Converges`: in the end both sides are equal or the
  row is a conflict.
* InterruptedCreate. `NoDuplicatePages`: there are never more live pages of the tool's making than
  notes. `PushMakesNoDuplicates`: the same without the pages a pull has made new notes of, which
  is what pushes alone answer for. `SyncedPageHoldsNote`: a note whose row is synced has a page of
  its own that holds its text, although all pages and notes have one name. `EveryNoteLands`: once
  trouble ends every note is synced, or in conflict, and has no open entry.
* StateFile. `OneHolder`, `RecordsKept`, `DeadLockGoes` (a dead lock always disappears in the
  end).
* WatchSync. `NothingStranded`: what waits has a timer or a running sync that fetches it, and no
  timer is armed for nothing (a timer that fires with no paths would sync the whole vault; the
  guard in `executeSync` never takes effect). `KeepsItsPromise`, `ChangesLand` (a dirty note
  becomes clean or the watch is stopped), `Settles` (without a period, once syncs stop throwing,
  the watch comes to rest: it does not feed itself with its own writes).
* RemoteScan. `WatermarkPromise`: a change the vault has not received is in reach of the next
  incremental pull, or comes with a page the vault lacks, or was hidden by a read that was
  swallowed, by a move or by a pull that was cut off. `DoomedOnlyIfOut`: a page is found deleted
  only if it was outside at some
  time since the pull began, or the parent read for it is itself one that goes, that the vault
  lacks, or that could not be read. `DeletionsNoticed`: once people rest no note is left of a page
  that is gone, though no pull need be a full one (the sweep reaches each row).
  `ReachableReceived`: once people rest the vault has all that incremental pulls can reach.
* LocalMoves. `NoteKeepsItsPage`: the scan ties a note to its page however it is renamed and
  edited: one record has its text, no other claims its path, and no push is about to delete its page;
  `PageWhereRecorded`: a page without an open operation is where the row has it, one with
  an open operation has not left the way; `CalmPushArrives`: one push that nothing disturbs brings
  every page to its note's place and text, whatever was left half done before.
* ConflictResolution. `NoEditLost` (every edit is somewhere, or was given up for a named cause),
  `SeenIsReceived` (what the row says it saw, a pull has brought).
* RowColumns. `NoValueLost` (every value written is in the note, in the row, or was given up for one
  of the six named causes), `PullShowsRow` (after an undisturbed pull a note shows its row,
  although the pages' stamps say nothing of renamed, removed and recomputed columns).
* PluginSync. `RunsOnOpenBase`, `AcceptedEditIsComing`, `UnloadClosesAll` (also what an
  initialisation under way opens later), `ClockRuns` (the interval runs when it is asked for and
  some connection is open, in whatever order settings changed and connections came and went).
* NotionRequests. `AppliedOnce` (a call that must not be repeated is applied at most once, and not
  at all if it ends in a clear refusal), `KeepsTheSchedule` (a request goes out from a place of its
  own, an interval from all others, and never while a rejection asks for quiet).
* FolderPages. `NoPageMadeTwice`: a second page is made for a note or a folder, or one for a folder
  after its folder note had one, only if the first has become the page of something else (a folder
  `x` in a folder `x` may take the page of the other's folder note, by its title). `CalmPushPlaces`:
  after a push of everything that nothing disturbs every note has a page below the
  page of its folder, whatever was lost, half done or pushed in part before. Both hold while a
  folder has a folder note or a note beside it that is new, not both (section 5).
* Types: one `TypeOK` per module; those of the modules in `Machines` are checked together as
  `TypesOK`. `EditsKeptAndSeen` joins `BodyEditsKept` and `ScanSeesEdits` for the live run.

Why the bounds are enough.

* *NoteSync.* A loss needs one edit that is destroyed and one other write; a second edit of the
  same kind distinguishes "both sides changed" from "one changed twice", a title edit makes the
  body and what is outside differ. A stamp is settled two minutes after its minute at the earliest
  (one of resolution, one of margin), so a clock of three minutes has unsettled, just settled and
  changed-again stamps. Body edits are interchangeable, so the safety run uses symmetry; the run
  with liveness does not. Nor does it use the view `NotOver`, by which the safety run tells two states
  apart by a local variable of a run only where a later step still reads it before writing it: states
  with the same view have the same successors up to the view, and differ in no property but the type
  of a value that was checked when it was written. The safety run takes merge because it takes the branches of manual (a
  merge without base becomes a conflict) and one more; the live run takes all four.
  `CHECK_DEADLOCK FALSE`: the note ends where all edits are made and synced.
* *InterruptedCreate.* Two notes are what one orphan can be disputed by; with three troubles a
  create can be lost, its recovery can die and a person can interfere. Repeating a trouble further
  leads to rows and entries already reached.
* *StateFile.* One dead owner and two openers is the smallest dispute over a lock; two commands
  and a plugin give each pair of the two ways to write the file. Three records fit one in the
  file, one in the WAL file and one in a copy.
* *WatchSync.* Two notes: one changes while the other is synced; three edits: the same one changes
  again behind the sync that read it, or on both sides. `CHECK_DEADLOCK FALSE`: the watch ends
  when the user stops it.
* *RemoteScan.* Two pages are a parent and a child, or two siblings, and the child may be moved; two
  events are a change during a pull and another behind it; one fault is a request, a cancellation
  or a death; the clock has the watermark, an edit within the window before it and one after it;
  one page per sweep makes the cursor matter. With a clock of 3, three events and one fault the
  safety properties also held (12 million states), too long to repeat each time. `CHECK_DEADLOCK
  FALSE`: people rest, and no pull has to be started.
* *LocalMoves.* Two notes, two folders, two names, three changes and one miss: a note renamed twice
  and edited, notes that swap places, a move interrupted and tried again. More ids than notes let a
  second page be made. Two larger instances (2.2 and 4.6 million states) also held.
* *ConflictResolution.* One edit on each side makes the conflict, a third comes during or after the
  answer; one failure or death. With four edits and two troubles it also held (15 million states).
* *RowColumns.* Two rows: one is done when the other fails; two columns and two spare names: a
  rename, a chain, a swap, two keys renamed in one push; two changes and one fault. With one row and
  three changes it also held (5.3 million states).
* *PluginSync.* The vault and one folder, two edits, two operations, one change of the settings: an
  engine is reopened under a sync, and its edit is queued. The interleavings with more engines are
  pairs of these; the properties of this module are proved for any number.
* *NotionRequests.* Three calls and two slots: one sleeps while another is rejected and a third waits
  for a slot. With a longer clock it also held (up to 31 million states); proved in general.
* *FolderPages.* Two folders, one in the other, each with a note and its folder note, or with the note
  beside it: each kind of page of a folder, above and below, and a folder page that a note gets
  later. Three mishaps: an answer is lost, the attempt to find the page fails, and so does the
  recovery. With five sets of notes (mixed kinds; a folder in a folder of its name) and two mishaps
  it also held.
* `Machines` does not check for deadlock: calls end, the plugin is unloaded, the bounds on people are
  used up.


## 4. Fairness

* *NoteSync*: weak fairness of `Pull` and `Push` (a run that goes on takes its next step: requests
  have deadlines, `utils/deadline.ts`), strong fairness of `BeginPull` and `BeginPush` (the watch
  and the interval start syncs for ever; a push starts only between two pulls, hence strong).
  Nobody is obliged to edit. Failures are off in this run: with requests that fail for ever
  nothing can converge.
* *InterruptedCreate*: the same for runs, and `SF(StartPush)`. Trouble is bounded.
* *StateFile*: openers come back (`WF(Claim)`), an opener on its way goes on (`SF(Opening)`),
  plugin and command go on and end (`WF`), time passes (`WF(TwoMinutes)`). A process that died
  comes back only as a new opener.
* *WatchSync*: weak fairness of timers and continuations (the event loop runs them), of chokidar's
  reports and of the close that follows a stop; strong fairness of `SyncReturns` and `SyncItem`:
  Notion is not unreachable for ever. A user who edits for ever would restart the debounce for
  ever; `MaxEdits` excludes that. Single notes fail (`ItemFails`) only where the periodic sync is
  on (`ItemFailures = {TRUE}`): a note that fails inside a sync that completes is not put back
  into the queue, and without a period it waits for its next edit. That is listed as a hazard.
* *RemoteScan*: weak fairness of the index of search, of a pull that goes on, and of the start of a
  pull, by the interval; only the first pull, and one that finds nothing tracked, is obliged to be
  a full one, since the code makes the others full by a clock that may be hours away.

LocalMoves, ConflictResolution, RowColumns, PluginSync and NotionRequests state no liveness: what
starts their operations is a person, or the parts above. `WatchAndFile` conjoins the fairness of
WatchSync and StateFile for the machine that runs.


## 5. What the code does not do

Each of these is a run that TLC refutes, with the line quoted in `PROJECT.json`, *findings*.

1. **An edit saved during a push is hidden from the scan** (`page-pusher.ts:683`, run
   NoteSyncStat). The hash in the row is of the text read at the start, the stat is taken at the
   end; the fast scan trusts the stat. `EDGE_CASES.md` promises a second look at the hash before
   sending, which does not exist.
2. **A local title change overwrites a Notion title nobody has pulled** (`page-pusher.ts:653`,
   NoteSyncTitle), although a comment above it promises that the next pull takes it.
3. **A person's edit around an interrupted push is taken for the tool's own**
   (`page-puller.ts:745`, NoteSyncOwnWrite): the stamp that says who wrote last is older than the
   body it is applied to.
4. **A sync pulls before it recovers** (`orchestrator.ts:1612`, InterruptedCreatePull): the page
   whose answer was lost becomes a second note, and the push makes a second page.
5. **Two openers can take over one dead lock** (`state-lock.ts:303`, StateFileCrowded): comparing
   the lock file and removing it are two system calls, and the second opener removes the lock the
   first has just made.
6. **A merged note with markers is overwritten by the next pull** (`resolver.ts:158`,
   ConflictMarks). `conflict-workflow.ts:271` says that a note which keeps its conflict markers
   stays a conflict for a person to resolve; the resolver stores the merged text as the synced one,
   so the next pull finds the file unmodified and the page changed, and takes the page.

Modelling met the following as well. They have no run of their own; where a property would fail
because of one, a ghost variable exempts exactly that case, and section 2 names it.

* *Pushing.* A push that filled in code, synced references or media, or whose answer was cut, reads the
  page again and records the fingerprint of what it reads (`page-pusher.ts:637-649`, `1499-1508` for
  rows, `1856-1860`; `1964-1977` when the filling fails). A person's edit made since the body was
  written is in that fingerprint; if the note is edited before a pull has brought it, the pull finds
  nothing to take, and the next push finds the page as recorded and replaces it. With `RereadExcused = FALSE` NoteSyncLive violates `EditsKeptAndSeen` with no failure
  at all: `PushBody`, `HumanEdit`, `PushReread`, `PushTitle`, `PushStore`, `LocalEdit`, and the
  `PushBody` of the next push; NoteSyncSafety violates `BodyEditsKept`.
* *Scan.* After an error the traversal does not list the root again (`remote-detector.ts:735`,
  `client.ts:1711`); if the question for the parent fails too, the note of a living child is
  deleted, against `remote-detector.ts:663`. A page below one the vault lacks is passed over by the
  watermark and comes with its parent's body (`takeUndiscoveredChildren`). Until then it is not among
  the changes detected, so it does not hold the watermark back; when the pull is cancelled or dies
  after the parent was received, no search shows the child, and it waits for the next full scan or an
  edit.
* *Moves.* A move interrupted between the page's move and its record, followed by a rename back or a
  second rename, closes the operation or computes it from the wrong place
  (`local-planner.ts:155`, `page-pusher.ts:715`). A rename between the listing of files and the
  reading of hints has its hint pruned unused, against `local-moves.ts:139`. A note renamed onto a
  path where a push is about to create a page gets that page. A hint lives until a push has adopted the
  rename: if another note without a page comes meanwhile to the path the hint begins at, and the
  record still holds that path, both files can claim the one page, or the page follows the wrong one
  (`local-moves.ts:139`; found by the proof of `NoteKeepsItsPage`, from four changes on).
  `pushDelete` does not look whether
  the file is still missing.
* *Plugin.* An unload during `createOrchestrator` leaves an interval timer that does nothing. A
  debounce already set still syncs after automatic sync was turned off. An edit whose debounce fires
  while its engine is reopened, or that was queued for a replaced folder engine, waits for the
  periodic sync.
* *Conflicts.* A death between storing the answer and sending it loses the chosen local text at the
  next pull, which `conflict-workflow.ts:235` knows. In direction `pull`, a local text chosen within
  two minutes of the page's last edit is overwritten by the next pull, because the record is not
  settled (`conflict-detector.ts:87`), against `conflict-workflow.ts:316`. A page edit of the same
  minute made after the listing is recorded as seen, against `:321`; so is one of a later minute that
  comes between the request for the stamp (`:326`) and the one for the body (`:331`): the old stamp is
  recorded with a fingerprint that has the edit, and the next pull of a note that was edited since
  skips the page (without the cause *between*, `SeenIsReceived` is violated by `SeesListed`,
  `EditsPage`, `RecordsSeen` and `PullsPage`, the markers of a merge having been taken out before). An edit the resolution's push reads back with what it sent is passed over in the same way, or
  overwritten (without the cause *reread*, `Sends`, `EditsPage`, `ReadsBack`, `RecordsSent` and the
  next pull violate `SeenIsReceived`, or the next push `NoEditLost`). What file or page gained after
  the listing is overwritten by the answer. A second merge before the markers are fixed yields the
  page.
* *Folders.* When both `A.md` and `A/A.md` are new, the first becomes the page of folder `A`, and the
  second is put below it and is the page of `A` from then on: notes of `A` lie below the one or the
  other, by their order in the pool, which `folder-placement.ts:175` says was so once (FolderPages
  with that set of notes violates `CalmPushPlaces` with no failure at all). If the answer of such a
  note was lost, the retry looks below the new page and not below the one the open operation names
  (`page-pusher.ts:421`), and a second page is made (`NoPageMadeTwice`, one failure). A folder page
  whose answer was lost is looked for by `ensureFolderPage` only: if the folder note or the note
  beside the folder is written before the next push, that note gets a page of its own and the lost
  one stays.
* *Requests.* On the last attempt a 429 is thrown before the common rest is set (`client.ts:2087`,
  against the comment at 2028); the block limit is looked at only when a call starts; late timers
  may bring two requests nearer than their places are.
* *Columns.* Renaming A to B and Q to A while the note has a key B of its own puts two values under
  one key (`frontmatter-merge.ts:90`, against `:71`). An unsent value under a column that was
  removed or renamed in Notion is skipped by a push that comes before the pull, and recorded as
  synced (`page-pusher.ts:1545`); the next pull drops or keeps it, it is never sent. A key rename
  seen half way, or with one row in conflict, is not recognised, and the push empties the column
  (`schema-push.ts:247`). `followSchema` is not idempotent, although `database-syncer.ts:1039` says
  that a row already carried has nothing to change: a column removed and another renamed to its name,
  interrupted and repeated, drops the renamed key. The ledger is written before the rows are
  refreshed (`database-syncer.ts:1080`), so a row that fails then shows old computed values until
  its page changes. A death between the writing of a carried note and its record leaves a note the
  record does not know, whose new keys are columns: a later push clears the cells of the old ones that
  nobody had seen change (found by the proof of `NoValueLost`, which is false without the exemption
  *cut off*). `schema-push.ts:113` picks the column by its name, which
  may by then be another's. `rekeySnapshot` (`schema-push.ts:262`) works on the record read for the
  plan: of two renames in one push the second writes a snapshot that has the first one's old key,
  although the comment on `apply` (`:145`) says that the snapshots get the new keys. If the user takes
  the first rename back in the note meanwhile, the note looks settled, and a pull leaves it without the
  column under its new name (with `OldRecord(r) == FALSE`, one row and `MaxActs = 3` TLC finds
  `PullShowsRow` violated in 20 states). A rename between the reading of the schema and of the rows leaves the
  old key beside the new one.


## 6. What is proved

All proofs are for every value of the constants that satisfies the named assumptions of the
module.

**NoteSyncProofs.** Four invariants and an action property, each from an invariant of its own.

* `TypeCorrect` and `SettledStampIsExact` (`Spec => []SettledIsExact`), from `NoteAssumption` and
  `SkewAssumption` (this device's clock is ahead of Notion's by at most the margin; without it the
  property is false). `SettledIsExact` is not inductive: it speaks of the row, but the row is written
  from what a run has read. `StampInv` adds that no recorded or running time of observation is more
  than the skew ahead of Notion's clock, so that a stamp that looks settled lies in a minute that is
  over (`SettledIsPast`); that a pull that has fetched the body still has it right if the page's stamp
  is settled and unchanged; and that a push, whose own write comes after its start, leaves no settled
  stamp standing between its body request and its record. The step that matters is `HumanEdit`: an
  edit in the minute of the stamp keeps the stamp, which is why a settled one must be in the past.
* `BodyEditsAreKept` (`Spec => []BodyEditsKept`) under `RereadExcused /\ (OwnWriteExcused \/
  ~Failures)`: `RereadExcused` is needed by every push that fills something in (section 5);
  `OwnWriteExcused` is the exemption finding 3 shows to be needed, and only an interrupted run needs
  it. `KeptInv` says,
  phase by phase, where a body edit is while both sides are being rewritten: what the row names as
  shared is on both sides or excused (`RecordKept`), what a pull is about to write over or record is
  in the page it read or in the file (`PullKept`), what a push is about to send holds what it
  overwrites or was read to differ (`PushKept`), and the journal names the text of the push that is
  writing, or of one that was cut off (`JournalKept`). It rests on `StampInv`: a push may skip
  reading the page only because a settled stamp vouches for it. It rests also on two invariants about
  what is shared: nobody holds an edit that was not made (`MadeInv`), and, but under remote-first, both
  sides go on holding what the last sync left them, at each phase of a run (`BaseInv`: `BaseHeld`,
  `PullFollows`, `PushFollows`). A page read back while it holds what a person added is the reason:
  what is recorded then is more than what was sent, and it must be known that it is not less.
* `ScanAlwaysSees` under `~EditDuringRun` (finding 1 is the case it leaves out) and, from both,
  `EditsAreKeptAndSeen`, under `RereadExcused` too.
* `ConflictsAreReal` (`Spec => NoFalseConflict`, an action property) under `~Failures`. `CalmInv`: all
  that is anywhere was made (`AllMade`), both sides hold the text of the last sync (`BaseKept`), what
  both sides hold besides is what a run is about to record (`NewsApart`), so a page that moved has
  something the file lacks, a run is not cut off (`Undisturbed`), a page that was never in step is new
  or holds something (`NeverSynced`), and a standing conflict stays one (`ConflictReal`).

**WatchAndFileProofs**, for StateFile: `StateFileTypes` (of `FileTypeOK`) from `FileAssumption`
alone; `OneHolderAtATime` and `NoRecordIsLost` also from `~Crowded`, which is the assumption finding
5 shows to be needed. `LockInv` says why one opener holds the lock: who thinks it is the owner is
named in the file (`OwnersOwn`), who fills a file made an empty one (`FillersFill`), who is about to
remove one has compared a dead one that nobody replaced since (`RemoversSafe`), and at most one is
at that point (`OneRemover`). On top of it `RecordInv` says where a durable record is: in the file,
or in the WAL file that belongs to it (`RecordsKept`, `Paired`), that a plugin that may write has
them in its copy (`CopiesKnow`), and that the file a command has open is the one with the name
(`ClisAttached`).

**WatchAndFileProofs**, for WatchSync: `WatchKeepsItsPromise` (`Spec => KeepsItsPromise`): initial
states map to initial states and every step to a step of AutoSync or a stutter, under the invariant
`WatchInv`; `NothingIsStranded` and `WatchTypeCorrect`. `WatchInv` is `TypeOK` and `NothingStranded`
with three facts: a stopped service holds nothing (`StoppedIsEmpty`), a sync in flight is whole or
has paths (`SyncHasCause`), a closed watch is quiet (`ClosedIsQuiet`). Without the first a returning
sync could give back paths after `stop`, which AutoSync forbids.

**RemoteScanProofs.** `ScanTypes`, `DeletionsHaveCause` (`Spec => DoomedOnlyIfOut`) and
`WatermarkIsKept` (`Spec => []WatermarkPromise`) from `ScanAssumption` and `PlacesAssumption`, for
any tree of pages. The invariant `ScanInv` adds to the
types that what is out of reach while a pull detects is in `wasOut` (`OutIsKnown`: everything that
leaves, leaves in a step that notes it), and what a full scan knows of the pages it asked for
(`AnswersRead`: each that answered has a parent read, and one whose parent is outside was outside).
The step that matters is `Judge`, which dooms pages by what earlier requests answered; it needs that
a page below one that is outside, or in the trash, is out itself (`ElsewhereIsOut`, `GoneIsOut`),
where `Line` is defined by the closed sets of pages, not by recursion. For the watermark,
`WatermarkInv` says what becomes of a change from the moment it is made to the next watermark: search
is at most the lag behind (`ClocksAgree`), an object in hand shows every edit older than the lag at
the pull's start (`PagesHeld`), a traversal has listed such a page or will come to it
(`ListReaches`), what the vault is owed of it is due or shown by a body it received (`ChangesDue`,
`HandsApart`), and so is at the end received, or holds the watermark back, or is one of the ghosts
(`InReach`, which is the promise while no pull runs). `ListNode` with a shrinking set of nodes,
`Receive`, which makes children reachable, and `Finalize` are the steps that matter.

**InterruptedCreateProofs.** `CreateTypesCorrect`, `NoDuplicatesByPushes` (`Spec =>
[]PushMakesNoDuplicates`) and `SyncedPagesHoldNotes`, from `CreateAssumption`, for any finite set of
notes, all of one title, and any number of troubles. The count of pages is not inductive: a lost
answer makes a page no row names. `CreateInv` adds that there is a note for every page that nobody
knows of (`EnoughClaims`, a fact about two cardinalities: `Orphans`, live pages of the tool's making
without a row, and `Claims`, notes that will search before they create or have taken a page no push
made), that a page has one row (`RowsApart`), that a worker has the row and the entry of its step
(`RowsOfSteps`), and, between a search and its answer, that an orphan the search did not see was made
since, by a worker that has lost it and will make no other (`LateMakers`). The steps that matter are
`Create` with a lost answer, which turns a claim into an orphan, and adoption, which removes one of
each.

**LocalMovesProofs.** `MovesTypes`, `PagesAreWhereRecorded` (`MovesSpec => []PageWhereRecorded`),
`NotesKeepTheirPages` (`MovesSpec => []NoteKeepsItsPage`) and `CalmPushesArrive`
(`MovesSpec => []CalmPushArrives`), from `MovesAssumption`, for any notes, folders and names, with and
without rename hints, and any number of changes, failed requests and deaths. Three invariants, each
proved on top of the one before.
* `PagesInv`, about records and pages: a file is one note, a path one record's and one task's
  (`OneEach`); listing, planning and pushing take turns, and a plan is of the records as they are
  (`InTurn`, `PlanFits`, `CreatesNew`); the parent remembered is where Notion was last told of
  (`Told`), and at each step of a move the page is as far as its task says (`UnderWay`).
* `FollowInv`, about the notes that are not `severed`: such a note is the only claim, by place or by
  hint, on the places its record knows, and leads to them (`OwnPage`), and has no claim on another
  page's (`OwnPlace`, `OwnHint`); then, for each stage of a push, that what the listing saw still
  holds (`SeenSo`), what the plan pairs it with is its own page and nothing else (`PairedSo`), and no
  task creates a second page for it or deletes its first (`PushedSo`). People's renames are the steps
  that matter: a note that comes to a place where another has a claim must be, with it, one of those
  that `SeveredBy` names, and the attempt to prove this showed two that were missing (section 5).
* `CalmInv`, for a push nothing disturbs: each note is planned for (`Planned`) and then has the task
  that brings its page home, or is home (`Coming`).

**RowColumnsProofs.** `NoValueIsLost` (`ColumnsSpec => []NoValueLost`) and `ColumnsTypes`, from
`ColumnsAssumption`, for any rows, columns and keys, and any number of changes and failures.
`ColumnsInv` says of each row, of the values that are owed (kept, and not given up): none stands twice
in the note, the row or anything remembered of them (`OnceEach`), so that no step that replaces one
place can be excused by another; Notion computes none of them (`NotComputed`); what the record
remembers, or a run is about to make it remember, has not left the note (`NoteHolds`); what is
remembered of a column, and all that a pull has in hand, is in the row (`RowHolds`), where what is remembered includes the records
that a planned rename still holds and will write back (`InPlan`); and so each is
somewhere (`Somewhere`, which is the property). The steps that matter are `Rekeys`, which rewrites a
note by names from two schemas, `PullsRow`, which replaces a note by a page read earlier, and
`SendsCells`, which clears what the note no longer has.

`PullsShowRows` (`ColumnsSpec => []PullShowsRow`) has an invariant of its own, `ShowInv`, over
`ColumnsInv`'s types. `RowShows` says of each row that is not exempt what the state DB holds of it:
its row's values under the ledger's names (`Known`); or, for a row `halfway`, under those the pull
meets, with nothing left under the old ones, so that carrying it along again changes nothing
(`CarriedTo`, and `Clean`: no column took another's name); or, while a push applies a rename, under
the names before it. `ReadInOrder` orders the ledger, the two requests of a pull and Notion:
no column comes back, and formulas only get newer. `Queried` ties the pages in hand to the rows,
`Planned` says that a row outside a planned rename has nothing under its old name (a row whose
snapshot is rekeyed from an old record is exempt from then on, so that nothing need be said of it), and `Alone` that
after an undisturbed pull the ledger has Notion's names and no row is `halfway`. The lemmas that carry
it are on the pure part, `Rekeyed`: when no key stands in the way each value goes to its column's new
name (`CarriesAll`), and a note carried along already stays as it is (`CarriesNothing`). The attempt
showed that the exemptions were first drawn too narrowly, so that the property was false on instances
larger than the run's: `halfway` was one flag and not a set of rows, and `behind` left out the rows
that a push's rename meets with another value under the new name without carrying it themselves, and
those whose values are taken afresh under names that another request of the same pull had read.

**ConflictAndFoldersProofs**, for ConflictResolution: `ConflictTypesCorrect`, `NoEditIsLost`
(`ConflictSpec => []NoEditLost`) and `SeenIsAlwaysReceived`, from the assumptions on the marks and
the bounds, for any number of edits, failures and deaths. `ConflictInv` says at each stage where the
edits are: what the record names is in the note (`NoteHolds`) and on the page unless it never got
there (`BaseHeld`); the listed base is the record's until the result is stored (`ListedBase`); the
texts listed go on being held until the answer is written (`LocalHeld`, `RemoteHeld`), then the
result is (`ResultHeld`), then what is sent, which has all that both sides had (`SentHeld`); each
with the edits that were given up for a named cause as the only exception. `TimesAgree` and
`GoneIsGiven` say why what was read is still so.

**ConflictAndFoldersProofs**, for FolderPages: `NoSecondPage` (`FoldersSpec => []NoPageMadeTwice`),
from `FoldersAssumption`, for any notes, however deep their folders, and any number of failures and
deaths, under `OneKind`: no folder gets both a folder note and a note beside it. Without it the page
of a folder changes in the middle of a push and the property is false (section 5). `FoldersInv` adds
what a search for a lost page rests on: an open operation names the page under which the note
belongs to this day, and the folder of a folder note has no page as long as the note may have one
(`OpenIsHome`); who searches or creates does so under the page of its operation (`MakerHasOp`); a
page has the title of what it was made for, and a folder's lies below the page of the folder above
(`MadeWhere`); and a page of a note that no row has is where its open operation has it looked for,
unless the note got another (`Orphans`). The lemmas on paths say that a folder note names its folder
and that each step up a path shortens it (`AboveFacts`); `Grow`, that a folder which has a page
keeps it whatever rows are written, which adoption too respects (`AdoptionGrows`). An earlier form
of the property, that a folder gets no page of its own once its note had one, was false for a folder
in a folder of its name, and is stated as above since. `CalmPushesPlace` (`FoldersSpec =>
[]CalmPushPlaces`), under `OneKind` too, takes three more inductive invariants. `Placed`: at every
moment, however it came about, the page a record names lies where the note or folder belongs; a page
that was made, found again or adopted lies there when it is recorded, and by `Grow` no page of a
folder changes after. `InOrder`: of the folders a pass has still to see to the upper ones come
first, and while one of them has its note pushed nothing else is being made. `Smooth`: in a push
that nothing disturbs the first pass has every new note, no operation is open but those of notes
being created, and every folder that was seen to has a page, its note's if it has a new one
(`Seen`). From the last two `ParentIsThere` follows, that no note comes before the folder it goes
into, so that none fails and the pass ends with all of them in place.

**PluginAndRequestsProofs**, for PluginSync: `PluginTypes`, `OperationsRunOnOpenBase`,
`AcceptedEditsAreComing`, `UnloadingClosesAll` and `ClockAlwaysRuns`, from `PluginAssumption`, for
any list of folder engines. `PluginInv` adds that only the first job of the chain is under way
(`OneUnderWay`), that controllers stand on open DBs and nothing waits for one that is being closed
(`StandsOnBase`), and, for the unload, that every engine has a closing job behind the last one that
opens it, or is closed and has none that opens it (`UnloadGoesOn`). The last is a fact about a
sequence that jobs are taken from at one end and added to at the other; `NowIs`, `TheJobGoesOn` and
`MoreJobs` are the lemmas on it. `TimersLast`, for the clock: until the plugin is unloaded, a chain
that is not empty ends with the job that sets the clock, so that whatever the jobs before it open
and close, the clock is right when the last is done.

**PluginAndRequestsProofs**, for NotionRequests: `RequestsTypes`, `CallsAppliedOnce` and
`ScheduleIsKept` (`RequestsSpec => KeepsTheSchedule`), from `RequestsAssumption`, for any number of
calls and slots. `RequestsInv` adds that a call backs off only if it may be sent again
(`RetriesLeft`), that the common rest lasts as long as any rejection asked (`RestIsLong`), and
`Scheduled`: the next place lies an interval behind all the places waited for and all those requests
went out from, and no two of these are nearer. That the number of slots is kept is part of the
types, and needs the lemmas on cardinality (`NoSlotTaken`, `SlotTaken`).

Every inductive invariant was checked with TLC on the small instances before it was proved.


## 7. Only model-checked, and not modelled

* *Liveness* (`Converges`, `EveryNoteLands`,
  `DeadLockGoes`, `ChangesLand`, `Settles`, `DeletionsNoticed`, `ReachableReceived`) is
  model-checked; the prover does not handle fairness and ENABLED.
* *Safety not proved*: `TypesOK` of `Machines`, the types of all its machines together, each of
  which (that of FolderPages under `OneKind`) is proved by itself.
* *Safety that is false in general*: `EditsKept` (finding 2), `NoDuplicatePages` with pulls before
  recovery (finding 4), `MarkedNoteWaits` (finding 6); `OneHolder` and `RecordsKept` are proved under
  `~Crowded` (finding 5), `BodyEditsKept` with its exemptions (finding 3, and what a push reads back), `ScanSeesEdits` under
  `~EditDuringRun` (finding 1).
* *Not modelled*: the components marked so in `PROJECT.json` with the reason for each. In short:
  conversion, link rewriting, views, configuration and display are functions of text or of settings,
  without state that two steps could meet in; attachments are transfer, guarded by a ledger of
  hashes; audit reads only; the mobile database has its own writer, which shares only the promise of
  2.4 (a torn first write there may be restored as the database).
* *Within the modelled parts*: two attempts at one note at once, when a deadline gives up on a
  task that goes on (`utils/deadline.ts:58`); moved folders and folders of databases; rows that are
  made, moved or deleted; two notes relocated to one path; locks of another PID scope; a watch that
  is started again after a stop (the command never does).
* *Hazards without a property*: that abandoned attempt; an edit saved between a read of a file and
  the write over it (`page-puller.ts:831`), and a page restored between the question and the removal
  of its note (`remote-deletion.ts:151`), both of which the vault, without a compare-and-write, does
  not let the code exclude.


## 8. Plan

| Module | Composes or refines | State | What is left |
|---|---|---|---|
| RemoteObservation, NoteSync | NoteSync extends RemoteObservation | checked; all safety that holds is proved | - |
| InterruptedCreate | - | checked, proved | - |
| StateFile | - | checked, proved | locks of another PID scope |
| AutoSync, WatchSync | WatchSync implements AutoSync | checked, refinement proved | - |
| RemoteScan | - | checked, proved | a second root, databases as nodes |
| LocalMoves | - | checked, proved | moved folders |
| PluginSync | - | checked, proved | that it implements AutoSync, whose promise `AcceptedEditIsComing` states as an invariant |
| ConflictResolution | - | checked, proved | the previews |
| NotionRequests | - | checked, proved | deadlines of a call |
| RowColumns | - | checked, proved | rows made, moved and deleted |
| NoteSync with two attempts | NoteSync | to be written | `BodyEditsKept` with an abandoned attempt that goes on; 2 body edits |
| FolderPages | - | checked, proved | moved folders, with LocalMoves; folders of databases |

Abstract specifications worth stating: AutoSync (done); for a note, "each edit ends on both sides or
in a conflict", which `BodyEditsKept` and `Converges` state as properties for now; for the state
database, one map of records that openers change in turn, which `OneHolder` and `RecordsKept` state.
