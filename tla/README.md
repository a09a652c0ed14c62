# PDF-Folio: a verification development

PDF-Folio is a desktop PDF library and reader written in Rust. A user keeps
several libraries on several devices; a library's metadata is replicated through
a log of operations in Turso, its PDF files through an object store (R2). This
directory holds TLA+ models of the program, the TLC configurations that check
them on small instances, and proofs, checked by TLAPS, of the properties that
matter for every number of devices, entries, libraries and operations.

Paths below are relative to the repository (`crates/...`); every definition that
models code is listed with its file and lines in `PROJECT.json` under `map`.

## 1. The system

| Part | Code | State | Operations |
|---|---|---|---|
| Content sync of a library | `pdf-folio-cloud/src/sync/{crdt,run,status,blobs,client}.rs`, `pdf-folio-core/src/db/sync.rs` | SQLite tables `sync_crdt_operations`, `sync_crdt_entity_versions`, `sync_crdt_checkpoints`, `sync_entries`, `sync_folders`, `sync_entry_folders`, `sync_blob_uploads`, a snapshot marker; Turso `sync_operations`; the objects in R2 | `sync_library_if_needed`: seed, scan, preflight, upload, pull, materialize, push, pull, materialize, hydrate |
| Sync scheduling | `pdf-folio-ui/src/shell/{update,tasks,subscriptions,app}.rs` | `sync_in_progress`, `sync_queued_libraries`, `active_library_id`, tasks and watchers that run beside the reducer | `auto_sync_library_task`, `start_next_queued_sync`, handlers of the tick, the remote reports, finished passes, registry changes |
| Library registry | `pdf-folio-ui/src/library/registry/*`, `sync_library_registry` in `crdt.rs` | `libraries.json`, the profiles in memory, a stream of registry operations kept in the active library's database | create, rename, delete, select, sync with the other devices |
| Library store | `pdf-folio-core/src/db/{library,import,metadata,schema}.rs` | `entries`, tags, `library_change_state` with its triggers | import, watch, mark missing, relink, edit, trash, restore, purge |
| Folders and history | `pdf-folio-core/src/db/organization.rs`, `pdf-folio-ui/src/library/{tasks,actions}.rs` | folder tree, memberships, the tree of undo nodes | create, move, copy, trash a subtree, restore, purge, undo, redo |
| Search | `pdf-folio-core/src/db/search.rs` | a full-text index beside the database | index, query |
| Library screen | `pdf-folio-ui/src/library/*` | list, filters, selection, drag, confirmations, clipboard, debounced search | messages of an Elm-style reducer; tasks answer with messages |
| Viewer | `pdf-folio-ui/src/viewer/*`, `pdf-folio-core/src/pdf/renderer.rs`, `iced-widget-patch` | open document, generations, tiles, text layers, layout, scroll, notes, progress not yet saved | open, leave, turn, zoom, jump, find, select, copy, annotate |
| Session of the app | `pdf-folio-ui/src/{lib.rs,shell/session.rs}` | `session.json`, the session still to be restored | save, quit, start, restore |
| Sign-in and control plane | `pdf-folio-cloud/src/sync/{auth,session,remote,cli}.rs`, `src/server/*`, `src/raindrop/auth.rs` | session and token files, OAuth listener, token caches, settings of the server | sign in, get a token, run a pass |
| Raindrop import | `pdf-folio-cloud/src/raindrop/*`, `pdf-folio-ui/src/library/{tasks,update}.rs` | an import in progress, the file of what is to be undone, mirrored folders | list, mirror, fetch, match, import, cancel, roll back |
| Style books | `pdf-folio-style/src/book/*`, `shell/subscriptions.rs` | the book the screen is painted with, the user's files | load, merge, reload |
| Documents, naming, command line, view components, site, packaging | `pdf-folio-core/src/{pdf,naming,...}`, `bin/*`, `components/*`, `docs` | none beyond the above | parsing, layout, drawing |

How they interact. The reducer of the shell handles one message at a time and
is the only writer of the application's memory. Everything slow is a task that
works on clones and on the SQLite file and ends with a message. A sync pass is
such a task, so while it runs the user keeps editing the same database. Watchers
(`live_sync_stream`, the watcher of imported folders, that of the style files)
report by message, a timer ticks, finished edits ask for a pass, the registry
starts passes of libraries it has learned of. Devices share nothing but the
Turso log and R2; the app and the command line share files and a port.

What is hard, and where it bites, is the list `hazards` of `PROJECT.json`. In
groups:

* *Passes of different devices interleave at every remote call* and passes stop
  at any of them (quit, crash, network error), leaving in SQLite what was
  written and losing what the pass held in memory.
* *Edits land while a pass runs*: between the scan and the snapshot marker,
  between the scan and the replay of a winner.
* *Clocks differ*: logical times start from wall-clock milliseconds.
* *Metadata and files travel separately*, and each transfer may fail alone.
* *Deletion has three forms* (trash, tombstone, purge) and is concurrent with
  everything else. *Rows refer to each other* and arrive in any order.
* *Several sources ask for passes at once*; reports are late, repeated, or name
  a library that is gone; failed passes; restarts.
* *Tasks work on clones* (registry, undo, readings of the library) and what they
  bring back replaces what others changed meanwhile.
* *Answers come late*: renders, text layers, searches, notes, documents, after
  the document, the query or the library has changed.
* *Layout is reported back* by a scrollable that only knows the size the content
  had.
* *Tabs, files and caches of sign-in* outlive the attempt they belong to.

### What makes each part correct

* Operation log: no operation is lost by its author, stamps are unique so that
  last-writer-wins is total, and no device goes back on a winner.
* Content sync: the cursor never passes an operation that was not stored; an
  operation marked pushed is in the shared log, once; a scan is skipped only if
  there is nothing to scan; an edit prevails over what its author had seen; an
  available entry has its file; a PDF is uploaded before metadata that names it
  appears; nothing is purged that no user deleted; devices agree once users stop
  and then produce no more operations; a skipped pass was not needed; a pass does
  not undo an edit it has not recorded; no folder is moved by the order of rows.
* Scheduling: passes do not overlap; queued libraries get a turn; remote changes
  are pulled; local changes are pushed.
* Registry: a library disappears only when a user deleted it; devices agree on
  the profiles; memory and disk agree.
* Organization: the folders form a forest in which live hangs from live; only
  trash is deleted; the current undo node is the library as it is; the index
  covers the live entries; the screen comes to show what changed.
* Library screen: what is selected is listed; an order that is saved moves what
  was dragged and nothing else; results are those of the query that is shown.
* Viewer: an answer to an outdated request changes nothing visible; the page in
  sight is rendered; a jump lands; find, selection and copy follow the text as it
  arrives; pages and notes are saved for the document they belong to.
* Imports: what finished stays, what was cancelled goes; each PDF is attached to
  its own bookmark; the folders mirror the collections.
* Files and sessions: rows follow the files; an export loses none; what was shown
  is shown again.
* Sign-in: who is signed in is who was meant; signing in again helps.
* Styles settle to what the files say.

## 2. The modules

```
OpLog              what a replicated operation log promises (abstract), and proofs of it
  ^ refines
CrdtSync           the sync pass of every device, user edits, interruptions
  ^ EXTENDS                                    SyncScheduler   when passes run
MCCrdtSync         small instances               ^ EXTENDS
CrdtSyncProofs     the inductive invariant,    MCSyncScheduler, SyncSchedulerProofs
                   what needs calm passes
                                               LibraryRegistry   the list of libraries
                                                 ^ EXTENDS       (uses OpLog's rule)
                                               MCLibraryRegistry, LibraryRegistryProofs

Desktop  = LibraryScreen (EXTENDS Organization) + Reading (EXTENDS Viewer) + RaindropImport
Shell    = LibraryBrowser + StyleBook + PageView + TextView
Services = FolderSync + RaindropTransfer + SignIn + LibraryFiles + AppSession
  ^ EXTENDS                                      ^ EXTENDS
MCDesktop, MCShell, MCServices                 ServicesProofs   sign-in, session, files
DesktopProofs      the store, its tree and its history, of the composition
  ^ EXTENDS
SearchProofs       from the store to the screen, the index and the results
ReadingProofs      the document on the screen, its page and its annotations
```

`CrdtSync` assumes what `SyncScheduler` shows: on one device at most one pass
runs (`NoOverlap`), and passes keep being started (the fairness of `FairSpec`).
`SyncScheduler` in turn sees of a pass only that it ends, and covers what it
found or fails. `Desktop` composes three parts that meet in messages
(`ImportRefreshes`, `ImportErrs`, `CommandErrs`). `Shell` and `Services` put
parts side by side that only share an update function; a behaviour exercises one
of them, so that one run checks them all.

What may happen in a behaviour is chosen at its start from the `Scenarios` of a
module, sets of event names that the module lists and explains. One run covers
several combinations, a counterexample can be attributed to the events it needs,
and a property that the code keeps only without an event can say so.

### OpLog

The abstract specification. `known[d]` is the set of operations of a device,
`published` the shared log. `Record` adds operations of a device's own that are
later than everything it knows, `Publish` appends one of them to the shared log,
`Learn` copies from there. `Beats` is the comparison of `operation_wins`; its
third key, the operation id, hashes the first two with the payload and never
decides, because stamps are unique (proved, not assumed).

### CrdtSync

Per device: `log`, `pushed`, `cursor`, `version` are the CRDT tables (`version`
holds the payload instead of its hash), `row` is `sync_entries`, `local` is
`entries`, `cache` and `uploaded` the blob cache and its record of uploads,
`snapCurrent` says that the snapshot marker equals the change revision,
`scanClean` that the revision has not moved since the scan began. `pc`, `batch`,
`affected`, `head`, `todo` are the local variables of a pass and die with it.
`remote` is Turso's table in `remote_sequence` order and `r2` the object store.

| Action | Code |
|---|---|
| `Import`, `EditMeta`, `SetTrashed`, `Delete` | the user's edits and the trash's expiry, in `db/{import,library,metadata}.rs`, with the triggers of `schema.rs` (`Bump`) |
| `SkipScan`, `Seed`, `Prepare` | `prepare_incremental_local_snapshot`: `seed_sync_metadata`, then `prepare_local_crdt_operations` and the second look at the revision |
| `Preflight` | the checks of `sync_library_if_needed` |
| `UploadBlobs` | `upload_local_blobs`, and the read of the pending operations that follows |
| `PullBeforePush`, `PullAfterPush`, `AdvanceCursor` | `apply_pulled_crdt_operations`, the cursor in a step of its own because that is where a pass can stop |
| `MaterializeFirst`, `MaterializeLast` | `materialize_crdt_entities`, `apply_entry_payload_to_local`, `remember_materialized_payload` |
| `PushOne`, `MarkPushed` | `upsert_remote_sync_operations` one insert at a time, `mark_sync_crdt_operations_pushed` |
| `HydrateEntry`, `HydrateDone` | `hydrate_remote_library`: download, relink or insert, apply the winner |
| `Interrupt` | the pass ends at any await: an error is returned, or the application quits |

What is abstracted:

* Title, authors, tags, pages and progress are one value `meta`; `updated_at` is
  `stamp`, named by the device whose clock wrote it, because what matters is
  that it comes from columns replay does not write.
* The three kinds of entity take the same path; this module follows entries,
  `FolderSync` the folders and memberships.
* The scan reads its tables in one step. Between the reads of `Seed` and
  `Prepare`, and between any two later steps, edits may land.
* A step ends where the code awaits a remote call or where its SQLite writes are
  separately visible to something a property talks about. The loops over pulled
  operations and over affected entities are one step: `log` is extended before
  `cursor`, which is the order that matters.

### SyncScheduler

One application: the reducer's fields (`inProgress`, `queued`, `active`,
`profiles`, `signedIn`, `ready`), the tasks that run (`running`), and the
messages that are on their way (`finished`, `saved`, `noticed`). `unpushed` and
`ahead` say which libraries have work for a pass. Each handler that touches the
queue is an action; `AutoSync` and `StartNext` are `auto_sync_library_task` and
`start_next_queued_sync`, called inside them. `start_next_queued_sync` takes the
first id of a `HashSet`; `Hash` is the arbitrary but fixed order of its iterator.
The registry's own sync is one step here: `RegistrySynced` replaces the profiles
by any set, because the task brings back a clone that may be old.

### LibraryRegistry

Per device: `mem` is `app.libraries` (names, tombstones, active id), `disk` is
`libraries.json`, `db` the registry stream in each library's database, `task` the
tasks that run or the messages they ended with, each with its clone of the list.
`published` is the registry stream in Turso. A name stands for the payload of a
live row, `Deleted` for that of a tombstone.

| Action | Code |
|---|---|
| `CreateLibrary`, `RenameLibrary`, `DeleteLibrary` | the handlers in `shell/update.rs`, which clone the list and start a task |
| `UserTask` | the task, in `registry/session.rs`: it saves the list and makes or removes the database |
| `SelectLibrary` | `select_library` |
| `StartupReady`, `RemoteAvailable` | the two messages that start a sync by themselves |
| `SyncExchange` | `sync_library_registry`: record the rows, pull, push, pull; or a failure at any of these |
| `SyncMerge` | `sync_library_registry_profiles` |
| `LibraryRegistryUpdated`, `LibraryRegistrySyncFinished` | the handlers of the two messages, with `apply_library_registry` |
| `Restart` | `load_library_registry` |

What is abstracted: the exchange with Turso is one step, because its
interleavings are those of `CrdtSync`; the devices agree on the time; the
modification times in rows only matter as "the same as last time or not"
(`Rewritten`); which library follows a deleted active one is any of the rest; users
are signed in.

### Desktop: Organization, LibraryScreen, Viewer, Reading, RaindropImport

**Organization** has one `store` (the rows of folders, entries, tags and
memberships, with `live` or `trashed`), the search `index`, the tree of undo
nodes (`nodes`, `current`, `restoring`), what the screen `shown`s, and two places
for `tasks`. A command is a task that takes a snapshot, changes the store, then
the index, takes another snapshot and reports. The report files both in the
history and asks for the library to be read again.

| Action | Code |
|---|---|
| `CommandGiven`, `LabelGiven`, `EditGiven`, `ResetGiven`, `ReindexGiven`, `RenameFolderGiven`, `OrderGiven`, `TagGiven`, `TagListGiven` | the handlers in `library/{update,actions}.rs` that start a task |
| `Begin`, `End`, `WriteIndex`, `TaskFails` | the snapshots, the index and the errors of `library/tasks.rs` |
| `CreateFolder` … `PurgeFolder`, `AddToFolder`, `MoveToFolder`, `RemoveFromFolder`, `TrashEntries`, `RestoreEntries`, `PurgeEntries`, `EditMetadata`, `ResetMetadata`, `Reindex`, `ImportEntry`, the tag commands | the tasks, over `db/{organization,library,metadata}.rs` |
| `UndoLibraryAction`, `RedoLibraryAction`, `Rewind`, `RestoreFinished` | undo and redo: `actions.rs`, `restore_library_organization` |
| `ActionFinished`, `UnfiledFinished`, `TaskFailed`, `Refresh`, `LibraryLoaded` | the messages, `push_library_history`, `library/data.rs` with the expiry of the trash |

**LibraryScreen** adds the search box, the trash view and the way back from a tag:
`Ask` debounces and starts a search (`SearchDebounced`, `SearchRuns`,
`SearchResults`), and `ScreenLoaded` asks again after each reading.

**Viewer** has the open document, `zoomGen` and `docGen`, tiles and thumbnails, text
layers, the find bar, and the renders, extracts and openings that are under way.
`OpenLibraryEntry`, `DocumentOpened`, `DocumentFails`, `BackToLibrary`,
`BackToViewer`, `SelectLibrary`, `TurnPage`, `ZoomToWidth`, `ZoomRenderSettled`,
`DismissDocumentError`, `PageRendered`, `RenderFails`, `ViewerTextLayerLoaded`,
`RequestFindText`,
`FindContinue` are the messages of those names (`viewer/{state,update,tasks}.rs`).
Errors are the texts that are shown; those that the user has `dismissed` are
remembered, and `Failed` does not show them again, as `shell/update.rs:424`.

**Reading** adds what is kept of an entry: the page (`ScheduleProgress`,
`FlushProgress`, `ProgressSaveSettled`, `WriteProgress`, `ProgressUpdated`), and the
notes (`SubmitNote`, `WriteNote`, `NoteFinished`, `LoadAnnotations`,
`ReadAnnotations`, `AnnotationsLoaded`, drafts).

**RaindropImport** has the import tasks, what they have reported and what of it the
stream has passed on, the bar on the screen, the file of what is `undo`ne after a
cancel or a crash, and the rows. `ImportSelectedRaindropPdfs`, `ImportPdf`,
`ImportEnds`, `CancelRaindropImport`, `RollbackEntries`, `RollbackFolders`,
`RollbackEnds`, `PendingRaindropRollbackChecked`, `Crash` and the messages.

What is abstracted: the order of entries within a folder; titles and authors are
one value; tokenising and ranking (a search finds the entries whose document
matches); pixels of a tile. The trees of ids are numbers given out in order.

### Shell: LibraryBrowser, StyleBook, PageView, TextView

**LibraryBrowser** is the list on the screen: rows as read (`list`) over rows of the
database (`rows`), the view (filters, sort, folder, trash, query), `selected`,
`anchor`, the details editor, the `drag`, the clipboard and the confirmation. A
search takes whether the trash is shown along when its debounce ends
(`SearchDebounced`), reads its rows when its task runs (`SearchRuns`) and lists
them whatever is shown by then (`SearchResults`); other searches, readings and
inputs may come between. Its
actions are the messages of `library/{update,actions}.rs`; `Visible` is
`visible_library_entries`, `Reordered` is `reordered_entry_ids`.

**StyleBook** applies bundled and user files node by node (`Apply`, one operator
per kind of node) as `book/mod.rs` does, resolves states, and reloads when the
watcher reports. A reference definition (`LastDefined` and the others before
`StylesSettle`) says what the files define last, independently of the order of
application.

**PageView** lays pages out in four scroll modes with spreads and a column of
cards for notes, and models jumps, zoom, presets, the wheel, resizes and the
`scrollable` of `iced-widget-patch`, which reports its offset and size afterwards
(`ScrollableReports`). Lengths are whole steps of several pixels, rounded down.

**TextView** has the find bar (`Matches`, `Refreshed`, the options and the step),
the selection with the pointer, and copying that waits for text
(`ViewerTextSelectionStarted`, `CopyViewerTextSelection`, `TextArrives`).

### Services: FolderSync, RaindropTransfer, SignIn, LibraryFiles, AppSession

**FolderSync** is the pass of `CrdtSync` for folders and memberships, whose rows
refer to each other: `Scan` (seed and record), `PullBeforePush`, `Push`,
`PullAfterPush`, `Hydrate`, `Interrupt`, and the user's commands on folders. It
instantiates `OpLog` for the rule of the winner. Materializing changes the folders
that exist, hydrating makes the others, in two rounds.

**RaindropTransfer** is what the import does with the account: `ListPage`,
`Choose`, `MirrorCollection` (parents before children, in rounds), `ZipDownloaded`,
`ExtractMember` with the matching of members to bookmarks, `ImportExtracted`,
`ImportOne`, while the account and the folders go on changing.

**SignIn** has two processes (app, command line) that sign in to the server with
Google or to Raindrop, through tabs and one port; the session and token files,
which can be torn; the server with its settings from files and the environment
(`Config::load`); the token cache of a process; and passes that use a token.
`AppStarts`, `SyncSignInRequested`, `CliAuth`, `RaindropAsks`, `Waits`,
`Redirected`, `Exchanged`, `Saved`, `Finished`, `PassStarts`, `TokenTaken`,
`PassEnds`, `Operates`, `TimePasses`, `Stops`.

**LibraryFiles** has the `drive` (place -> contents), the rows, the `pages` of the
index, the watcher, its queue of events and the tasks: `ScanFolder`, `Hash`,
`Insert`, `SetMissing`, `Relink`; and the export: `TargetPath`, `CopyFile`,
`ZipFile`, `ExportFinished`. A PDF is what its file holds, since an entry id is the
hash of a file; two PDFs of the same name and title are enough for conflicts.

**AppSession** has what is shown (`screen`, `open`, `rack`, the folder selected),
the writes of `session.json` that wait, the session `pending` from the last run
and the openings that are asked for: `Launch`, `DocumentOpened`, `LibraryLoaded`,
`LibraryFoldersLoaded`, `Asks`, `BackToLibrary`, `BackToViewer`, `WriteBegins`,
`WriteEnds`, `SaveSettles`, `Quits`. What was on the screen at a quit counts as shown
(`seen`) if its writes are done and its document could be opened. It assumes that the user is signed in, that
writes of the session end in the order they were asked for, and that folders only
go.

## 3. What the runs check

| Run | Result | Properties |
|---|---|---|
| `crdt_safety` | holds | type, `CursorCovered`, `PushedOnce`, `SnapshotSound`, `AvailableHasFile`, `EditPrevails`, `ImplementsOpLog` |
| `crdt_converge` | holds | `SkipIsSafe`, `NoSpuriousPurge`, `BlobBeforeMetadata`, `ConvergesQuietly` |
| `sched` | holds | type, `NoOverlap`, `QueueServedWhileKept`, `ChangesTravel` |
| `registry` | holds | type, `NoSpuriousDeletion`, `NothingLost`, `Convergence` |
| `desktop` | holds | types, `TreeSound`, `OnlyTrashDeleted`, `HistoryMatchesStore`, `SearchFinds`, `ScreenIsCurrent`, `ReadingKept`, `FinishedStays`, `WorkEnds` |
| `shell` | holds | types, `BrowserActsOnSight`, `StylesSettle`, `ViewFollows`, `TextStands` |
| `services` | holds | types, `FoldersTravel`, `ImportsBring`, `SignedInAsMeant`, `SignInHeals`, `FilesKept`, `SessionKept` |
| `crdt_purge_trashed` | violated | `NoSpuriousPurge` |
| `crdt_diverge` | violated | `Convergence` |
| `crdt_skip_interrupted` | violated | `SkipIsSafe` |
| `crdt_lost_edit` | violated | `UnrecordedEditKept` |
| `registry_revived` | violated | `TombstonesKept` |

Several properties are conjunctions: `PushedOnce` (what is marked pushed is
published, and nothing twice), `ConvergesQuietly` (`Convergence` and
`IdleIsQuiet`), `ChangesTravel` (`RemoteChangesPulled`, `LocalChangesPushed`),
`NothingLost` (`StorageKept`, `ProfilesKept`), `SearchFinds`
(`IndexCoversLibrary`, `ResultsAreCurrent`, both `InTurn`), `ScreenIsCurrent`
(`ChangesAreShown` `InTurn`), `ReadingKept` (`PagesAreOfDocument`,
`PageRemembered`, `AnnotationsMatchStore`, `NewerDraftSurvives`), `FinishedStays`
(`SettledStays`, unless a command may fail before a cancel), `WorkEnds`
(`VisiblePagesRendered`, `FindSearchesDocument`, `InterruptedUndone`),
`BrowserActsOnSight` (`SelectionListed`,
`OthersKeepTheirOrder`, `OnlyTrashPurged`), `ViewFollows` (`JumpLands`,
`RevealedInView`), `TextStands` (`FindIsCurrent`, `FindKeepsPlace`,
`CopiedIsSelected`), `FoldersTravel` (`FoldersConverge`, `NobodyMovesFolders`),
`ImportsBring` (`ImportAccounts`, `PdfsReachTheirItems`), `FilesKept`
(`WatchSettles`, `ExportFaithful`), `SessionKept` (`SeenAgain`, `NotBounced`).
The comment before each says where it does not hold; those circumstances are the
known defects below.

`crdt_safety` is the adversarial run: two devices that may import the same PDF,
two clock readings (0 and 2, so that a device's clock can be behind the log),
two families of scenario (edits and deletions that race interrupted passes;
trashing that races passes whose transfers fail). Two edits and three operations
are enough for a device to record before and after learning of the other's
operation, for both to record concurrently, and for a pass to stop anywhere in
between; about 1.6 million states. Its properties are also proved, so the bounds
matter only for finding mistakes early.

`crdt_converge` is the run without failures: one importer, four edits, nine
operations, passes that users do not race. It shows that the protocol by itself
reaches agreement and then falls silent. What breaks that, one circumstance at a
time, is what the runs that end in a violation show (below), and exactly which
circumstances must be absent is what `CrdtSyncProofs` proves.

`sched` has two libraries, every hazard of the scheduler (failure, switch, new
library, deletion, restart, expired session), two edits, one remote change and one
failure or restart, which suffices for a failure during a pass that was itself
queued behind another, and for an id that is queued when its library goes.

`registry` has two devices, the default library and one more, two names, and
three scenarios of two or three user operations: tasks of a device that overlap
(two places for tasks on the first device); touched files, failed exchanges and
restarts; every kind of change with restarts but without failures. Two libraries
are enough for an active one to be deleted and another to follow, for a device to
create what another has not heard of, and for a rename, a deletion and a restart
to fall on both sides of an exchange; 0.67 million states. What holds in all
scenarios is that no library and no database is lost that no user deleted.
`ProfilesKept` and `Convergence` name in their statements the circumstances they
leave out: when tasks overlap, an old clone replaces a newer list, and the code has
nothing against it.

`desktop` has fifteen scenarios of commands (two or three commands, undo and redo
apart), ten of the viewer (three to six inputs), six of imports (two or three
orders), one part at a time, and two in which they meet: an import and a failing
command, an import and reading. Two entries, three folders (one in another, one to
come), two titles, tags, documents, pages, zoom widths, PDFs and notes: a command
before and after another on the same and on different rows, a late answer of a
document left for another, a note written while its list is read, a second import
of what the first brought.

`shell` has twelve scenarios of the list (three PDFs, one folder below the root,
two to four steps from three arrangements of the rows), the reload of styles with
three edits of two files, seven ways of looking at four pages in two windows (two
or three moves), and finding and selecting in three pages of text (four or five
inputs). The letters include one of two lower-case letters, one with a diacritic
and a line end, because lengths change when text is normalized.

`services` has eight scenarios of folders on two devices (three folders, one PDF,
two or three changes), eight of imports out of an account of four bookmarks and
three collections (pages of two, the ZIP from two PDFs on, two or three moves),
five of signing in (two accounts, five settings, sessions of three moments, up to
three tabs), seven of files (two PDFs, two watched places and one outside, three or
four errands, numbers up to three, the three kinds of export under the three ways
to treat conflicts) and four of sessions (a PDF of the library and another, one
folder, two pages, three or four acts, three pending writes); 0.94 million states,
about three minutes.

Each configuration names its bounds: `Max...` constants bound what users, failures,
other devices and the operator do, never what the program does in answer. Deadlock
is not checked where the bounds make the system stop.

Every property of a run that holds is backed by a mutant: the modules contain,
next to some definitions, a variant marked `Mutant:` that makes the mistake a
programmer could make there (the cursor moved to the current head, the marker
set without looking twice, times from the clock alone, a queue entry not
removed). `PROJECT.json` pairs each property with the variant under which TLC
reports it violated.

### Fairness

* `CrdtSync!FairSpec`: weak fairness of each device's pass. The auto-sync tick
  and the remote watcher keep starting passes, and a pass is a task that runs to
  its end. No fairness of users, failures or interruptions.
* `SyncScheduler!FairSpec`: weak fairness of the timer, of each watcher's report
  and its handler, of the end of a task and the handler of its message, of the
  start-up message, and of a user who is asked to sign in. The message queue of
  the runtime delivers what it holds. That a task ends is an assumption: the
  HTTP client has no timeout, and a request that hangs would keep its library in
  progress (a known defect below). No fairness of edits, switches, registry
  changes or restarts.
* `LibraryRegistry!FairSpec`: weak fairness of the start of syncs (start-up, the
  polling watcher) and of each task up to the handler of its message. No fairness
  of users, failures or restarts.
* `Desktop!DesktopSpec`: weak fairness of what the viewer has under way
  (`ReadingGoesOn`: results of renders, extracts, readings and writes, timers and
  their messages) and of an import's task and messages. Tasks run on their own
  threads and the runtime delivers their messages. No fairness of users, of
  crashes, or of the commands of the library, of which only resting places are
  claimed.
* `Shell` and `Services` state no liveness; what should come in the end is stated
  of states in which nothing is under way (`Quiet`, `Settled`, `AllDone`).

### What the code does not keep

Each is a run that ends in a counterexample; `PROJECT.json` quotes the sentence of
the repository that promises otherwise.

* `crdt_purge_trashed` — an entry trashed on one device before another has
  hydrated it is purged by the other, and from then on everywhere.
* `crdt_diverge` — a permanent deletion concurrent with a change of the trashed
  entry elsewhere: the change wins, but the device that deleted never gets the
  row back. The libraries differ for good although nothing failed.
* `crdt_skip_interrupted` — a pass that stops after storing the cursor and
  before materializing leaves a library that no later preflight repairs.
* `crdt_lost_edit` — an edit made after the scan is overwritten by the winner
  the same pass materializes, which may be the device's own pending operation,
  and never becomes an operation.
* `registry_revived` — a device that starts up records the libraries it lists
  before it pulls, so a library deleted elsewhere meanwhile is live again, and the
  device that deleted it lists it again with an empty database.

### Known defects outside the runs

Met while modelling. Those marked (TLC) have a counterexample in the models, in a
scenario that the runs leave out or that a property excepts in its comment; the
others come from reading. They are the reason for the exceptions in the properties.

*Content sync.* Two devices that imported the same PDF keep producing operations
for it, because `updated_at` of a payload comes from local columns (TLC;
`crdt.rs:748`). A pass interrupted between materializing and hydrating a new entry
leaves a live row without an entry, which the next seed takes for a deletion, and
the entry is purged everywhere (TLC; `NothingPurgedUnasked` needs its condition
for this). The same for folders (TLC; `db/sync.rs:1118`). A purged folder is put
back in the trash everywhere by the pass that publishes the purge (TLC; against
`database.md:117`). A pull between two inserts of a push moves a child folder to
the root as if the user had (TLC). Concurrent moves can close a cycle. The scan
reads live and trashed entries in two queries (`crdt.rs:743`). A failed download
is tried again only by a pass that pulls or materializes something (`run.rs:92`).

*Scheduling.* The id of a deleted library stays in the queue and, first in the
set's order, keeps the others waiting for good (TLC; `tasks.rs:198`). A failed
pass is not queued again; an edit that is saved after a switch queues the wrong
library; after a restart or a late sign-in only the active library is synced
(`update.rs:80`). The HTTP client has no timeout (`remote.rs:158`). Devices
without a configured id share a fallback (`shell/tasks.rs:154`).

*Registry.* Overlapping tasks replace each other's lists. When every library is
deleted elsewhere the active id becomes the default one, which no profile has
(`registry/tasks.rs:28`). Selecting a library while a task runs saves the old list
(`registry/mod.rs:53`).

*Organization and library screen.* Folders pasted while the trash is on the
screen hang below trashed ones; purging a trashed folder deletes a membership of
a live entry and can leave a live child behind; edits and reindexing of trashed
entries put them into the index; the lock of an undo is released by any
`LibraryLoaded`; overlapping `move_folder` can close a cycle; imports, permanent
deletions and tags of a card are not in the history; a folder trashed whose
index write fails gets no history node and no refresh. `search_generation` is
never compared, so an older search can end last; two refreshes can end in the
wrong order (TLC); trash that expires at a refresh beside a restore is restored
in the list of the task and stays in the index (TLC); of a folder that was
pasted in the trash view the entries are restored, but not indexed, with the
trashed folder above it (TLC); an undo past a purge and a new import of the same
PDF leaves the index as it was (TLC). A library switch resets neither history
nor clipboard nor lock. Reordering below a filter overwrites the manual order;
giving up a search prunes nothing (TLC); permanent deletion does not look whether
rows are trashed and confirmations are not modal. The results of a search are
listed whatever is shown when they come (`library/update.rs:102`): those of the
library, after the trash was opened, are offered there for permanent deletion (TLC).
`SelectImportReviewEntries` keeps
only the last; Ctrl+C in a text field also copies the selection; dialogs and
drafts survive a library switch.

*Viewer.* The text of an error that was dismissed is never shown again
(`shell/update.rs:424`): a page whose render fails with it once more stays blank,
with no error and nothing pending (TLC). Thumbnails carry no generation; a slower
older open wins; opening the
next document without leaving loses the page not yet saved; a reading that
overlaps a page write or a note command brings old values back, also the one at
the end of an import (found by the proof of `ReadingKept`); a note created
late goes to whichever document is open. The preset of the page's width resets the
horizontal offset at every report (TLC); in horizontal mode a match low on a tall
page is not scrolled to (TLC); the wheel reports the size of the content as that
of the viewport (TLC); with pages of mixed shapes the report after a jump can lose
the page (TLC); in page mode a note on another page is scrolled to by the old
layout (TLC). Short pages: `PreviousPage` can stick.

*Styles.* Overlapping reloads may apply the older reading last. A user file that
redefines a bundled theme drops the states defined before it. Changes before the
watcher's first snapshot go unnoticed.

*Raindrop.* `inserted` is decided by path, so the rollback of a cancelled import
deletes the row of the same PDF at another path (TLC). A cancel leaves the spawned
import running; a cancel and a new import while the rollback runs delete rows of
the finished one (TLC). A cancel that is handled while the result is already on its
way undoes an import that is then reported as finished (TLC). A cancelled import
into a new folder deletes earlier mirrored folders moved below it (TLC). Any
`LibraryError`, also that of a command on the library, ends the bar and drops the
handle; a later cancel then finds nothing to stop, and its rollback runs beside the
import (TLC). `to_raindrop` gives every previewed candidate a PDF file, so linked
PDFs use the cache endpoint and are never downloaded one by one (TLC; against
`import.rs:299-300`). A ZIP member of a bookmark that was not chosen can be
attached to one that was (TLC; against `matching.rs:17`). Listing by pages while
the account changes skips and repeats. A revoked token makes every import fail and
is never dropped.

*Sign-in.* An expired session gets through with a cached database token (TLC;
against the comment at `remote.rs:262`). Session files are written before the
email is checked, and torn by a crash. An old tab uses up the only request that is
accepted, and the attempt fails; the listener waits for ever. A token that is
refused stays cached for up to 30 days, healed by signing in again
(`SignInHeals`). The secret is derived from values of the files, so rotating a
token that is only in the environment keeps sessions alive.

*Files and export.* Events are handled by concurrent tasks, so a removal can be
applied after the creation that followed it, and a file still being written gets
an id of its own. A file moved out of the watched tree is never marked missing. A
rename over an existing path makes the insert fail. Removing one of two copies
marks the row missing. Exports: `Overwrite` lets two PDFs of one name overwrite
each other and counts both; `metadata.csv` and `.json` are overwritten in every
mode; exporting into a watched folder moves the rows to the copies, and what is
written while its watch starts is not told (TLC); an export that overwrites a file
imported from elsewhere leaves its row as it was (TLC); Escape during an export
allows a second one at once. Watched folders are not remembered over a restart;
relinking accepts any file, and a PDF that comes back by itself meanwhile ends with
the wrong one (TLC). `ExportSource::Folder` says "nested
membership" (`app.rs:479`) and exports direct members only.

*Session.* A document opened after going back to the library bounces into the
viewer; a failed open keeps the session pending, and a later `LibraryLoaded`
re-enters the viewer and resets filters; two writes of `session.json` can end out
of order; a crash while writing loses it; saves made while restoring write a
session without its document. "Library-mode sessions retain the last viewer path"
is not what `session.rs` does.

*Command line.* One checkpoint serves both directions, so older rows are skipped;
changes of the same second are never pushed; a pull overwrites newer local rows;
it and the app overwrite each other's `libraries.json`. Not modelled.

## 4. What is proved

All proofs are for arbitrary constants satisfying the named assumptions of the
modules: any set of devices with a greatest id, any finite set of entries, any
metadata, clocks and scenarios, any libraries and bounds, any accounts, settings and
lifetimes. The assumptions say what kind of value a constant is, that sets which
the code gives an order are finite or have a greatest element, and that the values
for "nothing" are none of the others.

**OpLog.** `LogInvariant`: every operation is in its author's log
(`OriginKeeps`), and stamps are unique. Together with the types they are
inductive: a new operation is later than all its author knows, and its author
knows all its own operations. `WinnerIsWinner`: given unique stamps the rule
picks exactly one winner (the maximum exists because times are bounded and
devices have a greatest id). `WinnerNeverRetreats`: logs only grow, so winners
only advance.

**CrdtSync.** `TypeCorrect`, `CursorNeverSkips`, `PushExactlyOnce`,
`SkippedScanIsEmpty`, `SyncStampsUnique` are conjuncts of one inductive
invariant, `IInv` of `CrdtSyncProofs`:

| Conjunct | Why it is needed |
|---|---|
| `TypeOK` | every other step |
| `Log!IInv` | uniqueness of stamps, on which the winner rests |
| `TimesBounded` | a winner exists: a log has a latest operation |
| `CursorCovered` | proved property |
| `HeadCovered` | between a pull and `AdvanceCursor` the pulled prefix is already in the log; that is why advancing keeps `CursorCovered` |
| `PushedIsPublished`, `NoDuplicatePush` | proved property `PushedOnce` |
| `BatchIsOwn` | what is pushed comes from the device's own log, so that pushing is `Publish` |
| `AffectedKnown` | an entity that is materialized has an operation, hence a winner |
| `TodoHasRow` | an entry that is hydrated has a sync row |
| `SnapshotSound` | proved property |
| `SeedFresh` | while no edit has landed since the seed, the rows agree with the local entries; that is what makes the marker sound |

There is one lemma per action, and under it one step per conjunct it disturbs.
`SyncImplementsOpLog` shows that initial states map to initial states and that
each action is a `Record` (`Prepare`), a `Publish` (`PushOne`), a `Learn` (the
pulls) or a stutter; `SyncWinnerAdvances` then follows from the abstract theorem.
`RecordedEditPrevails` uses that the scan starts past the whole log.
`AvailableEntriesHaveFiles` has its own small invariant on top
of `IInv`: the cache only grows, a row becomes managed only with its blob or as
missing, and replay clears `missing` only if the file is here.

**CrdtSync, when passes are calm** (`CrdtSyncProofs`, second part). Three properties that the
code keeps only as long as certain things do not happen. `Never(events)` says
that a behaviour's scenario has none of them, and the theorems have the form
`Spec => [](Never({...}) => Inv)`: the invariant is proved of every behaviour of
the one specification, not of a restricted one, and everything else may happen in
any order and on any number of devices.

| Theorem | Property | What must be absent | Invariant, besides `IInv` |
|---|---|---|---|
| `NothingPurgedUnasked` | `NoSpuriousPurge` | interrupted passes; trash before every device has the entry | `PurgeHeld`: an entry seen as trash anywhere is everywhere or was deleted by a user; a live row has its entry, but for what a pass is going to hydrate |
| `BlobsComeFirst` | `BlobBeforeMetadata` | interrupted passes; edits during passes; failed transfers | `BlobHeld`: a pending operation that promises a file is in R2 or ahead of the upload of its own pass; what is recorded as uploaded is in R2; while a pass is seeded its scan is clean |
| `SkippedPassIsSafe` | `SkipIsSafe` | as in the first row; and where entries are deleted, trash and edits during passes | `SkipHeld`: at rest nothing waits to be replayed; the version of an entity that is not waiting is that of its winner; a known entry has a row; no seed is left over; an entry that is absent was purged |

That each condition is needed was seen with TLC before the proof was attempted:
leaving any single one out gives a counterexample on two devices and one or two
entries. Three of them are the findings `crdt_purge_trashed`,
`crdt_skip_interrupted` and `crdt_diverge`. `crdt_converge` checks the same
invariants in its scenarios; the theorems cover more scenarios than that run, such
as edits that race passes (first and third) and trash with edits (third).

**SyncScheduler.** `SchedulerTypeCorrect` and `PassesNeverOverlap`: the number of
passes that run or have a report on its way is one for the library in progress
and none for others. It is inductive together with the types.

**LibraryRegistry** (`LibraryRegistryProofs`). `RegistryTyped`,
`NoSpuriousDeletionHolds` and `NothingLostHolds`, across overlapping tasks,
failures, restarts and touched files. The inductive invariant:

| Conjunct | Why it is needed |
|---|---|
| `TypeOK` | every other step |
| `Stamped` | the clock is past every operation, and a device records one operation of a library at a time, so that the winners of an exchange exist and are operations that were there |
| `OpsGivenUp` | a tombstone in the stream, or in the copy of it in a database, is of a library that a user deleted |
| `ListsGivenUp` | the same of the lists in memory and on disk |
| `TasksGivenUp` | the same of the clone that a task brings back, of the winners it is about to merge, and of the library it is about to remove: this is where a deletion could come from that nobody asked for |
| `Alone` | as long as tasks do not overlap: there is one task; what memory lists, its clone lists too; and from when it has saved, the disk as well. That is why neither its result nor a restart drops a profile |

That a device has a greatest id and that "nothing" is no stream were added to the
module's assumptions for this; before, a winner need not have existed.

**Services: SignIn** (`ServicesProofs`). `SignedInAsMeantHolds` and
`SignInHealsHolds`, for any accounts, tabs, lifetimes and settings, and any
interleaving of the app, the command line, answered tabs, stops and the operator.
They are proved of `SignInSpec`, which every behaviour of `ServicesSpec` meets
(`SignsAlone`: the part steps or rests). The inductive invariant has, besides types
and what an attempt has got at each of
its steps: `TabsOwned` (nonces are below the counter, and a tab with the nonce a
process waits for is one of its own: from it, `OwnAnswers`), `SessionsGood` (a
session that is younger than the last change of the settings, in the file, in an
attempt or in a pass, is signed with the secret of the server that runs),
`TokensGood` (a token cached for such a session is the one the settings give: a
cache entry is of an expiry, and one of an expiry that no older session can have is
young) and `LockedToExpected`. `SignInHealsHolds` is an action property: the pass
that ends with such a session gets through.

**Services: AppSession** (`ServicesProofs`). `SessionKeptHolds`: for any documents,
folders and pages, and any number of writes of `session.json` under way, what was on
the screen when the app quit is on it again after the next start, and nobody who
went to the library is taken back to a document. `ServicesTyped` has the types of
this part, of signing in and of the files. `SeenAgain` speaks of two moments, before the quit and
after the restart, so the invariant follows the session from the screen through the
writes and the file back to the screen:

| Conjunct | Why it is needed |
|---|---|
| `SessionTypeOK` | every other step; the queue of writes is a sequence of sessions |
| `WrittenHeld` | while the app runs, the last write that waits, or else the file, tells what is on the screen, but for the page while its save is still due. That is what a quit leaves in the file when the writes are done |
| `RunningHeld` | folders only go, so those in the library are among those that were loaded; and a document that is to be restored keeps the viewer: what is restored late cannot overwrite where the user went |
| `StoppedHeld` | while the app does not run nothing is under way, and the file has what was shown |
| `RestoringHeld` | from the start until the user does something, what was shown is on the screen, or the one request that will bring it is, with the pending session that gives the page |

Looking for it found that `SeenAgain` was too strong in a case the run's bounds left
out: an app that was started with a document that cannot be opened has an empty
viewer, and its session names no document. Such a moment is not taken for one that
comes back any more.

**Services: LibraryFiles** (`ServicesProofs`). `FilesKeptHolds`: for any PDFs,
folders and exports, any changes of watched files, any number of events and tasks
under way and any order in which the tasks end. The invariant, `FilesInv`, has three
parts:

| Part | While | What it says and why it is needed |
|---|---|---|
| `FTyped` | always | types; what every kind of task carries at each of its steps; rows have distinct paths; the drive is finite, so that a scan lists every file it finds |
| `Core` | what `WatchSettles` excepts does not happen (`Calm`) | `HeldHasRow`: a PDF with a file below an imported folder has a row with the path of a file that holds it, or one of its files waits to be looked at, as an event, as a task or in the scan of a folder. `RowHasFile`: a row there that is not marked missing has its file, or it waits to be told that the file went or changed. When nothing waits any more the two are `WatchSettles`. They need that what was hashed is still in the file when the row is written (`ReadsHold`), that a file told as removed has not come back (`GoneNoted`), that nothing is told of files aside, whose rows stay good (`EventsBeneath`, `RowsAside`, `Apart`), and that the pages of a row are those of its PDF (`PagesRead`) |
| `ExportOK` | an export does not overwrite | what was there before it is there (`BeforeHeld`), and what it wrote holds what it copied, each PDF in a place of its own (`MadeHeld`, `MadeApart`), for places that no other program touches; the archive is a file that was not there (`ZipNew`) |

`Core` is kept by three kinds of steps, each with a lemma of its own: files change
and a handler is told of each (`TouchCore`), tasks come and go and no place that
waits is forgotten or an error is shown (`TasksCore`), a row is written or marked
for what was read (`RowCore`, `MissingCore`). What the proof assumes of the world is
what the module assumes: a file is left alone while it is read and while its last
change waits to be handled. The proof showed three cases in which the rows need not
follow the files, each then confirmed by TLC: a PDF that is linked to a file with
something else while it comes back by itself, an export into a watched folder whose
watch is being set up, and an export over a file that was imported from elsewhere.
`WatchSettles` excepts them, and the last two are excluded only from this property;
that an export is faithful is proved of every errand.

**Desktop** (`DesktopProofs`). `TreeSoundHolds`, `OnlyTrashDeletedHolds` and
`HistoryMatchesStoreHolds` are theorems of `DesktopSpec`, the composition, so that
the library screen, the viewer and imports go on beside the commands. They hold of
libraries of any size, from any start that `StartAssumption` of `Organization`
allows: what was given an id is there, the folders are a forest whose live part
can be reached, and what is not there has no tags. The assumption is needed
because a start with a lost id or a broken tree is none that the program produces,
and the three properties would not hold of it. The inductive invariant has three
parts, each for as long as its circumstances last:

| Part | While | What it says and why it is needed |
|---|---|---|
| `CoreInv` | commands wait for one another | the store has its shape, as have the snapshots of the one task that runs and of every node; a node hangs from an older one; what a task will create has ids left. This carries the other two |
| `TreeInv` | and nothing is pasted in the trash view | the folders of the store, and of every snapshot and node, are such a forest within the ids given out, because an undo replays a node; what a task was given (`Ready`) is still so when it comes to it: the target of a move is live and, once looked at, not below what is moved; what is purged for good is not live |
| `HistoryInv` | and every command is one the history records, and gets through | `Follows`: until a task changes something the store is the `after` of the current node, and its first snapshot is that; so the node it files starts where its parent ended. All nodes have the same rows but for their status, so that a rewind, which can only update rows, brings back the whole of its node |

The proof states once what each command does to the store (`Plain`,
`SparesEntries`, `SparesFolders`, `SameRows`) and which steps a task takes (`Begin`,
`End`, `Rests`, `Alters`, `Rewinds`: `TaskSteps`), and the three inductions go over
those few kinds of steps. `Subtree`, a least fixed point, needs no induction: it is
the intersection of the closed sets around a folder, and the lemmas about it give
the closed set that makes their case. That each circumstance the three properties
except is needed was seen with TLC: dropping any single one gives a counterexample
of two to four commands. These are defects listed above.

**Desktop, from the store to what is seen** (`SearchProofs`). `ScreenIsCurrentHolds`
and `SearchFindsHolds` follow a change from the database to the list on the screen,
to the index of the full-text search and to the results of a search. Both are about
a user whose every input waits for the last, with nothing coming from Raindrop
(`InTurn`); the invariant has four parts on top of `DesktopInv`:

| Part | While | What it says and why it is needed |
|---|---|---|
| `ShownInv` | `Steady`: `InTurn`, commands wait for one another, the index can be written | at most one reading of the library is under way, only after the task has ended, and what it has read is still so; as long as a task has changed nothing the screen shows the store. A task that fails has changed nothing |
| `ResultsInv` | and what `ResultsAreCurrent` excepts does not happen | a search past its debounce is for what is in the box and in the view on the screen, and what it has found is what is there; while a command runs there is none. A search that waits will ask again, so only without one need the results be right |
| `TracedInv` | `Steady`, without file imports | along the history, the `before` of a node and the `after` of its parent tell the same of all entries that there still are; so what an undo finds changed in the index (`SearchChanged`) is all that it has changed. `HistoryInv` would be too strong: purges and expiries, which the history does not record, are among these commands |
| `IndexInv` | `Steady`, and what `IndexCoversLibrary` excepts does not happen | the index is right for every entry but those the task in hand has still to write (`Due`), and what the task will write, from the list it was given (`Given`), is right for these. This is an induction over the steps of each command between its transaction and its `SearchIndexTask` |

The proofs turned up four statements that were too strong, each then confirmed
by a counterexample of TLC on a larger instance than the run's: trash that
expires beside a restore is lost to the index, when a refresh lets it run beside
the command; of two readings at once the older may come last; entries of a
folder that was pasted in the trash view are restored without being indexed; and
an undo past a purge and a new import of the same PDF leaves the index as it
was. `IndexCoversLibrary`, and `InTurn` in the two properties of `Desktop`, say
so now.

**Desktop, the document and what is kept of it** (`ReadingProofs`). `ReadingTyped`,
`PagesStayOfDocument` and `ReadingKeptHolds`: for any documents, pages, widths and
annotations, beside any commands and, but for the list of annotations, beside
imports. What is on the screen is of the document that is open, whatever arrives
late of another; a document opens on the page on which it was last seen; the list
of annotations shows those of the document and no others. The inductive
invariant has three parts:

| Part | While | What it says and why it is needed |
|---|---|---|
| `ViewerHeld` | always; of thumbnails, unless documents change while one is being rendered (`quick`) | types; no generation is ahead of its counter, and a render or an extract of the current generation is of the document that is open. So an answer that is taken is one for this document |
| `ProgressHeld` | `Orderly`: inputs wait for what is under way, and the library is not switched | a page on its way to the database waits first as an update and then as a write, and a reading of the list may be older than either. `Comes` is the page a document has once both queues are written in turn; it is the page last saved of the open document, and the page last seen of every other. In the library, with no reading to come, both queues are empty, and the last reading has what the database has |
| `NotesHeld` | `NotesAlone`: commands on annotations wait for one another, and nothing is imported | a command is of the open document, and `Behind` says what the list lacks until its result arrives: after a creation all but the new one, after an edit or a deletion one with an older text or one too many. A reading of the current generation is of this document and has what the database has |

Two statements had to be corrected. Two alternatives of `NoteFinished` applied to an
edit that failed, so that what it does was left to which is looked at first. And an import, or its undo, reads the
library again at its end; when that falls beside a command on an annotation, the
list is loaded while the result is on its way, and the annotation appears twice or
is not there. `ReadingKept` leaves out that case now (a known defect above).

**Desktop, what comes from Raindrop** (`DesktopProofs`, last part). `RaindropTyped`
and `FinishedStaysHolds`: for any PDFs, any number of imports, and beside any
commands. An import is a detached task; what it has brought is told in steps, saved
in a file, and deleted by a cancel or at the next start. What the user was told has
finished (`settled`), and what the library had before, must not be among it. Reports
that are late do come after the result and are saved again, so the file is not
empty when the import is over; the invariant says why that is harmless:

| Part | What it says and why it is needed |
|---|---|
| `LibraryHeld` | what is settled is there, at the path of the download. The rollback goes by this path (`Inserted`), so a PDF elsewhere would be taken for a new one |
| `ToldHeld` | nothing that is to be undone, shown in the bar, being undone, in a message or told by an import that is still heard names a settled row or folder as new. These are all the places from which a rollback gets its list, so each has to be followed |
| `TurnHeld` | while an import is heard it is the last that began, the bar has its handle, nothing is undone and no result is on its way; a result is the last message and there is no other import; before the check at the start there is nothing at all. So a cancel before the result leaves no result, and after it there is nothing to undo |
| `FoldersHeld` | the mirrored folder is in another only if it was made in it, and then no import comes after the one that settled it |
| `Untouched` | before the first command no task of the library runs and there is nothing to undo, so no command can fail and drop the bar. This ties the commands to the imports, and needs `ActsCounted` |

The proof found that `SettledStays` was too strong as it stood, and TLC confirmed
each circumstance that it excepts now (`ImportsInTurn`, `FinishedStays`) with a
counterexample: an import that begins beside another, a cancel after the result, a
mirrored folder moved by a later import into its own new one, a PDF that the library
has elsewhere, and a cancel after a command that failed. They are among the known
defects above. Cancels, crashes, failing rollbacks and any number of imports one
after another remain.

### Only model-checked

* Liveness and what rests on fairness: `Convergence`, `ConvergesQuietly`,
  `QueueServedWhileKept`, `ChangesTravel` and `WorkEnds`. TLAPS has no `ENABLED`.
* `StylesSettle`, `TextStands`, `ImportsBring`: they compare folds over
  sequences (nodes of a file, letters, members of an archive) with a definition of
  what the fold should give. That takes induction over data, which the installed
  provers cannot do.
* `ViewFollows`: arithmetic with divisions and folds over the rows of a layout.
* `FoldersTravel`: an inductive invariant for it is the next one to look for (below).
* The type invariants of `FolderSync` and `RaindropTransfer`: what a pass makes of a
  store, and what is left of a list of bookmarks, are folds and filters of sequences.
* `DesktopTypeOK`: the parts of it for `Reading` and `RaindropImport` are theorems
  (`ReadingTyped`, `RaindropTyped`); that of `Organization` needs the type of a fold over
  the positions of a folder's siblings (`NextOrder`), an induction over a set.
  `ShellTypeOK`: the lists it speaks of are folds and filters of sequences too.
* `BrowserActsOnSight`: what is visible is what `SetToSortSeq` makes of the rows. That
  it is sorted, and has each row once, has to be proved first, and was not attempted.
* `UnrecordedEditKept`, `TombstonesKept` and the properties of the runs that end
  in a violation: false in general.

## 5. Plan

The modules of the inventory are there. For the proofs, in this order:

1. `FolderSync`: its operations are those of an `OpLog`, as in `CrdtSync`.
2. `IdleIsQuiet` under conditions like those of the calm passes of `CrdtSync`.

For the models: clocks that differ in `LibraryRegistry`, a crash between the steps of
a deletion there, and the legacy row sync of the command line.

## 6. Not modelled

* Naming and PDF metadata (`pdf-folio-core/src/naming`, filename and title parsing):
  values, not behaviour; what comes out is a constant.
* pdfium, page geometry and text extraction: floating point and foreign code. What
  surrounds them, requests and late answers, is in `Viewer` and `TextView`, the
  layout in whole steps in `PageView`.
* Drawing: view components, dialogs, menus, the context menu, shortcuts, fades,
  thumbnails of covers, and most of the patched widget; no state that outlives a
  frame except what `LibraryBrowser`, `PageView` and `TextView` have.
* The signatures of storage addresses and the wire formats of the server, Turso,
  Google and Raindrop.
* The command line apart from signing in: single passes, and the legacy row push and
  pull that only it uses.
* Ratings, the grammar of style files and most of their properties, which are one
  of a kind each.
* The documentation site and packaging.

Hazards that were seen and left out of the list of `PROJECT.json` are among the
known defects above; a crash between saving the registry and removing a library's
storage (`registry/session.rs:136`) is listed there without a property.

## 7. Running

`tlc -workers 2 -config <run>.cfg <module>.tla` with `MCCrdtSync` for the runs that
begin with `crdt`, `MCSyncScheduler` for `sched`, `MCLibraryRegistry` for those that
begin with `registry`, and `MCDesktop`, `MCShell`, `MCServices`. `tlapm` with
`OpLog.tla`, `CrdtSyncProofs.tla`, `SyncSchedulerProofs.tla`,
`LibraryRegistryProofs.tla`, `ServicesProofs.tla`, `DesktopProofs.tla`,
`SearchProofs.tla` and `ReadingProofs.tla`. The runs take up to three minutes each, the proofs some minutes
in all.
