# TLA+ models of the file store

The repository is a file store made of four Go services (auth, metadata,
upload, sharing) over ScyllaDB, NATS JetStream and an object store, with a web
and a native client. Files are lists of content-addressed blocks. A block is
stored once, counted by the files and versions that name it, and collected when
nothing counts it any more. Nothing here runs in a transaction: every operation
is a sequence of single-row statements, some of them lightweight transactions
(`IF ...`), storage calls and published messages, and any process may stop
between two of them. The clients are React applications: state in hooks, effects, timers and
calls whose answers come late, to a screen that has moved on. This directory models
what happens to blocks and to the files that name them, and what the clients do
between a call and its answer.

    BlockLifecycle      what the blocks table promises            (abstract)
      ^ implemented by
    BlockStore          uploads, edits, decrements, GC workers    (upload service)
    BlockStoreProofs    types, the fence, the refinement, the bytes, the counts, the GC list

    DecrefPromise       what a decrement request promises         (abstract)
      ^ implemented by            ^ used as the environment of
    DecrefLedger                PurgeSaga
    DecrefLedgerProofs          PurgeSagaProofs

    VersionCommit               saving an edited file             (metadata service)
    UploadSession               chunks of one upload              (upload service)
    Consolidation               consolidated copies and their readers
    ServiceProofs               the three above: saves, received chunks, copies

    NativeSession               the native app's session against the auth service
    WebSession                  the web app's cookies, proxy and sign-in

    PdfDocument PdfTools PdfProperties PdfPanels PdfDialogs      PDF editor
    PdfViewer PdfPages PdfRotation PdfText                       PDF viewer
    XlsxViewer SheetTabs XlsxEditor XlsxCells                    spreadsheets
    DocxViewer DocxEditor DocxToolbar                            documents
    EditSession                                                  the edit route
    Uploads FilePreview FileGrid TrashView                       uploads, file views
    WebProofs                   the edit route, the web session, the preview, the grid, the trash, docx and workbook viewer
    ViewerProofs                the PDF editor's document, text selection, thumbnails, sheet previews, style cards, uploads
    DocumentProofs              the PDF editor's tools, properties, dialogs, panels; PDF viewer, docx and workbook editor;
                                the native session

    Clients                     the clients and the three service parts put together
    ClientsProofs               what the proofs of the parts say of Clients

    MC*.tla, MC*.cfg    instances for TLC

The two halves of a permanent delete meet in `DecrefPromise`: `PurgeSaga`
(metadata service) takes its `Request`, `Settle` and `Report` as the steps of the other
service, and `DecrefLedger` (upload service) is proved to implement it. There a block is a
number that can run out; what one decrement does to the row, statement by statement, is `BlockStore`'s `drop`.

## 1. Inventory

For each component: the state it keeps, its operations, what it interacts with,
what is hard about it, and what makes it correct. "modelled", "partly" and "not
modelled" are the statuses of `PROJECT.json`.

**Block store** (upload service; modelled).
State: `blocks` (hash, `ref_count`, `state`), the bytes in the storage backend,
`block_gc_candidates`. Operations: `ReceiveChunk` (one reference per chunk),
`WriteEditBlock` (staged at zero references with a candidate), `CommitEdit` (references of
a committed version), `DecrementRefCount` for every purged reference, and the GC
worker: sweep eligible candidates, fence, delete bytes, delete row, unlist.
Hard: reads and compare-and-sets of many requests interleave with GC workers of
several instances; the last two deletes are unconditional; three tables and a
backend are written one at a time. Correct when a fenced block is counted by
nobody, every owner is counted, a live row has its bytes, bytes that a file names are
not collected, and nothing unreferenced is forgotten.

**Decrement ledger** (upload service; modelled).
State: the `BLOCK_REFS_CMD` work queue and `block_decrement_operations`, one row per
(job, occurrence). Operations: claim, take over a stale claim, apply, write the
terminal row, report, acknowledge. Hard: at-least-once delivery, re-drives, a
limited number of deliveries, claims that go stale under a slow holder, crashes
between the decrement and the row. Correct when an operation is decremented once,
a batch is reported only when settled, and every batch asked for is reported.

**Purge saga** (metadata service; partly).
State: `purge_jobs`, `purge_jobs_active`, the file's rows, `BLOCK_REFS_EVT`.
Operations: request, completion delivery, sweeper claim and dispatch, removal of the
metadata. Hard: three kinds of process work from snapshots of one row and write it
without a condition; job row and work list are two writes; a removed file no longer
knows its name. Correct when metadata goes only after every reference was given
back, COMPLETE means gone, an unfinished job stays on the work list, and a listed
job ends.

**Message delivery** (`pkg/natsx`, `pkg/events`; partly). Outcomes of a handler (ack,
term, retry, retry-after, exhaustion), MsgId deduplication, dead letters. They are
part of the consumers that use them; retry schedules and topology are not modelled.

**Versions and editing** (metadata service; modelled). State: `file_versions`, `file_head`, and the
copy of the head in the file's rows and manifest. `CommitVersion` checks the base, verifies
the blocks, wins `INSERT ... IF NOT EXISTS` on the version row, advances the head by CAS,
rewrites the projections and invalidates the consolidated object. Hard: a version row that
was won by a commit that died before the head advanced, retries that must be recognised
as their own by their content, projections of two commits written in the other order.
Correct when a version number is won once and by a save made from the version before, a save that was told it is
committed is kept, and the rows show the head once nobody is writing.

**Upload sessions** (upload service; partly). State: `upload_sessions` (chunk map,
bitmap, status), a Redis offset. `RecordBlockForChunk` reads the whole map and writes
it back, so two chunks at once can lose one (its reference stays counted), and two
last chunks can finalise twice. Correct when every acknowledged chunk stays recorded, one session makes one
file of all its chunks, none after an abort, and every reference is named.

**Consolidation stitcher** (metadata service; modelled). State: `stitched_objects`, its
per-state work index, S3 objects. Claim, stitch, `MarkReady`/`MarkFailed`/`MarkSkipped`
are read-then-write next to commits that delete the row and purges. Correct when a
ready object is the content of the head, a file that waits is in the index, and a purge leaves nothing.

**Previews and thumbnails** (metadata service; not modelled). A consumer of file-stored
events with a pending sweeper; a preview of an older version may land last.

**Content and downloads** (partly). State: a manifest cache per process, which also remembers whether there is a
consolidated object. A read takes the manifest, the key and the bytes one after the other, next to commits and sweeps. Correct
when bytes go out under the tag of their own version, and under a pinned ticket only of the version it names. Ranges,
presigned URLs and streaming are not modelled.

**Folders, files and their indexes** (metadata service; partly). One logical file is a row
in each of `files_by_id`, `files_by_folder`, `folder_items_by_*`; creates, renames,
moves and the soft delete rewrite them one by one. Correct when the indexes agree
with the file once nobody is writing. `PurgeSaga` has a user's delete, restore, rename and move of
the file being purged: the read, the file's rows, the folder's index.

**Authentication** (auth service, `pkg/token`, `pkg/jwks`; partly). Session rows with a
generation counter, a cache in each process, rotation of refresh tokens and of signing keys.
Hard: a rotation is decided on a cached generation and settled by a CAS; another process,
a logout or a clean-up may have moved it in between. Correct when a generation is
rotated once and a session that is gone stays gone. It is in the two client sessions by what a call can be answered:
a process may judge a token by any generation its cache can hold, and may be asked between the CAS and the
cached pair (`auth_service.go` 250-285). The statements of two instances are not modelled one by one.

**Sharing** (not modelled): rows of shares and public links, and a permission cache in Redis that a
revocation and a concurrent check may leave stale until its TTL.

**Native session** (modelled). State: the access token in a module variable, the refresh
token in the keychain, one promise for the rotation under way, the session store. Operations: launch,
authenticated calls with one repair, foreground, sign-in, sign-up, sign-out. Hard: keychain
operations are asynchronous, queue up and may be rejected, the app may be killed anywhere, and a refresh token presented
twice, or judged by an old cache entry, is theft to the service. Correct when memory and keychain end up with one pair and no
rotation of this device is taken for theft.

**Web session** (modelled). State: two cookies, a map of refreshes under way in each web server process,
a key cache. Operations: pages and RPCs through the proxy, sign-in, sign-up and sign-out actions.
Hard: parallel requests, several processes, answers that set cookies in any order, keys that
cannot be fetched. Correct when one failure does not sign the user out.

**PDF editor** (partly). State: input, sources, documents of the engine, mode, tool, selection,
panels, dialogs, drafts and timers. Operations: open, unlock, replace, save, flatten, page operations, tools and
keys, properties, attachments, comments, dialogs, search. Hard: every engine call is answered later, to
whatever is on screen by then. Correct when nothing is lost, written or removed that the
user did not ask for, and documents are closed again.

**PDF viewer** (partly). State: source or picked file, documents, scroll position, selected thumbnails, rotations,
search. Hard: overlapping openings, and scroll positions that must follow a layout that changes. Correct when
the newest file (or its error) is shown, the page being read stays, visible thumbnails are drawn, and
only the newest search scrolls.

**Spreadsheets** (partly). State: workbook, sheets, active cell, formula draft, search with its jobs, merges, preview
cards. Correct when a draft lands where its edit began, results are those of the text in the field, merged regions
are disjoint, and previews go away.

**Documents (docx)** (partly). State: url, picked file, import queue, one engine model, zoom, pages, pop-ups. Correct when
the viewer shows the newest load and a document shown as ready is one that was imported.

**Edit route** (modelled). State: the session query, the editor it feeds, `saveState`, the abort handle. Operations: load, edit,
save (collect, hash, prepare, upload, commit, settle), cancel, leave. Hard: a save of minutes next to
refetches, another save and other people's commits. Correct when nothing is overwritten that was not shown,
and only sent blocks are committed.

**Uploads** (modelled). State: Uppy's list, its batches, a loop per file, the drawer. Correct when a file shown as uploaded has
all its chunks in one session.

**File views** (partly): grid, preview, trash, drag and drop, rename. State: listing, selection, mutations under way,
navigations, tickets and probes. Correct when a command acts on what it was given for, and
opening the editor is not taken back.

**Other screens, generated code, deployment** (not modelled): presentation over cached queries (including the
native file and home screens and the recent, shared and search views), protobuf output, schema and start-up.

`PROJECT.json` lists the hazards of this code line by line.

## 2. Plan

Most important behaviour first; each module is written to be proved about (constants
with named assumptions, one action per statement, no RECURSIVE operator).

1. `BlockStore` with `BlockLifecycle` - done, checked, safety and refinement proved.
2. `DecrefLedger` with `DecrefPromise` - done, checked, safety and refinement proved.
3. `PurgeSaga` on top of `DecrefPromise` - done, checked, safety proved.
4. `VersionCommit`: commits, duplicate and conflicting retries over version rows, the head
   and its copies - done, checked in `Clients`, safety proved; the liveness of a won version is refuted.
5. `UploadSession`: the chunk map, lost updates, double finalisation, aborts - done, checked in `Clients` and proved.
6. `Consolidation`: claims, `MarkReady` against invalidation and purge, the work index, the content server - done, checked in `Clients` and proved.
7. `FileIndexes`: creates, and every index of one item (`PurgeSaga` has one index and one call at a time) - to do.
8. `NativeSession` and `WebSession`: done, checked and proved.
9. The web app: the five `Pdf*` modules of the editor, the four of the viewer, four spreadsheet modules, three
   docx modules, `EditSession`, `Uploads`, `FilePreview`, `FileGrid`, `TrashView` - done and checked together in
   `MCClients`, their properties proved (`PdfPages` states none: it is there for its steps).
10. `SessionRotation`: two auth service instances statement by statement, refining the choices that `NativeSession`
    and `WebSession` leave open - to do.

Every invariant that a run checks is proved, and every action property. What is left to do is new models:
7 and 10 above, and the previews and thumbnails.

## 3. Modules and how they correspond to the code

### BlockStore (and BlockLifecycle)

`state`, `ref`, `object` and `candidate` are the `blocks` row (`state` null is `"active"`, no row is
`"absent"`), the backend object and the `block_gc_candidates` row (`"young"` inside its grace period,
`"eligible"` past it). `client[c]` is one request or delivery and the step it is at, `reaper[r]`
one GC worker with the rest of its batch: the first `SweepLimit` candidates in the order in which a scan
meets them (`Token`, `Ahead`, `Batch`). One action is one database or storage call:

| code | actions |
| --- | --- |
| `ReceiveChunk` | `StartChunk` `GetBlock` `BlockExists` `RepairBlock` `WriteBlock` `InsertBlock` `IncrementRead` `IncrementApplied` `IncrementRefused` `RecordChunk` |
| `WriteEditBlock` | `StartStage` `GetBlock` `BlockExists` `RepairBlock` `WriteBlock` `InsertStagedBlock` `RereadStaged` `MarkGCCandidate` |
| `applyEditReferences` | `StartCommit` `ClearCandidate` `IncrementRead` `IncrementApplied` `IncrementRefused` |
| `applyOp` | `StartDrop` `DecrementRead` `DecrementCAS` `MarkGCCandidate` `UpdateBlockDecrement` |
| `BlockGCWorker` | `Sweep` `ReapGet` `ReapFence` `ReapErase` `ReapStrike` `ReapUnlist` |
| time, failures | `Mature` `Expire` `ClientCrash` `ReapFail` `ReapCrash` `FaultsCease` |

A failing call and a dying process are the same step where the code does the same afterwards.
`owners` and `blame` are history variables: no action reads them except to start a request
that needs an owner. `owners` counts the chunk maps and versions that name a block and
will each ask for one decrement. `blame` names the windows in which the bookkeeping
of a block goes wrong:

- `miscounted`: `InsertBlock` was refused by a row that appeared meanwhile, a commit did not
  apply its references, or a decrement ran again after it had been applied;
- `leaked`: unreferenced, and nothing tells the GC;
- `expired`: unreferenced, and its candidate row reached the table's 30 days on the list;
- `crossed`: erased under a writer that had put its bytes and was about to insert the row.

An invariant of the form "P, or the block is blamed" says that these windows are all
there are: TLC visits every interleaving, and a change of the code that opens another
window violates it. The windows themselves are shown reachable by the `violation` runs.

### DecrefLedger (and DecrefPromise)

A message is a batch and the try it was published under. `status`, `stamp` and `stale` are the ledger
row: its status, `updated_at` as a counter of writes, and whether it is older than `staleAfter`.
`Claim`, `ReadClaim`, `TakeOver` and `Reread` are the four statements of
`ClaimBlockDecrement`; `Apply` is `applyOp` up to the row, with its four ends: a malformed hash, a decrement, a count
of zero that is left alone and recorded as applied all the same, a row that is gone; `Settle` is `UpdateBlockDecrement`; `Report`
and `Ack` come in the code's order. `Requeue` is a nack, with the claim waited out
for `RetryAfter`, and the dead letter queue once the deliveries are used up. `hits` and `lapsed` are
history: how often an operation was decremented, and whether a holder was cut off or
overtaken between the decrement and the row. `count[b]` is the block's `ref_count`, which others move too (`Reference`,
`Unreference`); `short` is history: the blocks on which they took a reference that an operation here had still to give back.
`LedgerIsTruthful` says that only such a block, or one on which an operation decremented twice, settles an operation
without its decrement. `PromptWorkers` says whether `staleAfter` and the
ack deadline outlast every running handler.

### PurgeSaga

One file and its job. `job` is the `purge_jobs` row, `active` the work-list row, `file` the file's own rows (its
status and its place, a folder and a name), `index` the places under which the folder's index has it, `proc[p]` the process's
snapshot and step. `user[u]` is one call of the owner, `Trash`, `Restore` or `Relocate` (rename, move): it reads the file,
then writes the rows (`WriteRows`, upserts: after a removal they leave a `"remnant"` without name or owner), then replaces the index row
(`ReplaceItem`, whose errors are only logged). Requests, deliveries and sweepers share the tails of their
work as the code does: `SetBatchCount`/`Publish` (`publishRequestV2`, `publishBatchRedrive`),
`AdvanceState`/`MirrorState` (`UpdateState`: two writes), `RemoveCore`/`RemoveIndex`
(`RemoveMetadataAndComplete`). `Publish` may be swallowed by the broker's dedup window, and so
may the completion of a re-driven batch. A job leaves the sweepers' window of hours whatever it has come to (`WindowPasses`);
then only a repeated request or a late completion moves it on. `blame` holds `unlisted` (an unfinished job left
the work list), `overdue` (its hour left the window), `ghost` (a file's name was forgotten before its index rows went), `misfiled` (the index did
not agree with the file's row when that was removed) and `crossed` (a call that had read the file before its removal wrote afterwards).

### VersionCommit

`row[v]` is the `file_versions` row: the bytes and, as history, the bytes its save had loaded. `head` is `file_head`; `file`, `folder`,
`sorted` and `manifest` say which version each copy of the content describes (`sorted` and `manifest` are sets, because an insert
and a delete of another key leave two). `request[r]` is one `CommitVersion`, `shown[e]` what `GetEditSession` gave an editor. One action is one
statement: `GetFileOwned` `Resolve` `InsertFileVersionIfAbsent` `ResolveLost` (`CommitVersion`, `CommitVersionRow`), `GetFileHead`
`AdvanceFileHead` (the CAS loop), `UpdateFile` `UpdateFolderFile` `InsertFilesByFolderUpdated` `DeleteFilesByFolderUpdated`
`DeleteFileManifest` `WriteFileManifest` (`ApplyHeadContent`). `Fail` is a death anywhere, or a failed statement: before the head moved it is an error
to the caller, after it a logged one. The rows may be left behind in two ways, which the history variables name: `cut` (a save failed after it had won)
and `crossed` (a save began before its base was written out, or while another one was writing).

### UploadSession

`status` and `map` are the `upload_sessions` row, `files` the block lists `CreateFile` was called with, `call[k]` one `ReceiveChunk` with the copies
of the row it holds: `GetSession` (its checks), `TakeReference`, `ReadChunkMap` and `RecordBlockForChunk` (the read and the write of
`RecordBlockForChunk`), `BeginUpload`, `CountChunks`, then `LoadSession`, `CreateMetadataRecord`, `CompleteSession` (`finalizeUpload`). `AbortUpload`
only writes the status. An offset has no upper bound (`upload_service.go` 354-362) and the recorded chunks are counted, whichever they are
(430-431): `Beyond` chunks past the end may be sent, and one of them can stand in for a missing one (`Strayed`). History names what goes wrong: `overlap` (two calls between that read and that write), `doubled` (two calls about one chunk),
`company` (a file was made while another call was under way), `late` (a call under way at the abort). `session_repo.go:94` asks callers
to "serialize updates for one upload"; the web client does (`Uploads`: one loop per file, one chunk at a time), the service does not.

### Consolidation

`stitchRow` and `index` are `stitched_objects` and `stitched_objects_by_state`, `object` the version of the bytes under the file's one key, `fileManifest`
the version `file_manifest` holds. A commit is reduced to what it does here: the manifest, the cache, the object, the row, the index (the deletes of its
three entries are one step), the enqueue.

| code | actions |
| --- | --- |
| `sweepOnce`, `ListPending` | `ListPending` `ReapIndex` `ReadManifest` `Stitch` |
| `ClaimForStitch` | `ReadClaim` `IndexClaim` `InsertClaim` `UpdateClaim` `IndexStitching` |
| `MarkReady`, `MarkSkipped`, `MarkFailed` | `StateOf` `MarkReady` `MarkSkipped` `DropIndex` `MarkFailed` `IndexFailed` |
| `applyCommittedVersion`, `RemoveMetadataAndComplete` | `Commit` `Purge` `ClearManifest` `RewriteManifest` `InvalidateManifest` `DeleteConsolidated` `DeleteRow` `ClearIndex` `Enqueue...` `JobFails` |
| `handleContent`, `loadManifestCached` | `HandleContent` `GetFileManifest` `GetStitchedObjectKey` `CacheManifest` `Stream` `CacheExpires` |

A file is not enqueued when it is created (only the backfill command and a commit call `Enqueue`), so both a registered and an unregistered file are
initial states. History: `raced` (a sweep was at work during a commit or purge), `overlapped` (a read was), `lost` (a step of a commit failed), `shared` and
`torn` (two workers were at work on the file at once, a death between two index writes).

### NativeSession

A token pair is its session and generation. `ops` is the queue of keychain calls (a read or a write, and the flow that awaits
it); `KeychainDone` serves the oldest and the flow goes on. `rot` is `inFlightRefresh`, `boot` the launch, `login[s]` the sign-in that
makes session `s`. `KeychainRejects` rejects the oldest operation instead: what `setTokens` did to the memory before awaiting it stays. `ServeRefresh` is
`AuthService.RefreshToken` in any process: a replaced token may get the cached pair, which the rotating process holds; a token is judged by
the row or by a generation that the process's session cache may still hold (`Held`: any the session has had), and one that is not that generation ends the session as
stolen; a current one rotates. History: `lost` (a rotation whose answer or write this
device never finished), `misled` (a session killed on the word of a cached generation that the row had left behind), `unsaved` (the pair whose write
was rejected last). The two invariants name these as the only excuses.

| code | actions |
| --- | --- |
| `tokenManager.ts` | `BootRead` `KeychainDone` `KeychainRejects` `ServeRefresh` `RefreshLost` `RotateAnswered` `EnsureRotation` `SetTokens` `ClearTokens` |
| `rpc.ts`, `_layout.tsx` | `StartRequest` `RequestRefused` `RequestSettles` `Foreground` |
| auth hooks and screens | `SubmitLogin` `SubmitRegister` `LoginAnswered` `LoginFails` `StartLogout` `LogoutCalled` |
| environment | `AccessTokenAges` `ReplacedExpires` `SessionEnds` `Kill` |

### WebSession

`jar` holds the two cookies, `request[r]` one page or RPC request, `shared[w]` process `w`'s map of refreshes under way, `keys[w]` its key cache.
`RefreshTokens` joins or starts a refresh, `SharedSettles` ends it, `Retry` is the second attempt, `Deliver` sets the cookies in the order in which
answers reach the browser. A refresh is served in step (`RefreshToken`: caches and row agree) or out of step (`RefreshOutOfStep`: by a process that is asked between the CAS and the cached pair of
another, or whose caches are behind the row; it takes the token for a replay, or loses its CAS).
`excuse` records why a session may end: there was none to begin with, a key fetch failed, the user signed
out, a replaced pair expired at the service while a request still held it, or a call was served out of step. `OneFailureIsSurvived` says that nothing else ends it, one lost call included.

### The web app's screens

| module | state of the code | its main actions |
| --- | --- | --- |
| PdfDocument | `useEditorSource`, `PdfEditorDocumentLoader`, the documents of the engine, jobs | `ChangeInput` `OpenSource` `OpenAnswered` `RetryDocument` `StartSave` `AskFlatten` `AskDelete` `JobCommits` `JobWorks` `JobLands` |
| PdfTools | mode, pointer tool, selection, locks, history, the two confirm questions | `SetMode` `SetFormDesign` `Pick...Tool` `DeleteSelected` `EscapeKey` `Ask` `Confirm` `ClearPending` `Undo` `Redo` |
| PdfProperties | `useDebouncedCommit` drafts, note, comb, field name | `Type` `Fire` `Pick` `SelectAnnotations` `UpdateMaxLen` `ToggleComb` `CommitName` |
| PdfPanels | attachments, outline, comments, stamps, signatures, forms | `HandleRemove` `HandleAdd` `Refresh` `EngineRemoves` `EngineLists` `ShowTab` |
| PdfDialogs | the seven dialogs behind one `dialog` state | `OpenDialog` `Submit` `Answered` `Save` `Unlock` `SubmitLink` |
| PdfViewer | src or picked file, documents, object URLs | `ChangeSrc` `HandleUploadFile` `OpenFile` `Loaded` `OpenFails` |
| PdfPages | active page, thumbnails, anchor, page draft | `SelectThumbnailPage` `ActivePageChanges` `ApplyPageDraft` `HostScrolls` |
| PdfRotation | rotations, layout, scroll position, thumbnails drawn | `RotateSelectedPages` `HandleDownload` (pure layout operators) |
| PdfText | the search popover, the text selection | `TypeText` `RunSearch` `Answered` `Navigate` `ReleaseCheck` |
| XlsxViewer | workbook, search jobs and batches, scroll | `RunSearch` `SearchAnswered` `Navigate` `ShowResult` `LoadWorkbook` |
| SheetTabs | tabs, preview card, its two timers | `HandleItemEnter` `HandleContainerLeave` `OpenTimer` `CloseTimer` |
| XlsxEditor | workbook, sheets, active cell, formula draft | `TypeInBar` `CommitFormula` `EnterInBar` `BlurBar` `SelectCell` |
| XlsxCells | selection, merges, borders, styles | `MergeCells` `MergeAcross` `UnmergeCells` `ApplyBorder` `ApplyStyle` |
| DocxViewer | import queue, engine, pages, zoom | `ChangeUrl` `Turn` `Imported` `LoadFailed` `StatusFrame` |
| DocxEditor | load effect, imports, pages | `Load` `Fetched` `Imported` `HandleUpload` |
| DocxToolbar | commands, style menu and card, link, picture | `ApplyFontToggleValues` `StyleMenu` `PointAtStyle` `ApplyLink` |
| EditSession | session query, editor, saves, abort handle | `HandleSave` `PrepareCommit` `StartBlock` `RunWithWorkers` `CommitEdit` `CommitAnswered` |
| Uploads | Uppy's list, batches, loops, drawer | `AddFiles` `UploadFiles` `UploadChunk` `UploadFails` `MarkComplete` |
| FilePreview | history, drawer, ticket, probe | `Edit` `OnOpenChange` `TicketAnswered` `ProbeAnswered` |
| FileGrid | listing, selection, drag, mutations, rename | `DeleteSelected` `Drop` `MoveAnswered` `SubmitRename` `RenameAnswered` |
| TrashView | listing, selection, batches | `RestoreSelected` `PermanentlyDeleteSelected` `Settle` |

Libraries (the PDF engine and its plugins, the spreadsheet and document engines, Uppy, the router, the query cache) and the services
behind the clients are external: modelled by what the code relies on, answering late, in any order the library allows, with success
or failure. A render with its effects is one step; what lies between two awaits is one step.

## 4. Runs

| run | question | bounds |
| --- | --- | --- |
| BlockStoreSafety | counts, bytes, fence, candidate list and refinement under every interleaving and crash | 1 block, 2 requests of any kind, 2 GC workers |
| BlockStoreLive | is an eligible candidate always fenced in the end? | 2 blocks, 1 request that stages, 1 GC worker, one candidate per sweep, faults cease |
| BlockStoreFenceCrash | does a crash after the fence resume? (no) | 1 request, 1 GC worker |
| BlockStoreEditLoss | are the bytes of a committed edit safe? (no) | 2 requests: stage, commit |
| BlockStoreChunkRace | is a block that chunk maps name never fenced? (no) | 2 requests: chunk, drop |
| DecrefLedger | one decrement, true rows, exclusive claims, the promise, every batch reported | 2 handlers; one of a batch of two operations on one block with its re-drive, a malformed one, an empty one; counts up to 2, 1 fault, 3 deliveries |
| PurgeSagaSafety | removal earned, COMPLETE true, work list and index complete or blamed | 2 batches, 1 request, 1 delivery, 1 sweeper, 1 user's call, 2 places |
| PurgeSagaLive | does a listed job end? | 1 batch, 1 of each, no user, 3 attempts, faults cease |
| PurgeSagaRestore | is only what is in the trash destroyed? (no) | 1 of each, no faults |
| VersionCommitStuck | is a version that was won reached by the head? (no) | 1 editor, 2 requests, 2 versions, 1 fault |
| ConsolidationStale | is an old copy never served? (no) | 1 worker, 2 versions, no fault needed |
| Clients | do sessions survive, do late answers stay harmless, do saves and uploads store what they say, is the newest version served? | per part, below |

`Clients` is a sum, not a product: the parts share no variables (a screen is unmounted before another is shown, and all they have in common is
the server; the three service-side parts are keyed by one file or one session), so each behaviour is about one part, named by `part`, whose variables are the slots `x1`, `x2`, ... in the
order its module declares them (the native session keeps its own variables; its steps are those of `Docs`, like those of the other parts `DocumentProofs` is about). An invariant of the run is a conjunction of the parts' own, an action property likewise. One run in place of
27 answers one question: what happens between a call and its answer.

Why these bounds are enough to be interesting:

- Blocks interact in one place only: a sweep takes the first candidates of a scan, so the liveness run has two blocks and a limit of
  one. A row, its candidate and its bytes are keyed by one hash, so one block shows what many do elsewhere. Two requests are every pair of operations, and a third party is there in
  the GC workers, two of them because two instances sweep the same list.
  `MaxRefs` = 1 still lets two owners race for the first reference; the chunk race uses 2.
- `CASAttempts` = 2 (8 in the code) reaches the retry and the exhaustion.
- Two handlers and two tries are a batch and its re-drive in flight at once; three deliveries
  are one more than one fault and one wait use up (10 in the code). Batches share only the counts, so asking for one at a time
  loses nothing that `Unreference`, the other jobs, does not bring back. Two references more than none let a count run out and recover.
- Two batches make the tally and the re-drive of only the missing ones matter; `MaxAttempts` = 2
  and 3 (10 in the code) reach the retry and the giving-up. Attempts beyond the limit saturate,
  because nothing tells them apart. `OneBlame` keeps to behaviours in which at most one of the blames has happened: another one only
  excuses more, and `overdue`, which it leaves out, only keeps sweepers from waking. The proof has neither bound. One sweeper next to a request
  and a delivery are three writers of the job row; a second sweeper is in the proof.
- Symmetry is used in the two big safety runs, whose properties name no actor; never with
  liveness.
- Clients: each part's constants are constants of `Clients`, prefixed with its name, and get their values in `MCClients.cfg`. Native: one call, one session of three generations, two kills (two sessions
  mixing is what the proof covers for every number). Web: two requests in two processes, two generations, one lost call. Two or
  three documents, loads, tickets or searches are an older and a newer one, and one to return to; one job next to a replacement; a row of three cells has ranges
  that are apart, nested and crossing (the proof covers every grid); two pages turned twice, the second lying on its side by itself, have each of them before, at
  and after the reading position and every turn on top of every other; two files of
  two chunks and two loops are one failing while the other goes on. One save against two commits of others; more saves are covered by the proof.
  Commits: three versions are one to start from, one to win and one to be made from it; two requests and an editor are two saves of one base and a retry.
  Upload sessions have two instances, each of two calls and a fault: one of two chunks where a chunk may cost two references, one of one chunk that may be sent with
  other bytes and another past the end. Consolidation has two: one sweep with a reader, a ticket that names no version, a fault and one attempt, and two sweeps of a
  file whose first version cannot be consolidated, with two attempts.
  The PDF tools remember one change (`ToolsMaxUndo`), and `UndoesInTheFirst` lets the history matter in the first document and with the panels that bear on it (the
  mode's own, the redactions, none): a second document starts with an empty history, and the proof has any number of changes and documents.
  One batch of the trash over three items, files and folders alternating. `MCClients` states the view `Seen`: the variables of the part a behaviour
  plays, which are all that tell its states apart, the other parts standing still.

Deadlock is checked in the BlockStore runs: a request can always be made. It is off for the
ledger and the saga, which end when everything is reported, or complete, and for `Clients`, `VersionCommit` and `Consolidation`, whose counters of user actions run out.

Fairness. Every process that has begun takes its next step (requests run on and their calls
return or fail), GC workers and sweepers are tickers that never stop, consumers keep pulling,
grace periods and claims grow old, and the decrement service answers what it is asked, which
`RequestedIsReported` shows of it. Nothing makes a user, a crash or a restore happen. `Faults` = `"cease"`
lets anything fail any number of times and then no more: without that no
retry with a limit can promise anything. All of it is weak fairness. `FairVersionSpec` lets requests run to their end and
editors go on loading and saving; even so a won version may stay unreached. The clients state no fairness: their properties are invariants and
action properties.

## 5. Findings

The `violation` runs check what a comment of the code says and show the code doing otherwise; `findings`
in `PROJECT.json` quotes the lines.

- *A fenced block is never reaped after a crash* (`BlockStoreFenceCrash`): the fence asks for `state = null`, so the next
  sweep, which the comment trusts to resume, is refused.
- *A saved edit can lose its bytes* (`BlockStoreEditLoss`): between the verdict and the references the block is still at
  zero with an old candidate.
- *Two uploads of one new block share one reference* (`BlockStoreChunkRace`): `InsertBlock` ignores `[applied]`.
- *A restored file can be destroyed* (`PurgeSagaRestore`): nothing looks at `IsDeleted` after the request.
- *A file can become unsaveable* (`VersionCommitStuck`): a version that was won by a commit that died before the head moved blocks its number; nothing
  else moves the head.
- *An old copy can be served as the new version* (`ConsolidationStale`): `MarkReady` does not ask which version it copied.

Further divergences met while modelling. They are behaviours of the models (no property excludes them, or it names them as the exception); no run is given to
them:

- *Ledger.* `events.proto` 50-52 calls each operation idempotent in the ledger; decrement and terminal row are two statements, and a claim that is taken over between
  them decrements again (`lapsed`, in `SecondHitIsALapse`). A count that is zero already is answered like a decrement and recorded as COUNTER_APPLIED
  (`block_repo.go` 161-163, `block_decrement_worker.go` 236-243); `LedgerIsTruthful` says when that can be.
- *GC.* Rows that no later sweep can finish (fenced, the worker died) stay in front of a scan and use up its limit; `EligibleIsFenced` excepts what stands behind them.
- *Purge.* `coordinator.go` 581-582 has a crash of the removal repaired by re-running it; after a crash between `files_by_id` and the name index the re-run no longer
  knows the name, and the index row stays (`ghost`, in `CompleteIsUnindexed`). A delete, restore, rename or move that had read the file
  before the removal upserts its rows and inserts its index row under a COMPLETE job (`crossed`).
- *Commits.* `editing.go` 461-463 has the next read repair rows that lag behind the head; nothing does (`cut`, in `RowsShowTheHead`). Two saves in a row can leave the rows
  at the older one (`crossed`).
- *Consolidation.* `stitch_repo.go` 58-59 and 144 speak of files enqueued by `CreateFile`; no create path does. A sweep can reap the index row of a file that is just being
  enqueued (303-309), and `updateClaim` and `MarkFailed` (no `IF EXISTS`) can bring back the row of a purged file (`raced`). The cache is invalidated before the
  object is deleted (`editing.go` 746-761), so a read in between caches the old key.
- *Downloads.* `purge_metadata.go` 66-69 leaves the consolidated object to the block GC, which only looks at blocks; it is the coordinator that deletes it.
- *Auth.* `auth_service.go` 149-151 has calls with one token share one rotation and get one pair; a call that reaches another process, or this one's caches out of
  step with the row, between the CAS (255-260) and the cached pair (277) is judged a replay and the session is deleted (`excuse` in `OneFailureIsSurvived`, `misled` in `KilledOnlyAfterLoss`).
- *Native.* `setTokens` (`tokenManager.ts` 57-63) changes the memory before it awaits the keychain: a rejected write leaves them with two pairs (`unsaved`).
  `_layout.tsx:55` says sign-out "must not leave the previous user's data in memory for the next one"; a rotation answered after `clearTokens`
  (`tokenManager.ts:131`) puts the old session back in memory and keychain. The keyboard's submit is not disabled while a sign-in is pending.
- *Web session.* A key fetch that fails with an empty cache (`server-jwt.ts` 117-119, `proxy.ts` 72-75) deletes a valid session's cookies, and so does the late
  answer of `redirectToLogin` after a newer sign-in. The sign-up form does not await `registerAction` (`sign-up-form.tsx` 54-57).
- *Edit route.* A conflict refetches the session and the new ticket reloads the editor: the edits the notice asks the user to download
  are gone (`file-edit-view.tsx` 125-128, 241-247). Saving a docx while it loads commits a blank one. A cancelled RPC ends in "failed". A lost commit answer and a
  retry conflict with the user's own version.
- *Uploads.* Files picked while an upload runs wait for ever; "Upload successful!" is shown when all failed; removing a file does not stop its loop.
- *Preview.* `leavingForEditor` is never reset: after Back from the editor the preview cannot be closed.
- *Grid and trash.* A root drop compares "" with the real root id; `isPending` tracks only the newest mutation, so buttons are enabled while earlier ones run;
  a rename cancelled while pending closes, or puts its error into, the next file's dialog.
- *Docx.* An older load that ends late replaces the newer document in the engine (`docx-editor.tsx` 1611-1615) and its failure covers a good one. In the viewer
  a failed import's status frame (1174-1185) can put an old error over a newer import.
- *Spreadsheets.* Enter while a search runs moves through the old results; of two picked files the last read wins; text typed after Enter in the bar is invisible but
  committed on blur; sheet previews are not refreshed after edits.
- *PDF editor.* Ctrl+Z takes back a form field in any mode, and redo brings it again, after design was left (`NothingGoesUnasked` names it). A debounced property edit lands on the annotation selected by then (`pdf-editor-properties.tsx` 340-374) unless the panel was left; a flatten or delete question survives a
  replacement; a failed commit before saving is swallowed; a failed load of the metadata leaves Save enabled; the answer of a dialog closes whatever dialog is open.
- *PDF viewer.* The object URL of a picked file is revoked when `src` changes (2560-2565) and used again when it comes back; an older document reports its page count late.

## 6. Proofs

All theorems hold for every value of the constants that the named assumptions admit
(`NoBlockAssumption`, `BoundsAssumption`, `ProcsAssumption`, ...): any number of blocks, requests, workers, batches and attempts
(`ClientsAssumption`: finitely many requests at a time, which the counting needs).

**BlockStoreProofs** proves `TypeOK`. It is not inductive alone: `ref - 1` is a natural only because a decrement
goes on to its compare-and-set with a positive count, hence `TypeInv` = `TypeOK` with
`ClientsAreOnBlocks`, `DecrementsSawReferences`, `ReapersAreOnBlocks`.

Its second section proves `FencedIsUnreferenced` and `ReaperOwnsFence` from `FenceInv`, which adds that a missing
row counts nothing: a worker deletes without a condition, so the row it deletes must be
the row it fenced, and that needs the fence to be exclusive. `Refinement` (every step is a step of
`BlockLifecycle` or a stutter) and `ReapSafety` follow step by step. `BytesSafety` (`LiveRowHasBytes`) adds that a writer about
to insert has put its bytes or was crossed.

Its third proves `OwnersAreCounted` by cardinality: what a count must cover is the owners plus the requests that hold a reference and have not
yet named it (chunks) or taken it back (decrements), and what it may still lack are the commits about to count; every step moves at most one request in or out of
these sets (`CountInv`). `LossIsExplained` follows from it and `LiveRowHasBytes`. `UnreferencedIsListed` needs `ListInv`: a
live row at zero that is not listed has a request that still tells the GC about it, or counts it.

**DecrefLedgerProofs** proves `LedgerInv`: the type, what a handler believes of the row it is at (`WorkerInv`:
what it has put behind it is settled; a takeover whose stamp still matches finds the row CLAIMED),
the accounting of each operation (`OpInv`: unless it lapsed, at most one holder, at most one
hit, and none before the holder applied it), and that a well-counted block's count covers the operations that have still to give
their reference back (`StoreInv`, by cardinality): an operation that finds a count of zero there has been decremented already (`AppliedIsGivenBack`). `SecondHit`, `Truthfulness` and `Exclusiveness` are its consequences; `Refinement` shows
`KeepsPromise`, using that a row never leaves its terminal status.

**PurgeSagaProofs** proves `SagaInv`: the type, what the job row and the queues say is backed by the decrement service
(`Backed`), what each process holds in its snapshot is backed too (`ProcInv`: a stale snapshot may
write an old state, never an unearned one), whoever removed the core rows still knows the
place under which the index still has it, or one of the three causes has happened (`Unindexing`), a row that came back after the removal is a remnant of a call
that crossed it (`Crossing`), and `UnfinishedIsListed`. From it: `RemovalEarned`, `CompleteRemoved`, `UnfinishedListed`, `CompleteUnindexed`.

**WebProofs** has a section for the edit route, the web session and each file view.
*Edit route* (`EditInv`): the base of a save and the version of its bytes come from two places, the session and the editor; they agree while an
editor is shown (`Shown`), and the save carries both to the commit (`Stands`). From it `NothingOverwritten` and `CommitsWhatItSent`.
*Web session* (`WebInv`, `OneLossIsSurvived`): as long as at most one call was lost and no earlier token was presented in earnest, every token in a cookie,
in a request or in an answer is `Good`: its session is live and every generation from it up to the newest one is still among the replaced pairs the
auth service answers again. A call served out of step ends the claim, as `excuse` records (`OutOfStepFrame`). A call that fails was the lost one, somebody waits for every shared call (`Awaited`), and a retry follows a loss, so a
second failure of a request needs a second loss. `WebSizes` asks for a first session and generation.
*Docx viewer* (`QueueInv`): the import runs wait in the order they were numbered, only the first has begun, and the last is the newest and of the document
shown (`QueueInOrder`). *Workbook viewer* (`SearchInv`): a search under way that is the newest is of the text in the field (`NewestIsOfTheDraft`).
Its results and frames (`FrameInv`) are of cells of the workbook (`ResultsFit`), so scrolling to a row leaves it in view (`ScrollingIsIntoView`).
*Preview* (`Headed`): the grid is only at the bottom of the history, and without `leavingForEditor` neither history nor queue holds the editor.
*Grid* (`Renaming`): what is typed in the rename dialog is for its target. *Trash* (`TrashInv`): what failed is counted by position and told by item; a batch
with a request under way is not over.

**DocumentProofs** has a section for each screen. *PDF tools* (`ToolsInv`): design, an unlocked field layer and the field pointer each mean forms mode (`Locking`), a
question knows its document (`Questions`). *Properties* (`PropsInv`): a draft or a note that waits belongs to a panel on screen. *Dialogs* (`DialogsInv`): a request names the
opening it is from and keeps its command busy while that opening lasts (`Asking`); fields on screen with no load under way came from the document, were typed, or their load
failed (`Loads`). *Panels* (`PanelsInv`): the panel on screen has at most one change in the engine's queue, a fetch of the list follows every older one, and so a removal clicked in
a current list has no change before it (`InTime`). *Workbook editor* (`EditorInv`): picks are numbered and read once (`Numbered`), and while the bar
holds an edit of this workbook, sheet and cell are those of its beginning (`Begun`). *Cells* (`CellsInv`): the regions of a sheet are ranges of the grid, no two of which
intersect; merging adds ranges that intersect none and not each other, and the edge ranges of a border are the rows and columns of the selection's
boundary (`EdgeIsBoundary`). `GridSizes` asks for natural numbers of rows and columns.
*PDF viewer* (`ViewerInv`): a document still open was open when each later one was, and goes when that one has loaded (`ClosedByTheNext`).
*Docx editor* (`LoadsInv`): the current run of the load effect loads the document chosen last (`CurrentLoadsTheChosen`).
*Native session* (the last section): `TypeOK` and `MemoryIsWhatLands` (`PairsNeverMix`): what the keychain will hold once its queue is served (`Lands`) is the
partner of the token in memory, or a write of that pair was the last one rejected; kept by appending a write, appending a read and serving the head.
`KilledOnlyAfterLoss` (`NoFalseTheft`): `Current` is the claim: the token a rotation presents, and the one that
will land in the keychain, is the newest of its session unless a rotation was lost; the row kills a session only for another token, a cache of an older generation is `misled`. It rests on three others: at most one
rotation is under way and nobody else is storing for it (`Turns`), no rotation starts before the launch has read the keychain (`Launch`),
and a sign-in's pair is the first of its session (`Born`).

**ServiceProofs** has a section for each of the three service parts.
*Commits* (`VersionInv`): the versions up to the head, and at most one after it, are won (`Chain`); a save's base is one the head has reached, so what it
saw of it still stands (`Honest`); the version it may win is the next one, and whoever won it is alone at work on it (`Winner`, `Alone`) and has not yet
counted its blocks (`Credits`). From it `MadeFromTheVersionBefore` (`NoLostUpdate`) and `CommittedIsKept` (`CommittedStays`), for at least one version.
`RowsShowTheHead` (`RowsFollow`) needs `RowsInv`: without a cut or crossed save one save at a time goes on past the head, and the four copies are where that save's step
says (`RowsOf`), or else at the head.
*Upload sessions* (`SessionInv`): without `overlap` and `doubled` a call about to write the chunk map holds the map as it is (`Fresh`), its chunk is absent and its
own (`Claims`), and what was recorded is there (`RecordIsWritten`). From it `AckedIsRecorded` and `ReferencesAreNamed`; `HashesAreReal` (no hash is the model's
"no hash") is the one hypothesis. `FileIsWholeAndOnce` (`OneWholeFile`) needs `FilesInv`: a call that finalises holds the full map and so do the files made
(`FilesAreTheMap`); whoever made the one file is the only call under way until the session is completed (`OneFile`). That the list of hashes of a full map is the map in
its order is a fact about `Nth`: the i-th of `1..Chunks` is i. `ChunksAreFinite` asks for a natural number of chunks.
*Copies* (`CopyInv`): without a race no sweep is at work during a commit or a purge (`Apart`), so a job finds what it deletes as it left it (`Purged`), whoever
copies copies the newest version (`Copied`, `Held`), and a read that nothing overlaps sees one version (`Read`, `Cached`). From it `ReadyIsCurrent`,
`PurgeLeavesNothing` and `BytesMatchTheirTag`. `WaitingIsListed` (`WaitingStaysListed`) needs `WaitInv`: a worker alone with the file has an index entry to come back to
at each of its statements (`WaitsAt`), and with several at work a claimed row has one that will mark it as long as nothing failed (`NothingFailed`).

**ViewerProofs**. *PDF editor's document* (`DocInv`, for any natural number of pages): the document opened last is that of the source the effect read last, unless a step excused
it (`Opening`), and closes the others when it has loaded (`Latest`); a job at work has all edits of its document committed, and what it saved are all of them, unless it is
excused (`Whole`, `JobInv`). From it `NoDocumentLeft`, `NotLeftLoading`, `LossHasAReason` and `SelectionIsOfPages` (`DocumentKept`). *Text selection* (`SelectingInv`), *sheet
previews* (`TabsInv`), *style cards* (`CardsInv`) are inductive nearly as they stand. *Thumbnails* (`Drawn`): the tops grow from page to page, so the pages in
view are consecutive and the window begins and ends with them; for every number of pages, rotation and scroll position. *Turning pages* (`PlaceHeld`): each turned
page above the one being read moves its middle by the height it gains, the page itself by half of that (`OneTurned`), and turned one after the other they add up
(`MovesAddUp`) to the sum the code scrolls by, of which there is one (`OneSum`, by a least set for which two differ); for every number of pages and choice of
pages to turn. *Search* (`AskedInOrder`): searches are numbered as asked, so the answer that bears the newest number is to the newest text. *Uploads* (`UploadsInv`): a
loop that sends has stored the chunks before the one it is at (`InOrder`), a file counts as uploaded by a loop that sent all of it (`SentWhole`).

**ClientsProofs** carries the parts' invariants over to `Clients`: a behaviour stays with its part, and a step of the composition is a step of that part or
leaves its slots alone (`OnePart`), so the invariants of all parts hold together (`PartsInv`). From them every invariant of the run and, step by step, the action
properties `NothingGoesUnasked`, `WritesWhatItShows`, `MovesTheSelectionNow`, `EditIsNotTakenBack` and `HoldsThePlace`. `Sizes` collects the hypotheses above
(natural numbers of pages, chunks, rows and columns, hashes that are real, a first version, session and generation); the values in `MCClients.cfg` satisfy it.

The attempts found models wrong or loose. The workbook editor counted only the picks being read, so that a number could be used twice and, with two picks or more, an
edit of an old workbook be taken for one of the new; `picks` now counts every pick, as every file is an object of its own in the code. `WaitingIsListed` excused too little:
with two workers and two failures a worker that overlapped another can leave a claimed row without an index entry (TLC shows it at depth 33), so after an overlap it is
claimed only while nothing has failed, and in return the overlap alone is no excuse any more.

Recursive definitions over pages and sets are functions here, and what they compute for every page is proved with the least page for which it fails (`MinIsLeast`), which needs
no induction rule with an operator parameter.

Only model-checked: the liveness properties
`EligibleIsFenced`, `RequestedIsReported` and `ListedIsFinished`: liveness under fairness, and ENABLED, are beyond the prover.

## 7. Abstractions, and what is not modelled

- Block store: the eight attempts of the decrement (refused attempts retry, an exhausted delivery is a redelivery); size, etag
  and backend columns. Requests name one block; the loops over several are several requests.
- Ledger: heartbeats and retry schedules (order and limits are kept, times are not); malformed
  payloads other than hashes and empty batches.
- Saga: `next_attempt_at` and backoff (any listed job may be due), the job row's seven-day TTL (an unfinished job leaves the sweepers' window well before it), `RecordError` and `MarkAttempt`, legacy job states,
  completions without a job, the deletion of thumbnails and consolidated objects, several files per job owner,
  references of versions other than the head. The work-list read and the pre-claim read of a
  sweeper are one step, and so are a user call's two reads (the service's, and the repository's just before it writes), and the statements on
  `files_by_folder` and `files_by_id`. A restore into another folder is a `Relocate` and a `Restore`. The safety run has one user's call; the proof any number.
- Clients: what the libraries compute, geometry other than page layout, ranges and scrolling, colours and formatting, key codes, texts of messages. The query
  cache's retries and focus refetches are one refetch that may happen at any time. Parts on one screen that do interact (the PDF editor's modules) are
  separate modules; what one takes from another (the page count, the open document, the selection) is an input chosen freely from a small set.
  The history plugin is external: one entry per change of the annotations. Undo of the two patches of the comb toggle (`pdf-editor-properties.tsx` 1432-1439) is
  not modelled. `HoldsThePlace` is about the sum the code scrolls by: sizes are whole numbers, so nothing is rounded, and the room kept above a first page,
  which changes with its height, is left aside.
- Sessions of the auth service: a process's session cache is no variable; a token may be judged by any generation the session has had. A call whose answer the network
  lost was served or not at that moment, never later. Sign-in limits, devices and the clean-up of old sessions are `SessionEnds`.
- Commits: `PrepareCommit`, the checks of sizes, blocks and document types, thumbnails and index items; failures of AdvanceFileHead by running out of its five attempts
  (nobody else can move that head). Sessions: the Redis offset, events. Consolidation: ages (any claim may be old enough), several files of one sweep, several content
  servers (only the one in the process of the commit is invalidated), overlapping commits (`VersionCommit` has them), previews.
- The other components of section 1, with the reasons in `PROJECT.json`.
