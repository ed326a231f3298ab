------------------------------ MODULE Clients ------------------------------
(* The clients, and the service sides of saving, uploading and downloading.  *)
(* The parts share no state with each other, so one behaviour is about one   *)
(* of them: the native app's session, which is always there, or another      *)
(* part, whose variables, in the order its module declares them, are the     *)
(* slots x1, x2, ...  A part's constants are prefixed with its name here.    *)
(* Upload sessions and consolidation are there twice, so that a run can give *)
(* each two sets of bounds (Services, Doubles); parts that have proofs are   *)
(* taken with them, for ClientsProofs to cite.  Those of the native session  *)
(* are in Docs, on the variables and constants declared there and here.      *)
EXTENDS NativeSession

CONSTANTS
  WebRequests, WebProcesses, WebMaxSid, WebMaxGen, WebMaxLost,
  DocMaxInputs, DocMaxDocs, DocMaxJobs, DocMaxEdits, DocPages,
  ToolsMaxDocuments, ToolsMaxUndo,
  PanelsMaxVersion,
  DialogsMaxOpenings,
  PdfVSrcs, PdfVMaxUploads, PdfVMaxOpens,
  ScanN,
  TurnN, TurnMaxTurns,
  TextQueries, TextMaxRequests,
  SheetMaxPicks, SheetMaxRequests,
  BookMaxPicks,
  CellsRows, CellsCols,
  DocxVMaxRuns, DocxVMaxPages,
  DocxMaxLoads, DocxPages,
  BarStyles, BarMaxChanges,
  EditBlocks, EditWorkers, EditMaxSaves, EditMaxVersion,
  UpFiles, UpChunks, UpMaxLoops,
  CommitsEditors, CommitsRequests, CommitsContents, CommitsMaxVersion,
  CommitsMaxFaults,
  ReceiveCalls, ReceiveChunks, ReceiveBeyond, ReceiveHashes, ReceiveMaxRefs,
  ReceiveMaxFiles, ReceiveMaxDeaths,
  OtherCalls, OtherChunks, OtherBeyond, OtherHashes, OtherMaxRefs, OtherMaxFiles,
  OtherMaxDeaths,
  CopiesWorkers, CopiesTickets, CopiesParked, CopiesLastVersion,
  CopiesMaxAttempts, CopiesMaxFailures,
  SweepsWorkers, SweepsTickets, SweepsParked, SweepsLastVersion,
  SweepsMaxAttempts, SweepsMaxFailures,
  PreviewMaxTickets,
  GridFileItems, GridFolders, GridMaxMutations,
  TrashListing, TrashDeletedFiles, TrashMaxBatches

VARIABLES part,  \* the part the behaviour is about
  x1, x2, x3, x4, x5, x6, x7, x8, x9, x10, x11, x12, x13, x14, x15, x16

slots == <<x1, x2, x3, x4, x5, x6, x7, x8, x9, x10, x11, x12, x13, x14, x15,
           x16>>

Scan == INSTANCE PdfPages WITH
  N <- ScanN, loaded <- x1, layout <- x2, active <- x3, going <- x4,
  selected <- x5, anchor <- x6, suppress <- x7, sidebar <- x8,
  aligned <- x9, editing <- x10

Services == INSTANCE ServiceProofs WITH
  Calls <- ReceiveCalls, Chunks <- ReceiveChunks, Beyond <- ReceiveBeyond, Hashes <- ReceiveHashes,
  MaxRefs <- ReceiveMaxRefs, MaxFiles <- ReceiveMaxFiles,
  MaxDeaths <- ReceiveMaxDeaths, status <- x1, map <- x2, files <- x3,
  call <- x4, deaths <- x5, refs <- x6, acked <- x7, ended <- x8,
  overlap <- x9, doubled <- x10, company <- x11, late <- x12,
  Workers <- CopiesWorkers, Tickets <- CopiesTickets,
  Parked <- CopiesParked, LastVersion <- CopiesLastVersion,
  MaxAttempts <- CopiesMaxAttempts, MaxFailures <- CopiesMaxFailures,
  live <- x1, version <- x2, fileManifest <- x3, stitchRow <- x4,
  index <- x5, object <- x6, worker <- x7, job <- x8, failures <- x9,
  cache <- x10, reader <- x11, raced <- x12, overlapped <- x13,
  lost <- x14, shared <- x15, torn <- x16,
  Editors <- CommitsEditors, Requests <- CommitsRequests,
  Contents <- CommitsContents, MaxVersion <- CommitsMaxVersion,
  MaxFaults <- CommitsMaxFaults, row <- x1, head <- x2, file <- x3,
  folder <- x4, sorted <- x5, manifest <- x6, shown <- x7, request <- x8,
  faults <- x9, credit <- x10, cut <- x11, crossed <- x12

Doubles == INSTANCE ServiceProofs WITH
  Editors <- CommitsEditors, Requests <- CommitsRequests,
  Contents <- CommitsContents, MaxVersion <- CommitsMaxVersion,
  MaxFaults <- CommitsMaxFaults, row <- x1, head <- x2, file <- x3,
  folder <- x4, sorted <- x5, manifest <- x6, shown <- x7, request <- x8,
  faults <- x9, credit <- x10, cut <- x11, crossed <- x12,
  Calls <- OtherCalls, Chunks <- OtherChunks, Beyond <- OtherBeyond, Hashes <- OtherHashes,
  MaxRefs <- OtherMaxRefs, MaxFiles <- OtherMaxFiles,
  MaxDeaths <- OtherMaxDeaths, status <- x1, map <- x2, files <- x3,
  call <- x4, deaths <- x5, refs <- x6, acked <- x7, ended <- x8,
  overlap <- x9, doubled <- x10, company <- x11, late <- x12,
  Workers <- SweepsWorkers, Tickets <- SweepsTickets,
  Parked <- SweepsParked, LastVersion <- SweepsLastVersion,
  MaxAttempts <- SweepsMaxAttempts, MaxFailures <- SweepsMaxFailures,
  live <- x1, version <- x2, fileManifest <- x3, stitchRow <- x4,
  index <- x5, object <- x6, worker <- x7, job <- x8, failures <- x9,
  cache <- x10, reader <- x11, raced <- x12, overlapped <- x13,
  lost <- x14, shared <- x15, torn <- x16

Web == INSTANCE WebProofs WITH
  Blocks <- EditBlocks, Workers <- EditWorkers, MaxSaves <- EditMaxSaves,
  MaxVersion <- EditMaxVersion, kind <- x1, head <- x2, made <- x3,
  wire <- x4, session <- x5, fetch <- x6, editor <- x7, dirty <- x8,
  status <- x9, abortRef <- x10, saves <- x11, here <- x12,
  Requests <- WebRequests, Processes <- WebProcesses, MaxSid <- WebMaxSid,
  MaxGen <- WebMaxGen, MaxLost <- WebMaxLost, jar <- x1, due <- x2,
  request <- x3, shared <- x4, keys <- x5, row <- x6, replaced <- x7,
  lost <- x8, excuse <- x9,
  MaxTickets <- PreviewMaxTickets, previewKind <- x1, hist <- x2,
  nav <- x3, leavingForEditor <- x4, file <- x5, content <- x6,
  minted <- x7, probes <- x8, probe <- x9, refreshedOnce <- x10,
  good <- x11, zoom <- x12, saving <- x13,
  Listing <- TrashListing, DeletedFiles <- TrashDeletedFiles,
  MaxBatches <- TrashMaxBatches, held <- x1, trashList <- x2,
  trashStale <- x3, selectedKeys <- x4, mutations <- x5, newestCall <- x6,
  batches <- x7,
  MaxPicks <- SheetMaxPicks, MaxRequests <- SheetMaxRequests,
  urlBook <- x1, reading <- x2, book <- x3, draft <- x4, timer <- x5,
  searchRequestId <- x6, jobs <- x7, results <- x8, searching <- x9,
  sheet <- x10, applied <- x11, frame <- x12, top <- x13,
  MaxRuns <- DocxVMaxRuns, MaxPages <- DocxVMaxPages, url <- x1,
  upload <- x2, queue <- x3, current <- x4, engine <- x5, failing <- x6,
  isLoadingDocument <- x7, loadError <- x8, reported <- x9,
  activePage <- x10, editing <- x11, sidebarOpen <- x12, rows <- x13,
  zoomState <- x14, isPreparingDownload <- x15,
  FileItems <- GridFileItems, Folders <- GridFolders,
  MaxMutations <- GridMaxMutations, atRoot <- x1, where <- x2, list <- x3,
  stale <- x4, sel <- x5, drag <- x6, ops <- x7, last <- x8, asked <- x9,
  rename <- x10

Docs == INSTANCE DocumentProofs WITH
  MaxDocuments <- ToolsMaxDocuments, mode <- x1, design <- x2,
  panel <- x3, dialog <- x4, doc <- x5, ready <- x6, may <- x7,
  pointer <- x8, annots <- x9, sel <- x10, locked <- x11,
  history <- x12, MaxUndo <- ToolsMaxUndo,
  chosen <- x1, tool <- x2, shown <- x3, mayModify <- x4, look <- x5,
  lockedAnnots <- x6, draft <- x7, note <- x8, field <- x9, name <- x10,
  MaxOpenings <- DialogsMaxOpenings, open <- x1, nth <- x2, busy <- x3,
  asked <- x4, stale <- x5, meta <- x6, failed <- x7, saved <- x8,
  linking <- x9, sign <- x10,
  MaxVersion <- PanelsMaxVersion, tab <- x1, files <- x2, list <- x3,
  version <- x4, queue <- x5, mount <- x6, isBusy <- x7, wrong <- x8,
  local <- x9, placing <- x10,
  MaxPicks <- BookMaxPicks, fetch <- x1, picks <- x2, reading <- x3,
  book <- x4, sheets <- x5, at <- x6, cell <- x7, values <- x8, bar <- x9,
  landed <- x10,
  Srcs <- PdfVSrcs, MaxUploads <- PdfVMaxUploads,
  MaxOpens <- PdfVMaxOpens, engineStatus <- x1, src <- x2, uploaded <- x3,
  uploads <- x4, revoked <- x5, opened <- x6, docs <- x7, active <- x8,
  openError <- x9, reportedFor <- x10, broken <- x11,
  MaxLoads <- DocxMaxLoads, Pages <- DocxPages, hasUrl <- x1, named <- x2,
  picked <- x3, loads <- x4, current <- x5, engine <- x6, imported <- x7,
  edited <- x8, isLoadingDocument <- x9, loadError <- x10,
  reported <- x11, activePage <- x12, sidebarOpen <- x13, zoom <- x14,
  Rows <- CellsRows, Cols <- CellsCols, sheet <- x1, selection <- x2,
  merged <- x3, applied <- x4, target <- x5, menu <- x6, last <- x7

Viewers == INSTANCE ViewerProofs WITH
  N <- TurnN, MaxTurns <- TurnMaxTurns, loaded <- x1, turned <- x2,
  zoom <- x3, turns <- x4, readPage <- x5, scrolled <- x6, download <- x7,
  saved <- x8,
  Queries <- TextQueries, MaxRequests <- TextMaxRequests, provided <- x1,
  open <- x2, draft <- x3, query <- x4, timer <- x5, request <- x6,
  asked <- x7, searching <- x8, found <- x9, shown <- x10, held <- x11,
  frame <- x12, text <- x13, copied <- x14,
  sheets <- x1, preview <- x2, opening <- x3, closeTimer <- x4,
  pointer <- x5, strip <- x6, blinked <- x7,
  Styles <- BarStyles, MaxChanges <- BarMaxChanges, disabled <- x1,
  isReadOnly <- x2, selection <- x3, format <- x4, linked <- x5,
  undone <- x6, link <- x7, picking <- x8, menu <- x9, hover <- x10,
  paragraphStylePreviewId <- x11, closing <- x12,
  Files <- UpFiles, Chunks <- UpChunks, MaxLoops <- UpMaxLoops,
  listed <- x1, complete <- x2, errored <- x3, loops <- x4, batch <- x5,
  isUploading <- x6, drawer <- x7,
  MaxInputs <- DocMaxInputs, MaxDocs <- DocMaxDocs, MaxJobs <- DocMaxJobs,
  MaxEdits <- DocMaxEdits, Pages <- DocPages, engine <- x1, input <- x2,
  reading <- x3, resolved <- x4, sources <- x5, opened <- x6, docs <- x7,
  requested <- x8, active <- x9, failed <- x10, panel <- x11,
  dialog <- x12, jobs <- x13, started <- x14, lost <- x15, why <- x16

(* The slots from the k-th on are not used by a part of fewer variables.   *)
Off == "off"

From16 == x16 = Off
From15 == x15 = Off /\ From16
From14 == x14 = Off /\ From15
From13 == x13 = Off /\ From14
From12 == x12 = Off /\ From13
From11 == x11 = Off /\ From12
From10 == x10 = Off /\ From11
From9 == x9 = Off /\ From10
From8 == x8 = Off /\ From9

rest16 == <<x16>>
rest15 == <<x15, rest16>>
rest14 == <<x14, rest15>>
rest13 == <<x13, rest14>>
rest12 == <<x12, rest13>>
rest11 == <<x11, rest12>>
rest10 == <<x10, rest11>>
rest9 == <<x9, rest10>>
rest8 == <<x8, rest9>>

Native == part = "native" /\ UNCHANGED <<part, slots>>
Screen(name) == part = name /\ UNCHANGED <<part, vars>>

ClientsInit ==
  /\ Docs!Init
  /\ \/ part = "native" /\ x1 = Off /\ x2 = Off /\ x3 = Off /\ x4 = Off /\ x5 = Off /\ x6 = Off /\ x7 = Off /\ From8
     \/ part = "web" /\ Web!WebInit /\ From10
     \/ part = "pdf document" /\ Viewers!DocInit
     \/ part = "pdf tools" /\ Docs!ToolsInit /\ From13
     \/ part = "pdf properties" /\ Docs!PropInit /\ From11
     \/ part = "pdf panels" /\ Docs!PanelsInit /\ From11
     \/ part = "pdf dialogs" /\ Docs!DialogsInit /\ From11
     \/ part = "pdf viewer" /\ Docs!ViewerInit /\ From12
     \/ part = "pdf pages" /\ Scan!PagesInit /\ From11
     \/ part = "pdf rotation" /\ Viewers!TurnInit /\ From9
     \/ part = "pdf text" /\ Viewers!TextInit /\ From15
     \/ part = "xlsx viewer" /\ Web!ViewInit /\ From14
     \/ part = "sheet tabs" /\ Viewers!TabsInit /\ From8
     \/ part = "xlsx editor" /\ Docs!EditorInit /\ From11
     \/ part = "xlsx cells" /\ Docs!CellsInit /\ From8
     \/ part = "docx viewer" /\ Web!ViewerInit /\ From16
     \/ part = "docx editor" /\ Docs!DocxInit /\ From15
     \/ part = "docx toolbar" /\ Viewers!ToolbarInit /\ From13
     \/ part = "edit session" /\ Web!EditInit /\ From13
     \/ part = "uploads" /\ Viewers!UploadsInit /\ From8
     \/ part = "version commit" /\ Services!VersionInit /\ From13
     \/ part = "upload session" /\ Services!SessionInit /\ From13
     \/ part = "other bytes" /\ Doubles!SessionInit /\ From13
     \/ part = "consolidation" /\ Services!ConsolidationInit
     \/ part = "two sweeps" /\ Doubles!ConsolidationInit
     \/ part = "file preview" /\ Web!PreviewInit /\ From14
     \/ part = "file grid" /\ Web!GridInit /\ From11
     \/ part = "trash" /\ Web!TrashInit /\ From8

ClientsNext ==
  \/ Native /\ Docs!Next
  \/ Screen("web") /\ UNCHANGED rest10 /\ Web!WebNext
  \/ Screen("pdf document") /\ Viewers!DocNext
  \/ Screen("pdf tools") /\ UNCHANGED rest13 /\ Docs!ToolsNext
  \/ Screen("pdf properties") /\ UNCHANGED rest11 /\ Docs!PropNext
  \/ Screen("pdf panels") /\ UNCHANGED rest11 /\ Docs!PanelsNext
  \/ Screen("pdf dialogs") /\ UNCHANGED rest11 /\ Docs!DialogsNext
  \/ Screen("pdf viewer") /\ UNCHANGED rest12 /\ Docs!ViewerNext
  \/ Screen("pdf pages") /\ UNCHANGED rest11 /\ Scan!PagesNext
  \/ Screen("pdf rotation") /\ UNCHANGED rest9 /\ Viewers!TurnNext
  \/ Screen("pdf text") /\ UNCHANGED rest15 /\ Viewers!TextNext
  \/ Screen("xlsx viewer") /\ UNCHANGED rest14 /\ Web!ViewNext
  \/ Screen("sheet tabs") /\ UNCHANGED rest8 /\ Viewers!TabsNext
  \/ Screen("xlsx editor") /\ UNCHANGED rest11 /\ Docs!EditorNext
  \/ Screen("xlsx cells") /\ UNCHANGED rest8 /\ Docs!CellsNext
  \/ Screen("docx viewer") /\ UNCHANGED rest16 /\ Web!ViewerNext
  \/ Screen("docx editor") /\ UNCHANGED rest15 /\ Docs!DocxNext
  \/ Screen("docx toolbar") /\ UNCHANGED rest13 /\ Viewers!ToolbarNext
  \/ Screen("edit session") /\ UNCHANGED rest13 /\ Web!EditNext
  \/ Screen("uploads") /\ UNCHANGED rest8 /\ Viewers!UploadsNext
  \/ Screen("version commit") /\ UNCHANGED rest13 /\ Services!VersionNext
  \/ Screen("upload session") /\ UNCHANGED rest13 /\ Services!SessionNext
  \/ Screen("other bytes") /\ UNCHANGED rest13 /\ Doubles!SessionNext
  \/ Screen("consolidation") /\ Services!ConsolidationNext
  \/ Screen("two sweeps") /\ Doubles!ConsolidationNext
  \/ Screen("file preview") /\ UNCHANGED rest14 /\ Web!PreviewNext
  \/ Screen("file grid") /\ UNCHANGED rest11 /\ Web!GridNext
  \/ Screen("trash") /\ UNCHANGED rest8 /\ Web!TrashNext

ClientsSpec == ClientsInit /\ [][ClientsNext]_<<part, slots, vars>>

(* ---- properties ----------------------------------------------------------- *)

(* Overlapping refreshes in several processes of the web server, answers in  *)
(* any order, a restart and one lost call do not end the browser's session.  *)
OneFailureIsSurvived == part = "web" => Web!OneFailureIsSurvived

(* A replacement of the PDF drops an edit only if it was made while the job  *)
(* ran, if a commit failed or if the job was about an earlier document.      *)
LossHasAReason == part = "pdf document" => Viewers!LossHasAReason

(* Nothing outlives what it belonged to: no document stays open in the PDF   *)
(* engine, no editor stays loading, no sheet preview, style card or text     *)
(* selection hangs on the screen, whatever overlapped; and a purged file has *)
(* no registry row, work item or consolidated object left.                   *)
NothingLeftBehind ==
  /\ part = "pdf document" => Viewers!NoDocumentLeft /\ Viewers!NotLeftLoading
  /\ part = "pdf viewer" => Docs!NoDocumentLeft
  /\ part = "pdf text" => Viewers!NotLeftSelecting
  /\ part = "sheet tabs" => Viewers!PreviewGoes
  /\ part = "docx toolbar" => Viewers!CardOfTheStylePointedAt
  /\ part = "consolidation" => Services!PurgeLeavesNothing
  /\ part = "two sweeps" => Doubles!PurgeLeavesNothing

(* What is on screen answers the newest question, however late the answers   *)
(* to older ones come: the document of the newest load, the results of the   *)
(* text in the search field, the ticket that was probed, the error of this   *)
(* file; and a consolidated copy that is ready is one of the newest version, *)
(* bytes going out under the tag of their own.                               *)
NewestIsShown ==
  /\ part = "docx viewer" => Web!NewestIsShown
  /\ part = "docx editor" => Docs!ReadyMeansImported
  /\ part = "xlsx viewer" => Web!AnswersTheQuestion
  /\ part = "file preview" => Web!ViewerShowsProbed
  /\ part = "pdf viewer" => Docs!ErrorIsOfThisFile
  /\ part = "consolidation" => Services!ReadyIsCurrent /\ Services!BytesMatchTheirTag
  /\ part = "two sweeps" => Doubles!ReadyIsCurrent

(* A command does what was asked for when its button was pressed: it removes *)
(* the attachment clicked, renames the file the name was typed for, names    *)
(* the items whose deletion failed, runs once for one opening of its dialog. *)
DoesWhatWasAsked ==
  /\ part = "pdf panels" => Docs!RemovesWhatWasClicked
  /\ part = "pdf dialogs" => Docs!OneCommandPerOpening
  /\ part = "file grid" => Web!RenamesWhatWasTyped
  /\ part = "trash" => Web!NamesTheFailed

(* Two pieces of state stay in step: the fields' lock with the mode, a comb  *)
(* with its length, the thumbnails drawn with the column's scroll position,  *)
(* the selected pages with the document; and, in the services, the file's    *)
(* rows with its head version, a waiting file with the work index.           *)
StateStaysInStep ==
  /\ part = "pdf document" => Viewers!SelectionIsOfPages
  /\ part = "pdf tools" => Docs!DesignStaysInForms
  /\ part = "pdf properties" => Docs!CombHasALength
  /\ part = "pdf rotation" => Viewers!EveryVisibleIsDrawn
  /\ part = "version commit" => Services!RowsShowTheHead
  /\ part = "consolidation" => Services!WaitingIsListed
  /\ part = "two sweeps" => Doubles!WaitingIsListed

(* What was typed into the formula bar lands where the edit began.           *)
LandsWhereItBegan == part = "xlsx editor" => Docs!LandsWhereItBegan

(* Merged regions never overlap, and "outside border" sets the boundary of   *)
(* the selection.                                                            *)
RangesAreSound ==
  part = "xlsx cells" => Docs!MergesAreDisjoint /\ Docs!OutsideIsTheBoundary

(* A save of the editor never overwrites a version it did not show, and the  *)
(* metadata service makes a version only from the bytes of the one before.   *)
NothingOverwritten ==
  /\ part = "edit session" => Web!NothingOverwritten
  /\ part = "version commit" => Services!MadeFromTheVersionBefore

(* A save commits only blocks it sent or the file already held, and a save   *)
(* told it is committed has its bytes in a version the head has reached.     *)
CommitsWhatItSent ==
  /\ part = "edit session" => Web!CommitsWhatItSent
  /\ part = "version commit" => Services!CommittedIsKept

(* A file shown as uploaded has every chunk in one upload session; and the   *)
(* session keeps the chunks it answered for and makes one whole file.        *)
CompleteMeansStored ==
  /\ part = "uploads" => Viewers!CompleteMeansStored
  /\ part = "upload session" =>
       Services!AckedIsRecorded /\ Services!FileIsWholeAndOnce /\ Services!ReferencesAreNamed
  /\ part = "other bytes" =>
       Doubles!AckedIsRecorded /\ Doubles!FileIsWholeAndOnce /\ Doubles!ReferencesAreNamed

(* Content is redacted only by an answer about the document on screen, and a *)
(* form field disappears only while fields are being designed, with a group  *)
(* the user deletes or by Undo or Redo of a change.                          *)
NothingGoesUnasked ==
  [][part = "pdf tools" => Docs!NothingRedactedUnasked /\ Docs!FieldsGoOnlyInDesign]_slots

(* A panel or dialog writes only to what it shows, and only what it loaded.  *)
WritesWhatItShows ==
  [][/\ part = "pdf properties" => Docs!AppliesToWhatIsShown
     /\ part = "pdf dialogs" => Docs!SavesWhatItLoaded]_slots

(* A drop moves the dragged item or the selection of that moment.            *)
MovesTheSelectionNow == [][part = "file grid" => Web!MovesTheSelectionNow]_slots

(* Closing the preview never takes back the navigation to the editor.        *)
EditIsNotTakenBack == [][part = "file preview" => Web!EditIsNotTakenBack]_slots

(* A screen scrolls only to keep or to bring into view what the user is at:  *)
(* the page being read when pages are turned, the result of the newest       *)
(* search.                                                                   *)
HoldsThePlace ==
  [][/\ part = "pdf rotation" => Viewers!HoldsThePlace
     /\ part = "pdf text" => Viewers!ScrollsForTheNewest
     /\ part = "xlsx viewer" => Web!ScrollsIntoView]_slots
=============================================================================
