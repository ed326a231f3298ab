----------------------------- MODULE DocxViewer -----------------------------
(* The web document viewer (components/extend/docx-viewer.tsx): imports    *)
(* that wait for one another in importQueueRef, the page the reader is on, *)
(* the page number control, the thumbnails to render, the zoom kept per    *)
(* document, and the download.  The engine (@extend-ai/react-docx) is      *)
(* external: it holds one document, and an import that fails throws or     *)
(* only says so in its status, which the viewer reads a frame later.       *)
EXTENDS Naturals, Sequences, FiniteSets, SequencesExt

CONSTANTS MaxRuns,   \* bound: runs of the import effect
          MaxPages      \* bound: pages of a document

VARIABLES url,       \* the document of the url, 0: none
          upload,    \* uploadedDocxFile and the url it was picked over
          queue,     \* importQueueRef: the runs that have not ended, in order
          current,   \* the newest run
          engine,    \* the document the engine holds, 0: a blank one
          failing,   \* the status says an import failed; its frame is pending
          isLoadingDocument, loadError,
          reported,  \* reportedPageCount
          activePage, editing, sidebarOpen,
          rows,      \* thumbnailRenderWindow
          zoomState, \* the document it is for, and its level
          isPreparingDownload

viewerVars == <<url, upload, queue, current, engine, failing, isLoadingDocument, loadError,
                reported, activePage, editing, sidebarOpen, rows, zoomState,
                isPreparingDownload>>

Urls == 1..2           \* documents with a url; a picked file has another number
Picks == {3}            \* bound: files picked
DefaultZoom == 2
Levels == 1..2         \* bound: zoom levels
PrefetchRows == 1
NoUpload == [doc |-> 0, over |-> 0]
NoRows == [visible |-> {}, prefetch |-> {}]

OnScreen == <<reported, activePage, editing, sidebarOpen, rows, zoomState, isPreparingDownload>>

(* The picked file is shown while the url is the one it was picked over.   *)
KeyOf(u, up) == IF up.doc # 0 /\ up.over = u THEN up.doc ELSE u
DocumentKey == KeyOf(url, upload)
HasDocument == DocumentKey # 0
Ready == HasDocument /\ ~isLoadingDocument /\ ~loadError
PageCount == IF Ready THEN IF reported = 0 THEN 1 ELSE reported ELSE 0
ZoomLevel == IF zoomState.key = DocumentKey THEN zoomState.level ELSE DefaultZoom

ViewerInit ==
  /\ url \in 0..1 /\ upload = NoUpload
  /\ queue = <<[n |-> 1, doc |-> url, phase |-> "waiting"]>> /\ current = 1
  /\ engine = 0 /\ failing = FALSE /\ isLoadingDocument = TRUE /\ loadError = FALSE
  /\ reported = 0 /\ activePage = 1 /\ editing = FALSE /\ sidebarOpen = FALSE /\ rows = NoRows
  /\ zoomState = [key |-> 0, level |-> DefaultZoom] /\ isPreparingDownload = FALSE

(* ---- the import queue ------------------------------------------------------------ *)

Enqueue(doc) ==
  /\ current < MaxRuns /\ current' = current + 1
  /\ queue' = Append(queue, [n |-> current', doc |-> doc, phase |-> "waiting"])

(* A new url, as when the ticket is refreshed; another key starts at the   *)
(* first page.                                                             *)
ChangeUrl ==
  /\ \E u \in Urls \ {url} : url' = u /\ Enqueue(KeyOf(u, upload))
  /\ activePage' = 1
  /\ UNCHANGED <<upload, engine, failing, isLoadingDocument, loadError, reported, editing,
                 sidebarOpen, rows, zoomState, isPreparingDownload>>

HandleUpload ==
  /\ \E doc \in Picks \ {upload.doc} : upload' = [doc |-> doc, over |-> url] /\ Enqueue(doc)
  /\ activePage' = 1 /\ reported' = 0
  /\ zoomState' = [key |-> DocumentKey, level |-> DefaultZoom]
  /\ UNCHANGED <<url, engine, failing, isLoadingDocument, loadError, editing, sidebarOpen,
                 rows, isPreparingDownload>>

AllAtOnce(i) == i \in DOMAIN queue

(* then(load): a run begins when the ones before it have ended.            *)
Turn(i) == i = 1

(* A run whose turn has come, superseded or not.                           *)
RunStarts ==
  /\ \E i \in DOMAIN queue :
       /\ Turn(i) /\ queue[i].phase = "waiting"
       /\ IF queue[i].n # current
          THEN /\ queue' = RemoveAt(queue, i)
               /\ UNCHANGED <<isLoadingDocument, loadError, reported>>
          ELSE /\ isLoadingDocument' = (queue[i].doc # 0)
               /\ loadError' = FALSE /\ reported' = 0
               /\ queue' = IF queue[i].doc = 0 THEN RemoveAt(queue, i)
                           ELSE [queue EXCEPT ![i].phase =
                                   IF queue[i].doc \in Urls THEN "fetching" ELSE "importing"]
  /\ UNCHANGED <<url, upload, current, engine, failing, activePage, editing, sidebarOpen,
                 rows, zoomState, isPreparingDownload>>

Fetched ==
  /\ \E i \in DOMAIN queue :
       /\ queue[i].phase = "fetching"
       /\ queue' = [queue EXCEPT ![i].phase = "importing"]
  /\ UNCHANGED <<url, upload, current, engine, failing, isLoadingDocument, loadError, OnScreen>>

(* A run ends; only the current one is seen on the screen.                 *)
RunEnds(i, failed) ==
  /\ queue' = RemoveAt(queue, i)
  /\ IF queue[i].n = current
     THEN /\ isLoadingDocument' = FALSE /\ loadError' = (loadError \/ failed)
          /\ activePage' = IF failed THEN activePage ELSE 1
     ELSE UNCHANGED <<isLoadingDocument, loadError, activePage>>

(* Importing another document changes the status, which takes a pending    *)
(* frame back unless it came first.                                        *)
Imported ==
  /\ \E i \in DOMAIN queue :
       queue[i].phase = "importing" /\ engine' = queue[i].doc /\ RunEnds(i, FALSE)
  /\ failing' \in {failing, FALSE}
  /\ UNCHANGED <<url, upload, current, reported, editing, sidebarOpen, rows, zoomState,
                 isPreparingDownload>>

LoadFailed ==
  /\ \E i \in DOMAIN queue :
       \/ queue[i].phase # "waiting" /\ RunEnds(i, TRUE) /\ UNCHANGED failing
       \/ queue[i].phase = "importing" /\ RunEnds(i, FALSE) /\ failing' = TRUE
  /\ UNCHANGED <<url, upload, current, engine, reported, editing, sidebarOpen, rows,
                 zoomState, isPreparingDownload>>

StatusFrame ==
  /\ failing /\ failing' = FALSE /\ loadError' = TRUE /\ isLoadingDocument' = FALSE
  /\ UNCHANGED <<url, upload, queue, current, engine, OnScreen>>

(* ---- pages ----------------------------------------------------------------------------- *)

Document == <<url, upload, queue, current, engine, failing, isLoadingDocument, loadError>>

HandlePageCountChange ==
  /\ Ready /\ reported' \in 1..MaxPages
  /\ UNCHANGED <<Document, activePage, editing, sidebarOpen, rows, zoomState,
                 isPreparingDownload>>

UpdateActivePage ==
  /\ PageCount # 0 /\ activePage' \in 1..PageCount
  /\ UNCHANGED <<Document, reported, editing, sidebarOpen, rows, zoomState,
                 isPreparingDownload>>

(* Edited while the field has the focus; what is typed is clamped at once. *)
EditPageNumber ==
  /\ editing' = ~editing /\ (editing \/ PageCount # 0)
  /\ UNCHANGED <<Document, reported, activePage, sidebarOpen, rows, zoomState,
                 isPreparingDownload>>

Clamped(n) == IF n < 1 THEN 1 ELSE IF n > PageCount THEN (IF PageCount = 0 THEN 1 ELSE PageCount)
              ELSE n

ApplyPageDraft ==
  /\ editing /\ \E n \in 0..(MaxPages + 1) : activePage' = Clamped(n)
  /\ UNCHANGED <<Document, reported, editing, sidebarOpen, rows, zoomState,
                 isPreparingDownload>>

ToggleSidebar ==
  /\ Ready /\ sidebarOpen' = ~sidebarOpen
  /\ UNCHANGED <<Document, reported, activePage, editing, rows, zoomState,
                 isPreparingDownload>>

(* The rows in view and their neighbours are rendered.                     *)
RenderRows ==
  /\ sidebarOpen
  /\ IF PageCount = 0 THEN rows' = NoRows
     ELSE \E first \in 1..PageCount : \E last \in first..PageCount :
            rows' = [visible |-> first..last,
                     prefetch |-> {p \in 1..PageCount : p + PrefetchRows >= first
                                     /\ p <= last + PrefetchRows} \ (first..last)]
  /\ UNCHANGED <<Document, reported, activePage, editing, sidebarOpen, zoomState,
                 isPreparingDownload>>

(* A click on a thumbnail, or an arrow, Home or End in their list.         *)
SelectThumbnail ==
  /\ sidebarOpen /\ PageCount # 0
  /\ \/ activePage' \in rows.visible \cap 1..PageCount
     \/ activePage' \in {Clamped(activePage + 1), Clamped(activePage - 1), 1, PageCount}
  /\ UNCHANGED <<Document, reported, editing, sidebarOpen, rows, zoomState,
                 isPreparingDownload>>

(* ---- zoom and download --------------------------------------------------------------- *)

SetZoomLevel ==
  /\ Ready /\ \E l \in Levels : zoomState' = [key |-> DocumentKey, level |-> l]
  /\ UNCHANGED <<Document, reported, activePage, editing, sidebarOpen, rows,
                 isPreparingDownload>>

(* The file as it was given, not what the engine holds.                    *)
HandleDownload ==
  /\ isPreparingDownload \/ Ready
  /\ isPreparingDownload' = ~isPreparingDownload
  /\ UNCHANGED <<Document, reported, activePage, editing, sidebarOpen, rows, zoomState>>

ViewerNext ==
  \/ ChangeUrl \/ HandleUpload \/ RunStarts \/ Fetched \/ Imported \/ LoadFailed
  \/ StatusFrame \/ HandlePageCountChange \/ UpdateActivePage \/ EditPageNumber
  \/ ApplyPageDraft \/ ToggleSidebar \/ RenderRows \/ SelectThumbnail
  \/ SetZoomLevel \/ HandleDownload

ViewerSpec == ViewerInit /\ [][ViewerNext]_viewerVars

(* ---- properties ------------------------------------------------------------------ *)

(* "Imports mutate the shared editor instance ... so every import is       *)
(* chained through here": at most one import runs, and once the queue is   *)
(* empty a screen without an error shows the document chosen last, however *)
(* often the url or the picked file changed meanwhile.                     *)
NewestIsShown ==
  queue = <<>> /\ Ready /\ ~failing => engine = DocumentKey
=============================================================================
