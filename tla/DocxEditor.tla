----------------------------- MODULE DocxEditor -----------------------------
(* The web document editor (components/extend/docx-editor.tsx) around the  *)
(* document it shows: the load effect, which fetches the url's document or *)
(* takes the one picked from disk and has the engine import it, the pages  *)
(* it counts and follows, the sidebar and the zoom.  The engine            *)
(* (@extend-ai/react-docx, external) imports one file after another into   *)
(* one model and reports a failure in its status.                          *)
EXTENDS Naturals, FiniteSets

CONSTANTS MaxLoads,  \* bound: runs of the load effect
          Pages      \* bound: pages of a document

VARIABLES hasUrl,    \* whether the editor was given a url
          named,     \* names given with the url
          picked,    \* uploadedDocxFile, 0: none
          loads,     \* runs of the load effect that have not ended
          current,   \* the run that isCurrent, 0: none
          engine,    \* the document of the engine's model, 0: a blank one
          imported,  \* documents imported
          edited,    \* whether the engine's model holds unsaved edits
          isLoadingDocument, loadError,
          reported,  \* reportedPageCount
          activePage, sidebarOpen,
          zoom       \* zoomScale, by its place among the options

docxVars == <<hasUrl, named, picked, loads, current, engine, imported, edited,
              isLoadingDocument, loadError, reported, activePage, sidebarOpen, zoom>>

Url == 1            \* the url's document; a picked file has a number of its own
ZoomOptions == 1..3   \* bound: zoom options
DefaultZoom == 2
Chosen == IF picked # 0 THEN picked ELSE IF hasUrl THEN Url ELSE 0

DocxInit ==
  /\ hasUrl \in BOOLEAN /\ named = 1 /\ picked = 0
  /\ loads = (IF hasUrl THEN {[n |-> 1, doc |-> Url, phase |-> "fetching"]} ELSE {})
  /\ current = (IF hasUrl THEN 1 ELSE 0)
  /\ engine = 0 /\ imported = {} /\ edited = FALSE
  /\ isLoadingDocument = hasUrl /\ loadError = FALSE
  /\ reported = 0 /\ activePage = 1 /\ sidebarOpen = FALSE /\ zoom = DefaultZoom

HasDocument == Chosen # 0
Ready == HasDocument /\ ~isLoadingDocument /\ ~loadError
PageCount == IF Ready THEN IF reported = 0 THEN 1 ELSE reported ELSE 0

(* A run of the load effect; the run before it is not current any more.    *)
Load(doc) ==
  /\ current < MaxLoads /\ current' = current + 1
  /\ loads' = loads \cup {[n |-> current', doc |-> doc,
                           phase |-> IF doc = Url THEN "fetching" ELSE "importing"]}

HandleDocxUpload ==
  /\ \E doc \in 2..(MaxLoads + 1) : doc \notin imported /\ doc # picked /\ picked' = doc
  /\ Load(picked')
  /\ zoom' = DefaultZoom /\ activePage' = 1 /\ reported' = 0
  /\ isLoadingDocument' = TRUE /\ loadError' = FALSE
  /\ UNCHANGED <<hasUrl, named, engine, imported, edited, sidebarOpen>>

(* The name is among the effect's dependencies: another name loads the     *)
(* url's document once more, under a screen that does not say so.          *)
Rename ==
  /\ hasUrl /\ picked = 0 /\ named < 2 /\ named' = named + 1 /\ Load(Url)
  /\ UNCHANGED <<hasUrl, picked, engine, imported, edited, isLoadingDocument, loadError,
                 reported, activePage, sidebarOpen, zoom>>

(* Every run goes on to import, the current one or not.                    *)
Fetched ==
  /\ \E l \in loads :
       /\ l.phase = "fetching"
       /\ loads' = (loads \ {l}) \cup {[l EXCEPT !.phase = "importing"]}
  /\ UNCHANGED <<hasUrl, named, picked, current, engine, imported, edited,
                 isLoadingDocument, loadError, reported, activePage, sidebarOpen, zoom>>

Imports(l) ==
  /\ l \in loads /\ l.phase = "importing" /\ loads' = loads \ {l}
  /\ engine' = l.doc /\ imported' = imported \cup {l.doc} /\ edited' = FALSE

ImportedWhoever ==
  /\ \E l \in loads : Imports(l)
  /\ isLoadingDocument' = FALSE /\ activePage' = 1
  /\ UNCHANGED <<hasUrl, named, picked, current, loadError, reported, sidebarOpen, zoom>>

(* Only the current run ends the loading screen.                           *)
Imported ==
  /\ \E l \in loads :
       /\ Imports(l)
       /\ IF l.n = current THEN isLoadingDocument' = FALSE /\ activePage' = 1
          ELSE UNCHANGED <<isLoadingDocument, activePage>>
  /\ UNCHANGED <<hasUrl, named, picked, current, loadError, reported, sidebarOpen, zoom>>

(* A fetch that failed counts for the current run only; a failed import    *)
(* reaches the screen through the engine's status, whichever run it was.   *)
LoadFailed ==
  /\ \E l \in loads :
       /\ loads' = loads \ {l}
       /\ IF l.n = current \/ l.phase = "importing"
          THEN loadError' = TRUE /\ isLoadingDocument' = FALSE
          ELSE UNCHANGED <<loadError, isLoadingDocument>>
  /\ UNCHANGED <<hasUrl, named, picked, current, engine, imported, edited, reported,
                 activePage, sidebarOpen, zoom>>

Edit ==
  /\ Ready /\ edited' = TRUE
  /\ UNCHANGED <<hasUrl, named, picked, loads, current, engine, imported,
                 isLoadingDocument, loadError, reported, activePage, sidebarOpen, zoom>>

(* ---- pages, sidebar and zoom --------------------------------------------------- *)

HandlePageCountChange ==
  /\ Ready /\ reported' \in 1..Pages
  /\ UNCHANGED <<hasUrl, named, picked, loads, current, engine, imported, edited,
                 isLoadingDocument, loadError, activePage, sidebarOpen, zoom>>

(* A frame after a scroll, the page nearest the middle of the view.        *)
UpdateActivePage ==
  /\ PageCount # 0 /\ activePage' \in 1..PageCount
  /\ UNCHANGED <<hasUrl, named, picked, loads, current, engine, imported, edited,
                 isLoadingDocument, loadError, reported, sidebarOpen, zoom>>

(* The sidebar shows a thumbnail for each page counted.                    *)
ScrollToPage ==
  /\ sidebarOpen /\ PageCount # 0 /\ activePage' \in 1..PageCount
  /\ UNCHANGED <<hasUrl, named, picked, loads, current, engine, imported, edited,
                 isLoadingDocument, loadError, reported, sidebarOpen, zoom>>

ToggleSidebar ==
  /\ Ready /\ sidebarOpen' = ~sidebarOpen
  /\ UNCHANGED <<hasUrl, named, picked, loads, current, engine, imported, edited,
                 isLoadingDocument, loadError, reported, activePage, zoom>>

GetNextZoomScale ==
  /\ Ready /\ zoom' \in ZoomOptions
  /\ UNCHANGED <<hasUrl, named, picked, loads, current, engine, imported, edited,
                 isLoadingDocument, loadError, reported, activePage, sidebarOpen>>

DocxNext ==
  \/ HandleDocxUpload \/ Rename \/ Fetched \/ Imported \/ LoadFailed \/ Edit
  \/ HandlePageCountChange \/ UpdateActivePage \/ ScrollToPage
  \/ ToggleSidebar \/ GetNextZoomScale

DocxSpec == DocxInit /\ [][DocxNext]_docxVars

(* ---- properties ------------------------------------------------------------------ *)

(* The editor opens its pages to the user only once the document last      *)
(* chosen was imported: an older load that ends late does not unlock it.   *)
ReadyMeansImported == Ready => Chosen \in imported
=============================================================================
