----------------------------- MODULE PdfViewer -----------------------------
(* The document of the web PDF viewer: the src property or the file the    *)
(* user picked in its place, and the documents the manager opens for them  *)
(* (components/extend/pdf-viewer.tsx).  The manager is external: a         *)
(* document opened is the active one, closing it activates another.        *)
EXTENDS Naturals, Sequences

CONSTANTS Srcs,        \* values of the src property; "" is none
          MaxUploads,  \* bound: files picked over the run
          MaxOpens     \* bound: documents opened over the run

VARIABLES engineStatus,    \* the shared PDF engine: loading, ready or failed
          src,       \* the src property
          uploaded,  \* [src, url]: the file picked and the src it replaced
          uploads,   \* files picked so far; their object URLs are 1, 2, ..
          revoked,   \* the object URLs given back
          opened,    \* openedFileRef: the file opened last
          docs,      \* the manager's documents, in the order of opening
          active,    \* the active document, 0 for none
          openError,
          reportedFor,  \* the document whose page count the page was told last
          broken     \* history: the files that failed to open

viewerVars == <<engineStatus, src, uploaded, uploads, revoked, opened, docs, active,
                openError, reportedFor, broken>>

UploadedUrl(s, u) == IF u.src = s THEN u.url ELSE 0

(* A file picked for the current src hides it.                             *)
FileOf(s, u) == IF UploadedUrl(s, u) # 0 THEN <<"blob", UploadedUrl(s, u)>> ELSE <<"src", s>>
PdfFile == FileOf(src, uploaded)
NoFile == <<"src", "">>

Open == {d \in DOMAIN docs : docs[d].status # "closed"}
Failed == openError \/ (active # 0 /\ docs[active].status = "error")
Shown ==
  IF engineStatus # "ready" THEN engineStatus
  ELSE IF PdfFile = NoFile THEN "empty"
  ELSE IF Failed THEN "error"
  ELSE IF active = 0 \/ docs[active].status # "loaded" THEN "loading" ELSE "document"

ViewerInit ==
  /\ engineStatus = "loading" /\ src \in Srcs /\ uploaded = [src |-> src, url |-> 0]
  /\ uploads = 0 /\ revoked = {} /\ opened = NoFile /\ docs = <<>> /\ active = 0
  /\ openError = FALSE /\ reportedFor = 0 /\ broken = {}

(* A URL given back cannot be fetched any more.                            *)
Fetchable(file) == file[1] = "blob" => file[2] \notin revoked

OpenFileAlone(eng, file) ==
  IF eng # "ready" \/ file = NoFile \/ opened = file
  THEN UNCHANGED <<opened, docs, active, openError>>
  ELSE /\ Len(docs) < MaxOpens
       /\ opened' = file /\ openError' = FALSE
       /\ docs' = Append(docs, [file |-> file, prev |-> {active} \ {0}, status |-> "opening",
                                fetchable |-> Fetchable(file)])
       /\ active' = Len(docs')

(* The effect of the render that follows: a file that is not the one       *)
(* opened last is opened, and the documents open now are to be closed when *)
(* it has loaded.                                                          *)
OpenFile(eng, file) ==
  IF eng # "ready" \/ file = NoFile \/ opened = file
  THEN UNCHANGED <<opened, docs, active, openError>>
  ELSE /\ Len(docs) < MaxOpens
       /\ opened' = file /\ openError' = FALSE
       /\ docs' = Append(docs, [file |-> file, prev |-> Open, status |-> "opening",
                                fetchable |-> Fetchable(file)])
       /\ active' = Len(docs')

EngineSettles ==
  /\ engineStatus = "loading"
  /\ engineStatus' \in {"ready", "failed"}
  /\ OpenFile(engineStatus', PdfFile)
  /\ UNCHANGED <<src, uploaded, uploads, revoked, reportedFor, broken>>

(* The object URL shown until now is given back once it is hidden, though  *)
(* uploaded still holds it and the src it belongs to may come back.        *)
Revoke(s, u) ==
  revoked' = IF UploadedUrl(s, u) = UploadedUrl(src, uploaded) THEN revoked
             ELSE revoked \union ({UploadedUrl(src, uploaded)} \ {0})

ChangeSrc ==
  /\ src' \in Srcs \ {src}
  /\ OpenFile(engineStatus, FileOf(src', uploaded)) /\ Revoke(src', uploaded)
  /\ UNCHANGED <<engineStatus, uploaded, uploads, reportedFor, broken>>

HandleUploadFile ==
  /\ uploads < MaxUploads
  /\ uploads' = uploads + 1 /\ uploaded' = [src |-> src, url |-> uploads']
  /\ OpenFile(engineStatus, FileOf(src, uploaded')) /\ Revoke(src, uploaded')
  /\ UNCHANGED <<engineStatus, src, reportedFor, broken>>

(* ---- the answers of the document manager ------------------------------- *)

HandleOpenErrorAlways(d) ==
  /\ openError' = TRUE
  /\ broken' = broken \union {docs[d].file}

(* An error counts only for the file opened last.                          *)
HandleOpenError(d) ==
  /\ openError' = (openError \/ opened = docs[d].file)
  /\ broken' = broken \union {docs[d].file}

(* Closing the documents of a set; the manager activates one of the rest.  *)
CloseAll(ds, closing) ==
  [d \in DOMAIN ds |-> IF d \in closing THEN [ds[d] EXCEPT !.status = "closed"] ELSE ds[d]]

Loaded(d) ==
  /\ docs[d].status = "opening" /\ docs[d].fetchable
  /\ docs' = [CloseAll(docs, docs[d].prev) EXCEPT ![d].status = "loaded"]
  /\ active' \in IF active \in docs[d].prev THEN Open \ docs[d].prev ELSE {active}
  /\ reportedFor' = d
  /\ UNCHANGED <<engineStatus, src, uploaded, uploads, revoked, opened, openError, broken>>

(* The open or the load fails; the document of a failed load stays.        *)
OpenFails(d) ==
  /\ docs[d].status = "opening"
  /\ docs' = [docs EXCEPT ![d].status = "error"]
  /\ HandleOpenError(d)
  /\ UNCHANGED <<engineStatus, src, uploaded, uploads, revoked, opened, active, reportedFor>>

ViewerNext ==
  \/ EngineSettles \/ ChangeSrc \/ HandleUploadFile
  \/ \E d \in DOMAIN docs : Loaded(d) \/ OpenFails(d)

ViewerSpec == ViewerInit /\ [][ViewerNext]_viewerVars

-----------------------------------------------------------------------------

(* Once the newest open has loaded and no other is under way, it is the    *)
(* only document still open: earlier opens that failed, or that loaded     *)
(* late, are closed with those they replaced.                              *)
NoDocumentLeft ==
  /\ Len(docs) > 0 /\ docs[Len(docs)].status = "loaded"
  /\ \A d \in Open : docs[d].status # "opening"
  => Open = {Len(docs)}

(* The viewer says it cannot show the file only when that file failed:     *)
(* the late failure of another one is not shown over it.                   *)
ErrorIsOfThisFile == openError => opened \in broken

=============================================================================
