---------------------------- MODULE PdfDocument ----------------------------
(* The document of the web PDF editor: the input the page gives it, the    *)
(* sources made of that input and of the editor's own replacements, the    *)
(* documents the engine opens for them, and the jobs (saving, flattening,  *)
(* page operations, uploads) that read the shown document and may put a    *)
(* new one in its place.  components/extend/pdf-editor.tsx, with the pages *)
(* panel and the password prompt.                                          *)
EXTENDS Naturals, Sequences, FiniteSets

CONSTANTS MaxInputs,   \* bound: values of the src property over the run
          MaxDocs,     \* bound: openDocument calls over the run
          MaxJobs,     \* bound: jobs started over the run
          MaxEdits,    \* bound: edits made in one document
          Pages        \* the pages of the first document, 1 .. Pages

VARIABLES engine,      \* the shared PDF engine: loading, ready or failed
          input,       \* [ver, kind]: the src property and its version
          reading,     \* the blob of this input is being read
          resolved,    \* the source setResolved holds: [ver, n]
          sources,     \* nextSourceKey's counter
          opened,      \* openedSourceRef: the source opened last
          docs,        \* the engine's documents, in the order of their opening
          requested,   \* requestedDocument: 0 or a document
          active,      \* the document manager's active document, 0 for none
          failed,      \* loadError: the source that failed
          panel,       \* the pages panel: [open, sel]
          dialog,      \* the confirmation asked for and what it captured
          jobs,        \* the jobs under way
          started,     \* jobs started so far
          lost,        \* history: an edit is in no document any more
          why          \* history: the lapses that explain losses and leaks

docVars == <<engine, input, reading, resolved, sources, opened, docs, requested,
             active, failed, panel, dialog, jobs, started, lost, why>>

NoSource == [ver |-> 0, n |-> 0]
NoDialog == [kind |-> "none"]
DocIds == 1..Len(docs)

(* The source of an input: what was resolved for it, else its own url.  A  *)
(* blob has none until it is read.                                         *)
SourceOf(inp, res) ==
  IF res.ver = inp.ver THEN res
  ELSE IF inp.kind = "url" THEN [ver |-> inp.ver, n |-> 0] ELSE NoSource

Source == SourceOf(input, resolved)

IsRequested ==
  /\ requested # 0 /\ requested = active
  /\ docs[requested].src = Source

Failed == \/ failed # NoSource /\ failed = Source
          \/ active # 0 /\ docs[active].status = "error" /\ IsRequested

Ready == /\ engine = "ready" /\ IsRequested
         /\ docs[active].status = "loaded" /\ ~Failed

(* What the editor shows: the document, the password prompt or a status.   *)
Shown ==
  IF Ready THEN "ready"
  ELSE IF IsRequested /\ docs[active].status = "password" THEN "password"
  ELSE IF engine = "failed" \/ Failed THEN "error"
  ELSE "loading"

OpenDocs == {d \in DocIds : docs[d].status # "closed"}
Pending(d) == docs[d].work > docs[d].committed
Busy == \E j \in jobs : j.here
Live(d) == docs[d].status = "loaded"

DocInit ==
  /\ engine = "loading"
  /\ input \in [ver : {1}, kind : {"url", "blob"}]
  /\ reading = (input.kind = "blob")
  /\ resolved = NoSource /\ sources = 0 /\ opened = NoSource
  /\ docs = <<>> /\ requested = 0 /\ active = 0 /\ failed = NoSource
  /\ panel = [open |-> FALSE, sel |-> {}]
  /\ dialog = NoDialog /\ jobs = {} /\ started = 0
  /\ lost = FALSE /\ why = {}

(* What bugs in the answer's callback and in what a job captures would do. *)
OpenAnsweredOnly(d) ==
  /\ docs[d].status = "opening"
  /\ \E ok \in BOOLEAN :
       /\ docs' = [docs EXCEPT ![d].status = IF ok THEN "loading" ELSE "error"]
       /\ requested' = IF ok /\ opened = docs[d].src THEN d ELSE requested
  /\ UNCHANGED <<engine, input, reading, resolved, sources, opened, active, failed,
                 dialog, started, lost, why>>
  /\ panel' = panel /\ jobs' = jobs

JobAtOnce(kind, sel, here) ==
  [kind |-> kind, id |-> started + 1, doc |-> active, ver |-> input.ver, sel |-> sel,
   here |-> here, saved |-> 0, pages |-> 0,
   phase |-> IF kind = "upload" THEN "land" ELSE "work"]

(* The loader's effect, run after the render that changed the source: a    *)
(* source that was not the last one opened is opened, and the documents    *)
(* open by then are remembered, to be closed when it has loaded.           *)
OpenSource(eng, src, pages) ==
  IF eng # "ready" \/ src = NoSource \/ opened = src
  THEN UNCHANGED <<opened, failed, docs, active>>
  ELSE /\ Len(docs) < MaxDocs
       /\ opened' = src
       /\ failed' = NoSource
       /\ docs' = Append(docs, [src |-> src, prev |-> OpenDocs, status |-> "opening",
                                locked |-> FALSE, work |-> 0, committed |-> 0,
                                pages |-> pages])
       /\ active' = IF OpenDocs = {} THEN Len(docs) + 1 ELSE active

(* The pages panel is unmounted with the document or when it is closed,    *)
(* with its selection; a job it started goes on without it.                *)
PanelFollows(open) ==
  IF Ready' /\ open THEN UNCHANGED panel
  ELSE panel' = [open |-> open, sel |-> {}]

Orphaned(js) == {[j EXCEPT !.here = FALSE] : j \in js}
JobsFollow(js) == jobs' = IF Ready' THEN js ELSE Orphaned(js)

EngineSettles ==
  /\ engine = "loading"
  /\ engine' \in {"ready", "failed"}
  /\ OpenSource(engine', Source, Pages)
  /\ UNCHANGED <<input, reading, resolved, sources, requested, panel, dialog,
                 jobs, started, lost, why>>

(* The page gives the editor another src: what was resolved for the old    *)
(* one is no longer looked at, and an unfinished read is cancelled.        *)
ChangeInput ==
  /\ input.ver < MaxInputs
  /\ \E k \in {"url", "blob"} :
       /\ input' = [ver |-> input.ver + 1, kind |-> k]
       /\ reading' = (k = "blob")
       /\ OpenSource(engine, SourceOf(input', resolved), Pages)
  /\ UNCHANGED <<engine, resolved, sources, requested, dialog, started, lost, why>>
  /\ PanelFollows(panel.open) /\ JobsFollow(jobs)

BlobRead ==
  /\ reading
  /\ reading' = FALSE
  /\ \/ /\ sources' = sources + 1
        /\ resolved' = [ver |-> input.ver, n |-> sources']
        /\ OpenSource(engine, resolved', Pages)
        /\ UNCHANGED why
     \/ /\ why' = why \cup {"unread"}        \* a rejected read is not handled
        /\ UNCHANGED <<sources, resolved, opened, failed, docs, active>>
  /\ UNCHANGED <<engine, input, requested, dialog, started, lost>>
  /\ PanelFollows(panel.open) /\ JobsFollow(jobs)

(* The engine answers openDocument; only the last source's answer is heard. *)
OpenAnswered(d) ==
  /\ docs[d].status = "opening"
  /\ \/ /\ docs' = [docs EXCEPT ![d].status = "loading"]
        /\ requested' = IF opened = docs[d].src THEN d ELSE requested
        /\ UNCHANGED failed
     \/ /\ docs' = [docs EXCEPT ![d].status = "error"]
        /\ failed' = IF opened = docs[d].src THEN docs[d].src ELSE failed
        /\ UNCHANGED requested
  /\ UNCHANGED <<engine, input, reading, resolved, sources, opened, active,
                 dialog, started, lost, why>>
  /\ PanelFollows(panel.open) /\ JobsFollow(jobs)

(* The document is loaded: it becomes the active one and those that were   *)
(* open before it are closed.  One that wants a password only becomes      *)
(* active; a failure is kept for its source.                               *)
CloseAll(ds, gone) ==
  [e \in DOMAIN ds |->
     IF e \in gone THEN [ds[e] EXCEPT !.status = "closed", !.src = NoSource,
                                     !.prev = {}, !.pages = 0, !.locked = FALSE]
     ELSE ds[e]]

LoadSettles(d) ==
  LET heard == opened = docs[d].src IN
  /\ docs[d].status = "loading"
  /\ \/ /\ docs' = CloseAll([docs EXCEPT ![d].status = "loaded", ![d].prev = {}],
                            IF heard THEN docs[d].prev \ {d} ELSE {})
        /\ active' = IF heard THEN d ELSE active
        /\ UNCHANGED failed
     \/ /\ docs' = [docs EXCEPT ![d].status = "password", ![d].locked = TRUE]
        /\ active' = IF heard THEN d ELSE active
        /\ UNCHANGED failed
     \/ /\ docs' = [docs EXCEPT ![d].status = "error"]
        /\ failed' = IF heard THEN docs[d].src ELSE failed
        /\ UNCHANGED active
  /\ UNCHANGED <<engine, input, reading, resolved, sources, opened, requested,
                 dialog, started, lost, why>>
  /\ PanelFollows(panel.open) /\ JobsFollow(jobs)

(* The password prompt: a right password loads the document in place.      *)
RetryDocument ==
  /\ Shown = "password"
  /\ docs' = [docs EXCEPT ![active].status = "loaded"]
  /\ UNCHANGED <<engine, input, reading, resolved, sources, opened, requested,
                 active, failed, panel, dialog, jobs, started, lost, why>>

(* ---- the document at work -------------------------------------------- *)

Edit ==
  /\ Ready /\ dialog = NoDialog /\ docs[active].work < MaxEdits
  /\ docs' = [docs EXCEPT ![active].work = @ + 1]
  /\ why' = IF jobs = {} THEN why ELSE why \cup {"during"}
  /\ UNCHANGED <<engine, input, reading, resolved, sources, opened, requested,
                 active, failed, panel, dialog, jobs, started, lost>>

(* The annotation plugin commits by itself (autoCommit), some time later.  *)
AutoCommit ==
  /\ \E d \in DocIds : /\ Live(d) /\ Pending(d)
                       /\ docs' = [docs EXCEPT ![d].committed = @ + 1]
  /\ UNCHANGED <<engine, input, reading, resolved, sources, opened, requested,
                 active, failed, panel, dialog, jobs, started, lost, why>>

TogglePanel ==
  /\ Ready
  /\ panel' = [open |-> ~panel.open, sel |-> {}]
  /\ jobs' = Orphaned(jobs)
  /\ UNCHANGED <<engine, input, reading, resolved, sources, opened, docs, requested,
                 active, failed, dialog, started, lost, why>>

(* A click on a page tile selects it, adds or removes it, or selects the   *)
(* range from the page clicked last; "Clear" is the empty range.           *)
Selections(sel, p, q) == {{p}, p..q, (sel \cup {p}) \ (sel \cap {p})}

SelectPage ==
  /\ Ready /\ panel.open /\ dialog = NoDialog
  /\ \E p, q \in 1..docs[active].pages :
       \E s \in Selections(panel.sel, p, q) : panel' = [panel EXCEPT !.sel = s]
  /\ UNCHANGED <<engine, input, reading, resolved, sources, opened, docs, requested,
                 active, failed, dialog, jobs, started, lost, why>>

(* What a job captures when it starts: the document and the pages it works *)
(* on, the input its replacement is meant for, whether edits are pending.  *)
Job(kind, sel, here) ==
  [kind |-> kind, id |-> started + 1, doc |-> active, ver |-> input.ver, sel |-> sel,
   here |-> here, saved |-> 0, pages |-> 0,
   phase |-> IF kind = "upload" THEN "land"
             ELSE IF active # 0 /\ Pending(active) THEN "commit" ELSE "work"]

Start(j) == started < MaxJobs /\ started' = started + 1 /\ jobs' = jobs \cup {j}

(* Save and the shortcut for it; every page operation that rewrites the    *)
(* saved bytes or extracts from them; the upload of another PDF.           *)
StartSave ==
  /\ Ready /\ Start(Job("save", {}, FALSE))
  /\ UNCHANGED <<engine, input, reading, resolved, sources, opened, docs, requested,
                 active, failed, panel, dialog, lost, why>>

CanAssemble == Ready /\ panel.open /\ ~docs[active].locked /\ ~Busy /\ dialog = NoDialog

StartPageOperation ==
  /\ \/ CanAssemble /\ panel.sel # {} /\ Start(Job("arrange", panel.sel, TRUE))
     \/ CanAssemble /\ Start(Job("insert", panel.sel, TRUE))
     \/ /\ Ready /\ panel.open /\ ~Busy /\ panel.sel # {} /\ dialog = NoDialog
        /\ Start(Job("extract", panel.sel, TRUE))
  /\ UNCHANGED <<engine, input, reading, resolved, sources, opened, docs, requested,
                 active, failed, panel, dialog, lost, why>>

UploadFile ==
  /\ Start(Job("upload", {}, FALSE))
  /\ UNCHANGED <<engine, input, reading, resolved, sources, opened, docs, requested,
                 active, failed, panel, dialog, lost, why>>

(* Flattening and deleting pages ask first; the question keeps the         *)
(* document and the input of the moment it was asked.                      *)
AskFlatten ==
  /\ Ready /\ dialog = NoDialog
  /\ dialog' = Job("flatten", {}, FALSE)
  /\ UNCHANGED <<engine, input, reading, resolved, sources, opened, docs, requested,
                 active, failed, panel, jobs, started, lost, why>>

AskDelete ==
  /\ CanAssemble /\ panel.sel # {}
  /\ Cardinality(panel.sel) < docs[active].pages
  /\ dialog' = Job("delete", panel.sel, TRUE)
  /\ UNCHANGED <<engine, input, reading, resolved, sources, opened, docs, requested,
                 active, failed, panel, jobs, started, lost, why>>

AnswerDialog ==
  /\ Ready /\ dialog # NoDialog
  /\ dialog' = NoDialog
  /\ \/ Start([dialog EXCEPT !.id = started + 1, !.here = @ /\ dialog.doc = active])
     \/ UNCHANGED <<jobs, started>>
  /\ UNCHANGED <<engine, input, reading, resolved, sources, opened, docs, requested,
                 active, failed, panel, lost, why>>

(* Only flattening and deleting stop at a commit that fails; the others    *)
(* "continue with whatever the engine currently holds".                    *)
JobCommits(j) ==
  /\ j.phase = "commit"
  /\ \/ /\ Live(j.doc)
        /\ docs' = [docs EXCEPT ![j.doc].committed = docs[j.doc].work]
        /\ jobs' = (jobs \ {j}) \cup {[j EXCEPT !.phase = "work"]}
        /\ UNCHANGED why
     \/ /\ jobs' = (jobs \ {j}) \cup
             (IF j.kind \in {"flatten", "delete"} THEN {} ELSE {[j EXCEPT !.phase = "work"]})
        /\ why' = why \cup {"uncommitted"}
        /\ UNCHANGED docs
  /\ UNCHANGED <<engine, input, reading, resolved, sources, opened, requested,
                 active, failed, panel, dialog, started, lost>>

(* The engine's share: the pages are flattened or deleted in the live      *)
(* document and a copy is saved; the copy holds what was committed.        *)
PagesAfter(j) ==
  CASE j.kind = "delete" -> docs[j.doc].pages - Cardinality(j.sel)
    [] j.kind = "insert" -> docs[j.doc].pages + 1
    [] OTHER -> docs[j.doc].pages

JobWorks(j) ==
  /\ j.phase = "work"
  /\ \/ /\ Live(j.doc)
        /\ jobs' = (jobs \ {j}) \cup
             (IF j.kind \in {"save", "extract"} THEN {}
              ELSE {[j EXCEPT !.phase = "land", !.saved = docs[j.doc].committed,
                              !.pages = PagesAfter(j)]})
     \/ jobs' = jobs \ {j}
  /\ UNCHANGED <<engine, input, reading, resolved, sources, opened, docs, requested,
                 active, failed, panel, dialog, started, lost, why>>

(* replace: the new bytes become the source of the input the job started   *)
(* under.  If the input has changed since, they are set aside, and with    *)
(* them whatever had been resolved for the new input.                      *)
Replaces(j) == j.kind \in {"flatten", "delete", "arrange", "insert", "upload"}

Misses(j) ==
  \/ j.kind # "upload" /\ j.doc # 0 /\ j.saved < docs[j.doc].work
  \/ j.kind # "upload" /\ j.doc # active /\ Ready /\ docs[active].work > 0

JobLands(j) ==
  /\ j.phase = "land"
  /\ sources' = sources + 1
  /\ resolved' = [ver |-> j.ver, n |-> sources']
  /\ OpenSource(engine, SourceOf(input, resolved'), IF j.kind = "upload" THEN Pages ELSE j.pages)
  /\ lost' = (lost \/ Misses(j))
  /\ why' = why \cup (IF j.ver # input.ver THEN {"stale"} ELSE {})
                \cup (IF j.doc # active THEN {"superseded"} ELSE {})
  /\ UNCHANGED <<engine, input, reading, requested, dialog, started>>
  /\ PanelFollows(panel.open) /\ JobsFollow(jobs \ {j})

DocNext ==
  \/ EngineSettles \/ ChangeInput \/ BlobRead
  \/ \E d \in DocIds : OpenAnswered(d) \/ LoadSettles(d)
  \/ RetryDocument \/ Edit \/ AutoCommit
  \/ TogglePanel \/ SelectPage
  \/ StartSave \/ StartPageOperation \/ UploadFile
  \/ AskFlatten \/ AskDelete \/ AnswerDialog
  \/ \E j \in jobs : JobCommits(j) \/ JobWorks(j) \/ JobLands(j)

DocSpec == DocInit /\ [][DocNext]_docVars

(* ---- properties -------------------------------------------------------- *)

(* However inputs, replacements and answers of the engine overlap, the     *)
(* document on screen is the only one open, unless it was unlocked with a  *)
(* password (the success handler never runs for it) or a job landed after  *)
(* its input was gone.                                                     *)
NoDocumentLeft ==
  Ready /\ ~docs[active].locked /\ "stale" \notin why => OpenDocs = {active}

(* When nothing is under way the editor is not left loading: it shows the  *)
(* document, asks for the password or says what failed.  A blob that could *)
(* not be read and a job that landed late are the two ways to get stuck.   *)
NotLeftLoading ==
  /\ engine # "loading" /\ ~reading
  /\ \A d \in DocIds : docs[d].status \notin {"opening", "loading"}
  /\ why \cap {"unread", "stale"} = {}
  => Shown # "loading"

(* A replacement drops an edit only if the edit was made while the job ran, *)
(* if a commit failed, or if the job's document was no longer the one shown. *)
LossHasAReason ==
  lost => why \cap {"during", "uncommitted", "superseded"} # {}

(* What the pages panel has selected are pages of the document shown.      *)
SelectionIsOfPages == panel.sel # {} => Ready /\ panel.sel \subseteq 1..docs[active].pages
=============================================================================
