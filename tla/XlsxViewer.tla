----------------------------- MODULE XlsxViewer -----------------------------
(* The web workbook viewer (components/extend/xlsx-viewer.tsx): the        *)
(* workbook shown (fetched from the url or picked from disk), the search   *)
(* over its cells and the scrolling to a result.  The spreadsheet engine   *)
(* (@extend-ai/react-xlsx) is external: it holds the active sheet and      *)
(* answers row batches whenever it likes.                                  *)
EXTENDS Naturals, Sequences, FiniteSets

CONSTANTS MaxPicks,     \* bound: files picked from disk
          MaxRequests   \* bound: searches asked for

VARIABLES urlBook,      \* the url's workbook: loading, loaded or failed
          reading,    \* picked files whose bytes are being read
          book,       \* the workbook picked last to be read, 0: the url's
          draft,      \* the search field, "" when empty
          timer,      \* the debounce is running
          searchRequestId,    \* searchRequestIdRef
          jobs,       \* searches under way: request and query
          results,    \* the results held, the query they answer, the index
          searching,  \* isSearching
          sheet,      \* the engine's active sheet
          applied,    \* the result last selected in the grid, 0: none
          frame,      \* an animation frame will scroll to this row, 0: none
          top         \* scroll position

viewVars == <<urlBook, reading, book, draft, timer, searchRequestId, jobs, results,
              searching, sheet, applied, frame, top>>
searchVars == <<draft, timer, searchRequestId, jobs, results, searching, applied, frame>>

Queries == {"a", "b"}

(* The cells of the workbook: sheet, row, its height, the queries it       *)
(* matches and whether a filter hides it.                                  *)
Heights == <<1, 2, 1, 3>>
Cells == { [sheet |-> 1, row |-> 1, matches |-> {"a"}, hidden |-> FALSE],
           [sheet |-> 1, row |-> 3, matches |-> {"a", "b"}, hidden |-> TRUE],
           [sheet |-> 2, row |-> 2, matches |-> {"a"}, hidden |-> FALSE],
           [sheet |-> 2, row |-> 4, matches |-> {"b"}, hidden |-> FALSE] }

(* Sheet by sheet, row by row, the visible cells that match.               *)
Before(c, d) == c.sheet < d.sheet \/ (c.sheet = d.sheet /\ c.row < d.row)
FindResults(q) ==
  LET hits == {c \in Cells : q \in c.matches /\ ~c.hidden}
  IN  CHOOSE s \in [1..Cardinality(hits) -> hits] :
        \A i, j \in DOMAIN s : i < j => Before(s[i], s[j])

Empty == [of |-> "", cells |-> <<>>, index |-> 1]

ViewInit ==
  /\ urlBook = "loading" /\ reading = {} /\ book = 0
  /\ draft = "" /\ timer = FALSE /\ searchRequestId = 0 /\ jobs = {}
  /\ results = Empty /\ searching = FALSE
  /\ sheet = 1 /\ applied = 0 /\ frame = 0 /\ top = 0

Shows == book # 0 \/ urlBook = "loaded"

(* ---- the workbook --------------------------------------------------------- *)

LoadWorkbook ==
  /\ urlBook = "loading" /\ urlBook' \in {"loaded", "failed"}
  /\ UNCHANGED <<reading, book, searchVars, sheet, top>>

PickFile ==
  /\ \E n \in 1..MaxPicks : n \notin reading /\ reading' = reading \cup {n}
  /\ UNCHANGED <<urlBook, book, searchVars, sheet, top>>

(* The bytes of the pick have been read: the search, keyed by the         *)
(* workbook, starts afresh; leaving, it voids its requests.                *)
HandleWorkbookUpload ==
  /\ \E n \in reading :
       /\ reading' = reading \ {n} /\ book' = n
       /\ IF n = book THEN UNCHANGED searchVars
          ELSE /\ draft' = "" /\ timer' = FALSE /\ searchRequestId' = 0 /\ jobs' = {}
               /\ results' = Empty /\ searching' = FALSE /\ applied' = 0 /\ frame' = 0
  /\ sheet' = 1 /\ top' = 0
  /\ UNCHANGED urlBook

(* ---- search ---------------------------------------------------------------- *)

(* runSearch: the request is numbered, the old results stay meanwhile.     *)
RunSearch(q) ==
  /\ searchRequestId' = searchRequestId + 1 /\ applied' = 0
  /\ jobs' = jobs \cup {[id |-> searchRequestId', q |-> q]}
  /\ results' = [results EXCEPT !.index = 1]
  /\ searching' = TRUE

HandleSearchDraftChange ==
  /\ Shows /\ searchRequestId < MaxRequests
  /\ \E q \in Queries \ {draft} :
       /\ draft' = q /\ timer' = TRUE /\ searchRequestId' = searchRequestId + 1 /\ searching' = TRUE
  /\ UNCHANGED <<urlBook, reading, book, jobs, results, sheet, applied, frame, top>>

EmptyTheField ==
  /\ draft # "" /\ draft' = "" /\ timer' = FALSE
  /\ searchRequestId' = searchRequestId + 2 /\ applied' = 0
  /\ results' = Empty /\ searching' = FALSE
  /\ UNCHANGED <<urlBook, reading, book, jobs, sheet, frame, top>>

Debounced ==
  /\ timer /\ timer' = FALSE /\ RunSearch(draft)
  /\ UNCHANGED <<urlBook, reading, book, draft, sheet, frame, top>>

NavigateResults(step) ==
  LET n == Len(results.cells)
  IN  results' = [results EXCEPT !.index = ((@ - 1 + n + step) % n) + 1]

(* Enter goes to the next result if there is any, else searches at once;   *)
(* unlike the buttons it does so while a search is under way.              *)
EnterKey ==
  /\ \/ /\ results.cells # <<>> /\ \E step \in {1, Len(results.cells) - 1} : NavigateResults(step)
        /\ UNCHANGED <<searchRequestId, jobs, searching, applied>>
     \/ /\ results.cells = <<>> /\ draft # "" /\ searchRequestId < MaxRequests
        /\ RunSearch(draft)
  /\ UNCHANGED <<urlBook, reading, book, draft, timer, sheet, frame, top>>

ClearSearch ==
  /\ draft' = "" /\ timer' = FALSE /\ searchRequestId' = searchRequestId + 1
  /\ results' = Empty /\ searching' = FALSE /\ applied' = 0
  /\ searchRequestId < MaxRequests
  /\ UNCHANGED <<urlBook, reading, book, jobs, sheet, frame, top>>

(* The answer, or the failure, of a request that is no longer the latest   *)
(* is dropped.                                                             *)
Answer(j) ==
  /\ \E cells \in {FindResults(j.q), <<>>} :
       results' = [results EXCEPT !.of = j.q, !.cells = cells]
  /\ searching' = FALSE

SearchAnsweredAlways ==
  /\ \E j \in jobs : jobs' = jobs \ {j} /\ Answer(j)
  /\ UNCHANGED <<urlBook, reading, book, draft, timer, searchRequestId, sheet, applied, frame, top>>

SearchAnswered ==
  /\ \E j \in jobs :
       /\ jobs' = jobs \ {j}
       /\ IF j.id = searchRequestId THEN Answer(j) ELSE UNCHANGED <<results, searching>>
  /\ UNCHANGED <<urlBook, reading, book, draft, timer, searchRequestId, sheet, applied, frame, top>>

(* ---- showing the result ----------------------------------------------------- *)

(* The effect of the active result: first its sheet, then its cell, then a *)
(* frame that scrolls.  An index moved by Enter while a search ran may be  *)
(* past the end of its results: then no result is active.                  *)
Active == results.cells[results.index]
Key == 10 * Active.sheet + Active.row
ShowResult ==
  /\ results.index <= Len(results.cells)
  /\ IF sheet # Active.sheet
     THEN sheet' = Active.sheet /\ applied' = 0 /\ UNCHANGED <<frame, top>>
     ELSE /\ applied # Key
          /\ applied' = Key /\ frame' = Active.row /\ UNCHANGED <<sheet, top>>
  /\ UNCHANGED <<urlBook, reading, book, draft, timer, searchRequestId, jobs, results, searching>>

(* One axis of scrollXlsxCellIntoView: a header of 1 over a port of 5.     *)
SumBefore[r \in 1..4] == IF r = 1 THEN 0 ELSE Heights[r - 1] + SumBefore[r - 1]

CellStart(r) == 1 + SumBefore[r]
CellEnd(r) == CellStart(r) + Heights[r]
InView(r, t) == t + 1 <= CellStart(r) /\ CellEnd(r) <= t + 5
ScrollToCutsTall(r, t) ==
  IF CellStart(r) < t + 1 THEN CellStart(r) - 1
  ELSE IF CellStart(r) >= t + 5 THEN CellEnd(r) - 5 ELSE t

ScrollTo(r, t) ==
  IF CellStart(r) < t + 1 THEN CellStart(r) - 1
  ELSE IF CellEnd(r) > t + 5 THEN CellEnd(r) - 5 ELSE t

ScrollFrame ==
  /\ frame # 0 /\ top' = ScrollTo(frame, top) /\ frame' = 0
  /\ UNCHANGED <<urlBook, reading, book, draft, timer, searchRequestId, jobs, results, searching,
                 sheet, applied>>

UserScrolls ==
  /\ Shows /\ top' \in 0..3
  /\ UNCHANGED <<urlBook, reading, book, searchVars, sheet>>

(* A tab is clicked; the frame of the effect it ends is cancelled.         *)
SelectSheet ==
  /\ Shows /\ sheet' = 3 - sheet /\ frame' = 0
  /\ UNCHANGED <<urlBook, reading, book, draft, timer, searchRequestId, jobs, results, searching,
                 applied, top>>

ViewNext ==
  \/ LoadWorkbook \/ PickFile \/ HandleWorkbookUpload
  \/ HandleSearchDraftChange \/ EmptyTheField \/ Debounced \/ EnterKey \/ ClearSearch
  \/ SearchAnswered \/ ShowResult \/ ScrollFrame \/ UserScrolls \/ SelectSheet

ViewSpec == ViewInit /\ [][ViewNext]_viewVars

(* ---- properties ---------------------------------------------------------------- *)

(* When the search is over, the results are those of the text in the       *)
(* field, whatever was typed, asked and answered in between.               *)
AnswersTheQuestion == ~searching /\ results.cells # <<>> => results.of = draft

(* A frame that scrolls to a result leaves the result's cell in view.      *)
ScrollsIntoView == frame # 0 /\ frame' = 0 /\ ScrollFrame => InView(frame, top')
=============================================================================
