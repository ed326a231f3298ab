------------------------------- MODULE PdfText -----------------------------
(* The text of the document shown: the search popover, the same in the web *)
(* PDF viewer and in the editor (components/extend/pdf-viewer.tsx and      *)
(* pdf-editor.tsx), and the viewer's text selection.  The search and the   *)
(* selection plugins are external: an answer comes in any order or fails,  *)
(* and the end of a selection may escape the plugin.                       *)
EXTENDS Naturals

CONSTANTS Queries,      \* texts searched for; "" is none
          MaxRequests   \* bound: searches, and searches given up, over the run

VARIABLES provided,  \* the search plugin is there
          open,      \* the popover is open
          draft,     \* the text typed
          query,     \* the text searched for last
          timer,     \* the pause after typing is running
          request,   \* searchRequestId
          asked,     \* searches under way
          searching,
          found,     \* the plugin's results: of which query, how many, which is active
          shown,     \* the query whose first result was scrolled to last
          held,      \* the pointer is down
          frame,     \* the check after a release is pending
          text,      \* the plugin's selection: being made, and of something
          copied

searchVars == <<provided, open, draft, query, timer, request, asked, searching, found, shown>>
selectVars == <<held, frame, text, copied>>
textVars == <<searchVars, selectVars>>

Nothing == [of |-> "", total |-> 0, at |-> 0]

TextInit ==
  /\ provided \in BOOLEAN /\ open = FALSE /\ draft = "" /\ query = "" /\ timer = FALSE
  /\ request = 0 /\ asked = {} /\ searching = FALSE /\ found = Nothing /\ shown = ""
  /\ held = FALSE /\ frame = FALSE /\ text = [selecting |-> FALSE, some |-> FALSE]
  /\ copied = FALSE

(* ---- the search popover ------------------------------------------------- *)

OpenChange ==
  /\ open' = ~open
  /\ UNCHANGED <<provided, draft, query, timer, request, asked, searching, found, shown,
                 selectVars>>

(* Without a plugin nothing is searched for; else the newest request is    *)
(* this one.  Earlier requests are not taken back.                         *)
RunSearch(wanted) ==
  /\ request < MaxRequests
  /\ request' = request + 1 /\ query' = wanted
  /\ searching' = provided
  /\ asked' = IF provided THEN asked \union {[id |-> request', of |-> wanted]} ELSE asked
  /\ UNCHANGED <<provided, open, draft, found, shown, selectVars>>

Debounce == timer /\ RunSearch(draft) /\ timer' = FALSE

(* Giving up: what is under way is not for this popover any more, and the  *)
(* plugin forgets its results.                                             *)
GiveUp ==
  /\ request < MaxRequests
  /\ request' = request + 1 /\ draft' = "" /\ query' = "" /\ timer' = FALSE
  /\ searching' = FALSE
  /\ found' = IF provided THEN Nothing ELSE found
  /\ UNCHANGED <<provided, open, asked, shown, selectVars>>

TypeText ==
  /\ open
  /\ draft' \in Queries \ {draft}
  /\ searching' = TRUE /\ timer' = TRUE
  /\ UNCHANGED <<provided, open, query, request, asked, found, shown, selectVars>>

EraseText == open /\ draft # "" /\ GiveUp

ClearSearch == open /\ GiveUp

AnsweredAlways(job) ==
  /\ asked' = asked \ {job}
  /\ \E n \in 0..2 :
       /\ found' = [of |-> job.of, total |-> n, at |-> 0]
       /\ shown' = IF n > 0 THEN job.of ELSE shown
  /\ searching' = FALSE
  /\ UNCHANGED <<provided, open, draft, query, timer, request, selectVars>>

(* Only the newest search scrolls to its first result and ends searching.  *)
Answered(job) ==
  /\ asked' = asked \ {job}
  /\ \E n \in 0..2 :
       LET results == [of |-> job.of, total |-> n, at |-> 0]
       IN  IF job.id = request
           THEN /\ found' = results /\ searching' = FALSE
                /\ shown' = IF n > 0 THEN job.of ELSE shown
           ELSE /\ found' \in IF query = "" THEN {found} ELSE {found, results}
                /\ UNCHANGED <<searching, shown>>
  /\ UNCHANGED <<provided, open, draft, query, timer, request, selectVars>>

SearchFails(job) ==
  /\ asked' = asked \ {job}
  /\ searching' = (searching /\ job.id # request)
  /\ UNCHANGED <<provided, open, draft, query, timer, request, found, shown, selectVars>>

(* The next or the previous result, around the end.                        *)
Navigate ==
  /\ provided /\ found.total > 0
  /\ \E step \in {1, found.total - 1} :
       found' = [found EXCEPT !.at = (found.at + step) % found.total]
  /\ shown' = found.of
  /\ UNCHANGED <<provided, open, draft, query, timer, request, asked, searching, selectVars>>

(* The arrows wait for the search; Enter goes through what the plugin      *)
(* found last, whatever has been typed since.                              *)
ClickArrow == open /\ ~searching /\ Navigate

PressEnter ==
  /\ open
  /\ \/ found.total > 0 /\ Navigate
     \/ found.total = 0 /\ draft # "" /\ RunSearch(draft) /\ UNCHANGED timer

(* ---- selecting text ------------------------------------------------------ *)

BeginSelection ==
  /\ ~held
  /\ held' = TRUE /\ text' = [selecting |-> TRUE, some |-> FALSE]
  /\ UNCHANGED <<searchVars, frame, copied>>

Drag ==
  /\ held /\ text.selecting
  /\ text' = [text EXCEPT !.some = TRUE]
  /\ UNCHANGED <<searchVars, held, frame, copied>>

(* The pointer is let go or lost: the plugin may have seen it or not, and  *)
(* a check follows in the next frame.                                      *)
Release ==
  /\ held
  /\ held' = FALSE /\ frame' = TRUE
  /\ text' \in {text, [text EXCEPT !.selecting = FALSE]}
  /\ UNCHANGED <<searchVars, copied>>

ReleaseCheckOfText ==
  /\ frame
  /\ frame' = FALSE
  /\ text' = [text EXCEPT !.selecting = text.selecting /\ ~text.some]
  /\ UNCHANGED <<searchVars, held, copied>>

(* A selection still being made is ended when it holds text and dropped    *)
(* when it holds none.                                                     *)
ReleaseCheck ==
  /\ frame
  /\ frame' = FALSE
  /\ text' = [text EXCEPT !.selecting = FALSE]
  /\ UNCHANGED <<searchVars, held, copied>>

(* Copying is left to the field that is being typed into.                  *)
CopySelected ==
  /\ text.some /\ ~open
  /\ copied' = TRUE
  /\ UNCHANGED <<searchVars, held, frame, text>>

TextNext ==
  \/ OpenChange \/ Debounce \/ TypeText \/ EraseText \/ ClearSearch
  \/ \E job \in asked : Answered(job) \/ SearchFails(job)
  \/ ClickArrow \/ PressEnter
  \/ BeginSelection \/ Drag \/ Release \/ ReleaseCheck \/ CopySelected

TextSpec == TextInit /\ [][TextNext]_textVars

-----------------------------------------------------------------------------

(* An answer scrolls the document only to a result of the search asked for *)
(* last: a slow answer to an earlier one, or to one given up, moves        *)
(* nothing.                                                                *)
ScrollsForTheNewest ==
  asked' # asked /\ shown' # shown => shown' = query

(* Once the pointer is up and the frame after it has passed, no selection  *)
(* is left being made, whether or not it held any text.                    *)
NotLeftSelecting == ~held /\ ~frame => ~text.selecting

=============================================================================
