----------------------------- MODULE FilePreview ----------------------------
(* The preview of one file in the web client: the route that opens it      *)
(* (modules/files/components/url-preview), its drawer with the action bar  *)
(* (file-preview-drawer, use-download), the ticket of its bytes            *)
(* (use-content-url), and the probe that tests a ticket before a viewer is *)
(* mounted (document-preview-shell and the two panels).  The router, the   *)
(* ticket service and the viewers are external.  A render and its effects  *)
(* are one step.                                                           *)
EXTENDS Naturals, Sequences, FiniteSets, SequencesExt

CONSTANT MaxTickets   \* bound: tickets minted

VARIABLES previewKind,  \* how the file is shown
          hist,         \* the browser's history, the page shown last
          nav,          \* navigations the router has not done yet, in order
          leavingForEditor,
          file,         \* the query of the file
          content,      \* the ticket's query: url (0: none), fetching, failed
          minted,       \* tickets minted
          probes,       \* tickets with a probe under way
          probe,        \* DocumentProbeState
          refreshedOnce,
          good,         \* tickets a probe found alive
          zoom,         \* the picture's zoom, in quarters
          saving        \* a download's ticket is being asked for

previewVars == <<previewKind, hist, nav, leavingForEditor, file, content, minted, probes, probe,
                 refreshedOnce, good, zoom, saving>>

Kinds == {"image", "document", "workbook", "other"}
Route == Last(hist)
DrawerOpen == file = "here" /\ Route = "preview"
PanelUp == DrawerOpen /\ previewKind = "document"

NoContent == [url |-> 0, fetching |-> FALSE, failed |-> FALSE]
View == <<content, minted, probes, probe, refreshedOnce, good>>

PreviewInit ==
  /\ previewKind \in Kinds
  /\ hist = <<"grid", "preview">> /\ nav = <<>> /\ leavingForEditor = FALSE
  /\ file = "loading" /\ content = NoContent /\ minted = 0
  /\ probes = {} /\ probe = "probing" /\ refreshedOnce = FALSE /\ good = {}
  /\ zoom = 4 /\ saving = FALSE

(* The drawer comes up: the panel probes the ticket it finds in the cache; *)
(* a missing or stale one is asked for.                                    *)
Opens ==
  /\ zoom' = 4
  /\ IF previewKind = "document"
     THEN /\ \E again \in BOOLEAN :
               content' = [content EXCEPT !.fetching = @ \/ again \/ content.url = 0]
          /\ probes' = {content.url} \ {0}
          /\ probe' = "probing" /\ refreshedOnce' = FALSE
          /\ UNCHANGED <<minted, good>>
     ELSE UNCHANGED View

(* ---- the route -------------------------------------------------------------------- *)

FileAnswered ==
  /\ file = "loading"
  /\ \/ /\ file' = "here"
        /\ IF Route = "preview" THEN Opens ELSE UNCHANGED <<zoom, View>>
        /\ UNCHANGED hist
     \/ /\ file' = "gone"
        /\ hist' = Append(Front(hist), "grid")
        /\ UNCHANGED <<zoom, View>>
  /\ UNCHANGED <<previewKind, nav, leavingForEditor, saving>>

Edit ==
  /\ DrawerOpen /\ previewKind \in {"document", "workbook"} /\ Len(nav) < 2
  /\ leavingForEditor' = TRUE /\ nav' = Append(nav, "edit")
  /\ UNCHANGED <<previewKind, hist, file, View, zoom, saving>>

(* onOpenChange(false): the user dismisses the drawer, or it reports that  *)
(* it closed after the route took its URL away.                            *)
CloseAlways ==
  /\ file = "here" /\ Len(nav) < 2 /\ Len(hist) > 1
  /\ nav' = Append(nav, "back")
  /\ UNCHANGED <<previewKind, hist, leavingForEditor, file, View, zoom, saving>>

OnOpenChange ==
  /\ DrawerOpen \/ (file = "here" /\ Route = "edit")
  /\ ~leavingForEditor /\ Len(nav) < 2 /\ Len(hist) > 1
  /\ nav' = Append(nav, "back")
  /\ UNCHANGED <<previewKind, hist, leavingForEditor, file, View, zoom, saving>>

Arrives(h) ==
  /\ hist' = h
  /\ IF file = "here" /\ Last(h) = "preview" /\ Route # "preview"
     THEN Opens
     ELSE /\ probes' = IF Last(h) = "preview" THEN probes ELSE {}
          /\ UNCHANGED <<zoom, content, minted, probe, refreshedOnce, good>>

Navigates ==
  /\ nav # <<>> /\ nav' = Tail(nav)
  /\ Arrives(IF Head(nav) = "edit" THEN Append(hist, "edit")
             ELSE IF Len(hist) > 1 THEN Front(hist) ELSE hist)
  /\ UNCHANGED <<previewKind, leavingForEditor, file, saving>>

(* The browser's own back button, and a click that opens the file again.   *)
BrowserBack ==
  /\ Len(hist) > 1 /\ nav = <<>> /\ Arrives(Front(hist))
  /\ UNCHANGED <<previewKind, nav, leavingForEditor, file, saving>>

OpenAgain ==
  /\ Route = "grid" /\ nav = <<>> /\ file # "gone" /\ Arrives(Append(hist, "preview"))
  /\ leavingForEditor' \in {leavingForEditor, FALSE}
  /\ UNCHANGED <<previewKind, nav, file, saving>>

(* ---- the ticket and its probe -------------------------------------------------------- *)

(* A new ticket is a new URL: the probe of the old one is cancelled and    *)
(* the new one's begins.                                                   *)
TicketAnswered ==
  /\ content.fetching
  /\ \/ /\ minted < MaxTickets /\ minted' = minted + 1
        /\ content' = [url |-> minted', fetching |-> FALSE, failed |-> FALSE]
        /\ probes' = IF PanelUp THEN probes \cup {minted'} ELSE probes
        /\ probe' = IF PanelUp THEN "probing" ELSE probe
     \/ /\ content' = [content EXCEPT !.fetching = FALSE, !.failed = TRUE]
        /\ UNCHANGED <<minted, probes, probe>>
  /\ UNCHANGED <<previewKind, hist, nav, leavingForEditor, file, refreshedOnce, good, zoom,
                 saving>>

(* onExpired: the first failed probe of a panel refreshes the ticket.      *)
ProbeEnds(u, ok) ==
  /\ probe' = IF ok THEN "ready" ELSE "failed"
  /\ refreshedOnce' = (refreshedOnce \/ ~ok)
  /\ content' = [content EXCEPT !.fetching = @ \/ (~ok /\ ~refreshedOnce)]

ProbeAnsweredAny ==
  /\ PanelUp
  /\ \E u \in probes, ok \in BOOLEAN :
       /\ probes' = probes \ {u} /\ good' = IF ok THEN good \cup {u} ELSE good
       /\ ProbeEnds(u, ok)
  /\ UNCHANGED <<previewKind, hist, nav, leavingForEditor, file, minted, zoom, saving>>

ProbeAnswered ==
  /\ PanelUp
  /\ \E u \in probes, ok \in BOOLEAN :
       /\ probes' = probes \ {u} /\ good' = IF ok THEN good \cup {u} ELSE good
       /\ IF u = content.url THEN ProbeEnds(u, ok)
          ELSE UNCHANGED <<probe, refreshedOnce, content>>
  /\ UNCHANGED <<previewKind, hist, nav, leavingForEditor, file, minted, zoom, saving>>

(* "Try again", and the query's own refetches.                             *)
Refetch ==
  /\ PanelUp /\ ~content.fetching
  /\ content' = [content EXCEPT !.fetching = TRUE]
  /\ UNCHANGED <<previewKind, hist, nav, leavingForEditor, file, minted, probes, probe,
                 refreshedOnce, good, zoom, saving>>

ViewerUp == PanelUp /\ ~content.failed /\ content.url # 0 /\ probe = "ready"

(* ---- the drawer's own controls --------------------------------------------------------- *)

Zoom ==
  /\ DrawerOpen /\ previewKind = "image"
  /\ zoom' \in {zoom - 1, zoom + 1} /\ zoom' \in 1..8
  /\ UNCHANGED <<previewKind, hist, nav, leavingForEditor, file, View, saving>>

(* Download is disabled while its ticket is asked for.                     *)
Download ==
  /\ DrawerOpen /\ ~saving /\ saving' = TRUE
  /\ UNCHANGED <<previewKind, hist, nav, leavingForEditor, file, View, zoom>>

DownloadAnswered ==
  /\ saving /\ saving' = FALSE
  /\ UNCHANGED <<previewKind, hist, nav, leavingForEditor, file, View, zoom>>

PreviewNext ==
  \/ FileAnswered \/ Edit \/ OnOpenChange \/ Navigates \/ BrowserBack \/ OpenAgain
  \/ TicketAnswered \/ ProbeAnswered \/ Refetch
  \/ Zoom \/ Download \/ DownloadAnswered

PreviewSpec == PreviewInit /\ [][PreviewNext]_previewVars

(* ---- properties ------------------------------------------------------------------ *)

(* A viewer is mounted only on a ticket whose own probe found it alive,    *)
(* whatever order the answers of older probes come in.                     *)
ViewerShowsProbed == ViewerUp => content.url \in good

(* The drawer's closing never takes back the navigation to the editor:     *)
(* a back is asked for only while the preview is where the user is headed. *)
EditIsNotTakenBack ==
  Len(nav') > Len(nav) /\ Last(nav') = "back" =>
    Route = "preview" /\ ~\E i \in 1..Len(nav) : nav[i] = "edit"
=============================================================================
