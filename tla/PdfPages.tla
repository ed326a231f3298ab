------------------------------ MODULE PdfPages -----------------------------
(* The pages of one document in the web PDF viewer: the page scrolled to   *)
(* and the pages selected among the thumbnails, which are what is turned   *)
(* (components/extend/pdf-viewer.tsx).  The scroll and thumbnail plugins   *)
(* are external: a page asked for may be passed by or not reached.         *)
EXTENDS Naturals, FiniteSetsExt

CONSTANT N            \* the pages of the document, 1 .. N

VARIABLES loaded,     \* the document is there, and its controls are enabled
          layout,     \* the scroller's layout of the document has come
          active,     \* the page scrolled to, 0 while there is none
          going,      \* the page scrolling was asked for, 0 for none
          selected,   \* selectedPageIndexes
          anchor,     \* selectionAnchorPageIndex
          suppress,   \* the page whose scrolling selects nothing, 0 for none
          sidebar,    \* the thumbnails are shown
          aligned,    \* whether they were scrolled to the page when shown
          editing     \* the page number is being typed

pageVars == <<loaded, layout, active, going, selected, anchor, suppress, sidebar, aligned,
              editing>>

Pages == 1..N

(* ---- a document is shown ------------------------------------------------ *)

(* Another document mounts all this afresh.                                *)
PagesInit ==
  /\ loaded = FALSE /\ layout = FALSE /\ active = 0 /\ going = 0
  /\ selected = {} /\ anchor = 0 /\ suppress = 0
  /\ sidebar = FALSE /\ aligned = "no" /\ editing = FALSE

NewDocument ==
  /\ loaded
  /\ loaded' = FALSE /\ layout' = FALSE /\ active' = 0 /\ going' = 0
  /\ selected' = {} /\ anchor' = 0 /\ suppress' = 0
  /\ sidebar' = FALSE /\ aligned' = "no" /\ editing' = FALSE

looks == <<sidebar, editing>>

(* The first selection is the page the document opens at.                  *)
DocumentLoads ==
  /\ ~loaded
  /\ loaded' = TRUE
  /\ active' \in {0, 1}
  /\ selected' = {1} /\ anchor' = 1
  /\ UNCHANGED <<layout, going, suppress, aligned, looks>>

LayoutComes ==
  /\ loaded /\ ~layout
  /\ layout' = TRUE
  /\ UNCHANGED <<loaded, active, going, selected, anchor, suppress, aligned, looks>>

(* ---- scrolling and the selection ---------------------------------------- *)

(* The page scrolled to becomes the selection, unless a thumbnail sent the *)
(* scrolling there.                                                        *)
SyncSelection(p) ==
  /\ suppress' = 0
  /\ IF suppress = p THEN UNCHANGED <<selected, anchor>>
     ELSE selected' = {p} /\ anchor' = p

(* The thumbnails are scrolled to the page a frame after they are shown;   *)
(* a page change before that frame cancels it for good.                    *)
Align(shown, page) ==
  aligned' = IF ~shown THEN "no"
             ELSE IF page = 0 THEN aligned
             ELSE IF aligned = "no" THEN "pending"
             ELSE IF aligned = "pending" /\ page # active THEN "missed" ELSE aligned

ActivePageChanges ==
  /\ loaded
  /\ \E p \in Pages \ {active} :
       /\ active' = p /\ going' = IF p = going THEN 0 ELSE going
       /\ SyncSelection(p) /\ Align(sidebar, p)
  /\ UNCHANGED <<loaded, layout, looks>>

AlignFrame ==
  /\ aligned = "pending"
  /\ aligned' = "done"
  /\ UNCHANGED <<loaded, layout, active, going, selected, anchor, suppress, looks>>

ToggleSidebar ==
  /\ loaded
  /\ sidebar' = ~sidebar /\ Align(sidebar', active)
  /\ UNCHANGED <<loaded, layout, active, going, selected, anchor, suppress, editing>>

ScrollToPage(p) == going' = IF p = active THEN 0 ELSE p

PageIndexRange(p, q) == Min({p, q})..Max({p, q})

(* A thumbnail chosen replaces the selection, joins or leaves it, or       *)
(* stretches it from the anchor, which then stays.                         *)
SelectThumbnailPage(p, mode) ==
  /\ suppress' = p
  /\ selected' = CASE mode = "range" -> PageIndexRange(anchor, p)
                   [] mode = "toggle" -> IF p \in selected THEN selected \ {p}
                                         ELSE selected \union {p}
                   [] OTHER -> {p}
  /\ anchor' = IF mode = "range" THEN anchor ELSE p
  /\ ScrollToPage(p)
  /\ UNCHANGED <<loaded, layout, active, aligned, looks>>

ClickThumbnail ==
  /\ loaded /\ sidebar
  /\ \E p \in Pages, mode \in {"replace", "toggle", "range"} : SelectThumbnailPage(p, mode)

ThumbnailKey ==
  /\ loaded /\ sidebar
  /\ LET current == Max({active, 1})
     IN  \/ \E p \in {Min({N, current + 1}), Max({1, current - 1}), 1, N} :
              \E mode \in {"replace", "range"} : SelectThumbnailPage(p, mode)
         \/ SelectThumbnailPage(current, "toggle")

(* The control with the page number is the same in the PDF editor.         *)
EditPageNumber ==
  /\ loaded
  /\ editing' = ~editing
  /\ UNCHANGED <<loaded, layout, active, going, selected, anchor, suppress, sidebar,
                 aligned>>

(* Every number typed is brought into the document and scrolled to.        *)
ApplyPageDraft ==
  /\ editing
  /\ \E typed \in 0..(N + 1) : ScrollToPage(Min({Max({typed, 1}), N}))
  /\ UNCHANGED <<loaded, layout, active, selected, anchor, suppress, aligned, looks>>

HostScrolls ==
  /\ loaded
  /\ \E p \in Pages : ScrollToPage(p)
  /\ UNCHANGED <<loaded, layout, active, selected, anchor, suppress, aligned, looks>>

PagesNext ==
  \/ NewDocument \/ DocumentLoads \/ LayoutComes \/ ActivePageChanges \/ AlignFrame
  \/ ToggleSidebar \/ ClickThumbnail \/ ThumbnailKey \/ EditPageNumber \/ ApplyPageDraft
  \/ HostScrolls

PagesSpec == PagesInit /\ [][PagesNext]_pageVars

=============================================================================
