----------------------------- MODULE DocxToolbar ----------------------------
(* The toolbar of the web document editor (components/extend/docx-editor): *)
(* the formatting commands and what they need, the style menu with its     *)
(* preview cards, the link editor and the picture picker, which stay open  *)
(* while the document goes on changing under them.  The engine holds the   *)
(* text, its formats, the selection and the history (external).            *)
EXTENDS Naturals, FiniteSets

CONSTANTS Styles,     \* paragraph styles offered
          MaxChanges    \* bound: edits in the history

VARIABLES disabled,   \* controlsDisabled
          isReadOnly,
          selection,  \* the text selected
          format,     \* the formats of each text
          linked,     \* texts that are links
          undone,     \* edits that can be undone, and redone
          link,       \* the link editor: open, and the text its draft was read from
          picking,    \* a picture is being picked
          menu,       \* whether the style menu is open
          hover,      \* the style under the pointer, "none" if none
          paragraphStylePreviewId,
          closing     \* preview cards about to close

toolbarVars == <<disabled, isReadOnly, selection, format, linked, undone, link, picking,
                 menu, hover, paragraphStylePreviewId, closing>>

Texts == 1..2   \* bound: texts that can be selected
Toggles == {"bold", "superscript", "subscript"}
NoStyle == "none"

ToolbarInit ==
  /\ disabled = TRUE /\ isReadOnly = FALSE /\ selection = 1
  /\ format = [t \in Texts |-> {}] /\ linked = {} /\ undone = [undo |-> 0, redo |-> 0]
  /\ link = [open |-> FALSE, from |-> 1] /\ picking = FALSE
  /\ menu = FALSE /\ hover = NoStyle /\ paragraphStylePreviewId = NoStyle /\ closing = {}

CanEdit == ~disabled /\ ~isReadOnly
Popups == <<menu, hover, paragraphStylePreviewId, closing>>

Edits ==
  undone.undo < MaxChanges /\ undone' = [undo |-> undone.undo + 1, redo |-> 0]

(* ---- the document under the toolbar ------------------------------------------------ *)

(* The document is loaded, or replaced by an import.                       *)
DocumentLoads ==
  /\ disabled' = ~disabled
  /\ undone' = [undo |-> 0, redo |-> 0] /\ format' = [t \in Texts |-> {}] /\ linked' = {}
  /\ UNCHANGED <<isReadOnly, selection, link, picking, Popups>>

Select ==
  /\ ~disabled /\ selection' \in Texts \ {selection}
  /\ UNCHANGED <<disabled, isReadOnly, format, linked, undone, link, picking, Popups>>

ToggleReadOnly ==
  /\ ~disabled /\ isReadOnly' = ~isReadOnly
  /\ UNCHANGED <<disabled, selection, format, linked, undone, link, picking, Popups>>

UndoRedo ==
  /\ ~isReadOnly
  /\ \/ undone.undo > 0 /\ undone' = [undo |-> undone.undo - 1, redo |-> undone.redo + 1]
     \/ undone.redo > 0 /\ undone' = [undo |-> undone.undo + 1, redo |-> undone.redo - 1]
  /\ UNCHANGED <<disabled, isReadOnly, selection, format, linked, link, picking, Popups>>

(* ---- commands ----------------------------------------------------------------------- *)

(* applyFontToggleValues: the one value the group gained or lost.  The     *)
(* engine holds one vertical alignment.                                    *)
Toggled(fs, f) ==
  IF f \in fs THEN fs \ {f}
  ELSE (IF f = "bold" THEN fs ELSE fs \ {"superscript", "subscript"}) \cup {f}

ApplyFontToggleValues ==
  /\ CanEdit /\ Edits
  /\ \E f \in Toggles : format' = [format EXCEPT ![selection] = Toggled(@, f)]
  /\ UNCHANGED <<disabled, isReadOnly, selection, linked, link, picking, Popups>>

(* Font, size, spacing, colours, alignment, lists, borders and tables.     *)
OtherCommand ==
  /\ CanEdit /\ Edits
  /\ UNCHANGED <<disabled, isReadOnly, selection, format, linked, link, picking, Popups>>

OpenLinkEditor ==
  /\ CanEdit /\ link' = [open |-> TRUE, from |-> selection]
  /\ UNCHANGED <<disabled, isReadOnly, selection, format, linked, undone, picking, Popups>>

(* Apply and Clear work on the text selected by now, also in a document    *)
(* that has become read-only; Escape only closes.                          *)
ApplyLink ==
  /\ link.open /\ link' = [link EXCEPT !.open = FALSE]
  /\ \/ Edits /\ linked' \in {linked \cup {selection}, linked \ {selection}}
     \/ UNCHANGED <<undone, linked>>
  /\ UNCHANGED <<disabled, isReadOnly, selection, format, picking, Popups>>

PickImage ==
  /\ CanEdit /\ ~picking /\ picking' = TRUE
  /\ UNCHANGED <<disabled, isReadOnly, selection, format, linked, undone, link, Popups>>

HandleImageUpload ==
  /\ picking /\ picking' = FALSE /\ (Edits \/ UNCHANGED undone)
  /\ UNCHANGED <<disabled, isReadOnly, selection, format, linked, link, Popups>>

(* ---- the style menu -------------------------------------------------------------------- *)

StyleMenu ==
  /\ CanEdit \/ menu
  /\ menu' = ~menu /\ hover' = NoStyle /\ paragraphStylePreviewId' = NoStyle
  /\ closing' = closing \cup ({hover} \ {NoStyle})
  /\ UNCHANGED <<disabled, isReadOnly, selection, format, linked, undone, link, picking>>

(* The pointer, or the focus, moves onto a style: its card at once, the    *)
(* card of the style it left after a delay.                                *)
PointAtStyle ==
  /\ menu /\ hover' \in Styles \ {hover}
  /\ paragraphStylePreviewId' = hover'
  /\ closing' = (closing \cup ({hover} \ {NoStyle})) \ {hover'}
  /\ UNCHANGED <<disabled, isReadOnly, selection, format, linked, undone, link, picking,
                 menu>>

LeaveStyles ==
  /\ menu /\ hover # NoStyle /\ hover' = NoStyle /\ closing' = closing \cup {hover}
  /\ UNCHANGED <<disabled, isReadOnly, selection, format, linked, undone, link, picking,
                 menu, paragraphStylePreviewId>>

ClosesAnyCard ==
  /\ \E s \in closing : closing' = closing \ {s} /\ paragraphStylePreviewId' = NoStyle
  /\ UNCHANGED <<disabled, isReadOnly, selection, format, linked, undone, link, picking,
                 menu, hover>>

(* A card's delayed close takes away its own card only.                    *)
CardCloses ==
  /\ \E s \in closing :
       /\ closing' = closing \ {s}
       /\ paragraphStylePreviewId' =
            IF paragraphStylePreviewId = s THEN NoStyle ELSE paragraphStylePreviewId
  /\ UNCHANGED <<disabled, isReadOnly, selection, format, linked, undone, link, picking,
                 menu, hover>>

SetParagraphStyle ==
  /\ menu /\ hover # NoStyle /\ (Edits \/ UNCHANGED undone)
  /\ menu' = FALSE /\ hover' = NoStyle /\ paragraphStylePreviewId' = NoStyle
  /\ closing' = closing \cup {hover}
  /\ UNCHANGED <<disabled, isReadOnly, selection, format, linked, link, picking>>

ToolbarNext ==
  \/ DocumentLoads \/ Select \/ ToggleReadOnly \/ UndoRedo
  \/ ApplyFontToggleValues \/ OtherCommand
  \/ OpenLinkEditor \/ ApplyLink \/ PickImage \/ HandleImageUpload
  \/ StyleMenu \/ PointAtStyle \/ LeaveStyles \/ CardCloses \/ SetParagraphStyle

ToolbarSpec == ToolbarInit /\ [][ToolbarNext]_toolbarVars

(* ---- properties ------------------------------------------------------------------ *)

(* The style under the pointer has its preview card, however many cards    *)
(* left behind close late.                                                 *)
CardOfTheStylePointedAt == hover # NoStyle => paragraphStylePreviewId = hover
=============================================================================
