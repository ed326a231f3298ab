------------------------------ MODULE PdfTools ------------------------------
(* The tools of the web PDF editor: the mode, the pointer tool, the detail *)
(* panel, the selection and what the menus, the ribbon and the keyboard do *)
(* with it, the lock on form fields and the two questions that outlive the *)
(* document they were asked about.  components/extend/pdf-editor.tsx.      *)
(* The annotation, redaction, history and interaction plugins are          *)
(* external: one pointer tool is active at a time, and every document has  *)
(* its own annotations, selection, lock and history.                       *)
EXTENDS Naturals, Sequences, FiniteSets

CONSTANTS MaxDocuments,  \* bound: documents shown one after the other
          MaxUndo        \* bound: changes the history remembers

VARIABLES mode,      \* view, annotate, sign, forms or redact
          design,    \* formDesignMode
          panel,     \* rightPanel
          dialog,    \* the question on screen: its kind and its document
          doc,       \* the documents shown so far; the last one is on screen
          ready,     \* it is loaded (controlsDisabled is its negation)
          may,       \* its permissions allow changes
          pointer,   \* the active pointer tool
          annots,    \* the kinds of annotation it has
          sel,       \* what is selected: annotations, or text
          locked,    \* its form fields are locked
          history    \* what its annotations were before and after each change

toolVars ==
  <<mode, design, panel, dialog, doc, ready, may, pointer, annots, sel, locked, history>>

Modes == {"view", "annotate", "sign", "forms", "redact"}
Panels == {"none", "properties", "comments", "redactions", "stamps", "signatures", "forms"}
Kinds == {"markup", "widget", "mark"}
NoQuestion == [kind |-> "none", doc |-> 0]
NoHistory == [past |-> <<>>, future |-> <<>>]

DefaultPanel == [m \in Modes |->
  CASE m = "annotate" -> "properties" [] m = "sign" -> "signatures"
    [] m = "forms" -> "forms" [] m = "redact" -> "redactions" [] OTHER -> "none"]

ToolsInit ==
  /\ mode = "view" /\ design = FALSE /\ panel = "none" /\ dialog = NoQuestion
  /\ doc = 1 /\ ready = FALSE /\ may = FALSE
  /\ pointer = "select" /\ annots = {} /\ sel = {} /\ locked = TRUE
  /\ history = NoHistory

Live == ready /\ dialog = NoQuestion

(* Mode and design mode belong to the editor, not to the document: a new   *)
(* document opens under those of the last, and the lock effect runs again  *)
(* for it.  Redaction marks are annotations (useAnnotationMode), so a file *)
(* saved with marks pending opens with them.                               *)
LockFor(m, d) == ~(m = "forms" /\ d)

DocumentLoads ==
  /\ ~ready /\ ready' = TRUE
  /\ may' \in BOOLEAN
  /\ annots' \in {{}, {"markup", "widget"}, {"mark"}}
  /\ pointer' = "select" /\ sel' = {} /\ history' = NoHistory
  /\ locked' = LockFor(mode, design)
  /\ UNCHANGED <<mode, design, panel, dialog, doc>>

DocumentReplaced ==
  /\ ready /\ doc < MaxDocuments
  /\ doc' = doc + 1 /\ ready' = FALSE /\ may' = FALSE
  /\ pointer' = "select" /\ annots' = {} /\ sel' = {} /\ locked' = TRUE
  /\ history' = NoHistory
  /\ UNCHANGED <<mode, design, panel, dialog>>

SetModeKeepsDesign(m) ==
  /\ Live /\ m # mode
  /\ mode' = m
  /\ panel' = DefaultPanel[m]
  /\ pointer' = "select"
  /\ sel' = sel \cap {"text"}
  /\ locked' = locked
  /\ UNCHANGED <<design, dialog, doc, ready, may, annots, history>>

(* A mode change ends every tool, deselects, opens the mode's panel and,   *)
(* outside forms, leaves design mode; the lock follows.                    *)
SetMode(m) ==
  /\ Live /\ m # mode
  /\ mode' = m
  /\ panel' = DefaultPanel[m]
  /\ pointer' = "select"
  /\ sel' = sel \cap {"text"}
  /\ design' = (design /\ m = "forms")
  /\ locked' = LockFor(m, design')
  /\ UNCHANGED <<dialog, doc, ready, may, annots, history>>

(* "Fill" and "Design" in forms mode.  Neither ends a field tool.          *)
SetFormDesign ==
  /\ Live /\ mode = "forms"
  /\ design' \in (IF may THEN BOOLEAN ELSE {FALSE})
  /\ locked' = LockFor(mode, design')
  /\ UNCHANGED <<mode, panel, dialog, doc, ready, may, pointer, annots, sel, history>>

(* Tools toggle: picking the active one ends it.                           *)
Use(t) ==
  /\ Live /\ pointer' = t
  /\ UNCHANGED <<mode, design, panel, dialog, doc, ready, may, annots, sel, locked, history>>

Toggle(t) == Use(IF pointer = t THEN "select" ELSE t)

(* Each mode's ribbon offers its own; changes need the permission.         *)
PickViewTool == mode = "view" /\ \E t \in {"pan", "zoom", "capture"} : Toggle(t)
PickAnnotateTool == mode = "annotate" /\ may /\ \E t \in {"markup", "write"} : Toggle(t)
PickSignTool == mode = "sign" /\ may /\ Toggle("write")
PickFieldTool == mode = "forms" /\ design /\ may /\ Toggle("field")
PickRedactionTool == mode = "redact" /\ may /\ Toggle("mark")
CaptureMenu == Toggle("capture")
HandKey == Toggle("pan")
SelectKey == Use("select")

(* The annotations change, and the history remembers what they were.      *)
Recent(states) == SubSeq(states, 1, IF Len(states) < MaxUndo THEN Len(states) ELSE MaxUndo)
Change(new) ==
  /\ annots' = new
  /\ history' = IF new = annots THEN history
                ELSE [past |-> Recent(<<annots>> \o history.past), future |-> <<>>]

(* A tool at work on the page.                                             *)
Made == CASE pointer \in {"markup", "write"} -> {"markup"}
          [] pointer = "field" -> {"widget"}
          [] pointer = "mark" -> {"mark"}
          [] OTHER -> {}

Draw ==
  /\ Live /\ Made # {}
  /\ Change(annots \cup Made) /\ sel' = Made
  /\ UNCHANGED <<mode, design, panel, dialog, doc, ready, may, pointer, locked>>

(* A click selects an annotation that is not locked, or text.              *)
Click ==
  /\ Live /\ pointer = "select"
  /\ \E s \in SUBSET (annots \ (IF locked THEN {"widget"} ELSE {})) \cup {{"text"}} : sel' = s
  /\ UNCHANGED <<mode, design, panel, dialog, doc, ready, may, pointer, annots, locked, history>>

SelectAllKey ==
  /\ Live /\ mode # "view" /\ annots # {}
  /\ sel' = annots
  /\ UNCHANGED <<mode, design, panel, dialog, doc, ready, may, pointer, annots, locked, history>>

EscapeKey ==
  /\ Live
  /\ pointer' = "select" /\ sel' = {}
  /\ UNCHANGED <<mode, design, panel, dialog, doc, ready, may, annots, locked, history>>

(* The Delete key and "Delete selected" spare what is structurally locked. *)
Deletable == sel \ ({"text"} \cup (IF locked THEN {"widget"} ELSE {}))

DeleteAnySelected ==
  /\ Live /\ sel \ {"text"} # {}
  /\ Change(annots \ sel) /\ sel' = {}
  /\ UNCHANGED <<mode, design, panel, dialog, doc, ready, may, pointer, locked>>

DeleteSelected ==
  /\ Live /\ Deletable # {}
  /\ Change(annots \ Deletable) /\ sel' = sel \ Deletable
  /\ UNCHANGED <<mode, design, panel, dialog, doc, ready, may, pointer, locked>>

(* The menu of one annotation: delete it, go to a panel about it.          *)
AnnotationMenu ==
  /\ Live /\ Cardinality(sel) = 1 /\ "text" \notin sel
  /\ \/ /\ may /\ Change(annots \ Deletable) /\ sel' = sel \ Deletable
        /\ UNCHANGED panel
     \/ /\ panel' \in {"properties", "comments", "stamps"}
        /\ (panel' = "comments" => "widget" \notin sel)
        /\ (panel' = "stamps" => may /\ sel = {"markup"})
        /\ UNCHANGED <<annots, sel, history>>
  /\ UNCHANGED <<mode, design, dialog, doc, ready, may, pointer, locked>>

(* The menu of several: "Delete all" asks nothing and spares nothing.      *)
GroupMenu ==
  /\ Live /\ Cardinality(sel) > 1
  /\ \/ may /\ Change(annots \ sel) /\ sel' = {} /\ UNCHANGED panel
     \/ panel' = "properties" /\ UNCHANGED <<annots, sel, history>>
  /\ UNCHANGED <<mode, design, dialog, doc, ready, may, pointer, locked>>

(* The menu of a text selection: mark it up, mark it for redaction.        *)
TextMenu ==
  /\ Live /\ may /\ sel = {"text"}
  /\ \/ Change(annots \cup {"markup"}) /\ sel' = {} /\ UNCHANGED panel
     \/ Change(annots \cup {"markup"}) /\ sel' = {"markup"} /\ panel' = "comments"
     \/ Change(annots \cup {"mark"}) /\ sel' = {} /\ panel' = "redactions"
  /\ UNCHANGED <<mode, design, dialog, doc, ready, may, pointer, locked>>

(* ---- questions that outlive their document --------------------------- *)

Ask(kind) ==
  /\ dialog' = [kind |-> kind, doc |-> doc]
  /\ UNCHANGED <<mode, design, panel, doc, ready, may, pointer, annots, sel, locked, history>>

AskRedact == Live /\ may /\ "mark" \in annots /\ Ask("redact")
AskLink == Live /\ may /\ sel # {} /\ "mark" \notin sel /\ Ask("link")

(* Marks that are applied are gone from the history too: a redaction       *)
(* cannot be undone.                                                       *)
Unmarked(states) == [i \in DOMAIN states |-> states[i] \ {"mark"}]
Redacted ==
  /\ annots' = annots \ {"mark"}
  /\ history' = [past |-> Unmarked(history.past), future |-> Unmarked(history.future)]

\* Mutant: the confirmation redacts the document on screen.
ConfirmOnScreen ==
  /\ ready /\ dialog # NoQuestion
  /\ dialog' = NoQuestion
  /\ IF dialog.kind = "redact" THEN Redacted ELSE UNCHANGED <<annots, history>>
  /\ sel' = sel \cap annots'
  /\ UNCHANGED <<mode, design, panel, doc, ready, may, pointer, locked>>

(* The redaction scope is the one of the document asked about; once that   *)
(* is replaced the confirmation reaches nothing.  The link dialog reads    *)
(* the selection of the document on screen when it is submitted.           *)
Confirm ==
  /\ ready /\ dialog # NoQuestion
  /\ dialog' = NoQuestion
  /\ IF dialog.kind = "redact"
     THEN IF dialog.doc = doc THEN Redacted ELSE UNCHANGED <<annots, history>>
     ELSE Change(annots \cup (IF sel = {} THEN {} ELSE {"markup"}))
  /\ sel' = sel \cap annots'
  /\ UNCHANGED <<mode, design, panel, doc, ready, may, pointer, locked>>

Cancel ==
  /\ ready /\ dialog # NoQuestion /\ dialog' = NoQuestion
  /\ UNCHANGED <<mode, design, panel, doc, ready, may, pointer, annots, sel, locked, history>>

(* "Clear" of the ribbon, "Clear all" and "Remove mark" of the redactions  *)
(* panel, which any mode may show, and the mark's own menu drop marks      *)
(* without a question.                                                     *)
ClearPending ==
  /\ Live /\ "mark" \in annots
  /\ mode = "redact" \/ panel = "redactions" \/ sel = {"mark"}
  /\ Change(annots \ {"mark"}) /\ sel' = sel \ {"mark"}
  /\ UNCHANGED <<mode, design, panel, dialog, doc, ready, may, pointer, locked>>

(* Undo and Redo of the toolbar and the keyboard, in any mode and for any  *)
(* change: neither asks for the permission nor heeds the lock.  What goes  *)
(* is no longer selected.                                                  *)
UndoIsNext == history.past # <<>> /\ annots' = Head(history.past)
RedoIsNext == history.future # <<>> /\ annots' = Head(history.future)

Undo ==
  /\ Live /\ UndoIsNext
  /\ history' = [past |-> Tail(history.past), future |-> <<annots>> \o history.future]
  /\ sel' = sel \cap (annots' \cup {"text"})
  /\ UNCHANGED <<mode, design, panel, dialog, doc, ready, may, pointer, locked>>

Redo ==
  /\ Live /\ RedoIsNext
  /\ history' = [past |-> <<annots>> \o history.past, future |-> Tail(history.future)]
  /\ sel' = sel \cap (annots' \cup {"text"})
  /\ UNCHANGED <<mode, design, panel, dialog, doc, ready, may, pointer, locked>>

(* The ribbon's panel buttons and the tab strip; tabs close the panel too. *)
ShowPanel ==
  /\ Live /\ panel' \in Panels
  /\ UNCHANGED <<mode, design, dialog, doc, ready, may, pointer, annots, sel, locked, history>>

ToolsNext ==
  \/ DocumentLoads \/ DocumentReplaced
  \/ \E m \in Modes : SetMode(m)
  \/ SetFormDesign
  \/ PickViewTool \/ PickAnnotateTool \/ PickSignTool \/ PickFieldTool \/ PickRedactionTool
  \/ CaptureMenu \/ HandKey \/ SelectKey
  \/ Draw \/ Click \/ SelectAllKey \/ EscapeKey
  \/ DeleteSelected \/ AnnotationMenu \/ GroupMenu \/ TextMenu
  \/ AskRedact \/ AskLink \/ Confirm \/ Cancel \/ ClearPending \/ ShowPanel
  \/ Undo \/ Redo

ToolsSpec == ToolsInit /\ [][ToolsNext]_toolVars

(* ---- properties -------------------------------------------------------- *)

(* Whatever the order of mode changes, Fill and Design and new documents,  *)
(* a form field disappears only while fields are being designed, unless    *)
(* "Delete all" removed a selection of several with it or the user took    *)
(* back, or made again, a change of this document's history.               *)
FieldsGoOnlyInDesign ==
  ready /\ ready' /\ "widget" \in annots /\ "widget" \notin annots'
    => \/ mode = "forms" /\ design
       \/ Cardinality(sel) > 1
       \/ history'.future # <<>> /\ UndoIsNext
       \/ history'.past # <<>> /\ RedoIsNext

(* Content is redacted only by an answer to a question about the document  *)
(* on screen: an answer to a question that outlived its document does not  *)
(* touch the marks of the next one.                                        *)
NothingRedactedUnasked ==
  dialog # NoQuestion /\ dialog' = NoQuestion /\ "mark" \in annots /\ "mark" \notin annots'
    => dialog = [kind |-> "redact", doc |-> doc]

(* A field can be taken hold of only in forms mode, and a field tool is    *)
(* active only there, whichever way the mode was left.                     *)
DesignStaysInForms == (design \/ ~locked \/ pointer = "field") => mode = "forms"
=============================================================================
