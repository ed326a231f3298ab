--------------------------- MODULE PdfProperties ---------------------------
(* The properties panel of the web PDF editor                             *)
(* (components/extend/pdf-editor-properties.tsx): it edits what is        *)
(* selected, or the defaults of the active tool.  Sliders, sizes, texts   *)
(* and angles wait for a pause in the typing (useDebouncedCommit); other  *)
(* controls apply at once; the note and the name of a form field wait for *)
(* the focus to leave.  Annotation and form plugins are external: they    *)
(* apply a patch at once, and answer a renaming later.                    *)
EXTENDS FiniteSets

VARIABLES chosen,        \* the selected annotations
          tool,          \* a tool with defaults is active
          shown,         \* the panel is on screen
          mayModify,     \* canModifyAnnotations
          look,          \* what the panel last applied to each: a value chosen
                         \* for it ("own"), for something else ("other"), none
          lockedAnnots,  \* the annotations flagged locked
          draft,         \* a value typed and not applied yet: for whom
          note,          \* NoteEditor: the draft differs from the note
          field,         \* the form field: maxLen and TEXT_COMB
          name           \* its renaming: none, sent, or a question to share

propVars == <<chosen, tool, shown, mayModify, look, lockedAnnots, draft, note, field, name>>

Markups == {"a", "b"}
Annots == Markups \cup {"w"}
Default == {"tool"}
Nothing == {}

PropInit ==
  /\ chosen = {} /\ tool = FALSE /\ shown = TRUE /\ mayModify \in BOOLEAN
  /\ look = [x \in Markups \cup Default |-> "none"]
  /\ lockedAnnots = {} /\ draft = Nothing /\ note = FALSE
  /\ field \in {[maxLen |-> FALSE, comb |-> FALSE], [maxLen |-> TRUE, comb |-> TRUE]}
  /\ name = "same"

IsEditing == chosen # {}
Single == Cardinality(chosen) = 1
Target == IF IsEditing THEN chosen ELSE Default

(* A control is on screen for what the selection's tools share, or for the *)
(* active tool; all are disabled while a selected annotation is locked.    *)
Editable == shown /\ IF IsEditing THEN mayModify /\ chosen \cap lockedAnnots = {} ELSE tool

(* applyPatch and applyRotation: a value chosen for v, applied to what is  *)
(* selected when they run.                                                 *)
Patch(v) ==
  look' = [x \in DOMAIN look |->
             IF x \in Target /\ (IsEditing \/ tool)
             THEN IF x \in v THEN "own" ELSE "other" ELSE look[x]]

(* ---- controls that apply at once, and controls that wait -------------- *)

Pick ==
  /\ Editable /\ Patch(Target)
  /\ UNCHANGED <<chosen, tool, shown, mayModify, lockedAnnots, draft, note, field, name>>

Type ==
  /\ Editable /\ draft' = Target
  /\ UNCHANGED <<chosen, tool, shown, mayModify, look, lockedAnnots, note, field, name>>

(* The pause ends: the last onCommit runs, whose closure holds the         *)
(* selection of the last render.  The timer does not look at the lock.     *)
Fire ==
  /\ draft # Nothing /\ draft' = Nothing
  /\ Patch(draft)
  /\ UNCHANGED <<chosen, tool, shown, mayModify, lockedAnnots, note, field, name>>

(* ---- selection, tool and panel ---------------------------------------- *)

(* A control stays mounted, and its timer runs, as long as what is shown   *)
(* next has the property too; else it unmounts and the value is dropped.   *)
(* Form fields have few properties of markups: either can happen.          *)
Survives(s, t) ==
  CASE s = {} /\ ~t -> {Nothing}
    [] OTHER -> {Nothing, draft}

(* The focus leaves the note first, unless the selection is changed from   *)
(* the keyboard.                                                           *)
BlurNote ==
  \/ UNCHANGED look
  \/ note /\ look' = [x \in DOMAIN look |-> IF x \in chosen THEN "own" ELSE look[x]]

SelectAnnotations ==
  /\ \E s \in SUBSET Annots :
       s # chosen /\ chosen' = s /\ draft' \in Survives(s, tool)
  /\ note' = FALSE /\ BlurNote
  /\ UNCHANGED <<tool, shown, mayModify, lockedAnnots, field, name>>

PickTool ==
  /\ tool' = ~tool /\ draft' \in Survives(chosen, tool')
  /\ UNCHANGED <<chosen, shown, mayModify, look, lockedAnnots, note, field, name>>

ShowPanelKeepsTimer ==
  /\ shown' = ~shown
  /\ note' = FALSE /\ BlurNote
  /\ UNCHANGED <<chosen, tool, mayModify, lockedAnnots, draft, field, name>>

ShowProperties ==
  /\ shown' = ~shown /\ draft' = Nothing
  /\ note' = FALSE /\ BlurNote
  /\ UNCHANGED <<chosen, tool, mayModify, lockedAnnots, field, name>>

(* ---- note and flags ---------------------------------------------------- *)

TypeNote ==
  /\ shown /\ mayModify /\ Single /\ chosen \subseteq Markups /\ note' = TRUE
  /\ UNCHANGED <<chosen, tool, shown, mayModify, look, lockedAnnots, draft, field, name>>

LeaveNote ==
  /\ note /\ note' = FALSE
  /\ Patch(chosen)
  /\ UNCHANGED <<chosen, tool, shown, mayModify, lockedAnnots, draft, field, name>>

(* "Lock position" stays enabled on what is locked, to unlock it.          *)
Flag ==
  /\ shown /\ mayModify /\ IsEditing
  /\ lockedAnnots' = (IF chosen \subseteq lockedAnnots THEN lockedAnnots \ chosen
                      ELSE lockedAnnots \cup chosen) \cap {"a"}
  /\ UNCHANGED <<chosen, tool, shown, mayModify, look, draft, note, field, name>>

(* ---- the form field ---------------------------------------------------- *)

WidgetShown == shown /\ chosen = {"w"}

(* Emptying the length of a comb sends two patches made from the field of  *)
(* one render; the second, that drops the comb, carries the old length.    *)
UpdateMaxLenOnly ==
  /\ WidgetShown
  /\ field' = [field EXCEPT !.maxLen = ~field.maxLen]
  /\ UNCHANGED <<chosen, tool, shown, mayModify, look, lockedAnnots, draft, note, name>>

UpdateMaxLen ==
  /\ WidgetShown
  /\ field' = IF field.comb THEN [field EXCEPT !.comb = FALSE]
              ELSE [field EXCEPT !.maxLen = ~field.maxLen]
  /\ UNCHANGED <<chosen, tool, shown, mayModify, look, lockedAnnots, draft, note, name>>

ToggleComb ==
  /\ WidgetShown /\ field.maxLen
  /\ field' = [field EXCEPT !.comb = ~field.comb]
  /\ UNCHANGED <<chosen, tool, shown, mayModify, look, lockedAnnots, draft, note, name>>

(* commitName: the answer renames, fails, or asks to share the field of    *)
(* that name, even when the panel has moved on.                            *)
CommitName ==
  /\ WidgetShown /\ name = "same" /\ name' = "sent"
  /\ UNCHANGED <<chosen, tool, shown, mayModify, look, lockedAnnots, draft, note, field>>

NameAnswered ==
  /\ name # "same"
  /\ name' \in IF name = "sent" THEN {"same", "share"} ELSE {"same"}
  /\ UNCHANGED <<chosen, tool, shown, mayModify, look, lockedAnnots, draft, note, field>>

PropNext ==
  \/ Pick \/ Type \/ Fire \/ SelectAnnotations \/ PickTool \/ ShowProperties
  \/ TypeNote \/ LeaveNote \/ Flag
  \/ UpdateMaxLen \/ ToggleComb \/ CommitName \/ NameAnswered

PropSpec == PropInit /\ [][PropNext]_propVars

(* ---- properties -------------------------------------------------------- *)

(* Whatever the panel applies, at once or after a pause, it applies to     *)
(* what it shows at that moment: nothing changes behind a closed panel, or *)
(* on an annotation that is not selected any more.                         *)
AppliesToWhatIsShown ==
  \A x \in DOMAIN look : look'[x] # look[x] => shown /\ x \in Target

(* A comb of characters is never left without a maximum length, whichever  *)
(* of the two is changed first.                                            *)
CombHasALength == field.comb => field.maxLen
=============================================================================
