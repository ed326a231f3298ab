--------------------------- MODULE DocumentProofs ---------------------------
(* What is proved of the screens of the PDF editor and of the workbook     *)
(* editor, for every value of the constants: the modes and tools, the      *)
(* properties panel, the dialogs, the attachments, the formula bar, the    *)
(* cells, the PDF viewer and the loads of the docx editor; and of the      *)
(* native app's session.  One part after another has its inductive         *)
(* invariant, that its initial states satisfy it and that its steps keep   *)
(* it; ClientsProofs puts the parts together.                              *)
EXTENDS PdfTools, PdfProperties, PdfDialogs, PdfPanels, XlsxEditor, XlsxCells,
        PdfViewer, DocxEditor, NativeSession, FiniteSetTheorems, TLAPS

-----------------------------------------------------------------------------
(* ---- PDF tools: fields are locked outside their mode ------------------- *)

(* The lock on the form fields follows the mode once a document is loaded. *)
Locking ==
  /\ design \in BOOLEAN /\ locked \in BOOLEAN /\ ready \in BOOLEAN
  /\ design => mode = "forms"
  /\ pointer = "field" => mode = "forms"
  /\ ~locked => mode = "forms"
  /\ ready /\ ~locked => design

Questions == doc \in Nat /\ dialog \in [kind : {"none", "redact", "link"}, doc : Nat]

ToolsInv == Locking /\ Questions

LEMMA LockingBegins == ToolsInit => Locking
  BY DEF ToolsInit, Locking

LEMMA LockingIsInForms == Locking => DesignStaysInForms
  BY DEF Locking, DesignStaysInForms

LEMMA LockingGoesOn == ASSUME Locking, [ToolsNext]_toolVars PROVE Locking'
<1> USE DEF Locking
<1>1. CASE DocumentLoads
  BY <1>1 DEF DocumentLoads, LockFor
<1>2. CASE DocumentReplaced
  BY <1>2 DEF DocumentReplaced
<1>3. ASSUME NEW m \in Modes, SetMode(m) PROVE Locking'
  BY <1>3 DEF SetMode, LockFor
<1>4. CASE SetFormDesign
  BY <1>4 DEF SetFormDesign, LockFor
<1>5. CASE PickFieldTool
  BY <1>5 DEF PickFieldTool, Toggle, Use
<1>6. ASSUME NEW t \in {"select", "pan", "zoom", "capture", "markup", "write", "mark"}, Use(t)
      PROVE  Locking'
  BY <1>6 DEF Use
<1>7. CASE PickViewTool \/ PickAnnotateTool \/ PickSignTool \/ PickRedactionTool
  BY <1>6, <1>7 DEF PickViewTool, PickAnnotateTool, PickSignTool, PickRedactionTool, Toggle
<1>8. CASE CaptureMenu \/ HandKey \/ SelectKey
  BY <1>6, <1>8 DEF CaptureMenu, HandKey, SelectKey, Toggle
<1>9. CASE EscapeKey
  BY <1>9 DEF EscapeKey
<1>10. CASE UNCHANGED <<mode, design, ready, pointer, locked>>
  BY <1>10
<1> QED BY <1>1, <1>2, <1>3, <1>4, <1>5, <1>7, <1>8, <1>9, <1>10
        DEF ToolsNext, toolVars, Draw, Click, SelectAllKey, DeleteSelected, AnnotationMenu,
            GroupMenu, TextMenu, AskRedact, AskLink, Ask, Confirm, Cancel, ClearPending, ShowPanel,
            Undo, Redo

LEMMA ToolsInitInv == ToolsInit => ToolsInv
  BY LockingBegins DEF ToolsInit, ToolsInv, Questions, NoQuestion

LEMMA ToolsNextInv == ToolsInv /\ [ToolsNext]_toolVars => ToolsInv'
<1> SUFFICES ASSUME ToolsInv, [ToolsNext]_toolVars PROVE ToolsInv'
  OBVIOUS
<1> USE DEF ToolsInv, Questions
<1>1. CASE DocumentReplaced
  BY <1>1, LockingGoesOn DEF DocumentReplaced
<1>2. CASE AskRedact \/ AskLink
  BY <1>2, LockingGoesOn DEF AskRedact, AskLink, Ask
<1>3. CASE Confirm \/ Cancel
  BY <1>3, LockingGoesOn DEF Confirm, Cancel, NoQuestion
<1>4. CASE UNCHANGED <<dialog, doc>>
  BY <1>4, LockingGoesOn
<1> QED BY <1>1, <1>2, <1>3, <1>4
        DEF ToolsNext, toolVars, DocumentLoads, SetMode, SetFormDesign, PickViewTool,
            PickAnnotateTool, PickSignTool, PickFieldTool, PickRedactionTool, CaptureMenu,
            HandKey, SelectKey, Toggle, Use, Draw, Click, SelectAllKey, EscapeKey,
            DeleteSelected, AnnotationMenu, GroupMenu, TextMenu, ClearPending, ShowPanel, Undo, Redo

LEMMA FieldsGoInDesign == ASSUME Locking, [ToolsNext]_toolVars PROVE FieldsGoOnlyInDesign
<1> SUFFICES ASSUME ready, ready', "widget" \in annots, "widget" \notin annots'
             PROVE  \/ mode = "forms" /\ design
                    \/ Cardinality(sel) > 1
                    \/ history'.future # <<>> /\ UndoIsNext
                    \/ history'.past # <<>> /\ RedoIsNext
  BY DEF FieldsGoOnlyInDesign
<1>1. ~locked => mode = "forms" /\ design
  BY DEF Locking
<1>2. CASE DocumentLoads \/ DocumentReplaced
  BY <1>2 DEF DocumentLoads, DocumentReplaced
<1>3. CASE Draw
  BY <1>3 DEF Draw, Change
<1>4. CASE DeleteSelected
  BY <1>1, <1>4 DEF DeleteSelected, Deletable, Change
<1>5. CASE AnnotationMenu
  BY <1>1, <1>5 DEF AnnotationMenu, Deletable, Change
<1>6. CASE GroupMenu
  BY <1>6 DEF GroupMenu, Change
<1>7. CASE TextMenu
  BY <1>7 DEF TextMenu, Change
<1>8. CASE Confirm
  BY <1>8 DEF Confirm, Redacted, Change
<1>9. CASE ClearPending
  BY <1>9 DEF ClearPending, Change
<1>10. CASE UNCHANGED annots
  BY <1>10
<1>11. CASE Undo
  <2>1. history'.future # <<>>
    BY <1>11 DEF Undo
  <2> QED BY <1>11, <2>1 DEF Undo
<1>12. CASE Redo
  <2>1. history'.past # <<>>
    BY <1>12 DEF Redo
  <2> QED BY <1>12, <2>1 DEF Redo
<1> QED BY <1>2, <1>3, <1>4, <1>5, <1>6, <1>7, <1>8, <1>9, <1>10, <1>11, <1>12
        DEF ToolsNext, toolVars, SetMode, SetFormDesign, PickViewTool, PickAnnotateTool,
            PickSignTool, PickFieldTool, PickRedactionTool, CaptureMenu, HandKey, SelectKey,
            Toggle, Use, Click, SelectAllKey, EscapeKey, AskRedact, AskLink, Ask, Cancel, ShowPanel

LEMMA RedactedAsAsked == ASSUME Questions, [ToolsNext]_toolVars PROVE NothingRedactedUnasked
<1> SUFFICES ASSUME dialog # NoQuestion, dialog' = NoQuestion, "mark" \in annots, "mark" \notin annots'
             PROVE  dialog = [kind |-> "redact", doc |-> doc]
  BY DEF NothingRedactedUnasked
<1>1. CASE Confirm
  <2>1. dialog.kind = "redact" /\ dialog.doc = doc
    BY <1>1 DEF Confirm, Redacted, Change
  <2> QED BY <2>1 DEF Questions
<1>2. CASE Cancel
  BY <1>2 DEF Cancel
<1>3. CASE UNCHANGED dialog
  BY <1>3
<1>4. CASE AskRedact \/ AskLink
  BY <1>4 DEF AskRedact, AskLink, Live
<1> QED BY <1>1, <1>2, <1>3, <1>4
        DEF ToolsNext, toolVars, DocumentLoads, DocumentReplaced, SetMode, SetFormDesign,
            PickViewTool, PickAnnotateTool, PickSignTool, PickFieldTool, PickRedactionTool,
            CaptureMenu, HandKey, SelectKey, Toggle, Use, Click, SelectAllKey, EscapeKey, Draw,
            DeleteSelected, AnnotationMenu, GroupMenu, TextMenu, ClearPending, ShowPanel, Undo, Redo

-----------------------------------------------------------------------------
(* ---- PDF properties: applied to what is shown -------------------------- *)

(* A value that waits for its pause or for the focus to leave belongs to a *)
(* panel on screen.                                                        *)
WaitsOnScreen == (draft # Nothing => shown) /\ (note => shown /\ IsEditing)

Combed ==
  /\ field \in [maxLen : BOOLEAN, comb : BOOLEAN]
  /\ CombHasALength

PropsInv == WaitsOnScreen /\ Combed

LEMMA PropsInitInv == PropInit => PropsInv
<1> SUFFICES ASSUME PropInit PROVE PropsInv
  OBVIOUS
<1>1. WaitsOnScreen
  BY DEF PropInit, WaitsOnScreen
<1>2. CASE field = [maxLen |-> FALSE, comb |-> FALSE]
  BY <1>1, <1>2 DEF PropsInv, Combed, CombHasALength
<1>3. CASE field = [maxLen |-> TRUE, comb |-> TRUE]
  BY <1>1, <1>3 DEF PropsInv, Combed, CombHasALength
<1> QED BY <1>2, <1>3 DEF PropInit

LEMMA PropsNextInv == PropsInv /\ [PropNext]_propVars => PropsInv'
<1> SUFFICES ASSUME PropsInv, [PropNext]_propVars PROVE PropsInv'
  OBVIOUS
<1>1. WaitsOnScreen'
  <2> USE DEF PropsInv, WaitsOnScreen, IsEditing, Nothing
  <2>1. CASE Type
    BY <2>1 DEF Type, Editable
  <2>2. CASE Fire
    BY <2>2 DEF Fire
  <2>3. CASE SelectAnnotations
    BY <2>3 DEF SelectAnnotations, Survives
  <2>4. CASE PickTool
    BY <2>4 DEF PickTool, Survives
  <2>5. CASE ShowProperties
    BY <2>5 DEF ShowProperties
  <2>6. CASE TypeNote
    <3>1. chosen # {}
      BY <2>6, FS_EmptySet DEF TypeNote, Single
    <3> QED BY <2>6, <3>1 DEF TypeNote
  <2>7. CASE LeaveNote
    BY <2>7 DEF LeaveNote
  <2>8. CASE UNCHANGED <<draft, note, shown, chosen>>
    BY <2>8
  <2> QED BY <2>1, <2>2, <2>3, <2>4, <2>5, <2>6, <2>7, <2>8
          DEF PropNext, propVars, Pick, Flag, UpdateMaxLen, ToggleComb, CommitName, NameAnswered
<1>2. Combed'
  <2> USE DEF PropsInv, Combed, CombHasALength
  <2>1. CASE UpdateMaxLen
    BY <2>1 DEF UpdateMaxLen
  <2>2. CASE ToggleComb
    BY <2>2 DEF ToggleComb
  <2>3. CASE UNCHANGED field
    BY <2>3
  <2> QED BY <2>1, <2>2, <2>3
          DEF PropNext, propVars, Pick, Type, Fire, SelectAnnotations, PickTool, ShowProperties, TypeNote,
              LeaveNote, Flag, CommitName, NameAnswered
<1> QED BY <1>1, <1>2 DEF PropsInv

LEMMA PanelAppliesToWhatItShows ==
  ASSUME PropsInv, [PropNext]_propVars PROVE AppliesToWhatIsShown
<1> SUFFICES ASSUME NEW x \in DOMAIN look, look'[x] # look[x] PROVE shown /\ x \in Target
  BY DEF AppliesToWhatIsShown
<1> USE DEF PropsInv, WaitsOnScreen, Patch, Target, IsEditing, Nothing
<1>1. CASE Pick
  BY <1>1 DEF Pick, Editable
<1>2. CASE Fire
  BY <1>2 DEF Fire
<1>3. CASE SelectAnnotations
  BY <1>3 DEF SelectAnnotations, BlurNote
<1>4. CASE ShowProperties
  BY <1>4 DEF ShowProperties, BlurNote
<1>5. CASE LeaveNote
  BY <1>5 DEF LeaveNote
<1> QED BY <1>1, <1>2, <1>3, <1>4, <1>5
        DEF PropNext, propVars, Type, PickTool, TypeNote, Flag, UpdateMaxLen, ToggleComb,
            CommitName, NameAnswered

-----------------------------------------------------------------------------
(* ---- PDF dialogs: one command for one opening -------------------------- *)

(* Commands name the opening they are from; while a dialog is open, what   *)
(* its opening asked keeps the busy flag of its command, unless a failure  *)
(* of an earlier opening took it away.                                     *)
Request == [cmd : Commands, of : Nat, again : BOOLEAN]

Asking ==
  /\ nth \in Nat /\ asked \subseteq Request
  /\ \A r \in asked : r.of <= nth
  /\ OneCommandPerOpening
  /\ open # "none" =>
       \A r \in asked : r.of = nth => r.cmd = "unlock" \/ r.cmd \in busy \/ stale

(* The fields on screen come from the document, or their load failed.      *)
Loads ==
  open = "properties" /\ meta.loading = 0 /\ meta.from = "empty" => failed

MetaType == meta \in [from : {"empty", "document", "typed"}, loading : Nat]

DialogsInv == Asking /\ Loads /\ MetaType

LEMMA DialogsInitInv == DialogsInit => DialogsInv
  BY DEF DialogsInit, DialogsInv, Asking, Loads, MetaType, OneCommandPerOpening

(* A dialog asks for a command it has no request of under way.             *)
LEMMA Asked ==
  ASSUME Asking, NEW c \in Commands, Command(c), c = "unlock" \/ c \notin busy PROVE Asking'
<1> DEFINE r == [cmd |-> c, of |-> nth, again |-> \E o \in asked : o.cmd = c /\ o.of = nth]
<1>1. /\ UNCHANGED <<open, nth, stale>> /\ busy' = busy \cup {c} /\ asked' = asked \cup {r}
      /\ open # "none"
  BY DEF Command, DialogOf, Commands
<1>2. r \in Request /\ r.of = nth /\ r.cmd = c
  BY DEF Asking, Request
<1>3. r.again => r.cmd = "unlock" \/ stale
  BY <1>1 DEF Asking
<1> HIDE DEF r
<1> QED BY <1>1, <1>2, <1>3 DEF Asking, OneCommandPerOpening

(* What is answered is not under way any more.                             *)
LEMMA AskedLess ==
  ASSUME Asking, asked' \subseteq asked, UNCHANGED nth, stale => stale',
         open' = "none" \/ (open' = open /\ busy \subseteq busy')
  PROVE  Asking'
  BY DEF Asking, OneCommandPerOpening

LEMMA AskingGoesOn == ASSUME Asking, [DialogsNext]_dialogVars PROVE Asking'
<1>1. CASE OpenDialog
  <2>1. /\ nth' = nth + 1 /\ UNCHANGED <<asked, stale>>
    BY <1>1 DEF OpenDialog
  <2>2. \A r \in asked : r.of \in Nat /\ r.of <= nth
    BY DEF Asking, Request
  <2> QED BY <2>1, <2>2 DEF Asking, OneCommandPerOpening
<1>2. ASSUME NEW c \in Commands, Submit(c) PROVE Asking'
  BY <1>2, Asked DEF Submit
<1>3. CASE Unlock
  BY <1>3, Asked DEF Unlock, Commands
<1>4. CASE Save
  BY <1>4, Asked DEF Save, Commands
<1>5. ASSUME NEW r \in asked, Answered(r) PROVE Asking'
  <2>1. asked' = asked \ {r} /\ UNCHANGED nth
    BY <1>5 DEF Answered
  <2>2. CASE Closed /\ UNCHANGED stale
    BY <2>1, <2>2, AskedLess DEF Closed
  <2>3. CASE /\ busy' = busy \ {r.cmd} /\ UNCHANGED open
             /\ stale' = (stale \/ (r.of # nth /\ r.cmd \in busy))
    <3> SUFFICES ASSUME open # "none", ~stale', NEW o \in asked', o.of = nth, o.cmd # "unlock"
                 PROVE  o.cmd \in busy'
      BY <2>1, <2>3 DEF Asking, OneCommandPerOpening
    <3>1. o \in asked /\ o # r /\ o.cmd \in busy /\ ~o.again
      BY <2>1, <2>3 DEF Asking, OneCommandPerOpening
    <3>2. ASSUME o.cmd = r.cmd PROVE FALSE
      <4>1. r.of = nth
        BY <2>3, <3>1, <3>2
      <4>2. ~r.again
        BY <2>3, <3>2 DEF Asking, OneCommandPerOpening
      <4> QED BY <3>1, <3>2, <4>1, <4>2 DEF Asking, Request
    <3> QED BY <2>3, <3>1, <3>2
  <2> QED BY <1>5, <2>2, <2>3 DEF Answered
<1>6. CASE Dismiss \/ ApplyLinks \/ SaveSignature
  BY <1>6, AskedLess DEF Dismiss, ApplyLinks, SaveSignature, Closed
<1>7. CASE SubmitLink
  BY <1>7, AskedLess DEF SubmitLink, Closed
<1>8. CASE UNCHANGED <<open, nth, busy, asked, stale>>
  BY <1>8, AskedLess
<1> QED BY <1>1, <1>2, <1>3, <1>4, <1>5, <1>6, <1>7, <1>8
        DEF DialogsNext, dialogVars, MetadataAnswered, UpdateField, DrawSignature, ClearSignature

LEMMA LoadingGoesOn ==
  ASSUME DialogsInv, [DialogsNext]_dialogVars PROVE Loads' /\ MetaType'
<1> USE DEF DialogsInv, Loads, MetaType
<1>1. CASE OpenDialog
  <2>1. nth' \in Nat /\ nth' # 0
    BY <1>1 DEF OpenDialog, Asking
  <2> QED BY <1>1, <2>1 DEF OpenDialog
<1>2. CASE Closed /\ UNCHANGED failed
  BY <1>2 DEF Closed
<1>3. CASE MetadataAnswered
  BY <1>3 DEF MetadataAnswered
<1>4. CASE UpdateField
  BY <1>4 DEF UpdateField
<1>5. CASE UNCHANGED <<open, meta, failed>>
  BY <1>5
<1> QED BY <1>1, <1>2, <1>3, <1>4, <1>5
        DEF DialogsNext, dialogVars, Dismiss, Submit, Unlock, Save, Command, Answered,
            SubmitLink, ApplyLinks, DrawSignature, ClearSignature, SaveSignature

LEMMA DialogsNextInv == DialogsInv /\ [DialogsNext]_dialogVars => DialogsInv'
  BY AskingGoesOn, LoadingGoesOn DEF DialogsInv

LEMMA SavesOnlyWhatItLoaded ==
  ASSUME DialogsInv, [DialogsNext]_dialogVars PROVE SavesWhatItLoaded
<1>1. CASE Save
  BY <1>1 DEF Save, Command, DialogOf, Commands, SavesWhatItLoaded, DialogsInv, Loads
<1>2. CASE UNCHANGED saved
  BY <1>2 DEF SavesWhatItLoaded
<1> QED BY <1>1, <1>2
        DEF DialogsNext, dialogVars, OpenDialog, Dismiss, Submit, Unlock, Answered,
            MetadataAnswered, UpdateField, SubmitLink, ApplyLinks, DrawSignature, ClearSignature,
            SaveSignature

-----------------------------------------------------------------------------
(* ---- PDF panels: the attachment clicked is the one removed ------------- *)

Changes(q) == q.op \in {"remove", "add"}
IsRefresh(q) == q = [op |-> "list", of |-> version]

Counters ==
  /\ \E S : queue \in Seq(S)
  /\ version \in Nat /\ mount \in Nat /\ mount <= version
  /\ \A i \in DOMAIN queue : Changes(queue[i]) => queue[i].by \in Nat /\ queue[i].by <= version

(* The panel on screen has one change of its own in the queue.               *)
OneChange ==
  \A i, j \in DOMAIN queue :
    Changes(queue[i]) /\ queue[i].by = mount /\ Changes(queue[j]) /\ queue[j].by = mount
      => i = j

(* It is busy with it; behind the changes of panels before it comes its      *)
(* fetch of the list; and with no fetch to come, its list is the attachments. *)
OnScreen ==
  tab = "attachments" =>
    /\ OneChange
    /\ \A i \in DOMAIN queue : Changes(queue[i]) /\ queue[i].by = mount => isBusy
    /\ \A i \in DOMAIN queue :
         Changes(queue[i]) /\ queue[i].by # mount
           => \E j \in DOMAIN queue : j > i /\ IsRefresh(queue[j])
    /\ RefreshDue \/ list \in {files, <<>>}

(* Before a removal clicked in a list up to date there is no other change.   *)
InTime ==
  \A i \in DOMAIN queue : queue[i].op = "remove" /\ ~queue[i].late =>
    /\ files[queue[i].at] = queue[i].item
    /\ \A k \in DOMAIN queue : k < i => ~Changes(queue[k])

PanelsInv == Counters /\ OnScreen /\ InTime /\ wrong # "wrong"

LEMMA PanelsInitInv == PanelsInit => PanelsInv
<1> SUFFICES ASSUME PanelsInit PROVE PanelsInv
  OBVIOUS
<1>1. queue \in Seq({}) /\ DOMAIN queue = {}
  BY DEF PanelsInit
<1> QED BY <1>1 DEF PanelsInit, PanelsInv, Counters, OnScreen, OneChange, InTime

-----------------------------------------------------------------------------
LEMMA AskedLast ==
  ASSUME NEW S, NEW s \in Seq(S), NEW q
  PROVE  /\ Append(s, q) \in Seq(S \cup {q})
         /\ Len(s) \in Nat /\ DOMAIN s = 1..Len(s)
         /\ DOMAIN Append(s, q) = 1..Len(s) + 1
         /\ Append(s, q)[Len(s) + 1] = q
         /\ \A i \in 1..Len(s) : Append(s, q)[i] = s[i]
  OBVIOUS

LEMMA Done ==
  ASSUME NEW S, NEW s \in Seq(S), s # <<>>
  PROVE  /\ Tail(s) \in Seq(S) /\ Len(s) \in Nat /\ 1 \in DOMAIN s /\ Head(s) = s[1]
         /\ DOMAIN s = 1..Len(s) /\ DOMAIN Tail(s) = 1..Len(s) - 1
         /\ Len(Tail(s)) = Len(s) - 1
         /\ \A i \in 1..Len(s) - 1 : Tail(s)[i] = s[i + 1]
  OBVIOUS

(* A change is asked for by a panel that is not busy.                        *)
LEMMA ChangeIsAsked ==
  ASSUME PanelsInv, NEW q, CanModify, queue' = Append(queue, q), isBusy' = TRUE,
         UNCHANGED <<tab, files, list, version, mount, wrong>>,
         Changes(q), q.by = mount,
         q.op = "remove" /\ ~q.late => ~RefreshDue /\ q.at \in DOMAIN list /\ q.item = list[q.at]
  PROVE  PanelsInv'
<1>1. PICK S : queue \in Seq(S)
  BY DEF PanelsInv, Counters
<1> PICK n : n = Len(queue)
  OBVIOUS
<1>2. /\ queue' \in Seq(S \cup {q}) /\ n \in Nat /\ DOMAIN queue = 1..n
      /\ DOMAIN queue' = 1..n + 1 /\ queue'[n + 1] = q
      /\ \A i \in 1..n : queue'[i] = queue[i]
  BY <1>1, AskedLast
<1>3. Counters'
  BY <1>2 DEF PanelsInv, Counters, Changes
<1>4. \A i \in 1..n : Changes(queue[i]) => queue[i].by # mount
  BY <1>2 DEF PanelsInv, OnScreen, OneChange, CanModify
<1>5. OnScreen'
  <2>1. \A i, j \in 1..n + 1 :
          Changes(queue'[i]) /\ queue'[i].by = mount /\ Changes(queue'[j]) /\ queue'[j].by = mount
            => i = j
    BY <1>2, <1>4
  <2>2. ASSUME NEW i \in 1..n + 1, Changes(queue'[i]), queue'[i].by # mount
        PROVE  \E j \in 1..n + 1 : j > i /\ queue'[j] = [op |-> "list", of |-> version]
    <3>1. i \in 1..n
      BY <1>2, <2>2
    <3>2. PICK j \in 1..n : j > i /\ queue[j] = [op |-> "list", of |-> version]
      BY <1>2, <2>2, <3>1 DEF PanelsInv, OnScreen, OneChange, CanModify, IsRefresh
    <3> QED BY <1>2, <3>2
  <2>3. RefreshDue => RefreshDue'
    BY <1>2 DEF RefreshDue
  <2>4. RefreshDue' \/ list' \in {files', <<>>}
    BY <2>3 DEF PanelsInv, OnScreen, OneChange, CanModify
  <2> QED BY <1>2, <2>1, <2>2, <2>4 DEF OnScreen, OneChange, Changes, IsRefresh
<1>6. InTime'
  <2> SUFFICES ASSUME NEW i \in 1..n + 1, queue'[i].op = "remove", ~queue'[i].late
               PROVE  /\ files[queue'[i].at] = queue'[i].item
                      /\ \A k \in 1..n + 1 : k < i => ~Changes(queue'[k])
    BY <1>2 DEF InTime, Changes
  <2>1. CASE i \in 1..n
    BY <1>2, <2>1 DEF PanelsInv, InTime
  <2>2. CASE i = n + 1
    <3>1. ~RefreshDue /\ q.at \in DOMAIN list /\ q.item = list[q.at]
      BY <1>2, <2>2
    <3>2. list = files
      BY <3>1 DEF PanelsInv, OnScreen, OneChange, CanModify
    <3>3. \A k \in 1..n : ~Changes(queue[k])
      <4> SUFFICES ASSUME NEW k \in 1..n, Changes(queue[k]) PROVE FALSE
        OBVIOUS
      <4>1. queue[k].by # mount
        BY <1>4
      <4> QED BY <1>2, <3>1, <4>1 DEF PanelsInv, OnScreen, OneChange, CanModify, IsRefresh, RefreshDue
    <3> QED BY <1>2, <2>2, <3>1, <3>2, <3>3
  <2> QED BY <2>1, <2>2
<1> QED BY <1>3, <1>5, <1>6 DEF PanelsInv

(* A request is done and what it asked for refused, or nobody is there to    *)
(* hear of it.                                                               *)
LEMMA RequestIsDone ==
  ASSUME PanelsInv, queue # <<>>, queue' = Tail(queue),
         UNCHANGED <<tab, version, mount>>, wrong' # "wrong",
         \/ ~Changes(Head(queue)) /\ UNCHANGED <<files, isBusy>>
         \/ /\ Changes(Head(queue)) /\ UNCHANGED list
            /\ \/ ~StillThere(Head(queue)) /\ UNCHANGED isBusy
               \/ isBusy' = (isBusy /\ ~StillThere(Head(queue))) /\ UNCHANGED files,
         \/ UNCHANGED list /\ (Changes(Head(queue)) \/ ~IsRefresh(Head(queue)) \/ tab # "attachments")
         \/ list' \in {files, <<>>}
  PROVE  PanelsInv'
<1>1. PICK S : queue \in Seq(S)
  BY DEF PanelsInv, Counters
<1> PICK n : n = Len(queue)
  OBVIOUS
<1>2. /\ queue' \in Seq(S) /\ n \in Nat /\ DOMAIN queue = 1..n /\ 1 \in 1..n
      /\ Head(queue) = queue[1] /\ DOMAIN queue' = 1..n - 1
      /\ \A i \in 1..n - 1 : queue'[i] = queue[i + 1] /\ i + 1 \in 1..n
  BY <1>1, Done
<1>3. Counters'
  BY <1>2 DEF PanelsInv, Counters, Changes
<1>4. ASSUME tab = "attachments", NEW i \in 1..n, Changes(queue[i]), queue[i].by # mount
      PROVE  \E j \in 1..n - 1 : j + 1 > i /\ queue'[j] = [op |-> "list", of |-> version]
  <2>1. PICK j \in 1..n : j > i /\ queue[j] = [op |-> "list", of |-> version]
    BY <1>2, <1>4 DEF PanelsInv, OnScreen, OneChange, IsRefresh
  <2>2. j - 1 \in 1..n - 1 /\ queue'[j - 1] = queue[j]
    BY <1>2, <2>1
  <2> QED BY <2>1, <2>2
<1>5. OnScreen'
  <2> SUFFICES ASSUME tab = "attachments" PROVE OnScreen'
    BY DEF OnScreen, OneChange
  <2>1. ASSUME NEW i \in 1..n - 1, NEW j \in 1..n - 1,
               Changes(queue'[i]), queue'[i].by = mount,
               Changes(queue'[j]), queue'[j].by = mount
        PROVE  i = j /\ isBusy'
    <3>1. i + 1 = j + 1 /\ isBusy
      <4>1. /\ i + 1 \in DOMAIN queue /\ j + 1 \in DOMAIN queue
            /\ Changes(queue[i + 1]) /\ queue[i + 1].by = mount
            /\ Changes(queue[j + 1]) /\ queue[j + 1].by = mount
        BY <1>2, <2>1
      <4> QED BY <4>1 DEF PanelsInv, OnScreen, OneChange
    <3>2. ~(Changes(queue[1]) /\ queue[1].by = mount)
      BY <1>2, <2>1 DEF PanelsInv, OnScreen, OneChange
    <3>3. i = j
      BY <1>2, <3>1
    <3>4. Changes(Head(queue)) => ~StillThere(Head(queue))
      BY <1>2, <3>2 DEF StillThere
    <3>5. isBusy'
      BY <3>1, <3>4, Zenon
    <3> QED BY <3>3, <3>5
  <2>2. ASSUME NEW i \in 1..n - 1, Changes(queue'[i]), queue'[i].by # mount
        PROVE  \E j \in 1..n - 1 : j > i /\ queue'[j] = [op |-> "list", of |-> version]
    <3>1. PICK j \in 1..n - 1 : j + 1 > i + 1 /\ queue'[j] = [op |-> "list", of |-> version]
      BY <1>2, <1>4, <2>2
    <3> QED BY <1>2, <3>1
  <2>3. RefreshDue' \/ list' \in {files', <<>>}
    <3>1. CASE Changes(queue[1]) /\ ~UNCHANGED files
      <4>1. queue[1].by # mount
        BY <1>2, <3>1 DEF StillThere
      <4>2. PICK j \in 1..n - 1 : queue'[j] = [op |-> "list", of |-> version]
        BY <1>2, <1>4, <3>1, <4>1
      <4> QED BY <1>2, <4>2 DEF RefreshDue
    <3>2. CASE UNCHANGED files
      <4>1. CASE list' \in {files, <<>>}
        BY <3>2, <4>1
      <4>2. CASE UNCHANGED list /\ (Changes(queue[1]) \/ ~IsRefresh(queue[1]))
        <5>1. queue[1] # [op |-> "list", of |-> version]
          BY <4>2 DEF Changes, IsRefresh
        <5>2. RefreshDue => RefreshDue'
          <6> SUFFICES ASSUME NEW j \in 1..n, queue[j] = [op |-> "list", of |-> version]
                       PROVE  RefreshDue'
            BY <1>2 DEF RefreshDue
          <6>1. j # 1
            BY <5>1
          <6>2. j - 1 \in 1..n - 1
            BY <1>2, <6>1
          <6>3. queue'[j - 1] = queue[j]
            BY <1>2, <6>2
          <6> QED BY <1>2, <6>2, <6>3 DEF RefreshDue
        <5> QED BY <3>2, <4>2, <5>2 DEF PanelsInv, OnScreen, OneChange
      <4> QED BY <1>2, <4>1, <4>2
    <3> QED BY <1>2, <3>1, <3>2
  <2>4. OneChange'
    BY <1>2, <2>1 DEF OneChange, Changes
  <2>5. (\A i \in DOMAIN queue : Changes(queue[i]) /\ queue[i].by = mount => isBusy)'
    <3>1. \A i \in 1..n - 1 : Changes(queue'[i]) /\ queue'[i].by = mount => isBusy'
      BY <2>1, Zenon
    <3> QED BY <1>2, <3>1, Zenon DEF Changes
  <2>6. (\A i \in DOMAIN queue :
           Changes(queue[i]) /\ queue[i].by # mount
             => \E j \in DOMAIN queue : j > i /\ IsRefresh(queue[j]))'
    BY <1>2, <2>2 DEF Changes, IsRefresh
  <2> QED BY <2>3, <2>4, <2>5, <2>6, Zenon DEF OnScreen
<1>6. InTime'
  <2> SUFFICES ASSUME NEW i \in 1..n - 1, queue'[i].op = "remove", ~queue'[i].late
               PROVE  /\ files'[queue'[i].at] = queue'[i].item
                      /\ \A k \in 1..n - 1 : k < i => ~Changes(queue'[k])
    BY <1>2 DEF InTime, Changes
  <2>1. /\ files[queue[i + 1].at] = queue[i + 1].item
        /\ \A k \in 1..n : k < i + 1 => ~Changes(queue[k])
    BY <1>2 DEF PanelsInv, InTime
  <2>2. ~Changes(queue[1])
    BY <1>2, <2>1
  <2> QED BY <1>2, <2>1, <2>2
<1> QED BY <1>3, <1>5, <1>6 DEF PanelsInv

(* A change is acknowledged to the panel that asked, which fetches the list. *)
LEMMA ChangeIsHeard ==
  ASSUME PanelsInv, queue # <<>>, Changes(Head(queue)), StillThere(Head(queue)),
         version' = version + 1, isBusy' = FALSE, wrong' # "wrong",
         queue' = Append(Tail(queue), Fetch), UNCHANGED <<tab, list, mount>>
  PROVE  PanelsInv'
<1>1. PICK S : queue \in Seq(S)
  BY DEF PanelsInv, Counters
<1> PICK n : n = Len(queue)
  OBVIOUS
<1> PICK t : t = Tail(queue)
  OBVIOUS
<1> PICK q : q = [op |-> "list", of |-> version']
  OBVIOUS
<1>2. /\ t \in Seq(S) /\ n \in Nat /\ DOMAIN queue = 1..n /\ 1 \in 1..n
      /\ Head(queue) = queue[1] /\ Len(t) = n - 1
      /\ \A i \in 1..n - 1 : t[i] = queue[i + 1]
  BY <1>1, Done
<1>3. queue' = Append(t, q)
  BY DEF Fetch
<1>4. /\ queue' \in Seq(S \cup {q}) /\ DOMAIN queue' = 1..n /\ queue'[n] = q
      /\ \A i \in 1..n - 1 : queue'[i] = queue[i + 1] /\ i + 1 \in 1..n
  BY <1>2, <1>3, AskedLast
<1>5. ~Changes(q)
  BY DEF Changes
<1>6. Counters'
  BY <1>2, <1>4, <1>5 DEF PanelsInv, Counters, Changes
<1>7. OnScreen'
  <2>1. ASSUME NEW i \in 1..n, Changes(queue'[i]) PROVE queue'[i].by # mount /\ i < n
    <3>1. i \in 1..n - 1
      BY <1>2, <1>4, <1>5, <2>1
    <3>2. queue'[i] = queue[i + 1] /\ i + 1 # 1 /\ i + 1 \in 1..n
      BY <1>4, <3>1
    <3>3. queue[1].by = mount /\ tab = "attachments"
      BY <1>2 DEF StillThere
    <3>4. OneChange
      BY <3>3 DEF PanelsInv, OnScreen
    <3>5. /\ 1 \in DOMAIN queue /\ Changes(queue[1])
          /\ i + 1 \in DOMAIN queue /\ Changes(queue[i + 1])
      BY <1>2, <2>1, <3>2
    <3>6. i < n
      BY <1>2, <3>1
    <3> QED BY <3>2, <3>3, <3>4, <3>5, <3>6 DEF OneChange
  <2>2. n \in 1..n /\ queue'[n] = [op |-> "list", of |-> version']
    BY <1>2, <1>4
  <2>3. RefreshDue'
    BY <1>4, <2>2 DEF RefreshDue
  <2>4. IsRefresh(queue[n])'
    BY <1>2, <2>2 DEF IsRefresh
  <2>5. \A i \in 1..n : Changes(queue'[i]) => queue'[i].by # mount /\ n > i
    BY <1>2, <2>1
  <2>6. UNCHANGED mount
    BY <1>2
  <2>7. \A i \in 1..n : Changes(queue[i])' <=> Changes(queue'[i])
    BY DEF Changes
  <2>8. OneChange'
    BY <1>4, <2>5, <2>6, <2>7 DEF OneChange
  <2>9. DOMAIN queue' = 1..n /\ n \in DOMAIN queue'
    BY <1>4, <2>2
  <2> QED BY <2>3, <2>4, <2>5, <2>6, <2>7, <2>8, <2>9 DEF OnScreen
<1>8. InTime'
  <2> SUFFICES ASSUME NEW i \in 1..n, queue'[i].op = "remove", ~queue'[i].late
               PROVE  FALSE
    BY <1>4 DEF InTime
  <2>1. i \in 1..n - 1
    BY <1>2, <1>4, <1>5 DEF Changes
  <2>2. queue'[i] = queue[i + 1] /\ i + 1 \in 1..n /\ 1 < i + 1
    BY <1>4, <2>1
  <2>3. ~Changes(queue[1])
    BY <1>2, <2>2 DEF PanelsInv, InTime
  <2> QED BY <1>2, <2>3
<1> QED BY <1>6, <1>7, <1>8 DEF PanelsInv
(* Another panel, or the attachments afresh: every change there is was asked *)
(* for by a panel before, and the fetch of this one comes behind it.         *)
LEMMA TabIsShown == PanelsInv /\ ShowTab => PanelsInv'
<1> SUFFICES ASSUME PanelsInv, ShowTab PROVE PanelsInv'
  OBVIOUS
<1>1. CASE tab' = "attachments"
  <2>1. PICK S : queue \in Seq(S)
    BY DEF PanelsInv, Counters
  <2> PICK n : n = Len(queue)
    OBVIOUS
  <2> PICK q : q = [op |-> "list", of |-> version']
    OBVIOUS
  <2>2. /\ version' = version + 1 /\ mount' = version' /\ queue' = Append(queue, q)
        /\ UNCHANGED <<files, wrong>>
    BY <1>1 DEF ShowTab, AskEngine, Fetch
  <2>3. /\ queue' \in Seq(S \cup {q}) /\ n \in Nat /\ DOMAIN queue = 1..n
        /\ DOMAIN queue' = 1..n + 1 /\ queue'[n + 1] = q /\ n + 1 \in 1..n + 1
        /\ \A i \in 1..n : queue'[i] = queue[i]
    BY <2>1, <2>2, AskedLast
  <2>4. ~Changes(q)
    BY DEF Changes
  <2>5. \A i \in 1..n + 1 : Changes(queue'[i]) =>
          i \in 1..n /\ queue'[i].by \in Nat /\ queue'[i].by <= version
    BY <2>3, <2>4 DEF PanelsInv, Counters
  <2>6. version \in Nat
    BY DEF PanelsInv, Counters
  <2>7. Counters'
    BY <2>2, <2>3, <2>5, <2>6 DEF Counters, Changes
  <2>8. \A i \in 1..n + 1 : Changes(queue'[i]) => queue'[i].by # mount' /\ n + 1 > i
    BY <2>2, <2>3, <2>5, <2>6
  <2>9. RefreshDue'
    BY <2>3 DEF RefreshDue
  <2>10. OnScreen'
    BY <2>3, <2>8, <2>9 DEF OnScreen, OneChange, Changes, IsRefresh
  <2>11. InTime'
    BY <2>2, <2>3, <2>4 DEF PanelsInv, InTime, Changes
  <2> QED BY <2>2, <2>7, <2>10, <2>11 DEF PanelsInv
<1>2. CASE tab' # "attachments"
  BY <1>2 DEF ShowTab, PanelsInv, Counters, OnScreen, InTime, Changes
<1> QED BY <1>1, <1>2

(* Steps that leave the attachments alone.                                   *)
LEMMA AttachmentsLeftAlone ==
  ASSUME PanelsInv, UNCHANGED <<tab, files, list, version, queue, mount, isBusy, wrong>>
  PROVE  PanelsInv'
<1>1. Counters' /\ InTime' /\ OneChange' = OneChange /\ RefreshDue' = RefreshDue
  BY DEF PanelsInv, Counters, InTime, Changes, OneChange, RefreshDue
<1>2. OnScreen'
  BY DEF PanelsInv, OnScreen, OneChange, RefreshDue, Changes, IsRefresh
<1> QED BY <1>1, <1>2 DEF PanelsInv

LEMMA PanelsNextInv == PanelsInv /\ [PanelsNext]_panelVars => PanelsInv'
<1> SUFFICES ASSUME PanelsInv, [PanelsNext]_panelVars PROVE PanelsInv'
  OBVIOUS
<1>1. CASE UNCHANGED <<tab, attach>>
  BY <1>1, AttachmentsLeftAlone DEF attach
<1>2. CASE ShowTab
  BY <1>2, TabIsShown
<1>3. CASE HandleRemove
  <2>1. PICK i \in DOMAIN list :
          AskEngine([op |-> "remove", at |-> i, item |-> list[i], late |-> RefreshDue, by |-> mount])
    BY <1>3 DEF HandleRemove
  <2> PICK q : q = [op |-> "remove", at |-> i, item |-> list[i], late |-> RefreshDue, by |-> mount]
    OBVIOUS
  <2>2. /\ Changes(q) /\ q.by = mount
        /\ ~q.late => ~RefreshDue /\ q.at \in DOMAIN list /\ q.item = list[q.at]
    BY DEF Changes
  <2>3. queue' = Append(queue, q)
    BY <2>1 DEF AskEngine
  <2>4. /\ CanModify /\ isBusy' = TRUE
        /\ UNCHANGED <<tab, files, list, version, mount, wrong>>
    BY <1>3 DEF HandleRemove
  <2> QED BY <2>2, <2>3, <2>4, ChangeIsAsked
<1>4. CASE HandleAdd
  <2>1. /\ CanModify /\ UNCHANGED <<tab, files, list, version, mount, wrong>>
        /\ \/ queue' = Append(queue, [op |-> "add", by |-> mount]) /\ isBusy' = TRUE
           \/ UNCHANGED <<queue, isBusy>>
    BY <1>4 DEF HandleAdd, AskEngine
  <2> PICK q : q = [op |-> "add", by |-> mount]
    OBVIOUS
  <2>2. Changes(q) /\ q.by = mount /\ q.op # "remove"
    BY DEF Changes
  <2>3. CASE UNCHANGED <<queue, isBusy>>
    BY <2>1, <2>3, AttachmentsLeftAlone
  <2>4. CASE queue' = Append(queue, q) /\ isBusy' = TRUE
    BY <2>1, <2>2, <2>4, ChangeIsAsked
  <2> QED BY <2>1, <2>3, <2>4
<1>5. CASE EngineRemoves
  <2> PICK q : q = Head(queue)
    OBVIOUS
  <2>1. queue # <<>> /\ q.op = "remove" /\ UNCHANGED <<tab, list, mount>>
    BY <1>5 DEF EngineRemoves
  <2>2. Changes(q)
    BY <2>1 DEF Changes
  <2>3. CASE Refuse(q)
    BY <2>1, <2>2, <2>3, RequestIsDone DEF Refuse, PanelsInv
  <2>4. CASE /\ q.at \in DOMAIN files
             /\ wrong' = IF files[q.at] = q.item THEN wrong
                         ELSE IF q.late THEN "late" ELSE "wrong"
             /\ Refresh(q)
    <3>1. q = queue[1] /\ 1 \in DOMAIN queue
      <4>1. PICK S : queue \in Seq(S)
        BY DEF PanelsInv, Counters
      <4> QED BY <2>1, <4>1, Done
    <3>2. ~q.late => files[q.at] = q.item
      BY <2>1, <3>1 DEF PanelsInv, InTime
    <3>3. wrong' # "wrong"
      BY <2>4, <3>2 DEF PanelsInv
    <3>4. CASE StillThere(q)
      BY <2>1, <2>2, <2>4, <3>3, <3>4, ChangeIsHeard DEF Refresh
    <3>5. CASE ~StillThere(q)
      <4>1. queue' = Tail(queue) /\ UNCHANGED <<version, isBusy>>
        BY <2>4, <3>5 DEF Refresh
      <4> QED BY <2>1, <2>2, <3>3, <3>5, <4>1, RequestIsDone
    <3> QED BY <3>4, <3>5
  <2> QED BY <1>5, <2>3, <2>4 DEF EngineRemoves
<1>6. CASE EngineAdds
  <2> PICK q : q = Head(queue)
    OBVIOUS
  <2>1. queue # <<>> /\ q.op = "add" /\ UNCHANGED <<tab, list, mount>>
    BY <1>6 DEF EngineAdds
  <2>2. Changes(q)
    BY <2>1 DEF Changes
  <2>3. CASE Refuse(q)
    BY <2>1, <2>2, <2>3, RequestIsDone DEF Refuse, PanelsInv
  <2>4. CASE Refresh(q) /\ UNCHANGED wrong
    <3>1. wrong' # "wrong"
      BY <2>4 DEF PanelsInv
    <3>2. CASE StillThere(q)
      BY <2>1, <2>2, <2>4, <3>1, <3>2, ChangeIsHeard DEF Refresh
    <3>3. CASE ~StillThere(q)
      <4>1. queue' = Tail(queue) /\ UNCHANGED <<version, isBusy>>
        BY <2>4, <3>3 DEF Refresh
      <4> QED BY <2>1, <2>2, <3>1, <3>3, <4>1, RequestIsDone
    <3> QED BY <3>2, <3>3
  <2> QED BY <1>6, <2>3, <2>4 DEF EngineAdds
<1>7. CASE EngineLists
  <2>1. /\ queue # <<>> /\ Head(queue).op = "list" /\ queue' = Tail(queue)
        /\ UNCHANGED <<tab, files, version, mount, isBusy, wrong>>
    BY <1>7 DEF EngineLists
  <2>2. ~Changes(Head(queue))
    BY <2>1 DEF Changes
  <2>3. \/ UNCHANGED list /\ (~IsRefresh(Head(queue)) \/ tab # "attachments")
        \/ list' \in {files, <<>>}
    BY <1>7 DEF EngineLists, IsRefresh
  <2>4. wrong' # "wrong"
    BY <2>1 DEF PanelsInv
  <2> QED BY <2>1, <2>2, <2>3, <2>4, RequestIsDone
<1>8. CASE OutlineAnswered \/ Navigate \/ OpenComposer \/ CloseComposer
           \/ LibraryAdded \/ PickLibrary \/ SetFormValues
  BY <1>1, <1>8 DEF OutlineAnswered, Navigate, OpenComposer, CloseComposer,
     LibraryAdded, PickLibrary, SetFormValues, InPanel
<1>9. CASE PlaceStamp \/ TogglePlacement
  BY <1>1, <1>9 DEF PlaceStamp, TogglePlacement, Place
<1>10. CASE UNCHANGED panelVars
  BY <1>10, AttachmentsLeftAlone DEF panelVars
<1> QED BY <1>2, <1>3, <1>4, <1>5, <1>6, <1>7, <1>8, <1>9, <1>10 DEF PanelsNext

LEMMA TheOneClickedGoes == PanelsInv => RemovesWhatWasClicked
  BY DEF PanelsInv, RemovesWhatWasClicked

-----------------------------------------------------------------------------
(* ---- Workbook editor: a formula lands where its edit began ------------- *)

BarRecord(b) ==
  b = [dom |-> b.dom, focused |-> b.focused, cell |-> b.cell, initial |-> b.initial,
       draft |-> b.draft, from |-> b.from]

(* A pick is read once, under the number it was made with.                 *)
Numbered ==
  /\ picks \in Nat /\ reading \subseteq 1..picks /\ book \in (0..picks) \ reading
  /\ bar.from[1] \in (0..picks) \ reading

(* While the bar has the focus, the sheet changes only with the workbook.  *)
Begun == bar.dom /\ bar.from[1] = book => bar.from = <<book, sheets[at], bar.cell>>

EditorInv == BarRecord(bar) /\ Numbered /\ Begun /\ LandsWhereItBegan

LEMMA EditorInitInv == EditorInit => EditorInv
<1> SUFFICES ASSUME EditorInit PROVE EditorInv
  OBVIOUS
<1>1. BarRecord(bar) /\ bar.from[1] = 0 /\ ~bar.dom
  BY DEF EditorInit, NoBar, BarRecord
<1>2. landed.to = landed.from
  BY DEF EditorInit
<1> QED BY <1>1, <1>2 DEF EditorInit, EditorInv, Numbered, Begun, LandsWhereItBegan

(* The bar changes, not what it is about.                                  *)
LEMMA BarGoesOn ==
  ASSUME EditorInv, NEW b, BarRecord(b), bar' = b, b.from = bar.from, b.cell = bar.cell,
         b.dom => bar.dom, UNCHANGED <<picks, reading, book, sheets, at, landed>>
  PROVE  EditorInv'
  BY DEF EditorInv, Numbered, Begun, LandsWhereItBegan, BarRecord

LEMMA CommitLands ==
  ASSUME EditorInv, bar.dom, NEW b, BarRecord(b), CommitFormula(b), b.from = bar.from,
         b.cell = bar.cell, UNCHANGED <<picks, reading, book, sheets, at, cell>>
  PROVE  EditorInv'
<1>1. CASE bar' = b /\ UNCHANGED landed
  BY <1>1, BarGoesOn
<1>2. CASE /\ landed' = [to |-> <<book, sheets[at], bar.cell>>, from |-> bar.from]
           /\ bar' = [b EXCEPT !.initial = bar.draft]
  <2>1. BarRecord(bar') /\ bar'.from = bar.from /\ bar'.cell = bar.cell
    BY <1>2 DEF BarRecord
  <2>2. LandsWhereItBegan'
    BY <1>2 DEF LandsWhereItBegan, EditorInv, Begun
  <2> QED BY <2>1, <2>2 DEF EditorInv, Numbered, Begun, BarRecord
<1> QED BY <1>1, <1>2, Zenon DEF CommitFormula

LEMMA EditorNextInv == EditorInv /\ [EditorNext]_editorVars => EditorInv'
<1> SUFFICES ASSUME EditorInv, [EditorNext]_editorVars PROVE EditorInv'
  OBVIOUS
<1>1. CASE UNCHANGED <<picks, reading, book, sheets, at, bar, landed>>
  BY <1>1, BarGoesOn DEF EditorInv
<1>2. CASE PickFile
  BY <1>2 DEF PickFile, EditorInv, Numbered, Begun, LandsWhereItBegan, BarRecord
<1>3. CASE HandleUpload
  <2>1. PICK n \in reading : reading' = reading \ {n} /\ book' = n
    BY <1>3 DEF HandleUpload
  <2>2. UNCHANGED <<picks, bar, landed>>
    BY <1>3 DEF HandleUpload
  <2> QED BY <2>1, <2>2 DEF EditorInv, Numbered, Begun, LandsWhereItBegan, BarRecord
<1>4. CASE ~bar.dom /\ UNCHANGED <<picks, reading, book, bar, landed>>
  BY <1>4 DEF EditorInv, Numbered, Begun, LandsWhereItBegan, BarRecord
<1>5. CASE FocusBar
  <2>1. PICK text : bar' = [dom |-> TRUE, focused |-> TRUE, cell |-> cell, initial |-> text,
                            draft |-> text, from |-> <<book, sheets[at], cell>>]
    BY <1>5, Zenon DEF FocusBar, Here
  <2>2. UNCHANGED <<picks, reading, book, sheets, at, landed>>
    BY <1>5, Zenon DEF FocusBar
  <2>3. BarRecord(bar') /\ bar'.from = <<book, sheets[at], bar'.cell>> /\ bar'.from[1] = book
    BY <2>1 DEF BarRecord
  <2> QED BY <2>2, <2>3 DEF EditorInv, Numbered, Begun, LandsWhereItBegan, BarRecord
<1>6. CASE TypeInBar
  <2>1. PICK t : bar' = [bar EXCEPT !.draft = t]
    BY <1>6 DEF TypeInBar
  <2>2. BarRecord([bar EXCEPT !.draft = t])
    BY DEF EditorInv, BarRecord
  <2>3. bar'.from = bar.from /\ bar'.cell = bar.cell /\ bar'.dom = bar.dom
    BY <2>1 DEF EditorInv, BarRecord
  <2> QED BY <1>6, <2>1, <2>2, <2>3, BarGoesOn DEF TypeInBar
<1>7. CASE EnterInBar
  <2>1. PICK b : b = [bar EXCEPT !.focused = FALSE]
    OBVIOUS
  <2>2. BarRecord(b) /\ b.from = bar.from /\ b.cell = bar.cell
    BY <2>1 DEF EditorInv, BarRecord
  <2>3. bar.dom /\ CommitFormula(b) /\ UNCHANGED <<picks, reading, book, sheets, at, cell>>
    BY <1>7, <2>1 DEF EnterInBar
  <2> QED BY <2>2, <2>3, CommitLands
<1>8. CASE BlurBar
  <2>1. PICK b : b = [bar EXCEPT !.focused = FALSE, !.dom = FALSE]
    OBVIOUS
  <2>2. BarRecord(b) /\ b.from = bar.from /\ b.cell = bar.cell
    BY <2>1 DEF EditorInv, BarRecord
  <2>3. PICK c : c = [bar EXCEPT !.dom = FALSE]
    OBVIOUS
  <2>4. BarRecord(c) /\ c.from = bar.from /\ c.cell = bar.cell /\ ~c.dom
    BY <2>3 DEF EditorInv, BarRecord
  <2>5. bar.dom /\ UNCHANGED <<picks, reading, book, sheets, at, cell>>
    BY <1>8 DEF BlurBar
  <2>6. CommitFormula(b) \/ (bar' = c /\ UNCHANGED landed)
    BY <1>8, <2>1, <2>3 DEF BlurBar
  <2> QED BY <2>2, <2>4, <2>5, <2>6, CommitLands, BarGoesOn
<1>9. CASE LoadWorkbook \/ SelectCell \/ EditInGrid \/ UNCHANGED editorVars
  <2>1. UNCHANGED <<picks, reading, book, sheets, at, bar, landed>>
    BY <1>9, Zenon DEF LoadWorkbook, SelectCell, EditInGrid, editorVars
  <2> QED BY <1>1, <2>1
<1>10. CASE AddSheet \/ RemoveActiveSheet \/ SetActiveSheet
  <2>1. ~bar.dom /\ UNCHANGED <<picks, reading, book, bar, landed>>
    <3>1. AddSheet => ~bar.dom /\ UNCHANGED <<picks, reading, book, bar, landed>>
      BY DEF AddSheet
    <3>2. RemoveActiveSheet => ~bar.dom /\ UNCHANGED <<picks, reading, book, bar, landed>>
      BY DEF RemoveActiveSheet
    <3>3. SetActiveSheet => ~bar.dom /\ UNCHANGED <<picks, reading, book, bar, landed>>
      BY DEF SetActiveSheet
    <3> QED BY <1>10, <3>1, <3>2, <3>3
  <2> QED BY <1>4, <2>1
<1> QED BY <1>2, <1>3, <1>5, <1>6, <1>7, <1>8, <1>9, <1>10 DEF EditorNext

-----------------------------------------------------------------------------
(* ---- Workbook cells: merges and borders -------------------------------- *)

GridSizes == Rows \in Nat /\ Cols \in Nat

Box(t, l, b, q) == [start |-> <<t, l>>, end |-> <<b, q>>]

(* The rows t..b and columns l..q of the grid.                               *)
InGrid(t, l, b, q) == /\ t \in 0..Rows-1 /\ b \in 0..Rows-1 /\ t <= b
                      /\ l \in 0..Cols-1 /\ q \in 0..Cols-1 /\ l <= q

LEMMA NormalBox ==
  ASSUME GridSizes, NEW r \in Ranges
  PROVE  \E t, l, b, q \in Nat : InGrid(t, l, b, q) /\ NormalizeCellRange(r) = Box(t, l, b, q)
<1> DEFINE t == Least(r.start[1], r.end[1])
           l == Least(r.start[2], r.end[2])
           b == Most(r.start[1], r.end[1])
           q == Most(r.start[2], r.end[2])
<1>1. /\ r.start[1] \in 0..Rows-1 /\ r.end[1] \in 0..Rows-1
      /\ r.start[2] \in 0..Cols-1 /\ r.end[2] \in 0..Cols-1
  BY DEF Ranges, Pos
<1>2. InGrid(t, l, b, q)
  BY <1>1 DEF GridSizes, Least, Most, InGrid
<1>3. NormalizeCellRange(r) = Box(t, l, b, q)
  BY DEF NormalizeCellRange, Box
<1>4. t \in Nat /\ l \in Nat /\ b \in Nat /\ q \in Nat
  BY <1>2 DEF InGrid
<1> HIDE DEF t, l, b, q
<1> QED BY <1>2, <1>3, <1>4

(* A box is its own normal form.                                             *)
LEMMA BoxIsNormal ==
  ASSUME GridSizes, NEW t, NEW l, NEW b, NEW q, InGrid(t, l, b, q)
  PROVE  Box(t, l, b, q) \in Ranges /\ NormalizeCellRange(Box(t, l, b, q)) = Box(t, l, b, q)
  BY DEF GridSizes, InGrid, Box, Ranges, Pos, NormalizeCellRange, Least, Most

LEMMA CellsOfBox ==
  ASSUME GridSizes, NEW t, NEW l, NEW b, NEW q, InGrid(t, l, b, q),
         NEW r, NormalizeCellRange(r) = Box(t, l, b, q)
  PROVE  CellsOf(r) = (t..b) \X (l..q)
<1>1. CellsOf(r) = {p \in Pos : \A i \in 1..2 : <<t, l>>[i] <= p[i] /\ p[i] <= <<b, q>>[i]}
  BY DEF CellsOf, Box
<1>2. ASSUME NEW p \in Pos
      PROVE  (\A i \in 1..2 : <<t, l>>[i] <= p[i] /\ p[i] <= <<b, q>>[i])
               <=> t <= p[1] /\ p[1] <= b /\ l <= p[2] /\ p[2] <= q
  BY DEF Pos
<1>3. CellsOf(r) = {p \in Pos : t <= p[1] /\ p[1] <= b /\ l <= p[2] /\ p[2] <= q}
  BY <1>1, <1>2
<1> QED BY <1>3 DEF GridSizes, InGrid, Pos

LEMMA BoxesIntersect ==
  ASSUME NEW t1, NEW l1, NEW b1, NEW q1, NEW t2, NEW l2, NEW b2, NEW q2,
         NEW r1, NormalizeCellRange(r1) = Box(t1, l1, b1, q1),
         NEW r2, NormalizeCellRange(r2) = Box(t2, l2, b2, q2)
  PROVE  RangesIntersect(r1, r2)
           <=> t1 <= b2 /\ b1 >= t2 /\ l1 <= q2 /\ q1 >= l2
<1>1. RangesIntersect(r1, r2) <=>
        \A i \in 1..2 : <<t1, l1>>[i] <= <<b2, q2>>[i] /\ <<b1, q1>>[i] >= <<t2, l2>>[i]
  BY DEF RangesIntersect, Box
<1>2. 1..2 = {1, 2}
  OBVIOUS
<1> QED BY <1>1, <1>2

LEMMA IntersectingIsSymmetric ==
  ASSUME GridSizes, NEW r1 \in Ranges, NEW r2 \in Ranges, RangesIntersect(r1, r2)
  PROVE  RangesIntersect(r2, r1)
<1>1. PICK t1, l1, b1, q1 \in Nat : InGrid(t1, l1, b1, q1)
             /\ NormalizeCellRange(r1) = Box(t1, l1, b1, q1)
  BY NormalBox
<1>2. PICK t2, l2, b2, q2 \in Nat : InGrid(t2, l2, b2, q2)
             /\ NormalizeCellRange(r2) = Box(t2, l2, b2, q2)
  BY NormalBox
<1>3. t1 <= b2 /\ b1 >= t2 /\ l1 <= q2 /\ q1 >= l2
  BY <1>1, <1>2, BoxesIntersect
<1> QED BY <1>1, <1>2, <1>3, BoxesIntersect

-----------------------------------------------------------------------------
(* No two regions share a cell.                                              *)
RegionsApart(regions) == \A m1, m2 \in regions : m1 # m2 => ~RangesIntersect(m1, m2)

Selected == selection \in Ranges \cup {NoRange}

Regions == /\ sheet \in 1..2
           /\ DOMAIN merged = 1..2
           /\ \A s \in 1..2 : merged[s] \subseteq Ranges /\ RegionsApart(merged[s])
           /\ merged = [s \in 1..2 |-> merged[s]]

CellsInv == GridSizes /\ Selected /\ Regions /\ OutsideIsTheBoundary

LEMMA CellsInitInv == GridSizes /\ CellsInit => CellsInv
  BY DEF CellsInit, CellsInv, Selected, Regions, RegionsApart, OutsideIsTheBoundary, NoCommand

(* What may be merged: regions apart from each other and from those there.   *)
Mergeable(regions) ==
  /\ regions \subseteq Ranges /\ RegionsApart(regions)
  /\ \A r \in regions : \A m \in merged[sheet] : ~RangesIntersect(r, m)

LEMMA MergeKeepsApart ==
  ASSUME GridSizes, Regions, NEW regions, Mergeable(regions), UNCHANGED sheet,
         Merge(regions) \/ UNCHANGED merged
  PROVE  Regions'
<1>1. CASE UNCHANGED merged
  BY <1>1 DEF Regions
<1>2. CASE merged' = [merged EXCEPT ![sheet] = @ \cup regions]
  <2> PICK all : all = merged[sheet] \cup regions
    OBVIOUS
  <2>1. all \subseteq Ranges
    BY DEF Regions, Mergeable
  <2>2. RegionsApart(all)
    <3> SUFFICES ASSUME NEW m1 \in all, NEW m2 \in all, m1 # m2
                 PROVE  ~RangesIntersect(m1, m2)
      BY DEF RegionsApart
    <3>1. CASE m1 \in merged[sheet] /\ m2 \in merged[sheet]
      BY <3>1 DEF Regions, RegionsApart
    <3>2. CASE m1 \in regions /\ m2 \in regions
      BY <3>2 DEF Mergeable, RegionsApart
    <3>3. CASE m1 \in regions /\ m2 \in merged[sheet]
      BY <3>3 DEF Mergeable
    <3>4. CASE m2 \in regions /\ m1 \in merged[sheet]
      <4>1. ~RangesIntersect(m2, m1)
        BY <3>4 DEF Mergeable
      <4> QED BY <4>1, <2>1, IntersectingIsSymmetric
    <3> QED BY <3>1, <3>2, <3>3, <3>4
  <2>3. merged' = [merged EXCEPT ![sheet] = all]
    BY <1>2
  <2> QED BY <2>1, <2>2, <2>3 DEF Regions
<1> QED BY <1>1, <1>2 DEF Merge

(* A selection that touches no merged region may become one.                 *)
LEMMA SelectionMayMerge ==
  ASSUME GridSizes, Selected, Regions, selection # NoRange, ~IntersectsMerge
  PROVE  Mergeable({NormalizeCellRange(selection)}) /\ NormalizeCellRange(selection) \in Ranges
<1>1. selection \in Ranges
  BY DEF Selected
<1>2. PICK t, l, b, q \in Nat : InGrid(t, l, b, q)
             /\ NormalizeCellRange(selection) = Box(t, l, b, q)
  BY <1>1, NormalBox
<1> PICK n : n = NormalizeCellRange(selection)
  OBVIOUS
<1>3. n \in Ranges /\ NormalizeCellRange(n) = Box(t, l, b, q)
  BY <1>2, BoxIsNormal
<1>4. ASSUME NEW m \in merged[sheet] PROVE ~RangesIntersect(n, m)
  <2>1. m \in Ranges /\ ~RangesIntersect(selection, m)
    BY DEF Regions, IntersectsMerge, MergeRegions
  <2>2. PICK t2, l2, b2, q2 \in Nat : NormalizeCellRange(m) = Box(t2, l2, b2, q2)
    BY <2>1, NormalBox
  <2> QED BY <1>2, <1>3, <2>1, <2>2, BoxesIntersect
<1> QED BY <1>3, <1>4 DEF Mergeable, RegionsApart

(* So may each of its rows.                                                  *)
LEMMA RowsMayMerge ==
  ASSUME GridSizes, Selected, Regions, selection # NoRange, ~IntersectsMerge,
         NEW n, n = NormalizeCellRange(selection)
  PROVE  Mergeable(RowsOf(n))
<1>1. selection \in Ranges
  BY DEF Selected
<1>2. PICK t, l, b, q \in Nat : InGrid(t, l, b, q) /\ n = Box(t, l, b, q)
  BY <1>1, NormalBox
<1> PICK rows : rows = {Box(r, l, r, q) : r \in t..b}
  OBVIOUS
<1>3. RowsOf(n) = rows
  BY <1>2 DEF RowsOf, Box
<1>4. ASSUME NEW r \in t..b
      PROVE  /\ r \in Nat /\ Box(r, l, r, q) \in Ranges
             /\ NormalizeCellRange(Box(r, l, r, q)) = Box(r, l, r, q)
  <2>1. r \in Nat /\ InGrid(r, l, r, q)
    BY <1>2 DEF InGrid, GridSizes
  <2> QED BY <2>1, BoxIsNormal
<1>5. RegionsApart(rows)
  <2> SUFFICES ASSUME NEW m1 \in rows, NEW m2 \in rows, m1 # m2
               PROVE  ~RangesIntersect(m1, m2)
    BY DEF RegionsApart
  <2>1. PICK r1 \in t..b, r2 \in t..b : m1 = Box(r1, l, r1, q) /\ m2 = Box(r2, l, r2, q)
    OBVIOUS
  <2>2. ~(r1 <= r2 /\ r1 >= r2)
    BY <2>1, <1>4
  <2>3. /\ m1 \in Ranges /\ m2 \in Ranges /\ r1 \in Nat /\ r2 \in Nat /\ l \in Nat /\ q \in Nat
        /\ NormalizeCellRange(m1) = Box(r1, l, r1, q)
        /\ NormalizeCellRange(m2) = Box(r2, l, r2, q)
    BY <1>2, <1>4, <2>1
  <2> QED BY <2>2, <2>3, BoxesIntersect
<1>6. ASSUME NEW r \in t..b, NEW m \in merged[sheet]
      PROVE  ~RangesIntersect(Box(r, l, r, q), m)
  <2>1. m \in Ranges /\ ~RangesIntersect(selection, m)
    BY DEF Regions, IntersectsMerge, MergeRegions
  <2>2. PICK t2, l2, b2, q2 \in Nat : NormalizeCellRange(m) = Box(t2, l2, b2, q2)
    BY <2>1, NormalBox
  <2>3. ~(t <= b2 /\ b >= t2 /\ l <= q2 /\ q >= l2)
    BY <1>2, <2>1, <2>2, BoxesIntersect
  <2>4. ~(r <= b2 /\ r >= t2 /\ l <= q2 /\ q >= l2)
    BY <2>3, <1>4
  <2> QED BY <1>4, <2>2, <2>4, BoxesIntersect
<1>7. \A m1 \in rows : m1 \in Ranges /\ \A m \in merged[sheet] : ~RangesIntersect(m1, m)
  BY <1>4, <1>6
<1> QED BY <1>3, <1>5, <1>7 DEF Mergeable

-----------------------------------------------------------------------------
(* The cells along an edge are those beyond which the range ends.            *)
LEMMA EdgeIsBoundary ==
  ASSUME GridSizes, NEW t \in Nat, NEW l \in Nat, NEW b \in Nat, NEW q \in Nat,
         InGrid(t, l, b, q), NEW r, NormalizeCellRange(r) = Box(t, l, b, q),
         NEW edge \in Edges
  PROVE  CellsOf(BorderEdgeRange(r, edge))
           = {p \in CellsOf(r) : Neighbour(p, edge) \notin CellsOf(r)}
<1> DEFINE all == (t..b) \X (l..q)
<1>1. CellsOf(r) = all
  BY CellsOfBox
<1>2. CASE edge = "top"
  <2>1. BorderEdgeRange(r, edge) = Box(t, l, t, q)
    BY <1>2 DEF BorderEdgeRange, Box
  <2>2. CellsOf(BorderEdgeRange(r, edge)) = (t..t) \X (l..q)
    BY <2>1, BoxIsNormal, CellsOfBox DEF InGrid
  <2>3. ASSUME NEW p \in all PROVE Neighbour(p, edge) \notin all <=> p[1] = t
    BY <1>2 DEF Neighbour
  <2> QED BY <1>1, <2>2, <2>3 DEF InGrid
<1>3. CASE edge = "bottom"
  <2>1. BorderEdgeRange(r, edge) = Box(b, l, b, q)
    BY <1>3 DEF BorderEdgeRange, Box
  <2>2. CellsOf(BorderEdgeRange(r, edge)) = (b..b) \X (l..q)
    BY <2>1, BoxIsNormal, CellsOfBox DEF InGrid
  <2>3. ASSUME NEW p \in all PROVE Neighbour(p, edge) \notin all <=> p[1] = b
    BY <1>3 DEF Neighbour
  <2> QED BY <1>1, <2>2, <2>3 DEF InGrid
<1>4. CASE edge = "left"
  <2>1. BorderEdgeRange(r, edge) = Box(t, l, b, l)
    BY <1>4 DEF BorderEdgeRange, Box
  <2>2. CellsOf(BorderEdgeRange(r, edge)) = (t..b) \X (l..l)
    BY <2>1, BoxIsNormal, CellsOfBox DEF InGrid
  <2>3. ASSUME NEW p \in all PROVE Neighbour(p, edge) \notin all <=> p[2] = l
    BY <1>4 DEF Neighbour
  <2> QED BY <1>1, <2>2, <2>3 DEF InGrid
<1>5. CASE edge = "right"
  <2>1. BorderEdgeRange(r, edge) = Box(t, q, b, q)
    BY <1>5 DEF BorderEdgeRange, Box
  <2>2. CellsOf(BorderEdgeRange(r, edge)) = (t..b) \X (q..q)
    BY <2>1, BoxIsNormal, CellsOfBox DEF InGrid
  <2>3. ASSUME NEW p \in all PROVE Neighbour(p, edge) \notin all <=> p[2] = q
    BY <1>5 DEF Neighbour
  <2> QED BY <1>1, <2>2, <2>3 DEF InGrid
<1> QED BY <1>2, <1>3, <1>4, <1>5 DEF Edges

(* "Outside border" sets the boundary: the four edges, or, of one cell, all.  *)
LEMMA BorderIsBoundary ==
  ASSUME GridSizes, NEW action, selection \in Ranges, ApplyBorder(action)
  PROVE  OutsideIsTheBoundary'
<1> SUFFICES ASSUME action = "outside" PROVE OutsideIsTheBoundary'
  BY DEF ApplyBorder, OutsideIsTheBoundary
<1> PICK n : n = NormalizeCellRange(selection)
  OBVIOUS
<1>1. PICK t, l, b, q \in Nat : InGrid(t, l, b, q) /\ n = Box(t, l, b, q)
  BY NormalBox
<1>2. /\ NormalizeCellRange(selection) = Box(t, l, b, q)
      /\ NormalizeCellRange(n) = Box(t, l, b, q)
  BY <1>1, BoxIsNormal
<1> PICK all : all = CellsOf(selection)
  OBVIOUS
<1>3. CellsOf(n) = all /\ all = (t..b) \X (l..q)
  BY <1>1, <1>2, CellsOfBox
<1> PICK bounds : bounds = {e \in all \X Edges : Neighbour(e[1], e[2]) \notin all}
  OBVIOUS
<1>4. UNION {SetEdge(selection, e) : e \in Edges} = bounds
  <2>1. ASSUME NEW e \in Edges
        PROVE  CellsOf(BorderEdgeRange(selection, e)) = {p \in all : Neighbour(p, e) \notin all}
    <3>1. CellsOf(BorderEdgeRange(selection, e))
            = {p \in CellsOf(selection) : Neighbour(p, e) \notin CellsOf(selection)}
      BY <1>1, <1>2, EdgeIsBoundary
    <3> QED BY <3>1, Zenon
  <2>2. ASSUME NEW e \in Edges, NEW x
        PROVE  x \in SetEdge(selection, e) <=>
                 \E p \in all : x = <<p, e>> /\ Neighbour(p, e) \notin all
    BY <2>1 DEF SetEdge
  <2>3. ASSUME NEW x
        PROVE  x \in bounds <=> \E e \in Edges : x \in SetEdge(selection, e)
    <3>1. ASSUME x \in bounds PROVE \E e \in Edges : x \in SetEdge(selection, e)
      <4>1. x[2] \in Edges /\ x[1] \in all /\ x = <<x[1], x[2]>> /\ Neighbour(x[1], x[2]) \notin all
        BY <3>1
      <4> QED BY <4>1, <2>2
    <3>2. ASSUME NEW e \in Edges, x \in SetEdge(selection, e) PROVE x \in bounds
      BY <2>2, <3>2
    <3> QED BY <3>1, <3>2
  <2> QED BY <2>3
<1>5. IsSingleCellRange(selection) => {selection.start} \X Edges = bounds
  <2> SUFFICES ASSUME selection.start = selection.end PROVE {selection.start} \X Edges = bounds
    BY DEF IsSingleCellRange
  <2>1. selection.start \in Nat \X Nat /\ n = [start |-> selection.start, end |-> selection.start]
    BY DEF GridSizes, Ranges, Pos, NormalizeCellRange, Least, Most
  <2>2. t = b /\ l = q /\ selection.start = <<t, l>>
    BY <1>1, <2>1 DEF Box
  <2>3. all = {selection.start}
    BY <1>3, <2>2
  <2>4. ASSUME NEW e \in Edges PROVE Neighbour(selection.start, e) # selection.start
    <3>1. CASE e = "top"
      BY <2>2, <3>1 DEF Neighbour
    <3>2. CASE e = "bottom"
      BY <2>2, <3>2 DEF Neighbour
    <3>3. CASE e = "left"
      BY <2>2, <3>3 DEF Neighbour
    <3>4. CASE e = "right"
      BY <2>2, <3>4 DEF Neighbour
    <3> QED BY <3>1, <3>2, <3>3, <3>4 DEF Edges
  <2> QED BY <2>3, <2>4
<1>6. last' = [cmd |-> "outside", range |-> n, set |-> bounds]
  BY <1>4, <1>5 DEF ApplyBorder, Edges
<1>7. (last.cmd = "outside")' /\ last'.range = n /\ last'.set = bounds
  BY <1>6
<1> QED BY <1>3, <1>7 DEF OutsideIsTheBoundary

(* Steps that give another command or none.                                  *)
LEMMA OtherCommand ==
  ASSUME last'.cmd # "outside"
  PROVE  OutsideIsTheBoundary'
  BY DEF OutsideIsTheBoundary

LEMMA CellsNextInv == CellsInv /\ [CellsNext]_cellVars => CellsInv'
<1> SUFFICES ASSUME CellsInv, [CellsNext]_cellVars PROVE CellsInv'
  OBVIOUS
<1>1. GridSizes /\ Selected /\ Regions /\ OutsideIsTheBoundary
  BY DEF CellsInv
<1>2. last' = NoCommand => OutsideIsTheBoundary'
  BY OtherCommand DEF NoCommand
<1>3. UNCHANGED <<sheet, merged>> => Regions'
  BY <1>1 DEF Regions
<1>4. CASE SelectCells \/ ClearSelection \/ OpenMenu
  BY <1>1, <1>2, <1>3, <1>4 DEF SelectCells, ClearSelection, OpenMenu, Selected, CellsInv
<1>5. CASE ShowSheet
  BY <1>1, <1>2, <1>5 DEF ShowSheet, Selected, Regions, CellsInv
<1>6. CASE ApplyStyle
  BY <1>1, <1>3, <1>6, OtherCommand DEF ApplyStyle, Selected, CellsInv
<1>7. CASE \E action \in Edges \cup {"all", "none", "outside"} : ApplyBorder(action)
  <2>1. PICK action : ApplyBorder(action)
    BY <1>7
  <2>2. selection \in Ranges /\ UNCHANGED <<sheet, selection, merged>>
    BY <1>1, <2>1 DEF ApplyBorder, Selected
  <2> QED BY <1>1, <1>3, <2>1, <2>2, BorderIsBoundary DEF Selected, CellsInv
<1>8. CASE MergeCells \/ MergeAndCenter
  <2>1. CanMerge /\ Merge({NormalizeCellRange(selection)}) /\ UNCHANGED <<sheet, selection>>
    BY <1>8 DEF MergeCells, MergeAndCenter
  <2>2. Regions'
    BY <1>1, <2>1, SelectionMayMerge, MergeKeepsApart DEF CanMerge
  <2>3. OutsideIsTheBoundary'
    BY <1>2, <1>8, OtherCommand DEF MergeCells, MergeAndCenter
  <2> QED BY <1>1, <2>1, <2>2, <2>3 DEF Selected, CellsInv
<1>9. CASE MergeAcross
  <2> PICK n : n = NormalizeCellRange(selection)
    OBVIOUS
  <2>1. /\ selection # NoRange /\ ~IntersectsMerge
        /\ \/ Merge(RowsOf(n)) /\ selection' = n
           \/ UNCHANGED <<merged, selection>>
        /\ UNCHANGED sheet /\ last' = NoCommand
    BY <1>9 DEF MergeAcross, CanMergeAcross
  <2>2. Mergeable(RowsOf(n)) /\ n \in Ranges
    BY <1>1, <2>1, RowsMayMerge, SelectionMayMerge
  <2> QED BY <1>1, <1>2, <2>1, <2>2, MergeKeepsApart DEF Selected, CellsInv
<1>10. CASE UnmergeCells
  <2> PICK n : n = NormalizeCellRange(selection)
    OBVIOUS
  <2> PICK kept : kept = merged[sheet] \ {m \in merged[sheet] : RangesIntersect(selection, m)}
    OBVIOUS
  <2>1. /\ selection \in Ranges /\ UNCHANGED sheet /\ last' = NoCommand
        /\ merged' = [merged EXCEPT ![sheet] = kept]
        /\ selection' \in {selection, n}
    BY <1>1, <1>10 DEF UnmergeCells, IntersectsMerge, Selected
  <2>2. n \in Ranges
    BY <1>1, <2>1, NormalBox, BoxIsNormal
  <2>3. kept \subseteq merged[sheet]
    OBVIOUS
  <2>4. Regions'
    BY <1>1, <2>1, <2>3 DEF Regions, RegionsApart
  <2> QED BY <1>2, <2>1, <2>2, <2>4 DEF Selected, CellsInv
<1>11. CASE UNCHANGED cellVars
  BY <1>1, <1>11 DEF cellVars, CellsInv, Selected, Regions, OutsideIsTheBoundary
<1> QED BY <1>4, <1>5, <1>6, <1>7, <1>8, <1>9, <1>10, <1>11 DEF CellsNext

LEMMA RangesStaySound == CellsInv => MergesAreDisjoint /\ OutsideIsTheBoundary
  BY DEF CellsInv, Regions, RegionsApart, MergesAreDisjoint

-----------------------------------------------------------------------------
(* ---- PDF viewer: no document is left open, errors are of this file      *)

(* A document still open was open when each later one was, and goes when   *)
(* that one has loaded.                                                    *)
ClosedByTheNext ==
  \A d, e \in DOMAIN docs :
    d < e /\ docs[d].status # "closed" => d \in docs[e].prev /\ docs[e].status # "loaded"

DocRecord(f, p, s, b) == [file |-> f, prev |-> p, status |-> s, fetchable |-> b]
DocRecords == \A d \in DOMAIN docs : \E f, p, s, b : docs[d] = DocRecord(f, p, s, b)

ViewerInv ==
  /\ \E S : docs \in Seq(S)
  /\ DocRecords /\ ClosedByTheNext /\ ErrorIsOfThisFile

LEMMA ViewerInitInv == ViewerInit => ViewerInv
<1> SUFFICES ASSUME ViewerInit PROVE ViewerInv
  OBVIOUS
<1>1. docs \in Seq({}) /\ DOMAIN docs = {} /\ ~openError
  BY DEF ViewerInit
<1> QED BY <1>1 DEF ViewerInv, DocRecords, ClosedByTheNext, ErrorIsOfThisFile

(* A document appended, its documents to close those open now.             *)
LEMMA DocOpens ==
  ASSUME ViewerInv, NEW f, NEW b,
         docs' = Append(docs, [file |-> f, prev |-> Open, status |-> "opening", fetchable |-> b])
  PROVE  (\E S : docs \in Seq(S))' /\ DocRecords' /\ ClosedByTheNext'
<1> DEFINE r == DocRecord(f, Open, "opening", b)
<1>1. PICK S : docs \in Seq(S)
  BY DEF ViewerInv
<1>2. docs \in Seq(S \cup {r}) /\ docs' = Append(docs, r)
  BY <1>1 DEF DocRecord
<1>3. docs' \in Seq(S \cup {r})
  BY <1>2
<1> DEFINE n == Len(docs) + 1
<1>4. /\ n \in Nat /\ n \notin DOMAIN docs /\ DOMAIN docs' = DOMAIN docs \cup {n}
      /\ \A d \in DOMAIN docs : d \in Nat /\ d < n /\ docs'[d] = docs[d]
      /\ docs'[n] = r
  BY <1>2
<1>5. r.status = "opening" /\ r.prev = Open
  BY DEF DocRecord
<1> HIDE DEF n
<1>6. ASSUME NEW d \in DOMAIN docs' PROVE \E g, p, s, c : docs'[d] = DocRecord(g, p, s, c)
  <2>1. CASE d = n
    BY <1>4, <2>1
  <2>2. CASE d \in DOMAIN docs
    BY <1>4, <2>2 DEF ViewerInv, DocRecords
  <2> QED BY <1>4, <1>6, <2>1, <2>2
<1> HIDE DEF r
<1>7. ASSUME NEW d \in DOMAIN docs', NEW e \in DOMAIN docs', d < e, docs'[d].status # "closed"
      PROVE  d \in docs'[e].prev /\ docs'[e].status # "loaded"
  <2>1. d \in DOMAIN docs /\ docs[d].status # "closed"
    BY <1>4, <1>7
  <2>2. CASE e = n
    BY <1>4, <1>5, <2>1, <2>2 DEF Open
  <2>3. CASE e \in DOMAIN docs
    BY <1>4, <1>7, <2>1, <2>3 DEF ViewerInv, ClosedByTheNext
  <2> QED BY <1>4, <2>2, <2>3
<1> QED BY <1>3, <1>6, <1>7, Zenon DEF ClosedByTheNext, DocRecords

LEMMA FileOpens ==
  ASSUME ViewerInv, NEW eng, NEW file, OpenFile(eng, file), broken' = broken
  PROVE  ViewerInv'
<1>1. CASE UNCHANGED <<opened, docs, active, openError>>
  BY <1>1 DEF ViewerInv, DocRecords, ClosedByTheNext, ErrorIsOfThisFile
<1>2. CASE /\ openError' = FALSE
           /\ docs' = Append(docs, [file |-> file, prev |-> Open, status |-> "opening",
                                    fetchable |-> Fetchable(file)])
  BY <1>2, DocOpens DEF ViewerInv, ErrorIsOfThisFile
<1> QED BY <1>1, <1>2, Zenon DEF OpenFile

(* Documents close, and one under way loads or fails.                      *)
Settles(d, P, end) ==
  /\ DOMAIN docs' = DOMAIN docs /\ docs' = [e \in DOMAIN docs |-> docs'[e]]
  /\ \A e \in DOMAIN docs :
       docs'[e] = IF e = d THEN [docs[e] EXCEPT !.status = end]
                  ELSE IF e \in P THEN [docs[e] EXCEPT !.status = "closed"] ELSE docs[e]

LEMMA DocSettles ==
  ASSUME ViewerInv, NEW d \in DOMAIN docs, docs[d].status = "opening", NEW P, NEW end,
         Settles(d, P, end), end = "error" \/ (end = "loaded" /\ P = docs[d].prev)
  PROVE  (\E S : docs \in Seq(S))' /\ DocRecords' /\ ClosedByTheNext'
<1>0. /\ DOMAIN docs' = DOMAIN docs /\ docs' = [e \in DOMAIN docs |-> docs'[e]]
      /\ \A e \in DOMAIN docs :
           docs'[e] = IF e = d THEN [docs[e] EXCEPT !.status = end]
                      ELSE IF e \in P THEN [docs[e] EXCEPT !.status = "closed"] ELSE docs[e]
  BY Zenon DEF Settles
<1> DEFINE n == Len(docs)
<1> DEFINE R == {docs'[e] : e \in DOMAIN docs}
<1>1. n \in Nat /\ DOMAIN docs = 1..n
  BY DEF ViewerInv
<1>2. docs' \in [1..n -> R]
  BY <1>0, <1>1, Zenon
<1>3. docs' \in Seq(R)
  <2> HIDE DEF n, R
  <2> QED BY <1>1, <1>2
<1> HIDE DEF n, R
<1>4. ASSUME NEW e \in DOMAIN docs, NEW f, NEW p, NEW s, NEW b, docs[e] = DocRecord(f, p, s, b)
      PROVE  \E t : /\ docs'[e] = DocRecord(f, p, t, b)
                    /\ t = IF e = d THEN end ELSE IF e \in P THEN "closed" ELSE s
  <2>1. \A t : [docs[e] EXCEPT !.status = t] = DocRecord(f, p, t, b)
    BY <1>4 DEF DocRecord
  <2>2. docs'[e] = IF e = d THEN [docs[e] EXCEPT !.status = end]
                   ELSE IF e \in P THEN [docs[e] EXCEPT !.status = "closed"] ELSE docs[e]
    BY <1>0
  <2>3. CASE e = d
    BY <2>1, <2>2, <2>3
  <2>4. CASE e # d /\ e \in P
    BY <2>1, <2>2, <2>4
  <2>5. CASE e # d /\ e \notin P
    BY <1>4, <2>2, <2>5
  <2> QED BY <2>3, <2>4, <2>5
<1>5. ASSUME NEW e \in DOMAIN docs' PROVE \E g, p, s, c : docs'[e] = DocRecord(g, p, s, c)
  <2>1. PICK f, p, s, b : docs[e] = DocRecord(f, p, s, b)
    BY <1>0, Zenon DEF ViewerInv, DocRecords
  <2> QED BY <1>0, <1>4, <2>1
<1>6. ASSUME NEW e \in DOMAIN docs
      PROVE  /\ docs'[e].prev = docs[e].prev
             /\ docs'[e].status = IF e = d THEN end ELSE IF e \in P THEN "closed" ELSE docs[e].status
  <2>1. PICK f, p, s, b : docs[e] = DocRecord(f, p, s, b)
    BY Zenon DEF ViewerInv, DocRecords
  <2>2. PICK t : /\ docs'[e] = DocRecord(f, p, t, b)
                 /\ t = IF e = d THEN end ELSE IF e \in P THEN "closed" ELSE s
    BY <1>4, <2>1
  <2> QED BY <2>1, <2>2 DEF DocRecord
<1>7. ASSUME NEW c \in DOMAIN docs, NEW e \in DOMAIN docs, c < e, docs'[c].status # "closed"
      PROVE  c \in docs'[e].prev /\ docs'[e].status # "loaded"
  <2>1. docs[c].status # "closed"
    BY <1>6, <1>7
  <2>2. c \in docs[e].prev /\ docs[e].status # "loaded"
    BY <1>7, <2>1 DEF ViewerInv, ClosedByTheNext
  <2>3. CASE e # d
    BY <1>6, <2>2, <2>3
  <2>4. CASE e = d
    <3>1. c # d
      BY <1>1, <1>7, <2>4
    <3>2. c \notin P
      BY <1>6, <1>7, <3>1
    <3> QED BY <1>6, <2>2, <2>4, <3>2
  <2> QED BY <2>3, <2>4
<1> QED BY <1>0, <1>3, <1>5, <1>7, Zenon DEF ClosedByTheNext, DocRecords

LEMMA ViewerNextInv == ViewerInv /\ [ViewerNext]_viewerVars => ViewerInv'
<1> SUFFICES ASSUME ViewerInv, [ViewerNext]_viewerVars PROVE ViewerInv'
  OBVIOUS
<1>1. CASE EngineSettles
  BY <1>1, FileOpens, Zenon DEF EngineSettles
<1>2. CASE ChangeSrc
  BY <1>2, FileOpens, Zenon DEF ChangeSrc
<1>3. CASE HandleUploadFile
  BY <1>3, FileOpens, Zenon DEF HandleUploadFile
<1>4. ASSUME NEW d \in DOMAIN docs, Loaded(d) PROVE ViewerInv'
  <2> DEFINE P == docs[d].prev
  <2> DEFINE C == CloseAll(docs, P)
  <2>1. docs[d].status = "opening" /\ UNCHANGED <<opened, openError, broken>>
    BY <1>4 DEF Loaded
  <2>2. docs' = [C EXCEPT ![d].status = "loaded"]
    BY <1>4, Zenon DEF Loaded
  <2>3. /\ DOMAIN C = DOMAIN docs
        /\ \A e \in DOMAIN docs :
             C[e] = IF e \in P THEN [docs[e] EXCEPT !.status = "closed"] ELSE docs[e]
    BY Zenon DEF CloseAll
  <2>4. [C[d] EXCEPT !.status = "loaded"] = [docs[d] EXCEPT !.status = "loaded"]
    <3>1. PICK f, p, s, b : docs[d] = [file |-> f, prev |-> p, status |-> s, fetchable |-> b]
      BY Zenon DEF ViewerInv, DocRecords, DocRecord
    <3>2. \E t : C[d] = [file |-> f, prev |-> p, status |-> t, fetchable |-> b]
      BY <2>3, <3>1
    <3> HIDE DEF C
    <3> QED BY <3>1, <3>2
  <2> HIDE DEF C
  <2>5. /\ DOMAIN docs' = DOMAIN docs /\ docs' = [e \in DOMAIN docs |-> docs'[e]]
        /\ \A e \in DOMAIN docs :
             docs'[e] = IF e = d THEN [C[e] EXCEPT !.status = "loaded"] ELSE C[e]
    BY <2>2, <2>3, Zenon
  <2>6. \A e \in DOMAIN docs :
          docs'[e] = IF e = d THEN [docs[e] EXCEPT !.status = "loaded"]
                     ELSE IF e \in P THEN [docs[e] EXCEPT !.status = "closed"] ELSE docs[e]
    BY <2>3, <2>4, <2>5, Zenon
  <2>8. Settles(d, P, "loaded")
    BY <2>5, <2>6, Zenon DEF Settles
  <2>7. (\E S : docs \in Seq(S))' /\ DocRecords' /\ ClosedByTheNext'
    BY <2>1, <2>8, DocSettles
  <2> QED BY <2>1, <2>7 DEF ViewerInv, ErrorIsOfThisFile
<1>5. ASSUME NEW d \in DOMAIN docs, OpenFails(d) PROVE ViewerInv'
  <2>1. /\ docs[d].status = "opening" /\ docs' = [docs EXCEPT ![d].status = "error"]
        /\ HandleOpenError(d) /\ opened' = opened
    BY <1>5, Zenon DEF OpenFails
  <2>2. Settles(d, {}, "error")
    BY <2>1, Zenon DEF Settles
  <2>3. (\E S : docs \in Seq(S))' /\ DocRecords' /\ ClosedByTheNext'
    BY <2>1, <2>2, DocSettles
  <2>4. ErrorIsOfThisFile'
    BY <2>1 DEF HandleOpenError, ViewerInv, ErrorIsOfThisFile
  <2> QED BY <2>3, <2>4 DEF ViewerInv
<1>6. CASE UNCHANGED viewerVars
  BY <1>6 DEF viewerVars, ViewerInv, DocRecords, ClosedByTheNext, ErrorIsOfThisFile
<1> QED BY <1>1, <1>2, <1>3, <1>4, <1>5, <1>6, Zenon DEF ViewerNext

LEMMA NoDocumentIsLeft == ViewerInv => NoDocumentLeft
<1>1. ViewerInv => DOMAIN docs = 1..Len(docs) /\ Len(docs) \in Nat
  BY DEF ViewerInv
<1> QED BY <1>1 DEF ViewerInv, ClosedByTheNext, NoDocumentLeft, Open

-----------------------------------------------------------------------------
(* ---- Document editor: it is ready with what was imported last           *)

(* The runs of the load effect are numbered, and the current one loads the *)
(* document chosen last.                                                   *)
CurrentLoadsTheChosen ==
  \A l \in loads : l.n \in Nat /\ l.n <= current /\ (l.n = current => l.doc = Chosen)

LoadsInv == current \in Nat /\ CurrentLoadsTheChosen /\ ReadyMeansImported

LEMMA LoadsInitInv == DocxInit => LoadsInv
<1> SUFFICES ASSUME DocxInit PROVE LoadsInv
  OBVIOUS
<1>1. current \in Nat /\ CurrentLoadsTheChosen
  BY DEF DocxInit, CurrentLoadsTheChosen, Chosen, Url
<1>2. ReadyMeansImported
  BY DEF DocxInit, ReadyMeansImported, Ready, HasDocument, Chosen
<1> QED BY <1>1, <1>2 DEF LoadsInv

(* A new run of the load effect is the current one, of the document chosen. *)
LEMMA RunsTheLoad ==
  ASSUME LoadsInv, NEW wanted, Load(wanted), wanted = Chosen'
  PROVE  (current \in Nat /\ CurrentLoadsTheChosen)'
<1>1. current \in Nat /\ \A l \in loads : l.n \in Nat /\ l.n <= current
  BY DEF LoadsInv, CurrentLoadsTheChosen
<1>2. current' = current + 1
      /\ \E p : loads' = loads \cup {[n |-> current', doc |-> wanted, phase |-> p]}
  BY Zenon DEF Load
<1>3. current' \in Nat /\ current' > current
  BY <1>1, <1>2
<1>4. \A l \in loads' : l.n \in Nat /\ l.n <= current' /\ (l.n = current' => l.doc = Chosen')
  BY <1>1, <1>2, <1>3
<1> QED BY <1>3, <1>4 DEF CurrentLoadsTheChosen

LEMMA LoadsNextInv == LoadsInv /\ [DocxNext]_docxVars => LoadsInv'
<1> SUFFICES ASSUME LoadsInv, [DocxNext]_docxVars PROVE LoadsInv'
  OBVIOUS
<1>1. CASE UNCHANGED <<hasUrl, picked, loads, current, imported, isLoadingDocument, loadError>>
  BY <1>1 DEF LoadsInv, CurrentLoadsTheChosen, ReadyMeansImported, Ready, HasDocument, Chosen
<1>2. CASE HandleDocxUpload
  <2>1. PICK wanted \in 2..(MaxLoads + 1) : picked' = wanted /\ Load(wanted) /\ isLoadingDocument' = TRUE
    BY <1>2 DEF HandleDocxUpload
  <2>2. wanted = Chosen'
    BY <2>1 DEF Chosen
  <2>3. ReadyMeansImported'
    BY <2>1 DEF ReadyMeansImported, Ready
  <2> QED BY <2>1, <2>2, <2>3, RunsTheLoad DEF LoadsInv
<1>3. CASE Rename
  <2>1. Load(Url) /\ Chosen' = Chosen /\ Chosen = Url
        /\ UNCHANGED <<imported, isLoadingDocument, loadError>>
    BY <1>3, Zenon DEF Rename, Chosen
  <2>2. ReadyMeansImported'
    BY <2>1 DEF LoadsInv, ReadyMeansImported, Ready, HasDocument
  <2> QED BY <2>1, <2>2, RunsTheLoad DEF LoadsInv
<1>4. ASSUME UNCHANGED <<hasUrl, picked, current>>
      PROVE  Chosen' = Chosen /\ current' = current
  BY <1>4 DEF Chosen
<1>5. CASE Fetched
  <2>1. PICK l \in loads : loads' = (loads \ {l}) \cup {[l EXCEPT !.phase = "importing"]}
    BY <1>5 DEF Fetched
  <2>2. UNCHANGED <<hasUrl, picked, current, imported, isLoadingDocument, loadError>>
    BY <1>5 DEF Fetched
  <2> DEFINE m == [l EXCEPT !.phase = "importing"]
  <2>3. m.n = l.n /\ m.doc = l.doc
    OBVIOUS
  <2>4. CurrentLoadsTheChosen'
    BY <2>1, <2>2, <2>3, <1>4 DEF LoadsInv, CurrentLoadsTheChosen
  <2> QED BY <2>2, <2>4, <1>4 DEF LoadsInv, ReadyMeansImported, Ready, HasDocument
<1>6. ASSUME NEW l \in loads, loads' = loads \ {l}, UNCHANGED <<hasUrl, picked, current>>
      PROVE  (current \in Nat /\ CurrentLoadsTheChosen)'
  BY <1>4, <1>6 DEF LoadsInv, CurrentLoadsTheChosen
<1>7. CASE Imported
  <2>1. PICK l \in loads :
          /\ Imports(l)
          /\ IF l.n = current THEN isLoadingDocument' = FALSE /\ activePage' = 1
             ELSE UNCHANGED <<isLoadingDocument, activePage>>
    BY <1>7, Zenon DEF Imported
  <2>2. UNCHANGED <<hasUrl, picked, current, loadError>>
    BY <1>7 DEF Imported
  <2>3. loads' = loads \ {l} /\ imported' = imported \cup {l.doc}
    BY <2>1 DEF Imports
  <2>4. l.n = current => l.doc = Chosen
    BY DEF LoadsInv, CurrentLoadsTheChosen
  <2>5. ReadyMeansImported'
    BY <2>1, <2>2, <2>3, <2>4, <1>4 DEF LoadsInv, ReadyMeansImported, Ready, HasDocument
  <2> QED BY <2>2, <2>3, <2>5, <1>6 DEF LoadsInv
<1>8. CASE LoadFailed
  <2>1. PICK l \in loads :
          /\ loads' = loads \ {l}
          /\ IF l.n = current \/ l.phase = "importing"
             THEN loadError' = TRUE /\ isLoadingDocument' = FALSE
             ELSE UNCHANGED <<loadError, isLoadingDocument>>
    BY <1>8, Zenon DEF LoadFailed
  <2>2. UNCHANGED <<hasUrl, picked, current, imported>>
    BY <1>8 DEF LoadFailed
  <2>3. ReadyMeansImported'
    BY <2>1, <2>2, <1>4 DEF LoadsInv, ReadyMeansImported, Ready, HasDocument
  <2> QED BY <2>1, <2>2, <2>3, <1>6 DEF LoadsInv
<1> QED BY <1>1, <1>2, <1>3, <1>5, <1>7, <1>8
        DEF DocxNext, docxVars, Edit, HandlePageCountChange, UpdateActivePage, ScrollToPage,
            ToggleSidebar, GetNextZoomScale

-----------------------------------------------------------------------------
(* ---- The native session: pairs do not mix, no false theft               *)

(***************************************************************************)
(* Proof, for every number of sign-ins, rotations and kills, that the      *)
(* access token in memory is always the partner of the refresh token the   *)
(* keychain ends up with, unless the keychain rejected the very write of   *)
(* that pair (MemoryIsWhatLands), and that the auth service                *)
(* takes this device for a thief only after a rotation whose answer or     *)
(* write the device lost, or on the word of a cached generation that the   *)
(* session's row had left behind (KilledOnlyAfterLoss).                    *)
(*                                                                         *)
(* The first is inductive once the types of the pairs are known, so TypeOK *)
(* is proved with it; that needs the four facts of Shape.                  *)
(***************************************************************************)

OpSet == [by : Flows, kind : {"get", "set"}, val : Pair \cup {None}]

Shape ==
  /\ \A p \in replaced : p.gen < MaxGen
  /\ rot.pc \in {"calling", "storing"} => rot.tok # None
  /\ rot.pc = "calling" /\ rot.ans = "pair" => rot.tok.gen < MaxGen
  /\ \A i \in 1..Len(ops) : ops[i].by = "login" => ops[i].val # None
  /\ \A i \in 1..Len(ops) : ops[i].by = "boot" => ops[i].kind = "get"

IInv == TypeOK /\ Shape /\ MemoryIsWhatLands

\* The last write of q is the i-th operation, and it writes mem.
Ends(q, i, mem) ==
  /\ q[i].kind = "set" /\ q[i].val = mem
  /\ \A j \in 1..Len(q) : j > i => q[j].kind = "get"

\* Reading the keychain does not change what it will hold.
Lands(mem, stored, q, un) ==
  mem # None =>
    \/ /\ \A j \in 1..Len(q) : q[j].kind = "get"
       /\ mem \in {stored, un}
    \/ \E i \in 1..Len(q) : Ends(q, i, mem)

LEMMA LandsIsTheInvariant == MemoryIsWhatLands <=> Lands(memory, keychain, ops, unsaved)
  BY DEF MemoryIsWhatLands, Lands, LastWrite, Ends

\* An operation that only reads, called now.
LEMMA AppendRead ==
  ASSUME NEW q \in Seq(OpSet), NEW mem, NEW stored, NEW un, NEW op \in OpSet,
         op.kind = "get", Lands(mem, stored, q, un)
  PROVE  Lands(mem, stored, Append(q, op), un)
<1> DEFINE a == Append(q, op)
<1>1. Len(a) = Len(q) + 1 /\ a[Len(q) + 1] = op /\ \A j \in 1..Len(q) : a[j] = q[j]
  OBVIOUS
<1>2. Len(q) \in Nat
  OBVIOUS
<1> HIDE DEF a
<1>3. CASE mem = None
  BY <1>3 DEF Lands
<1>4. CASE mem # None /\ mem \in {stored, un} /\ \A j \in 1..Len(q) : q[j].kind = "get"
  <2>1. \A j \in 1..Len(a) : a[j].kind = "get"
    BY <1>1, <1>2, <1>4
  <2> QED BY <2>1, <1>4 DEF Lands, a
<1>5. CASE mem # None /\ \E i \in 1..Len(q) : Ends(q, i, mem)
  <2>1. PICK i \in 1..Len(q) : Ends(q, i, mem)
    BY <1>5
  <2>2. i \in 1..Len(a) /\ a[i] = q[i]
    BY <1>1, <1>2
  <2>3. \A j \in 1..Len(a) : j \in 1..Len(q) \/ j = Len(q) + 1
    BY <1>1, <1>2
  <2>4. \A j \in 1..Len(a) : j > i => a[j].kind = "get"
    BY <1>1, <2>1, <2>3 DEF Ends
  <2> QED BY <2>1, <2>2, <2>4 DEF Lands, Ends, a
<1> QED BY <1>3, <1>4, <1>5 DEF Lands

\* A write called now is the last one.
LEMMA AppendWrite ==
  ASSUME NEW q \in Seq(OpSet), NEW stored, NEW un, NEW op \in OpSet, op.kind = "set"
  PROVE  Lands(op.val, stored, Append(q, op), un)
<1> DEFINE a == Append(q, op)
<1>1. Len(q) \in Nat /\ Len(a) = Len(q) + 1 /\ a[Len(q) + 1] = op
  OBVIOUS
<1>2. \A j \in 1..Len(a) : ~(j > Len(q) + 1)
  BY <1>1
<1> QED BY <1>1, <1>2 DEF Lands, Ends

\* The oldest operation is served: a write reaches the keychain, or is
\* rejected and leaves the pair it carried unsaved.
LEMMA ServeHead ==
  ASSUME NEW q \in Seq(OpSet), NEW mem, NEW stored, NEW un, NEW stored2, NEW un2,
         q # <<>>, Lands(mem, stored, q, un),
         Head(q).kind = "get" => stored2 = stored /\ un2 = un,
         Head(q).kind = "set" => Head(q).val \in {stored2, un2}
  PROVE  Lands(mem, stored2, Tail(q), un2)
<1> DEFINE t == Tail(q)
<1>1. /\ Len(q) \in Nat /\ Len(q) > 0 /\ Len(t) = Len(q) - 1 /\ Head(q) = q[1]
      /\ \A j \in 1..Len(t) : t[j] = q[j + 1]
  OBVIOUS
<1> HIDE DEF t
<1>3. CASE mem = None
  BY <1>3 DEF Lands
<1>4. CASE mem # None /\ mem \in {stored, un} /\ \A j \in 1..Len(q) : q[j].kind = "get"
  <2>1. \A j \in 1..Len(t) : t[j].kind = "get"
    BY <1>1, <1>4
  <2>2. Head(q).kind = "get"
    BY <1>1, <1>4
  <2>3. mem \in {stored2, un2}
    BY <1>4, <2>2
  <2> QED BY <2>1, <2>3 DEF Lands, t
<1>5. CASE mem # None /\ \E i \in 1..Len(q) : Ends(q, i, mem)
  <2>1. PICK i \in 1..Len(q) : Ends(q, i, mem)
    BY <1>5
  <2>2. CASE i = 1
    <3>1. \A j \in 1..Len(t) : t[j].kind = "get"
      BY <1>1, <2>1, <2>2 DEF Ends
    <3>2. Head(q).kind = "set" /\ Head(q).val = mem
      BY <1>1, <2>1, <2>2 DEF Ends
    <3>3. mem \in {stored2, un2}
      BY <3>2
    <3> QED BY <3>1, <3>3 DEF Lands, t
  <2>3. CASE i # 1
    <3>1. /\ i - 1 \in 1..Len(t) /\ t[i - 1] = q[i]
      BY <1>1, <2>3
    <3>2. \A j \in 1..Len(t) : j > i - 1 => t[j].kind = "get"
      BY <1>1, <2>1, <2>3 DEF Ends
    <3> QED BY <2>1, <3>1, <3>2 DEF Lands, Ends, t
  <2> QED BY <2>2, <2>3
<1> QED BY <1>3, <1>4, <1>5 DEF Lands

-----------------------------------------------------------------------------
LEMMA OpTypes ==
  ASSUME NEW by \in Flows, NEW kind \in {"get", "set"}, NEW val \in Pair \cup {None}
  PROVE  /\ Op(by, kind, val) \in OpSet
         /\ Op(by, kind, val).by = by /\ Op(by, kind, val).kind = kind
         /\ Op(by, kind, val).val = val
  BY DEF Op, OpSet

\* One more operation keeps what Shape says of the queue.
QueueShape(q) ==
  /\ \A i \in 1..Len(q) : q[i].by = "login" => q[i].val # None
  /\ \A i \in 1..Len(q) : q[i].by = "boot" => q[i].kind = "get"

LEMMA AppendShape ==
  ASSUME NEW q \in Seq(OpSet), NEW op \in OpSet, QueueShape(q),
         op.by = "login" => op.val # None, op.by = "boot" => op.kind = "get"
  PROVE  Append(q, op) \in Seq(OpSet) /\ QueueShape(Append(q, op))
<1>1. /\ Len(q) \in Nat /\ Len(Append(q, op)) = Len(q) + 1
      /\ Append(q, op)[Len(q) + 1] = op
      /\ \A j \in 1..Len(q) : Append(q, op)[j] = q[j]
  OBVIOUS
<1>2. \A j \in 1..Len(Append(q, op)) : j \in 1..Len(q) \/ j = Len(q) + 1
  BY <1>1
<1>3. Append(q, op) \in Seq(OpSet)
  OBVIOUS
<1> QED BY <1>1, <1>2, <1>3 DEF QueueShape

LEMMA TailShape ==
  ASSUME NEW q \in Seq(OpSet), q # <<>>, QueueShape(q)
  PROVE  /\ Tail(q) \in Seq(OpSet) /\ QueueShape(Tail(q))
         /\ Head(q) \in OpSet
         /\ Head(q).by = "login" => Head(q).val # None
         /\ Head(q).by = "boot" => Head(q).kind = "get"
<1>1. /\ Len(q) \in Nat /\ Len(q) > 0 /\ Len(Tail(q)) = Len(q) - 1 /\ Head(q) = q[1]
      /\ \A j \in 1..Len(Tail(q)) : Tail(q)[j] = q[j + 1]
      /\ Tail(q) \in Seq(OpSet) /\ Head(q) \in OpSet
  OBVIOUS
<1>2. QueueShape(Tail(q))
  BY <1>1 DEF QueueShape
<1> QED BY <1>1, <1>2 DEF QueueShape

\* The invariant in the form the steps are proved in.
Server ==
  /\ \A p \in replaced : p.gen < MaxGen
  /\ rot.pc \in {"calling", "storing"} => rot.tok # None
  /\ rot.pc = "calling" /\ rot.ans = "pair" => rot.tok.gen < MaxGen
Queue == ops \in Seq(OpSet) /\ QueueShape(ops)

LEMMA IInvSplits == IInv <=> /\ TypeOK /\ Server /\ Queue
                             /\ Lands(memory, keychain, ops, unsaved)
  BY LandsIsTheInvariant DEF IInv, Shape, Server, Queue, QueueShape, TypeOK, OpSet

LEMMA IInvJoins ==
  ASSUME TypeOK', Server', Queue', Lands(memory', keychain', ops', unsaved')
  PROVE  IInv'
  BY DEF IInv, Shape, Server, Queue, QueueShape, MemoryIsWhatLands, Lands, LastWrite, Ends

\* setTokens and clearTokens, called by a flow that is not the launch.
LEMMA WriteQueued ==
  ASSUME Queue, NEW by \in Flows \ {"boot"}, NEW val \in Pair \cup {None},
         by = "login" => val # None,
         ops' = Append(ops, Op(by, "set", val)), memory' = val
  PROVE  Queue' /\ Lands(memory', keychain', ops', unsaved')
<1>1. Op(by, "set", val) \in OpSet /\ Op(by, "set", val).by = by
      /\ Op(by, "set", val).kind = "set" /\ Op(by, "set", val).val = val
  BY OpTypes
<1>2. Queue'
  BY <1>1, AppendShape DEF Queue
<1>3. Lands(val, keychain', Append(ops, Op(by, "set", val)), unsaved')
  BY <1>1, AppendWrite DEF Queue
<1> QED BY <1>2, <1>3

\* A read is called, by a rotation or a sign-out.
LEMMA ReadQueued ==
  ASSUME Queue, Lands(memory, keychain, ops, unsaved), NEW by \in {"rot", "logout"},
         ops' = Append(ops, Op(by, "get", None)), UNCHANGED <<memory, keychain, unsaved>>
  PROVE  Queue' /\ Lands(memory', keychain', ops', unsaved')
<1>1. Op(by, "get", None) \in OpSet /\ Op(by, "get", None).by = by
      /\ Op(by, "get", None).kind = "get"
  BY OpTypes DEF Flows
<1>2. Queue'
  BY <1>1, AppendShape DEF Queue
<1>3. Lands(memory, keychain, Append(ops, Op(by, "get", None)), unsaved)
  BY <1>1, AppendRead DEF Queue
<1> QED BY <1>2, <1>3

LEMMA SameQueue ==
  ASSUME Queue, Lands(memory, keychain, ops, unsaved), UNCHANGED <<memory, keychain, ops, unsaved>>
  PROVE  Queue' /\ Lands(memory', keychain', ops', unsaved')
  BY DEF Queue

LEMMA InitIInv == Init => IInv
<1> SUFFICES ASSUME Init PROVE IInv
  OBVIOUS
<1>1. Op("boot", "get", None) \in OpSet /\ Op("boot", "get", None).by = "boot"
      /\ Op("boot", "get", None).kind = "get"
  BY OpTypes DEF Flows
<1>2. ops \in Seq(OpSet) /\ Len(ops) = 1 /\ ops[1] = Op("boot", "get", None)
  BY <1>1 DEF Init
<1>3. Queue
  BY <1>1, <1>2 DEF Queue, QueueShape
<1>4. TypeOK
  <2>1. row \in [Sids -> [gen : 0..MaxGen, state : {"none", "live", "gone", "stolen", "revoked"}]]
    BY BoundsAssumption DEF Init
  <2>2. rot \in [pc : {"idle", "reading", "calling", "storing", "clearing"},
                 tok : Pair \cup {None}, ans : Answers]
    BY DEF Init, NoRotation, Answers
  <2>3. request \in [Requests -> [pc : {"idle", "token", "sent", "repair", "resent"},
                                  tok : Pair \cup {None}]]
    BY DEF Init, NoRequest
  <2>4. logout \in [pc : {"idle", "reading", "calling", "clearing"}, tok : Pair \cup {None}]
    BY DEF Init, NoLogout
  <2>5. login \in [Sids -> {"unused", "calling", "storing", "done"}]
    BY DEF Init
  <2>6. kills \in 0..MaxKills
    BY BoundsAssumption DEF Init
  <2> QED BY <1>2, <2>1, <2>2, <2>3, <2>4, <2>5, <2>6 DEF Init, TypeOK, OpSet
<1>5. Server
  BY DEF Init, Server, NoRotation
<1>6. Lands(memory, keychain, ops, unsaved)
  BY DEF Init, Lands
<1> QED BY <1>3, <1>4, <1>5, <1>6, IInvSplits

-----------------------------------------------------------------------------
\* The steps.  What a step leaves alone keeps its type.

LEMMA ReleaseTypes ==
  ASSUME TypeOK, NEW pair \in Pair \cup {None}, ReleaseRequests(pair)
  PROVE  request' \in [Requests -> [pc : {"idle", "token", "sent", "repair", "resent"},
                                    tok : Pair \cup {None}]]
  BY DEF TypeOK, ReleaseRequests, NoRequest

LEMMA BootTypes ==
  ASSUME TypeOK, NEW o, NEW other \in {"loading", "signedIn", "signedOut"},
         BootSettles(o, other)
  PROVE  /\ boot' \in {"reading", "awaiting", "done"}
         /\ status' \in {"loading", "signedIn", "signedOut"}
  BY DEF TypeOK, BootSettles

LEMMA KeychainStep ==
  ASSUME IInv, KeychainDone, Head(ops).by # "boot" PROVE IInv'
<1> DEFINE op == Head(ops)
<1>1. TypeOK /\ Server /\ Queue /\ Lands(memory, keychain, ops, unsaved)
  BY IInvSplits
<1>2. /\ Queue' /\ op \in OpSet /\ (op.by = "login" => op.val # None)
  BY <1>1, TailShape DEF Queue, KeychainDone
<1>3. Lands(memory', keychain', ops', unsaved')
  <2>1. op.kind = "get" \/ op.kind = "set"
    BY <1>2 DEF OpSet
  <2>2. memory' = memory /\ ops # <<>> /\ ops' = Tail(ops)
        /\ keychain' = (IF op.kind = "set" THEN op.val ELSE keychain)
        /\ unsaved' = (IF op.kind = "set" THEN None ELSE unsaved)
    BY DEF KeychainDone
  <2> QED BY <1>1, <2>1, <2>2, ServeHead DEF Queue
<1>4. keychain' \in Pair \cup {None} /\ unsaved' \in Pair \cup {None}
      /\ op.val \in Pair \cup {None}
  BY <1>1, <1>2 DEF KeychainDone, TypeOK, OpSet
<1>5. keychain \in Pair \cup {None}
  BY <1>1 DEF TypeOK
<1> DEFINE RotT == rot' \in [pc : {"idle", "reading", "calling", "storing", "clearing"},
                             tok : Pair \cup {None}, ans : Answers]
           Rest == /\ RotT
                   /\ request' \in [Requests -> [pc : {"idle", "token", "sent", "repair", "resent"},
                                                 tok : Pair \cup {None}]]
                   /\ boot' \in {"reading", "awaiting", "done"}
                   /\ status' \in {"loading", "signedIn", "signedOut"}
                   /\ login' \in [Sids -> {"unused", "calling", "storing", "done"}]
                   /\ logout' \in [pc : {"idle", "reading", "calling", "clearing"},
                                   tok : Pair \cup {None}]
                   /\ Server'
<1>6. Rest
  <2>0. UNCHANGED server
    BY DEF KeychainDone
  <2>1. CASE op.by = "rot" /\ rot.pc = "reading"
    <3>1. RotateRead(keychain) /\ UNCHANGED <<login, logout>>
      BY <2>1 DEF KeychainDone
    <3>2. CASE keychain = None
      <4>1. rot' = NoRotation /\ ReleaseRequests(None) /\ BootSettles("network", "signedOut")
        BY <3>1, <3>2 DEF RotateRead
      <4> QED BY <1>1, <2>0, <3>1, <4>1, ReleaseTypes, BootTypes
              DEF NoRotation, TypeOK, Server, server, Answers
    <3>3. CASE keychain # None
      <4>1. /\ rot' = [pc |-> "calling", tok |-> keychain, ans |-> "none"]
            /\ UNCHANGED <<request, boot, status>>
        BY <3>1, <3>3 DEF RotateRead
      <4>2. RotT
        BY <1>5, <4>1 DEF Answers
      <4>3. Server'
        BY <1>1, <2>0, <3>3, <4>1 DEF Server, server
      <4> QED BY <1>1, <3>1, <4>1, <4>2, <4>3 DEF TypeOK
    <3> QED BY <3>2, <3>3
  <2>2. CASE op.by = "rot" /\ rot.pc = "storing"
    <3>1. /\ rot' = NoRotation /\ ReleaseRequests(op.val) /\ BootSettles("ok", status)
          /\ UNCHANGED <<login, logout>>
      BY <2>2 DEF KeychainDone
    <3> QED BY <1>1, <1>4, <2>0, <3>1, ReleaseTypes, BootTypes
            DEF NoRotation, TypeOK, Server, server, Answers
  <2>3. CASE op.by = "rot" /\ rot.pc = "clearing"
    <3>1. /\ rot' = NoRotation /\ ReleaseRequests(None) /\ BootSettles("failed", "signedOut")
          /\ UNCHANGED <<login, logout>>
      BY <2>3 DEF KeychainDone
    <3> QED BY <1>1, <2>0, <3>1, ReleaseTypes, BootTypes
            DEF NoRotation, TypeOK, Server, server, Answers
  <2>4. CASE op.by = "logout" /\ logout.pc = "reading"
    <3>1. /\ logout' = [pc |-> "calling", tok |-> keychain]
          /\ UNCHANGED <<rot, request, boot, status, login>>
      BY <2>4 DEF KeychainDone
    <3> QED BY <1>1, <1>5, <2>0, <3>1 DEF TypeOK, Server, server
  <2>5. CASE op.by = "logout" /\ logout.pc = "clearing"
    <3>1. /\ logout' = NoLogout /\ status' = "signedOut"
          /\ UNCHANGED <<rot, request, boot, login>>
      BY <2>5 DEF KeychainDone
    <3> QED BY <1>1, <2>0, <3>1 DEF TypeOK, Server, server, NoLogout
  <2>6. CASE op.by = "login"
    <3>1. /\ login' = [login EXCEPT ![op.val.sid] = "done"] /\ status' = "signedIn"
          /\ UNCHANGED <<rot, request, boot, logout>>
      BY <2>6 DEF KeychainDone
    <3> QED BY <1>1, <2>0, <3>1 DEF TypeOK, Server, server
  <2>7. CASE /\ ~(op.by = "rot" /\ rot.pc = "reading") /\ ~(op.by = "rot" /\ rot.pc = "storing")
             /\ ~(op.by = "rot" /\ rot.pc = "clearing")
             /\ ~(op.by = "logout" /\ logout.pc = "reading")
             /\ ~(op.by = "logout" /\ logout.pc = "clearing") /\ ~(op.by = "login")
    <3>1. UNCHANGED <<rot, request, boot, status, login, logout>>
      BY <2>7 DEF KeychainDone
    <3> QED BY <1>1, <2>0, <3>1 DEF TypeOK, Server, server
  <2> QED BY <2>1, <2>2, <2>3, <2>4, <2>5, <2>6, <2>7
<1>7. TypeOK'
  BY <1>1, <1>2, <1>4, <1>6 DEF TypeOK, KeychainDone, Queue, OpSet, server
<1> QED BY <1>2, <1>3, <1>6, <1>7, IInvJoins

\* The keychain rejects an operation: the flow that awaits it ends.
LEMMA RejectStep ==
  ASSUME IInv, KeychainRejects PROVE IInv'
<1> DEFINE op == Head(ops)
<1>1. TypeOK /\ Server /\ Queue /\ Lands(memory, keychain, ops, unsaved)
  BY IInvSplits
<1>2. /\ Queue' /\ op \in OpSet
  BY <1>1, TailShape DEF Queue, KeychainRejects
<1>3. Lands(memory', keychain', ops', unsaved')
  <2>1. op.kind = "get" \/ op.kind = "set"
    BY <1>2 DEF OpSet
  <2>2. memory' = memory /\ keychain' = keychain /\ ops # <<>> /\ ops' = Tail(ops)
        /\ unsaved' = (IF op.kind = "set" THEN op.val ELSE unsaved)
    BY DEF KeychainRejects
  <2> QED BY <1>1, <2>1, <2>2, ServeHead DEF Queue
<1>4. unsaved' \in Pair \cup {None}
  BY <1>1, <1>2 DEF KeychainRejects, TypeOK, OpSet
<1>5. UNCHANGED <<memory, due, keychain, row, replaced, misled, kills>>
  BY DEF KeychainRejects, server
<1>6. ASSUME op.by = "rot" PROVE TypeOK' /\ Server'
  <2>1. /\ rot' = NoRotation /\ ReleaseRequests(None) /\ BootSettles("network", status)
        /\ UNCHANGED <<login, logout>>
        /\ lost' = IF rot.pc = "storing" THEN lost \cup {rot.tok.sid} ELSE lost
    BY <1>6 DEF KeychainRejects
  <2>2. Server'
    BY <1>1, <1>5, <2>1 DEF Server, NoRotation
  <2>3. request' \in [Requests -> [pc : {"idle", "token", "sent", "repair", "resent"},
                                   tok : Pair \cup {None}]]
    BY <1>1, <2>1, ReleaseTypes
  <2>4. /\ boot' \in {"reading", "awaiting", "done"}
        /\ status' \in {"loading", "signedIn", "signedOut"}
    <3>1. status \in {"loading", "signedIn", "signedOut"}
      BY <1>1 DEF TypeOK
    <3> QED BY <1>1, <2>1, <3>1, BootTypes
  <2>5. rot' \in [pc : {"idle", "reading", "calling", "storing", "clearing"},
                  tok : Pair \cup {None}, ans : Answers]
    BY <2>1 DEF NoRotation, Answers
  <2>6. lost' \subseteq Sids
    <3>1. rot.pc = "storing" => rot.tok \in Pair
      BY <1>1 DEF TypeOK, Server
    <3> QED BY <1>1, <2>1, <3>1 DEF TypeOK, Pair
  <2> QED BY <1>1, <1>2, <1>4, <1>5, <2>1, <2>2, <2>3, <2>4, <2>5, <2>6
          DEF TypeOK, Queue, OpSet
<1>7. ASSUME op.by # "rot" PROVE TypeOK' /\ Server'
  <2>1. rot' = rot /\ lost' = lost
    BY <1>2, <1>7 DEF KeychainRejects, OpSet, Flows
  <2>2. Server'
    BY <1>1, <1>5, <2>1 DEF Server
  <2>3. /\ request' = request
        /\ boot' \in {boot, "done"} /\ status' \in {status, "signedOut"}
        /\ logout' \in {logout, NoLogout}
        /\ login' = login \/ login' = [login EXCEPT ![op.val.sid] = "done"]
    BY <1>2, <1>7 DEF KeychainRejects, OpSet, Flows
  <2>4. login' \in [Sids -> {"unused", "calling", "storing", "done"}]
    BY <1>1, <2>3 DEF TypeOK
  <2>5. logout' \in [pc : {"idle", "reading", "calling", "clearing"}, tok : Pair \cup {None}]
    BY <1>1, <2>3 DEF TypeOK, NoLogout
  <2>6. /\ boot' \in {"reading", "awaiting", "done"}
        /\ status' \in {"loading", "signedIn", "signedOut"}
    BY <1>1, <2>3 DEF TypeOK
  <2>7. TypeOK'
    BY <1>1, <1>2, <1>4, <1>5, <2>1, <2>3, <2>4, <2>5, <2>6 DEF TypeOK, Queue, OpSet
  <2> QED BY <2>2, <2>7
<1> QED BY <1>2, <1>3, <1>6, <1>7, IInvJoins

\* A step is proved by what it does to the queue and by the types it keeps.
LEMMA BootStep == ASSUME IInv, BootRead PROVE IInv'
<1>1. TypeOK /\ Server /\ Queue /\ Lands(memory, keychain, ops, unsaved)
  BY IInvSplits
<1>2. /\ Tail(ops) \in Seq(OpSet) /\ QueueShape(Tail(ops))
      /\ Head(ops).kind = "get"
  BY <1>1, TailShape DEF Queue, BootRead
<1>3. Lands(memory, keychain, Tail(ops), unsaved)
  BY <1>1, <1>2, ServeHead DEF Queue, BootRead
<1>4. CASE keychain = None
  <2>1. Queue' /\ Lands(memory', keychain', ops', unsaved')
    BY <1>2, <1>3, <1>4 DEF BootRead, Queue
  <2>2. TypeOK' /\ Server'
    BY <1>1, <1>4, <2>1 DEF BootRead, TypeOK, Server, Queue, OpSet, server
  <2> QED BY <2>1, <2>2, IInvJoins
<1>5. CASE keychain # None
  <2>1. Op("rot", "get", None) \in OpSet /\ Op("rot", "get", None).by = "rot"
        /\ Op("rot", "get", None).kind = "get"
    BY OpTypes DEF Flows
  <2>2. Queue'
    BY <1>2, <1>5, <2>1, AppendShape DEF BootRead, Queue
  <2>3. Lands(memory, keychain, Append(Tail(ops), Op("rot", "get", None)), unsaved)
    BY <1>2, <1>3, <2>1, AppendRead
  <2>4. rot' = [NoRotation EXCEPT !.pc = "reading"] /\ boot' = "awaiting"
    BY <1>5 DEF BootRead
  <2>5. TypeOK' /\ Server'
    BY <1>1, <1>5, <2>2, <2>4
       DEF BootRead, TypeOK, Server, Queue, OpSet, server, NoRotation, Answers
  <2> QED BY <1>5, <2>2, <2>3, <2>5, IInvJoins DEF BootRead
<1> QED BY <1>4, <1>5

(* The state column of one session's row is written.                       *)
LEMMA RowMarked ==
  ASSUME TypeOK, NEW s, NEW how \in {"none", "live", "gone", "stolen", "revoked"},
         row' = [row EXCEPT ![s].state = how]
  PROVE  row' \in [Sids -> [gen : 0..MaxGen, state : {"none", "live", "gone", "stolen", "revoked"}]]
<1> DEFINE SessionRows == [gen : 0..MaxGen, state : {"none", "live", "gone", "stolen", "revoked"}]
<1>1. row \in [Sids -> SessionRows]
  BY DEF TypeOK
<1>2. ASSUME s \in Sids PROVE [row[s] EXCEPT !.state = how] \in SessionRows
  BY <1>1, <1>2
<1>3. row' = [row EXCEPT ![s] = [row[s] EXCEPT !.state = how]]
  OBVIOUS
<1> HIDE DEF SessionRows
<1>4. row' \in [Sids -> SessionRows]
  BY <1>1, <1>2, <1>3
<1> QED BY <1>4 DEF SessionRows

\* What the service may do with a token presented to it.
LEMMA ServeOutcomes ==
  ASSUME IInv, ServeRefresh
  PROVE  \/ UNCHANGED server /\ rot' \in {[rot EXCEPT !.ans = a] : a \in {"refused", "vacated"}}
         \/ UNCHANGED server /\ rot' = [rot EXCEPT !.ans = "pair"] /\ rot.tok \in replaced
         \/ /\ rot' = [rot EXCEPT !.ans = "vacated"] /\ Standing(rot.tok.sid)
            /\ \E gen \in Nat : Replay(rot.tok, gen) /\ KillSession(rot.tok, gen)
         \/ /\ rot' = [rot EXCEPT !.ans = "pair"] /\ Rotate(rot.tok) /\ rot.tok.gen < MaxGen
            /\ ~Replay(rot.tok, row[rot.tok.sid].gen) /\ Standing(rot.tok.sid)
<1> DEFINE t == rot.tok
<1>1. TypeOK /\ t \in Pair
  BY IInvSplits DEF Server, TypeOK, ServeRefresh
<1>2. t.sid \in Sids /\ row[t.sid].gen \in Nat
  BY <1>1, BoundsAssumption DEF TypeOK, Pair
<1>3. Held(t.sid) \subseteq Nat
  BY <1>2 DEF Held
<1>4. ASSUME NEW gen \in Nat, KillSession(t, gen), ~Standing(t.sid) PROVE UNCHANGED server
  BY <1>4 DEF KillSession
<1> QED BY <1>2, <1>3, <1>4 DEF ServeRefresh

LEMMA ServeStep == ASSUME IInv, ServeRefresh PROVE IInv'
<1>1. TypeOK /\ Server /\ Queue /\ Lands(memory, keychain, ops, unsaved)
  BY IInvSplits
<1>2. Queue' /\ Lands(memory', keychain', ops', unsaved')
  BY <1>1, SameQueue DEF ServeRefresh
<1> DEFINE t == rot.tok
<1>3. t \in Pair /\ rot.pc = "calling" /\ t # None
  BY <1>1 DEF TypeOK, Server, ServeRefresh
<1>4. \E a \in {"refused", "vacated", "pair"} : rot' = [rot EXCEPT !.ans = a]
  BY DEF ServeRefresh
<1>5. rot'.pc = "calling" /\ rot'.tok = t /\ rot' \in [pc : {"calling"}, tok : {t}, ans : Answers]
  BY <1>1, <1>3, <1>4 DEF TypeOK, Answers
<1>0. \A a \in Answers : rot' = [rot EXCEPT !.ans = a] => rot'.ans = a
  BY <1>1 DEF TypeOK
<1>6. CASE UNCHANGED server /\ (rot'.ans = "pair" => t \in replaced)
  <2>1. Server'
    BY <1>1, <1>3, <1>5, <1>6 DEF Server, server
  <2>2. TypeOK'
    BY <1>1, <1>2, <1>3, <1>5, <1>6 DEF ServeRefresh, TypeOK, Answers, server
  <2> QED BY <1>2, <2>1, <2>2, IInvJoins
<1>7. CASE /\ rot' = [rot EXCEPT !.ans = "vacated"] /\ Standing(t.sid)
           /\ \E gen \in Nat : KillSession(t, gen)
  <2>0. /\ row' = [row EXCEPT ![t.sid].state = "stolen"] /\ UNCHANGED replaced
        /\ misled' \in {misled, misled \cup {t.sid}}
    BY <1>7 DEF KillSession
  <2>1. rot'.ans = "vacated"
    BY <1>0, <1>7 DEF Answers
  <2>2. Server'
    BY <1>1, <1>3, <1>5, <2>0, <2>1 DEF Server
  <2>3. row' \in [Sids -> [gen : 0..MaxGen, state : {"none", "live", "gone", "stolen", "revoked"}]]
    BY <1>1, <2>0, RowMarked
  <2>4. misled' \subseteq Sids
    BY <1>1, <1>3, <2>0 DEF TypeOK, Pair
  <2>5. TypeOK'
    BY <1>1, <1>2, <1>3, <1>5, <2>0, <2>3, <2>4 DEF ServeRefresh, TypeOK, Answers
  <2> QED BY <1>2, <2>2, <2>5, IInvJoins
<1>8. CASE t.gen < MaxGen /\ Rotate(t) /\ t.gen = row[t.sid].gen
  <2>0. /\ row' = [row EXCEPT ![t.sid].gen = @ + 1]
        /\ replaced' = replaced \cup {t} /\ UNCHANGED misled
    BY <1>8 DEF Rotate
  <2>1. Server'
    BY <1>1, <1>3, <1>5, <1>8, <2>0 DEF Server
  <2>2. t.sid \in Sids /\ row[t.sid].gen + 1 \in 0..MaxGen
    BY <1>1, <1>3, <1>8, BoundsAssumption DEF TypeOK, Pair
  <2>3. row' \in [Sids -> [gen : 0..MaxGen, state : {"none", "live", "gone", "stolen", "revoked"}]]
    BY <1>1, <2>0, <2>2 DEF TypeOK
  <2>4. replaced' \subseteq Pair
    BY <1>1, <1>3, <2>0 DEF TypeOK
  <2>5. TypeOK'
    BY <1>1, <1>2, <1>3, <1>5, <2>0, <2>3, <2>4 DEF ServeRefresh, TypeOK, Answers
  <2> QED BY <1>2, <2>1, <2>5, IInvJoins
<1>9. \/ UNCHANGED server /\ (rot'.ans = "pair" => t \in replaced)
      \/ /\ rot' = [rot EXCEPT !.ans = "vacated"] /\ Standing(t.sid)
         /\ \E gen \in Nat : KillSession(t, gen)
      \/ t.gen < MaxGen /\ Rotate(t) /\ t.gen = row[t.sid].gen
  BY <1>0, ServeOutcomes DEF Answers, Replay
<1> QED BY <1>6, <1>7, <1>8, <1>9

LEMMA LostStep == ASSUME IInv, RefreshLost PROVE IInv'
<1>1. TypeOK /\ Server /\ Queue /\ Lands(memory, keychain, ops, unsaved)
  BY IInvSplits
<1>2. Queue' /\ Lands(memory', keychain', ops', unsaved')
  BY <1>1, SameQueue DEF RefreshLost
<1>3. rot.tok \in Pair
  BY <1>1 DEF TypeOK, Server, RefreshLost
<1>4. rot \in [pc : {"idle", "reading", "calling", "storing", "clearing"},
               tok : Pair \cup {None}, ans : Answers]
      /\ rot' = [rot EXCEPT !.ans = "network"] /\ "network" \in Answers
  BY <1>1 DEF RefreshLost, TypeOK, Answers
<1>5. lost' \subseteq Sids
  BY <1>1, <1>3 DEF RefreshLost, TypeOK, Pair
<1>6. TypeOK'
  BY <1>1, <1>4, <1>5 DEF RefreshLost, TypeOK, server
<1>7. Server'
  BY <1>1, <1>4 DEF RefreshLost, Server, server
<1> QED BY <1>2, <1>6, <1>7, IInvJoins

(* An answer that leaves the rotation with a write to finish.              *)
LEMMA Rotated ==
  ASSUME IInv, RotateAnswered, UNCHANGED <<request, boot, status>>,
         NEW step \in {"storing", "clearing"}, rot' = [rot EXCEPT !.pc = step],
         memory' \in Pair \cup {None}, due' \in BOOLEAN,
         Queue', Lands(memory', keychain', ops', unsaved')
  PROVE  IInv'
<1>1. TypeOK /\ Server
  BY IInvSplits
<1>2. rot' \in [pc : {"idle", "reading", "calling", "storing", "clearing"},
                tok : Pair \cup {None}, ans : Answers]
      /\ rot'.pc # "calling" /\ rot'.tok # None
  BY <1>1 DEF TypeOK, Server, RotateAnswered
<1>3. UNCHANGED <<status, keychain, request, boot, login, logout, row, replaced, misled, lost,
                  unsaved, kills>>
  BY DEF RotateAnswered, server
<1>4. TypeOK'
  BY <1>1, <1>2, <1>3 DEF TypeOK, Queue, OpSet
<1>5. Server'
  BY <1>1, <1>2, <1>3 DEF Server
<1> QED BY <1>4, <1>5, IInvJoins

LEMMA AnswerStep == ASSUME IInv, RotateAnswered PROVE IInv'
<1>1. TypeOK /\ Server /\ Queue /\ Lands(memory, keychain, ops, unsaved)
  BY IInvSplits
<1>2. CASE rot.ans = "pair"
  <2>1. rot.tok \in Pair /\ rot.tok.gen < MaxGen
    BY <1>1, <1>2 DEF TypeOK, Server, RotateAnswered
  <2>2. Successor(rot.tok) \in Pair
    BY <2>1, BoundsAssumption DEF Successor, Pair
  <2>3. SetTokens("rot", Successor(rot.tok)) /\ rot' = [rot EXCEPT !.pc = "storing"]
        /\ UNCHANGED <<request, boot, status>>
    BY <1>2 DEF RotateAnswered
  <2>4. Queue' /\ Lands(memory', keychain', ops', unsaved')
    BY <1>1, <2>2, <2>3, WriteQueued DEF SetTokens, Flows
  <2>5. memory' \in Pair \cup {None} /\ due' \in BOOLEAN
    BY <2>2, <2>3 DEF SetTokens
  <2> QED BY <2>3, <2>4, <2>5, Rotated
<1>3. CASE rot.ans = "refused"
  <2>1. ClearTokens("rot") /\ rot' = [rot EXCEPT !.pc = "clearing"]
        /\ UNCHANGED <<request, boot, status>>
    BY <1>3 DEF RotateAnswered
  <2>2. Queue' /\ Lands(memory', keychain', ops', unsaved')
    BY <1>1, <2>1, WriteQueued DEF ClearTokens, Flows
  <2>3. memory' \in Pair \cup {None} /\ due' \in BOOLEAN
    BY <2>1 DEF ClearTokens
  <2> QED BY <2>1, <2>2, <2>3, Rotated
<1>4. CASE rot.ans \in {"vacated", "network"}
  <2>1. rot' = NoRotation /\ ReleaseRequests(None) /\ BootSettles(rot.ans, status)
        /\ UNCHANGED <<memory, due, ops, keychain, unsaved>>
    BY <1>4 DEF RotateAnswered
  <2>2. Queue' /\ Lands(memory', keychain', ops', unsaved')
    BY <1>1, <2>1, SameQueue
  <2>3. TypeOK' /\ Server'
    <3>1. status \in {"loading", "signedIn", "signedOut"}
      BY <1>1 DEF TypeOK
    <3> QED BY <1>1, <2>1, <3>1, ReleaseTypes, BootTypes
            DEF RotateAnswered, TypeOK, Server, server, NoRotation, Answers
  <2> QED BY <2>2, <2>3, IInvJoins
<1> QED BY <1>2, <1>3, <1>4 DEF RotateAnswered

LEMMA JoinRotation ==
  ASSUME TypeOK, Server, Queue, Lands(memory, keychain, ops, unsaved), EnsureRotation,
         UNCHANGED <<memory, keychain, unsaved, replaced>>
  PROVE  /\ Queue' /\ Lands(memory', keychain', ops', unsaved') /\ Server'
         /\ rot' \in [pc : {"idle", "reading", "calling", "storing", "clearing"},
                     tok : Pair \cup {None}, ans : Answers]
<1>1. CASE rot.pc = "idle"
  <2>1. rot' = [NoRotation EXCEPT !.pc = "reading"] /\ ops' = Append(ops, Op("rot", "get", None))
    BY <1>1 DEF EnsureRotation
  <2>2. Queue' /\ Lands(memory', keychain', ops', unsaved')
    BY <2>1, ReadQueued
  <2> QED BY <2>1, <2>2 DEF Server, NoRotation, Answers
<1>2. CASE rot.pc # "idle"
  BY <1>2, SameQueue DEF EnsureRotation, TypeOK, Server
<1> QED BY <1>1, <1>2

LEMMA RequestStep == ASSUME IInv, NEW r \in Requests, Step(r) PROVE IInv'
<1>1. TypeOK /\ Server /\ Queue /\ Lands(memory, keychain, ops, unsaved)
  BY IInvSplits
<1>2. CASE StartRequest(r) /\ Fresh
  <2>1. Queue' /\ Lands(memory', keychain', ops', unsaved')
    BY <1>1, <1>2, SameQueue DEF StartRequest
  <2>2. /\ request' = [request EXCEPT ![r] = [pc |-> "sent", tok |-> memory]]
        /\ UNCHANGED <<rot, ops, status, memory, due, keychain, boot, login, logout, row,
                       replaced, misled, lost, unsaved, kills>>
    BY <1>2 DEF StartRequest, server
  <2>3. request' \in [Requests -> [pc : {"idle", "token", "sent", "repair", "resent"},
                                   tok : Pair \cup {None}]]
    BY <1>1, <2>2 DEF TypeOK
  <2>4. TypeOK' /\ Server'
    BY <1>1, <2>2, <2>3 DEF TypeOK, Server
  <2> QED BY <2>1, <2>4, IInvJoins
<1>3. CASE StartRequest(r) /\ ~Fresh
  <2>1. EnsureRotation /\ UNCHANGED <<memory, keychain, unsaved, replaced>>
        /\ request' = [request EXCEPT ![r] = [pc |-> "token", tok |-> None]]
    BY <1>3 DEF StartRequest, server
  <2>2. TypeOK'
    BY <1>1, <1>3, <2>1, JoinRotation DEF StartRequest, TypeOK, server, Queue, OpSet
  <2> QED BY <1>1, <2>1, <2>2, JoinRotation, IInvJoins
<1>4. CASE RequestRefused(r)
  <2>1. EnsureRotation /\ UNCHANGED <<memory, keychain, unsaved, replaced>>
        /\ request' = [request EXCEPT ![r] = [pc |-> "repair", tok |-> None]]
    BY <1>4 DEF RequestRefused, server
  <2>2. TypeOK'
    BY <1>1, <1>4, <2>1, JoinRotation DEF RequestRefused, TypeOK, server, Queue, OpSet
  <2> QED BY <1>1, <2>1, <2>2, JoinRotation, IInvJoins
<1>5. CASE RequestSettles(r)
  <2>1. Queue' /\ Lands(memory', keychain', ops', unsaved')
    BY <1>1, <1>5, SameQueue DEF RequestSettles
  <2>2. TypeOK' /\ Server'
    BY <1>1, <1>5 DEF RequestSettles, TypeOK, Server, server, NoRequest
  <2> QED BY <2>1, <2>2, IInvJoins
<1> QED BY <1>2, <1>3, <1>4, <1>5 DEF Step

LEMMA ForegroundStep == ASSUME IInv, Foreground PROVE IInv'
<1>1. TypeOK /\ Server /\ Queue /\ Lands(memory, keychain, ops, unsaved)
  BY IInvSplits
<1>2. EnsureRotation /\ UNCHANGED <<memory, keychain, unsaved, replaced>>
  BY DEF Foreground, server
<1>3. TypeOK'
  BY <1>1, <1>2, JoinRotation DEF Foreground, TypeOK, server, Queue, OpSet
<1> QED BY <1>1, <1>2, <1>3, JoinRotation, IInvJoins

LEMMA LoginStep ==
  ASSUME IInv, NEW s \in Sids,
         SubmitLogin(s) \/ SubmitRegister(s) \/ LoginAnswered(s) \/ LoginFails(s)
  PROVE  IInv'
<1>1. TypeOK /\ Server /\ Queue /\ Lands(memory, keychain, ops, unsaved)
  BY IInvSplits
<1>2. CASE SubmitLogin(s) \/ SubmitRegister(s)
  <2>1. Queue' /\ Lands(memory', keychain', ops', unsaved')
    BY <1>1, <1>2, SameQueue DEF SubmitLogin, SubmitRegister, Begin
  <2>2. TypeOK' /\ Server'
    BY <1>1, <1>2 DEF SubmitLogin, SubmitRegister, Begin, TypeOK, Server, server
  <2> QED BY <2>1, <2>2, IInvJoins
<1>3. CASE LoginFails(s)
  <2>1. Queue' /\ Lands(memory', keychain', ops', unsaved')
    BY <1>1, <1>3, SameQueue DEF LoginFails
  <2>2. TypeOK' /\ Server'
    BY <1>1, <1>3 DEF LoginFails, TypeOK, Server, server
  <2> QED BY <2>1, <2>2, IInvJoins
<1>4. CASE LoginAnswered(s)
  <2> DEFINE pair == [sid |-> s, gen |-> 1]
  <2>0. pair \in [sid : Nat, gen : Nat]
    BY BoundsAssumption DEF Sids
  <2>1. pair # None /\ pair \in Pair
    <3>1. 1 \in 1..MaxGen
      BY BoundsAssumption
    <3>2. pair \in Pair
      BY <3>1 DEF Pair
    <3>3. pair # None
      BY <2>0, NoneAssumption
    <3> QED BY <3>2, <3>3
  <2>2. SetTokens("login", pair)
    BY <1>4 DEF LoginAnswered
  <2> HIDE DEF pair
  <2>3. Queue' /\ Lands(memory', keychain', ops', unsaved')
    BY <1>1, <2>1, <2>2, WriteQueued DEF SetTokens, Flows
  <2>4. row' \in [Sids -> [gen : 0..MaxGen, state : {"none", "live", "gone", "stolen", "revoked"}]]
    BY <1>1, <1>4, BoundsAssumption DEF LoginAnswered, TypeOK
  <2>5. login' \in [Sids -> {"unused", "calling", "storing", "done"}]
    BY <1>1, <1>4 DEF LoginAnswered, TypeOK
  <2>6. memory' = pair /\ due' = FALSE
         /\ UNCHANGED <<status, keychain, rot, request, boot, logout, replaced, misled, lost,
                        unsaved, kills>>
    BY <1>4, <2>2 DEF LoginAnswered, SetTokens
  <2>7. TypeOK'
    <3>1. ops' \in Seq([by : Flows, kind : {"get", "set"}, val : Pair \cup {None}])
      BY <2>3 DEF Queue, OpSet
    <3>2. memory' \in Pair \cup {None} /\ due' \in BOOLEAN
      BY <2>1, <2>6
    <3>3. /\ status' \in {"loading", "signedIn", "signedOut"} /\ keychain' \in Pair \cup {None}
          /\ rot' \in [pc : {"idle", "reading", "calling", "storing", "clearing"},
                       tok : Pair \cup {None}, ans : Answers]
          /\ request' \in [Requests -> [pc : {"idle", "token", "sent", "repair", "resent"},
                                        tok : Pair \cup {None}]]
          /\ boot' \in {"reading", "awaiting", "done"}
          /\ logout' \in [pc : {"idle", "reading", "calling", "clearing"}, tok : Pair \cup {None}]
          /\ replaced' \subseteq Pair /\ lost' \subseteq Sids /\ kills' \in 0..MaxKills
          /\ misled' \subseteq Sids /\ unsaved' \in Pair \cup {None}
      BY <1>1, <2>6 DEF TypeOK
    <3> QED BY <2>4, <2>5, <3>1, <3>2, <3>3 DEF TypeOK
  <2>8. Server'
    BY <1>1, <2>6 DEF Server
  <2> QED BY <2>3, <2>7, <2>8, IInvJoins
<1> QED BY <1>2, <1>3, <1>4

LEMMA LogoutStep ==
  ASSUME IInv, StartLogout \/ \E reached \in BOOLEAN : LogoutCalled(reached)
  PROVE  IInv'
<1>1. TypeOK /\ Server /\ Queue /\ Lands(memory, keychain, ops, unsaved)
  BY IInvSplits
<1>2. CASE StartLogout
  <2>1. Queue' /\ Lands(memory', keychain', ops', unsaved')
    BY <1>1, <1>2, ReadQueued DEF StartLogout
  <2>2. TypeOK' /\ Server'
    BY <1>1, <1>2, <2>1 DEF StartLogout, TypeOK, Server, server, Queue, OpSet, NoLogout
  <2> QED BY <2>1, <2>2, IInvJoins
<1>3. ASSUME NEW reached \in BOOLEAN, LogoutCalled(reached) PROVE IInv'
  <2>1. ClearTokens("logout") /\ logout' = [logout EXCEPT !.pc = "clearing"]
    BY <1>3 DEF LogoutCalled
  <2>2. Queue' /\ Lands(memory', keychain', ops', unsaved')
    BY <1>1, <2>1, WriteQueued DEF ClearTokens, Flows
  <2>3. /\ row' \in [Sids -> [gen : 0..MaxGen, state : {"none", "live", "gone", "stolen", "revoked"}]]
        /\ replaced' \subseteq replaced /\ misled' = misled
    <3>1. CASE UNCHANGED server
      BY <1>1, <3>1 DEF TypeOK, server
    <3>2. CASE /\ row' = [row EXCEPT ![logout.tok.sid].state = "gone"]
               /\ replaced' \in {replaced, replaced \ {logout.tok}} /\ UNCHANGED misled
      BY <1>1, <3>2, RowMarked
    <3> QED BY <1>3, <3>1, <3>2 DEF LogoutCalled
  <2>4. TypeOK' /\ Server'
    BY <1>1, <1>3, <2>1, <2>2, <2>3
       DEF LogoutCalled, ClearTokens, TypeOK, Server, Queue, OpSet
  <2> QED BY <2>2, <2>4, IInvJoins
<1> QED BY <1>2, <1>3

LEMMA EnvironmentStep ==
  ASSUME IInv,
         \/ AccessTokenAges \/ \E p \in Pair : ReplacedExpires(p)
         \/ \E s \in Sids, how \in {"gone", "revoked"} : SessionEnds(s, how)
  PROVE  IInv'
<1>1. TypeOK /\ Server /\ Queue /\ Lands(memory, keychain, ops, unsaved)
  BY IInvSplits
<1>2. Queue' /\ Lands(memory', keychain', ops', unsaved')
  BY <1>1, SameQueue DEF AccessTokenAges, ReplacedExpires, SessionEnds
<1>3. TypeOK' /\ Server'
  <2>1. CASE AccessTokenAges
    BY <1>1, <2>1 DEF AccessTokenAges, TypeOK, Server, server
  <2>2. CASE \E p \in Pair : ReplacedExpires(p)
    BY <1>1, <2>2 DEF ReplacedExpires, TypeOK, Server
  <2>3. CASE \E s \in Sids, how \in {"gone", "revoked"} : SessionEnds(s, how)
    <3>1. PICK s \in Sids, how \in {"gone", "revoked"} : SessionEnds(s, how)
      BY <2>3
    <3>2. row' = [row EXCEPT ![s].state = how]
          /\ UNCHANGED <<status, memory, due, keychain, ops, rot, request, boot, login, logout,
                         replaced, misled, lost, unsaved, kills>>
      BY <3>1 DEF SessionEnds
    <3>3. row' \in [Sids -> [gen : 0..MaxGen, state : {"none", "live", "gone", "stolen", "revoked"}]]
      BY <1>1, <3>2, RowMarked
    <3>4. TypeOK'
      BY <1>1, <3>2, <3>3 DEF TypeOK
    <3> QED BY <1>1, <3>2, <3>4 DEF Server
  <2> QED BY <2>1, <2>2, <2>3
<1> QED BY <1>2, <1>3, IInvJoins

LEMMA KillStep == ASSUME IInv, Kill PROVE IInv'
<1>1. TypeOK /\ Server /\ Queue /\ Lands(memory, keychain, ops, unsaved)
  BY IInvSplits
<1>2. Op("boot", "get", None) \in OpSet /\ Op("boot", "get", None).by = "boot"
      /\ Op("boot", "get", None).kind = "get"
  BY OpTypes DEF Flows
<1>3. Queue'
  BY <1>2 DEF Kill, Queue, QueueShape
<1>4. Lands(memory', keychain', ops', unsaved')
  BY DEF Kill, Lands
<1>5. Server'
  BY <1>1 DEF Kill, Server, server, NoRotation
<1>6. /\ rot' \in [pc : {"idle", "reading", "calling", "storing", "clearing"},
                  tok : Pair \cup {None}, ans : Answers]
      /\ request' \in [Requests -> [pc : {"idle", "token", "sent", "repair", "resent"},
                                    tok : Pair \cup {None}]]
      /\ logout' \in [pc : {"idle", "reading", "calling", "clearing"}, tok : Pair \cup {None}]
      /\ login' \in [Sids -> {"unused", "calling", "storing", "done"}]
      /\ kills' \in 0..MaxKills
  BY <1>1, BoundsAssumption DEF Kill, TypeOK, NoRotation, NoRequest, NoLogout, Answers
<1>7. TypeOK'
  BY <1>1, <1>3, <1>6 DEF Kill, TypeOK, Queue, OpSet, server
<1> QED BY <1>3, <1>4, <1>5, <1>7, IInvJoins

LEMMA NextIInv == IInv /\ [Next]_vars => IInv'
<1> SUFFICES ASSUME IInv, [Next]_vars PROVE IInv'
  OBVIOUS
<1>1. CASE UNCHANGED vars
  BY <1>1 DEF IInv, TypeOK, Shape, MemoryIsWhatLands, LastWrite, vars, server
<1>2. CASE Next
  BY <1>2, KeychainStep, BootStep, RejectStep, ServeStep, LostStep, AnswerStep, RequestStep,
     ForegroundStep, LoginStep, LogoutStep, EnvironmentStep, KillStep DEF Next
<1> QED BY <1>1, <1>2

\* The variables of the token manager, the keychain and the auth service keep
\* their types, however many sign-ins, rotations and kills there are.
THEOREM TypeCorrect == Spec => []TypeOK
<1>1. Spec => []IInv
  BY InitIInv, NextIInv, PTL DEF Spec
<1>2. IInv => TypeOK
  BY DEF IInv
<1> QED BY <1>1, <1>2, PTL

\* setTokens and clearTokens never leave the access token of one pair beside
\* the refresh token of another, whatever sign-ins, rotations, sign-outs and
\* kills overlap, except when the keychain rejected the write of that very pair.
THEOREM PairsNeverMix == Spec => []MemoryIsWhatLands
<1>1. Spec => []IInv
  BY InitIInv, NextIInv, PTL DEF Spec
<1>2. IInv => MemoryIsWhatLands
  BY DEF IInv
<1> QED BY <1>1, <1>2, PTL

-----------------------------------------------------------------------------
(* The replay check.  At most one rotation is under way (Turns), it starts   *)
(* only after the launch has read the keychain (Launch), a sign-in's pair is *)
(* the first of its session (Born), and so the token presented is the        *)
(* current one of its session unless a rotation was lost (Current).          *)

\* The keychain operations that are waiting.
In(q) == {q[i] : i \in 1..Len(q)}

\* There is one rotation at a time, and a sign-in makes a session of its own.
Apart(a, b) == /\ ~(a.by = "rot" /\ b.by = "rot")
               /\ ~(a.by = "login" /\ b.by = "login" /\ a.val.sid = b.val.sid)
Unlike(q) == \A i, j \in 1..Len(q) : i # j => Apart(q[i], q[j])

\* The operation the rotation awaits.
RotMatches(op) ==
  \/ rot.pc = "reading" /\ op.kind = "get"
  \/ rot.pc = "storing" /\ op.kind = "set" /\ op.val = Successor(rot.tok)
  \/ rot.pc = "clearing" /\ op.kind = "set" /\ op.val = None

Holding == rot.pc \in {"calling", "storing"}

Turns ==
  /\ Unlike(ops)
  /\ \A o \in In(ops) : o.by = "rot" => RotMatches(o)
  /\ \A o \in In(ops) : o.by = "logout" /\ o.kind = "set" => o.val = None
  /\ rot.pc = "storing" => rot.tok # None /\ rot.ans = "pair"

Launch ==
  boot = "reading" =>
    /\ status = "loading" /\ rot.pc = "idle" /\ logout.pc = "idle"
    /\ \A r \in Requests : request[r].pc = "idle"
    /\ \A s \in Sids : login[s] # "calling"
    /\ \A o \in In(ops) : o.by = "boot"

Born ==
  /\ \A s \in Sids : login[s] \in {"unused", "calling"} => row[s].gen = 0
  /\ keychain # None => row[keychain.sid].gen > 0
  /\ Holding => row[rot.tok.sid].gen > 0
  /\ \A o \in In(ops) : o.by = "login" =>
       /\ o.kind = "set" /\ o.val.gen = 1 /\ row[o.val.sid].gen = 1
       /\ keychain # None => keychain.sid # o.val.sid
       /\ Holding => rot.tok.sid # o.val.sid

Intact(s) == Standing(s) /\ s \notin lost

Current ==
  /\ keychain # None /\ Intact(keychain.sid) =>
       \/ keychain.gen = row[keychain.sid].gen
       \/ Holding /\ rot.ans = "pair" /\ rot.tok = keychain
  /\ rot.pc = "calling" /\ rot.ans = "none" /\ Intact(rot.tok.sid) =>
       rot.tok.gen = row[rot.tok.sid].gen
  /\ Holding /\ rot.ans = "pair" /\ Intact(rot.tok.sid) =>
       row[rot.tok.sid].gen = rot.tok.gen + 1
  /\ \A p \in replaced : p.gen < row[p.sid].gen

RInv == /\ IInv /\ Turns /\ Launch /\ Born /\ Current
        /\ KilledOnlyAfterLoss

-----------------------------------------------------------------------------
\* The queue

LEMMA QueueAppend ==
  ASSUME NEW q \in Seq(OpSet), NEW op \in OpSet, Unlike(q), \A o \in In(q) : Apart(o, op)
  PROVE  Unlike(Append(q, op)) /\ In(Append(q, op)) = In(q) \cup {op}
<1> DEFINE a == Append(q, op)
<1>1. /\ Len(q) \in Nat /\ Len(a) = Len(q) + 1 /\ a[Len(q) + 1] = op
      /\ \A j \in 1..Len(q) : a[j] = q[j]
  OBVIOUS
<1> HIDE DEF a
<1>2. \A j \in 1..Len(a) : j \in 1..Len(q) \/ j = Len(q) + 1
  BY <1>1
<1>3. In(a) = In(q) \cup {op}
  <2>1. \A x : x \in In(a) => x \in In(q) \cup {op}
    BY <1>1, <1>2 DEF In
  <2>2. \A j \in 1..Len(q) : j \in 1..Len(a)
    BY <1>1
  <2>3. Len(q) + 1 \in 1..Len(a)
    BY <1>1
  <2>4. \A x : x \in In(q) \cup {op} => x \in In(a)
    BY <1>1, <2>2, <2>3 DEF In
  <2> QED BY <2>1, <2>4
<1>4. \A j \in 1..Len(q) : Apart(q[j], op) /\ Apart(op, q[j])
  BY DEF In, Apart
<1>5. Unlike(a)
  BY <1>1, <1>2, <1>4 DEF Unlike
<1> QED BY <1>3, <1>5 DEF a

LEMMA QueueTail ==
  ASSUME NEW q \in Seq(OpSet), q # <<>>, Unlike(q)
  PROVE  /\ Unlike(Tail(q)) /\ Head(q) \in In(q) /\ In(Tail(q)) \subseteq In(q)
         /\ \A o \in In(Tail(q)) : Apart(Head(q), o)
<1>1. /\ Len(q) \in Nat /\ Len(q) > 0 /\ Len(Tail(q)) = Len(q) - 1 /\ Head(q) = q[1]
      /\ \A j \in 1..Len(Tail(q)) : Tail(q)[j] = q[j + 1]
  OBVIOUS
<1>2. \A j \in 1..Len(Tail(q)) : j + 1 \in 1..Len(q) /\ j + 1 # 1
  BY <1>1
<1>3. 1 \in 1..Len(q)
  BY <1>1
<1>4. Head(q) \in In(q) /\ In(Tail(q)) \subseteq In(q)
  BY <1>1, <1>2, <1>3 DEF In
<1>5. \A o \in In(Tail(q)) : Apart(Head(q), o)
  BY <1>1, <1>2, <1>3 DEF In, Unlike
<1>6. Unlike(Tail(q))
  BY <1>1, <1>2 DEF Unlike
<1> QED BY <1>4, <1>5, <1>6

LEMMA InTypes == ASSUME NEW q \in Seq(OpSet) PROVE In(q) \subseteq OpSet
  BY DEF In

\* What the steps need of IInv.
LEMMA Types ==
  ASSUME IInv
  PROVE  /\ TypeOK /\ ops \in Seq(OpSet) /\ In(ops) \subseteq OpSet
         /\ \A o \in In(ops) : o.by = "login" => o.val \in Pair
         /\ rot.pc = "calling" => rot.tok \in Pair
<1>1. TypeOK /\ Server /\ Queue
  BY IInvSplits
<1>2. ops \in Seq(OpSet) /\ In(ops) \subseteq OpSet
  BY <1>1, InTypes DEF Queue
<1>3. \A o \in In(ops) : o.by = "login" => o.val # None
  BY <1>1 DEF Queue, QueueShape, In
<1>4. \A o \in In(ops) : o.val \in Pair \cup {None}
  BY <1>2 DEF OpSet
<1>5. rot.pc = "calling" => rot.tok \in Pair
  BY <1>1 DEF TypeOK, Server
<1> QED BY <1>1, <1>2, <1>3, <1>4, <1>5

-----------------------------------------------------------------------------
\* A step that presents no new token, rotates nothing and stores nothing.
Quiet ==
  /\ keychain' = keychain /\ lost \subseteq lost' /\ replaced' \subseteq replaced
  /\ misled \subseteq misled'
  /\ \A s \in Sids : /\ row'[s].gen = row[s].gen
                     /\ Standing(s)' => Standing(s)
                     /\ row'[s].state = "stolen" =>
                          row[s].state = "stolen" \/ s \in lost' \cup misled'
  /\ \A s \in Sids : login'[s] \in {"unused", "calling"} => login[s] \in {"unused", "calling"}
  /\ \A o \in In(ops') : o.by = "login" => o \in In(ops)
  /\ Holding' => /\ Holding /\ rot'.tok = rot.tok
                 /\ rot'.ans \in {"none", "pair"} => rot'.ans = rot.ans
                 /\ rot'.pc = "calling" => rot.pc = "calling"
  /\ Holding /\ rot.ans = "pair" => \/ Holding' /\ rot'.ans = "pair"
                                    \/ rot.tok.sid \in lost'

LEMMA QuietKeeps ==
  ASSUME RInv, Quiet PROVE Born' /\ Current' /\ KilledOnlyAfterLoss'
<1>1. /\ TypeOK /\ \A o \in In(ops) : o.by = "login" => o.val \in Pair
      /\ Holding => rot.tok \in Pair
  BY Types DEF RInv, Holding, Turns, TypeOK
<1>2. keychain # None => keychain.sid \in Sids
  BY <1>1 DEF TypeOK, Pair
<1>3. Holding => rot.tok.sid \in Sids
  BY <1>1 DEF Pair
<1>4. \A o \in In(ops) : o.by = "login" => o.val.sid \in Sids
  BY <1>1 DEF Pair
<1>5. \A p \in replaced : p.sid \in Sids
  BY <1>1 DEF TypeOK, Pair
<1>6. \A s \in Sids : Intact(s)' => Intact(s)
  BY DEF Intact, Quiet
<1>7. Born'
  <2>1. \A s \in Sids : login'[s] \in {"unused", "calling"} => row'[s].gen = 0
    BY DEF RInv, Born, Quiet
  <2>2. keychain' # None => row'[keychain'.sid].gen > 0
    BY <1>2 DEF RInv, Born, Quiet
  <2>3. Holding' => row'[rot'.tok.sid].gen > 0
    BY <1>3 DEF RInv, Born, Quiet
  <2>4. ASSUME NEW o \in In(ops'), o.by = "login"
        PROVE  /\ o.kind = "set" /\ o.val.gen = 1 /\ row'[o.val.sid].gen = 1
               /\ keychain' # None => keychain'.sid # o.val.sid
               /\ Holding' => rot'.tok.sid # o.val.sid
    BY <1>4, <2>4 DEF RInv, Born, Quiet
  <2> QED BY <2>1, <2>2, <2>3, <2>4 DEF Born
<1>8. Current'
  <2>1. keychain' # None /\ Intact(keychain.sid)' =>
          \/ keychain'.gen = row'[keychain'.sid].gen
          \/ Holding' /\ rot'.ans = "pair" /\ rot'.tok = keychain'
    <3> SUFFICES ASSUME keychain' # None, Intact(keychain.sid)'
                 PROVE  \/ keychain'.gen = row'[keychain'.sid].gen
                        \/ Holding' /\ rot'.ans = "pair" /\ rot'.tok = keychain'
      OBVIOUS
    <3>1. keychain # None /\ keychain' = keychain /\ keychain.sid \notin lost'
      BY DEF Quiet, Standing, Intact
    <3>2. Intact(keychain.sid)
      BY <1>2, <1>6, <3>1
    <3>3. CASE keychain.gen = row[keychain.sid].gen
      BY <1>2, <3>1, <3>3 DEF Quiet
    <3>4. CASE Holding /\ rot.ans = "pair" /\ rot.tok = keychain
      BY <3>1, <3>4 DEF Quiet
    <3> QED BY <3>1, <3>2, <3>3, <3>4 DEF RInv, Current
  <2>2. rot'.pc = "calling" /\ rot'.ans = "none" /\ Intact(rot.tok.sid)' =>
          rot'.tok.gen = row'[rot'.tok.sid].gen
    BY <1>3, <1>6 DEF RInv, Current, Quiet, Holding
  <2>3. Holding' /\ rot'.ans = "pair" /\ Intact(rot.tok.sid)' =>
          row'[rot'.tok.sid].gen = rot'.tok.gen + 1
    BY <1>3, <1>6 DEF RInv, Current, Quiet
  <2>4. \A p \in replaced' : p.gen < row'[p.sid].gen
    BY <1>5 DEF RInv, Current, Quiet
  <2> QED BY <2>1, <2>2, <2>3, <2>4 DEF Current, Intact, Quiet
<1>9. KilledOnlyAfterLoss'
  BY DEF RInv, KilledOnlyAfterLoss, Quiet
<1> QED BY <1>7, <1>8, <1>9

-----------------------------------------------------------------------------
\* The queue of a step: Turns', and which sign-ins wait.

\* Nothing of the rotation and the queue changes.
LEMMA SameTurns ==
  ASSUME Turns, UNCHANGED <<ops, rot>>
  PROVE  Turns' /\ \A o \in In(ops') : o.by = "login" => o \in In(ops)
  BY DEF Turns, Unlike, In, Apart, RotMatches

\* The rotation moves on and nothing of it waits in the queue.
LEMMA TurnsWithout ==
  ASSUME Turns, ops' = ops, \A o \in In(ops) : o.by # "rot",
         rot'.pc # "storing"
  PROVE  Turns' /\ \A o \in In(ops') : o.by = "login" => o \in In(ops)
<1>1. Unlike(ops') /\ In(ops') = In(ops)
  BY DEF Turns
<1> QED BY <1>1 DEF Turns

\* A sign-out calls the keychain.
LEMMA TurnsLogout ==
  ASSUME IInv, Turns, NEW kind \in {"get", "set"},
         ops' = Append(ops, Op("logout", kind, None)), rot' = rot
  PROVE  Turns' /\ \A o \in In(ops') : o.by = "login" => o \in In(ops)
<1> DEFINE op == Op("logout", kind, None)
<1>1. op \in OpSet /\ op.by = "logout" /\ op.val = None
  BY OpTypes DEF Flows
<1> HIDE DEF op
<1>2. \A o \in In(ops) : Apart(o, op)
  BY <1>1 DEF Apart
<1>3. Unlike(ops') /\ In(ops') = In(ops) \cup {op}
  BY <1>1, <1>2, Types, QueueAppend DEF Turns, op
<1>4. \A o \in In(ops') : o.by = "rot" => RotMatches(o)'
  BY <1>1, <1>3 DEF Turns, RotMatches
<1>5. \A o \in In(ops') : o.by = "logout" /\ o.kind = "set" => o.val = None
  BY <1>1, <1>3 DEF Turns
<1> QED BY <1>1, <1>3, <1>4, <1>5 DEF Turns

\* A rotation that has nothing in the queue calls the keychain.
LEMMA TurnsRotation ==
  ASSUME IInv, Turns, \A o \in In(ops) : o.by # "rot",
         NEW op \in OpSet, op.by = "rot", ops' = Append(ops, op), RotMatches(op)',
         rot'.pc = "storing" => rot'.tok # None /\ rot'.ans = "pair"
  PROVE  Turns' /\ \A o \in In(ops') : o.by = "login" => o \in In(ops)
<1>2. \A o \in In(ops) : Apart(o, op)
  BY DEF Apart
<1>3. Unlike(ops') /\ In(ops') = In(ops) \cup {op}
  BY <1>2, Types, QueueAppend DEF Turns
<1>4. \A o \in In(ops') : o.by = "rot" => RotMatches(o)'
  BY <1>3
<1>5. \A o \in In(ops') : o.by = "logout" /\ o.kind = "set" => o.val = None
  BY <1>3 DEF Turns
<1> QED BY <1>3, <1>4, <1>5 DEF Turns

LEMMA NothingWaits ==
  ASSUME Turns, rot.pc \in {"idle", "calling"}
  PROVE  \A o \in In(ops) : o.by # "rot"
  BY DEF Turns, RotMatches

LEMMA TurnsJoin ==
  ASSUME IInv, Turns, EnsureRotation
  PROVE  /\ Turns' /\ \A o \in In(ops') : o.by = "login" => o \in In(ops)
         /\ rot' = rot \/ (~Holding /\ ~Holding')
<1>1. CASE rot.pc = "idle"
  <2>1. rot' = [NoRotation EXCEPT !.pc = "reading"] /\ ops' = Append(ops, Op("rot", "get", None))
    BY <1>1 DEF EnsureRotation
  <2>2. /\ Op("rot", "get", None) \in OpSet /\ Op("rot", "get", None).by = "rot"
        /\ Op("rot", "get", None).kind = "get"
    BY OpTypes DEF Flows
  <2>3. rot'.pc = "reading"
    BY <2>1 DEF NoRotation
  <2>4. RotMatches(Op("rot", "get", None))'
    BY <2>2, <2>3 DEF RotMatches
  <2>5. Turns' /\ \A o \in In(ops') : o.by = "login" => o \in In(ops)
    BY <1>1, <2>1, <2>2, <2>3, <2>4, NothingWaits, TurnsRotation
  <2> QED BY <1>1, <2>3, <2>5 DEF Holding
<1>2. CASE rot.pc # "idle"
  BY <1>2, SameTurns DEF EnsureRotation
<1> QED BY <1>1, <1>2

\* The oldest operation is taken from the queue.
LEMMA TurnsServed ==
  ASSUME IInv, Turns, ops # <<>>, ops' = Tail(ops),
         Head(ops).by # "rot" => rot' = rot,
         Head(ops).by = "rot" => rot'.pc # "storing"
  PROVE  /\ Turns' /\ In(ops') \subseteq In(ops) /\ Head(ops) \in In(ops)
         /\ \A o \in In(ops') : Apart(Head(ops), o)
<1>1. /\ Unlike(ops') /\ In(ops') \subseteq In(ops) /\ Head(ops) \in In(ops)
      /\ \A o \in In(ops') : Apart(Head(ops), o)
  BY Types, QueueTail DEF Turns
<1>2. CASE Head(ops).by = "rot"
  <2>1. \A o \in In(ops') : o.by # "rot"
    BY <1>1, <1>2 DEF Apart
  <2> QED BY <1>1, <1>2, <2>1 DEF Turns
<1>3. CASE Head(ops).by # "rot"
  BY <1>1, <1>3 DEF Turns, RotMatches
<1> QED BY <1>1, <1>2, <1>3

-----------------------------------------------------------------------------
\* The steps

LEMMA QuietStep ==
  ASSUME RInv, IInv', Turns', Launch', Quiet PROVE RInv'
  BY QuietKeeps DEF RInv

LEMMA RequestReplay == ASSUME RInv, IInv', NEW r \in Requests, Step(r) PROVE RInv'
<1>1. IInv /\ Turns /\ Launch
  BY DEF RInv
<1>2. /\ Turns' /\ \A o \in In(ops') : o.by = "login" => o \in In(ops)
      /\ rot' = rot \/ (~Holding /\ ~Holding')
  BY <1>1, TurnsJoin, SameTurns DEF Step, StartRequest, RequestRefused, RequestSettles
<1>3. UNCHANGED <<status, keychain, boot, login, logout, row, replaced, misled, lost>>
  BY DEF Step, StartRequest, RequestRefused, RequestSettles, server
<1>4. Quiet
  BY <1>2, <1>3 DEF Quiet, Standing, Holding
<1>5. Launch'
  BY <1>1, <1>3 DEF Launch, Step, StartRequest, RequestRefused, RequestSettles
<1> QED BY <1>2, <1>4, <1>5, QuietStep

LEMMA ForegroundReplay == ASSUME RInv, IInv', Foreground PROVE RInv'
<1>1. IInv /\ Turns /\ Launch
  BY DEF RInv
<1>2. /\ Turns' /\ \A o \in In(ops') : o.by = "login" => o \in In(ops)
      /\ rot' = rot \/ (~Holding /\ ~Holding')
  BY <1>1, TurnsJoin DEF Foreground
<1>3. Quiet
  BY <1>2 DEF Quiet, Standing, Holding, Foreground, server
<1>4. Launch'
  BY <1>1 DEF Launch, Foreground
<1> QED BY <1>2, <1>3, <1>4, QuietStep

LEMMA SubmitReplay ==
  ASSUME RInv, IInv', NEW s \in Sids, SubmitLogin(s) \/ SubmitRegister(s) \/ LoginFails(s)
  PROVE  RInv'
<1>1. IInv /\ Turns /\ Launch /\ TypeOK
  BY Types DEF RInv
<1>2. UNCHANGED <<status, memory, keychain, ops, rot, request, boot, logout, row, replaced,
                  misled, lost>>
  BY DEF SubmitLogin, SubmitRegister, Begin, LoginFails, server
<1>3. Turns' /\ \A o \in In(ops') : o.by = "login" => o \in In(ops)
  BY <1>1, <1>2, SameTurns
<1>4. \A x \in Sids : login'[x] \in {"unused", "calling"} => login[x] \in {"unused", "calling"}
  BY <1>1 DEF SubmitLogin, SubmitRegister, Begin, LoginFails, TypeOK
<1>5. Quiet
  BY <1>2, <1>3, <1>4 DEF Quiet, Standing, Holding
<1>6. Launch'
  BY <1>1, <1>2 DEF Launch, SubmitLogin, SubmitRegister, Begin, LoginFails, AuthStack
<1> QED BY <1>3, <1>5, <1>6, QuietStep

\* A session that ends keeps its generation.
LEMMA Ending ==
  ASSUME TypeOK, NEW x \in Sids, NEW how \in {"gone", "revoked"},
         row[x].state = "live", row' = [row EXCEPT ![x].state = how]
  PROVE  \A s \in Sids : /\ row'[s].gen = row[s].gen
                         /\ Standing(s)' => Standing(s)
                         /\ row'[s].state = "stolen" => row[s].state = "stolen"
<1>1. \A s \in Sids : /\ row'[s].gen = row[s].gen
                      /\ row'[s].state = row[s].state \/ (s = x /\ row'[s].state = how)
  BY DEF TypeOK
<1>2. row[x].state = "live" => Standing(x)
  BY DEF Standing
<1> QED BY <1>1, <1>2 DEF Standing

LEMMA LogoutReplay ==
  ASSUME RInv, IInv', StartLogout \/ \E reached \in BOOLEAN : LogoutCalled(reached)
  PROVE  RInv'
<1>1. IInv /\ Turns /\ Launch /\ TypeOK
  BY Types DEF RInv
<1>2. /\ UNCHANGED <<status, keychain, rot, request, boot, login, lost>>
      /\ \E kind \in {"get", "set"} : ops' = Append(ops, Op("logout", kind, None))
  BY DEF StartLogout, LogoutCalled, ClearTokens
<1>3. Turns' /\ \A o \in In(ops') : o.by = "login" => o \in In(ops)
  BY <1>1, <1>2, TurnsLogout
<1>4. /\ replaced' \subseteq replaced /\ misled' = misled
      /\ \A s \in Sids : /\ row'[s].gen = row[s].gen
                         /\ Standing(s)' => Standing(s)
                         /\ row'[s].state = "stolen" => row[s].state = "stolen"
  <2>1. CASE UNCHANGED server
    BY <2>1 DEF server, Standing
  <2>2. CASE /\ logout.tok # None /\ row[logout.tok.sid].state = "live"
             /\ row' = [row EXCEPT ![logout.tok.sid].state = "gone"]
             /\ replaced' \in {replaced, replaced \ {logout.tok}}
             /\ UNCHANGED misled
    <3>1. logout.tok.sid \in Sids
      BY <1>1, <2>2 DEF TypeOK, Pair
    <3>2. \A s \in Sids : /\ row'[s].gen = row[s].gen
                          /\ Standing(s)' => Standing(s)
                          /\ row'[s].state = "stolen" => row[s].state = "stolen"
      BY <1>1, <2>2, <3>1, Ending
    <3>3. replaced' \subseteq replaced /\ misled' = misled
      BY <2>2
    <3> QED BY <3>2, <3>3, Zenon
  <2> QED BY <2>1, <2>2 DEF StartLogout, LogoutCalled
<1>5. Quiet
  BY <1>2, <1>3, <1>4 DEF Quiet, Standing, Holding
<1>6. boot = "reading" => FALSE
  BY <1>1 DEF Launch, StartLogout, LogoutCalled, TabStack
<1>7. Launch'
  BY <1>2, <1>6 DEF Launch
<1> QED BY <1>3, <1>5, <1>7, QuietStep

LEMMA EnvironmentReplay ==
  ASSUME RInv, IInv',
         \/ AccessTokenAges \/ \E p \in Pair : ReplacedExpires(p)
         \/ \E s \in Sids, how \in {"gone", "revoked"} : SessionEnds(s, how)
  PROVE  RInv'
<1>1. IInv /\ Turns /\ Launch /\ TypeOK
  BY Types DEF RInv
<1>2. UNCHANGED <<status, keychain, ops, rot, request, boot, login, logout, lost>>
  BY DEF AccessTokenAges, ReplacedExpires, SessionEnds
<1>3. Turns' /\ \A o \in In(ops') : o.by = "login" => o \in In(ops)
  BY <1>1, <1>2, SameTurns
<1>4. /\ replaced' \subseteq replaced /\ misled' = misled
      /\ \A s \in Sids : /\ row'[s].gen = row[s].gen
                         /\ Standing(s)' => Standing(s)
                         /\ row'[s].state = "stolen" => row[s].state = "stolen"
  BY <1>1, Ending DEF AccessTokenAges, ReplacedExpires, SessionEnds, server, Standing
<1>5. Quiet
  BY <1>2, <1>3, <1>4 DEF Quiet, Standing, Holding
<1>6. Launch'
  BY <1>1, <1>2 DEF Launch
<1> QED BY <1>3, <1>5, <1>6, QuietStep

\* The app is launched again: what it was storing counts as lost.
LEMMA KillReplay == ASSUME RInv, IInv', Kill PROVE RInv'
<1>1. IInv /\ Turns /\ TypeOK
  BY Types DEF RInv
<1>2. Op("boot", "get", None).by = "boot"
  BY DEF Op
<1>3. Len(ops') = 1 /\ ops'[1] = Op("boot", "get", None)
  BY DEF Kill
<1>4. In(ops') = {Op("boot", "get", None)} /\ Unlike(ops')
  BY <1>3 DEF In, Unlike
<1>5. rot' = NoRotation /\ rot'.pc = "idle"
  BY DEF Kill, NoRotation
<1>6. Turns'
  BY <1>2, <1>4, <1>5 DEF Turns
<1>7. Launch'
  <2>1. /\ status' = "loading" /\ logout'.pc = "idle"
        /\ \A r \in Requests : request'[r].pc = "idle"
        /\ \A s \in Sids : login'[s] # "calling"
    BY DEF Kill, NoLogout, NoRequest
  <2> QED BY <1>2, <1>4, <1>5, <2>1 DEF Launch
<1>8. Holding => rot.tok \in Pair
  BY <1>1, Types DEF Holding, Turns, TypeOK
<1>9. Holding => rot.tok.sid \in lost'
  BY <1>8 DEF Kill, Holding, Pair
<1>10. Quiet
  BY <1>2, <1>4, <1>5, <1>9 DEF Quiet, Standing, Kill, server, Holding
<1> QED BY <1>6, <1>7, <1>10, QuietStep

LEMMA AnswerReplay == ASSUME RInv, IInv', RotateAnswered PROVE RInv'
<1>1. IInv /\ Turns /\ Launch /\ TypeOK /\ rot.tok \in Pair /\ rot.pc = "calling"
  BY Types DEF RInv, RotateAnswered
<1>2. \A o \in In(ops) : o.by # "rot"
  BY <1>1, NothingWaits
<1>3. UNCHANGED <<keychain, login, logout, row, replaced, misled, lost>>
  BY DEF RotateAnswered, server
<1>4. boot' # "reading"
  BY <1>1 DEF Launch, RotateAnswered, BootSettles, TypeOK
<1>5. Launch'
  BY <1>4 DEF Launch
<1>6. CASE rot.ans = "pair"
  <2>1. /\ rot' = [rot EXCEPT !.pc = "storing"]
        /\ ops' = Append(ops, Op("rot", "set", Successor(rot.tok)))
    BY <1>6 DEF RotateAnswered, SetTokens
  <2>2. rot'.pc = "storing" /\ rot'.tok = rot.tok /\ rot'.ans = "pair"
    BY <1>1, <1>6, <2>1 DEF TypeOK
  <2>3. rot.tok # None /\ Successor(rot.tok) \in Pair
    BY <1>1, <1>6, IInvSplits, BoundsAssumption DEF Server, Successor, Pair
  <2>4. /\ Op("rot", "set", Successor(rot.tok)) \in OpSet
        /\ Op("rot", "set", Successor(rot.tok)).by = "rot"
        /\ Op("rot", "set", Successor(rot.tok)).kind = "set"
        /\ Op("rot", "set", Successor(rot.tok)).val = Successor(rot.tok)
    BY <2>3, OpTypes DEF Flows
  <2>5. RotMatches(Op("rot", "set", Successor(rot.tok)))'
    BY <2>2, <2>4 DEF RotMatches
  <2>6. Turns' /\ \A o \in In(ops') : o.by = "login" => o \in In(ops)
    BY <1>1, <1>2, <2>1, <2>2, <2>3, <2>4, <2>5, TurnsRotation
  <2>7. Quiet
    BY <1>1, <1>3, <1>6, <2>2, <2>6 DEF Quiet, Standing, Holding
  <2> QED BY <1>5, <2>6, <2>7, QuietStep
<1>7. CASE rot.ans = "refused"
  <2>1. /\ rot' = [rot EXCEPT !.pc = "clearing"]
        /\ ops' = Append(ops, Op("rot", "set", None))
    BY <1>7 DEF RotateAnswered, ClearTokens
  <2>2. rot'.pc = "clearing"
    BY <1>1, <2>1 DEF TypeOK
  <2>3. /\ Op("rot", "set", None) \in OpSet /\ Op("rot", "set", None).by = "rot"
        /\ Op("rot", "set", None).kind = "set" /\ Op("rot", "set", None).val = None
    BY OpTypes DEF Flows
  <2>4. RotMatches(Op("rot", "set", None))'
    BY <2>2, <2>3 DEF RotMatches
  <2>5. Turns' /\ \A o \in In(ops') : o.by = "login" => o \in In(ops)
    BY <1>1, <1>2, <2>1, <2>2, <2>3, <2>4, TurnsRotation
  <2>6. Quiet
    BY <1>3, <1>7, <2>2, <2>5 DEF Quiet, Standing, Holding
  <2> QED BY <1>5, <2>5, <2>6, QuietStep
<1>8. CASE rot.ans \in {"vacated", "network"}
  <2>1. rot' = NoRotation /\ ops' = ops /\ rot'.pc = "idle"
    BY <1>8 DEF RotateAnswered, NoRotation
  <2>2. Turns' /\ \A o \in In(ops') : o.by = "login" => o \in In(ops)
    BY <1>1, <1>2, <2>1, TurnsWithout
  <2>3. Quiet
    BY <1>3, <1>8, <2>1, <2>2 DEF Quiet, Standing, Holding
  <2> QED BY <1>5, <2>2, <2>3, QuietStep
<1> QED BY <1>6, <1>7, <1>8 DEF RotateAnswered

LEMMA BootReplay == ASSUME RInv, IInv', BootRead PROVE RInv'
<1>1. IInv /\ Turns /\ Launch /\ TypeOK
  BY Types DEF RInv
<1>2. rot.pc = "idle" /\ \A o \in In(ops) : o.by = "boot"
  BY <1>1 DEF Launch, BootRead
<1>3. boot' # "reading" /\ Launch'
  BY DEF BootRead, Launch
<1>4. Tail(ops) \in Seq(OpSet) /\ Unlike(Tail(ops)) /\ In(Tail(ops)) \subseteq In(ops)
  BY <1>1, Types, QueueTail DEF BootRead, Turns
<1>5. CASE keychain = None
  <2>1. ops' = Tail(ops) /\ rot' = rot
    BY <1>5 DEF BootRead
  <2>2. \A o \in In(ops') : o.by = "boot"
    BY <1>2, <1>4, <2>1
  <2>3. Turns'
    BY <1>2, <1>4, <2>1, <2>2 DEF Turns
  <2>4. Quiet
    BY <1>2, <2>1, <2>2 DEF Quiet, Standing, BootRead, server, Holding
  <2> QED BY <1>3, <2>3, <2>4, QuietStep
<1>6. CASE keychain # None
  <2>1. /\ rot' = [NoRotation EXCEPT !.pc = "reading"]
        /\ ops' = Append(Tail(ops), Op("rot", "get", None))
    BY <1>6 DEF BootRead
  <2>2. rot'.pc = "reading"
    BY <2>1 DEF NoRotation
  <2>3. /\ Op("rot", "get", None) \in OpSet /\ Op("rot", "get", None).by = "rot"
        /\ Op("rot", "get", None).kind = "get"
    BY OpTypes DEF Flows
  <2>4. \A o \in In(Tail(ops)) : Apart(o, Op("rot", "get", None))
    BY <1>2, <1>4 DEF Apart
  <2>5. Unlike(ops') /\ In(ops') = In(Tail(ops)) \cup {Op("rot", "get", None)}
    BY <1>4, <2>1, <2>3, <2>4, QueueAppend
  <2>6. RotMatches(Op("rot", "get", None))'
    BY <2>2, <2>3 DEF RotMatches
  <2>7. Turns'
    BY <1>2, <1>4, <2>2, <2>3, <2>5, <2>6 DEF Turns
  <2>8. Quiet
    BY <1>2, <1>4, <2>2, <2>3, <2>5 DEF Quiet, Standing, BootRead, server, Holding
  <2> QED BY <1>3, <2>7, <2>8, QuietStep
<1> QED BY <1>5, <1>6

LEMMA LostReplay == ASSUME RInv, IInv', RefreshLost PROVE RInv'
<1>1. IInv /\ Turns /\ Launch /\ TypeOK /\ rot.pc = "calling"
  BY Types DEF RInv, RefreshLost
<1>2. rot'.pc = "calling" /\ rot'.tok = rot.tok /\ rot'.ans = "network"
  BY <1>1 DEF RefreshLost, TypeOK
<1>3. \A o \in In(ops) : o.by # "rot"
  BY <1>1, NothingWaits
<1>4. Turns' /\ \A o \in In(ops') : o.by = "login" => o \in In(ops)
  BY <1>1, <1>2, <1>3, TurnsWithout DEF RefreshLost
<1>5. Quiet
  BY <1>1, <1>2, <1>4 DEF Quiet, Standing, RefreshLost, server, Holding
<1>6. Launch'
  BY <1>1 DEF Launch, RefreshLost
<1> QED BY <1>4, <1>5, <1>6, QuietStep

\* The service answers.  A replay needs a token that is not the current one,
\* and Current says that this happens only after a loss.
LEMMA ServeReplay == ASSUME RInv, IInv', ServeRefresh PROVE RInv'
<1> DEFINE t == rot.tok
<1>1. /\ IInv /\ Turns /\ Launch /\ Born /\ Current /\ KilledOnlyAfterLoss
      /\ TypeOK /\ rot.pc = "calling" /\ rot.ans = "none" /\ t \in Pair
  BY Types DEF RInv, ServeRefresh
<1>2. \A a \in Answers : rot' = [rot EXCEPT !.ans = a] =>
        rot'.pc = "calling" /\ rot'.tok = t /\ rot'.ans = a
  BY <1>1 DEF TypeOK
<1>3. rot'.pc = "calling" /\ rot'.tok = t /\ rot'.ans \in {"refused", "vacated", "pair"}
  BY <1>2 DEF ServeRefresh, Answers
<1>4. \A o \in In(ops) : o.by # "rot"
  BY <1>1, NothingWaits
<1>5. Turns' /\ \A o \in In(ops') : o.by = "login" => o \in In(ops)
  BY <1>1, <1>3, <1>4, TurnsWithout DEF ServeRefresh
<1>6. UNCHANGED <<keychain, ops, boot, login, lost>>
  BY DEF ServeRefresh
<1>7. Launch'
  BY <1>1, <1>6 DEF Launch
<1>8. t.sid \in Sids /\ t.gen \in Nat
  BY <1>1 DEF Pair
<1>9. CASE UNCHANGED server /\ rot'.ans # "pair"
  <2>1. Quiet
    BY <1>1, <1>3, <1>5, <1>6, <1>9 DEF Quiet, Standing, server, Holding
  <2> QED BY <1>5, <1>7, <2>1, QuietStep
<1>10. CASE /\ rot' = [rot EXCEPT !.ans = "vacated"] /\ Standing(t.sid)
            /\ \E gen \in Nat : Replay(t, gen) /\ KillSession(t, gen)
  <2>0. PICK gen \in Nat : /\ Replay(t, gen) /\ row' = [row EXCEPT ![t.sid].state = "stolen"]
                           /\ misled' = (IF gen = row[t.sid].gen THEN misled
                                          ELSE misled \cup {t.sid})
                           /\ UNCHANGED replaced
    BY <1>10 DEF KillSession
  <2>1. t.sid \in lost \cup misled'
    <3>1. CASE gen = row[t.sid].gen
      BY <1>1, <1>8, <1>10, <2>0, <3>1 DEF Current, Replay, Intact
    <3>2. CASE gen # row[t.sid].gen
      BY <2>0, <3>2
    <3> QED BY <3>1, <3>2
  <2>2. \A s \in Sids : /\ row'[s].gen = row[s].gen
                        /\ Standing(s)' => Standing(s)
                        /\ row'[s].state = "stolen" => row[s].state = "stolen" \/ s = t.sid
    BY <1>1, <1>8, <2>0 DEF TypeOK, Standing
  <2>3. rot'.ans = "vacated"
    BY <1>2, <1>10 DEF Answers
  <2>4. misled \subseteq misled'
    BY <2>0
  <2>5. Quiet
    BY <1>1, <1>3, <1>5, <1>6, <2>0, <2>1, <2>2, <2>3, <2>4 DEF Quiet, Holding
  <2> QED BY <1>5, <1>7, <2>5, QuietStep
<1>11. CASE UNCHANGED server /\ rot'.ans = "pair" /\ t \in replaced
  <2>1. ~Intact(t.sid)
    <3>1. t.gen < row[t.sid].gen
      BY <1>1, <1>11 DEF Current
    <3>2. row[t.sid].gen \in Nat
      BY <1>1, <1>8, BoundsAssumption DEF TypeOK
    <3> QED BY <1>1, <1>8, <3>1, <3>2 DEF Current
  <2>2. Born'
    BY <1>1, <1>3, <1>5, <1>6, <1>11 DEF Born, server, Holding
  <2>3. Current'
    BY <1>1, <1>3, <1>6, <1>11, <2>1 DEF Current, server, Holding, Intact, Standing
  <2>4. KilledOnlyAfterLoss'
    BY <1>1, <1>6, <1>11 DEF KilledOnlyAfterLoss, server
  <2> QED BY <1>5, <1>7, <2>2, <2>3, <2>4 DEF RInv
<1>12. CASE /\ t.gen = row[t.sid].gen /\ t.gen < MaxGen /\ rot' = [rot EXCEPT !.ans = "pair"]
            /\ Rotate(t)
  <2>9. /\ row' = [row EXCEPT ![t.sid].gen = @ + 1]
        /\ replaced' = replaced \cup {t} /\ misled' = misled
    BY <1>12 DEF Rotate
  <2>0. rot'.ans = "pair"
    BY <1>2, <1>12 DEF Answers
  <2>1. /\ row'[t.sid].gen = t.gen + 1 /\ row'[t.sid].state = row[t.sid].state
        /\ \A s \in Sids : s # t.sid => row'[s] = row[s]
        /\ \A s \in Sids : row'[s].state = row[s].state
    BY <1>1, <1>8, <1>12, <2>9 DEF TypeOK
  <2>10. \A s \in Sids : Standing(s)' <=> Standing(s)
    BY <2>1 DEF Standing
  <2>2. \A s \in Sids : row[s].gen \in Nat
    BY <1>1, BoundsAssumption DEF TypeOK
  <2>3. \A o \in In(ops) : o.by = "login" => o.val.sid \in Sids
    BY <1>1, Types DEF Pair
  <2>4. keychain # None => keychain.sid \in Sids
    BY <1>1 DEF TypeOK, Pair
  <2>5. t.gen > 0
    BY <1>1 DEF Pair
  <2>6. Born'
    <3>1. \A s \in Sids : login'[s] \in {"unused", "calling"} => row'[s].gen = 0
      BY <1>1, <1>6, <1>8, <1>12, <2>9, <2>1, <2>5 DEF Born
    <3>2. keychain' # None => row'[keychain'.sid].gen > 0
      BY <1>1, <1>6, <1>8, <2>1, <2>4 DEF Born
    <3>3. Holding' => row'[rot'.tok.sid].gen > 0
      BY <1>3, <1>8, <2>1
    <3>4. ASSUME NEW o \in In(ops'), o.by = "login"
          PROVE  /\ o.kind = "set" /\ o.val.gen = 1 /\ row'[o.val.sid].gen = 1
                 /\ keychain' # None => keychain'.sid # o.val.sid
                 /\ Holding' => rot'.tok.sid # o.val.sid
      BY <1>1, <1>3, <1>5, <1>6, <2>1, <2>3, <3>4 DEF Born, Holding
    <3> QED BY <3>1, <3>2, <3>3, <3>4 DEF Born
  <2>7. Current'
    <3>1. ASSUME keychain # None, Intact(keychain.sid)'
          PROVE  \/ keychain.gen = row'[keychain.sid].gen
                 \/ keychain = t
      <4>1. Intact(keychain.sid) /\ keychain.gen = row[keychain.sid].gen
        BY <1>1, <1>6, <2>1, <2>4, <2>10, <3>1 DEF Current, Intact
      <4>2. CASE keychain.sid # t.sid
        BY <2>1, <2>4, <3>1, <4>1, <4>2
      <4>3. CASE keychain.sid = t.sid
        <5>1. keychain.gen = t.gen /\ keychain \in Pair
          BY <1>1, <1>12, <3>1, <4>1, <4>3 DEF TypeOK
        <5> QED BY <1>1, <4>3, <5>1 DEF Pair
      <4> QED BY <4>2, <4>3
    <3>2. \A p \in replaced' : p.gen < row'[p.sid].gen
      <4>1. \A p \in replaced : p \in Pair /\ p.gen < row[p.sid].gen
        BY <1>1 DEF TypeOK, Current
      <4>2. \A p \in replaced : p.sid \in Sids /\ p.gen \in Nat
        BY <4>1 DEF Pair
      <4>3. ASSUME NEW p \in replaced PROVE p.gen < row'[p.sid].gen
        <5>1. CASE p.sid = t.sid
          BY <1>8, <1>12, <2>9, <2>1, <4>1, <4>2, <5>1
        <5>2. CASE p.sid # t.sid
          BY <2>1, <4>1, <4>2, <5>2
        <5> QED BY <5>1, <5>2
      <4> QED BY <1>8, <1>12, <2>9, <2>1, <4>3
    <3> QED BY <1>3, <1>6, <1>8, <2>0, <2>1, <2>10, <3>1, <3>2 DEF Current, Holding, Intact
  <2>8. KilledOnlyAfterLoss'
    BY <1>1, <1>6, <2>1, <2>9 DEF KilledOnlyAfterLoss
  <2> QED BY <1>5, <1>7, <2>6, <2>7, <2>8 DEF RInv
<1>13. \/ UNCHANGED server /\ rot'.ans # "pair"
       \/ UNCHANGED server /\ rot'.ans = "pair" /\ t \in replaced
       \/ /\ rot' = [rot EXCEPT !.ans = "vacated"] /\ Standing(t.sid)
          /\ \E gen \in Nat : Replay(t, gen) /\ KillSession(t, gen)
       \/ /\ t.gen = row[t.sid].gen /\ t.gen < MaxGen /\ rot' = [rot EXCEPT !.ans = "pair"]
          /\ Rotate(t)
  BY <1>1, <1>2, ServeOutcomes DEF Replay, Answers
<1> QED BY <1>9, <1>10, <1>11, <1>12, <1>13

\* A sign-in makes a session nobody has a token of.
LEMMA LoginReplay == ASSUME RInv, IInv', NEW s \in Sids, LoginAnswered(s) PROVE RInv'
<1> DEFINE op == Op("login", "set", [sid |-> s, gen |-> 1])
<1>1. /\ IInv /\ Turns /\ Launch /\ Born /\ Current /\ KilledOnlyAfterLoss /\ TypeOK
      /\ row[s].gen = 0
  BY Types DEF RInv, LoginAnswered, Born
<1>2. /\ op \in OpSet /\ op.by = "login" /\ op.kind = "set"
      /\ op.val.sid = s /\ op.val.gen = 1
  <2>1. [sid |-> s, gen |-> 1] \in Pair
    BY BoundsAssumption DEF Pair
  <2> QED BY <2>1, OpTypes DEF Flows
<1>3. ops' = Append(ops, op) /\ UNCHANGED <<status, keychain, rot, request, boot, logout, replaced,
                                          misled, lost>>
  BY DEF LoginAnswered, SetTokens
<1> HIDE DEF op
<1>4. \A o \in In(ops) : Apart(o, op)
  BY <1>1, <1>2 DEF Born, Apart
<1>5. Unlike(ops') /\ In(ops') = In(ops) \cup {op}
  BY <1>1, <1>2, <1>3, <1>4, Types, QueueAppend DEF Turns
<1>6. Turns'
  BY <1>1, <1>2, <1>3, <1>5 DEF Turns, RotMatches
<1>7. Launch'
  BY <1>1, <1>3 DEF Launch, LoginAnswered
<1>8. /\ row'[s].gen = 1 /\ row'[s].state = "live"
      /\ \A x \in Sids : x # s => row'[x] = row[x] /\ login'[x] = login[x]
      /\ login'[s] = "storing"
  BY <1>1 DEF LoginAnswered, TypeOK
<1>9. /\ keychain # None => keychain.sid \in Sids /\ keychain.sid # s
      /\ Holding => rot.tok.sid \in Sids /\ rot.tok.sid # s
  <2>1. Holding => rot.tok \in Pair
    BY <1>1, Types DEF Holding, Turns, TypeOK
  <2>2. keychain # None => keychain.sid \in Sids
    BY <1>1 DEF TypeOK, Pair
  <2>3. Holding => rot.tok.sid \in Sids
    BY <2>1 DEF Pair
  <2> QED BY <1>1, <2>2, <2>3 DEF Born
<1>10. \A o \in In(ops) : o.by = "login" => o.val.sid \in Sids /\ o.val.sid # s
  <2>1. \A o \in In(ops) : o.by = "login" => o.val.sid \in Sids
    BY <1>1, Types DEF Pair
  <2> QED BY <1>1, <2>1 DEF Born
<1>11. Born'
  <2>1. \A x \in Sids : login'[x] \in {"unused", "calling"} => row'[x].gen = 0
    BY <1>1, <1>8 DEF Born
  <2>2. /\ keychain' # None => row'[keychain'.sid].gen > 0
        /\ Holding' => row'[rot'.tok.sid].gen > 0
    BY <1>1, <1>3, <1>8, <1>9 DEF Born, Holding
  <2>3. ASSUME NEW o \in In(ops'), o.by = "login"
        PROVE  /\ o.kind = "set" /\ o.val.gen = 1 /\ row'[o.val.sid].gen = 1
               /\ keychain' # None => keychain'.sid # o.val.sid
               /\ Holding' => rot'.tok.sid # o.val.sid
    <3>1. CASE o \in In(ops)
      BY <1>1, <1>3, <1>8, <1>10, <2>3, <3>1 DEF Born, Holding
    <3>2. CASE o = op
      BY <1>2, <1>3, <1>8, <1>9, <3>2 DEF Holding
    <3> QED BY <1>5, <3>1, <3>2
  <2> QED BY <2>1, <2>2, <2>3 DEF Born
<1>12. Current'
  <2>1. \A p \in replaced : p.gen < row'[p.sid].gen
    <3>1. \A p \in replaced : p.sid \in Sids /\ p.gen \in Nat /\ p.gen > 0
      BY <1>1 DEF TypeOK, Pair
    <3> QED BY <1>1, <1>8, <3>1 DEF Current
  <2>2. /\ keychain # None => (Intact(keychain.sid)' => Intact(keychain.sid))
        /\ Holding => (Intact(rot.tok.sid)' => Intact(rot.tok.sid))
    BY <1>3, <1>8, <1>9 DEF Intact, Standing
  <2>3. /\ keychain # None => row'[keychain.sid] = row[keychain.sid]
        /\ Holding => row'[rot.tok.sid] = row[rot.tok.sid]
    BY <1>8, <1>9
  <2>4. keychain' # None /\ Intact(keychain.sid)' =>
          \/ keychain'.gen = row'[keychain'.sid].gen
          \/ Holding' /\ rot'.ans = "pair" /\ rot'.tok = keychain'
    BY <1>1, <1>3, <2>2, <2>3 DEF Current, Holding
  <2>5. /\ rot'.pc = "calling" /\ rot'.ans = "none" /\ Intact(rot.tok.sid)' =>
             rot'.tok.gen = row'[rot'.tok.sid].gen
        /\ Holding' /\ rot'.ans = "pair" /\ Intact(rot.tok.sid)' =>
             row'[rot'.tok.sid].gen = rot'.tok.gen + 1
    BY <1>1, <1>3, <2>2, <2>3 DEF Current, Holding
  <2> QED BY <1>3, <2>1, <2>4, <2>5 DEF Current
<1>13. KilledOnlyAfterLoss'
  BY <1>1, <1>3, <1>8 DEF KilledOnlyAfterLoss
<1> QED BY <1>6, <1>7, <1>11, <1>12, <1>13 DEF RInv

\* A write that reaches the keychain is of the current generation.
LEMMA KeychainReplay ==
  ASSUME RInv, IInv', KeychainDone, Head(ops).by # "boot" PROVE RInv'
<1> DEFINE op == Head(ops)
<1>1. /\ IInv /\ Turns /\ Launch /\ Born /\ Current /\ KilledOnlyAfterLoss /\ TypeOK
      /\ ops # <<>> /\ ops' = Tail(ops) /\ UNCHANGED <<row, replaced, misled, lost>>
      /\ keychain' = IF op.kind = "set" THEN op.val ELSE keychain
  BY Types DEF RInv, KeychainDone, server
<1>2. op \in In(ops) /\ op \in OpSet
  BY <1>1, Types, QueueTail DEF Turns
<1>3. op.by = "rot" => RotMatches(op)
  BY <1>1, <1>2 DEF Turns
<1>4. /\ op.by = "rot" /\ rot.pc = "reading" =>
           /\ op.kind = "get" /\ UNCHANGED <<login, logout>>
           /\ \/ rot' = NoRotation
              \/ /\ keychain # None
                 /\ rot' = [pc |-> "calling", tok |-> keychain, ans |-> "none"]
      /\ op.by = "rot" /\ rot.pc # "reading" =>
           rot' = NoRotation /\ UNCHANGED <<login, logout>>
      /\ op.by # "rot" => rot' = rot
  <2>1. CASE op.by = "rot" /\ rot.pc = "reading"
    BY <1>3, <2>1 DEF KeychainDone, RotateRead, RotMatches
  <2>2. CASE op.by = "rot" /\ rot.pc # "reading"
    BY <1>3, <2>2 DEF KeychainDone, RotMatches
  <2>3. CASE op.by # "rot"
    BY <2>3 DEF KeychainDone
  <2> QED BY <2>1, <2>2, <2>3
<1>5. NoRotation.pc = "idle"
  BY DEF NoRotation
<1>6. /\ Turns' /\ In(ops') \subseteq In(ops)
      /\ \A o \in In(ops') : Apart(op, o)
  <2>1. op.by = "rot" => rot'.pc # "storing"
    BY <1>4, <1>5
  <2> QED BY <1>1, <1>4, <2>1, TurnsServed
<1>7. Launch'
  <2>1. boot # "reading"
    BY <1>1, <1>2 DEF Launch
  <2>2. boot' # "reading"
    BY <2>1 DEF KeychainDone, RotateRead, BootSettles
  <2> QED BY <2>2 DEF Launch
<1>8. \A x \in Sids : login'[x] \in {"unused", "calling"} => login[x] \in {"unused", "calling"}
  BY <1>1 DEF KeychainDone, TypeOK
<1>9. /\ keychain # None => keychain.sid \in Sids
      /\ Holding => rot.tok \in Pair /\ rot.tok.sid \in Sids
  <2>1. Holding => rot.tok \in Pair
    BY <1>1, Types DEF Holding, Turns, TypeOK
  <2> QED BY <1>1, <2>1 DEF TypeOK, Pair
<1>10. KilledOnlyAfterLoss'
  BY <1>1 DEF KilledOnlyAfterLoss
<1>11. \A o \in In(ops') : o.by = "login" => o \in In(ops)
  BY <1>6
<1>12. CASE keychain' = keychain /\ rot' = rot
  <2>1. Quiet
    BY <1>1, <1>8, <1>11, <1>12 DEF Quiet, Standing, Holding
  <2> QED BY <1>6, <1>7, <2>1, QuietStep
<1>13. CASE keychain' = keychain /\ rot' = NoRotation /\ rot.pc \in {"reading", "clearing"}
  <2>1. Quiet
    BY <1>1, <1>5, <1>8, <1>11, <1>13 DEF Quiet, Standing, Holding
  <2> QED BY <1>6, <1>7, <2>1, QuietStep
<1>14. CASE /\ rot.pc = "reading" /\ keychain' = keychain /\ keychain # None
            /\ rot' = [pc |-> "calling", tok |-> keychain, ans |-> "none"]
  <2>1. rot'.pc = "calling" /\ rot'.tok = keychain /\ rot'.ans = "none"
    BY <1>14
  <2>2. Born'
    BY <1>1, <1>8, <1>11, <1>14, <2>1 DEF Born
  <2>3. Current'
    BY <1>1, <1>14, <2>1 DEF Current, Intact, Standing, Holding
  <2> QED BY <1>6, <1>7, <1>10, <2>2, <2>3 DEF RInv
<1>15. CASE keychain' = None /\ (rot' = rot \/ rot' = NoRotation)
  <2>1. Holding' => Holding /\ rot' = rot
    BY <1>5, <1>15 DEF Holding
  <2>2. Born'
    BY <1>1, <1>8, <1>11, <1>15, <2>1 DEF Born
  <2>3. Current'
    <3>1. rot'.pc = "calling" => Holding /\ rot' = rot
      BY <2>1 DEF Holding
    <3> QED BY <1>1, <1>15, <2>1, <3>1 DEF Current, Intact, Standing
  <2> QED BY <1>6, <1>7, <1>10, <2>2, <2>3 DEF RInv
<1>16. CASE rot.pc = "storing" /\ keychain' = Successor(rot.tok) /\ rot' = NoRotation
  <2>1. rot.ans = "pair" /\ Holding /\ ~Holding'
    BY <1>1, <1>5, <1>16 DEF Turns, Holding
  <2>2. keychain'.sid = rot.tok.sid /\ keychain'.gen = rot.tok.gen + 1
    BY <1>9, <1>16, <2>1 DEF Successor, Pair
  <2>3. Born'
    BY <1>1, <1>8, <1>11, <2>1, <2>2 DEF Born
  <2>4. Current'
    <3>1. Intact(keychain.sid)' => Intact(rot.tok.sid)
      BY <1>1, <2>2 DEF Intact, Standing
    <3>2. Intact(keychain.sid)' => keychain'.gen = row'[keychain'.sid].gen
      BY <1>1, <2>1, <2>2, <3>1 DEF Current
    <3>3. \A p \in replaced' : p.gen < row'[p.sid].gen
      BY <1>1 DEF Current
    <3> QED BY <2>1, <3>2, <3>3 DEF Current, Holding
  <2> QED BY <1>6, <1>7, <1>10, <2>3, <2>4 DEF RInv
<1>17. CASE op.by = "login" /\ keychain' = op.val /\ rot' = rot
  <2>1. op.val.gen = 1 /\ row[op.val.sid].gen = 1 /\ (Holding => rot.tok.sid # op.val.sid)
    BY <1>1, <1>2, <1>17 DEF Born
  <2>2. \A o \in In(ops') : o.by = "login" => o.val.sid # op.val.sid
    BY <1>6, <1>17 DEF Apart
  <2>3. Born'
    BY <1>1, <1>8, <1>11, <1>17, <2>1, <2>2 DEF Born, Holding
  <2>4. Current'
    BY <1>1, <1>17, <2>1 DEF Current, Holding, Intact, Standing
  <2> QED BY <1>6, <1>7, <1>10, <2>3, <2>4 DEF RInv
<1>18. CASE op.by = "rot"
  BY <1>1, <1>3, <1>4, <1>13, <1>14, <1>15, <1>16, <1>18 DEF RotMatches
<1>19. CASE op.by = "logout"
  BY <1>1, <1>2, <1>4, <1>12, <1>15, <1>19 DEF Turns, OpSet
<1>20. CASE op.by = "login"
  BY <1>1, <1>2, <1>4, <1>17, <1>20 DEF Born
<1> QED BY <1>2, <1>18, <1>19, <1>20 DEF OpSet, Flows

\* What the keychain rejects is not stored, and a rotated pair counts as lost.
LEMMA RejectReplay == ASSUME RInv, IInv', KeychainRejects PROVE RInv'
<1> DEFINE op == Head(ops)
<1>1. /\ IInv /\ Turns /\ Launch /\ TypeOK
      /\ ops # <<>> /\ ops' = Tail(ops) /\ UNCHANGED <<keychain, row, replaced, misled>>
  BY Types DEF RInv, KeychainRejects, server
<1>2. op \in In(ops) /\ op \in OpSet
  BY <1>1, Types, QueueTail DEF Turns
<1>3. /\ op.by = "rot" => /\ rot' = NoRotation
                          /\ lost' = IF rot.pc = "storing" THEN lost \cup {rot.tok.sid}
                                     ELSE lost
      /\ op.by # "rot" => rot' = rot /\ lost' = lost
  BY <1>2 DEF KeychainRejects, OpSet, Flows
<1>4. NoRotation.pc = "idle"
  BY DEF NoRotation
<1>5. Turns' /\ In(ops') \subseteq In(ops)
  <2>1. op.by = "rot" => rot'.pc # "storing"
    BY <1>3, <1>4
  <2> QED BY <1>1, <1>3, <2>1, TurnsServed
<1>6. op.by = "rot" => rot.pc \in {"reading", "storing", "clearing"}
  BY <1>1, <1>2 DEF Turns, RotMatches
<1>7. Launch'
  <2>1. CASE boot = "reading"
    <3>1. op.by = "boot"
      BY <1>1, <1>2, <2>1 DEF Launch
    <3> QED BY <3>1 DEF KeychainRejects, Launch
  <2>2. CASE boot # "reading"
    <3>1. boot' # "reading"
      BY <1>2, <2>2 DEF KeychainRejects, BootSettles, OpSet, Flows
    <3> QED BY <3>1 DEF Launch
  <2> QED BY <2>1, <2>2
<1>8. \A x \in Sids : login'[x] \in {"unused", "calling"} => login[x] \in {"unused", "calling"}
  BY <1>1, <1>2 DEF KeychainRejects, TypeOK, OpSet, Flows
<1>9. /\ Holding' => rot' = rot
      /\ Holding /\ rot' # rot => rot.tok.sid \in lost'
  BY <1>3, <1>4, <1>6 DEF Holding
<1>10. Quiet
  BY <1>1, <1>3, <1>5, <1>8, <1>9 DEF Quiet, Standing, Holding
<1> QED BY <1>5, <1>7, <1>10, QuietStep

LEMMA InitRInv == Init => RInv
<1> SUFFICES ASSUME Init PROVE RInv
  OBVIOUS
<1>1. IInv
  BY InitIInv
<1>2. Len(ops) = 1 /\ ops[1] = Op("boot", "get", None)
  BY DEF Init
<1>3. Op("boot", "get", None).by = "boot"
  BY DEF Op
<1>4. In(ops) = {Op("boot", "get", None)} /\ Unlike(ops)
  BY <1>2 DEF In, Unlike
<1>5. rot.pc = "idle" /\ logout.pc = "idle" /\ \A r \in Requests : request[r].pc = "idle"
  BY DEF Init, NoRotation, NoLogout, NoRequest
<1>6. Turns /\ Launch
  BY <1>3, <1>4, <1>5 DEF Turns, Launch, Init
<1>7. Born /\ Current /\ KilledOnlyAfterLoss
  BY <1>3, <1>4, <1>5 DEF Born, Current, KilledOnlyAfterLoss, Holding, Init
<1> QED BY <1>1, <1>6, <1>7 DEF RInv

LEMMA NextRInv == RInv /\ [Next]_vars => RInv'
<1> SUFFICES ASSUME RInv, [Next]_vars PROVE RInv'
  OBVIOUS
<1>1. IInv'
  BY NextIInv DEF RInv
<1>2. CASE UNCHANGED vars
  <2>1. Turns'
    BY <1>2, SameTurns DEF RInv, vars
  <2>2. Launch' /\ KilledOnlyAfterLoss'
    BY <1>2 DEF RInv, Launch, KilledOnlyAfterLoss, vars
  <2>3. Quiet
    BY <1>2 DEF Quiet, Standing, Holding, vars, server
  <2> QED BY <1>1, <2>1, <2>2, <2>3, QuietStep
<1>3. CASE Next
  BY <1>1, <1>3, KeychainReplay, BootReplay, RejectReplay, ServeReplay, LostReplay, AnswerReplay,
     RequestReplay, ForegroundReplay, SubmitReplay, LoginReplay, LogoutReplay,
     EnvironmentReplay, KillReplay DEF Next
<1> QED BY <1>2, <1>3

\* Single-flight rotation, a pair stored before anybody goes on, and a launch
\* that reads the keychain first: the auth service ends a session for theft
\* only after a rotation whose answer or write this device lost, or on the word
\* of a cached generation the row had left behind, however many sign-ins,
\* rotations, sign-outs, rejected writes and kills there are.
THEOREM NoFalseTheft == Spec => []KilledOnlyAfterLoss
<1>1. Spec => []RInv
  BY InitRInv, NextRInv, PTL DEF Spec
<1>2. RInv => KilledOnlyAfterLoss
  BY DEF RInv
<1> QED BY <1>1, <1>2, PTL
=============================================================================
