----------------------------- MODULE PdfPanels -----------------------------
(* The side panels of the web PDF editor that work on a document already  *)
(* open: attachments, outline, thumbnails, comments, stamps, signatures   *)
(* and forms (components/extend/pdf-editor-panels.tsx).  Local state dies  *)
(* with the panel it belongs to; what the engine (external) was asked is   *)
(* done nevertheless, in the order asked, and an answer finds the panel, a *)
(* newer one, or none.                                                     *)
EXTENDS Naturals, Sequences, FiniteSets, SequencesExt

CONSTANT MaxVersion   \* bound: lists of attachments fetched

VARIABLES tab,      \* the panel on screen
          files,    \* the document's attachments, in the engine's order
          list,     \* the attachments the panel shows
          version,  \* which fetch may still set the list
          queue,    \* what the engine was asked and has not done
          mount,    \* which attachments panel is on screen: its first fetch
          isBusy,   \* its busy flag
          wrong,    \* an attachment was removed that was not the one clicked:
                    \* on a list already out of date, or not
          local,    \* what another panel keeps while it is shown
          placing   \* the stamp or signature a click would place

panelVars == <<tab, files, list, version, queue, mount, isBusy, wrong, local, placing>>

Tabs == {"attachments", "outline", "comments", "stamps", "signatures", "forms"}
FreshTabs == [t \in Tabs |->
  CASE t = "outline" -> "loading" [] t = "comments" -> "cards" [] t = "stamps" -> "all"
    [] t = "forms" -> "filled" [] OTHER -> "nothing"]
Loading == <<0>>
Fetching == list = Loading

PanelsInit ==
  /\ tab = "outline" /\ files = <<1, 2, 3>> /\ list = Loading /\ version = 0
  /\ queue = <<>> /\ mount = 0 /\ isBusy = FALSE /\ wrong = "no"
  /\ local = "loading" /\ placing = "none"

AskEngine(request) == queue' = Append(queue, request)

(* Every fetch of the attachments cancels the one before: its answer is    *)
(* not for the list any more.                                              *)
Fetch == [op |-> "list", of |-> version']

(* Showing a panel mounts it afresh, without its busy flag.                *)
ShowTab ==
  /\ tab' \in Tabs \ {tab}
  /\ isBusy' = FALSE /\ list' = Loading
  /\ local' = FreshTabs[tab']
  /\ IF tab' = "attachments"
     THEN version < MaxVersion /\ version' = version + 1 /\ mount' = version' /\ AskEngine(Fetch)
     ELSE mount' = 0 /\ UNCHANGED <<version, queue>>
  /\ UNCHANGED <<files, wrong, placing>>

(* ---- attachments ------------------------------------------------------- *)

rest == <<local, placing>>

CanModify == tab = "attachments" /\ ~isBusy

RefreshDue == \E i \in DOMAIN queue : queue[i] = [op |-> "list", of |-> version]

(* The item removed is named by its place in the list it was clicked in.   *)
HandleRemoveAnyTime ==
  /\ tab = "attachments" /\ ~Fetching /\ Len(queue) < 3
  /\ isBusy' = TRUE
  /\ \E i \in DOMAIN list :
       AskEngine([op |-> "remove", at |-> i, item |-> list[i], late |-> RefreshDue,
                  by |-> mount])
  /\ UNCHANGED <<tab, files, list, version, mount, wrong, rest>>

HandleRemove ==
  /\ CanModify /\ ~Fetching /\ Len(queue) < 3
  /\ isBusy' = TRUE
  /\ \E i \in DOMAIN list :
       AskEngine([op |-> "remove", at |-> i, item |-> list[i], late |-> RefreshDue,
                  by |-> mount])
  /\ UNCHANGED <<tab, files, list, version, mount, wrong, rest>>

(* The file is read first; a file that cannot be read ends here.           *)
HandleAdd ==
  /\ CanModify /\ Len(queue) < 3 /\ 4 \notin Range(files)
  /\ \/ AskEngine([op |-> "add", by |-> mount]) /\ isBusy' = TRUE
     \/ UNCHANGED <<queue, isBusy>>
  /\ UNCHANGED <<tab, files, list, version, mount, wrong, rest>>

(* An answer reaches the panel that asked, if it is still on screen: it    *)
(* ends busy, and a change acknowledged fetches the list again.            *)
StillThere(request) == tab = "attachments" /\ request.by = mount

Refresh(request) ==
  IF StillThere(request)
  THEN /\ version < MaxVersion /\ version' = version + 1
       /\ isBusy' = FALSE
       /\ queue' = Append(Tail(queue), Fetch)
  ELSE queue' = Tail(queue) /\ UNCHANGED <<version, isBusy>>

Refuse(request) ==
  /\ queue' = Tail(queue) /\ isBusy' = (isBusy /\ ~StillThere(request))
  /\ UNCHANGED <<files, wrong, version>>

Removed(i, seq) == SubSeq(seq, 1, i - 1) \o SubSeq(seq, i + 1, Len(seq))

EngineRemoves ==
  /\ queue # <<>> /\ Head(queue).op = "remove"
  /\ LET request == Head(queue) IN
     \/ /\ request.at \in DOMAIN files
        /\ files' = Removed(request.at, files)
        /\ wrong' = IF files[request.at] = request.item THEN wrong
                    ELSE IF request.late THEN "late" ELSE "wrong"
        /\ Refresh(request)
     \/ Refuse(request)
  /\ UNCHANGED <<tab, list, mount, rest>>

EngineAdds ==
  /\ queue # <<>> /\ Head(queue).op = "add"
  /\ \/ files' = Append(files, 4) /\ Refresh(Head(queue)) /\ UNCHANGED wrong
     \/ Refuse(Head(queue))
  /\ UNCHANGED <<tab, list, mount, rest>>

EngineLists ==
  /\ queue # <<>> /\ Head(queue).op = "list"
  /\ queue' = Tail(queue)
  /\ IF tab = "attachments" /\ Head(queue).of = version
     THEN list' \in {files, <<>>} ELSE UNCHANGED list
  /\ UNCHANGED <<tab, files, version, mount, isBusy, wrong, rest>>

(* ---- what the other panels keep, and lose when they are left ----------- *)

attach == <<files, list, version, queue, mount, isBusy, wrong>>

InPanel(t, from, to) ==
  /\ tab = t /\ local \in from /\ local' \in to
  /\ UNCHANGED <<tab, attach, placing>>

OutlineAnswered == InPanel("outline", {"loading"}, {"first", "empty"})

Navigate == InPanel("outline", {"first", "last"}, {"first", "last"})

(* A card and its composer belong to one annotation, and go with it.       *)
OpenComposer == InPanel("comments", {"cards"}, {"edit", "reply"})

CloseComposer == InPanel("comments", {"edit", "reply"}, {"cards"})

(* Importing a PDF or saving the selection answers with a library to show, *)
(* to the panel that asked if it is still there.                           *)
LibraryAdded == InPanel("stamps", {"all", "saving"}, {"custom", "all", "saving"})

PickLibrary == InPanel("stamps", {"all", "custom"}, {"all", "custom"})

SetFormValues == InPanel("forms", {"filled", "cleared"}, {"filled", "cleared"})

(* The stamp or signature a click would place outlives its panel.          *)
Place(t, kinds) ==
  /\ tab = t
  /\ placing' \in (kinds \cup {"none"}) \ {placing}
  /\ UNCHANGED <<tab, attach, local>>

PlaceStamp == Place("stamps", {"stamp"})

TogglePlacement == Place("signatures", {"signature", "initials"})

PanelsNext ==
  \/ ShowTab \/ HandleRemove \/ HandleAdd \/ EngineRemoves \/ EngineAdds \/ EngineLists
  \/ OutlineAnswered \/ Navigate \/ OpenComposer \/ CloseComposer
  \/ LibraryAdded \/ PickLibrary \/ SetFormValues \/ PlaceStamp \/ TogglePlacement

PanelsSpec == PanelsInit /\ [][PanelsNext]_panelVars

(* ---- properties --------------------------------------------------------- *)

(* Removing an attachment takes away the one that was clicked, unless the  *)
(* click came in the window after a change was acknowledged and before the *)
(* list showed it.                                                         *)
RemovesWhatWasClicked == wrong # "wrong"
=============================================================================
