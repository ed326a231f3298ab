------------------------------ MODULE FileGrid ------------------------------
(* The grid of one folder in the web client (modules/files/views/file-view *)
(* with the hooks of api/use-files and dnd/): its listing, selection, bulk *)
(* delete, drag-and-drop moves, the rename dialog and the create dialog.   *)
(* The metadata service (external) holds where every item is; a mutation   *)
(* that succeeds makes the listing be fetched again.                       *)
EXTENDS Naturals, FiniteSets

CONSTANTS FileItems, Folders,  \* items that may be in the folder shown
          MaxMutations         \* bound: delete, move, rename and create requests

VARIABLES atRoot,   \* whether the folder shown is the user's root
          where,    \* the folder an item is in, on the server
          list,     \* the items of the cached listing
          stale,    \* the listing is being fetched again
          sel,      \* selectedIds
          drag,     \* the item dragged and the selection its preview counts
          ops,      \* requests under way
          last,     \* the item of the newest delete of a file and of a folder
          asked,    \* requests made
          rename    \* the rename dialog: target, whose name was typed, pending, error

gridVars == <<atRoot, where, list, stale, sel, drag, ops, last, asked, rename>>

Items == FileItems \cup Folders
NoItem == "none"
Places == Folders \cup {"here", "root", "trash", NoItem}

(* The new folder of the create dialog.                                    *)
Born == "new"
AllItems == Items \cup {Born}

NoDrag == [item |-> NoItem, sel |-> {}]
NoRename == [target |-> NoItem, typed |-> NoItem, pending |-> NoItem, sent |-> NoItem, error |-> FALSE]

GridInit ==
  /\ atRoot \in BOOLEAN
  /\ where = [i \in AllItems |-> IF i = Born THEN NoItem ELSE "here"]
  /\ list = Items /\ stale = FALSE /\ sel = {} /\ drag = NoDrag
  /\ ops = {} /\ last = [file |-> NoItem, folder |-> NoItem] /\ asked = 0
  /\ rename = NoRename

Asks(n) == asked + n <= MaxMutations /\ asked' = asked + n
Selected == sel \cap list

(* The pointer is neither dragging nor held by the modal dialog.           *)
Free == drag = NoDrag /\ rename.target = NoItem

(* isBusy: useMutation's isPending is that of its newest call only.        *)
IsBusy ==
  \/ \E o \in ops : o.kind = "delete" /\ o.item \in {last.file, last.folder}
  \/ \E o \in ops : o.kind = "move"

(* ---- listing and selection ------------------------------------------------------ *)

(* The drop on the page behind the cards moves to the root, named "",      *)
(* while the items of the root carry the root's own id.                    *)
ListedIn(place) == {i \in AllItems : where[i] = place}

FolderItemsAnswered ==
  /\ stale /\ stale' = FALSE
  /\ list' = ListedIn("here") \cup (IF atRoot THEN ListedIn("root") ELSE {})
  /\ UNCHANGED <<atRoot, where, sel, drag, ops, last, asked, rename>>

SetItemSelected ==
  /\ Free /\ \E i \in list : sel' = IF i \in sel THEN sel \ {i} ELSE sel \cup {i}
  /\ UNCHANGED <<atRoot, where, list, stale, drag, ops, last, asked, rename>>

ToggleAll ==
  /\ Free /\ list # {} /\ sel' = IF Selected = list THEN {} ELSE list
  /\ UNCHANGED <<atRoot, where, list, stale, drag, ops, last, asked, rename>>

ChangedElsewhere ==
  /\ \E i \in Items : where[i] # "trash" /\ where' = [where EXCEPT ![i] = "trash"]
  /\ stale' \in {stale, TRUE} /\ Asks(1)
  /\ UNCHANGED <<atRoot, list, sel, drag, ops, last, rename>>

(* ---- delete ---------------------------------------------------------------------- *)

DeleteSelected ==
  /\ Free /\ Selected # {} /\ ~IsBusy /\ Asks(Cardinality(Selected))
  /\ ops' = ops \cup {[kind |-> "delete", item |-> i, to |-> "trash"] : i \in Selected}
  /\ \E f \in (IF Selected \cap FileItems = {} THEN {last.file} ELSE Selected \cap FileItems),
        d \in (IF Selected \ FileItems = {} THEN {last.folder} ELSE Selected \ FileItems) :
       last' = [file |-> f, folder |-> d]
  /\ UNCHANGED <<atRoot, where, list, stale, sel, drag, rename>>

(* A folder's own menu deletes it beside the selection's deletes.          *)
FolderActions ==
  /\ Free /\ Asks(1)
  /\ \E d \in Folders \cap list :
       ops' = ops \cup {[kind |-> "remove", item |-> d, to |-> "trash"]}
  /\ UNCHANGED <<atRoot, where, list, stale, sel, drag, last, rename>>

(* The selection is cleared once every delete has succeeded.               *)
DeleteAnswered ==
  /\ \E o \in ops :
       /\ o.kind \in {"delete", "remove"} /\ ops' = ops \ {o}
       /\ \/ /\ where' = [where EXCEPT ![o.item] = "trash"] /\ stale' = TRUE
             /\ sel' \in IF o.kind = "remove" \/ \E p \in ops' : p.kind = "delete"
                        THEN {sel} ELSE {sel, {}}
          \/ UNCHANGED <<where, stale, sel>>
  /\ UNCHANGED <<atRoot, list, drag, last, asked, rename>>

(* ---- drag and drop ----------------------------------------------------------------- *)

DragStart ==
  /\ Free
  /\ \E i \in list : drag' = [item |-> i, sel |-> Selected]
  /\ UNCHANGED <<atRoot, where, list, stale, sel, ops, last, asked, rename>>

DragEnd ==
  /\ drag # NoDrag /\ drag' = NoDrag
  /\ UNCHANGED <<atRoot, where, list, stale, sel, ops, last, asked, rename>>

(* The monitor reads the selection through a ref when the item is dropped: *)
(* a selected item takes the selection with it, another one moves alone.   *)
(* moveSelection leaves out what is not listed any more; what is listed    *)
(* carries the id of the folder shown, which no target has.                *)
Drops(selection) ==
  LET i == drag.item
  IN  \E to \in (Folders \cap list) \cup {"root"} :
        /\ drag # NoDrag /\ i # to /\ drag' = NoDrag
        /\ LET wanted == IF i \in selection THEN selection ELSE {i}
               moves == wanted \cap list
           IN  /\ Asks(Cardinality(moves))
               /\ ops' = ops \cup {[kind |-> "move", item |-> m, to |-> to] : m \in moves}
  /\ UNCHANGED <<atRoot, where, list, stale, sel, last, rename>>

DropAsDragged == Drops(drag.sel)

Drop == Drops(Selected)

(* A move is refused for an item that is gone, a target that is, and a     *)
(* folder into itself; the batch makes the listing stale when it is over.  *)
MoveAnswered ==
  /\ \E o \in ops :
       /\ o.kind = "move" /\ ops' = ops \ {o}
       /\ where' = IF where[o.item] = "trash" \/ o.to = o.item
                      \/ (o.to \in Folders /\ where[o.to] = "trash")
                   THEN where ELSE [where EXCEPT ![o.item] = o.to]
       /\ stale' = (stale \/ ~\E p \in ops' : p.kind = "move")
  /\ UNCHANGED <<atRoot, list, sel, drag, last, asked, rename>>

(* ---- rename and create --------------------------------------------------------------- *)

OpenKeepsTheName ==
  /\ Free
  /\ \E f \in FileItems \cap list : rename' = [rename EXCEPT !.target = f]
  /\ UNCHANGED <<atRoot, where, list, stale, sel, drag, ops, last, asked>>

(* The name is seeded anew on every open.                                  *)
OpenRename ==
  /\ Free
  /\ \E f \in FileItems \cap list :
       rename' = [rename EXCEPT !.target = f, !.typed = NoItem, !.error = FALSE]
  /\ UNCHANGED <<atRoot, where, list, stale, sel, drag, ops, last, asked>>

TypeName ==
  /\ rename.target # NoItem /\ rename' = [rename EXCEPT !.typed = rename.target]
  /\ UNCHANGED <<atRoot, where, list, stale, sel, drag, ops, last, asked>>

(* Rename is disabled for an untouched name and while a rename is pending. *)
SubmitRename ==
  /\ rename.target # NoItem /\ rename.typed # NoItem /\ rename.pending = NoItem /\ Asks(1)
  /\ rename' = [rename EXCEPT !.pending = rename.target, !.sent = rename.typed]
  /\ UNCHANGED <<atRoot, where, list, stale, sel, drag, ops, last>>

(* Escape and a click outside wait for a pending rename, Cancel does not.  *)
CloseRename ==
  /\ rename.target # NoItem /\ rename' = [rename EXCEPT !.target = NoItem]
  /\ UNCHANGED <<atRoot, where, list, stale, sel, drag, ops, last, asked>>

(* The answer closes the dialog, or shows its error there, whichever file  *)
(* the dialog is about by now.                                             *)
RenameAnswered ==
  /\ rename.pending # NoItem
  /\ \/ /\ rename' = [rename EXCEPT !.pending = NoItem, !.target = NoItem]
        /\ stale' = TRUE
     \/ /\ rename' = [rename EXCEPT !.pending = NoItem, !.error = TRUE]
        /\ UNCHANGED stale
  /\ UNCHANGED <<atRoot, where, list, sel, drag, ops, last, asked>>

(* The dialog creates in the root and invalidates the listing named "",    *)
(* which is not the one any grid shows.                                    *)
CreateFolder ==
  /\ where[Born] = NoItem /\ Free /\ Asks(1)
  /\ where' = [where EXCEPT ![Born] = "root"]
  /\ UNCHANGED <<atRoot, list, stale, sel, drag, ops, last, rename>>

GridNext ==
  \/ FolderItemsAnswered \/ SetItemSelected \/ ToggleAll \/ ChangedElsewhere
  \/ DeleteSelected \/ FolderActions \/ DeleteAnswered
  \/ DragStart \/ DragEnd \/ Drop \/ MoveAnswered
  \/ OpenRename \/ TypeName \/ SubmitRename \/ CloseRename \/ RenameAnswered
  \/ CreateFolder

GridSpec == GridInit /\ [][GridNext]_gridVars

(* ---- properties ------------------------------------------------------------------ *)

(* A drop moves the dragged item, or the selection as it is at the drop:   *)
(* never an item whose deletion cleared it from the selection while the    *)
(* pointer was on its way.                                                 *)
MovesTheSelectionNow ==
  \A o \in ops' \ ops :
    o.kind = "move" => o.item \in Selected \cup ({drag.item} \cap list)

(* A name is sent for the file it was typed for, also when the dialog was  *)
(* cancelled over a half-typed name and opened again for another file.     *)
RenamesWhatWasTyped == rename.pending # NoItem => rename.sent = rename.pending
=============================================================================
