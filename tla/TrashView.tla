------------------------------ MODULE TrashView -----------------------------
(* The trash of the web client (deleted-files-view with the trash hooks of *)
(* api/use-files): its listing, the selection, restore and permanent       *)
(* deletion.  The listing has one page after another, each with its files  *)
(* first, so files and folders alternate; permanent deletion asks for all  *)
(* files first, then all folders, and names what failed by the position of *)
(* its answer.  The metadata service (external) refuses what is gone.      *)
EXTENDS Naturals, Sequences, FiniteSets, SequencesExt

CONSTANTS Listing,       \* the items in the order of the listing
          DeletedFiles,  \* those that are files
          MaxBatches     \* bound: restores and deletions started

VARIABLES held,          \* where an item is, on the server
          trashList,     \* the cached listing
          trashStale,    \* it is being fetched again
          selectedKeys,  \* the items selected
          mutations,     \* requests under way, by batch and position
          newestCall,    \* the newest request of each of the four mutations
          batches        \* the batches: kind, targets, failed positions, alert

trashVars == <<held, trashList, trashStale, selectedKeys, mutations, newestCall, batches>>

TrashItems == ToSet(Listing)
BatchKinds == {"restore", "purge"}
Sorts == {"file", "folder"}
SortOf(i) == IF i \in DeletedFiles THEN "file" ELSE "folder"
NoOp == [batch |-> 0, at |-> 0]

TrashInit ==
  /\ held = [i \in TrashItems |-> "trash"]
  /\ trashList = Listing /\ trashStale = FALSE /\ selectedKeys = {}
  /\ mutations = {} /\ newestCall = [k \in BatchKinds, s \in Sorts |-> NoOp] /\ batches = <<>>

Chosen == SelectSeq(trashList, LAMBDA i : i \in selectedKeys)
FilesFirst(s) ==
  SelectSeq(s, LAMBDA i : i \in DeletedFiles) \o SelectSeq(s, LAMBDA i : i \notin DeletedFiles)

(* isMutating: the isPending of a mutation is that of its newest call.     *)
IsMutating == \E k \in BatchKinds, s \in Sorts : newestCall[k, s] \in mutations

TrashAnswered ==
  /\ trashStale /\ trashStale' = FALSE
  /\ trashList' = SelectSeq(Listing, LAMBDA i : held[i] = "trash")
  /\ UNCHANGED <<held, selectedKeys, mutations, newestCall, batches>>

SetSelected ==
  /\ \E i \in ToSet(trashList) :
       selectedKeys' = IF i \in selectedKeys THEN selectedKeys \ {i} ELSE selectedKeys \cup {i}
  /\ UNCHANGED <<held, trashList, trashStale, mutations, newestCall, batches>>

ToggleAllTrash ==
  /\ trashList # <<>> /\ selectedKeys' = IF Chosen = trashList THEN {} ELSE ToSet(trashList)
  /\ UNCHANGED <<held, trashList, trashStale, mutations, newestCall, batches>>

(* Every target's request leaves at once.                                  *)
Starts(kind, targets) ==
  /\ Len(Chosen) > 0 /\ ~IsMutating /\ Len(batches) < MaxBatches
  /\ LET n == Len(batches) + 1
         newest(s) == {j \in DOMAIN targets : SortOf(targets[j]) = s}
     IN  /\ batches' = Append(batches, [kind |-> kind, targets |-> targets, shown |-> Chosen,
                                        failed |-> {}, lost |-> {}, told |-> {}])
         /\ mutations' = mutations \cup {[batch |-> n, at |-> j] : j \in DOMAIN targets}
         /\ newestCall' = [k \in BatchKinds, s \in Sorts |->
                            IF k = kind /\ newest(s) # {}
                            THEN [batch |-> n, at |-> Max(newest(s))] ELSE newestCall[k, s]]
  /\ UNCHANGED <<held, trashList, trashStale, selectedKeys>>

RestoreSelected == Starts("restore", Chosen)

PermanentlyDeleteSelected == Starts("purge", FilesFirst(Chosen))

(* A request succeeds, is refused, or leaves part of a folder behind,      *)
(* which counts as a failure; a success makes the listing stale.           *)
Answers(o) ==
  LET b == batches[o.batch]
      i == b.targets[o.at]
  IN  /\ mutations' = mutations \ {o}
      /\ \/ /\ held[i] = "trash"
            /\ held' = [held EXCEPT ![i] = IF b.kind = "restore" THEN "live" ELSE "gone"]
            /\ trashStale' = TRUE
            /\ batches' \in IF b.kind = "purge" /\ i \notin DeletedFiles
                            THEN {batches, [batches EXCEPT ![o.batch].failed = @ \cup {o.at},
                                                           ![o.batch].lost = @ \cup {i}]}
                            ELSE {batches}
         \/ /\ batches' = [batches EXCEPT ![o.batch].failed = @ \cup {o.at},
                                          ![o.batch].lost = @ \cup {i}]
            /\ UNCHANGED <<held, trashStale>>

MutationAnswered == (\E o \in mutations : Answers(o)) /\ UNCHANGED <<trashList, selectedKeys,
                                                                     newestCall>>

AllAnswered(n) == ~\E o \in mutations : o.batch = n

(* A restore that failed leaves the selection; a deletion clears it and    *)
(* names every target whose answer was a failure.                          *)
SettleByTheRows ==
  \E n \in DOMAIN batches :
    /\ batches[n].kind \in BatchKinds /\ AllAnswered(n)
    /\ selectedKeys' = IF batches[n].kind = "purge" \/ batches[n].failed = {} THEN {}
                       ELSE selectedKeys
    /\ batches' = [batches EXCEPT ![n].kind = "over",
                     ![n].told = {batches[n].shown[j] : j \in batches[n].failed}]
    /\ UNCHANGED <<held, trashList, trashStale, mutations, newestCall>>

Settle ==
  \E n \in DOMAIN batches :
    /\ batches[n].kind \in BatchKinds /\ AllAnswered(n)
    /\ selectedKeys' = IF batches[n].kind = "purge" \/ batches[n].failed = {} THEN {}
                       ELSE selectedKeys
    /\ batches' = [batches EXCEPT ![n].kind = "over",
                     ![n].told = {batches[n].targets[j] : j \in batches[n].failed}]
    /\ UNCHANGED <<held, trashList, trashStale, mutations, newestCall>>

TrashNext ==
  \/ TrashAnswered \/ SetSelected \/ ToggleAllTrash
  \/ RestoreSelected \/ PermanentlyDeleteSelected \/ MutationAnswered \/ Settle

TrashSpec == TrashInit /\ [][TrashNext]_trashVars

(* ---- properties ------------------------------------------------------------------ *)

(* The alert after a permanent deletion names the items that failed and no *)
(* other, whatever the order of the rows and of the answers.               *)
NamesTheFailed ==
  \A n \in DOMAIN batches :
    batches[n].kind = "over" => batches[n].told = batches[n].lost
=============================================================================
