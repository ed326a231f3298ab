--------------------------- MODULE VersionCommit ---------------------------
(* Committing an edited file in the metadata service (editing.go,          *)
(* versions_repo.go): a save names the version it was made from, wins the  *)
(* next number with INSERT ... IF NOT EXISTS, moves the head by compare-   *)
(* and-set, and rewrites the rows and the manifest that describe the file. *)
(* Editors load and save whenever they like, the same bytes again included *)
(* (a retry). What a save is checked for before it may win (sizes, blocks  *)
(* in storage, document type) changes no state and is left out, and so are *)
(* thumbnails, caches and consolidated copies.                             *)
EXTENDS Naturals

CONSTANTS Editors, Requests,
          Contents,     \* bytes a save may hold; 0 is the original
          MaxVersion,   \* bound: versions of the file
          MaxFaults     \* bound: requests that die or lose a statement

VARIABLES row,       \* file_versions: the bytes of each version, and what they were made from
          head,      \* file_head, 0: no row
          file,      \* the version files_by_id describes
          folder,    \* the version files_by_folder describes
          sorted,    \* versions with a row in the folder's updated-at index
          manifest,  \* versions with rows in the download manifest
          shown,     \* what each editor loaded
          request, faults,
          credit,    \* history: how often a version was reported as new
          cut,       \* history: a save failed after it had won its version
          crossed    \* history: a save began before its base was written out

rows == <<file, folder, sorted, manifest>>
history == <<credit, cut, crossed>>
versionVars == <<row, head, rows, shown, request, faults, history>>

Versions == 1..MaxVersion
NoRow == [bytes |-> 0, from |-> 0, won |-> FALSE]
Idle == [pc |-> "idle", base |-> 0, seen |-> 0, bytes |-> 0, file |-> 0, at |-> 0,
         verdict |-> "none", told |-> 0]

(* The file predates the version history: no version row and no head.      *)
VersionInit ==
  /\ row = [v \in Versions |-> NoRow] /\ head = 0
  /\ file = 1 /\ folder = 1 /\ sorted = {1} /\ manifest = {1}
  /\ shown = [e \in Editors |-> [version |-> 1, bytes |-> 0]]
  /\ request = [r \in Requests |-> Idle] /\ faults = 0
  /\ credit = [v \in Versions |-> 0] /\ cut = FALSE /\ crossed = FALSE

Bytes(v) == row[v].bytes

(* resolveEditState: the head's version row, or the file row without one.  *)
Current == IF head = 0 THEN file ELSE head

(* GetEditSession: the version and the bytes its ticket pins.              *)
GetEditSession(e) ==
  /\ shown[e].version # Current
  /\ shown' = [shown EXCEPT ![e] = [version |-> Current, bytes |-> Bytes(Current)]]
  /\ UNCHANGED <<row, head, rows, request, faults, history>>

Save(e, r, x) ==
  /\ request[r].pc \in {"idle", "answered"} /\ shown[e].version < MaxVersion
  /\ request' = [request EXCEPT ![r] =
       [Idle EXCEPT !.pc = "read", !.base = shown[e].version, !.seen = shown[e].bytes,
                    !.bytes = x]]
  /\ UNCHANGED <<row, head, rows, shown, faults, history>>

At(r, step) == request[r].pc = step
Goto(r, step) == request' = [request EXCEPT ![r].pc = step]
Answer(r, verdict, version) ==
  request' = [request EXCEPT ![r].pc = "answered", ![r].verdict = verdict,
                             ![r].told = version]

(* A save that is behind, or lost its number, is a retry if the head holds *)
(* its bytes, and a conflict otherwise.                                    *)
Refuse(r) ==
  Answer(r, IF Bytes(Current) = request[r].bytes THEN "duplicate" ELSE "conflict", Current)

Winning == {"advance", "cas"}
Projecting == {"file", "folder", "sort", "unsort", "clear", "write"}

(* The file row is read before the head is.                                *)
GetFileOwned(r) ==
  /\ At(r, "read")
  /\ request' = [request EXCEPT ![r].pc = "resolve", ![r].file = file]
  /\ UNCHANGED <<row, head, rows, shown, faults, history>>

Resolve(r) ==
  /\ At(r, "resolve")
  /\ \/ /\ request[r].base < Current /\ Refuse(r) /\ UNCHANGED crossed
     \/ /\ request[r].base = Current /\ Goto(r, "insert")
        /\ crossed' = \/ crossed \/ request[r].file # request[r].base
                      \/ \E q \in Requests : request[q].pc \in Projecting
  /\ UNCHANGED <<row, head, rows, shown, faults, credit, cut>>

InsertFileVersionIfAbsent(r) ==
  LET v == request[r].base + 1 IN
  /\ At(r, "insert")
  /\ \/ /\ ~row[v].won
        /\ row' = [row EXCEPT ![v] = [bytes |-> request[r].bytes, from |-> request[r].seen,
                                      won |-> TRUE]]
        /\ Goto(r, "advance")
     \/ /\ row[v].won /\ Goto(r, "lost") /\ UNCHANGED row
  /\ UNCHANGED <<head, rows, shown, faults, history>>

ResolveLost(r) ==
  /\ At(r, "lost") /\ Refuse(r)
  /\ UNCHANGED <<row, head, rows, shown, faults, history>>

(* AdvanceFileHead: a head at or past the version is left alone; a refused *)
(* compare-and-set reads again. Nobody can move the head of a version that *)
(* is being won, so its limit of five attempts is left out.                *)
GetFileHead(r) ==
  /\ At(r, "advance")
  /\ request' = [request EXCEPT ![r].pc = IF head > request[r].base THEN "file" ELSE "cas",
                                ![r].at = head]
  /\ UNCHANGED <<row, head, rows, shown, faults, history>>

AdvanceFileHead(r) ==
  LET free == head = request[r].at IN
  /\ At(r, "cas")
  /\ head' = IF free THEN request[r].base + 1 ELSE head
  /\ Goto(r, IF free THEN "file" ELSE "advance")
  /\ UNCHANGED <<row, rows, shown, faults, history>>

(* ---- ApplyHeadContent: six statements, none of them conditional ----------- *)

Written(r) == request[r].base + 1

UpdateFile(r) ==
  /\ At(r, "file") /\ file' = Written(r) /\ Goto(r, "folder")
  /\ UNCHANGED <<row, head, folder, sorted, manifest, shown, faults, history>>

UpdateFolderFile(r) ==
  /\ At(r, "folder") /\ folder' = Written(r) /\ Goto(r, "sort")
  /\ UNCHANGED <<row, head, file, sorted, manifest, shown, faults, history>>

(* replaceFilesByFolderUpdated: the new row first, then the row of the     *)
(* file as it was read when the save came in.                              *)
InsertFilesByFolderUpdated(r) ==
  /\ At(r, "sort") /\ sorted' = sorted \cup {Written(r)} /\ Goto(r, "unsort")
  /\ UNCHANGED <<row, head, file, folder, manifest, shown, faults, history>>

DeleteFilesByFolderUpdated(r) ==
  /\ At(r, "unsort") /\ sorted' = sorted \ {request[r].file} /\ Goto(r, "clear")
  /\ UNCHANGED <<row, head, file, folder, manifest, shown, faults, history>>

DeleteFileManifest(r) ==
  /\ At(r, "clear") /\ manifest' = {} /\ Goto(r, "write")
  /\ UNCHANGED <<row, head, file, folder, sorted, shown, faults, history>>

(* A longer list that is still there keeps its tail.                       *)
WriteFileManifest(r) ==
  /\ At(r, "write")
  /\ manifest' \in {{Written(r)}, manifest \cup {Written(r)}}
  /\ Answer(r, "new", Written(r))
  /\ credit' = [credit EXCEPT ![Written(r)] = @ + 1]
  /\ UNCHANGED <<row, head, file, folder, sorted, shown, faults, cut, crossed>>

(* The request dies or a statement fails. A failure after the head moved   *)
(* is logged and the save still reported as committed.                     *)
Fail(r) ==
  LET pc == request[r].pc IN
  /\ pc \notin {"idle", "answered"} /\ faults < MaxFaults /\ faults' = faults + 1
  /\ cut' = (cut \/ pc \in Winning \cup Projecting)
  /\ \/ request' = [request EXCEPT ![r] = Idle] /\ UNCHANGED credit
     \/ /\ pc \in Projecting /\ Answer(r, "new", Written(r))
        /\ credit' = [credit EXCEPT ![Written(r)] = @ + 1]
  /\ UNCHANGED <<row, head, rows, shown, crossed>>

CommitVersion(r) ==
  \/ GetFileOwned(r) \/ Resolve(r) \/ InsertFileVersionIfAbsent(r) \/ ResolveLost(r)
  \/ GetFileHead(r) \/ AdvanceFileHead(r)
  \/ UpdateFile(r) \/ UpdateFolderFile(r)
  \/ InsertFilesByFolderUpdated(r) \/ DeleteFilesByFolderUpdated(r)
  \/ DeleteFileManifest(r) \/ WriteFileManifest(r)

VersionNext ==
  \/ \E e \in Editors : GetEditSession(e) \/ \E r \in Requests, x \in Contents : Save(e, r, x)
  \/ \E r \in Requests : CommitVersion(r) \/ Fail(r)

VersionSpec == VersionInit /\ [][VersionNext]_versionVars

(* Requests run to their end, and editors go on loading and saving.        *)
FairVersionSpec ==
  /\ VersionSpec
  /\ \A r \in Requests : WF_versionVars(CommitVersion(r))
  /\ \A e \in Editors :
       /\ WF_versionVars(GetEditSession(e))
       /\ \A r \in Requests : WF_versionVars(\E x \in Contents : Save(e, r, x))

-----------------------------------------------------------------------------
(* A version was made from the bytes of the version before it, however     *)
(* many saves of one base overlap and retry (CommitVersion,                *)
(* InsertFileVersionIfAbsent).                                             *)
MadeFromTheVersionBefore ==
  \A v \in Versions \ {1} : row[v].won => row[v].from = Bytes(v - 1)

(* A save that was told it is committed, as new or as a duplicate, has its *)
(* bytes in a version the head has reached; and a version is reported as   *)
(* new at most once, which is how often its blocks are counted.            *)
CommittedIsKept ==
  /\ \A r \in Requests :
       request[r].verdict \in {"new", "duplicate"} =>
         /\ Bytes(request[r].told) = request[r].bytes
         /\ request[r].told <= Current
  /\ \A v \in Versions : credit[v] <= 1

(* With no save under way every row describes the head, unless a save      *)
(* failed after it had won or began before its base was written out        *)
(* (ApplyHeadContent).                                                     *)
RowsShowTheHead ==
  (\A r \in Requests : request[r].pc \in {"idle", "answered"}) /\ ~cut /\ ~crossed =>
    file = Current /\ folder = Current /\ sorted = {Current} /\ manifest = {Current}

(* A version that was won is reached by the head: versions_repo.go says so *)
(* of a head that could not be moved.                                      *)
WonVersionIsReached ==
  \A v \in Versions : row[v].won ~> head >= v
=============================================================================
