----------------------------- MODULE EditSession ----------------------------
(* The edit route of the web client (modules/files/views/file-edit-view,   *)
(* use-edit-session, lib/edit-commit): the session query, the editor it    *)
(* feeds, and a save, which hashes the edited bytes, asks which blocks the *)
(* file already holds, sends the others and commits a new version on top   *)
(* of the one the session named when Save was clicked.                     *)
(* A block is retried while its failure is transient; a retry changes      *)
(* nothing here, so only the attempt that settles a block is a step.       *)
(* The file's versions on the server (head, made, wire) are external.      *)
EXTENDS Naturals, FiniteSets

CONSTANTS Blocks,      \* blocks of the edited bytes, numbered in order
          Workers,     \* PARALLEL_WORKERS
          MaxSaves,    \* bound: saves started
          MaxVersion   \* bound: versions of the file

VARIABLES kind,     \* the file's type
          head,     \* the version the server holds
          made,     \* versions committed from here
          wire,     \* commit requests the server has not handled
          session,  \* the session query
          fetch,    \* its fetch under way, and the version it read
          editor,   \* the version its ticket pins and whether it is loaded
          dirty,    \* isDirty
          status,   \* saveState
          abortRef, \* the save Cancel would abort, 0: none
          saves, here

editVars == <<kind, head, made, wire, session, fetch, editor, dirty, status, abortRef,
              saves, here>>

SaveIds == 1..MaxSaves

NoFetch == [on |-> FALSE, read |-> 0]
Asked == [on |-> TRUE, read |-> 0]
NoSession == [status |-> "pending", version |-> 0, can |-> FALSE]
NoEditor == [version |-> 0, ready |-> FALSE]
Unsaved == [phase |-> "none", base |-> 0, of |-> 0, sent |-> {}, doing |-> {},
            bad |-> "none", abort |-> FALSE, live |-> FALSE, verdict |-> "none"]
Over == [Unsaved EXCEPT !.phase = "done"]

EditInit ==
  /\ kind \in {"pdf", "docx", "xlsx"}
  /\ head = 1 /\ made = {} /\ wire = {}
  /\ session = NoSession /\ fetch = Asked /\ editor = NoEditor
  /\ dirty = FALSE /\ status = "idle" /\ abortRef = 0
  /\ saves = [n \in SaveIds |-> Unsaved] /\ here = TRUE

(* The route renders an editor for a session that can be edited; an error  *)
(* replaces it even while the query still has data.                        *)
Editing == here /\ session.status = "success" /\ session.can

(* ---- the session query --------------------------------------------------------- *)

RefetchSession ==
  /\ here /\ ~fetch.on /\ session.status # "pending" /\ fetch' = Asked
  /\ UNCHANGED <<kind, head, made, wire, session, editor, dirty, status, abortRef, saves,
                 here>>

ReadSession ==
  /\ fetch = Asked /\ fetch' = [fetch EXCEPT !.read = head]
  /\ UNCHANGED <<kind, head, made, wire, session, editor, dirty, status, abortRef, saves,
                 here>>

(* Every answer brings a new ticket, and a new ticket a new editor.        *)
SessionAnswered ==
  /\ fetch.read # 0 /\ fetch' = NoFetch
  /\ \E can \in BOOLEAN :
       session' = [status |-> "success", version |-> fetch.read, can |-> can]
  /\ editor' = IF here /\ session'.can THEN [version |-> fetch.read, ready |-> FALSE]
               ELSE NoEditor
  /\ UNCHANGED <<kind, head, made, wire, dirty, status, abortRef, saves, here>>

SessionFailed ==
  /\ fetch.on /\ fetch' = NoFetch
  /\ session' = [session EXCEPT !.status = "error"] /\ editor' = NoEditor
  /\ UNCHANGED <<kind, head, made, wire, dirty, status, abortRef, saves, here>>

(* ---- the editor ------------------------------------------------------------------ *)

EditorLoads ==
  /\ Editing /\ ~editor.ready /\ editor' = [editor EXCEPT !.ready = TRUE]
  /\ UNCHANGED <<kind, head, made, wire, session, fetch, dirty, status, abortRef, saves,
                 here>>

TrackInteraction ==
  /\ Editing /\ dirty' = TRUE
  /\ UNCHANGED <<kind, head, made, wire, session, fetch, editor, status, abortRef, saves,
                 here>>

(* The handle of the docx editor is there before its document is.          *)
CanCollect == editor.ready \/ kind = "docx"

(* leaveEdit: a save under way is not aborted, but nobody sees its end.    *)
LeaveEdit ==
  /\ here /\ here' = FALSE
  /\ saves' = [n \in SaveIds |-> [saves[n] EXCEPT !.live = FALSE]]
  /\ editor' = NoEditor /\ abortRef' = 0
  /\ UNCHANGED <<kind, head, made, wire, session, fetch, dirty, status>>

(* The cached session is rendered at once; a stale one is fetched again.   *)
EnterEdit ==
  /\ ~here /\ here' = TRUE
  /\ dirty' = FALSE /\ status' = "idle"
  /\ editor' = IF session.status = "success" /\ session.can
               THEN [version |-> session.version, ready |-> FALSE] ELSE NoEditor
  /\ fetch' \in {fetch, Asked} /\ (session.status # "success" => fetch'.on)
  /\ UNCHANGED <<kind, head, made, wire, session, abortRef, saves>>

(* ---- a save ------------------------------------------------------------------------ *)

Running(n) == saves[n].phase \notin {"none", "settling", "done"}

HandleSave(n) ==
  /\ Editing /\ status # "saving"
  /\ saves[n].phase = "none" /\ \A k \in 1..(n - 1) : saves[k].phase # "none"
  /\ IF CanCollect
     THEN /\ saves' = [saves EXCEPT ![n] =
                        [Unsaved EXCEPT !.phase = "collecting", !.base = session.version,
                                        !.of = IF editor.ready THEN editor.version ELSE 0,
                                        !.live = TRUE]]
          /\ status' = "saving" /\ abortRef' = n
     ELSE /\ saves' = [saves EXCEPT ![n] = Over]
          /\ status' = "failed" /\ abortRef' = 0
  /\ UNCHANGED <<kind, head, made, wire, session, fetch, editor, dirty, here>>

HandleCancelSave ==
  /\ Editing /\ status = "saving" /\ abortRef # 0
  /\ saves' = [saves EXCEPT ![abortRef].abort = TRUE]
  /\ UNCHANGED <<kind, head, made, wire, session, fetch, editor, dirty, status, abortRef,
                 here>>

(* EditSaveAbortedError ends in "idle", every other error in "failed".     *)
Ends(n, how) ==
  /\ saves' = [saves EXCEPT ![n] = Over]
  /\ status' = IF saves[n].live THEN how ELSE status
  /\ abortRef' = IF saves[n].live THEN 0 ELSE abortRef

Goes(n, s) == saves' = [saves EXCEPT ![n] = s] /\ UNCHANGED <<status, abortRef>>

CollectEditedBytes(n) ==
  /\ saves[n].phase = "collecting"
  /\ \/ Goes(n, [saves[n] EXCEPT !.phase = "hashing"])
     \/ Ends(n, "failed")
  /\ UNCHANGED <<kind, head, made, wire, session, fetch, editor, dirty, here>>

HashBlocks(n) ==
  /\ saves[n].phase = "hashing"
  /\ IF saves[n].abort THEN Ends(n, "idle")
     ELSE Goes(n, [saves[n] EXCEPT !.phase = "preparing"])
  /\ UNCHANGED <<kind, head, made, wire, session, fetch, editor, dirty, here>>

(* The file's own blocks need not be sent.  An aborted request throws a    *)
(* ConnectError, which is not the EditSaveAbortedError.                    *)
PrepareCommit(n) ==
  /\ saves[n].phase = "preparing"
  /\ \/ /\ ~saves[n].abort
        /\ \E known \in SUBSET Blocks :
             Goes(n, [saves[n] EXCEPT !.phase = "uploading", !.sent = known])
     \/ Ends(n, "failed")
  /\ UNCHANGED <<kind, head, made, wire, session, fetch, editor, dirty, here>>

ToSend(n) == Blocks \ (saves[n].sent \cup saves[n].doing)

(* runWithWorkers: a free worker takes the next block while none failed.   *)
StartBlock(n) ==
  /\ saves[n].phase = "uploading" /\ saves[n].bad = "none"
  /\ ToSend(n) # {} /\ Cardinality(saves[n].doing) < Workers
  /\ IF saves[n].abort THEN Goes(n, [saves[n] EXCEPT !.bad = "aborted"])
     ELSE \E b \in ToSend(n) : /\ \A c \in ToSend(n) : b =< c
                               /\ Goes(n, [saves[n] EXCEPT !.doing = @ \cup {b}])
  /\ UNCHANGED <<kind, head, made, wire, session, fetch, editor, dirty, here>>

BlockSent(n) ==
  /\ \E b \in saves[n].doing :
       Goes(n, [saves[n] EXCEPT !.doing = @ \ {b}, !.sent = @ \cup {b}])
  /\ UNCHANGED <<kind, head, made, wire, session, fetch, editor, dirty, here>>

(* The third attempt failed, or the failure is not a transient one, or an  *)
(* abort hit the call ("failed") or the sleep before a retry ("aborted").  *)
BlockFailed(n) ==
  /\ \E b \in saves[n].doing, why \in {"failed", "aborted"} :
       /\ why = "aborted" => saves[n].abort
       /\ Goes(n, [saves[n] EXCEPT !.doing = @ \ {b},
                                   !.bad = IF @ = "none" THEN why ELSE @])
  /\ UNCHANGED <<kind, head, made, wire, session, fetch, editor, dirty, here>>

Request(n, base) ==
  [n |-> n, base |-> base, of |-> saves[n].of, whole |-> saves[n].sent = Blocks]

(* The workers are done: the first failure ends the save, else it commits. *)
RunWithWorkersForgiving(n) ==
  /\ saves[n].phase = "uploading" /\ saves[n].doing = {}
  /\ saves[n].bad # "none" \/ ToSend(n) = {}
  /\ IF saves[n].abort
     THEN Ends(n, "idle") /\ UNCHANGED wire
     ELSE /\ Goes(n, [saves[n] EXCEPT !.phase = "committing"])
          /\ wire' = wire \cup {Request(n, saves[n].base)}
  /\ UNCHANGED <<kind, head, made, session, fetch, editor, dirty, here>>

CommitsOnTheSessionNow(n) ==
  /\ saves[n].phase = "uploading" /\ saves[n].doing = {}
  /\ saves[n].bad = "none" /\ ToSend(n) = {} /\ ~saves[n].abort
  /\ Goes(n, [saves[n] EXCEPT !.phase = "committing"])
  /\ wire' = wire \cup {Request(n, session.version)}
  /\ UNCHANGED <<kind, head, made, session, fetch, editor, dirty, here>>

RunWithWorkers(n) ==
  /\ saves[n].phase = "uploading" /\ saves[n].doing = {}
  /\ saves[n].bad # "none" \/ ToSend(n) = {}
  /\ IF saves[n].bad # "none" \/ saves[n].abort
     THEN Ends(n, IF saves[n].bad = "failed" THEN "failed" ELSE "idle") /\ UNCHANGED wire
     ELSE /\ Goes(n, [saves[n] EXCEPT !.phase = "committing"])
          /\ wire' = wire \cup {Request(n, saves[n].base)}
  /\ UNCHANGED <<kind, head, made, session, fetch, editor, dirty, here>>

Tells(n, verdict) ==
  saves' = IF saves[n].phase = "committing" THEN [saves EXCEPT ![n].verdict = verdict]
           ELSE saves

(* The server commits on top of the base or reports a conflict, whether or *)
(* not the client still waits.                                             *)
CommitEdit ==
  /\ head < MaxVersion
  /\ \E w \in wire :
       /\ wire' = wire \ {w}
       /\ IF w.base = head
          THEN /\ head' = head + 1
               /\ made' = made \cup {[version |-> head', of |-> w.of,
                                      whole |-> w.whole]}
               /\ Tells(w.n, "saved")
          ELSE /\ Tells(w.n, "conflict")
               /\ UNCHANGED <<head, made>>
  /\ UNCHANGED <<kind, session, fetch, editor, dirty, status, abortRef, here>>

CommittedElsewhere ==
  /\ head < MaxVersion /\ head' = head + 1
  /\ UNCHANGED <<kind, made, wire, session, fetch, editor, dirty, status, abortRef, saves,
                 here>>

(* Both answers make the session stale and wait for its refetch; only a    *)
(* committed one clears the unsaved changes.                               *)
CommitAnswered(n) ==
  /\ saves[n].phase = "committing" /\ saves[n].verdict # "none" /\ ~saves[n].abort
  /\ saves' = [saves EXCEPT ![n].phase = "settling"]
  /\ IF saves[n].live
     THEN /\ status' = saves[n].verdict
          /\ dirty' = (dirty /\ saves[n].verdict = "conflict")
     ELSE UNCHANGED <<status, dirty>>
  /\ fetch' = Asked
  /\ UNCHANGED <<kind, head, made, wire, session, editor, abortRef, here>>

(* The call failed or was aborted, before or after the server handled it.  *)
CommitFailed(n) ==
  /\ saves[n].phase = "committing" /\ Ends(n, "failed")
  /\ UNCHANGED <<kind, head, made, wire, session, fetch, editor, dirty, here>>

(* The finally block clears the abort handle, also of a later save.        *)
Settled(n) ==
  /\ saves[n].phase = "settling" /\ ~fetch.on
  /\ saves' = [saves EXCEPT ![n] = Over]
  /\ abortRef' = IF saves[n].live THEN 0 ELSE abortRef
  /\ UNCHANGED <<kind, head, made, wire, session, fetch, editor, dirty, status, here>>

SaveStep ==
  \E n \in SaveIds :
    \/ HandleSave(n) \/ CollectEditedBytes(n) \/ HashBlocks(n) \/ PrepareCommit(n)
    \/ StartBlock(n) \/ BlockSent(n) \/ BlockFailed(n) \/ RunWithWorkers(n)
    \/ CommitAnswered(n) \/ CommitFailed(n) \/ Settled(n)

EditNext ==
  \/ RefetchSession \/ ReadSession \/ SessionAnswered \/ SessionFailed
  \/ EditorLoads \/ TrackInteraction \/ LeaveEdit \/ EnterEdit
  \/ SaveStep \/ HandleCancelSave \/ CommitEdit \/ CommittedElsewhere

EditSpec == EditInit /\ [][EditNext]_editVars

(* ---- properties ------------------------------------------------------------------ *)

(* A save never overwrites a version its editor did not show: what is      *)
(* committed as version v was loaded from version v - 1, also when the     *)
(* session is fetched again while the save runs.  (A docx save clicked     *)
(* while the document loads commits a blank one: it has no such promise.)  *)
NothingOverwritten ==
  \A m \in made : m.of = m.version - 1 \/ (kind = "docx" /\ m.of = 0)

(* "saveEditedFile ... so a caller cannot accidentally commit a block list *)
(* it did not send": every block of a committed version was sent by this   *)
(* save or is one the file already held.                                   *)
CommitsWhatItSent == \A m \in made : m.whole
=============================================================================
