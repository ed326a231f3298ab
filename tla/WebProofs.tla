------------------------------ MODULE WebProofs ------------------------------
(* What is proved of the web client's session and of its file manager, for *)
(* every value of the constants: the edit route, the cookies and their     *)
(* refreshes, the preview, the grid and the trash.  One part after another *)
(* has its inductive invariant, that its initial states satisfy it and     *)
(* that its steps keep it; ClientsProofs puts the parts together.          *)
EXTENDS EditSession, WebSession, FilePreview, FileGrid, TrashView,
        XlsxViewer, DocxViewer, SequenceTheorems, FiniteSetTheorems, TLAPS

-----------------------------------------------------------------------------
(* ---- Edit route: a save is made of the version its editor shows -------- *)

(* The base of a save and the version its bytes were loaded from are read  *)
(* from two places, the session and the editor.  They agree because an     *)
(* editor is of the session on screen as long as one is shown (Shown); the *)
(* save then carries both to the commit (Stands), whatever is refetched.   *)

Phases == {"none", "collecting", "hashing", "preparing", "uploading", "committing",
           "settling", "done"}
Save == [phase : Phases, base : Nat, of : Nat, sent : SUBSET Blocks, doing : SUBSET Blocks,
         bad : {"none", "failed", "aborted"}, abort : BOOLEAN, live : BOOLEAN,
         verdict : {"none", "saved", "conflict"}]

(* What is committed on top of base was loaded from base.                  *)
Stands(of, base) == of = base \/ (kind = "docx" /\ of = 0)

(* The session, its fetch and the editor.                                  *)
Screen ==
  /\ session \in [status : {"pending", "success", "error"}, version : Nat, can : BOOLEAN]
  /\ fetch \in [on : BOOLEAN, read : Nat]
  /\ editor \in [version : Nat, ready : BOOLEAN]
  /\ here \in BOOLEAN
  /\ abortRef \in SaveIds \cup {0}
Shown == Editing => editor.version = session.version

Saves == /\ saves \in [SaveIds -> Save]
         /\ \A n \in SaveIds : Stands(saves[n].of, saves[n].base)

(* The server's version, the requests on the wire and what was committed.  *)
Server ==
  /\ head \in Nat
  /\ \A w \in wire : w.n \in SaveIds /\ Stands(w.of, w.base) /\ w.whole = TRUE
  /\ NothingOverwritten /\ CommitsWhatItSent

EditInv == Screen /\ Shown /\ Saves /\ Server

-----------------------------------------------------------------------------
LEMMA Unstarted == Unsaved \in Save /\ Over \in Save /\ Over.of = 0 /\ Over.base = 0
                   /\ Unsaved.of = 0 /\ Unsaved.base = 0
  BY DEF Unsaved, Over, Save, Phases

(* One save goes on with the version and the base it has, or a new one.    *)
LEMMA OneSave ==
  ASSUME Saves, NEW n \in SaveIds, NEW s \in Save, Stands(s.of, s.base),
         saves' = [saves EXCEPT ![n] = s], kind' = kind
  PROVE  Saves'
<1>1. saves' \in [SaveIds -> Save]
  BY DEF Saves
<1>2. \A k \in SaveIds : saves'[k] = IF k = n THEN s ELSE saves[k]
  BY DEF Saves
<1> QED BY <1>1, <1>2 DEF Saves, Stands

LEMMA Ending ==
  ASSUME Saves, NEW n \in SaveIds, NEW how, Ends(n, how), kind' = kind,
         abortRef \in SaveIds \cup {0}
  PROVE  Saves' /\ abortRef' \in SaveIds \cup {0}
<1>1. Saves'
  BY Unstarted, OneSave DEF Ends, Stands
<1> QED BY <1>1 DEF Ends

LEMMA Going ==
  ASSUME Saves, NEW n \in SaveIds, NEW s \in Save, s.of = saves[n].of,
         s.base = saves[n].base, Goes(n, s), kind' = kind
  PROVE  Saves' /\ abortRef' = abortRef
<1>1. Stands(s.of, s.base)
  BY DEF Saves
<1> QED BY <1>1, OneSave DEF Goes

LEMMA SameServer ==
  ASSUME Server, UNCHANGED <<kind, head, made, wire>>
  PROVE  Server'
  BY DEF Server, NothingOverwritten, CommitsWhatItSent, Stands

LEMMA SameScreen ==
  ASSUME Screen, Shown, abortRef' \in SaveIds \cup {0},
         UNCHANGED <<session, fetch, editor, here>>
  PROVE  Screen' /\ Shown'
  BY DEF Screen, Shown, Editing

LEMMA SameSaves == ASSUME Saves, UNCHANGED <<kind, saves>> PROVE Saves'
  BY DEF Saves, Stands

-----------------------------------------------------------------------------
LEMMA InitInv == EditInit => EditInv
<1> SUFFICES ASSUME EditInit PROVE EditInv
  OBVIOUS
<1>1. Screen /\ Shown
  BY DEF EditInit, Screen, Shown, Editing, NoSession, NoFetch, Asked, NoEditor
<1>2. Saves
  BY Unstarted DEF EditInit, Saves, Stands
<1>3. Server
  BY DEF EditInit, Server, NothingOverwritten, CommitsWhatItSent
<1> QED BY <1>1, <1>2, <1>3 DEF EditInv

(* The session query, and the editor that follows it.                      *)
LEMMA SessionStep ==
  ASSUME EditInv, RefetchSession \/ ReadSession \/ SessionAnswered \/ SessionFailed
                  \/ EditorLoads \/ TrackInteraction \/ EnterEdit
  PROVE  EditInv'
<1>1. UNCHANGED <<kind, head, made, wire, saves>>
  BY DEF RefetchSession, ReadSession, SessionAnswered, SessionFailed, EditorLoads,
         TrackInteraction, EnterEdit
<1>2. Saves' /\ Server'
  BY <1>1, SameSaves, SameServer DEF EditInv
<1>3. CASE RefetchSession \/ ReadSession
  <2>1. fetch \in [on : BOOLEAN, read : Nat] /\ head \in Nat
    BY DEF EditInv, Screen, Server
  <2>2. fetch' \in [on : BOOLEAN, read : Nat]
    <3>1. Asked \in [on : BOOLEAN, read : Nat]
      BY DEF Asked
    <3>2. [fetch EXCEPT !.read = head] \in [on : BOOLEAN, read : Nat]
      BY <2>1
    <3> QED BY <1>3, <3>1, <3>2 DEF RefetchSession, ReadSession
  <2>3. UNCHANGED <<session, editor, abortRef, here>>
    BY <1>3 DEF RefetchSession, ReadSession
  <2> QED BY <1>2, <2>2, <2>3 DEF EditInv, Screen, Shown, Editing
<1>4. CASE SessionAnswered
  <2>1. fetch.read \in Nat
    BY DEF EditInv, Screen
  <2>2. PICK can \in BOOLEAN :
          session' = [status |-> "success", version |-> fetch.read, can |-> can]
    BY <1>4 DEF SessionAnswered
  <2>3. session'.version = fetch.read /\ session'.can = can
    BY <2>2
  <2>4. editor' = IF here /\ can THEN [version |-> fetch.read, ready |-> FALSE] ELSE NoEditor
    BY <1>4, <2>3 DEF SessionAnswered
  <2>5. Screen'
    BY <1>4, <2>1, <2>2, <2>4 DEF EditInv, Screen, SessionAnswered, NoFetch, NoEditor
  <2>6. Shown'
    BY <1>4, <2>3, <2>4 DEF Shown, Editing, SessionAnswered
  <2> QED BY <1>2, <2>5, <2>6 DEF EditInv
<1>5. CASE SessionFailed
  BY <1>2, <1>5 DEF EditInv, Screen, Shown, Editing, SessionFailed, NoFetch, NoEditor
<1>6. CASE EditorLoads \/ TrackInteraction
  BY <1>2, <1>6 DEF EditInv, Screen, Shown, Editing, EditorLoads, TrackInteraction
<1>7. CASE EnterEdit
  <2>1. session.version \in Nat /\ fetch \in [on : BOOLEAN, read : Nat]
    BY DEF EditInv, Screen
  <2>2. fetch' \in [on : BOOLEAN, read : Nat]
    <3>1. Asked \in [on : BOOLEAN, read : Nat]
      BY DEF Asked
    <3> QED BY <1>7, <2>1, <3>1 DEF EnterEdit
  <2>3. editor' \in [version : Nat, ready : BOOLEAN]
    BY <1>7, <2>1 DEF EnterEdit, NoEditor
  <2>4. Screen'
    BY <1>7, <2>2, <2>3 DEF EditInv, Screen, EnterEdit
  <2>5. Shown'
    BY <1>7 DEF Shown, Editing, EnterEdit
  <2> QED BY <1>2, <2>4, <2>5 DEF EditInv
<1> QED BY <1>2, <1>3, <1>4, <1>5, <1>6, <1>7 DEF EditInv

LEMMA LeaveStep == ASSUME EditInv, LeaveEdit PROVE EditInv'
<1>1. Screen' /\ Shown'
  BY DEF EditInv, LeaveEdit, Screen, Shown, Editing, NoEditor
<1>2. \A n \in SaveIds : /\ saves'[n] \in Save
                         /\ saves'[n].of = saves[n].of /\ saves'[n].base = saves[n].base
  BY DEF EditInv, LeaveEdit, Saves, Save
<1>3. Saves'
  BY <1>2 DEF EditInv, LeaveEdit, Saves, Stands
<1>4. Server'
  BY SameServer DEF EditInv, LeaveEdit
<1> QED BY <1>1, <1>3, <1>4 DEF EditInv

LEMMA CancelStep == ASSUME EditInv, HandleCancelSave PROVE EditInv'
<1>1. abortRef \in SaveIds
  BY DEF EditInv, Screen, HandleCancelSave
<1> DEFINE s == [saves[abortRef] EXCEPT !.abort = TRUE]
<1>2. s \in Save /\ s.of = saves[abortRef].of /\ s.base = saves[abortRef].base
  BY <1>1 DEF EditInv, Saves, Save
<1>3. saves' = [saves EXCEPT ![abortRef] = s]
  BY DEF HandleCancelSave
<1>4. Stands(s.of, s.base)
  BY <1>1, <1>2 DEF EditInv, Saves
<1> HIDE DEF s
<1>5. Saves'
  BY <1>1, <1>2, <1>3, <1>4, OneSave DEF EditInv, HandleCancelSave
<1> QED BY <1>5, SameServer, SameScreen DEF EditInv, HandleCancelSave, Screen

(* A save begins: its base is the session's version, its bytes the         *)
(* editor's.                                                               *)
LEMMA BeginStep == ASSUME EditInv, NEW n \in SaveIds, HandleSave(n) PROVE EditInv'
<1>1. Server'
  BY SameServer DEF EditInv, HandleSave
<1>2. abortRef' \in SaveIds \cup {0}
  BY DEF HandleSave
<1>3. Screen' /\ Shown'
  BY <1>2, SameScreen DEF EditInv, HandleSave
<1>4. CASE CanCollect
  <2> DEFINE s == [Unsaved EXCEPT !.phase = "collecting", !.base = session.version,
                                  !.of = IF editor.ready THEN editor.version ELSE 0,
                                  !.live = TRUE]
  <2>1. s \in Save /\ s.base = session.version
        /\ s.of = (IF editor.ready THEN editor.version ELSE 0)
    BY DEF EditInv, Screen, Unsaved, Save, Phases
  <2>2. Stands(s.of, s.base)
    BY <1>4, <2>1 DEF EditInv, Shown, HandleSave, CanCollect, Stands
  <2>3. saves' = [saves EXCEPT ![n] = s] /\ kind' = kind
    BY <1>4 DEF HandleSave
  <2> HIDE DEF s
  <2>4. Saves'
    BY <2>1, <2>2, <2>3, OneSave DEF EditInv
  <2> QED BY <1>1, <1>3, <2>4 DEF EditInv
<1>5. CASE ~CanCollect
  <2>1. saves' = [saves EXCEPT ![n] = Over] /\ kind' = kind
    BY <1>5 DEF HandleSave
  <2>2. Saves'
    BY <2>1, Unstarted, OneSave DEF EditInv, Stands
  <2> QED BY <1>1, <1>3, <2>2 DEF EditInv
<1> QED BY <1>4, <1>5

(* The steps of a save that only move it on or end it.                     *)
LEMMA WorkStep ==
  ASSUME EditInv, NEW n \in SaveIds,
         CollectEditedBytes(n) \/ HashBlocks(n) \/ PrepareCommit(n) \/ StartBlock(n)
         \/ BlockSent(n) \/ BlockFailed(n) \/ CommitFailed(n)
  PROVE  EditInv'
<1>1. UNCHANGED <<kind, head, made, wire, session, fetch, editor, here>>
  BY DEF CollectEditedBytes, HashBlocks, PrepareCommit, StartBlock, BlockSent, BlockFailed,
         CommitFailed
<1>2. saves[n] \in Save
  BY DEF EditInv, Saves
<1>3. (\E how : Ends(n, how))
      \/ \E s \in Save : s.of = saves[n].of /\ s.base = saves[n].base /\ Goes(n, s)
  <2>1. CASE CollectEditedBytes(n)
    <3>1. [saves[n] EXCEPT !.phase = "hashing"] \in Save
      BY <1>2 DEF Save, Phases
    <3> QED BY <1>2, <2>1, <3>1 DEF CollectEditedBytes, Save
  <2>2. CASE HashBlocks(n)
    <3>1. [saves[n] EXCEPT !.phase = "preparing"] \in Save
      BY <1>2 DEF Save, Phases
    <3> QED BY <1>2, <2>2, <3>1 DEF HashBlocks, Save
  <2>3. CASE PrepareCommit(n)
    <3>1. \A known \in SUBSET Blocks :
            [saves[n] EXCEPT !.phase = "uploading", !.sent = known] \in Save
      BY <1>2 DEF Save, Phases
    <3>2. CASE Ends(n, "failed")
      BY <3>2
    <3>3. CASE ~Ends(n, "failed")
      <4>1. PICK known \in SUBSET Blocks :
              Goes(n, [saves[n] EXCEPT !.phase = "uploading", !.sent = known])
        BY <2>3, <3>3 DEF PrepareCommit
      <4> QED BY <1>2, <3>1, <4>1 DEF Save
    <3> QED BY <3>2, <3>3
  <2>4. CASE StartBlock(n)
    <3>1. CASE saves[n].abort
      <4>1. [saves[n] EXCEPT !.bad = "aborted"] \in Save
        BY <1>2 DEF Save
      <4> QED BY <1>2, <2>4, <3>1, <4>1 DEF StartBlock, Save
    <3>2. CASE ~saves[n].abort
      <4>1. PICK b \in ToSend(n) : Goes(n, [saves[n] EXCEPT !.doing = @ \cup {b}])
        BY <2>4, <3>2 DEF StartBlock
      <4>2. [saves[n] EXCEPT !.doing = @ \cup {b}] \in Save
        BY <1>2 DEF Save, ToSend
      <4> QED BY <1>2, <4>1, <4>2 DEF Save
    <3> QED BY <3>1, <3>2
  <2>5. CASE BlockSent(n)
    <3>1. PICK b \in saves[n].doing :
            Goes(n, [saves[n] EXCEPT !.doing = @ \ {b}, !.sent = @ \cup {b}])
      BY <2>5 DEF BlockSent
    <3>2. [saves[n] EXCEPT !.doing = @ \ {b}, !.sent = @ \cup {b}] \in Save
      BY <1>2 DEF Save
    <3> QED BY <1>2, <3>1, <3>2 DEF Save
  <2>6. CASE BlockFailed(n)
    <3>1. PICK b \in saves[n].doing, why \in {"failed", "aborted"} :
            Goes(n, [saves[n] EXCEPT !.doing = @ \ {b}, !.bad = IF @ = "none" THEN why ELSE @])
      BY <2>6 DEF BlockFailed
    <3>2. [saves[n] EXCEPT !.doing = @ \ {b}, !.bad = IF @ = "none" THEN why ELSE @] \in Save
      BY <1>2 DEF Save
    <3> QED BY <1>2, <3>1, <3>2 DEF Save
  <2>7. CASE CommitFailed(n)
    BY <2>7 DEF CommitFailed
  <2> QED BY <2>1, <2>2, <2>3, <2>4, <2>5, <2>6, <2>7
<1>4. Saves' /\ abortRef' \in SaveIds \cup {0}
  BY <1>1, <1>3, Ending, Going DEF EditInv, Screen
<1> QED BY <1>1, <1>4, SameServer, SameScreen DEF EditInv

(* The commit request carries what the save began with.                    *)
LEMMA RequestStep == ASSUME EditInv, NEW n \in SaveIds, RunWithWorkers(n) PROVE EditInv'
<1>1. saves[n] \in Save /\ Stands(saves[n].of, saves[n].base)
  BY DEF EditInv, Saves
<1>2. CASE saves[n].bad # "none" \/ saves[n].abort
  <2>1. Ends(n, IF saves[n].bad = "failed" THEN "failed" ELSE "idle")
        /\ UNCHANGED <<kind, head, made, wire, session, fetch, editor, here>>
    BY <1>2 DEF RunWithWorkers
  <2> QED BY <2>1, Ending, SameServer, SameScreen DEF EditInv, Screen
<1>3. CASE ~(saves[n].bad # "none" \/ saves[n].abort)
  <2> DEFINE s == [saves[n] EXCEPT !.phase = "committing"]
  <2>1. s \in Save /\ s.of = saves[n].of /\ s.base = saves[n].base
    BY <1>1 DEF Save, Phases
  <2>2. /\ Goes(n, s) /\ wire' = wire \cup {Request(n, saves[n].base)}
        /\ UNCHANGED <<kind, head, made, session, fetch, editor, here>>
    BY <1>3 DEF RunWithWorkers
  <2>3. saves[n].sent = Blocks
    BY <1>1, <1>3 DEF RunWithWorkers, ToSend, Save
  <2> HIDE DEF s
  <2>4. Saves' /\ abortRef' = abortRef
    BY <2>1, <2>2, Going DEF EditInv
  <2>5. Screen' /\ Shown'
    BY <2>2, <2>4, SameScreen DEF EditInv, Screen
  <2>4a. /\ Request(n, saves[n].base).n = n
        /\ Request(n, saves[n].base).of = saves[n].of
        /\ Request(n, saves[n].base).base = saves[n].base
    BY DEF Request
  <2>4b. Request(n, saves[n].base).whole = (saves[n].sent = Blocks)
    BY Zenon DEF Request
  <2>6. \A w \in wire' : w \in wire \/ (w.n = n /\ w.of = saves[n].of /\ w.base = saves[n].base
                                        /\ w.whole = TRUE)
    BY <2>2, <2>3, <2>4a, <2>4b
  <2>7. Server'
    BY <1>1, <2>2, <2>6 DEF EditInv, Server, NothingOverwritten, CommitsWhatItSent, Stands
  <2> QED BY <2>4, <2>5, <2>7 DEF EditInv
<1> QED BY <1>2, <1>3

LEMMA AnswerStep ==
  ASSUME EditInv, NEW n \in SaveIds, CommitAnswered(n) \/ Settled(n)
  PROVE  EditInv'
<1>1. saves[n] \in Save /\ Stands(saves[n].of, saves[n].base)
  BY DEF EditInv, Saves
<1>2. CASE CommitAnswered(n)
  <2> DEFINE s == [saves[n] EXCEPT !.phase = "settling"]
  <2>1. s \in Save /\ s.of = saves[n].of /\ s.base = saves[n].base
    BY <1>1 DEF Save, Phases
  <2>2. saves' = [saves EXCEPT ![n] = s] /\ kind' = kind
    BY <1>2 DEF CommitAnswered
  <2> HIDE DEF s
  <2>3. Saves'
    BY <1>1, <2>1, <2>2, OneSave DEF EditInv
  <2>4. Screen' /\ Shown'
    BY <1>2 DEF EditInv, CommitAnswered, Screen, Shown, Editing, Asked
  <2>5. Server'
    BY <1>2, SameServer DEF EditInv, CommitAnswered
  <2> QED BY <2>3, <2>4, <2>5 DEF EditInv
<1>3. CASE Settled(n)
  <2>1. Saves'
    BY <1>3, Unstarted, OneSave DEF EditInv, Settled, Stands
  <2>2. abortRef' \in SaveIds \cup {0}
    BY <1>3 DEF EditInv, Screen, Settled
  <2> QED BY <1>3, <2>1, <2>2, SameServer, SameScreen DEF EditInv, Settled
<1> QED BY <1>2, <1>3

(* The server commits only onto the head it has.                           *)
LEMMA CommitStep == ASSUME EditInv, CommitEdit PROVE EditInv'
<1>1. PICK w \in wire :
        /\ wire' = wire \ {w}
        /\ IF w.base = head
           THEN /\ head' = head + 1
                /\ made' = made \cup {[version |-> head', of |-> w.of, whole |-> w.whole]}
                /\ Tells(w.n, "saved")
           ELSE Tells(w.n, "conflict") /\ UNCHANGED <<head, made>>
  BY DEF CommitEdit
<1>2. UNCHANGED <<kind, session, fetch, editor, abortRef, here>>
  BY DEF CommitEdit
<1>3. w.n \in SaveIds /\ Stands(w.of, w.base) /\ w.whole = TRUE /\ head \in Nat
  BY DEF EditInv, Server
<1>4. Saves'
  <2>1. PICK v \in {"saved", "conflict"} : Tells(w.n, v)
    BY <1>1
  <2>2. CASE saves' = saves
    BY <1>2, <2>2, SameSaves DEF EditInv
  <2>3. CASE saves' # saves
    <3> DEFINE s == [saves[w.n] EXCEPT !.verdict = v]
    <3>1. saves[w.n] \in Save /\ Stands(saves[w.n].of, saves[w.n].base)
      BY <1>3 DEF EditInv, Saves
    <3>2. s \in Save /\ s.of = saves[w.n].of /\ s.base = saves[w.n].base
      BY <2>1, <3>1 DEF Save
    <3>3. saves' = [saves EXCEPT ![w.n] = s]
      BY <2>1, <2>3 DEF Tells
    <3> HIDE DEF s
    <3> QED BY <1>2, <1>3, <3>1, <3>2, <3>3, OneSave DEF EditInv
  <2> QED BY <2>2, <2>3
<1>5. Screen' /\ Shown'
  BY <1>2, SameScreen DEF EditInv, Screen
<1>6. \A x \in wire' : x \in wire
  BY <1>1
<1>7. CASE w.base = head
  <2>1. head' = head + 1 /\ head' \in Nat /\ head' - 1 = head
    BY <1>1, <1>3, <1>7
  <2>2. \A m \in made' : m \in made \/ (m.version = head' /\ m.of = w.of /\ m.whole = TRUE)
    BY <1>1, <1>3, <1>7
  <2>3. w.of = head' - 1 \/ (kind = "docx" /\ w.of = 0)
    BY <1>3, <1>7, <2>1 DEF Stands
  <2>4. Server'
    BY <1>2, <1>6, <2>1, <2>2, <2>3
       DEF EditInv, Server, NothingOverwritten, CommitsWhatItSent, Stands
  <2> QED BY <1>4, <1>5, <2>4 DEF EditInv
<1>8. CASE w.base # head
  <2>1. UNCHANGED <<head, made>>
    BY <1>1, <1>8
  <2>2. Server'
    BY <1>2, <1>6, <2>1 DEF EditInv, Server, NothingOverwritten, CommitsWhatItSent, Stands
  <2> QED BY <1>4, <1>5, <2>2 DEF EditInv
<1> QED BY <1>7, <1>8

LEMMA ElsewhereStep == ASSUME EditInv, CommittedElsewhere PROVE EditInv'
<1>1. UNCHANGED <<kind, made, wire, session, fetch, editor, abortRef, saves, here>>
      /\ head' = head + 1
  BY DEF CommittedElsewhere
<1>2. Server'
  BY <1>1 DEF EditInv, Server, NothingOverwritten, CommitsWhatItSent, Stands
<1> QED BY <1>1, <1>2, SameSaves, SameScreen DEF EditInv, Screen

LEMMA NextInv == EditInv /\ [EditNext]_editVars => EditInv'
<1> SUFFICES ASSUME EditInv, [EditNext]_editVars PROVE EditInv'
  OBVIOUS
<1>1. CASE SaveStep
  <2>1. PICK n \in SaveIds :
          \/ HandleSave(n) \/ CollectEditedBytes(n) \/ HashBlocks(n) \/ PrepareCommit(n)
          \/ StartBlock(n) \/ BlockSent(n) \/ BlockFailed(n) \/ RunWithWorkers(n)
          \/ CommitAnswered(n) \/ CommitFailed(n) \/ Settled(n)
    BY <1>1 DEF SaveStep
  <2> QED BY <2>1, BeginStep, WorkStep, RequestStep, AnswerStep
<1>2. CASE UNCHANGED editVars
  BY <1>2, SameServer, SameSaves, SameScreen DEF editVars, EditInv, Screen
<1> QED BY <1>1, <1>2, SessionStep, LeaveStep, CancelStep, CommitStep, ElsewhereStep
        DEF EditNext

LEMMA Invariance == EditSpec => []EditInv
  BY InitInv, NextInv, PTL DEF EditSpec

(* A version saved from the editor was loaded from the version before it   *)
(* (saveEditedFile sends the base the session named when Save was clicked) *)
(* for any number of concurrent saves, commits, cancels and refetches.     *)
THEOREM NeverOverwrites == EditSpec => []NothingOverwritten
<1>1. EditInv => NothingOverwritten
  BY DEF EditInv, Server
<1> QED BY <1>1, Invariance, PTL

(* Every block of a committed version was sent by its save or is one the   *)
(* file already held, whatever fails or is aborted in whatever order       *)
(* (runWithWorkers).                                                       *)
THEOREM CommitsOnlySent == EditSpec => []CommitsWhatItSent
<1>1. EditInv => CommitsWhatItSent
  BY DEF EditInv, Server
<1> QED BY <1>1, Invariance, PTL

-----------------------------------------------------------------------------
(* ---- Web session: one lost call does not end it ------------------------ *)

(* Proof, for every number of requests, processes, sessions, generations   *)
(* and calls, that one lost call does not end the browser's session.       *)
(*                                                                         *)
(* A pair is good if its session is live and the replacement of every pair *)
(* from it on is still cached at the service: a refresh of it is granted.  *)
(* What the browser and the requests hold stays good, because cached pairs *)
(* expire the earlier one first and nobody is asking for that one; so only *)
(* a lost call fails, and the retry of a request fails only with a second. *)

WebSizes == MaxSid \in Nat \ {0} /\ MaxGen \in Nat \ {0} /\ None \notin Pair

Steps == {"idle", "arrived", "joined", "retrying", "answered"}
WebAnswer == [kind : {"none", "pass", "clear", "set"}, tok : Pair \cup {None}]
WebRequest == [pc : Steps, at : Processes \cup {None}, tok : Pair \cup {None}, due : BOOLEAN,
               ans : WebAnswer]
WebRow == [gen : 1..MaxGen, state : {"none", "live", "stolen", "gone"}]
SessionEnds == {"none", "called", "pair", "failed"}
Calling == {c \in [Pair -> SessionEnds] : \A tok \in Pair : c[tok] = "pair" => Successor(tok) \in Pair}

WebTypes ==
  /\ WebSizes
  /\ jar \in Pair \cup {None} /\ due \in BOOLEAN
  /\ request \in [Requests -> WebRequest]
  /\ shared \in [Processes -> Calling]
  /\ row \in [Sids -> WebRow] /\ replaced \subseteq Pair
  /\ lost \in Nat /\ excuse \in BOOLEAN

Behind ==
  \A p \in replaced : row[p.sid].state # "none" /\ p.gen < row[p.sid].gen

Good(p) ==
  /\ p \in Pair /\ row[p.sid].state = "live" /\ p.gen <= row[p.sid].gen
  /\ \A q \in Pair : q.sid = p.sid /\ p.gen <= q.gen /\ q.gen < row[p.sid].gen => q \in replaced

(* What a request carries and what it will answer.                         *)
Served(r) ==
  /\ request[r].pc \in {"arrived", "joined", "retrying"} => Good(request[r].tok)
  /\ request[r].pc = "retrying" => lost >= 1
  /\ request[r].pc = "answered" =>
       \/ request[r].ans.kind = "pass"
       \/ request[r].ans.kind = "set" /\ Good(request[r].ans.tok)

(* A call under way is awaited; it fails only if one was lost.             *)
Awaited(w, tok) ==
  /\ shared[w][tok] # "none" => \E r \in Requests : Waits(r, w, tok)
  /\ shared[w][tok] = "failed" => lost >= 1
  /\ shared[w][tok] = "pair" => tok \in replaced

Asking == {"joined", "retrying"}
Refreshing == \A r \in Requests : request[r].pc \in Asking => request[r].tok \in Pair

Unharmed == lost <= 1 /\ ~excuse

Surviving ==
  /\ Good(jar)
  /\ \A r \in Requests : Served(r)
  /\ \A w \in Processes, tok \in Pair : Awaited(w, tok)

WebInv == WebTypes /\ Refreshing /\ Behind /\ (Unharmed => Surviving)

-----------------------------------------------------------------------------
LEMMA SamePair ==
  ASSUME NEW p \in Pair, NEW q \in Pair, p.sid = q.sid, p.gen = q.gen PROVE p = q
  BY DEF Pair

LEMMA WebInitInv == WebSizes /\ WebInit => WebInv
<1> SUFFICES ASSUME WebSizes, WebInit PROVE WebInv
  OBVIOUS
<1>1. NoAnswer \in WebAnswer /\ NoRequest \in WebRequest /\ NoRequest.pc = "idle"
  BY DEF NoAnswer, WebAnswer, NoRequest, WebRequest, Steps
<1>2. NoCalls \in Calling /\ \A tok \in Pair : NoCalls[tok] = "none"
  BY DEF NoCalls, Calling, SessionEnds
<1>3. jar \in Pair \cup {None}
  BY DEF WebInit, WebSizes, Pair, Sids
<1>4. row \in [Sids -> WebRow]
  BY DEF WebInit, WebRow, WebSizes
<1>5. WebTypes
  BY <1>1, <1>2, <1>3, <1>4 DEF WebInit, WebTypes
<1>6. ASSUME Unharmed PROVE Surviving
  <2>1. jar = [sid |-> 1, gen |-> 1] /\ jar \in Pair
    BY <1>3, <1>6 DEF Unharmed, WebInit
  <2>2. row[jar.sid] = [gen |-> 1, state |-> "live"]
    BY <1>6, <2>1 DEF WebInit, Pair, Unharmed
  <2>3. Good(jar)
    BY <2>1, <2>2 DEF Good, Pair
  <2>4. ASSUME NEW r \in Requests PROVE Served(r)
    BY <1>1 DEF WebInit, Served
  <2>5. ASSUME NEW w \in Processes, NEW tok \in Pair PROVE Awaited(w, tok)
    BY <1>2 DEF WebInit, Awaited
  <2> QED BY <2>3, <2>4, <2>5 DEF Surviving
<1>7. Refreshing
  BY <1>1 DEF WebInit, Refreshing, Asking
<1> QED BY <1>5, <1>6, <1>7 DEF WebInv, Behind, WebInit

(* A pair that is good is refreshed, and stays good when others are.       *)
LEMMA GoodIsGranted == ASSUME WebTypes, NEW p, Good(p) PROVE Grants(p)
  BY DEF WebTypes, Good, Grants, Current, Pair, WebRow

LEMMA Refreshed ==
  ASSUME WebTypes, Behind, NEW tok, Good(tok), RefreshToken(tok)
  PROVE  /\ row' \in [Sids -> WebRow] /\ replaced' \subseteq Pair /\ Behind'
         /\ tok \in replaced' /\ replaced \subseteq replaced'
         /\ \A p : Good(p) => Good(p)'
<1>1. CASE tok \in replaced
  BY <1>1 DEF RefreshToken, server, Good, WebTypes, Behind
<1>2. CASE tok \notin replaced
  <2>1. Current(tok) /\ row[tok.sid].state = "live" /\ tok \in Pair /\ tok.sid \in Sids
    BY <1>2, GoodIsGranted DEF Grants, Good, Pair
  <2>2. /\ tok.gen < MaxGen /\ replaced' = replaced \cup {tok}
        /\ row' = [row EXCEPT ![tok.sid].gen = @ + 1]
    BY <1>2, <2>1 DEF RefreshToken
  <2>3. /\ row'[tok.sid].gen = tok.gen + 1 /\ row'[tok.sid].state = "live"
        /\ \A s \in Sids \ {tok.sid} : row'[s] = row[s]
    BY <2>1, <2>2 DEF WebTypes, WebRow, Current
  <2>4. row' \in [Sids -> WebRow]
    BY <2>1, <2>2, <2>3 DEF WebTypes, WebRow, WebSizes, Pair
  <2>5. Behind'
    <3> SUFFICES ASSUME NEW p \in replaced'
                 PROVE  row'[p.sid].state # "none" /\ p.gen < row'[p.sid].gen
      BY DEF Behind
    <3>1. p \in Pair /\ p.sid \in Sids /\ p.gen \in Nat /\ tok.gen \in Nat
      BY <2>1, <2>2 DEF WebTypes, Pair
    <3>2. CASE p.sid = tok.sid
      BY <2>1, <2>2, <2>3, <3>1, <3>2 DEF Behind, Current
    <3>3. CASE p.sid # tok.sid
      BY <2>2, <2>3, <3>1, <3>3 DEF Behind
    <3> QED BY <3>2, <3>3
  <2>6. ASSUME NEW p, Good(p) PROVE Good(p)'
    <3>1. p \in Pair /\ p.sid \in Sids /\ p.gen \in Nat /\ tok.gen \in Nat
      BY <2>1, <2>6 DEF Good, Pair
    <3>2. CASE p.sid # tok.sid
      BY <2>2, <2>3, <2>6, <3>1, <3>2 DEF Good
    <3>3. CASE p.sid = tok.sid
      <4>1. ASSUME NEW q \in Pair, q.sid = p.sid, p.gen <= q.gen, q.gen < tok.gen + 1
            PROVE  q \in replaced'
        <5>1. q.gen \in Nat
          BY DEF Pair
        <5>2. CASE q.gen = tok.gen
          BY <2>1, <2>2, <3>3, <4>1, <5>2, SamePair
        <5>3. CASE q.gen # tok.gen
          BY <2>1, <2>2, <2>6, <3>1, <3>3, <4>1, <5>1, <5>3 DEF Good, Current
        <5> QED BY <5>2, <5>3
      <4> QED BY <2>1, <2>3, <2>6, <3>1, <3>3, <4>1 DEF Good, Current
    <3> QED BY <3>2, <3>3
  <2> QED BY <2>1, <2>2, <2>4, <2>5, <2>6 DEF WebTypes
<1> QED BY <1>1, <1>2

(* The pair a refresh answers with.                                        *)
LEMMA SuccessorIsGood ==
  ASSUME WebTypes, Behind, NEW tok, Good(tok), tok \in replaced
  PROVE  Good(Successor(tok))
<1>1. /\ tok \in Pair /\ tok.sid \in Sids /\ tok.gen \in Nat /\ tok.gen < row[tok.sid].gen
      /\ row[tok.sid].gen \in 1..MaxGen
  BY DEF Good, Behind, Pair, WebTypes, WebRow
<1>2. Successor(tok) = [sid |-> tok.sid, gen |-> tok.gen + 1]
  BY <1>1 DEF Successor, Pair
<1>3. Successor(tok) \in Pair
  BY <1>1, <1>2 DEF Pair, WebTypes, WebSizes
<1> QED BY <1>1, <1>2, <1>3 DEF Good, Pair

LEMMA RefreshTypes ==
  ASSUME WebTypes, Behind, NEW tok \in Pair, RefreshToken(tok)
  PROVE  row' \in [Sids -> WebRow] /\ replaced' \subseteq Pair /\ Behind'
<1>1. tok.sid \in Sids /\ tok.gen \in Nat
  BY DEF Pair
<1>2. CASE tok \in replaced \/ row[tok.sid].state # "live"
  BY <1>2 DEF RefreshToken, server, WebTypes, Behind
<1>3. CASE tok \notin replaced /\ row[tok.sid].state = "live" /\ Current(tok)
  <2>1. /\ tok.gen < MaxGen /\ replaced' = replaced \cup {tok}
        /\ row' = [row EXCEPT ![tok.sid].gen = @ + 1]
    BY <1>3 DEF RefreshToken
  <2>2. /\ row'[tok.sid] = [gen |-> tok.gen + 1, state |-> "live"]
        /\ \A s \in Sids \ {tok.sid} : row'[s] = row[s]
    BY <1>1, <1>3, <2>1 DEF WebTypes, WebRow, Current
  <2>3. row' \in [Sids -> WebRow]
    BY <1>1, <2>1, <2>2 DEF WebTypes, WebRow, WebSizes, Pair
  <2>4. ASSUME NEW p \in replaced'
        PROVE  row'[p.sid].state # "none" /\ p.gen < row'[p.sid].gen
    <3>1. p \in Pair /\ p.sid \in Sids /\ p.gen \in Nat
      BY <2>1 DEF WebTypes, Pair
    <3> QED BY <1>1, <1>3, <2>1, <2>2, <3>1 DEF Behind, Current
  <2> QED BY <2>1, <2>3, <2>4 DEF WebTypes, Behind
<1>4. CASE tok \notin replaced /\ row[tok.sid].state = "live" /\ ~Current(tok)
  <2>1. row' = [row EXCEPT ![tok.sid].state = "stolen"] /\ UNCHANGED replaced
    BY <1>4 DEF RefreshToken
  <2>2. row' \in [Sids -> WebRow]
    BY <1>1, <2>1 DEF WebTypes, WebRow
  <2>3. \A s \in Sids : row'[s].gen = row[s].gen /\ (row'[s].state = "none" => row[s].state = "none")
    BY <1>1, <2>1 DEF WebTypes, WebRow
  <2> QED BY <2>1, <2>2, <2>3 DEF WebTypes, Behind, Pair
<1> QED BY <1>2, <1>3, <1>4

-----------------------------------------------------------------------------
(* One request goes on, with cookies and answers that are good.            *)
LEMMA RequestGoesOn ==
  ASSUME WebInv, NEW r \in Requests, NEW q \in WebRequest,
         request' = [request EXCEPT ![r] = q],
         jar' \in Pair \cup {None}, due' \in BOOLEAN,
         shared' \in [Processes -> Calling], row' \in [Sids -> WebRow], replaced' \subseteq Pair,
         Behind', lost' \in Nat, lost <= lost', excuse' \in BOOLEAN, excuse => excuse',
         q.pc \in Asking => q.tok \in Pair,
         Unharmed' => \A p : Good(p) => Good(p)',
         Unharmed' => /\ Good(jar)' /\ Served(r)'
                      /\ \A w \in Processes, tok \in Pair : Awaited(w, tok)'
  PROVE  WebInv'
<1>1. WebTypes'
  BY DEF WebInv, WebTypes, WebSizes, Pair, Sids
<1>2. ASSUME Unharmed' PROVE Surviving'
  <2>1. Surviving
    BY <1>2 DEF WebInv, Unharmed, WebTypes
  <2>2. ASSUME NEW o \in Requests PROVE Served(o)'
    <3>1. CASE o = r
      BY <1>2, <3>1
    <3>2. CASE o # r
      <4>1. request'[o] = request[o] /\ Served(o)
        BY <2>1, <3>2 DEF WebInv, WebTypes, Surviving
      <4> QED BY <1>2, <4>1 DEF Served, WebInv, WebTypes
    <3> QED BY <3>1, <3>2
  <2> QED BY <1>2, <2>2 DEF Surviving, Pair, Sids
<1>3. Refreshing'
  BY DEF Refreshing, WebInv, WebTypes, Pair, Sids
<1> QED BY <1>1, <1>2, <1>3 DEF WebInv

LEMMA StillAwaited ==
  ASSUME WebTypes, Surviving, NEW r \in Requests, NEW q \in WebRequest,
         request' = [request EXCEPT ![r] = q], request[r].pc # "joined",
         shared' = shared, replaced \subseteq replaced', lost' \in Nat, lost <= lost'
  PROVE  \A w \in Processes, tok \in Pair : Awaited(w, tok)'
<1> SUFFICES ASSUME NEW w \in Processes, NEW tok \in Pair PROVE Awaited(w, tok)'
  BY DEF Pair, Sids
<1>1. Awaited(w, tok)
  BY DEF Surviving
<1>2. ASSUME NEW o \in Requests, Waits(o, w, tok) PROVE Waits(o, w, tok)'
  BY <1>2 DEF WebTypes, Waits
<1> QED BY <1>1, <1>2 DEF Awaited, WebTypes

LEMMA AnswerTypes ==
  ASSUME WebTypes, NEW r \in Requests, NEW k \in {"none", "pass", "clear", "set"},
         NEW tok \in Pair \cup {None}
  PROVE  /\ Answered(r, k, tok) \in WebRequest
         /\ Answered(r, k, tok).pc = "answered"
         /\ Answered(r, k, tok).ans = [kind |-> k, tok |-> tok]
<1>1. [kind |-> k, tok |-> tok] \in WebAnswer /\ request[r] \in WebRequest
  BY DEF WebAnswer, WebTypes
<1>2. /\ request[r].at \in Processes \cup {None} /\ request[r].tok \in Pair \cup {None}
      /\ request[r].due \in BOOLEAN
      /\ DOMAIN request[r] = {"pc", "at", "tok", "due", "ans"}
  BY <1>1 DEF WebRequest
<1> DEFINE a == [kind |-> k, tok |-> tok]
<1>3. Answered(r, k, tok) = [request[r] EXCEPT !.pc = "answered", !.ans = a]
  BY DEF Answered
<1> HIDE DEF a
<1>4. /\ [request[r] EXCEPT !.pc = "answered", !.ans = a] \in WebRequest
      /\ [request[r] EXCEPT !.pc = "answered", !.ans = a].pc = "answered"
      /\ [request[r] EXCEPT !.pc = "answered", !.ans = a].ans = a
  BY <1>1 DEF a, WebRequest, Steps
<1> QED BY <1>3, <1>4 DEF a

LEMMA NoRequestIsIdle == NoRequest \in WebRequest /\ NoRequest.pc = "idle"
  BY DEF NoAnswer, WebAnswer, NoRequest, WebRequest, Steps

LEMMA NavigateStep == ASSUME WebInv, NEW r \in Requests, Navigate(r) PROVE WebInv'
<1>1. request[r].pc = "idle" /\ WebTypes
  BY DEF Navigate, Fresh, WebInv
<1>2. PICK w \in Processes :
        request' = [request EXCEPT ![r] = [pc |-> "arrived", at |-> w, tok |-> jar,
                                           due |-> due, ans |-> NoAnswer]]
  BY DEF Navigate
<1> DEFINE q == [pc |-> "arrived", at |-> w, tok |-> jar, due |-> due, ans |-> NoAnswer]
<1>3. q \in WebRequest
  BY <1>1 DEF NoAnswer, WebAnswer, WebRequest, Steps, WebTypes
<1>4. UNCHANGED <<jar, due, shared, row, replaced, lost, excuse>>
  BY DEF Navigate, process, server
<1>5. request'[r] = q
  <2>1. request \in [Requests -> WebRequest]
    BY <1>1 DEF WebTypes
  <2> QED BY <1>2, <2>1
<1>6. ASSUME Unharmed' PROVE Surviving
  BY <1>4, <1>6 DEF Unharmed, WebInv
<1>7. Unharmed' => Good(jar)' /\ Served(r)'
  BY <1>4, <1>5, <1>6 DEF Surviving, Good, Served
<1>8. lost' \in Nat /\ lost <= lost' /\ excuse' \in BOOLEAN
  BY <1>1, <1>4 DEF WebTypes
<1> HIDE DEF q
<1>9. ASSUME Unharmed' PROVE \A v \in Processes, tok \in Pair : Awaited(v, tok)'
  BY <1>1, <1>2, <1>3, <1>4, <1>6, <1>8, <1>9, StillAwaited DEF q
<1>10. Behind' /\ \A p : Good(p) => Good(p)'
  BY <1>4 DEF Behind, Good, WebInv
<1>11. /\ jar' \in Pair \cup {None} /\ due' \in BOOLEAN /\ shared' \in [Processes -> Calling]
       /\ row' \in [Sids -> WebRow] /\ replaced' \subseteq Pair
  BY <1>1, <1>4 DEF WebTypes
<1> QED BY <1>2, <1>3, <1>4, <1>7, <1>8, <1>9, <1>10, <1>11, RequestGoesOn DEF q, Asking

LEMMA DeliverStep == ASSUME WebInv, NEW r \in Requests, Deliver(r) PROVE WebInv'
<1>1. request[r].pc = "answered" /\ WebTypes
  BY DEF Deliver, WebInv
<1>2. request' = [request EXCEPT ![r] = NoRequest] /\ request'[r] = NoRequest
  BY <1>1 DEF Deliver, WebTypes
<1>3. UNCHANGED <<shared, row, replaced, lost, excuse>>
  BY DEF Deliver, process, server
<1>4. jar' \in Pair \cup {None} /\ due' \in BOOLEAN
  BY <1>1 DEF Deliver, WebTypes, WebRequest, WebAnswer
<1>5. ASSUME Unharmed' PROVE Surviving
  BY <1>3, <1>5 DEF Unharmed, WebInv
<1>6. \A p : Good(p) => Good(p)'
  BY <1>3 DEF Good
<1>7. ASSUME Unharmed' PROVE Good(jar)' /\ Served(r)'
  <2>1. Good(jar) /\ Served(r)
    BY <1>5, <1>7 DEF Surviving
  <2>2. Good(jar')
    BY <1>1, <2>1 DEF Served, Deliver
  <2> QED BY <1>2, <1>3, <2>2, NoRequestIsIdle DEF Good, Served
<1>8. lost' \in Nat /\ lost <= lost' /\ excuse' \in BOOLEAN
  BY <1>1, <1>3 DEF WebTypes
<1>9. ASSUME Unharmed' PROVE \A v \in Processes, tok \in Pair : Awaited(v, tok)'
  BY <1>1, <1>2, <1>3, <1>5, <1>8, <1>9, StillAwaited, NoRequestIsIdle
<1>10. Behind'
  BY <1>3 DEF Behind, WebInv
<1>11. /\ shared' \in [Processes -> Calling] /\ row' \in [Sids -> WebRow]
       /\ replaced' \subseteq Pair
  BY <1>1, <1>3 DEF WebTypes
<1> QED BY <1>2, <1>3, <1>4, <1>6, <1>7, <1>8, <1>9, <1>10, <1>11, RequestGoesOn, NoRequestIsIdle DEF Asking

(* A request is answered with cookies that are good, or with none of them. *)
LEMMA AnswerGoesOut ==
  ASSUME WebInv, NEW r \in Requests, NEW k \in {"none", "pass", "clear", "set"},
         NEW tok \in Pair \cup {None}, request[r].pc # "joined",
         request' = [request EXCEPT ![r] = Answered(r, k, tok)],
         UNCHANGED <<jar, due, shared>>,
         row' \in [Sids -> WebRow], replaced' \subseteq Pair, Behind',
         lost' \in Nat, lost <= lost', excuse' \in BOOLEAN, excuse => excuse',
         Unharmed' => /\ \A p : Good(p) => Good(p)'
                      /\ replaced \subseteq replaced'
                      /\ k = "pass" \/ (k = "set" /\ Good(tok)')
  PROVE  WebInv'
<1>1. WebTypes
  BY DEF WebInv
<1>2. /\ Answered(r, k, tok) \in WebRequest /\ request'[r] = Answered(r, k, tok)
      /\ request'[r].pc = "answered" /\ request'[r].ans.kind = k /\ request'[r].ans.tok = tok
  <2>1. Answered(r, k, tok) \in WebRequest /\ Answered(r, k, tok).pc = "answered"
        /\ Answered(r, k, tok).ans = [kind |-> k, tok |-> tok]
    BY <1>1, AnswerTypes
  <2>2. request'[r] = Answered(r, k, tok)
    BY <1>1 DEF WebTypes
  <2> QED BY <2>1, <2>2
<1>3. ASSUME Unharmed' PROVE Surviving
  BY <1>1, <1>3 DEF Unharmed, WebInv, WebTypes
<1>4. ASSUME Unharmed' PROVE Good(jar)' /\ Served(r)'
  <2>1. Good(jar) /\ jar' = jar
    BY <1>3, <1>4 DEF Surviving
  <2>2. Good(jar)'
    BY <1>4, <2>1 DEF Good
  <2> QED BY <1>2, <1>4, <2>2 DEF Served, Good
<1>5. ASSUME Unharmed' PROVE \A v \in Processes, t \in Pair : Awaited(v, t)'
  BY <1>1, <1>2, <1>3, <1>5, StillAwaited
<1> QED BY <1>1, <1>2, <1>4, <1>5, RequestGoesOn DEF WebTypes, Asking

LEMMA ValidateStep ==
  ASSUME WebInv, NEW r \in Requests, NEW b \in BOOLEAN, Validate(r, b) PROVE WebInv'
<1>1. request[r].pc = "arrived" /\ WebTypes /\ Behind /\ request[r] \in WebRequest
  BY DEF Validate, WebInv, WebTypes
<1>2. UNCHANGED <<jar, due, row, replaced, lost>>
  BY DEF Validate, server
<1>3. row' \in [Sids -> WebRow] /\ replaced' \subseteq Pair /\ Behind' /\ lost' \in Nat /\ lost <= lost'
  BY <1>1, <1>2 DEF WebTypes, Behind
<1>4. \A p : Good(p) => Good(p)'
  BY <1>2 DEF Good
<1>5. ASSUME Unharmed, Surviving PROVE Good(request[r].tok) /\ request[r].tok # None
  BY <1>1, <1>5 DEF Surviving, Served, Good, WebTypes, WebSizes
<1>6. CASE RedirectToLogin(r) /\ request[r].tok = None /\ UNCHANGED <<process, excuse>>
  <2>1. excuse' \in BOOLEAN /\ (excuse => excuse') /\ shared' = shared
    BY <1>1, <1>6 DEF process, WebTypes
  <2>2. ~Unharmed'
    BY <1>2, <1>5, <1>6 DEF Unharmed, WebInv
  <2> QED BY <1>1, <1>2, <1>3, <1>6, <2>1, <2>2, AnswerGoesOut DEF RedirectToLogin
<1>7. CASE RedirectToLogin(r) /\ excuse' = TRUE /\ UNCHANGED process
  <2>1. shared' = shared /\ ~Unharmed'
    BY <1>7 DEF process, Unharmed
  <2> QED BY <1>1, <1>2, <1>3, <1>7, <2>1, AnswerGoesOut DEF RedirectToLogin
<1>8. CASE request[r].tok # None /\ Admit(r) /\ UNCHANGED excuse
  <2>1. excuse' \in BOOLEAN /\ (excuse => excuse')
    BY <1>1, <1>8 DEF WebTypes
  <2>2. CASE ~request[r].due
    <3>1. request' = [request EXCEPT ![r] = Answered(r, "pass", None)] /\ UNCHANGED shared
      BY <1>8, <2>2 DEF Admit
    <3> QED BY <1>1, <1>2, <1>3, <1>4, <2>1, <3>1, AnswerGoesOut
  <2>3. CASE request[r].due
    <3> DEFINE w == request[r].at
               tok == request[r].tok
               q == [request[r] EXCEPT !.pc = "joined"]
    <3>1. /\ request' = [request EXCEPT ![r] = q] /\ tok \in Pair
          /\ shared' = [shared EXCEPT ![w][tok] = IF @ = "none" THEN "called" ELSE @]
      BY <1>1, <1>8, <2>3 DEF Admit, RefreshTokens, WebRequest
    <3>2. q \in WebRequest /\ request'[r] = q /\ q.pc = "joined" /\ q.tok = tok /\ q.at = w
      BY <1>1, <3>1 DEF WebRequest, Steps, WebTypes
    <3>6. ASSUME w \notin Processes PROVE shared' = shared /\ shared' \in [Processes -> Calling]
      BY <1>1, <3>1, <3>6 DEF WebTypes
    <3>7. ASSUME w \in Processes
          PROVE  /\ shared' \in [Processes -> Calling]
                 /\ shared'[w][tok] = IF shared[w][tok] = "none" THEN "called" ELSE shared[w][tok]
                 /\ \A v \in Processes, t \in Pair : (v = w /\ t = tok) \/ shared'[v][t] = shared[v][t]
      <4> DEFINE end == IF shared[w][tok] = "none" THEN "called" ELSE shared[w][tok]
      <4>1. shared[w] \in Calling /\ end \in SessionEnds /\ (end = "pair" => Successor(tok) \in Pair)
        BY <1>1, <3>1, <3>7 DEF WebTypes, Calling, SessionEnds
      <4>2. shared' = [shared EXCEPT ![w][tok] = end]
        BY <3>1
      <4> HIDE DEF end
      <4>3. shared \in [Processes -> Calling]
        BY <1>1 DEF WebTypes
      <4>4. /\ shared' \in [Processes -> Calling] /\ shared'[w][tok] = end
            /\ \A v \in Processes, t \in Pair : (v = w /\ t = tok) \/ shared'[v][t] = shared[v][t]
        <5>1. shared[w] \in [Pair -> SessionEnds]
          BY <3>7, <4>3 DEF Calling
        <5>2. PICK c \in [Pair -> SessionEnds] : c = [shared[w] EXCEPT ![tok] = end]
          BY <5>1, <4>1 DEF SessionEnds
        <5>3. c[tok] = end /\ \A t \in Pair : t = tok \/ c[t] = shared[w][t]
          BY <5>1, <5>2
        <5>4. shared' = [shared EXCEPT ![w] = c]
          BY <4>2, <5>2
        <5>5. c \in Calling
          BY <3>7, <4>1, <4>3, <5>1, <5>3 DEF Calling
        <5>6. shared' \in [Processes -> Calling] /\ shared'[w][tok] = end
          BY <3>7, <4>3, <5>3, <5>4, <5>5
        <5>7. ASSUME NEW v \in Processes, NEW t \in Pair
              PROVE  (v = w /\ t = tok) \/ shared'[v][t] = shared[v][t]
          BY <3>7, <4>3, <5>3, <5>4
        <5> QED BY <5>6, <5>7
      <4> QED BY <4>4 DEF end
    <3>3. shared' \in [Processes -> Calling]
      BY <3>6, <3>7
    <3>4. ASSUME Unharmed'
          PROVE  Good(jar)' /\ Served(r)' /\ \A v \in Processes, t \in Pair : Awaited(v, t)'
      <4>1. Surviving /\ Unharmed
        BY <1>2, <1>8, <3>4 DEF Unharmed, WebInv
      <4>2. Good(jar)' /\ Served(r)'
        <5> HIDE DEF q
        <5>1. Good(tok) /\ tok # None /\ Good(jar)
          BY <1>5, <4>1 DEF Surviving
        <5> QED BY <1>2, <1>4, <3>2, <5>1 DEF Served
      <4>3. ASSUME NEW v \in Processes, NEW t \in Pair PROVE Awaited(v, t)'
        <5>1. Awaited(v, t)
          BY <4>1 DEF Surviving
        <5>2. ASSUME NEW o \in Requests, Waits(o, v, t) PROVE Waits(o, v, t)'
          BY <1>1, <3>1, <5>2 DEF WebTypes, Waits
        <5>3. CASE v = w /\ t = tok
          <6>1. Waits(r, v, t)'
            BY <3>2, <5>3 DEF Waits
          <6>2. shared'[v][t] = IF shared[v][t] = "none" THEN "called" ELSE shared[v][t]
            BY <3>7, <5>3
          <6> QED BY <1>2, <5>1, <6>1, <6>2 DEF Awaited
        <5>4. CASE ~(v = w /\ t = tok)
          <6>1. shared'[v][t] = shared[v][t]
            BY <3>6, <3>7, <5>4
          <6> QED BY <1>2, <5>1, <5>2, <6>1 DEF Awaited
        <5> QED BY <5>3, <5>4
      <4> QED BY <4>2, <4>3 DEF Pair, Sids
    <3>5. jar' \in Pair \cup {None} /\ due' \in BOOLEAN
      BY <1>1, <1>2 DEF WebTypes
    <3> HIDE DEF q
    <3> QED BY <1>3, <1>4, <2>1, <3>1, <3>2, <3>3, <3>4, <3>5, RequestGoesOn
  <2> QED BY <2>2, <2>3
<1> QED BY <1>6, <1>7, <1>8 DEF Validate, process

(* A refresh of a good pair is answered unless the call is lost.           *)
LEMMA RefreshFrame ==
  ASSUME WebInv, NEW tok \in Pair, RefreshToken(tok), NEW arrives \in BOOLEAN,
         lost' = IF arrives THEN lost ELSE lost + 1
  PROVE  /\ row' \in [Sids -> WebRow] /\ replaced' \subseteq Pair /\ Behind'
         /\ lost' \in Nat /\ lost <= lost' /\ (~arrives => lost' >= 1)
         /\ Grants(tok) => Successor(tok) \in Pair
         /\ Good(tok) => /\ \A p : Good(p) => Good(p)'
                         /\ tok \in replaced' /\ replaced \subseteq replaced'
                         /\ Grants(tok) /\ Good(Successor(tok))'
<1>1. WebTypes /\ Behind /\ lost \in Nat
  BY DEF WebInv, WebTypes
<1>2. row' \in [Sids -> WebRow] /\ replaced' \subseteq Pair /\ Behind'
  BY <1>1, RefreshTypes
<1>3. lost' \in Nat /\ lost <= lost' /\ (~arrives => lost' >= 1)
  BY <1>1
<1>4. tok.sid \in Sids /\ tok.gen \in Nat /\ Successor(tok) = [sid |-> tok.sid, gen |-> tok.gen + 1]
  BY DEF Successor, Pair
<1>5. ASSUME Grants(tok) PROVE tok \in replaced' /\ Successor(tok) \in Pair
  <2>1. tok \in replaced => tok \in replaced'
    BY DEF RefreshToken, server
  <2>2. tok \notin replaced => tok \in replaced'
    BY <1>5 DEF RefreshToken, Grants, Current
  <2>3. tok \in replaced'
    BY <2>1, <2>2
  <2>4. tok.gen < row'[tok.sid].gen /\ row'[tok.sid].gen \in 1..MaxGen /\ MaxGen \in Nat
    BY <1>1, <1>2, <1>4, <2>3 DEF Behind, WebRow, WebTypes, WebSizes
  <2> QED BY <1>4, <2>3, <2>4 DEF Pair
<1>6. ASSUME Good(tok)
      PROVE  /\ \A p : Good(p) => Good(p)'
             /\ tok \in replaced' /\ replaced \subseteq replaced'
             /\ Grants(tok) /\ Good(Successor(tok))'
  <2>1. /\ tok \in replaced' /\ replaced \subseteq replaced' /\ \A p : Good(p) => Good(p)'
        /\ Grants(tok) /\ Successor(tok) \in Pair
    BY <1>1, <1>5, <1>6, Refreshed, GoodIsGranted
  <2>2. tok.gen < row'[tok.sid].gen /\ Good(tok)'
    BY <1>2, <1>6, <2>1 DEF Behind
  <2>3. Good(Successor(tok))'
    <3>1. Successor(tok).sid = tok.sid /\ Successor(tok).gen = tok.gen + 1
      BY <1>4
    <3>2. row'[tok.sid].state = "live" /\ row'[tok.sid].gen \in 1..MaxGen
      BY <1>2, <1>4, <2>2 DEF Good, WebRow
    <3>3. ASSUME NEW q \in Pair, q.sid = tok.sid, tok.gen + 1 <= q.gen, q.gen < row'[tok.sid].gen
          PROVE  q \in replaced'
      BY <1>4, <2>2, <3>3 DEF Good, Pair
    <3> QED BY <1>4, <2>1, <2>2, <3>1, <3>2, <3>3 DEF Good
  <2> QED BY <2>1, <2>3
<1> QED BY <1>2, <1>3, <1>5, <1>6

LEMMA RetryStep ==
  ASSUME WebInv, NEW r \in Requests, NEW b \in BOOLEAN, Retry(r, b) PROVE WebInv'
<1>1. request[r].pc = "retrying" /\ WebTypes
  BY DEF Retry, WebInv
<1>2. PICK tok \in Pair : tok = request[r].tok
  BY <1>1 DEF WebInv, Refreshing, Asking
<1>3. UNCHANGED <<jar, due, shared, excuse>> /\ excuse \in BOOLEAN
  BY <1>1 DEF Retry, process, WebTypes
<1>4. lost' = (IF b THEN lost ELSE lost + 1) /\ RefreshToken(tok) /\ lost \in Nat
  BY <1>1, <1>2 DEF Retry, WebTypes
<1>5. /\ row' \in [Sids -> WebRow] /\ replaced' \subseteq Pair /\ Behind'
      /\ lost' \in Nat /\ lost <= lost' /\ (~b => lost' >= 1)
      /\ Grants(tok) => Successor(tok) \in Pair
      /\ Good(tok) => /\ \A p : Good(p) => Good(p)'
                      /\ tok \in replaced' /\ replaced \subseteq replaced'
                      /\ Grants(tok) /\ Good(Successor(tok))'
  BY <1>4, RefreshFrame
<1>6. ASSUME Unharmed' PROVE Unharmed /\ Good(tok) /\ lost >= 1
  <2>1. Unharmed
    BY <1>3, <1>4, <1>5, <1>6 DEF Unharmed
  <2> QED BY <1>1, <1>2, <2>1 DEF WebInv, Surviving, Served
<1>7. CASE b /\ Grants(tok)
  <2>1. request' = [request EXCEPT ![r] = Answered(r, "set", Successor(tok))]
    BY <1>2, <1>7 DEF Retry
  <2> QED BY <1>1, <1>3, <1>5, <1>6, <1>7, <2>1, AnswerGoesOut
<1>8. CASE ~(b /\ Grants(tok))
  <2>1. request' = [request EXCEPT ![r] = Answered(r, "clear", None)]
    BY <1>2, <1>8 DEF Retry, RedirectToLogin
  <2>2. ~Unharmed'
    BY <1>4, <1>5, <1>6, <1>8 DEF Unharmed
  <2> QED BY <1>1, <1>3, <1>5, <2>1, <2>2, AnswerGoesOut
<1> QED BY <1>7, <1>8

LEMMA RequestBegins ==
  ASSUME WebInv, NEW r \in Requests, NEW s \in Sids, BeginSession(r, s) PROVE WebInv'
<1> DEFINE new == [sid |-> s, gen |-> 1]
<1>1. WebTypes /\ Behind /\ request[r].pc = "idle" /\ row[s].state = "none"
  BY DEF BeginSession, Fresh, WebInv
<1>2. /\ UNCHANGED <<jar, due, shared, replaced, lost, excuse>>
      /\ row' = [row EXCEPT ![s] = [gen |-> 1, state |-> "live"]]
      /\ request' = [request EXCEPT ![r] = Answered(r, "set", new)]
  BY DEF BeginSession, process
<1>3. new \in Pair /\ new.sid = s /\ new.gen = 1
  BY <1>1 DEF Pair, WebTypes, WebSizes
<1>4. row'[s] = [gen |-> 1, state |-> "live"] /\ \A t \in Sids \ {s} : row'[t] = row[t]
  BY <1>1, <1>2 DEF WebTypes
<1>5. row' \in [Sids -> WebRow]
  BY <1>1, <1>2 DEF WebTypes, WebRow, WebSizes
<1>6. Behind'
  BY <1>1, <1>2, <1>4 DEF Behind, WebTypes, Pair
<1>7. \A p : Good(p) => Good(p)'
  BY <1>1, <1>2, <1>4 DEF Good, Pair
<1>8. Good(new)'
  BY <1>3, <1>4 DEF Good, Pair
<1>9. lost' \in Nat /\ lost <= lost' /\ excuse' \in BOOLEAN /\ replaced' \subseteq Pair
  BY <1>1, <1>2 DEF WebTypes
<1> HIDE DEF new
<1> QED BY <1>1, <1>2, <1>3, <1>5, <1>6, <1>7, <1>8, <1>9, AnswerGoesOut

LEMMA SignOutStep ==
  ASSUME WebInv, NEW r \in Requests, NEW b \in BOOLEAN, SignOut(r, b) PROVE WebInv'
<1>1. WebTypes /\ Behind /\ request[r].pc = "idle" /\ jar \in Pair
  BY DEF SignOut, Fresh, WebInv, WebTypes
<1>2. /\ UNCHANGED <<jar, due, shared, lost>> /\ excuse' = TRUE
      /\ request' = [request EXCEPT ![r] = Answered(r, "clear", None)]
  BY DEF SignOut, process
<1>3. row' \in [Sids -> WebRow] /\ replaced' \subseteq Pair
      /\ \A s \in Sids : row'[s].gen = row[s].gen /\ (row'[s].state = "none" => row[s].state = "none")
      /\ replaced' \subseteq replaced
  <2>1. CASE UNCHANGED server
    BY <1>1, <2>1 DEF server, WebTypes
  <2>2. CASE row' = [row EXCEPT ![jar.sid].state = "gone"] /\ replaced' = replaced \ {jar}
    BY <1>1, <2>2 DEF WebTypes, WebRow, Pair
  <2> QED BY <2>1, <2>2 DEF SignOut
<1>4. Behind'
  BY <1>1, <1>3 DEF Behind, WebTypes, Pair
<1>5. ~Unharmed' /\ lost' \in Nat /\ lost <= lost'
  BY <1>1, <1>2 DEF Unharmed, WebTypes
<1> QED BY <1>1, <1>2, <1>3, <1>4, <1>5, AnswerGoesOut

-----------------------------------------------------------------------------
(* A call judged by caches out of step with the row: the session may go,   *)
(* and that is an excuse.                                                  *)
LEMMA OutOfStepFrame ==
  ASSUME WebInv, NEW tok \in Pair, RefreshOutOfStep(tok)
  PROVE  /\ row' \in [Sids -> WebRow] /\ replaced' \subseteq Pair /\ Behind'
         /\ excuse' \in BOOLEAN /\ (excuse => excuse') /\ ~Unharmed'
<1>1. WebTypes /\ Behind /\ tok.sid \in Sids /\ replaced' = replaced /\ excuse' = TRUE
  BY DEF WebInv, Pair, RefreshOutOfStep, server
<1>2. row' \in [Sids -> WebRow]
      /\ \A s \in Sids : /\ row'[s].gen = row[s].gen
                         /\ row'[s].state = "none" => row[s].state = "none"
  <2>1. CASE row' = [row EXCEPT ![tok.sid].state = "stolen"]
    BY <1>1, <2>1 DEF WebTypes, WebRow
  <2>2. CASE row' = row
    BY <1>1, <2>2 DEF WebTypes
  <2> QED BY <2>1, <2>2 DEF RefreshOutOfStep, server
<1>3. Behind'
  BY <1>1, <1>2 DEF Behind, WebTypes, Pair
<1> QED BY <1>1, <1>2, <1>3 DEF WebTypes, Unharmed

LEMMA RetryOutOfStepInv ==
  ASSUME WebInv, NEW r \in Requests, RetryOutOfStep(r) PROVE WebInv'
<1>1. request[r].pc = "retrying" /\ lost \in Nat
  BY DEF RetryOutOfStep, WebInv, WebTypes
<1>2. PICK tok \in Pair : tok = request[r].tok
  BY <1>1 DEF WebInv, Refreshing, Asking
<1>3. UNCHANGED <<jar, due, shared, lost>> /\ RefreshOutOfStep(tok)
      /\ request' = [request EXCEPT ![r] = Answered(r, "clear", None)]
  BY <1>2 DEF RetryOutOfStep, RedirectToLogin, process
<1>4. /\ row' \in [Sids -> WebRow] /\ replaced' \subseteq Pair /\ Behind'
      /\ excuse' \in BOOLEAN /\ (excuse => excuse') /\ ~Unharmed'
  BY <1>3, OutOfStepFrame
<1>5. lost' \in Nat /\ lost <= lost'
  BY <1>1, <1>3
<1> QED BY <1>1, <1>3, <1>4, <1>5, AnswerGoesOut

-----------------------------------------------------------------------------
(* Nothing but the calls of the processes moves.                           *)
LEMMA CallsMove ==
  ASSUME WebInv, UNCHANGED <<jar, due, request>>,
         shared' \in [Processes -> Calling], row' \in [Sids -> WebRow], replaced' \subseteq Pair,
         Behind', lost' \in Nat, lost <= lost', excuse' \in BOOLEAN, excuse => excuse',
         Unharmed' => /\ \A p : Good(p) => Good(p)'
                      /\ \A w \in Processes, tok \in Pair : Awaited(w, tok)'
  PROVE  WebInv'
<1>1. WebTypes' /\ Refreshing'
  BY DEF WebInv, WebTypes, WebSizes, Refreshing, Pair, Sids
<1>2. ASSUME Unharmed' PROVE Surviving'
  <2>1. Surviving
    BY <1>2 DEF WebInv, Unharmed, WebTypes
  <2>2. Good(jar)'
    BY <1>2, <2>1 DEF Surviving, Good
  <2>3. ASSUME NEW o \in Requests PROVE Served(o)'
    <3>1. Served(o)
      BY <2>1 DEF Surviving
    <3> QED BY <1>2, <3>1 DEF Served, Good, WebInv, WebTypes
  <2> QED BY <1>2, <2>2, <2>3 DEF Surviving, Pair, Sids
<1> QED BY <1>1, <1>2 DEF WebInv

(* The call of one process for one token fails.                            *)
LEMMA CallFails ==
  ASSUME WebTypes, NEW w \in Processes, NEW tok \in Pair,
         shared' = [shared EXCEPT ![w][tok] = "failed"]
  PROVE  /\ shared' \in [Processes -> Calling]
         /\ shared'[w][tok] = "failed"
         /\ \A v \in Processes, t \in Pair : (v = w /\ t = tok) \/ shared'[v][t] = shared[v][t]
<1>1. shared \in [Processes -> Calling] /\ "failed" \in SessionEnds
  BY DEF WebTypes, SessionEnds
<1>2. shared[w] \in [Pair -> SessionEnds]
  BY <1>1 DEF Calling
<1>3. PICK c \in [Pair -> SessionEnds] : c = [shared[w] EXCEPT ![tok] = "failed"]
  BY <1>1, <1>2 DEF SessionEnds
<1>4. c[tok] = "failed" /\ \A t \in Pair : t = tok \/ c[t] = shared[w][t]
  BY <1>2, <1>3
<1>5. shared' = [shared EXCEPT ![w] = c]
  BY <1>3
<1>6. c \in Calling
  BY <1>1, <1>2, <1>4 DEF Calling
<1>7. shared' \in [Processes -> Calling] /\ shared'[w][tok] = "failed"
  BY <1>1, <1>4, <1>5, <1>6
<1>8. ASSUME NEW v \in Processes, NEW t \in Pair
      PROVE  (v = w /\ t = tok) \/ shared'[v][t] = shared[v][t]
  BY <1>1, <1>4, <1>5
<1> QED BY <1>7, <1>8

LEMMA ServeOutOfStepInv ==
  ASSUME WebInv, NEW w \in Processes, NEW tok \in Pair, ServeSharedOutOfStep(w, tok)
  PROVE  WebInv'
<1>1. WebTypes /\ lost \in Nat
  BY DEF WebInv, WebTypes
<1>2. UNCHANGED <<jar, due, request, lost>> /\ RefreshOutOfStep(tok)
      /\ shared' = [shared EXCEPT ![w][tok] = "failed"]
  BY DEF ServeSharedOutOfStep
<1>3. shared' \in [Processes -> Calling]
  BY <1>1, <1>2, CallFails
<1>4. /\ row' \in [Sids -> WebRow] /\ replaced' \subseteq Pair /\ Behind'
      /\ excuse' \in BOOLEAN /\ (excuse => excuse') /\ ~Unharmed'
  BY <1>2, OutOfStepFrame
<1>5. lost' \in Nat /\ lost <= lost'
  BY <1>1, <1>2
<1> QED BY <1>2, <1>3, <1>4, <1>5, CallsMove

LEMMA LoseStep ==
  ASSUME WebInv, NEW w \in Processes, NEW tok \in Pair, LoseShared(w, tok) PROVE WebInv'
<1>1. WebTypes /\ Behind /\ lost' = lost + 1 /\ lost \in Nat
  BY DEF LoseShared, WebInv, WebTypes
<1>2. UNCHANGED <<jar, due, request, excuse, row, replaced>> /\ excuse \in BOOLEAN
  BY <1>1 DEF LoseShared, server, WebTypes
<1>3. shared' = [shared EXCEPT ![w][tok] = "failed"] /\ shared[w][tok] = "called"
  BY DEF LoseShared
<1>4. /\ shared' \in [Processes -> Calling]
      /\ shared'[w][tok] = "failed"
      /\ \A v \in Processes, t \in Pair : (v = w /\ t = tok) \/ shared'[v][t] = shared[v][t]
  BY <1>1, <1>3, CallFails
<1>5. \A p : Good(p) => Good(p)'
  BY <1>2 DEF Good
<1>6. ASSUME Unharmed', NEW v \in Processes, NEW t \in Pair PROVE Awaited(v, t)'
  <2>1. Awaited(v, t)
    BY <1>1, <1>2, <1>6 DEF Surviving, Unharmed, WebInv
  <2>2. shared'[v][t] = shared[v][t] \/ (shared'[v][t] = "failed" /\ shared[v][t] # "none")
    BY <1>3, <1>4
  <2> QED BY <1>1, <1>2, <2>1, <2>2 DEF Awaited, Waits
<1>7. row' \in [Sids -> WebRow] /\ replaced' \subseteq Pair /\ Behind'
  BY <1>1, <1>2 DEF WebTypes, Behind
<1>8. Unharmed' => \A v \in Processes, t \in Pair : Awaited(v, t)'
  BY <1>6
<1> QED BY <1>1, <1>2, <1>4, <1>5, <1>7, <1>8, CallsMove

LEMMA ServeStep ==
  ASSUME WebInv, NEW w \in Processes, NEW tok \in Pair, NEW b \in BOOLEAN, ServeShared(w, tok, b)
  PROVE  WebInv'
<1>1. WebTypes /\ Behind /\ lost' = (IF b THEN lost ELSE lost + 1) /\ lost \in Nat
      /\ RefreshToken(tok)
  BY DEF ServeShared, WebInv, WebTypes
<1>2. UNCHANGED <<jar, due, request, excuse>> /\ excuse \in BOOLEAN
  BY <1>1 DEF ServeShared, WebTypes
<1> DEFINE end == IF b /\ Grants(tok) THEN "pair" ELSE "failed"
<1>3. shared' = [shared EXCEPT ![w][tok] = end] /\ shared[w][tok] = "called"
  BY DEF ServeShared
<1>4. /\ row' \in [Sids -> WebRow] /\ replaced' \subseteq Pair /\ Behind'
      /\ lost' \in Nat /\ lost <= lost' /\ (~b => lost' >= 1)
      /\ Grants(tok) => Successor(tok) \in Pair
      /\ Good(tok) => /\ \A p : Good(p) => Good(p)'
                      /\ tok \in replaced' /\ replaced \subseteq replaced'
                      /\ Grants(tok) /\ Good(Successor(tok))'
  BY <1>1, RefreshFrame
<1>5. /\ shared' \in [Processes -> Calling]
      /\ shared'[w][tok] = end
      /\ \A v \in Processes, t \in Pair : (v = w /\ t = tok) \/ shared'[v][t] = shared[v][t]
  <2>1. end \in SessionEnds /\ (end = "pair" => Successor(tok) \in Pair)
    BY <1>4 DEF SessionEnds
  <2> HIDE DEF end
  <2>2. shared' = [shared EXCEPT ![w][tok] = end]
    BY <1>3
  <2>3. shared \in [Processes -> Calling]
    BY <1>1 DEF WebTypes
  <2>4. /\ shared' \in [Processes -> Calling] /\ shared'[w][tok] = end
        /\ \A v \in Processes, t \in Pair : (v = w /\ t = tok) \/ shared'[v][t] = shared[v][t]
    <3>1. shared[w] \in [Pair -> SessionEnds]
      BY <2>3 DEF Calling
    <3>2. PICK c \in [Pair -> SessionEnds] : c = [shared[w] EXCEPT ![tok] = end]
      BY <3>1, <2>1 DEF SessionEnds
    <3>3. c[tok] = end /\ \A t \in Pair : t = tok \/ c[t] = shared[w][t]
      BY <3>1, <3>2
    <3>4. shared' = [shared EXCEPT ![w] = c]
      BY <2>2, <3>2
    <3>5. c \in Calling
      BY <2>1, <2>3, <3>1, <3>3 DEF Calling
    <3>6. shared' \in [Processes -> Calling] /\ shared'[w][tok] = end
      BY <2>3, <3>3, <3>4, <3>5
    <3>7. ASSUME NEW v \in Processes, NEW t \in Pair
          PROVE  (v = w /\ t = tok) \/ shared'[v][t] = shared[v][t]
      BY <2>3, <3>3, <3>4
    <3> QED BY <3>6, <3>7
  <2> QED BY <2>4
<1>6. ASSUME Unharmed' PROVE Surviving /\ Good(tok)
  <2>1. Surviving
    BY <1>1, <1>2, <1>4, <1>6 DEF Unharmed, WebInv
  <2>2. PICK o \in Requests : Waits(o, w, tok)
    BY <1>3, <2>1 DEF Surviving, Awaited
  <2> QED BY <2>1, <2>2 DEF Surviving, Served, Waits
<1>7. ASSUME Unharmed', NEW v \in Processes, NEW t \in Pair PROVE Awaited(v, t)'
  <2>1. Awaited(v, t) /\ replaced \subseteq replaced' /\ tok \in replaced' /\ Grants(tok)
    BY <1>4, <1>6, <1>7 DEF Surviving
  <2>2. CASE v = w /\ t = tok
    <3>1. shared'[v][t] = end
      BY <1>5, <2>2
    <3> QED BY <1>2, <1>3, <1>4, <2>1, <2>2, <3>1 DEF Awaited, Waits
  <2>3. CASE ~(v = w /\ t = tok)
    <3>1. shared'[v][t] = shared[v][t]
      BY <1>5, <2>3
    <3> QED BY <1>1, <1>2, <1>4, <2>1, <3>1 DEF Awaited, Waits
  <2> QED BY <2>2, <2>3
<1>8. Unharmed' => /\ \A p : Good(p) => Good(p)'
                   /\ \A v \in Processes, t \in Pair : Awaited(v, t)'
  BY <1>4, <1>6, <1>7
<1> QED BY <1>2, <1>4, <1>5, <1>8, CallsMove

(* The shared call settles for all who await it.                           *)
LEMMA SettleStep ==
  ASSUME WebInv, NEW w \in Processes, NEW tok \in Pair, SharedSettles(w, tok) PROVE WebInv'
<1>1. WebTypes /\ Behind /\ Refreshing
  BY DEF WebInv
<1>2. UNCHANGED <<jar, due, row, replaced, lost, excuse>>
  BY DEF SharedSettles, server
<1>3. shared[w][tok] \in {"pair", "failed"} /\ shared' = [shared EXCEPT ![w][tok] = "none"]
  BY DEF SharedSettles
<1>4. /\ shared' \in [Processes -> Calling] /\ shared'[w][tok] = "none"
      /\ \A v \in Processes, t \in Pair : (v = w /\ t = tok) \/ shared'[v][t] = shared[v][t]
  <2>1. shared \in [Processes -> Calling] /\ shared[w] \in [Pair -> SessionEnds]
    BY <1>1 DEF WebTypes, Calling
  <2>2. PICK c \in [Pair -> SessionEnds] : c = [shared[w] EXCEPT ![tok] = "none"]
    BY <2>1 DEF SessionEnds
  <2>3. c[tok] = "none" /\ \A t \in Pair : t = tok \/ c[t] = shared[w][t]
    BY <2>1, <2>2
  <2>4. shared' = [shared EXCEPT ![w] = c]
    BY <1>3, <2>2
  <2>5. c \in Calling
    BY <2>1, <2>3 DEF Calling
  <2>6. shared' \in [Processes -> Calling] /\ shared'[w][tok] = "none"
    BY <2>1, <2>3, <2>4, <2>5
  <2>7. ASSUME NEW v \in Processes, NEW t \in Pair
        PROVE  (v = w /\ t = tok) \/ shared'[v][t] = shared[v][t]
    BY <2>1, <2>3, <2>4
  <2> QED BY <2>6, <2>7
<1>5. shared[w][tok] = "pair" => Successor(tok) \in Pair
  BY <1>1 DEF WebTypes, Calling
<1>6. ASSUME NEW r \in Requests
      PROVE  /\ request'[r] \in WebRequest
             /\ ~Waits(r, w, tok) => request'[r] = request[r]
             /\ Waits(r, w, tok) /\ shared[w][tok] = "pair" =>
                  request'[r].pc = "answered" /\ request'[r].ans = [kind |-> "set", tok |-> Successor(tok)]
             /\ Waits(r, w, tok) /\ shared[w][tok] = "failed" =>
                  request'[r].pc = "retrying" /\ request'[r].tok = tok
  <2>1. CASE ~Waits(r, w, tok)
    BY <1>1, <2>1 DEF SharedSettles, WebTypes
  <2>2. CASE Waits(r, w, tok) /\ shared[w][tok] = "pair"
    <3>1. request'[r] = Answered(r, "set", Successor(tok))
      BY <2>2 DEF SharedSettles
    <3> QED BY <1>1, <1>5, <2>2, <3>1, AnswerTypes
  <2>3. CASE Waits(r, w, tok) /\ shared[w][tok] = "failed"
    <3>1. request'[r] = [request[r] EXCEPT !.pc = "retrying"]
      BY <2>3 DEF SharedSettles
    <3>2. request[r] \in WebRequest /\ request[r].tok = tok
      BY <1>1, <2>3 DEF WebTypes, Waits
    <3> QED BY <2>3, <3>1, <3>2 DEF WebRequest, Steps
  <2> QED BY <1>3, <2>1, <2>2, <2>3
<1>7. WebTypes'
  <2>1. request' \in [Requests -> WebRequest]
    BY <1>6 DEF SharedSettles
  <2> QED BY <1>1, <1>2, <1>4, <2>1 DEF WebTypes, WebSizes, Pair, Sids
<1>8. Refreshing'
  <2> SUFFICES ASSUME NEW r \in Requests, request'[r].pc \in Asking PROVE request'[r].tok \in Pair
    BY DEF Refreshing, Pair, Sids
  <2>1. CASE ~Waits(r, w, tok)
    BY <1>1, <1>6, <2>1 DEF Refreshing
  <2>2. CASE Waits(r, w, tok)
    BY <1>3, <1>6, <2>2 DEF Asking
  <2> QED BY <2>1, <2>2
<1>9. Behind'
  BY <1>1, <1>2 DEF Behind
<1>10. ASSUME Unharmed' PROVE Surviving'
  <2>1. Surviving
    BY <1>2, <1>10 DEF WebInv, Unharmed
  <2>2. \A p : Good(p) => Good(p)'
    BY <1>2 DEF Good
  <2>3. Good(jar)'
    BY <1>2, <2>1 DEF Surviving, Good
  <2>4. Awaited(w, tok)
    BY <2>1 DEF Surviving
  <2>5. ASSUME NEW r \in Requests PROVE Served(r)'
    <3>1. Served(r)
      BY <2>1 DEF Surviving
    <3>2. CASE ~Waits(r, w, tok)
      <4>1. request'[r] = request[r]
        BY <1>6, <3>2
      <4> QED BY <1>2, <2>2, <3>1, <4>1 DEF Served, Good
    <3>3. CASE Waits(r, w, tok)
      <4>1. Good(tok)
        BY <3>1, <3>3 DEF Served, Waits
      <4>2. CASE shared[w][tok] = "pair"
        <5>1. Good(Successor(tok))
          BY <1>1, <2>4, <4>1, <4>2, SuccessorIsGood DEF Awaited
        <5>2. request'[r].pc = "answered" /\ request'[r].ans.kind = "set"
              /\ request'[r].ans.tok = Successor(tok)
          BY <1>6, <3>3, <4>2
        <5>3. Good(request'[r].ans.tok)
          BY <5>1, <5>2
        <5> QED BY <1>2, <5>2, <5>3 DEF Served, Good
      <4>3. CASE shared[w][tok] = "failed"
        <5>1. request'[r].pc = "retrying" /\ request'[r].tok = tok
          BY <1>6, <3>3, <4>3
        <5>2. lost' >= 1 /\ Good(request'[r].tok)
          BY <1>2, <2>4, <4>1, <4>3, <5>1 DEF Awaited
        <5> QED BY <1>2, <5>1, <5>2 DEF Served, Good
      <4> QED BY <1>3, <4>2, <4>3
    <3> QED BY <3>2, <3>3
  <2>6. ASSUME NEW v \in Processes, NEW t \in Pair PROVE Awaited(v, t)'
    <3>1. Awaited(v, t)
      BY <2>1 DEF Surviving
    <3>2. CASE v = w /\ t = tok
      BY <1>4, <3>2 DEF Awaited
    <3>3. CASE ~(v = w /\ t = tok)
      <4>1. shared'[v][t] = shared[v][t]
        BY <1>4, <3>3
      <4>2. ASSUME NEW o \in Requests, Waits(o, v, t) PROVE Waits(o, v, t)'
        <5>1. ~Waits(o, w, tok)
          BY <3>3, <4>2 DEF Waits
        <5> QED BY <1>6, <4>2, <5>1 DEF Waits
      <4> QED BY <1>2, <3>1, <4>1, <4>2 DEF Awaited
    <3> QED BY <3>2, <3>3
  <2> QED BY <2>3, <2>5, <2>6 DEF Surviving, Pair, Sids
<1> QED BY <1>7, <1>8, <1>9, <1>10 DEF WebInv

(* A process that restarts takes its calls and those who await them along. *)
LEMMA ReloadStep == ASSUME WebInv, NEW w \in Processes, Reload(w) PROVE WebInv'
<1>1. WebTypes /\ Behind /\ Refreshing
  BY DEF WebInv
<1>2. UNCHANGED <<jar, due, row, replaced, lost, excuse>>
  BY DEF Reload, server
<1>3. NoCalls \in Calling /\ \A tok \in Pair : NoCalls[tok] = "none"
  BY DEF NoCalls, Calling, SessionEnds
<1>4. shared' \in [Processes -> Calling] /\ shared'[w] = NoCalls
      /\ \A v \in Processes : v = w \/ shared'[v] = shared[v]
  BY <1>1, <1>3 DEF Reload, WebTypes
<1>5. ASSUME NEW r \in Requests
      PROVE  /\ request'[r] \in WebRequest
             /\ request'[r] = request[r] \/ request'[r].pc = "idle"
             /\ request[r].at # w => request'[r] = request[r]
  BY <1>1, NoRequestIsIdle DEF Reload, WebTypes
<1>6. WebTypes'
  <2>1. request' \in [Requests -> WebRequest]
    BY <1>5 DEF Reload
  <2> QED BY <1>1, <1>2, <1>4, <2>1 DEF WebTypes, WebSizes, Pair, Sids
<1>7. Refreshing' /\ Behind'
  BY <1>1, <1>2, <1>5 DEF Refreshing, Asking, Behind, Pair, Sids
<1>8. ASSUME Unharmed' PROVE Surviving'
  <2>1. Surviving
    BY <1>2, <1>8 DEF WebInv, Unharmed
  <2>2. Good(jar)'
    BY <1>2, <2>1 DEF Surviving, Good
  <2>3. ASSUME NEW r \in Requests PROVE Served(r)'
    <3>1. Served(r)
      BY <2>1 DEF Surviving
    <3>2. CASE request'[r] = request[r]
      BY <1>2, <3>1, <3>2 DEF Served, Good
    <3>3. CASE request'[r].pc = "idle"
      BY <3>3 DEF Served
    <3> QED BY <1>5, <3>2, <3>3
  <2>4. ASSUME NEW v \in Processes, NEW t \in Pair PROVE Awaited(v, t)'
    <3>1. Awaited(v, t)
      BY <2>1 DEF Surviving
    <3>2. CASE v = w
      BY <1>3, <1>4, <3>2 DEF Awaited
    <3>3. CASE v # w
      <4>1. shared'[v][t] = shared[v][t]
        BY <1>4, <3>3
      <4>2. ASSUME NEW o \in Requests, Waits(o, v, t) PROVE Waits(o, v, t)'
        BY <1>5, <3>3, <4>2 DEF Waits
      <4> QED BY <1>2, <3>1, <4>1, <4>2 DEF Awaited
    <3> QED BY <3>2, <3>3
  <2> QED BY <2>2, <2>3, <2>4 DEF Surviving, Pair, Sids
<1> QED BY <1>6, <1>7, <1>8 DEF WebInv

(* Time passes in the browser or in a process.                             *)
LEMMA AgeStep ==
  ASSUME WebInv, UNCHANGED <<jar, request, shared, row, replaced, lost, excuse>>, due' \in BOOLEAN
  PROVE  WebInv'
<1>1. WebTypes' /\ Refreshing' /\ Behind'
  BY DEF WebInv, WebTypes, WebSizes, Refreshing, Behind, Pair, Sids
<1>2. ASSUME Unharmed' PROVE Surviving'
  <2>1. Surviving
    BY <1>2 DEF WebInv, Unharmed
  <2>2. Good(jar)'
    BY <2>1 DEF Surviving, Good
  <2>3. ASSUME NEW r \in Requests PROVE Served(r)'
    <3>1. Served(r)
      BY <2>1 DEF Surviving
    <3> QED BY <3>1 DEF Served, Good
  <2>4. ASSUME NEW v \in Processes, NEW t \in Pair PROVE Awaited(v, t)'
    <3>1. Awaited(v, t)
      BY <2>1 DEF Surviving
    <3> QED BY <3>1 DEF Awaited, Waits
  <2> QED BY <2>2, <2>3, <2>4 DEF Surviving, Pair, Sids
<1> QED BY <1>1, <1>2 DEF WebInv

(* The replacement of a pair leaves the service's cache, the earliest of   *)
(* its session: what is held of that session is newer than it.             *)
LEMMA ExpireStep == ASSUME WebInv, NEW p \in Pair, ReplacedExpires(p) PROVE WebInv'
<1>1. WebTypes /\ Behind /\ Refreshing
  BY DEF WebInv
<1>2. /\ UNCHANGED <<jar, due, request, shared, row, lost>> /\ replaced' = replaced \ {p}
      /\ excuse' = (excuse \/ Holds(p)) /\ p \in replaced
      /\ \A q \in replaced : q.sid = p.sid => p.gen <= q.gen
  BY DEF ReplacedExpires, process
<1>3. WebTypes' /\ Refreshing' /\ Behind'
  <2>1. excuse' \in BOOLEAN
    BY <1>1, <1>2 DEF Holds, WebTypes
  <2> QED BY <1>1, <1>2, <2>1 DEF WebTypes, WebSizes, Refreshing, Behind, Pair, Sids
<1>4. ASSUME Unharmed' PROVE Surviving'
  <2>1. Surviving /\ ~Holds(p)
    BY <1>2, <1>4 DEF WebInv, Unharmed
  <2>2. ASSUME NEW x, Good(x), x # p PROVE Good(x)'
    <3>1. x \in Pair /\ x.gen \in Nat /\ p.gen \in Nat
      BY <2>2 DEF Good, Pair
    <3>2. ASSUME NEW q \in Pair, q.sid = x.sid, x.gen <= q.gen, q.gen < row[x.sid].gen
          PROVE  q # p
      <4>1. SUFFICES ASSUME q = p PROVE FALSE
        OBVIOUS
      <4>2. row[x.sid].gen \in Nat
        BY <1>1, <3>1 DEF WebTypes, WebRow, Pair
      <4>3. x \in replaced
        BY <2>2, <3>1, <3>2, <4>1, <4>2 DEF Good
      <4>4. x.gen = p.gen
        BY <1>2, <3>1, <3>2, <4>1, <4>3
      <4> QED BY <2>2, <3>1, <3>2, <4>1, <4>4, SamePair
    <3> QED BY <1>2, <2>2, <3>2 DEF Good
  <2>3. Good(jar)'
    <3>1. Good(jar) /\ jar # p
      BY <2>1 DEF Surviving, Holds
    <3>2. Good(jar')
      BY <1>2, <3>1
    <3>3. \A q \in Pair : q.sid = jar.sid /\ jar.gen <= q.gen /\ q.gen < row[jar.sid].gen => q # p
      <4> SUFFICES ASSUME NEW q \in Pair, q.sid = jar.sid, jar.gen <= q.gen, q.gen < row[jar.sid].gen,
                          q = p
                   PROVE  FALSE
        OBVIOUS
      <4>1. jar \in Pair /\ jar.gen \in Nat /\ p.gen \in Nat
        BY <3>1 DEF Good, Pair
      <4>2. row[jar.sid].gen \in Nat
        BY <1>1, <4>1 DEF WebTypes, WebRow, Pair
      <4>3. jar \in replaced
        BY <3>1, <4>1, <4>2 DEF Good
      <4>4. jar.gen = p.gen
        BY <1>2, <4>1, <4>3
      <4> QED BY <3>1, <4>1, <4>4, SamePair
    <3> QED BY <1>2, <3>1, <3>3 DEF Good
  <2>4. ASSUME NEW r \in Requests PROVE Served(r)'
    <3>1. Served(r) /\ request[r].tok # p /\ request[r].ans.tok # p
      BY <2>1 DEF Surviving, Holds
    <3>2. PICK a : a = request[r].tok
      OBVIOUS
    <3>3. PICK b : b = request[r].ans.tok
      OBVIOUS
    <3>4. (Good(a) => Good(a)') /\ (Good(b) => Good(b)')
      BY <2>2, <3>1, <3>2, <3>3
    <3> QED BY <1>2, <3>1, <3>2, <3>3, <3>4 DEF Served, Good
  <2>5. ASSUME NEW v \in Processes, NEW t \in Pair PROVE Awaited(v, t)'
    <3>1. Awaited(v, t)
      BY <2>1 DEF Surviving
    <3>2. CASE shared[v][t] = "none"
      BY <1>2, <3>2 DEF Awaited
    <3>3. CASE shared[v][t] # "none"
      <4>1. PICK o \in Requests : Waits(o, v, t)
        BY <3>1, <3>3 DEF Awaited
      <4>2. t # p
        BY <2>1, <4>1 DEF Holds, Waits
      <4> QED BY <1>2, <3>1, <4>1, <4>2 DEF Awaited, Waits
    <3> QED BY <3>2, <3>3
  <2> QED BY <2>3, <2>4, <2>5 DEF Surviving, Pair, Sids
<1> QED BY <1>3, <1>4 DEF WebInv

-----------------------------------------------------------------------------
LEMMA WebNextInv == WebInv /\ [WebNext]_webVars => WebInv'
<1> SUFFICES ASSUME WebInv, [WebNext]_webVars PROVE WebInv'
  OBVIOUS
<1>1. due \in BOOLEAN
  BY DEF WebInv, WebTypes
<1>2. ASSUME NEW r \in Requests, Navigate(r) PROVE WebInv'
  BY <1>2, NavigateStep
<1>3. ASSUME NEW r \in Requests, Deliver(r) PROVE WebInv'
  BY <1>3, DeliverStep
<1>4. ASSUME NEW r \in Requests, NEW b \in BOOLEAN, Validate(r, b) PROVE WebInv'
  BY <1>4, ValidateStep
<1>5. ASSUME NEW r \in Requests, NEW b \in BOOLEAN, Retry(r, b) PROVE WebInv'
  BY <1>5, RetryStep
<1>6. ASSUME NEW r \in Requests, NEW b \in BOOLEAN, SignOut(r, b) PROVE WebInv'
  BY <1>6, SignOutStep
<1>7. ASSUME NEW r \in Requests, NEW s \in Sids, SubmitSignIn(r, s) \/ SubmitSignUp(r, s)
      PROVE  WebInv'
  BY <1>7, RequestBegins DEF SubmitSignIn, SubmitSignUp
<1>8. ASSUME NEW w \in Processes, NEW tok \in Pair, LoseShared(w, tok) PROVE WebInv'
  BY <1>8, LoseStep
<1>9. ASSUME NEW w \in Processes, NEW tok \in Pair, SharedSettles(w, tok) PROVE WebInv'
  BY <1>9, SettleStep
<1>10. ASSUME NEW w \in Processes, NEW tok \in Pair, NEW b \in BOOLEAN, ServeShared(w, tok, b)
       PROVE  WebInv'
  BY <1>10, ServeStep
<1>11. CASE AccessAges
  BY <1>11, AgeStep DEF AccessAges, process, server
<1>12. ASSUME NEW w \in Processes, KeyPruned(w) PROVE WebInv'
  BY <1>1, <1>12, AgeStep DEF KeyPruned, server
<1>13. ASSUME NEW w \in Processes, Reload(w) PROVE WebInv'
  BY <1>13, ReloadStep
<1>14. ASSUME NEW p \in Pair, ReplacedExpires(p) PROVE WebInv'
  BY <1>14, ExpireStep
<1>15. CASE UNCHANGED webVars
  BY <1>1, <1>15, AgeStep DEF webVars
<1>16. ASSUME NEW r \in Requests, RetryOutOfStep(r) PROVE WebInv'
  BY <1>16, RetryOutOfStepInv
<1>17. ASSUME NEW w \in Processes, NEW tok \in Pair, ServeSharedOutOfStep(w, tok) PROVE WebInv'
  BY <1>17, ServeOutOfStepInv
<1> QED BY <1>2, <1>3, <1>4, <1>5, <1>6, <1>7, <1>8, <1>9, <1>10, <1>11, <1>12, <1>13, <1>14, <1>15,
           <1>16, <1>17 DEF WebNext

LEMMA WebInvIsSafe == WebInv => OneFailureIsSurvived
  BY DEF WebInv, OneFailureIsSurvived, Unharmed, Surviving, Good, WebTypes, WebSizes

(* One lost call, overlapping refreshes and restarts leave the browser     *)
(* with the cookie of a live session.                                      *)
THEOREM OneLossIsSurvived == WebSizes /\ WebSpec => []OneFailureIsSurvived
<1>1. WebSizes /\ WebInit => WebInv
  BY WebInitInv
<1>2. WebInv /\ [WebNext]_webVars => WebInv'
  BY WebNextInv
<1>3. WebInv => OneFailureIsSurvived
  BY WebInvIsSafe
<1> QED BY <1>1, <1>2, <1>3, PTL DEF WebSpec

-----------------------------------------------------------------------------
(* ---- File preview: closing it does not take back the editor ------------ *)

Pages == {"grid", "preview", "edit"}

(* Only the flag that holds the drawer's closing back leads to the editor; *)
(* the grid is where the history begins, unless the file is gone.          *)
Headed ==
  /\ hist \in Seq(Pages) /\ Len(hist) >= 1
  /\ nav \in Seq({"edit", "back"})
  /\ file \in {"loading", "here", "gone"}
  /\ file # "gone" => \A i \in 1..Len(hist) : hist[i] = "grid" => i = 1
  /\ ~leavingForEditor => /\ \A i \in 1..Len(hist) : hist[i] # "edit"
                          /\ \A i \in 1..Len(nav) : nav[i] # "edit"

LEMMA HeadedBegins == PreviewInit => Headed
  BY DEF PreviewInit, Headed, Pages

LEMMA FrontIs ==
  ASSUME NEW S, NEW s \in Seq(S), Len(s) >= 1
  PROVE  /\ Front(s) \in Seq(S) /\ Len(Front(s)) = Len(s) - 1
         /\ \A i \in 1..Len(Front(s)) : Front(s)[i] = s[i]
<1>1. PICK n \in Nat : n = Len(s) - 1
  OBVIOUS
<1>2. \A i \in 1..n : s[i] \in S
  BY <1>1
<1>3. /\ SubSeq(s, 1, n) \in Seq(S)
      /\ Len(SubSeq(s, 1, n)) = IF 1 <= n THEN n - 1 + 1 ELSE 0
      /\ \A i \in 1..n - 1 + 1 : SubSeq(s, 1, n)[i] = s[1 + i - 1]
  BY <1>2, SubSeqProperties
<1> DEFINE front == SubSeq(s, 1, n)
<1>4. front = Front(s)
  BY <1>1 DEF Front
<1>5. front \in Seq(S) /\ Len(front) = IF 1 <= n THEN n - 1 + 1 ELSE 0
  BY <1>3
<1>6. \A i \in 1..n - 1 + 1 : front[i] = s[1 + i - 1]
  BY <1>3
<1> HIDE DEF front
<1>7. Len(front) = n /\ \A i \in 1..n : front[i] = s[i]
  BY <1>5, <1>6
<1> QED BY <1>1, <1>4, <1>5, <1>7

LEMMA Appended ==
  ASSUME NEW S, NEW s \in Seq(S), NEW e \in S
  PROVE  /\ Append(s, e) \in Seq(S) /\ Len(Append(s, e)) = Len(s) + 1
         /\ Append(s, e)[Len(s) + 1] = e
         /\ \A i \in 1..Len(s) : Append(s, e)[i] = s[i]
  OBVIOUS

(* The history after a step back, and after a step on.                     *)
LEMMA HeadedBack ==
  ASSUME Headed, Len(hist) > 1, hist' = Front(hist), nav' \in Seq({"edit", "back"}),
         UNCHANGED <<file, leavingForEditor>>,
         ~leavingForEditor => \A i \in 1..Len(nav') : nav'[i] # "edit"
  PROVE  Headed'
<1>1. /\ hist' \in Seq(Pages) /\ Len(hist') = Len(hist) - 1 /\ Len(hist) \in Nat
      /\ \A i \in 1..Len(hist') : hist'[i] = hist[i]
  BY FrontIs DEF Headed
<1>2. \A i \in 1..Len(hist') : i \in 1..Len(hist)
  BY <1>1
<1> QED BY <1>1, <1>2 DEF Headed, Pages

LEMMA HeadedOn ==
  ASSUME Headed, NEW page \in {"preview", "edit"}, hist' = Append(hist, page),
         nav' \in Seq({"edit", "back"}), UNCHANGED file,
         ~leavingForEditor' => /\ page = "preview"
                               /\ \A i \in 1..Len(hist) : hist[i] # "edit"
                               /\ \A i \in 1..Len(nav') : nav'[i] # "edit"
  PROVE  Headed'
<1>1. /\ hist' \in Seq(Pages) /\ Len(hist') = Len(hist) + 1 /\ hist'[Len(hist) + 1] = page
      /\ Len(hist) \in Nat /\ \A i \in 1..Len(hist) : hist'[i] = hist[i]
  BY Appended DEF Headed, Pages
<1>2. \A i \in 1..Len(hist') : i \in 1..Len(hist) \/ i = Len(hist) + 1
  BY <1>1
<1> QED BY <1>1, <1>2 DEF Headed, Pages

LEMMA HeadedGoesOn == ASSUME Headed, [PreviewNext]_previewVars PROVE Headed'
<1>1. CASE FileAnswered
  <2>1. file = "loading" /\ UNCHANGED <<nav, leavingForEditor>>
    BY <1>1 DEF FileAnswered
  <2>2. CASE file' = "here" /\ UNCHANGED hist
    BY <2>1, <2>2 DEF Headed, Pages
  <2>3. CASE file' = "gone" /\ hist' = Append(Front(hist), "grid")
    <3> DEFINE rest == Front(hist)
    <3>1. /\ rest \in Seq(Pages) /\ Len(rest) = Len(hist) - 1 /\ Len(rest) \in Nat
          /\ \A i \in 1..Len(rest) : rest[i] = hist[i]
      BY FrontIs DEF Headed
    <3> HIDE DEF rest
    <3>2. hist' = Append(rest, "grid")
      BY <2>3 DEF rest
    <3>3. /\ hist' \in Seq(Pages) /\ Len(hist') = Len(rest) + 1 /\ hist'[Len(rest) + 1] = "grid"
          /\ \A i \in 1..Len(rest) : hist'[i] = rest[i]
      BY <3>1, <3>2, Appended DEF Pages
    <3>4. \A i \in 1..Len(hist') : i = Len(rest) + 1 \/ (i \in 1..Len(rest) /\ i \in 1..Len(hist))
      BY <3>1, <3>3
    <3> QED BY <2>1, <2>3, <3>1, <3>3, <3>4 DEF Headed, Pages
  <2> QED BY <1>1, <2>2, <2>3 DEF FileAnswered
<1>2. CASE Edit
  <2>1. /\ leavingForEditor' = TRUE /\ nav' = Append(nav, "edit") /\ UNCHANGED <<hist, file>>
    BY <1>2 DEF Edit
  <2> QED BY <2>1, Appended DEF Headed, Pages
<1>3. CASE OnOpenChange
  <2>1. nav' = Append(nav, "back") /\ UNCHANGED <<hist, file, leavingForEditor>>
    BY <1>3 DEF OnOpenChange
  <2>2. /\ nav' \in Seq({"edit", "back"}) /\ Len(nav') = Len(nav) + 1 /\ nav'[Len(nav) + 1] = "back"
        /\ Len(nav) \in Nat /\ \A i \in 1..Len(nav) : nav'[i] = nav[i]
    BY <2>1, Appended DEF Headed
  <2>3. \A i \in 1..Len(nav') : i \in 1..Len(nav) \/ i = Len(nav) + 1
    BY <2>2
  <2> QED BY <2>1, <2>2, <2>3 DEF Headed, Pages
<1>4. CASE Navigates
  <2>1. nav # <<>> /\ nav' = Tail(nav) /\ UNCHANGED <<file, leavingForEditor>>
    BY <1>4 DEF Navigates
  <2>2. /\ nav' \in Seq({"edit", "back"}) /\ Len(nav) \in Nat /\ Len(nav) >= 1
        /\ Len(nav') = Len(nav) - 1 /\ Head(nav) = nav[1]
        /\ \A i \in 1..Len(nav') : nav'[i] = nav[i + 1]
    BY <2>1 DEF Headed
  <2>3. \A i \in 1..Len(nav') : i + 1 \in 1..Len(nav)
    BY <2>2
  <2>4. ~leavingForEditor => nav[1] # "edit" /\ \A i \in 1..Len(nav') : nav'[i] # "edit"
    BY <2>2, <2>3 DEF Headed
  <2>5. CASE Head(nav) = "edit"
    <3>1. hist' = Append(hist, "edit")
      BY <1>4, <2>5 DEF Navigates, Arrives
    <3> QED BY <2>1, <2>2, <2>4, <2>5, <3>1, HeadedOn
  <2>6. CASE Head(nav) # "edit" /\ Len(hist) > 1
    <3>1. hist' = Front(hist)
      BY <1>4, <2>6 DEF Navigates, Arrives
    <3> QED BY <2>1, <2>2, <2>4, <2>6, <3>1, HeadedBack
  <2>7. CASE Head(nav) # "edit" /\ ~(Len(hist) > 1)
    <3>1. hist' = hist
      BY <1>4, <2>7 DEF Navigates, Arrives
    <3> QED BY <2>1, <2>2, <2>4, <3>1 DEF Headed, Pages
  <2> QED BY <2>5, <2>6, <2>7
<1>5. CASE BrowserBack
  <2>1. Len(hist) > 1 /\ hist' = Front(hist) /\ UNCHANGED <<nav, file, leavingForEditor>>
    BY <1>5 DEF BrowserBack, Arrives
  <2>2. nav' \in Seq({"edit", "back"}) /\ (~leavingForEditor => \A i \in 1..Len(nav') : nav'[i] # "edit")
    BY <2>1 DEF Headed
  <2> QED BY <2>1, <2>2, HeadedBack
<1>6. CASE OpenAgain
  <2>1. /\ hist[Len(hist)] = "grid" /\ nav = <<>> /\ file # "gone" /\ hist' = Append(hist, "preview")
        /\ UNCHANGED <<nav, file>>
    BY <1>6 DEF OpenAgain, Arrives, Route, Last
  <2>2. Len(hist) = 1 /\ hist[1] = "grid"
    <3>1. Len(hist) \in 1..Len(hist)
      BY DEF Headed
    <3> QED BY <2>1, <3>1 DEF Headed
  <2>3. \A i \in 1..Len(hist) : hist[i] # "edit"
    BY <2>2
  <2>4. nav' \in Seq({"edit", "back"}) /\ \A i \in 1..Len(nav') : nav'[i] # "edit"
    BY <2>1 DEF Headed
  <2> QED BY <2>1, <2>3, <2>4, HeadedOn
<1>7. CASE UNCHANGED <<hist, nav, leavingForEditor, file>>
  BY <1>7 DEF Headed, Pages
<1> QED BY <1>1, <1>2, <1>3, <1>4, <1>5, <1>6, <1>7
        DEF PreviewNext, previewVars, TicketAnswered, ProbeAnswered, Refetch, Zoom, Download,
            DownloadAnswered

LEMMA BackIsToTheGrid == ASSUME Headed, [PreviewNext]_previewVars PROVE EditIsNotTakenBack
<1> SUFFICES ASSUME Len(nav') > Len(nav), Last(nav') = "back"
             PROVE  Route = "preview" /\ ~\E i \in 1..Len(nav) : nav[i] = "edit"
  BY DEF EditIsNotTakenBack
<1>1. CASE OnOpenChange
  <2>1. ~leavingForEditor /\ Route \in {"preview", "edit"}
    BY <1>1 DEF OnOpenChange, DrawerOpen
  <2>2. Len(hist) \in 1..Len(hist)
    BY DEF Headed
  <2>3. Route # "edit"
    BY <2>1, <2>2 DEF Headed, Route, Last
  <2> QED BY <2>1, <2>3 DEF Headed
<1>2. CASE Edit
  <2>1. nav' = Append(nav, "edit")
    BY <1>2 DEF Edit
  <2>2. Last(nav') = "edit"
    BY <2>1, Appended DEF Last, Headed
  <2> QED BY <2>2
<1>3. CASE Navigates
  <2>1. nav # <<>> /\ nav' = Tail(nav)
    BY <1>3 DEF Navigates
  <2>2. Len(nav') = Len(nav) - 1 /\ Len(nav) \in Nat
    BY <2>1 DEF Headed
  <2> QED BY <2>2
<1>4. CASE UNCHANGED nav
  <2>1. Len(nav) \in Nat
    BY DEF Headed
  <2> QED BY <1>4, <2>1
<1> QED BY <1>1, <1>2, <1>3, <1>4
        DEF PreviewNext, previewVars, FileAnswered, BrowserBack, OpenAgain, TicketAnswered,
            ProbeAnswered, Refetch, Zoom, Download, DownloadAnswered

-----------------------------------------------------------------------------
(* ---- File grid: renames and drops -------------------------------------- *)

(* A dialog's name was typed for the file it is about.                     *)
Renaming ==
  /\ rename \in [target : Items \cup {NoItem}, typed : Items \cup {NoItem},
                 pending : Items \cup {NoItem}, sent : Items \cup {NoItem}, error : BOOLEAN]
  /\ rename.target # NoItem => rename.typed \in {NoItem, rename.target}
  /\ RenamesWhatWasTyped

LEMMA RenamingBegins == GridInit => Renaming
  BY DEF GridInit, Renaming, NoRename, RenamesWhatWasTyped

LEMMA RenamingGoesOn == Renaming /\ [GridNext]_gridVars => Renaming'
<1> SUFFICES ASSUME Renaming, [GridNext]_gridVars PROVE Renaming'
  OBVIOUS
<1>1. CASE UNCHANGED rename
  BY <1>1 DEF Renaming, RenamesWhatWasTyped, Items
<1>2. CASE OpenRename
  BY <1>2 DEF OpenRename, Renaming, RenamesWhatWasTyped, Items
<1>3. CASE TypeName
  BY <1>3 DEF TypeName, Renaming, RenamesWhatWasTyped, Items
<1>4. CASE SubmitRename
  BY <1>4 DEF SubmitRename, Renaming, RenamesWhatWasTyped, Items
<1>5. CASE CloseRename
  BY <1>5 DEF CloseRename, Renaming, RenamesWhatWasTyped, Items
<1>6. CASE RenameAnswered
  BY <1>6 DEF RenameAnswered, Renaming, RenamesWhatWasTyped, Items
<1> QED
  BY <1>1, <1>2, <1>3, <1>4, <1>5, <1>6
     DEF GridNext, gridVars, FolderItemsAnswered, SetItemSelected, ToggleAll, ChangedElsewhere,
         DeleteSelected, FolderActions, DeleteAnswered, DragStart, DragEnd, Drop, Drops,
         MoveAnswered, CreateFolder

LEMMA DropsMoveTheSelection == [GridNext]_gridVars => MovesTheSelectionNow
<1> SUFFICES ASSUME [GridNext]_gridVars, NEW o \in ops' \ ops, o.kind = "move"
             PROVE  o.item \in Selected \cup ({drag.item} \cap list)
  BY DEF MovesTheSelectionNow
<1>1. CASE Drop
  <2>1. PICK to \in (Folders \cap list) \cup {"root"} :
          ops' = ops \cup {[kind |-> "move", item |-> m, to |-> to] :
                             m \in (IF drag.item \in Selected THEN Selected ELSE {drag.item}) \cap list}
    BY <1>1, Zenon DEF Drop, Drops
  <2>2. o.item \in (IF drag.item \in Selected THEN Selected ELSE {drag.item}) \cap list
    BY <2>1
  <2> QED BY <2>2
<1>2. CASE DeleteSelected
  BY <1>2 DEF DeleteSelected
<1>3. CASE FolderActions
  BY <1>3 DEF FolderActions
<1>4. CASE ops' \subseteq ops
  BY <1>4
<1> QED
  BY <1>1, <1>2, <1>3, <1>4
     DEF GridNext, gridVars, FolderItemsAnswered, SetItemSelected, ToggleAll, ChangedElsewhere,
         DeleteAnswered, DragStart, DragEnd, MoveAnswered, OpenRename, TypeName, SubmitRename,
         CloseRename, RenameAnswered, CreateFolder

-----------------------------------------------------------------------------
(* ---- Trash: the alert names what failed -------------------------------- *)

BatchFields == {"kind", "targets", "shown", "failed", "lost", "told"}

(* What failed is counted by the position of its answer, lost by the item.   *)
Lists(b) == /\ DOMAIN b = BatchFields
            /\ b.lost = {b.targets[j] : j \in b.failed}
            /\ b.kind = "over" => b.told = b.lost

BatchesInv ==
  /\ \E S : batches \in Seq(S)
  /\ \A n \in DOMAIN batches : Lists(batches[n])

(* A batch with a request under way is not over.                             *)
OpsInv == \A o \in mutations : o.batch \in DOMAIN batches /\ batches[o.batch].kind \in BatchKinds

TrashInv == BatchesInv /\ OpsInv

LEMMA TrashInitInv == TrashInit => TrashInv
<1> SUFFICES ASSUME TrashInit PROVE TrashInv
  OBVIOUS
<1>1. batches \in Seq({})
  BY DEF TrashInit
<1> QED BY <1>1 DEF TrashInit, TrashInv, BatchesInv, OpsInv

(* A batch begins with nothing failed.                                       *)
LEMMA BatchBegins ==
  ASSUME TrashInv, NEW way \in BatchKinds, NEW targets, Starts(way, targets)
  PROVE  TrashInv'
<1> DEFINE b == [kind |-> way, targets |-> targets, shown |-> Chosen,
                 failed |-> {}, lost |-> {}, told |-> {}]
           n == Len(batches) + 1
<1>1. batches' = Append(batches, b) /\ mutations' = mutations \cup {[batch |-> n, at |-> j] : j \in DOMAIN targets}
  BY DEF Starts
<1>2. PICK S : batches \in Seq(S)
  BY DEF TrashInv, BatchesInv
<1>3. PICK c : c = b
  OBVIOUS
<1>4. Lists(c) /\ c.kind \in BatchKinds
  BY <1>3 DEF Lists, BatchFields, BatchKinds
<1>5. batches \in Seq(S \cup {c}) /\ batches' = Append(batches, c)
  BY <1>1, <1>2, <1>3
<1> HIDE DEF b
<1>6. batches' \in Seq(S \cup {c}) /\ DOMAIN batches' = DOMAIN batches \cup {n}
      /\ batches'[n] = c /\ \A k \in DOMAIN batches : batches'[k] = batches[k]
  BY <1>5
<1>7. BatchesInv'
  BY <1>4, <1>6 DEF TrashInv, BatchesInv
<1>8. OpsInv'
  BY <1>1, <1>4, <1>6 DEF TrashInv, OpsInv
<1> QED BY <1>7, <1>8 DEF TrashInv

(* The batch n becomes c, which lists what it should.                        *)
LEMMA BatchGoesOn ==
  ASSUME TrashInv, NEW n \in DOMAIN batches, NEW c, Lists(c),
         batches' = [batches EXCEPT ![n] = c], mutations' \subseteq mutations,
         \/ c.kind = batches[n].kind
         \/ \A o \in mutations : o.batch # n
  PROVE  TrashInv'
<1>1. PICK S : batches \in Seq(S)
  BY DEF TrashInv, BatchesInv
<1>2. batches' \in Seq(S \cup {c})
  BY <1>1
<1>3. /\ DOMAIN batches' = DOMAIN batches
      /\ batches'[n] = c
      /\ \A k \in DOMAIN batches \ {n} : batches'[k] = batches[k]
  BY <1>1
<1>4. BatchesInv'
  BY <1>2, <1>3 DEF TrashInv, BatchesInv
<1>5. OpsInv'
  BY <1>3 DEF TrashInv, OpsInv
<1> QED BY <1>4, <1>5 DEF TrashInv

LEMMA TrashNextInv == TrashInv /\ [TrashNext]_trashVars => TrashInv'
<1> SUFFICES ASSUME TrashInv, [TrashNext]_trashVars PROVE TrashInv'
  OBVIOUS
<1>1. CASE UNCHANGED <<mutations, batches>>
  BY <1>1 DEF TrashInv, BatchesInv, OpsInv
<1>2. CASE RestoreSelected
  BY <1>2, BatchBegins DEF RestoreSelected, BatchKinds
<1>3. CASE PermanentlyDeleteSelected
  BY <1>3, BatchBegins DEF PermanentlyDeleteSelected, BatchKinds
<1>4. CASE MutationAnswered
  <2>1. PICK o \in mutations : Answers(o)
    BY <1>4 DEF MutationAnswered
  <2> DEFINE m == o.batch
  <2>2. m \in DOMAIN batches /\ Lists(batches[m]) /\ mutations' = mutations \ {o}
    BY <2>1 DEF TrashInv, BatchesInv, OpsInv, Answers
  <2>3. PICK i : i = batches[m].targets[o.at]
    OBVIOUS
  <2>4. PICK c : c = [batches[m] EXCEPT !.failed = @ \cup {o.at}, !.lost = @ \cup {i}]
    OBVIOUS
  <2>5. \/ batches' = batches
        \/ batches' = [batches EXCEPT ![m].failed = @ \cup {o.at}, ![m].lost = @ \cup {i}]
    BY <2>1, <2>3 DEF Answers
  <2>6. CASE batches' = batches
    BY <2>2, <2>6 DEF TrashInv, BatchesInv, OpsInv
  <2>7. CASE batches' = [batches EXCEPT ![m].failed = @ \cup {o.at}, ![m].lost = @ \cup {i}]
    <3>1. batches' = [batches EXCEPT ![m] = c]
      <4>1. PICK S : batches \in Seq(S)
        BY DEF TrashInv, BatchesInv
      <4> QED BY <2>2, <2>4, <2>7, <4>1 DEF Lists, BatchFields
    <3>2. /\ DOMAIN c = BatchFields /\ c.kind = batches[m].kind
          /\ c.targets = batches[m].targets /\ c.told = batches[m].told
          /\ c.failed = batches[m].failed \cup {o.at}
          /\ c.lost = batches[m].lost \cup {i}
      BY <2>2, <2>4 DEF Lists, BatchFields
    <3>3. c.lost = {c.targets[j] : j \in c.failed}
      BY <2>2, <2>3, <3>2 DEF Lists
    <3>4. c.kind # "over"
      BY <3>2 DEF TrashInv, OpsInv, BatchKinds
    <3>5. Lists(c)
      BY <3>2, <3>3, <3>4 DEF Lists
    <3> QED BY <2>2, <3>1, <3>2, <3>5, BatchGoesOn
  <2> QED BY <2>5, <2>6, <2>7
<1>5. CASE Settle
  <2>1. PICK n \in DOMAIN batches :
          /\ AllAnswered(n) /\ UNCHANGED mutations
          /\ batches' = [batches EXCEPT ![n].kind = "over",
                           ![n].told = {batches[n].targets[j] : j \in batches[n].failed}]
    BY <1>5 DEF Settle
  <2>2. PICK c : c = [batches[n] EXCEPT !.kind = "over", !.told = batches[n].lost]
    OBVIOUS
  <2>3. Lists(batches[n])
    BY DEF TrashInv, BatchesInv
  <2>4. /\ DOMAIN c = BatchFields /\ c.kind = "over" /\ c.told = batches[n].lost
        /\ c.targets = batches[n].targets /\ c.failed = batches[n].failed
        /\ c.lost = batches[n].lost
    BY <2>2, <2>3 DEF Lists, BatchFields
  <2>5. Lists(c)
    BY <2>3, <2>4 DEF Lists
  <2>6. batches' = [batches EXCEPT ![n] = c]
    <3>1. PICK S : batches \in Seq(S)
      BY DEF TrashInv, BatchesInv
    <3>2. batches' = [batches EXCEPT ![n].kind = "over", ![n].told = batches[n].lost]
      BY <2>1, <2>3 DEF Lists
    <3> QED BY <2>2, <2>3, <3>1, <3>2 DEF Lists, BatchFields
  <2>7. \A o \in mutations : o.batch # n
    BY <2>1 DEF AllAnswered
  <2> QED BY <2>1, <2>5, <2>6, <2>7, BatchGoesOn
<1>6. CASE TrashAnswered \/ SetSelected \/ ToggleAllTrash \/ UNCHANGED trashVars
  BY <1>1, <1>6 DEF TrashAnswered, SetSelected, ToggleAllTrash, trashVars
<1> QED BY <1>2, <1>3, <1>4, <1>5, <1>6 DEF TrashNext

LEMMA FailedAreNamed == TrashInv => NamesTheFailed
  BY DEF TrashInv, BatchesInv, Lists, NamesTheFailed

-----------------------------------------------------------------------------
(* ---- File preview: the viewer shows a ticket that was probed            *)

(* While the panel is up, a probe that says "ready" is the shown ticket's. *)
ReadyWasProbed == PanelUp /\ content.url # 0 /\ probe = "ready" => content.url \in good
ContentShape == \E u, f, x : content = [url |-> u, fetching |-> f, failed |-> x]
ProbeInv == ContentShape /\ ReadyWasProbed

LEMMA ProbeBegins == PreviewInit => ProbeInv
<1> SUFFICES ASSUME PreviewInit PROVE ProbeInv
  OBVIOUS
<1>1. content = [url |-> 0, fetching |-> FALSE, failed |-> FALSE]
  BY DEF PreviewInit, NoContent
<1>2. ContentShape
  BY <1>1 DEF ContentShape
<1>3. probe = "probing"
  BY DEF PreviewInit
<1> QED BY <1>2, <1>3 DEF ProbeInv, ReadyWasProbed

(* Asking for a ticket keeps the one there is.                             *)
LEMMA ProbeAsks ==
  ASSUME ContentShape, NEW b, content' = [content EXCEPT !.fetching = b]
  PROVE  ContentShape' /\ content'.url = content.url
<1>1. PICK u, f, x : content = [url |-> u, fetching |-> f, failed |-> x]
  BY DEF ContentShape
<1>2. content' = [url |-> u, fetching |-> b, failed |-> x]
  BY <1>1, Zenon
<1>3. ContentShape'
  BY <1>2, Zenon DEF ContentShape
<1> QED BY <1>1, <1>2, <1>3

LEMMA DrawerComesUp ==
  ASSUME ProbeInv, Opens, previewKind' = previewKind
  PROVE  ProbeInv'
<1>1. CASE previewKind = "document"
  <2>1. probe' = "probing" /\ \E b : content' = [content EXCEPT !.fetching = b]
    BY <1>1, Zenon DEF Opens
  <2>2. ContentShape'
    BY <2>1, ProbeAsks DEF ProbeInv
  <2> QED BY <2>1, <2>2 DEF ProbeInv, ReadyWasProbed
<1>2. CASE previewKind # "document"
  <2>1. content' = content
    BY <1>2, Zenon DEF Opens, View
  <2>2. ~PanelUp'
    BY <1>2 DEF PanelUp
  <2> QED BY <2>1, <2>2 DEF ProbeInv, ReadyWasProbed, ContentShape
<1> QED BY <1>1, <1>2

(* Another page does not bring up the panel without opening the drawer.    *)
LEMMA PageArrives ==
  ASSUME ProbeInv, NEW h, Arrives(h), UNCHANGED <<previewKind, file>>
  PROVE  ProbeInv'
<1>1. CASE Opens
  BY <1>1, DrawerComesUp
<1>2. CASE /\ ~(file = "here" /\ Last(h) = "preview" /\ Route # "preview")
           /\ UNCHANGED <<content, probe, good>>
  <2>1. hist' = h
    BY DEF Arrives
  <2>2. PanelUp' => PanelUp
    BY <1>2, <2>1 DEF PanelUp, DrawerOpen, Route
  <2> QED BY <1>2, <2>2 DEF ProbeInv, ReadyWasProbed, ContentShape
<1> QED BY <1>1, <1>2, Zenon DEF Arrives

LEMMA ProbeGoesOn == ASSUME ProbeInv, [PreviewNext]_previewVars PROVE ProbeInv'
<1> USE DEF View
<1>1. CASE UNCHANGED <<previewKind, hist, file, content, probe, good>>
  BY <1>1 DEF ProbeInv, ReadyWasProbed, ContentShape, PanelUp, DrawerOpen, Route
<1>2. CASE FileAnswered
  <2>1. previewKind' = previewKind /\ (Opens \/ UNCHANGED <<content, probe, good>>)
    BY <1>2, Zenon DEF FileAnswered
  <2>2. CASE Opens
    BY <2>1, <2>2, DrawerComesUp
  <2>3. CASE ~Opens
    <3>1. ~PanelUp'
      BY <1>2, <2>3 DEF FileAnswered, PanelUp, DrawerOpen, Route
    <3> QED BY <2>1, <2>3, <3>1 DEF ProbeInv, ReadyWasProbed, ContentShape
  <2> QED BY <2>2, <2>3
<1>3. CASE Navigates
  BY <1>3, PageArrives, Zenon DEF Navigates
<1>4. CASE BrowserBack
  BY <1>4, PageArrives, Zenon DEF BrowserBack
<1>5. CASE OpenAgain
  BY <1>5, PageArrives, Zenon DEF OpenAgain
<1>6. CASE TicketAnswered
  <2>1. UNCHANGED <<previewKind, hist, file, good>>
    BY <1>6 DEF TicketAnswered
  <2>2. PanelUp' = PanelUp
    BY <2>1 DEF PanelUp, DrawerOpen, Route
  <2>3. CASE content' = [url |-> minted', fetching |-> FALSE, failed |-> FALSE]
             /\ (PanelUp => probe' = "probing")
    <3>1. ContentShape'
      BY <2>3, Zenon DEF ContentShape
    <3> QED BY <2>2, <2>3, <3>1 DEF ProbeInv, ReadyWasProbed
  <2>4. CASE content' = [content EXCEPT !.fetching = FALSE, !.failed = TRUE] /\ probe' = probe
    <3>1. PICK u, f, x : content = [url |-> u, fetching |-> f, failed |-> x]
      BY DEF ProbeInv, ContentShape
    <3>2. content' = [url |-> u, fetching |-> FALSE, failed |-> TRUE]
      BY <2>4, <3>1, Zenon
    <3>3. ContentShape'
      BY <3>2, Zenon DEF ContentShape
    <3>4. content'.url = content.url
      BY <3>1, <3>2
    <3> QED BY <2>1, <2>2, <2>4, <3>3, <3>4 DEF ProbeInv, ReadyWasProbed
  <2> QED BY <1>6, <2>3, <2>4, Zenon DEF TicketAnswered
<1>7. CASE ProbeAnswered
  <2>1. UNCHANGED <<previewKind, hist, file>>
    BY <1>7 DEF ProbeAnswered
  <2>2. PanelUp' = PanelUp
    BY <2>1 DEF PanelUp, DrawerOpen, Route
  <2>3. PICK u \in probes, ok \in BOOLEAN :
          /\ good' = IF ok THEN good \cup {u} ELSE good
          /\ IF u = content.url THEN ProbeEnds(u, ok)
             ELSE UNCHANGED <<probe, refreshedOnce, content>>
    BY <1>7, Zenon DEF ProbeAnswered
  <2>4. CASE u = content.url
    <3>1. probe' = (IF ok THEN "ready" ELSE "failed")
          /\ \E b : content' = [content EXCEPT !.fetching = b]
      BY <2>3, <2>4, Zenon DEF ProbeEnds
    <3>2. ContentShape' /\ content'.url = content.url
      BY <3>1, ProbeAsks DEF ProbeInv
    <3>3. probe' = "ready" => u \in good'
      BY <2>3, <3>1
    <3> QED BY <2>2, <2>4, <3>2, <3>3 DEF ProbeInv, ReadyWasProbed
  <2>5. CASE u # content.url
    <3>1. UNCHANGED <<probe, content>>
      BY <2>3, <2>5, Zenon
    <3>2. good \subseteq good'
      BY <2>3
    <3> QED BY <2>2, <3>1, <3>2 DEF ProbeInv, ReadyWasProbed, ContentShape
  <2> QED BY <2>4, <2>5
<1>8. CASE Refetch
  <2>1. UNCHANGED <<previewKind, hist, file, probe, good>>
        /\ content' = [content EXCEPT !.fetching = TRUE]
    BY <1>8, Zenon DEF Refetch
  <2>2. ContentShape' /\ content'.url = content.url
    BY <2>1, ProbeAsks DEF ProbeInv
  <2>3. PanelUp' = PanelUp
    BY <2>1 DEF PanelUp, DrawerOpen, Route
  <2> QED BY <2>1, <2>2, <2>3 DEF ProbeInv, ReadyWasProbed
<1> QED BY <1>1, <1>2, <1>3, <1>4, <1>5, <1>6, <1>7, <1>8
        DEF PreviewNext, previewVars, Edit, OnOpenChange, Zoom, Download, DownloadAnswered

LEMMA ViewerWasProbed == ProbeInv => ViewerShowsProbed
  BY DEF ProbeInv, ReadyWasProbed, ViewerShowsProbed, ViewerUp

-----------------------------------------------------------------------------
(* ---- Spreadsheet viewer: the results are those of the text searched     *)

(* A search under way that is the newest is of the text in the field.      *)
NewestIsOfTheDraft ==
  \A j \in jobs : j.id <= searchRequestId /\ (j.id = searchRequestId => j.q = draft)

(* The results are of a query, whatever they and their index are.          *)
ResultsShape == \E q, cells, i : results = [of |-> q, cells |-> cells, index |-> i]

SearchInv ==
  /\ searchRequestId \in Nat /\ \A j \in jobs : j.id \in Nat
  /\ ResultsShape /\ NewestIsOfTheDraft /\ AnswersTheQuestion

LEMMA SearchInitInv == ViewInit => SearchInv
<1> SUFFICES ASSUME ViewInit PROVE SearchInv
  OBVIOUS
<1>1. results = [of |-> "", cells |-> <<>>, index |-> 1]
  BY DEF ViewInit, Empty
<1>2. ResultsShape /\ results.cells = <<>>
  BY <1>1 DEF ResultsShape
<1> QED BY <1>2 DEF ViewInit, SearchInv, NewestIsOfTheDraft, AnswersTheQuestion

(* No search under way is the newest once the requests were counted on.    *)
LEMMA Superseded ==
  ASSUME SearchInv, jobs' = jobs, searchRequestId' \in Nat, searchRequestId' > searchRequestId
  PROVE  (\A j \in jobs : j.id \in Nat)' /\ NewestIsOfTheDraft'
<1>1. searchRequestId \in Nat /\ \A j \in jobs : j.id \in Nat /\ j.id <= searchRequestId
  BY DEF SearchInv, NewestIsOfTheDraft
<1>2. \A j \in jobs : j.id <= searchRequestId' /\ j.id # searchRequestId'
  BY <1>1
<1> QED BY <1>1, <1>2 DEF NewestIsOfTheDraft

LEMMA IndexMoves ==
  ASSUME ResultsShape, NEW i, results' = [results EXCEPT !.index = i]
  PROVE  ResultsShape' /\ results'.of = results.of /\ results'.cells = results.cells
<1>1. PICK q, cells, k : results = [of |-> q, cells |-> cells, index |-> k]
  BY DEF ResultsShape
<1>2. results' = [of |-> q, cells |-> cells, index |-> i]
  BY <1>1, Zenon
<1>3. ResultsShape'
  BY <1>2, Zenon DEF ResultsShape
<1> QED BY <1>1, <1>2, <1>3

LEMMA ResultsCome ==
  ASSUME ResultsShape, NEW q, NEW cells, results' = [results EXCEPT !.of = q, !.cells = cells]
  PROVE  ResultsShape' /\ results'.of = q
<1>1. PICK r, c, k : results = [of |-> r, cells |-> c, index |-> k]
  BY DEF ResultsShape
<1>2. results' = [of |-> q, cells |-> cells, index |-> k]
  BY <1>1, Zenon
<1>3. ResultsShape'
  BY <1>2, Zenon DEF ResultsShape
<1> QED BY <1>2, <1>3

LEMMA RunsSearch ==
  ASSUME SearchInv, RunSearch(draft), draft' = draft
  PROVE  SearchInv'
<1>1. searchRequestId \in Nat /\ searchRequestId' = searchRequestId + 1 /\ searching' = TRUE
      /\ \A j \in jobs : j.id \in Nat /\ j.id <= searchRequestId
  BY DEF RunSearch, SearchInv, NewestIsOfTheDraft
<1>2. jobs' = jobs \cup {[id |-> searchRequestId', q |-> draft']}
  BY DEF RunSearch
<1>5. \A j \in jobs' : j.id \in Nat /\ j.id <= searchRequestId'
                        /\ (j.id = searchRequestId' => j.q = draft')
  BY <1>1, <1>2
<1>3. ResultsShape'
  BY IndexMoves, Zenon DEF RunSearch, SearchInv
<1>4. AnswersTheQuestion'
  BY <1>1 DEF AnswersTheQuestion
<1> QED BY <1>1, <1>3, <1>4, <1>5 DEF SearchInv, NewestIsOfTheDraft

LEMMA SearchNextInv == SearchInv /\ [ViewNext]_viewVars => SearchInv'
<1> SUFFICES ASSUME SearchInv, [ViewNext]_viewVars PROVE SearchInv'
  OBVIOUS
<1>e. Empty.cells = <<>> /\ \E q, cells, i : Empty = [of |-> q, cells |-> cells, index |-> i]
  BY DEF Empty
<1>1. CASE UNCHANGED <<draft, searchRequestId, jobs, results, searching>>
  BY <1>1 DEF SearchInv, NewestIsOfTheDraft, AnswersTheQuestion, ResultsShape
<1>2. ASSUME draft' = "", searchRequestId' = 0, jobs' = {}, results' = Empty PROVE SearchInv'
  <2>1. ResultsShape' /\ results'.cells = <<>>
    BY <1>2, <1>e DEF ResultsShape
  <2> QED BY <1>2, <2>1 DEF SearchInv, NewestIsOfTheDraft, AnswersTheQuestion
<1>3. CASE HandleSearchDraftChange
  <2>1. searchRequestId' = searchRequestId + 1 /\ searching' = TRUE
        /\ UNCHANGED <<jobs, results>> /\ searchRequestId \in Nat
    BY <1>3 DEF HandleSearchDraftChange, SearchInv
  <2>2. ResultsShape'
    BY <2>1 DEF SearchInv, ResultsShape
  <2>3. searchRequestId' \in Nat /\ searchRequestId' > searchRequestId
    BY <2>1
  <2>4. AnswersTheQuestion'
    BY <2>1 DEF AnswersTheQuestion
  <2> QED BY <2>1, <2>2, <2>3, <2>4, Superseded DEF SearchInv
<1>4. CASE EmptyTheField \/ ClearSearch
  <2>1. draft' = "" /\ searchRequestId' \in Nat /\ searchRequestId' > searchRequestId
        /\ results' = Empty /\ jobs' = jobs
    <3>1. searchRequestId \in Nat
      BY DEF SearchInv
    <3>2. draft' = "" /\ results' = Empty /\ jobs' = jobs
      BY <1>4, Zenon DEF EmptyTheField, ClearSearch
    <3>3. searchRequestId' = searchRequestId + 1 \/ searchRequestId' = searchRequestId + 2
      BY <1>4, Zenon DEF EmptyTheField, ClearSearch
    <3>4. searchRequestId' \in Nat /\ searchRequestId' > searchRequestId
      BY <3>1, <3>3
    <3> QED BY <3>2, <3>4
  <2>2. ResultsShape' /\ results'.cells = <<>>
    BY <2>1, <1>e DEF ResultsShape
  <2> QED BY <2>1, <2>2, Superseded DEF SearchInv, AnswersTheQuestion
<1>5. CASE Debounced
  BY <1>5, RunsSearch DEF Debounced
<1>6. CASE EnterKey
  <2>1. draft' = draft
    BY <1>6 DEF EnterKey
  <2>2. CASE RunSearch(draft)
    BY <2>1, <2>2, RunsSearch
  <2>3. ASSUME NEW step, NavigateResults(step), UNCHANGED <<searchRequestId, jobs, searching>>
        PROVE  SearchInv'
    <3>1. PICK i : results' = [results EXCEPT !.index = i]
      BY <2>3, Zenon DEF NavigateResults
    <3>2. ResultsShape' /\ results'.of = results.of /\ results'.cells = results.cells
      BY <3>1, IndexMoves DEF SearchInv
    <3> QED BY <2>1, <2>3, <3>2 DEF SearchInv, NewestIsOfTheDraft, AnswersTheQuestion
  <2> QED BY <1>6, <2>2, <2>3 DEF EnterKey
<1>7. CASE SearchAnswered
  <2>1. PICK j \in jobs :
          /\ jobs' = jobs \ {j}
          /\ IF j.id = searchRequestId THEN Answer(j) ELSE UNCHANGED <<results, searching>>
    BY <1>7 DEF SearchAnswered
  <2>2. draft' = draft /\ searchRequestId' = searchRequestId
    BY <1>7 DEF SearchAnswered
  <2>3. NewestIsOfTheDraft' /\ \A i \in jobs' : i.id \in Nat
    BY <2>1, <2>2 DEF SearchInv, NewestIsOfTheDraft
  <2>4. CASE j.id = searchRequestId
    <3>1. PICK cells : results' = [results EXCEPT !.of = j.q, !.cells = cells]
      BY <2>1, <2>4, Zenon DEF Answer
    <3>2. ResultsShape' /\ results'.of = j.q
      BY <3>1, ResultsCome DEF SearchInv
    <3>3. j.q = draft
      BY <2>4 DEF SearchInv, NewestIsOfTheDraft
    <3> QED BY <2>2, <2>3, <3>2, <3>3 DEF SearchInv, AnswersTheQuestion
  <2>5. CASE j.id # searchRequestId
    BY <2>1, <2>2, <2>3, <2>5 DEF SearchInv, AnswersTheQuestion, ResultsShape
  <2> QED BY <2>4, <2>5
<1>8. CASE HandleWorkbookUpload
  <2>1. \/ UNCHANGED searchVars
        \/ draft' = "" /\ searchRequestId' = 0 /\ jobs' = {} /\ results' = Empty
    BY <1>8 DEF HandleWorkbookUpload
  <2> QED BY <2>1, <1>1, <1>2 DEF searchVars
<1> QED BY <1>1, <1>3, <1>4, <1>5, <1>6, <1>7, <1>8
        DEF ViewNext, viewVars, searchVars, LoadWorkbook, PickFile, ShowResult, ScrollFrame,
            UserScrolls, SelectSheet

-----------------------------------------------------------------------------
(* ---- Spreadsheet viewer: a result that is scrolled to is in view        *)

(* The results of a query are cells of the workbook.                       *)
LEMMA ResultsAreCells ==
  ASSUME NEW q \in Queries PROVE FindResults(q) \in Seq(Cells)
<1> DEFINE hits == {c \in Cells : q \in c.matches /\ ~c.hidden}
           Sorted(s) == \A i, j \in DOMAIN s : i < j => Before(s[i], s[j])
           a1 == [sheet |-> 1, row |-> 1, matches |-> {"a"}, hidden |-> FALSE]
           a2 == [sheet |-> 2, row |-> 2, matches |-> {"a"}, hidden |-> FALSE]
           b1 == [sheet |-> 2, row |-> 4, matches |-> {"b"}, hidden |-> FALSE]
<1>1. \E s \in [1..Cardinality(hits) -> hits] : Sorted(s)
  <2>1. CASE q = "a"
    <3>1. hits = {a1, a2} /\ a1 # a2
      BY <2>1 DEF Cells
    <3>2. Before(a1, a2)
      BY DEF Before
    <3> HIDE DEF hits, a1, a2
    <3>3. Cardinality(hits) = 2
      <4>1. IsFiniteSet({a1}) /\ Cardinality({a1}) = 1
        BY FS_Singleton
      <4>2. hits = {a1} \cup {a2} /\ a2 \notin {a1}
        BY <3>1
      <4>3. Cardinality({a1} \cup {a2}) = Cardinality({a1}) + 1
        BY <4>1, <4>2, FS_AddElement
      <4> QED BY <4>1, <4>2, <4>3
    <3> DEFINE s == [i \in 1..2 |-> IF i = 1 THEN a1 ELSE a2]
    <3>4. s \in [1..2 -> hits] /\ Sorted(s)
      BY <3>1, <3>2
    <3> QED BY <3>3, <3>4
  <2>2. CASE q = "b"
    <3>1. hits = {b1}
      BY <2>2 DEF Cells
    <3> HIDE DEF hits, b1
    <3>3. Cardinality(hits) = 1
      BY <3>1, FS_Singleton
    <3> DEFINE s == [i \in 1..1 |-> b1]
    <3>4. s \in [1..1 -> hits] /\ Sorted(s)
      BY <3>1
    <3> QED BY <3>3, <3>4
  <2> QED BY <2>1, <2>2 DEF Queries
<1>2. FindResults(q) = CHOOSE s \in [1..Cardinality(hits) -> hits] : Sorted(s)
  BY Zenon DEF FindResults
<1>3. hits \subseteq Cells /\ Cardinality(hits) \in Nat
  <2>1. \A a, b, c, d : IsFiniteSet({a, b, c, d})
    <3>1. ASSUME NEW a, NEW b, NEW c, NEW d PROVE IsFiniteSet({a, b, c, d})
      <4>1. IsFiniteSet({a})
        BY FS_Singleton
      <4>2. IsFiniteSet({a} \cup {b})
        BY <4>1, FS_AddElement
      <4>3. IsFiniteSet(({a} \cup {b}) \cup {c})
        BY <4>2, FS_AddElement
      <4>4. IsFiniteSet((({a} \cup {b}) \cup {c}) \cup {d})
        BY <4>3, FS_AddElement
      <4>5. {a, b, c, d} = (({a} \cup {b}) \cup {c}) \cup {d}
        OBVIOUS
      <4> QED BY <4>4, <4>5
    <3> QED BY <3>1
  <2>2. IsFiniteSet(Cells)
    BY <2>1, Zenon DEF Cells
  <2>3. hits \subseteq Cells
    OBVIOUS
  <2> HIDE DEF hits
  <2> QED BY <2>2, <2>3, FS_Subset, FS_CardinalityType
<1> HIDE DEF hits, Sorted
<1>4. FindResults(q) \in [1..Cardinality(hits) -> hits]
  BY <1>1, <1>2
<1>5. FindResults(q) \in [1..Cardinality(hits) -> Cells]
  BY <1>3, <1>4
<1> QED BY <1>3, <1>5

LEMMA RowsAreRows == \A c \in Cells : c.row \in 1..4
  BY DEF Cells

(* A frame is for a row of the workbook; what is searched for is a query.  *)
SearchedFor ==
  /\ draft \in Queries \cup {""} /\ (timer = TRUE => draft # "")
  /\ \A j \in jobs : j.q \in Queries

ResultsFit ==
  \E q, cells, i :
    /\ results = [of |-> q, cells |-> cells, index |-> i]
    /\ cells \in Seq(Cells) /\ i \in Nat \ {0}

FrameInv == top \in Nat /\ frame \in 0..4 /\ SearchedFor /\ ResultsFit

LEMMA EmptyFits == results' = Empty => ResultsFit'
<1>1. <<>> \in Seq(Cells) /\ 1 \in Nat \ {0}
  BY EmptySeq
<1> QED BY <1>1, Zenon DEF Empty, ResultsFit

LEMMA FrameInitInv == ViewInit => FrameInv
<1> SUFFICES ASSUME ViewInit PROVE FrameInv
  OBVIOUS
<1>1. <<>> \in Seq(Cells) /\ 1 \in Nat \ {0}
  BY EmptySeq
<1>2. ResultsFit
  BY <1>1, Zenon DEF Empty, ResultsFit, ViewInit
<1>3. top = 0 /\ frame = 0 /\ draft = "" /\ timer = FALSE /\ jobs = {}
  BY Zenon DEF ViewInit
<1>4. top \in Nat /\ frame \in 0..4
  <2>1. top = 0 /\ frame = 0
    BY <1>3, Zenon
  <2> QED BY <2>1
<1>5. SearchedFor
  BY <1>3, Zenon DEF SearchedFor
<1> QED BY <1>2, <1>4, <1>5, Zenon DEF FrameInv

LEMMA IndexIsSet ==
  ASSUME ResultsFit, NEW i \in Nat \ {0}, results' = [results EXCEPT !.index = i]
  PROVE  ResultsFit'
<1>1. PICK q, cells, k : results = [of |-> q, cells |-> cells, index |-> k] /\ cells \in Seq(Cells)
  BY Zenon DEF ResultsFit
<1>2. results' = [of |-> q, cells |-> cells, index |-> i]
  BY <1>1, Zenon
<1> QED BY <1>1, <1>2, Zenon DEF ResultsFit

LEMMA CellsAreSet ==
  ASSUME ResultsFit, NEW q, NEW cells \in Seq(Cells),
         results' = [results EXCEPT !.of = q, !.cells = cells]
  PROVE  ResultsFit'
<1>1. PICK r, c, k : results = [of |-> r, cells |-> c, index |-> k] /\ k \in Nat \ {0}
  BY Zenon DEF ResultsFit
<1>2. results' = [of |-> q, cells |-> cells, index |-> k]
  BY <1>1, Zenon
<1> QED BY <1>1, <1>2, Zenon DEF ResultsFit

(* The active result is a cell, and going on from it another is or none.   *)
LEMMA ActiveIsACell ==
  ASSUME ResultsFit
  PROVE  /\ Len(results.cells) \in Nat /\ (results.cells # <<>> => Len(results.cells) # 0)
         /\ results.index \in Nat \ {0}
         /\ results.index <= Len(results.cells) => Active.row \in 1..4
<1>1. PICK q, cells, k : /\ results = [of |-> q, cells |-> cells, index |-> k]
                         /\ cells \in Seq(Cells) /\ k \in Nat \ {0}
  BY Zenon DEF ResultsFit
<1>2. results.cells = cells /\ results.index = k
  BY <1>1
<1>3. Len(cells) \in Nat /\ (cells # <<>> => Len(cells) # 0)
  BY <1>1, EmptySeq, LenProperties
<1>4. k <= Len(cells) => cells[k] \in Cells
  <2>1. Len(cells) \in Nat /\ \A n \in 1..Len(cells) : cells[n] \in Cells
    BY <1>1, ElementOfSeq
  <2> QED BY <1>1, <2>1
<1> QED BY <1>1, <1>2, <1>3, <1>4, RowsAreRows, Zenon DEF Active

(* Where rows start: above no more than the first three.                   *)
LEMMA RowsHavePlaces ==
  ASSUME NEW r \in 1..4
  PROVE  /\ CellStart(r) \in Nat \ {0} /\ CellEnd(r) \in Nat
         /\ CellEnd(r) <= CellStart(r) + 4
<1> DEFINE Sums(f) == f = [q \in 1..4 |-> IF q = 1 THEN 0 ELSE Heights[q - 1] + f[q - 1]]
           s == [q \in 1..4 |-> IF q = 1 THEN 0 ELSE IF q = 2 THEN 1 ELSE IF q = 3 THEN 3 ELSE 4]
<1>1. Heights[1] = 1 /\ Heights[2] = 2 /\ Heights[3] = 1 /\ Heights[4] = 3
  BY DEF Heights
<1>2. s[1] = 0 /\ s[2] = 1 /\ s[3] = 3 /\ s[4] = 4 /\ s = [q \in 1..4 |-> s[q]]
  OBVIOUS
<1> HIDE DEF s
<1>3. \A q \in 1..4 : s[q] = IF q = 1 THEN 0 ELSE Heights[q - 1] + s[q - 1]
  <2> SUFFICES ASSUME NEW q \in 1..4 PROVE s[q] = IF q = 1 THEN 0 ELSE Heights[q - 1] + s[q - 1]
    OBVIOUS
  <2>1. q = 1 \/ q = 2 \/ q = 3 \/ q = 4
    OBVIOUS
  <2> QED BY <2>1, <1>1, <1>2
<1>4. Sums(s)
  BY <1>2, <1>3, Zenon
<1>5. Sums(SumBefore)
  BY <1>4, Zenon DEF SumBefore
<1>6. \A q \in 1..4 : SumBefore[q] = IF q = 1 THEN 0 ELSE Heights[q - 1] + SumBefore[q - 1]
  BY <1>5, Zenon
<1> HIDE DEF Sums
<1>7. SumBefore[1] = 0
  BY <1>6
<1>8. SumBefore[2] = 1
  BY <1>1, <1>6, <1>7
<1>9. SumBefore[3] = 3
  BY <1>1, <1>6, <1>8
<1>10. SumBefore[4] = 4
  BY <1>1, <1>6, <1>9
<1>11. r = 1 \/ r = 2 \/ r = 3 \/ r = 4
  OBVIOUS
<1> QED BY <1>1, <1>7, <1>8, <1>9, <1>10, <1>11 DEF CellStart, CellEnd

LEMMA ScrollingIsIntoView ==
  ASSUME NEW r \in 1..4, NEW t \in Nat
  PROVE  ScrollTo(r, t) \in Nat /\ InView(r, ScrollTo(r, t))
  BY RowsHavePlaces DEF ScrollTo, InView

LEMMA FrameNextInv == FrameInv /\ [ViewNext]_viewVars => FrameInv'
<1> SUFFICES ASSUME FrameInv, [ViewNext]_viewVars PROVE FrameInv'
  OBVIOUS
<1>0. top \in Nat /\ frame \in 0..4 /\ SearchedFor /\ ResultsFit
  BY DEF FrameInv
<1>s. UNCHANGED <<draft, timer, jobs>> => SearchedFor'
  BY <1>0, Zenon DEF SearchedFor
<1>r. results' = results => ResultsFit'
  BY <1>0, Zenon DEF ResultsFit
<1>1. CASE UNCHANGED <<draft, timer, jobs, results, frame>> /\ top' \in Nat
  BY <1>0, <1>1, <1>r, <1>s, Zenon DEF FrameInv
<1>2. CASE HandleWorkbookUpload
  <2>1. top' \in Nat
    BY <1>2 DEF HandleWorkbookUpload
  <2>2. \/ UNCHANGED <<draft, timer, jobs, results, frame>>
        \/ draft' = "" /\ timer' = FALSE /\ jobs' = {} /\ results' = Empty /\ frame' = 0
    BY <1>2, Zenon DEF HandleWorkbookUpload, searchVars
  <2>3. ASSUME draft' = "", timer' = FALSE, jobs' = {} PROVE SearchedFor'
    BY <2>3 DEF SearchedFor
  <2>4. ASSUME frame' = 0 PROVE frame' \in 0..4
    BY <2>4
  <2> QED BY <1>1, <2>1, <2>2, <2>3, <2>4, EmptyFits, Zenon DEF FrameInv
<1>3. CASE HandleSearchDraftChange
  <2>1. PICK q \in Queries : draft' = q /\ UNCHANGED <<jobs, results, frame, top>>
    BY <1>3, Zenon DEF HandleSearchDraftChange
  <2>2. q # ""
    BY DEF Queries
  <2>3. SearchedFor'
    BY <1>0, <2>1, <2>2, Zenon DEF SearchedFor
  <2> QED BY <1>0, <1>r, <2>1, <2>3, Zenon DEF FrameInv
<1>4. CASE EmptyTheField \/ ClearSearch
  <2>1. draft' = "" /\ timer' = FALSE /\ results' = Empty /\ UNCHANGED <<jobs, frame, top>>
    BY <1>4, Zenon DEF EmptyTheField, ClearSearch
  <2>2. SearchedFor'
    BY <1>0, <2>1 DEF SearchedFor
  <2> QED BY <1>0, <2>1, <2>2, EmptyFits, Zenon DEF FrameInv
<1>5. ASSUME RunSearch(draft), draft # "", draft' = draft, UNCHANGED <<frame, top>>
      PROVE  FrameInv'
  <2>1. draft \in Queries
    BY <1>0, <1>5, Zenon DEF SearchedFor
  <2>2. jobs' = jobs \cup {[id |-> searchRequestId', q |-> draft]}
    BY <1>5, Zenon DEF RunSearch
  <2>3. \A j \in jobs' : j.q \in Queries
    <3>1. [id |-> searchRequestId', q |-> draft].q = draft
      OBVIOUS
    <3>2. \A j \in jobs : j.q \in Queries
      BY <1>0, Zenon DEF SearchedFor
    <3> QED BY <2>1, <2>2, <3>1, <3>2, Zenon
  <2>4. SearchedFor'
    BY <1>0, <1>5, <2>1, <2>3, Zenon DEF SearchedFor
  <2>5. results' = [results EXCEPT !.index = 1]
    BY <1>5, Zenon DEF RunSearch
  <2>6. 1 \in Nat \ {0}
    OBVIOUS
  <2>7. ResultsFit'
    BY <1>0, <2>5, <2>6, IndexIsSet, Zenon
  <2> QED BY <1>0, <1>5, <2>4, <2>7, Zenon DEF FrameInv
<1>6. CASE Debounced
  <2>1. RunSearch(draft) /\ draft # "" /\ draft' = draft /\ UNCHANGED <<frame, top>>
    BY <1>0, <1>6, Zenon DEF Debounced, SearchedFor
  <2> QED BY <1>5, <2>1
<1>7. CASE EnterKey
  <2>1. UNCHANGED <<draft, timer, frame, top>>
    BY <1>7, Zenon DEF EnterKey
  <2>2. ASSUME NEW step \in Int, results.cells # <<>>, NavigateResults(step), jobs' = jobs
        PROVE  FrameInv'
    <3> DEFINE n == Len(results.cells)
               next == ((results.index - 1 + n + step) % n) + 1
    <3>1. n \in Nat \ {0} /\ results.index \in Nat \ {0}
      BY <1>0, <2>2, ActiveIsACell
    <3>2. results' = [results EXCEPT !.index = next]
      BY <2>2, Zenon DEF NavigateResults
    <3>3. next \in Nat \ {0}
      <4> HIDE DEF n
      <4>1. \A m \in Int : m % n \in Nat
        BY <3>1
      <4> QED BY <3>1, <4>1
    <3> HIDE DEF next, n
    <3>4. ResultsFit'
      BY <1>0, <3>2, <3>3, IndexIsSet
    <3> QED BY <1>0, <1>s, <2>1, <2>2, <3>4, Zenon DEF FrameInv
  <2>3. Len(results.cells) - 1 \in Int /\ 1 \in Int
    BY <1>0, ActiveIsACell
  <2>4. CASE draft # "" /\ RunSearch(draft)
    BY <1>5, <2>1, <2>4
  <2>5. CASE results.cells # <<>> /\ jobs' = jobs
             /\ \E step \in {1, Len(results.cells) - 1} : NavigateResults(step)
    BY <2>2, <2>3, <2>5, Zenon
  <2> QED BY <1>7, <2>4, <2>5, Zenon DEF EnterKey
<1>8. CASE SearchAnswered
  <2>1. PICK j \in jobs :
          /\ jobs' = jobs \ {j}
          /\ IF j.id = searchRequestId THEN Answer(j) ELSE UNCHANGED <<results, searching>>
    BY <1>8, Zenon DEF SearchAnswered
  <2>2. UNCHANGED <<draft, timer, frame, top>>
    BY <1>8, Zenon DEF SearchAnswered
  <2>3. ResultsFit'
    <3>1. CASE Answer(j)
      <4>1. PICK cells \in {FindResults(j.q), <<>>} :
              results' = [results EXCEPT !.of = j.q, !.cells = cells]
        BY <3>1, Zenon DEF Answer
      <4>2. cells \in Seq(Cells)
        <5>1. j.q \in Queries
          BY <1>0, Zenon DEF SearchedFor
        <5>2. FindResults(j.q) \in Seq(Cells) /\ <<>> \in Seq(Cells)
          BY <5>1, ResultsAreCells, EmptySeq
        <5> QED BY <4>1, <5>2, Zenon
      <4> QED BY <1>0, <4>1, <4>2, CellsAreSet
    <3> QED BY <2>1, <3>1, <1>r, Zenon
  <2>4. SearchedFor'
    BY <1>0, <2>1, <2>2, Zenon DEF SearchedFor
  <2> QED BY <1>0, <2>2, <2>3, <2>4, Zenon DEF FrameInv
<1>9. CASE ShowResult
  <2>1. UNCHANGED <<draft, timer, jobs, results>> /\ (top' = top)
        /\ results.index <= Len(results.cells)
    BY <1>9, Zenon DEF ShowResult
  <2>2. frame' = frame \/ frame' = Active.row
    BY <1>9, Zenon DEF ShowResult
  <2>3. Active.row \in 1..4
    BY <1>0, <2>1, ActiveIsACell
  <2>4. frame' \in 0..4
    BY <1>0, <2>2, <2>3
  <2> QED BY <1>0, <1>r, <1>s, <2>1, <2>4, Zenon DEF FrameInv
<1>10. CASE ScrollFrame
  <2>1. UNCHANGED <<draft, timer, jobs, results>> /\ frame # 0 /\ frame' = 0
        /\ top' = ScrollTo(frame, top)
    BY <1>10, Zenon DEF ScrollFrame
  <2>2. frame \in 1..4
    BY <1>0, <2>1
  <2>3. top' \in Nat /\ frame' \in 0..4
    BY <1>0, <2>1, <2>2, ScrollingIsIntoView
  <2> QED BY <1>r, <1>s, <2>1, <2>3, Zenon DEF FrameInv
<1>11. CASE SelectSheet
  <2>1. UNCHANGED <<draft, timer, jobs, results, top>> /\ frame' \in 0..4
    BY <1>11 DEF SelectSheet
  <2> QED BY <1>0, <1>r, <1>s, <2>1, Zenon DEF FrameInv
<1> QED
  <2>1. ASSUME LoadWorkbook \/ PickFile \/ UserScrolls \/ UNCHANGED viewVars
        PROVE  UNCHANGED <<draft, timer, jobs, results, frame>> /\ top' \in Nat
    BY <1>0, <2>1 DEF viewVars, searchVars, LoadWorkbook, PickFile, UserScrolls
  <2>2. \/ LoadWorkbook \/ PickFile \/ UserScrolls \/ UNCHANGED viewVars
        \/ HandleWorkbookUpload \/ HandleSearchDraftChange \/ EmptyTheField \/ Debounced
        \/ EnterKey \/ ClearSearch \/ SearchAnswered \/ ShowResult \/ ScrollFrame \/ SelectSheet
    BY Zenon DEF ViewNext
  <2> QED BY <2>1, <2>2, <1>1, <1>2, <1>3, <1>4, <1>6, <1>7, <1>8, <1>9, <1>10, <1>11

\* The frame that scrolls to a result leaves it in view, wherever the sheet was
\* scrolled (scrollXlsxCellIntoView).
LEMMA FrameScrollsIntoView ==
  FrameInv => ScrollsIntoView
<1> SUFFICES ASSUME FrameInv, frame # 0, ScrollFrame PROVE InView(frame, top')
  BY DEF ScrollsIntoView
<1>1. frame \in 1..4 /\ top \in Nat /\ top' = ScrollTo(frame, top)
  <2>1. frame \in 0..4 /\ top \in Nat
    BY DEF FrameInv
  <2>2. frame \in 1..4
    BY <2>1
  <2> QED BY <2>1, <2>2, Zenon DEF ScrollFrame
<1> QED BY <1>1, ScrollingIsIntoView

-----------------------------------------------------------------------------
(* ---- Document viewer: the newest document is the one shown              *)

(* The runs wait in the order they were numbered, the newest last and of    *)
(* the document shown; only the first has begun.                            *)
RunRecord(n, d, p) == [n |-> n, doc |-> d, phase |-> p]
QueueInOrder ==
  \A i \in DOMAIN queue :
    /\ \E n, d, p : queue[i] = RunRecord(n, d, p)
    /\ queue[i].n \in Nat /\ queue[i].n <= current
    /\ queue[i].n = current <=> i = Len(queue)
    /\ i = Len(queue) => queue[i].doc = DocumentKey
    /\ queue[i].phase # "waiting" => i = 1

QueueInv ==
  /\ current \in Nat /\ \E S : queue \in Seq(S)
  /\ QueueInOrder /\ NewestIsShown

LEMMA QueueInitInv == ViewerInit => QueueInv
<1> SUFFICES ASSUME ViewerInit PROVE QueueInv
  OBVIOUS
<1> DEFINE r == RunRecord(1, url, "waiting")
<1>1. queue = <<r>> /\ current = 1 /\ DocumentKey = url
  BY DEF ViewerInit, RunRecord, DocumentKey, KeyOf, NoUpload
<1>2. queue \in Seq({r}) /\ Len(queue) = 1 /\ DOMAIN queue = {1} /\ queue[1] = r
  BY <1>1
<1>6. \A i \in DOMAIN queue : i = 1
  BY <1>2
<1>3. r.n = 1 /\ r.doc = url /\ r.phase = "waiting"
  BY DEF RunRecord
<1>4. queue # <<>>
  BY <1>2
<1> HIDE DEF r
<1>5. \A i \in DOMAIN queue : \E n, d, p : queue[i] = RunRecord(n, d, p)
  BY <1>2 DEF r
<1>7. ASSUME NEW i \in DOMAIN queue
      PROVE  /\ queue[i].n \in Nat /\ queue[i].n <= current
             /\ queue[i].n = current /\ i = Len(queue)
             /\ queue[i].doc = DocumentKey /\ queue[i].phase = "waiting"
  BY <1>1, <1>2, <1>3, <1>6
<1>8. QueueInOrder
  BY <1>5, <1>7 DEF QueueInOrder
<1> QED BY <1>1, <1>2, <1>4, <1>8 DEF QueueInv, NewestIsShown

(* A run joins the queue, of the document shown from now on.                *)
LEMMA RunJoins ==
  ASSUME QueueInv, NEW doc, Enqueue(doc), doc = DocumentKey'
  PROVE  QueueInv'
<1> DEFINE m == current + 1
<1> DEFINE r == RunRecord(m, doc, "waiting")
<1>1. PICK S : queue \in Seq(S)
  BY DEF QueueInv
<1>2. current \in Nat /\ current' = m /\ queue \in Seq(S \cup {r}) /\ queue' = Append(queue, r)
  BY <1>1 DEF RunRecord, QueueInv, Enqueue
<1> DEFINE n == Len(queue) + 1
<1>3. r.n = m /\ r.doc = doc /\ r.phase = "waiting"
  BY DEF RunRecord
<1>4. m \in Nat /\ m > current
  BY <1>2
<1>t. \E a, d, p : r = RunRecord(a, d, p)
  OBVIOUS
<1> HIDE DEF r, m
<1>5. queue' \in Seq(S \cup {r})
  BY <1>2
<1>6. /\ n \in Nat /\ Len(queue') = n /\ DOMAIN queue' = DOMAIN queue \cup {n}
      /\ \A i \in DOMAIN queue : i \in Nat /\ i < n /\ queue'[i] = queue[i]
      /\ queue'[n] = r /\ queue' # <<>>
  BY <1>2
<1> HIDE DEF n
<1>7. ASSUME NEW i \in DOMAIN queue
      PROVE  /\ \E a, d, p : queue'[i] = RunRecord(a, d, p)
             /\ queue'[i].n \in Nat /\ queue'[i].n <= current' /\ queue'[i].n # current'
             /\ queue'[i].phase # "waiting" => i = 1
  BY <1>2, <1>4, <1>6 DEF QueueInv, QueueInOrder
<1>8. QueueInOrder'
  BY <1>2, <1>3, <1>4, <1>6, <1>7, <1>t DEF QueueInOrder
<1>9. NewestIsShown'
  BY <1>6 DEF NewestIsShown
<1> QED BY <1>2, <1>4, <1>5, <1>8, <1>9 DEF QueueInv

LEMMA FirstRemoved ==
  ASSUME NEW S, NEW s \in Seq(S), s # <<>>
  PROVE  /\ RemoveAt(s, 1) \in Seq(S) /\ Len(RemoveAt(s, 1)) = Len(s) - 1
         /\ DOMAIN RemoveAt(s, 1) = 1..(Len(s) - 1)
         /\ \A j \in 1..(Len(s) - 1) : RemoveAt(s, 1)[j] = s[j + 1]
<1>1. Len(s) \in Nat /\ Len(s) >= 1
  OBVIOUS
<1>6. PICK n \in Nat : n = Len(s)
  BY <1>1
<1> DEFINE a == SubSeq(s, 1, 1 - 1)
           b == SubSeq(s, 1 + 1, Len(s))
<1>2. a \in Seq(S) /\ Len(a) = 0
  BY <1>1
<1>7. \A i \in 2..n : s[i] \in S
  BY <1>6
<1>8. /\ SubSeq(s, 2, n) \in Seq(S)
      /\ Len(SubSeq(s, 2, n)) = IF 2 <= n THEN n - 2 + 1 ELSE 0
      /\ \A i \in 1..n - 2 + 1 : SubSeq(s, 2, n)[i] = s[2 + i - 1]
  BY <1>7, SubSeqProperties
<1>9. b = SubSeq(s, 2, n)
  BY <1>6
<1> HIDE DEF b
<1>10. b \in Seq(S) /\ Len(b) = n - 1
  BY <1>1, <1>6, <1>8, <1>9
<1>11. ASSUME NEW j \in 1..(n - 1) PROVE b[j] = s[j + 1]
  BY <1>6, <1>8, <1>9
<1>3. b \in Seq(S) /\ Len(b) = Len(s) - 1 /\ \A j \in 1..(Len(s) - 1) : b[j] = s[j + 1]
  BY <1>6, <1>10, <1>11
<1>4. RemoveAt(s, 1) = a \o b
  BY DEF RemoveAt, b
<1> HIDE DEF a
<1>5. a \o b \in Seq(S) /\ Len(a \o b) = Len(b) /\ DOMAIN (a \o b) = 1..Len(b)
      /\ \A j \in 1..Len(b) : (a \o b)[j] = b[j]
  BY <1>2, <1>3
<1> QED BY <1>3, <1>4, <1>5

(* What stays when the document shown and the newest run are the same.      *)
Stays == UNCHANGED <<url, upload, current>>

(* The first run leaves the queue: it was the newest if none is left.       *)
LEMMA FirstLeaves ==
  ASSUME QueueInv, 1 \in DOMAIN queue, queue' = RemoveAt(queue, 1), Stays
  PROVE  /\ current' \in Nat /\ (\E S : queue \in Seq(S))' /\ QueueInOrder'
         /\ queue' = <<>> => queue[1].n = current
<1>1. PICK S : queue \in Seq(S)
  BY DEF QueueInv
<1> DEFINE n == Len(queue) - 1
<1>2. queue # <<>> /\ DOMAIN queue = 1..Len(queue) /\ Len(queue) \in Nat
  BY <1>1
<1>3. n \in Nat /\ Len(queue) = n + 1
  BY <1>2
<1>4. /\ queue' \in Seq(S) /\ Len(queue') = n /\ DOMAIN queue' = 1..n
      /\ \A j \in 1..n : queue'[j] = queue[j + 1]
  BY <1>1, <1>2, FirstRemoved
<1>5. current' = current /\ DocumentKey' = DocumentKey
  BY DEF Stays, DocumentKey
<1> HIDE DEF n
<1>6. ASSUME NEW j \in 1..n
      PROVE  /\ \E a, d, p : queue'[j] = RunRecord(a, d, p)
             /\ queue'[j].n \in Nat /\ queue'[j].n <= current
             /\ queue'[j].n = current <=> j = n
             /\ j = n => queue'[j].doc = DocumentKey
             /\ queue'[j].phase = "waiting"
  <2>1. j \in Nat /\ j + 1 \in DOMAIN queue /\ j + 1 # 1 /\ (j = n <=> j + 1 = Len(queue))
        /\ queue'[j] = queue[j + 1]
    BY <1>2, <1>3, <1>4
  <2> QED BY <2>1 DEF QueueInv, QueueInOrder
<1>7. QueueInOrder'
  BY <1>4, <1>5, <1>6 DEF QueueInOrder
<1>8. queue' = <<>> => queue[1].n = current
  <2>1. queue' = <<>> => Len(queue) = 1
    BY <1>3, <1>4
  <2> QED BY <1>2, <2>1 DEF QueueInv, QueueInOrder
<1> QED BY <1>4, <1>5, <1>7, <1>8 DEF QueueInv

(* The first run goes on.                                                   *)
LEMMA FirstGoesOn ==
  ASSUME QueueInv, 1 \in DOMAIN queue, NEW v, queue' = [queue EXCEPT ![1].phase = v], Stays
  PROVE  QueueInv'
<1>1. PICK S : queue \in Seq(S)
  BY DEF QueueInv
<1>2. PICK a, d, p : queue[1] = RunRecord(a, d, p)
  BY DEF QueueInv, QueueInOrder
<1> DEFINE r == RunRecord(a, d, v)
<1>3. [queue[1] EXCEPT !.phase = v] = r
  BY <1>2 DEF RunRecord
<1>4. r.n = queue[1].n /\ r.doc = queue[1].doc
  BY <1>2 DEF RunRecord
<1>t. \E b, c, q : r = RunRecord(b, c, q)
  OBVIOUS
<1> HIDE DEF r
<1>5. queue' = [queue EXCEPT ![1] = r]
  BY <1>3, Zenon
<1>6. queue \in Seq(S \cup {r}) /\ 1 \in 1..Len(queue)
  BY <1>1
<1>7. /\ queue' \in Seq(S \cup {r}) /\ Len(queue') = Len(queue) /\ DOMAIN queue' = DOMAIN queue
      /\ \A j \in DOMAIN queue : queue'[j] = IF j = 1 THEN r ELSE queue[j]
  BY <1>5, <1>6
<1>8. current' = current /\ DocumentKey' = DocumentKey
  BY DEF Stays, DocumentKey
<1>9. ASSUME NEW j \in DOMAIN queue
      PROVE  /\ \E b, c, q : queue'[j] = RunRecord(b, c, q)
             /\ queue'[j].n = queue[j].n /\ queue'[j].doc = queue[j].doc
             /\ j # 1 => queue'[j].phase = queue[j].phase
  BY <1>4, <1>7, <1>t DEF QueueInv, QueueInOrder
<1>10. QueueInOrder'
  BY <1>7, <1>8, <1>9 DEF QueueInv, QueueInOrder
<1>12. Len(queue') # 0
  BY <1>6, <1>7
<1>13. queue' # <<>>
  BY <1>12
<1>11. NewestIsShown'
  BY <1>13 DEF NewestIsShown
<1> QED BY <1>7, <1>8, <1>10, <1>11 DEF QueueInv

(* The first run ends: the newest one shows its document or an error.       *)
LEMMA FirstEnds ==
  ASSUME QueueInv, NEW i \in DOMAIN queue, queue[i].phase # "waiting", NEW failed, RunEnds(i, failed),
         Stays, engine' = queue[i].doc \/ failed = TRUE \/ failing' = TRUE
  PROVE  QueueInv'
<1>1. i = 1 /\ queue' = RemoveAt(queue, 1)
  BY DEF QueueInv, QueueInOrder, RunEnds
<1>2. /\ current' \in Nat /\ (\E S : queue \in Seq(S))' /\ QueueInOrder'
      /\ queue' = <<>> => queue[1].n = current
  BY <1>1, FirstLeaves
<1>3. queue[1].n = current => queue[1].doc = DocumentKey
  BY <1>1 DEF QueueInv, QueueInOrder
<1>4. DocumentKey' = DocumentKey
  BY DEF Stays, DocumentKey
<1>5. queue[1].n = current => loadError' = (loadError \/ failed)
  BY <1>1, Zenon DEF RunEnds
<1>6. CASE engine' = queue[i].doc
  BY <1>1, <1>2, <1>3, <1>4, <1>6 DEF QueueInv, NewestIsShown
<1>7. CASE failed = TRUE
  <2>1. queue' = <<>> => loadError'
    BY <1>2, <1>5, <1>7, Zenon
  <2> QED BY <1>2, <2>1 DEF QueueInv, NewestIsShown, Ready
<1>8. CASE failing' = TRUE
  BY <1>2, <1>8 DEF QueueInv, NewestIsShown
<1> QED BY <1>6, <1>7, <1>8

LEMMA QueueNextInv == QueueInv /\ [ViewerNext]_viewerVars => QueueInv'
<1> SUFFICES ASSUME QueueInv, [ViewerNext]_viewerVars PROVE QueueInv'
  OBVIOUS
<1>1. CASE UNCHANGED Document
  BY <1>1 DEF Document, QueueInv, QueueInOrder, NewestIsShown, Ready, HasDocument, DocumentKey
<1>2. CASE ChangeUrl
  <2>1. PICK u : url' = u /\ Enqueue(KeyOf(u, upload)) /\ upload' = upload
    BY <1>2, Zenon DEF ChangeUrl
  <2>2. KeyOf(u, upload) = DocumentKey'
    BY <2>1, Zenon DEF DocumentKey
  <2> QED BY <2>1, <2>2, RunJoins
<1>3. CASE HandleUpload
  <2>1. PICK doc \in Picks : upload' = [doc |-> doc, over |-> url] /\ Enqueue(doc) /\ url' = url
    BY <1>3, Zenon DEF HandleUpload
  <2>2. doc = DocumentKey'
    BY <2>1 DEF DocumentKey, KeyOf, Picks
  <2> QED BY <2>1, <2>2, RunJoins
<1>4. CASE RunStarts
  <2>1. PICK i \in DOMAIN queue :
          /\ Turn(i) /\ queue[i].phase = "waiting"
          /\ IF queue[i].n # current
             THEN /\ queue' = RemoveAt(queue, i)
                  /\ UNCHANGED <<isLoadingDocument, loadError, reported>>
             ELSE /\ isLoadingDocument' = (queue[i].doc # 0)
                  /\ loadError' = FALSE /\ reported' = 0
                  /\ queue' = IF queue[i].doc = 0 THEN RemoveAt(queue, i)
                              ELSE [queue EXCEPT ![i].phase =
                                      IF queue[i].doc \in Urls THEN "fetching" ELSE "importing"]
    BY <1>4, Zenon DEF RunStarts
  <2>2. i = 1 /\ Stays
    BY <1>4, <2>1 DEF RunStarts, Turn, Stays
  <2>3. DocumentKey' = DocumentKey
    BY <2>2 DEF Stays, DocumentKey
  <2>4. CASE queue' = RemoveAt(queue, 1) /\ (queue[1].n = current => queue[1].doc = 0)
    <3>1. /\ current' \in Nat /\ (\E S : queue \in Seq(S))' /\ QueueInOrder'
          /\ queue' = <<>> => queue[1].n = current
      BY <2>2, <2>4, FirstLeaves
    <3>2. queue[1].n = current => queue[1].doc = DocumentKey
      BY <2>2 DEF QueueInv, QueueInOrder
    <3>3. queue' = <<>> => DocumentKey' = 0
      BY <2>3, <2>4, <3>1, <3>2
    <3> QED BY <3>1, <3>3 DEF QueueInv, NewestIsShown, Ready, HasDocument
  <2>5. CASE \E v : queue' = [queue EXCEPT ![1].phase = v]
    BY <2>2, <2>5, FirstGoesOn
  <2> QED BY <2>1, <2>2, <2>4, <2>5, Zenon
<1>5. CASE Fetched
  <2>1. PICK i \in DOMAIN queue :
          /\ queue[i].phase = "fetching"
          /\ queue' = [queue EXCEPT ![i].phase = "importing"]
    BY <1>5, Zenon DEF Fetched
  <2>2. i = 1 /\ Stays
    BY <1>5, <2>1 DEF Fetched, Stays, QueueInv, QueueInOrder
  <2> QED BY <2>1, <2>2, FirstGoesOn
<1>6. CASE Imported
  <2>1. PICK i \in DOMAIN queue :
          queue[i].phase = "importing" /\ engine' = queue[i].doc /\ RunEnds(i, FALSE)
    BY <1>6, Zenon DEF Imported
  <2>2. Stays
    BY <1>6 DEF Imported, Stays
  <2>3. queue[i].phase # "waiting"
    BY <2>1
  <2> QED BY <2>1, <2>2, <2>3, FirstEnds, Zenon
<1>7. CASE LoadFailed
  <2>1. PICK i \in DOMAIN queue :
          \/ queue[i].phase # "waiting" /\ RunEnds(i, TRUE) /\ UNCHANGED failing
          \/ queue[i].phase = "importing" /\ RunEnds(i, FALSE) /\ failing' = TRUE
    BY <1>7, Zenon DEF LoadFailed
  <2>2. Stays
    BY <1>7 DEF LoadFailed, Stays
  <2>3. queue[i].phase # "waiting"
    BY <2>1
  <2> QED BY <2>1, <2>2, <2>3, FirstEnds, Zenon
<1>8. CASE StatusFrame
  <2>1. UNCHANGED <<url, upload, queue, current>> /\ loadError' = TRUE
    BY <1>8 DEF StatusFrame
  <2>2. QueueInOrder'
    BY <2>1 DEF QueueInv, QueueInOrder, DocumentKey
  <2> QED BY <2>1, <2>2 DEF QueueInv, NewestIsShown, Ready
<1> QED BY <1>1, <1>2, <1>3, <1>4, <1>5, <1>6, <1>7, <1>8
        DEF ViewerNext, viewerVars, Document, HandlePageCountChange, UpdateActivePage,
            EditPageNumber, ApplyPageDraft, ToggleSidebar, RenderRows, SelectThumbnail,
            SetZoomLevel, HandleDownload
=============================================================================
