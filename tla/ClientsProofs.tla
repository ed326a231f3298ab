---------------------------- MODULE ClientsProofs ----------------------------
(* What the proofs of the parts say about the composition.                 *)
(*                                                                         *)
(* A behaviour of Clients stays with the part it begins with, and each of  *)
(* its steps is a step of that part or leaves the part's variables alone.  *)
(* So the inductive invariant of a part, which its own proofs show its     *)
(* initial states to satisfy and its steps to keep, holds in every         *)
(* behaviour that is about the part.                                       *)
EXTENDS Clients, TLAPS

(* The edit of a head counts its versions, an uploaded file its chunks, a  *)
(* document its pages; a chunk is sent with bytes of its own in some       *)
(* order, a browser session has a first pair and no pair is the absence of *)
(* one, and a sheet has rows and columns.                                  *)
Sizes == /\ CommitsMaxVersion \in Nat \ {0}
         /\ Services!HashesAreReal /\ Doubles!HashesAreReal
         /\ Services!ChunksAreFinite /\ Doubles!ChunksAreFinite
         /\ Viewers!ChunksAreCounted /\ Viewers!PageCountIsReal /\ Viewers!PagesAreCounted
         /\ Web!WebSizes /\ Docs!GridSizes

(* What is proved in DocumentProofs assumes this of the native session.      *)
USE BoundsAssumption, NoneAssumption

(* The inductive invariants of the parts.                                  *)
NativeInv == Docs!RInv
EditHolds == part = "edit session" => Web!EditInv
WebHolds == part = "web" => Web!WebInv
PreviewHolds == part = "file preview" => Web!Headed /\ Web!ProbeInv
GridHolds == part = "file grid" => Web!Renaming
TrashHolds == part = "trash" => Web!TrashInv
SheetHolds == part = "xlsx viewer" => Web!SearchInv /\ Web!FrameInv
PagesHold == part = "docx viewer" => Web!QueueInv
ToolsHold == part = "pdf tools" => Docs!ToolsInv
PropertiesHold == part = "pdf properties" => Docs!PropsInv
DialogsHold == part = "pdf dialogs" => Docs!DialogsInv
PanelsHold == part = "pdf panels" => Docs!PanelsInv
BookHolds == part = "xlsx editor" => Docs!EditorInv
CellsHold == part = "xlsx cells" => Docs!CellsInv
ViewerHolds == part = "pdf viewer" => Docs!ViewerInv
LoadsHold == part = "docx editor" => Docs!LoadsInv
DocumentHolds == part = "pdf document" => Viewers!DocInv
SelectingHolds == part = "pdf text" => Viewers!SelectingInv /\ Viewers!AskedInOrder
TurnHolds == part = "pdf rotation" => Viewers!TurnInv
TabsHold == part = "sheet tabs" => Viewers!TabsInv
CardsHold == part = "docx toolbar" => Viewers!CardsInv
UploadsHold == part = "uploads" => Viewers!UploadsInv
CommitHolds == part = "version commit" => Services!VersionInv /\ Services!RowsInv
ReceiveHolds == part = "upload session" => Services!SessionInv /\ Services!FilesInv
OtherHolds == part = "other bytes" => Doubles!SessionInv /\ Doubles!FilesInv
CopiesHold == part = "consolidation" => Services!CopyInv /\ Services!WaitInv
SweepsHold == part = "two sweeps" => Doubles!CopyInv /\ Doubles!WaitInv

PartsInv ==
  /\ NativeInv /\ EditHolds /\ WebHolds /\ PreviewHolds /\ GridHolds
  /\ TrashHolds /\ SheetHolds /\ PagesHold /\ ToolsHold
  /\ PropertiesHold /\ DialogsHold /\ PanelsHold /\ BookHolds
  /\ CellsHold /\ ViewerHolds /\ LoadsHold /\ DocumentHolds
  /\ SelectingHolds /\ TabsHold /\ CardsHold /\ UploadsHold
  /\ CommitHolds /\ ReceiveHolds /\ OtherHolds /\ CopiesHold
  /\ SweepsHold /\ TurnHolds

-----------------------------------------------------------------------------
(* A step is about the part of the behaviour.                              *)
LEMMA OnePart ==
  ASSUME [ClientsNext]_<<part, slots, vars>>
  PROVE  /\ part' = part
         /\ [Docs!Next]_vars
         /\ part = "edit session" => Web!EditNext \/ UNCHANGED slots
         /\ part = "web" => Web!WebNext \/ UNCHANGED slots
         /\ part = "file preview" => Web!PreviewNext \/ UNCHANGED slots
         /\ part = "file grid" => Web!GridNext \/ UNCHANGED slots
         /\ part = "trash" => Web!TrashNext \/ UNCHANGED slots
         /\ part = "xlsx viewer" => Web!ViewNext \/ UNCHANGED slots
         /\ part = "docx viewer" => Web!ViewerNext \/ UNCHANGED slots
         /\ part = "pdf tools" => Docs!ToolsNext \/ UNCHANGED slots
         /\ part = "pdf properties" => Docs!PropNext \/ UNCHANGED slots
         /\ part = "pdf dialogs" => Docs!DialogsNext \/ UNCHANGED slots
         /\ part = "pdf panels" => Docs!PanelsNext \/ UNCHANGED slots
         /\ part = "xlsx editor" => Docs!EditorNext \/ UNCHANGED slots
         /\ part = "xlsx cells" => Docs!CellsNext \/ UNCHANGED slots
         /\ part = "pdf viewer" => Docs!ViewerNext \/ UNCHANGED slots
         /\ part = "docx editor" => Docs!DocxNext \/ UNCHANGED slots
         /\ part = "pdf document" => Viewers!DocNext \/ UNCHANGED slots
         /\ part = "pdf text" => Viewers!TextNext \/ UNCHANGED slots
         /\ part = "pdf rotation" => Viewers!TurnNext \/ UNCHANGED slots
         /\ part = "sheet tabs" => Viewers!TabsNext \/ UNCHANGED slots
         /\ part = "docx toolbar" => Viewers!ToolbarNext \/ UNCHANGED slots
         /\ part = "uploads" => Viewers!UploadsNext \/ UNCHANGED slots
         /\ part = "version commit" => Services!VersionNext \/ UNCHANGED slots
         /\ part = "upload session" => Services!SessionNext \/ UNCHANGED slots
         /\ part = "other bytes" => Doubles!SessionNext \/ UNCHANGED slots
         /\ part = "consolidation" => Services!ConsolidationNext \/ UNCHANGED slots
         /\ part = "two sweeps" => Doubles!ConsolidationNext \/ UNCHANGED slots
<1>1. CASE UNCHANGED <<part, slots, vars>>
  BY <1>1
<1>2. CASE ClientsNext
  BY <1>2 DEF ClientsNext, Native, Screen
<1> QED BY <1>1, <1>2

LEMMA PartsBegin == Sizes /\ ClientsInit => PartsInv
<1> SUFFICES ASSUME Sizes, ClientsInit PROVE PartsInv
  OBVIOUS
<1>1. NativeInv
  BY Docs!InitRInv DEF ClientsInit, NativeInv
<1>2. EditHolds
  BY Web!InitInv DEF ClientsInit, EditHolds
<1>3. WebHolds
  BY Web!WebInitInv DEF ClientsInit, WebHolds, Sizes
<1>4. PreviewHolds
  BY Web!HeadedBegins, Web!ProbeBegins DEF ClientsInit, PreviewHolds
<1>5. GridHolds
  BY Web!RenamingBegins DEF ClientsInit, GridHolds
<1>6. TrashHolds
  BY Web!TrashInitInv DEF ClientsInit, TrashHolds
<1>7. SheetHolds
  BY Web!SearchInitInv, Web!FrameInitInv DEF ClientsInit, SheetHolds
<1>8. PagesHold
  BY Web!QueueInitInv DEF ClientsInit, PagesHold
<1>9. ToolsHold
  BY Docs!ToolsInitInv DEF ClientsInit, ToolsHold
<1>10. PropertiesHold
  BY Docs!PropsInitInv DEF ClientsInit, PropertiesHold
<1>11. DialogsHold
  BY Docs!DialogsInitInv DEF ClientsInit, DialogsHold
<1>12. PanelsHold
  BY Docs!PanelsInitInv DEF ClientsInit, PanelsHold
<1>13. BookHolds
  BY Docs!EditorInitInv DEF ClientsInit, BookHolds
<1>14. CellsHold
  BY Docs!CellsInitInv DEF ClientsInit, CellsHold, Sizes
<1>15. ViewerHolds
  BY Docs!ViewerInitInv DEF ClientsInit, ViewerHolds
<1>16. LoadsHold
  BY Docs!LoadsInitInv DEF ClientsInit, LoadsHold
<1>17. DocumentHolds
  BY Viewers!DocInitInv DEF ClientsInit, DocumentHolds
<1>18. SelectingHolds
  BY Viewers!SelectingInitInv, Viewers!AskedInitInv DEF ClientsInit, SelectingHolds
<1>19. TabsHold
  BY Viewers!TabsInitInv DEF ClientsInit, TabsHold
<1>20. CardsHold
  BY Viewers!CardsInitInv DEF ClientsInit, CardsHold
<1>21. UploadsHold
  BY Viewers!UploadsInitInv DEF ClientsInit, UploadsHold
<1>22. CommitHolds
  BY Services!VersionInitInv, Services!RowsInitInv DEF ClientsInit, CommitHolds, Sizes
<1>23. ReceiveHolds
  BY Services!SessionInitInv, Services!FilesInitInv DEF ClientsInit, ReceiveHolds, Sizes
<1>24. OtherHolds
  BY Doubles!SessionInitInv, Doubles!FilesInitInv DEF ClientsInit, OtherHolds, Sizes
<1>25. CopiesHold
  BY Services!CopyInitInv, Services!WaitInitInv DEF ClientsInit, CopiesHold
<1>26. SweepsHold
  BY Doubles!CopyInitInv, Doubles!WaitInitInv DEF ClientsInit, SweepsHold
<1>27. TurnHolds
  BY Viewers!TurnInitInv DEF ClientsInit, TurnHolds, Sizes
<1> QED BY <1>1, <1>2, <1>3, <1>4, <1>5, <1>6, <1>7, <1>8, <1>9, <1>10, <1>11, <1>12,
           <1>13, <1>14, <1>15, <1>16, <1>17, <1>18, <1>19, <1>20, <1>21, <1>22, <1>23,
           <1>24, <1>25, <1>26, <1>27 DEF PartsInv

LEMMA PartsGoOn ==
  Sizes /\ PartsInv /\ [ClientsNext]_<<part, slots, vars>> => PartsInv'
<1> SUFFICES ASSUME Sizes, PartsInv, [ClientsNext]_<<part, slots, vars>> PROVE PartsInv'
  OBVIOUS
<1>1. NativeInv'
  <2>1. UNCHANGED vars => UNCHANGED Docs!vars
    BY DEF vars, Docs!vars
  <2> QED BY <2>1, OnePart, Docs!NextRInv DEF PartsInv, NativeInv
<1>2. EditHolds'
  <2>1. UNCHANGED slots => UNCHANGED Web!editVars
    BY DEF slots, Web!editVars
  <2> QED BY <2>1, OnePart, Web!NextInv DEF PartsInv, EditHolds
<1>3. WebHolds'
  <2>1. UNCHANGED slots => UNCHANGED Web!webVars
    BY DEF slots, Web!webVars
  <2> QED BY <2>1, OnePart, Web!WebNextInv DEF PartsInv, WebHolds
<1>4. PreviewHolds'
  <2>1. UNCHANGED slots => UNCHANGED Web!previewVars
    BY DEF slots, Web!previewVars
  <2> QED BY <2>1, OnePart, Web!HeadedGoesOn, Web!ProbeGoesOn DEF PartsInv, PreviewHolds
<1>5. GridHolds'
  <2>1. UNCHANGED slots => UNCHANGED Web!gridVars
    BY DEF slots, Web!gridVars
  <2> QED BY <2>1, OnePart, Web!RenamingGoesOn DEF PartsInv, GridHolds
<1>6. TrashHolds'
  <2>1. UNCHANGED slots => UNCHANGED Web!trashVars
    BY DEF slots, Web!trashVars
  <2> QED BY <2>1, OnePart, Web!TrashNextInv DEF PartsInv, TrashHolds
<1>7. SheetHolds'
  <2>1. UNCHANGED slots => UNCHANGED Web!viewVars
    BY DEF slots, Web!viewVars, Web!searchVars
  <2> QED BY <2>1, OnePart, Web!SearchNextInv, Web!FrameNextInv DEF PartsInv, SheetHolds
<1>8. PagesHold'
  <2>1. UNCHANGED slots => UNCHANGED Web!viewerVars
    BY DEF slots, Web!viewerVars
  <2> QED BY <2>1, OnePart, Web!QueueNextInv DEF PartsInv, PagesHold
<1>9. ToolsHold'
  <2>1. UNCHANGED slots => UNCHANGED Docs!toolVars
    BY DEF slots, Docs!toolVars
  <2> QED BY <2>1, OnePart, Docs!ToolsNextInv DEF PartsInv, ToolsHold
<1>10. PropertiesHold'
  <2>1. UNCHANGED slots => UNCHANGED Docs!propVars
    BY DEF slots, Docs!propVars
  <2> QED BY <2>1, OnePart, Docs!PropsNextInv DEF PartsInv, PropertiesHold
<1>11. DialogsHold'
  <2>1. UNCHANGED slots => UNCHANGED Docs!dialogVars
    BY DEF slots, Docs!dialogVars
  <2> QED BY <2>1, OnePart, Docs!DialogsNextInv DEF PartsInv, DialogsHold
<1>12. PanelsHold'
  <2>1. UNCHANGED slots => UNCHANGED Docs!panelVars
    BY DEF slots, Docs!panelVars
  <2> QED BY <2>1, OnePart, Docs!PanelsNextInv DEF PartsInv, PanelsHold
<1>13. BookHolds'
  <2>1. UNCHANGED slots => UNCHANGED Docs!editorVars
    BY DEF slots, Docs!editorVars
  <2> QED BY <2>1, OnePart, Docs!EditorNextInv DEF PartsInv, BookHolds
<1>14. CellsHold'
  <2>1. UNCHANGED slots => UNCHANGED Docs!cellVars
    BY DEF slots, Docs!cellVars
  <2> QED BY <2>1, OnePart, Docs!CellsNextInv DEF PartsInv, CellsHold
<1>15. ViewerHolds'
  <2>1. UNCHANGED slots => UNCHANGED Docs!viewerVars
    BY DEF slots, Docs!viewerVars
  <2> QED BY <2>1, OnePart, Docs!ViewerNextInv DEF PartsInv, ViewerHolds
<1>16. LoadsHold'
  <2>1. UNCHANGED slots => UNCHANGED Docs!docxVars
    BY DEF slots, Docs!docxVars
  <2> QED BY <2>1, OnePart, Docs!LoadsNextInv DEF PartsInv, LoadsHold
<1>17. DocumentHolds'
  <2>1. UNCHANGED slots => UNCHANGED Viewers!docVars
    BY DEF slots, Viewers!docVars
  <2> QED BY <2>1, OnePart, Viewers!DocNextInv, Viewers!DocUnchanged
         DEF PartsInv, DocumentHolds, Sizes
<1>18. SelectingHolds'
  <2>1. UNCHANGED slots => UNCHANGED Viewers!textVars
    BY DEF slots, Viewers!textVars, Viewers!searchVars, Viewers!selectVars
  <2> QED BY <2>1, OnePart, Viewers!SelectingNextInv, Viewers!AskedNextInv
         DEF PartsInv, SelectingHolds
<1>19. TabsHold'
  <2>1. UNCHANGED slots => UNCHANGED Viewers!tabVars
    BY DEF slots, Viewers!tabVars
  <2> QED BY <2>1, OnePart, Viewers!TabsNextInv DEF PartsInv, TabsHold
<1>20. CardsHold'
  <2>1. UNCHANGED slots => UNCHANGED Viewers!toolbarVars
    BY DEF slots, Viewers!toolbarVars
  <2> QED BY <2>1, OnePart, Viewers!CardsNextInv DEF PartsInv, CardsHold
<1>21. UploadsHold'
  <2>1. UNCHANGED slots => UNCHANGED Viewers!uploadVars
    BY DEF slots, Viewers!uploadVars
  <2> QED BY <2>1, OnePart, Viewers!UploadsNextInv DEF PartsInv, UploadsHold, Sizes
<1>22. CommitHolds'
  <2>1. UNCHANGED slots => UNCHANGED Services!versionVars
    BY DEF slots, Services!versionVars, Services!rows, Services!history
  <2> QED BY <2>1, OnePart, Services!VersionNextInv, Services!RowsNextInv
         DEF PartsInv, CommitHolds
<1>23. ReceiveHolds'
  <2>1. UNCHANGED slots => UNCHANGED Services!sessionVars
    BY DEF slots, Services!sessionVars, Services!sessionHistory
  <2> QED BY <2>1, OnePart, Services!SessionNextInv, Services!FilesNextInv
         DEF PartsInv, ReceiveHolds, Sizes
<1>24. OtherHolds'
  <2>1. UNCHANGED slots => UNCHANGED Doubles!sessionVars
    BY DEF slots, Doubles!sessionVars, Doubles!sessionHistory
  <2> QED BY <2>1, OnePart, Doubles!SessionNextInv, Doubles!FilesNextInv
         DEF PartsInv, OtherHolds, Sizes
<1>25. CopiesHold'
  <2>1. UNCHANGED slots => UNCHANGED Services!consolidationVars
    BY DEF slots, Services!consolidationVars, Services!stitched, Services!served,
           Services!copyHistory
  <2> QED BY <2>1, OnePart, Services!CopyNextInv, Services!WaitNextInv DEF PartsInv, CopiesHold
<1>26. SweepsHold'
  <2>1. UNCHANGED slots => UNCHANGED Doubles!consolidationVars
    BY DEF slots, Doubles!consolidationVars, Doubles!stitched, Doubles!served,
           Doubles!copyHistory
  <2> QED BY <2>1, OnePart, Doubles!CopyNextInv, Doubles!WaitNextInv DEF PartsInv, SweepsHold
<1>27. TurnHolds'
  <2>1. UNCHANGED slots => UNCHANGED Viewers!turnVars
    BY DEF slots, Viewers!turnVars
  <2> QED BY <2>1, OnePart, Viewers!TurnNextInv DEF PartsInv, TurnHolds, Sizes
<1> QED BY <1>1, <1>2, <1>3, <1>4, <1>5, <1>6, <1>7, <1>8, <1>9, <1>10, <1>11, <1>12,
           <1>13, <1>14, <1>15, <1>16, <1>17, <1>18, <1>19, <1>20, <1>21, <1>22, <1>23,
           <1>24, <1>25, <1>26, <1>27 DEF PartsInv

LEMMA PartsHold == Sizes /\ ClientsSpec => []PartsInv
<1> SUFFICES ASSUME Sizes PROVE ClientsSpec => []PartsInv
  OBVIOUS
<1>1. ClientsInit => PartsInv
  BY PartsBegin
<1>2. PartsInv /\ [ClientsNext]_<<part, slots, vars>> => PartsInv'
  BY PartsGoOn
<1> QED BY <1>1, <1>2, PTL DEF ClientsSpec

-----------------------------------------------------------------------------
(* The invariant of a part, when a behaviour is about the part.            *)
LEMMA EditIsSafe ==
  ASSUME PartsInv, part = "edit session"
  PROVE  Web!NothingOverwritten /\ Web!CommitsWhatItSent
  BY DEF PartsInv, EditHolds, Web!EditInv, Web!Server

LEMMA CommitIsSafe ==
  ASSUME PartsInv, part = "version commit"
  PROVE  Services!MadeFromTheVersionBefore /\ Services!CommittedIsKept
  BY DEF PartsInv, CommitHolds, Services!VersionInv, Services!Chain, Services!Told,
     Services!Credits, Services!CommittedIsKept

\* A save of the editor commits on top of the version its bytes were loaded
\* from, whatever is refetched while it runs, and the metadata service makes a
\* version only from the bytes of the one before: no edit is lost.
THEOREM NoEditIsLost == Sizes /\ ClientsSpec => []NothingOverwritten
<1>1. PartsInv => NothingOverwritten
  BY EditIsSafe, CommitIsSafe DEF NothingOverwritten
<1> QED BY <1>1, PartsHold, PTL

\* A save commits only blocks it sent or the file already held (runWithWorkers),
\* and a save told it is committed has its bytes in a version the head has
\* reached, its blocks counted at most once (CommitVersion, AdvanceFileHead).
THEOREM SavesAreWhole == Sizes /\ ClientsSpec => []CommitsWhatItSent
<1>1. PartsInv => CommitsWhatItSent
  BY EditIsSafe, CommitIsSafe DEF CommitsWhatItSent
<1> QED BY <1>1, PartsHold, PTL

\* Overlapping refreshes of one browser in several processes of the web server
\* (refreshTokenPair and its shared promise), their cookies set in any order, a
\* restart and one call lost at the auth service do not sign the browser out.
THEOREM OneLossDoesNotSignOut == Sizes /\ ClientsSpec => []OneFailureIsSurvived
<1>1. PartsInv => OneFailureIsSurvived
  BY Web!WebInvIsSafe DEF PartsInv, WebHolds, OneFailureIsSurvived
<1> QED BY <1>1, PartsHold, PTL

\* The PDF attachment removed is the one clicked, a command of a dialog runs
\* once for one opening of it, a file gets the name typed for it (also when the
\* dialog was cancelled and opened for another), and the alert of a batch in the
\* trash names the items whose requests failed.
THEOREM AsAsked == Sizes /\ ClientsSpec => []DoesWhatWasAsked
<1>1. part = "pdf panels" /\ PartsInv => Docs!RemovesWhatWasClicked
  BY Docs!TheOneClickedGoes DEF PartsInv, PanelsHold
<1>2. part = "pdf dialogs" /\ PartsInv => Docs!OneCommandPerOpening
  BY DEF PartsInv, DialogsHold, Docs!DialogsInv, Docs!Asking
<1>3. part = "file grid" /\ PartsInv => Web!RenamesWhatWasTyped
  BY DEF PartsInv, GridHolds, Web!Renaming
<1>4. part = "trash" /\ PartsInv => Web!NamesTheFailed
  BY Web!FailedAreNamed DEF PartsInv, TrashHolds
<1>5. PartsInv => DoesWhatWasAsked
  BY <1>1, <1>2, <1>3, <1>4 DEF DoesWhatWasAsked
<1> QED BY <1>5, PartsHold, PTL

\* What was typed into the formula bar lands in the workbook, on the sheet and
\* in the cell where the edit began, also when the bar loses its focus to a tab
\* or to a new workbook (commitFormulaBarDraft).
THEOREM FormulasLandWhereTheyBegan == Sizes /\ ClientsSpec => []LandsWhereItBegan
<1>1. PartsInv => LandsWhereItBegan
  BY DEF PartsInv, BookHolds, Docs!EditorInv, LandsWhereItBegan
<1> QED BY <1>1, PartsHold, PTL

\* However cells are merged, merged across and unmerged, the merged regions of a
\* sheet never overlap, and "outside border" sets exactly the edges of the
\* selection's boundary (applyBorderAction).
THEOREM MergesStayApart == Sizes /\ ClientsSpec => []RangesAreSound
<1>1. PartsInv => RangesAreSound
  BY Docs!RangesStaySound DEF PartsInv, CellsHold, RangesAreSound
<1> QED BY <1>1, PartsHold, PTL

\* Whatever else the clients do, the native session's memory is the pair the
\* keychain will hold once its queued writes have landed (tokenManager).
THEOREM PairsNeverMixThere == Sizes /\ ClientsSpec => []MemoryIsWhatLands
<1>1. PartsInv => MemoryIsWhatLands
  BY DEF PartsInv, NativeInv, Docs!RInv, Docs!IInv, MemoryIsWhatLands, LastWrite,
     Docs!MemoryIsWhatLands, Docs!LastWrite
<1> QED BY <1>1, PartsHold, PTL

\* The auth service ends the native session for theft only after a rotation
\* whose answer or write this device lost.
THEOREM NoFalseTheftThere == Sizes /\ ClientsSpec => []KilledOnlyAfterLoss
<1>1. PartsInv => KilledOnlyAfterLoss
  BY DEF PartsInv, NativeInv, Docs!RInv, KilledOnlyAfterLoss, Sids,
     Docs!KilledOnlyAfterLoss, Docs!Sids
<1> QED BY <1>1, PartsHold, PTL

\* A replacement of the PDF drops an edit only if it was made while the job ran,
\* if a commit failed or if the job was about an earlier document (the replace
\* handlers of the PDF editor, whatever inputs, jobs and answers overlap).
THEOREM EditsAreDroppedForAReason == Sizes /\ ClientsSpec => []LossHasAReason
<1>1. PartsInv => LossHasAReason
  BY DEF PartsInv, DocumentHolds, Viewers!DocInv, Viewers!JobInv, LossHasAReason
<1> QED BY <1>1, PartsHold, PTL

\* Nothing outlives what it belonged to: an open PDF, a loading editor, a hanging
\* preview, card or text selection on the screens; in the metadata service the
\* registry row, the work item and the object of a purged file.
THEOREM NothingOutlivesItsOwner == Sizes /\ ClientsSpec => []NothingLeftBehind
<1>1. part = "pdf document" /\ PartsInv => Viewers!NoDocumentLeft /\ Viewers!NotLeftLoading
  BY Viewers!NothingLeft, Viewers!NotLeft DEF PartsInv, DocumentHolds
<1>2. part = "pdf viewer" /\ PartsInv => Docs!NoDocumentLeft
  BY Docs!NoDocumentIsLeft DEF PartsInv, ViewerHolds
<1>3. part = "pdf text" /\ PartsInv => Viewers!NotLeftSelecting
  BY DEF PartsInv, SelectingHolds, Viewers!SelectingInv
<1>4. part = "sheet tabs" /\ PartsInv => Viewers!PreviewGoes
  BY DEF PartsInv, TabsHold, Viewers!TabsInv
<1>5. part = "docx toolbar" /\ PartsInv => Viewers!CardOfTheStylePointedAt
  BY DEF PartsInv, CardsHold, Viewers!CardsInv
<1>6. part = "consolidation" /\ PartsInv => Services!PurgeLeavesNothing
  BY DEF PartsInv, CopiesHold, Services!CopyInv, Services!Purged, Services!PurgeLeavesNothing
<1>7. part = "two sweeps" /\ PartsInv => Doubles!PurgeLeavesNothing
  BY DEF PartsInv, SweepsHold, Doubles!CopyInv, Doubles!Purged, Doubles!PurgeLeavesNothing
<1>8. PartsInv => NothingLeftBehind
  BY <1>1, <1>2, <1>3, <1>4, <1>5, <1>6, <1>7 DEF NothingLeftBehind
<1> QED BY <1>8, PartsHold, PTL

\* However late the answers to older questions come, what is on screen answers
\* the newest: the document of the newest load, the results of the text in the
\* search field, the ticket probed, the error of this file; and a consolidated
\* copy that is ready is of the newest version, bytes under their own tag.
THEOREM LateAnswersDoNotShow == Sizes /\ ClientsSpec => []NewestIsShown
<1>1. part = "docx viewer" /\ PartsInv => Web!NewestIsShown
  BY DEF PartsInv, PagesHold, Web!QueueInv
<1>2. part = "docx editor" /\ PartsInv => Docs!ReadyMeansImported
  BY DEF PartsInv, LoadsHold, Docs!LoadsInv
<1>3. part = "xlsx viewer" /\ PartsInv => Web!AnswersTheQuestion
  BY DEF PartsInv, SheetHolds, Web!SearchInv
<1>4. part = "file preview" /\ PartsInv => Web!ViewerShowsProbed
  BY Web!ViewerWasProbed DEF PartsInv, PreviewHolds
<1>5. part = "pdf viewer" /\ PartsInv => Docs!ErrorIsOfThisFile
  BY DEF PartsInv, ViewerHolds, Docs!ViewerInv
<1>6. part = "consolidation" /\ PartsInv =>
        Services!ReadyIsCurrent /\ Services!BytesMatchTheirTag
  BY Services!CopyIsSafe DEF PartsInv, CopiesHold
<1>7. part = "two sweeps" /\ PartsInv => Doubles!ReadyIsCurrent
  BY Doubles!CopyIsSafe DEF PartsInv, SweepsHold
<1>8. PartsInv => NewestIsShown
  BY <1>1, <1>2, <1>3, <1>4, <1>5, <1>6, <1>7 DEF NewestIsShown
<1> QED BY <1>8, PartsHold, PTL

\* Two pieces of state stay in step whatever comes between: the selected pages
\* with the document, the fields' lock with the mode, a comb with its length, the
\* thumbnails drawn with the scroll position; the file's rows with its head
\* version (AdvanceFileHead), a waiting file with the work index (indexSet).
THEOREM PairsOfStateAgree == Sizes /\ ClientsSpec => []StateStaysInStep
<1> SUFFICES ASSUME Sizes PROVE ClientsSpec => []StateStaysInStep
  OBVIOUS
<1>1. part = "pdf document" /\ PartsInv => Viewers!SelectionIsOfPages
  BY DEF PartsInv, DocumentHolds, Viewers!DocInv
<1>2. part = "pdf tools" /\ PartsInv => Docs!DesignStaysInForms
  BY Docs!LockingIsInForms DEF PartsInv, ToolsHold, Docs!ToolsInv
<1>3. part = "pdf properties" /\ PartsInv => Docs!CombHasALength
  BY DEF PartsInv, PropertiesHold, Docs!PropsInv, Docs!Combed
<1>4. Viewers!EveryVisibleIsDrawn
  BY Viewers!Drawn DEF Sizes
<1>5. part = "version commit" /\ PartsInv => Services!RowsShowTheHead
  BY Services!RowsShow DEF PartsInv, CommitHolds
<1>6. part = "consolidation" /\ PartsInv => Services!WaitingIsListed
  BY Services!StillListed DEF PartsInv, CopiesHold
<1>7. part = "two sweeps" /\ PartsInv => Doubles!WaitingIsListed
  BY Doubles!StillListed DEF PartsInv, SweepsHold
<1>8. PartsInv => StateStaysInStep
  BY <1>1, <1>2, <1>3, <1>4, <1>5, <1>6, <1>7 DEF StateStaysInStep
<1> QED BY <1>8, PartsHold, PTL

\* A file shown as uploaded has every chunk in one upload session (uploader.ts),
\* and the session keeps each chunk it answered for, takes one reference for it
\* and makes one whole file (ReceiveChunk, FinaliseUpload).
THEOREM UploadedMeansStored == Sizes /\ ClientsSpec => []CompleteMeansStored
<1>1. part = "uploads" /\ PartsInv => Viewers!CompleteMeansStored
  BY Viewers!UploadsAreWhole DEF PartsInv, UploadsHold
<1>2. part = "upload session" /\ PartsInv =>
        Services!AckedIsRecorded /\ Services!FileIsWholeAndOnce /\ Services!ReferencesAreNamed
  BY Services!FilesAreWhole DEF PartsInv, ReceiveHolds, Services!SessionInv
<1>3. part = "other bytes" /\ PartsInv =>
        Doubles!AckedIsRecorded /\ Doubles!FileIsWholeAndOnce /\ Doubles!ReferencesAreNamed
  BY Doubles!FilesAreWhole DEF PartsInv, OtherHolds, Doubles!SessionInv
<1>4. PartsInv => CompleteMeansStored
  BY <1>1, <1>2, <1>3 DEF CompleteMeansStored
<1> QED BY <1>4, PartsHold, PTL

-----------------------------------------------------------------------------
(* What a step may never do.                                               *)

\* Content is redacted only by the answer to a question about the document on
\* screen, not by one that outlived its document, and a form field goes only
\* while fields are designed or by deleting a selection of several annotations.
THEOREM RedactsOnlyAsAsked == Sizes /\ ClientsSpec => NothingGoesUnasked
<1>1. ASSUME PartsInv, [ClientsNext]_<<part, slots, vars>>, part = "pdf tools"
      PROVE  Docs!NothingRedactedUnasked /\ Docs!FieldsGoOnlyInDesign
  <2>1. [Docs!ToolsNext]_Docs!toolVars
    <3>1. UNCHANGED slots => UNCHANGED Docs!toolVars
      BY DEF slots, Docs!toolVars
    <3> QED BY <1>1, <3>1, OnePart
  <2>2. Docs!Locking /\ Docs!Questions
    BY <1>1 DEF PartsInv, ToolsHold, Docs!ToolsInv
  <2> QED BY <2>1, <2>2, Docs!FieldsGoInDesign, Docs!RedactedAsAsked
<1>2. PartsInv /\ [ClientsNext]_<<part, slots, vars>>
      => [part = "pdf tools" => Docs!NothingRedactedUnasked /\ Docs!FieldsGoOnlyInDesign]_slots
  BY <1>1
<1> QED BY <1>2, PartsHold, PTL DEF ClientsSpec, NothingGoesUnasked

\* The properties panel writes only to the annotations it shows, also when a
\* value typed or a note left unfinished is applied later, and the properties
\* dialog never saves its fields before they are the document's (unless their
\* load failed).
THEOREM WritesOnlyWhatItShows == Sizes /\ ClientsSpec => WritesWhatItShows
<1>1. ASSUME PartsInv, [ClientsNext]_<<part, slots, vars>>, part = "pdf properties"
      PROVE  Docs!AppliesToWhatIsShown
  <2>1. [Docs!PropNext]_Docs!propVars
    <3>1. UNCHANGED slots => UNCHANGED Docs!propVars
      BY DEF slots, Docs!propVars
    <3> QED BY <1>1, <3>1, OnePart
  <2>2. Docs!PropsInv
    BY <1>1 DEF PartsInv, PropertiesHold
  <2> QED BY <2>1, <2>2, Docs!PanelAppliesToWhatItShows
<1>2. ASSUME PartsInv, [ClientsNext]_<<part, slots, vars>>, part = "pdf dialogs"
      PROVE  Docs!SavesWhatItLoaded
  <2>1. [Docs!DialogsNext]_Docs!dialogVars
    <3>1. UNCHANGED slots => UNCHANGED Docs!dialogVars
      BY DEF slots, Docs!dialogVars
    <3> QED BY <1>2, <3>1, OnePart
  <2>2. Docs!DialogsInv
    BY <1>2 DEF PartsInv, DialogsHold
  <2> QED BY <2>1, <2>2, Docs!SavesOnlyWhatItLoaded
<1>3. PartsInv /\ [ClientsNext]_<<part, slots, vars>>
      => [/\ part = "pdf properties" => Docs!AppliesToWhatIsShown
          /\ part = "pdf dialogs" => Docs!SavesWhatItLoaded]_slots
  BY <1>1, <1>2
<1> QED BY <1>3, PartsHold, PTL DEF ClientsSpec, WritesWhatItShows

\* A drop asks to move the item dragged, or the items selected when it is
\* dropped, never an item that is selected no more (handleDrop).
THEOREM DropsMoveTheSelectionNow == Sizes /\ ClientsSpec => MovesTheSelectionNow
<1>1. ASSUME PartsInv, [ClientsNext]_<<part, slots, vars>>, part = "file grid"
      PROVE  Web!MovesTheSelectionNow
  <2>1. [Web!GridNext]_Web!gridVars
    <3>1. UNCHANGED slots => UNCHANGED Web!gridVars
      BY DEF slots, Web!gridVars
    <3> QED BY <1>1, <3>1, OnePart
  <2> QED BY <2>1, Web!DropsMoveTheSelection
<1>2. PartsInv /\ [ClientsNext]_<<part, slots, vars>>
      => [part = "file grid" => Web!MovesTheSelectionNow]_slots
  BY <1>1
<1> QED BY <1>2, PartsHold, PTL DEF ClientsSpec, MovesTheSelectionNow

\* Closing the preview goes back only to the grid it was opened from: once the
\* user asked for the editor, the drawer's closing does not take that back.
THEOREM TheEditorIsNotLeft == Sizes /\ ClientsSpec => EditIsNotTakenBack
<1>1. ASSUME PartsInv, [ClientsNext]_<<part, slots, vars>>, part = "file preview"
      PROVE  Web!EditIsNotTakenBack
  <2>1. [Web!PreviewNext]_Web!previewVars
    <3>1. UNCHANGED slots => UNCHANGED Web!previewVars
      BY DEF slots, Web!previewVars
    <3> QED BY <1>1, <3>1, OnePart
  <2>2. Web!Headed
    BY <1>1 DEF PartsInv, PreviewHolds
  <2> QED BY <2>1, <2>2, Web!BackIsToTheGrid
<1>2. PartsInv /\ [ClientsNext]_<<part, slots, vars>>
      => [part = "file preview" => Web!EditIsNotTakenBack]_slots
  BY <1>1
<1> QED BY <1>2, PartsHold, PTL DEF ClientsSpec, EditIsNotTakenBack

\* Turning pages scrolls by exactly what moves the middle of the page being read
\* (rotateSelectedPages), the viewer scrolls for a found text only on the answer to
\* the newest search, and the sheet viewer only to a row that is then in view.
THEOREM ScreensHoldThePlace == Sizes /\ ClientsSpec => HoldsThePlace
<1> SUFFICES ASSUME Sizes PROVE ClientsSpec => HoldsThePlace
  OBVIOUS
<1>1. ASSUME PartsInv, [ClientsNext]_<<part, slots, vars>>, part = "pdf rotation"
      PROVE  Viewers!HoldsThePlace
  <2>1. [Viewers!TurnNext]_Viewers!turnVars
    <3>1. UNCHANGED slots => UNCHANGED Viewers!turnVars
      BY DEF slots, Viewers!turnVars
    <3> QED BY <1>1, <3>1, OnePart
  <2>2. Viewers!TurnInv
    BY <1>1 DEF PartsInv, TurnHolds
  <2> QED BY <2>1, <2>2, Viewers!PlaceHeld DEF Sizes
<1>2. ASSUME PartsInv, [ClientsNext]_<<part, slots, vars>>, part = "pdf text"
      PROVE  Viewers!ScrollsForTheNewest
  <2>1. [Viewers!TextNext]_Viewers!textVars
    <3>1. UNCHANGED slots => UNCHANGED Viewers!textVars
      BY DEF slots, Viewers!textVars, Viewers!searchVars, Viewers!selectVars
    <3> QED BY <1>2, <3>1, OnePart
  <2>2. Viewers!AskedInOrder
    BY <1>2 DEF PartsInv, SelectingHolds
  <2> QED BY <2>1, <2>2, Viewers!OnlyTheNewestScrolls
<1>3. ASSUME PartsInv, part = "xlsx viewer"
      PROVE  Web!ScrollsIntoView
  BY <1>3, Web!FrameScrollsIntoView DEF PartsInv, SheetHolds
<1>4. PartsInv /\ [ClientsNext]_<<part, slots, vars>>
      => [/\ part = "pdf rotation" => Viewers!HoldsThePlace
          /\ part = "pdf text" => Viewers!ScrollsForTheNewest
          /\ part = "xlsx viewer" => Web!ScrollsIntoView]_slots
  BY <1>1, <1>2, <1>3
<1> QED BY <1>4, PartsHold, PTL DEF ClientsSpec, HoldsThePlace
=============================================================================
