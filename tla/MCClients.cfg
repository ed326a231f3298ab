CONSTANTS
  Requests = {r1}
  MaxSid = 1
  MaxGen = 3
  MaxKills = 2
  None = None
  WebRequests = {1, 2}
  WebProcesses = {"w1", "w2"}
  WebMaxSid = 1
  WebMaxGen = 2
  WebMaxLost = 1
  DocMaxInputs = 2
  DocMaxDocs = 2
  DocMaxJobs = 1
  DocMaxEdits = 1
  DocPages = 2
  ToolsMaxDocuments = 2
  ToolsMaxUndo = 1
  PanelsMaxVersion = 3
  DialogsMaxOpenings = 3
  PdfVSrcs = {"", "a", "b"}
  PdfVMaxUploads = 1
  PdfVMaxOpens = 4
  ScanN = 3
  TurnN = 2
  TurnMaxTurns = 2
  TextQueries = {"a", "b"}
  TextMaxRequests = 2
  SheetMaxPicks = 1
  SheetMaxRequests = 3
  BookMaxPicks = 1
  CellsRows = 1
  CellsCols = 3
  DocxVMaxRuns = 2
  DocxVMaxPages = 2
  DocxMaxLoads = 3
  DocxPages = 2
  BarStyles = {"a", "b"}
  BarMaxChanges = 1
  EditBlocks = {1, 2}
  EditWorkers = 1
  EditMaxSaves = 1
  EditMaxVersion = 3
  UpFiles = {"a", "b"}
  UpChunks = 2
  UpMaxLoops = 2
  CommitsEditors = {1}
  CommitsRequests = {1, 2}
  CommitsContents = {1, 2}
  CommitsMaxVersion = 3
  CommitsMaxFaults = 1
  ReceiveCalls = {1, 2}
  ReceiveChunks = 2
  ReceiveBeyond = 0
  ReceiveHashes <- MCReceiveHashes
  ReceiveMaxRefs = 2
  ReceiveMaxFiles = 2
  ReceiveMaxDeaths = 1
  OtherCalls = {1, 2}
  OtherChunks = 1
  OtherBeyond = 1
  OtherHashes <- MCOtherHashes
  OtherMaxRefs = 1
  OtherMaxFiles = 2
  OtherMaxDeaths = 1
  CopiesWorkers = {1}
  CopiesTickets = {0}
  CopiesParked = {}
  CopiesLastVersion = 2
  CopiesMaxAttempts = 1
  CopiesMaxFailures = 1
  SweepsWorkers = {1, 2}
  SweepsTickets = {}
  SweepsParked = {1}
  SweepsLastVersion = 2
  SweepsMaxAttempts = 2
  SweepsMaxFailures = 0
  PreviewMaxTickets = 3
  GridFileItems = {"f", "g"}
  GridFolders = {"d"}
  GridMaxMutations = 2
  TrashListing <- MCTrashListing
  TrashDeletedFiles = {"f", "g"}
  TrashMaxBatches = 1
SPECIFICATION ClientsSpec
INVARIANTS
  KilledOnlyAfterLoss
  MemoryIsWhatLands
  OneFailureIsSurvived
  LossHasAReason
  NothingLeftBehind
  NewestIsShown
  DoesWhatWasAsked
  StateStaysInStep
  LandsWhereItBegan
  RangesAreSound
  NothingOverwritten
  CommitsWhatItSent
  
PROPERTIES
  NothingGoesUnasked
  WritesWhatItShows
  MovesTheSelectionNow
  EditIsNotTakenBack
  HoldsThePlace
CHECK_DEADLOCK FALSE
CONSTRAINT UndoesInTheFirst
VIEW Seen
