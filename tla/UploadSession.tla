--------------------------- MODULE UploadSession ---------------------------
(* The server's side of one upload (upload_service.go, session_repo.go):   *)
(* ReceiveChunk reads the session, takes a reference to the chunk's block, *)
(* writes the whole chunk map back with its own index added, marks the     *)
(* session as begun, and finalises it when the map is full; AbortUpload    *)
(* only writes the status. A chunk may be sent again while an earlier call *)
(* about it still runs. The block itself is BlockStore's business; Redis,  *)
(* which only speeds up a status answer, and the event about the stored    *)
(* file are left out.                                                      *)
EXTENDS Naturals, Sequences, FiniteSets

CONSTANTS Calls,       \* handlers of ReceiveChunk
          Chunks,      \* number of chunks of the file
          Beyond,      \* bound: chunks past the end that are sent all the same
          Hashes,      \* for each chunk, the block hashes it may be sent with
          MaxRefs,     \* bound: references taken for one chunk
          MaxFiles,    \* bound: files made of the session
          MaxDeaths    \* bound: calls that die

VARIABLES status, map,  \* upload_sessions; the map holds 0 for an absent chunk
          files,        \* the block lists CreateFile was called with
          call, deaths,
          refs,         \* history: references taken for a chunk
          acked,        \* history: chunks and contents a call answered for
          ended,        \* history: files when the upload was aborted, plus 1; 0: never
          overlap,      \* history: two calls recorded a chunk at the same time
          doubled,      \* history: two calls took a reference for one chunk
          company,      \* history: a file was made while another call was under way
          late          \* history: a call was under way when the upload was aborted

sessionHistory == <<refs, acked, ended, overlap, doubled, company, late>>
sessionVars == <<status, map, files, call, deaths, sessionHistory>>

(* An offset is only checked to be a multiple of the chunk size.           *)
Expected == 1..Chunks
Index == 1..(Chunks + Beyond)
Empty == [c \in Index |-> 0]
IdleCall == [pc |-> "idle", chunk |-> 1, hash |-> 0, status |-> "none", map |-> Empty]

(* InitUpload: an empty session.                                           *)
SessionInit ==
  /\ status = "pending" /\ map = Empty /\ files = << >>
  /\ call = [k \in Calls |-> IdleCall] /\ deaths = 0
  /\ refs = Empty /\ acked = {} /\ ended = 0
  /\ overlap = FALSE /\ doubled = FALSE /\ company = FALSE /\ late = FALSE

CallAt(k, step) == call[k].pc = step
MoveCall(k, step) == call' = [call EXCEPT ![k].pc = step]
Running(k) == call[k].pc \notin {"idle", "get"}
Others(k) == Calls \ {k}
Taking(k, c) == call[k].chunk = c /\ call[k].pc \in {"block", "map", "record"}

SendChunk(k, c, h) ==
  /\ CallAt(k, "idle")
  /\ call' = [call EXCEPT ![k] = [IdleCall EXCEPT !.pc = "get", !.chunk = c, !.hash = h]]
  /\ UNCHANGED <<status, map, files, deaths, sessionHistory>>

(* The checks of ReceiveChunk: an ended session or a chunk known with      *)
(* another hash is refused; one known already takes no reference.          *)
GetSession(k) ==
  LET known == map[call[k].chunk] IN
  /\ CallAt(k, "get")
  /\ \/ /\ (status \notin {"pending", "in_progress"} \/ known \notin {0, call[k].hash})
        /\ call' = [call EXCEPT ![k] = IdleCall] /\ UNCHANGED <<doubled, company>>
     \/ /\ status \in {"pending", "in_progress"} /\ known \in {0, call[k].hash}
        /\ call' = [call EXCEPT ![k].pc = IF known = 0 THEN "block" ELSE "begin",
                                ![k].status = status]
        /\ company' = (company \/ \E q \in Others(k) : CallAt(q, "complete"))
        /\ doubled' = (doubled \/ \E q \in Others(k) : known = 0 /\ Taking(q, call[k].chunk))
  /\ UNCHANGED <<status, map, files, deaths, refs, acked, ended, overlap, late>>

(* IncrementRefCount or InsertBlock.                                       *)
TakeReference(k) ==
  /\ CallAt(k, "block") /\ refs[call[k].chunk] < MaxRefs
  /\ refs' = [refs EXCEPT ![call[k].chunk] = @ + 1] /\ MoveCall(k, "map")
  /\ UNCHANGED <<status, map, files, deaths, acked, ended, overlap, doubled, company, late>>

(* RecordBlockForChunk: read, add, write the whole map.                    *)
ReadChunkMap(k) ==
  /\ CallAt(k, "map")
  /\ call' = [call EXCEPT ![k].pc = "record", ![k].map = map]
  /\ overlap' = (overlap \/ \E q \in Others(k) : CallAt(q, "record"))
  /\ UNCHANGED <<status, map, files, deaths, refs, acked, ended, doubled, company, late>>

RecordBlockForChunk(k) ==
  /\ CallAt(k, "record")
  /\ map' = [call[k].map EXCEPT ![call[k].chunk] = call[k].hash]
  /\ call' = [call EXCEPT ![k].pc = "begin", ![k].map = Empty]
  /\ UNCHANGED <<status, files, deaths, sessionHistory>>

(* The session read at the start decides; a failure of the write is not    *)
(* looked at.                                                              *)
BeginUpload(k) ==
  /\ CallAt(k, "begin")
  /\ call' = [call EXCEPT ![k].pc = "count", ![k].status = "none"]
  /\ status' \in {status, IF call[k].status = "pending" THEN "in_progress" ELSE status}
  /\ UNCHANGED <<map, files, deaths, sessionHistory>>

(* The chunks of the map are counted, whichever they are.                  *)
Counted(m) == Cardinality({c \in Index : m[c] # 0}) = Chunks

Died == deaths # 0
AnswerCall(k) ==
  /\ call' = [call EXCEPT ![k] = IdleCall]
  /\ acked' = acked \cup {<<call[k].chunk, call[k].hash>>}

CountChunks(k) ==
  /\ CallAt(k, "count")
  /\ \/ Counted(map) /\ MoveCall(k, "load") /\ UNCHANGED acked
     \/ ~Counted(map) /\ AnswerCall(k)
  /\ UNCHANGED <<status, map, files, deaths, refs, ended, overlap, doubled, company, late>>

(* finalizeUpload: the session once more, CreateFile, the status.          *)
LoadSession(k) ==
  /\ CallAt(k, "load")
  /\ call' = [call EXCEPT ![k].pc = "create", ![k].map = map]
  /\ UNCHANGED <<status, map, files, deaths, sessionHistory>>

(* The recorded blocks in the order of their chunks; a missing chunk and   *)
(* one past the end are passed over.                                       *)
Nth(S, i) == CHOOSE c \in S : Cardinality({d \in S : d <= c}) = i
OrderedBlockHashes(m) ==
  LET there == {c \in Expected : m[c] # 0}
  IN  [i \in 1..Cardinality(there) |-> m[Nth(there, i)]]

CreateMetadataRecord(k) ==
  /\ CallAt(k, "create") /\ Len(files) < MaxFiles
  /\ files' = Append(files, OrderedBlockHashes(call[k].map))
  /\ call' = [call EXCEPT ![k].pc = "complete", ![k].map = Empty]
  /\ company' = (company \/ \E q \in Others(k) : Running(q))
  /\ UNCHANGED <<status, map, deaths, refs, acked, ended, overlap, doubled, late>>

CompleteSession(k) ==
  /\ CallAt(k, "complete") /\ status' = "completed" /\ AnswerCall(k)
  /\ UNCHANGED <<map, files, deaths, refs, ended, overlap, doubled, company, late>>

ReceiveChunk(k) ==
  \/ GetSession(k) \/ TakeReference(k) \/ ReadChunkMap(k) \/ RecordBlockForChunk(k)
  \/ BeginUpload(k) \/ CountChunks(k) \/ LoadSession(k) \/ CreateMetadataRecord(k)
  \/ CompleteSession(k)

(* A call dies, or a statement of it fails.                                *)
FailCall(k) ==
  /\ Running(k) /\ deaths < MaxDeaths /\ deaths' = deaths + 1
  /\ call' = [call EXCEPT ![k] = IdleCall]
  /\ UNCHANGED <<status, map, files, refs, acked, ended, overlap, doubled, company, late>>

AbortUpload ==
  /\ ended = 0
  /\ status' = "aborted" /\ ended' = Len(files) + 1
  /\ late' = \E k \in Calls : Running(k)
  /\ UNCHANGED <<map, files, call, deaths, refs, acked, overlap, doubled, company>>

SessionNext ==
  \/ \E k \in Calls : \/ \E c \in Index : \E h \in Hashes[c] : SendChunk(k, c, h)
                      \/ ReceiveChunk(k) \/ FailCall(k)
  \/ AbortUpload

SessionSpec == SessionInit /\ [][SessionNext]_sessionVars

-----------------------------------------------------------------------------
(* A chunk that was answered for stays in the chunk map with the block it  *)
(* was answered with, unless two calls recorded chunks at the same time or *)
(* were about one chunk (RecordBlockForChunk).                             *)
AckedIsRecorded ==
  ~overlap /\ ~doubled => \A a \in acked : map[a[1]] = a[2]

Whole(m) == [c \in Expected |-> m[c]]
Strayed == \E c \in Index \ Expected : map[c] # 0

(* One file, of all the chunks in their order, is made of a session; and   *)
(* none after an abort. The exceptions: chunks recorded at the same time   *)
(* tear the list, a chunk past the end stands in for one that is missing,  *)
(* another call under way or one that died makes a second file, a call     *)
(* under way at the abort makes one after it (finalizeUpload, AbortUpload).*)
FileIsWholeAndOnce ==
  /\ ~overlap /\ ~doubled /\ ~Strayed => \A i \in 1..Len(files) : files[i] = Whole(map)
  /\ ~company /\ ~Died => Len(files) <= 1
  /\ ended # 0 /\ ~late => Len(files) = ended - 1

(* One reference was taken for every chunk the map names, and none for the *)
(* others, unless calls overlapped or died (ReceiveChunk).                 *)
ReferencesAreNamed ==
  ~overlap /\ ~doubled /\ ~Died =>
    \A c \in Index :
      refs[c] = IF map[c] # 0 \/ \E k \in Calls : Taking(k, c) /\ ~CallAt(k, "block")
                THEN 1 ELSE 0
=============================================================================
