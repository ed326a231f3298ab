--------------------------- MODULE Consolidation ---------------------------
(* Consolidated copies of one file (stitch_repo.go, stitcher_worker.go,    *)
(* s3.go), and the content server that serves them (server.go). A sweep    *)
(* finds the file in a work index by state, claims its registry row, reads *)
(* the manifest and copies the blocks into one object, whose key is the    *)
(* file's and not the version's. A commit rewrites the manifest and then   *)
(* drops the object, the row and the index, and enqueues the file again;   *)
(* a purge drops them for good. One commit or purge is under way at a      *)
(* time. Ages are left out: any claim may be old enough, so two workers    *)
(* may hold one. The server is the one that shares a process with the      *)
(* commits, whose cache they invalidate.                                   *)
EXTENDS Naturals

CONSTANTS Workers,
          Parked,       \* versions whose layout cannot be consolidated
          Tickets,      \* versions tickets name, 0: a ticket that names none
          LastVersion,   \* bound: versions of the file
          MaxAttempts,  \* StitcherConfig
          MaxFailures     \* bound: steps that fail, workers and jobs that die

VARIABLES live,       \* "yes", "trashed", "gone"
          version, fileManifest,   \* newest version; the version file_manifest holds, 0: none
          stitchRow, index, object,  \* registry row, work index, version of the object's bytes, 0: none
          worker, job, failures,
          cache, reader,       \* the content server
          raced,      \* history: a sweep was at work during a commit or a purge
          overlapped,    \* history: a read was under way during a commit or a purge
          lost,       \* history: a step of a commit failed
          shared,     \* history: two workers were at work at once
          torn        \* history: a worker died between two statements of indexSet

stitched == <<stitchRow, index, object>>
served == <<cache, reader>>
copyHistory == <<raced, overlapped, lost, shared, torn>>
consolidationVars ==
  <<live, version, fileManifest, stitched, worker, job, failures, served, copyHistory>>

CopyVersions == 1..LastVersion
Listed == {"pending", "stitching", "failed"}
NoStitch == [state |-> "none", attempts |-> 0]
Resting == [pc |-> "idle", seen |-> "none", read |-> 0]
NoJob == [pc |-> "none", purge |-> FALSE]
NoEntry == [version |-> 0, key |-> FALSE]
NoRead == [pc |-> "idle", ticket |-> 0, version |-> 0, key |-> FALSE, bytes |-> 0]

(* A new file is not enqueued; the backfill command enqueues the files it  *)
(* finds, and a commit the file it changes.                                *)
ConsolidationInit ==
  /\ live = "yes" /\ version = 1 /\ fileManifest = 1 /\ object = 0
  /\ \/ stitchRow = NoStitch /\ index = {}
     \/ stitchRow = [state |-> "pending", attempts |-> 0] /\ index = {"pending"}
  /\ worker = [w \in Workers |-> Resting] /\ job = NoJob /\ failures = 0
  /\ cache = NoEntry /\ reader = NoRead
  /\ raced = FALSE /\ overlapped = FALSE /\ lost = FALSE /\ shared = FALSE /\ torn = FALSE

Busy(w) == worker[w].pc # "idle"
RestWorker(w) == worker' = [worker EXCEPT ![w] = Resting]
WorkerAt(w, step) == worker[w].pc = step
MoveWorker(w, step) == worker' = [worker EXCEPT ![w].pc = step]
Saw(w, step) == worker' = [worker EXCEPT ![w].pc = step, ![w].seen = stitchRow.state]
Outside == <<live, version, fileManifest, job, served, overlapped, lost>>

(* Attempts are compared with MaxAttempts and need no higher numbers.      *)
OneMore(n) == IF n < MaxAttempts THEN n + 1 ELSE n

(* indexSet, in its two statements.                                        *)
Cleared(from, to) == IF from # to THEN index \ {from} ELSE index
Published(from, to) == IF from # to /\ to \in Listed THEN index \cup {to} ELSE index

(* ---- the sweep --------------------------------------------------------------- *)

(* ListPending, and the give-up of a row that failed too often.            *)
ListPending(w) ==
  /\ ~Busy(w) /\ index # {}
  /\ \/ stitchRow.state = "none" /\ \E s \in index :
          worker' = [worker EXCEPT ![w].pc = "reap", ![w].seen = s]
     \/ /\ stitchRow.state \notin {"none", "ready"}
        /\ ~(stitchRow.state = "failed" /\ stitchRow.attempts >= MaxAttempts)
        /\ MoveWorker(w, "claim")
  /\ raced' = (raced \/ job.pc # "none")
  /\ shared' = (shared \/ \E v \in Workers : Busy(v))
  /\ UNCHANGED <<stitched, failures, torn, Outside>>

ReapIndex(w) ==
  /\ WorkerAt(w, "reap") /\ index' = index \ {worker[w].seen} /\ RestWorker(w)
  /\ UNCHANGED <<stitchRow, object, failures, raced, shared, torn, Outside>>

(* ClaimForStitch.                                                         *)
ReadClaim(w) ==
  /\ WorkerAt(w, "claim")
  /\ \/ stitchRow.state = "none" /\ MoveWorker(w, "index first")
     \/ stitchRow.state \in {"ready", "skipped"} /\ RestWorker(w)
     \/ stitchRow.state \in Listed /\ Saw(w, "update")
  /\ UNCHANGED <<stitched, failures, raced, shared, torn, Outside>>

IndexClaim(w) ==
  /\ WorkerAt(w, "index first") /\ index' = index \cup {"stitching"} /\ MoveWorker(w, "insert")
  /\ UNCHANGED <<stitchRow, object, failures, raced, shared, torn, Outside>>

InsertClaim(w) ==
  /\ WorkerAt(w, "insert") /\ stitchRow' = [state |-> "stitching", attempts |-> 1] /\ MoveWorker(w, "manifest")
  /\ UNCHANGED <<index, object, failures, raced, shared, torn, Outside>>

(* updateClaim writes the row whether it is still there or not.            *)
UpdateClaim(w) ==
  /\ WorkerAt(w, "update") /\ MoveWorker(w, "unindex")
  /\ stitchRow' = [state |-> "stitching", attempts |-> OneMore(stitchRow.attempts)]
  /\ UNCHANGED <<index, object, failures, raced, shared, torn, Outside>>

MoveIndex(w, from, step, to, then) ==
  \/ /\ WorkerAt(w, from) /\ index' = Cleared(worker[w].seen, to) /\ MoveWorker(w, step)
  \/ /\ WorkerAt(w, step) /\ index' = Published(worker[w].seen, to) /\ then

IndexStitching(w) ==
  /\ MoveIndex(w, "unindex", "reindex", "stitching", MoveWorker(w, "manifest"))
  /\ UNCHANGED <<stitchRow, object, failures, raced, shared, torn, Outside>>

(* The manifest, then whether its layout can be assembled.                 *)
ReadManifest(w) ==
  /\ WorkerAt(w, "manifest")
  /\ worker' = [worker EXCEPT ![w].read = fileManifest,
       ![w].pc = IF fileManifest = 0 THEN "failed?" ELSE
                 IF fileManifest \in Parked THEN "skipped?" ELSE "copy"]
  /\ UNCHANGED <<stitched, failures, raced, shared, torn, Outside>>

(* Stitch: the object is there when the multipart upload completes; the    *)
(* look at it afterwards may still fail.                                   *)
Stitch(w) ==
  /\ WorkerAt(w, "copy")
  /\ \/ object' = worker[w].read /\ MoveWorker(w, "ready?") /\ UNCHANGED failures
     \/ /\ failures < MaxFailures /\ failures' = failures + 1
        /\ object' \in {object, worker[w].read} /\ MoveWorker(w, "failed?")
  /\ UNCHANGED <<stitchRow, index, raced, shared, torn, Outside>>

(* MarkReady, MarkFailed, MarkSkipped: the state for the index, the row,   *)
(* the index. Only MarkFailed writes a row that has gone.                  *)
StateOf(w) ==
  /\ \/ WorkerAt(w, "ready?") /\ IF stitchRow.state = "none" THEN RestWorker(w) ELSE Saw(w, "ready")
     \/ WorkerAt(w, "failed?") /\ IF stitchRow.state = "none" THEN RestWorker(w) ELSE Saw(w, "failed")
     \/ WorkerAt(w, "skipped?") /\ IF stitchRow.state \in {"none", "ready"} THEN RestWorker(w)
                                                               ELSE Saw(w, "skipped")
  /\ UNCHANGED <<stitched, failures, raced, shared, torn, Outside>>

MarkReady(w) ==
  /\ WorkerAt(w, "ready")
  /\ \/ stitchRow.state = "none" /\ RestWorker(w) /\ UNCHANGED stitchRow
     \/ stitchRow.state # "none" /\ stitchRow' = [state |-> "ready", attempts |-> OneMore(stitchRow.attempts)]
                           /\ MoveWorker(w, "drop")
  /\ UNCHANGED <<index, object, failures, raced, shared, torn, Outside>>

MarkSkipped(w) ==
  /\ WorkerAt(w, "skipped")
  /\ \/ stitchRow.state = "none" /\ RestWorker(w) /\ UNCHANGED stitchRow
     \/ stitchRow.state # "none" /\ stitchRow' = [stitchRow EXCEPT !.state = "skipped"] /\ MoveWorker(w, "drop")
  /\ UNCHANGED <<index, object, failures, raced, shared, torn, Outside>>

DropIndex(w) ==
  /\ WorkerAt(w, "drop") /\ index' = index \ {worker[w].seen} /\ RestWorker(w)
  /\ UNCHANGED <<stitchRow, object, failures, raced, shared, torn, Outside>>

MarkFailed(w) ==
  /\ WorkerAt(w, "failed") /\ stitchRow' = [stitchRow EXCEPT !.state = "failed"] /\ MoveWorker(w, "retire")
  /\ UNCHANGED <<index, object, failures, raced, shared, torn, Outside>>

IndexFailed(w) ==
  /\ MoveIndex(w, "retire", "relist", "failed", RestWorker(w))
  /\ UNCHANGED <<stitchRow, object, failures, raced, shared, torn, Outside>>

WorkerDies(w) ==
  /\ Busy(w) /\ failures < MaxFailures /\ failures' = failures + 1 /\ RestWorker(w)
  /\ torn' = (torn \/ worker[w].pc \in {"reindex", "relist"})
  /\ UNCHANGED <<stitched, raced, shared, Outside>>

SweepOnce(w) ==
  \/ ListPending(w) \/ ReapIndex(w)
  \/ ReadClaim(w) \/ IndexClaim(w) \/ InsertClaim(w) \/ UpdateClaim(w) \/ IndexStitching(w)
  \/ ReadManifest(w) \/ Stitch(w)
  \/ StateOf(w) \/ MarkReady(w) \/ MarkSkipped(w) \/ DropIndex(w)
  \/ MarkFailed(w) \/ IndexFailed(w)

(* ---- commits and purges -------------------------------------------------------- *)

Begin(step, purge) ==
  /\ job.pc = "none" /\ job' = [pc |-> step, purge |-> purge]
  /\ raced' = (raced \/ \E w \in Workers : Busy(w))
  /\ overlapped' = (overlapped \/ reader.pc # "idle")

Job(step, next) ==
  /\ job.pc = step
  /\ job' = IF next = "none" THEN NoJob ELSE [job EXCEPT !.pc = next]
  /\ UNCHANGED <<live, version, worker, failures, copyHistory, reader>>

Commit ==
  /\ live = "yes" /\ version < LastVersion /\ version' = version + 1 /\ Begin("clear", FALSE)
  /\ UNCHANGED <<live, fileManifest, stitched, worker, failures, served, lost, shared, torn>>

Purge ==
  /\ live # "gone" /\ live' = "trashed" /\ Begin("object", TRUE)
  /\ UNCHANGED <<version, fileManifest, stitched, worker, failures, served, lost, shared, torn>>

(* ApplyHeadContent's manifest, InvalidateManifest, invalidateConsolidated *)
(* with StitchRepo.Delete and Enqueue; the purge deletes the manifest      *)
(* between the object and the row.                                         *)
ClearManifest ==
  /\ Job("clear", IF job.purge THEN "row" ELSE "write")
  /\ fileManifest' = 0 /\ UNCHANGED <<stitched, cache>>

RewriteManifest ==
  Job("write", "uncache") /\ fileManifest' = version /\ UNCHANGED <<stitched, cache>>

InvalidateManifest ==
  Job("uncache", "object") /\ cache' = NoEntry /\ UNCHANGED <<fileManifest, stitched>>

DeleteConsolidated ==
  /\ Job("object", IF job.purge THEN "clear" ELSE "row")
  /\ object' = 0 /\ UNCHANGED <<stitchRow, index, fileManifest, cache>>

DeleteRow ==
  Job("row", "unlist") /\ stitchRow' = NoStitch /\ UNCHANGED <<index, object, fileManifest, cache>>

ClearIndex ==
  /\ job.pc = "unlist" /\ index' = {}
  /\ IF job.purge THEN job' = NoJob /\ live' = "gone"
     ELSE job' = [job EXCEPT !.pc = "enqueue"] /\ UNCHANGED live
  /\ UNCHANGED <<stitchRow, object, version, fileManifest, worker, failures, served, copyHistory>>

EnqueueRead ==
  /\ Job("enqueue", IF stitchRow.state = "none" THEN "list" ELSE "none")
  /\ index' = IF stitchRow.state \in Listed THEN index \cup {stitchRow.state} ELSE index
  /\ UNCHANGED <<stitchRow, object, fileManifest, cache>>

EnqueueIndex ==
  /\ Job("list", "insert") /\ index' = index \cup {"pending"}
  /\ UNCHANGED <<stitchRow, object, fileManifest, cache>>

EnqueueInsert ==
  /\ Job("insert", "none")
  /\ stitchRow' = IF stitchRow.state = "none" THEN [state |-> "pending", attempts |-> 0] ELSE stitchRow
  /\ UNCHANGED <<index, object, fileManifest, cache>>

(* The job dies; or the statement fails and the commit, which only logs    *)
(* it, goes on. A purge is done again.                                     *)
JobFails ==
  /\ job.pc # "none" /\ failures < MaxFailures /\ failures' = failures + 1
  /\ lost' = (lost \/ ~job.purge)
  /\ \/ job' = NoJob
     \/ ~job.purge /\ job' =
          [job EXCEPT !.pc = IF job.pc \in {"clear", "write"} THEN "uncache" ELSE
                             IF job.pc = "object" THEN "row" ELSE "enqueue"]
        /\ job.pc \notin {"uncache", "enqueue", "list", "insert"}
  /\ UNCHANGED <<live, version, fileManifest, stitched, worker, served, raced, overlapped, shared, torn>>

JobStep ==
  \/ ClearManifest \/ RewriteManifest \/ InvalidateManifest
  \/ DeleteConsolidated \/ DeleteRow \/ ClearIndex
  \/ EnqueueRead \/ EnqueueIndex \/ EnqueueInsert

(* ---- the content server ----------------------------------------------------------- *)

Store == <<live, version, fileManifest, stitched, worker, job, failures, raced, lost, shared, torn>>

(* A ticket of an edit session names a version, 0 stands for one that does *)
(* not; a cached manifest is used unless the ticket names another version. *)
HandleContent(t) ==
  /\ reader.pc = "idle"
  /\ \/ /\ cache.version # 0 /\ t \in {0, cache.version}
        /\ reader' = [NoRead EXCEPT !.pc = "stream", !.ticket = t,
                                    !.version = cache.version, !.key = cache.key]
     \/ /\ cache.version = 0 \/ t \notin {0, cache.version}
        /\ reader' = [NoRead EXCEPT !.pc = "manifest", !.ticket = t]
  /\ overlapped' = (overlapped \/ job.pc # "none")
  /\ UNCHANGED <<cache, Store>>

GetFileManifest ==
  /\ reader.pc = "manifest"
  /\ reader' = IF fileManifest = 0 THEN NoRead
               ELSE [reader EXCEPT !.pc = "key", !.version = fileManifest]
  /\ UNCHANGED <<cache, overlapped, Store>>

GetStitchedObjectKey ==
  /\ reader.pc = "key"
  /\ reader' = [reader EXCEPT !.pc = "cache", !.key = stitchRow.state = "ready"]
  /\ UNCHANGED <<cache, overlapped, Store>>

(* 409 for a ticket of another version.                                    *)
CacheManifest ==
  /\ reader.pc = "cache"
  /\ cache' = [version |-> reader.version, key |-> reader.key]
  /\ reader' = IF reader.ticket \in {0, reader.version}
               THEN [reader EXCEPT !.pc = "stream"] ELSE NoRead
  /\ UNCHANGED <<overlapped, Store>>

(* The object, or the blocks the manifest names; or an error.              *)
Stream ==
  /\ reader.pc = "stream"
  /\ reader' = [reader EXCEPT !.pc = "sent", !.bytes = IF reader.key THEN object
                                                                     ELSE reader.version]
  /\ UNCHANGED <<cache, overlapped, Store>>

Sent == reader.pc = "sent" /\ reader' = NoRead /\ UNCHANGED <<cache, overlapped, Store>>

CacheExpires ==
  /\ cache # NoEntry /\ cache' = NoEntry /\ UNCHANGED <<reader, overlapped, Store>>

Serve ==
  \/ \E t \in Tickets : HandleContent(t)
  \/ GetFileManifest \/ GetStitchedObjectKey \/ CacheManifest \/ Stream \/ Sent
  \/ CacheExpires

ConsolidationNext ==
  \/ \E w \in Workers : SweepOnce(w) \/ WorkerDies(w)
  \/ Commit \/ Purge \/ JobStep \/ JobFails
  \/ Serve

ConsolidationSpec == ConsolidationInit /\ [][ConsolidationNext]_consolidationVars

-----------------------------------------------------------------------------
Quiet == job.pc = "none" /\ \A w \in Workers : ~Busy(w)

(* A row that says ready has an object of the newest version, unless a     *)
(* step of a commit failed or a sweep was at work during one (MarkReady,   *)
(* invalidateConsolidated).                                                *)
ReadyIsCurrent ==
  live = "yes" /\ job.pc = "none" /\ ~lost /\ ~raced /\ stitchRow.state = "ready" =>
    object = version

(* A file that waits for its copy is in the work index, under its state or *)
(* an earlier one, unless a worker died between two statements of          *)
(* indexSet, something failed in a run where two workers had been at work  *)
(* at once, or a sweep was at work during a commit (ListPending,           *)
(* ClaimForStitch, Enqueue).                                               *)
WaitingIsListed ==
  Quiet /\ ~raced /\ ~torn /\ (shared => failures = 0) /\ stitchRow.state \in Listed =>
    index # {}

(* A purge leaves neither row nor index nor object, unless a sweep was at  *)
(* work during it (RemoveFileProjections, DeleteConsolidated).             *)
PurgeLeavesNothing ==
  live = "gone" /\ ~raced => stitchRow = NoStitch /\ index = {} /\ object = 0

(* Bytes are sent under the tag of their own version, and under a ticket   *)
(* only of the version it names; the bytes may be others if a step of a    *)
(* commit failed or a sweep or the read was at work during one             *)
(* (handleContent, loadManifestCached).                                    *)
BytesMatchTheirTag ==
  reader.pc = "sent" =>
    /\ reader.ticket \in {0, reader.version}
    /\ ~lost /\ ~raced /\ ~overlapped => reader.bytes \in {0, reader.version}

(* A read that no commit or purge overlapped, then or before, is not sent  *)
(* an earlier version: editing.go:764-767 says of a stale copy that        *)
(* "deleting it is what makes that impossible".                            *)
NeverServedStale ==
  reader.pc = "sent" /\ ~overlapped /\ failures = 0 => reader.bytes \in {0, version}
=============================================================================
