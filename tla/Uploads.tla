------------------------------- MODULE Uploads ------------------------------
(* Uploads of the web client: the Uppy hook (use-uppy-file-upload), its    *)
(* uploader (lib/uppy-connectrpc-uploader), and the two components over    *)
(* it, UploadDrawer and FileUploader.  A loop sends one file's chunks in   *)
(* order into an upload session of its own; Uppy's upload() starts a loop  *)
(* per file it hands over and rejects with the first that fails, while the *)
(* others go on.                                                           *)
(* Uppy (external) holds the list, and hands over files that are neither   *)
(* complete nor part of a batch it still counts as running; the upload     *)
(* service (external) gives every InitUpload a fresh session.              *)
EXTENDS Naturals, FiniteSets

CONSTANTS Files,     \* files the user may pick
          Chunks,    \* chunks of a file
          MaxLoops   \* bound: loops started

VARIABLES listed,     \* files in Uppy's list
          complete,   \* for a listed file: the loop that completed it, 0: none
          errored,    \* listed files with an error
          loops,      \* the loops, by number
          batch,      \* loops upload() waits for
          isUploading,
          drawer      \* open, minimized, tab

uploadVars == <<listed, complete, errored, loops, batch, isUploading, drawer>>

LoopIds == 1..MaxLoops
NoFile == CHOOSE f \in Files : TRUE
NoLoop == [file |-> NoFile, phase |-> "none", at |-> 1, stored |-> {}, acked |-> 0]

UploadsInit ==
  /\ listed = {} /\ complete = [f \in Files |-> 0] /\ errored = {}
  /\ loops = [n \in LoopIds |-> NoLoop] /\ batch = {}
  /\ isUploading = FALSE /\ drawer = [open |-> FALSE, minimized |-> FALSE, tab |-> "all"]

Free == {n \in LoopIds : loops[n].phase = "none"}
InBatch == {loops[n].file : n \in batch}

(* "Uploading N items": the drawer's headline and, when it is over, its    *)
(* banner, whatever became of the files.                                   *)
InProgress == isUploading \/ \E f \in listed : complete[f] = 0 /\ f \notin errored
Banner == listed # {} /\ ~InProgress

(* uploadFiles: nothing while an upload runs, an error without files.  The *)
(* drawer shows itself when an upload starts.                              *)
UploadFiles(list) ==
  IF isUploading \/ list = {}
  THEN UNCHANGED <<loops, batch, isUploading, drawer>>
  ELSE \E again \in SUBSET errored :
         LET over == {f \in list : complete[f] = 0 /\ f \notin errored \ again} \ InBatch
         IN  \E start \in [over -> Free] :
               /\ \A f, g \in over : start[f] = start[g] => f = g
               /\ batch' = {start[f] : f \in over}
               /\ loops' = [n \in LoopIds |->
                    IF n \in batch'
                    THEN [NoLoop EXCEPT !.phase = "init",
                                      !.file = CHOOSE f \in over : start[f] = n]
                    ELSE loops[n]]
               /\ isUploading' = TRUE
               /\ drawer' = [open |-> TRUE, minimized |-> FALSE, tab |-> "all"]

(* addFiles, by the picker or a drop; the drawer's picker starts at once.  *)
AddFiles ==
  /\ \E more \in SUBSET Files \ {{}} :
       /\ listed' = listed \cup more
       /\ \/ UploadFiles(listed')
          \/ UNCHANGED <<loops, batch, isUploading, drawer>>
  /\ UNCHANGED <<complete, errored>>

(* FileUploader's button.                                                  *)
UploadButton ==
  /\ ~isUploading /\ UploadFiles(listed)
  /\ UNCHANGED <<listed, complete, errored>>

(* removeFile and clearAll take the entries away; the loops go on.         *)
Forget(gone) ==
  /\ listed' = listed \ gone /\ errored' = errored \ gone
  /\ complete' = [f \in Files |-> IF f \in gone THEN 0 ELSE complete[f]]
  /\ UNCHANGED <<loops, batch, isUploading, drawer>>

RemoveFile == \E f \in listed : Forget({f})

ClearAll == listed # {} /\ Forget(listed)

SetDrawer ==
  /\ drawer.open
  /\ \/ drawer' = [drawer EXCEPT !.open = FALSE]
     \/ drawer' = [drawer EXCEPT !.minimized = ~@]
     \/ ~drawer.minimized /\ \E t \in {"all", "completed", "failed"} :
          drawer' = [drawer EXCEPT !.tab = t]
  /\ UNCHANGED <<listed, complete, errored, loops, batch, isUploading>>

(* ---- one loop -------------------------------------------------------------------- *)

(* uploadFile: no loop for a file that left the list before it began.      *)
InitUpload(n) ==
  /\ loops[n].phase = "init"
  /\ loops' = [loops EXCEPT ![n].phase = IF loops[n].file \in listed THEN "sending" ELSE "done"]
  /\ UNCHANGED <<listed, complete, errored, batch, isUploading, drawer>>

(* The service stores the chunk and answers how far the file reaches with  *)
(* it; the answer may be lost.                                             *)
UploadChunk(n) ==
  /\ loops[n].phase = "sending" /\ loops[n].at <= Chunks
  /\ loops' = [loops EXCEPT ![n].stored = @ \cup {loops[n].at},
                            ![n].acked = loops[n].at, ![n].at = @ + 1]
  /\ UNCHANGED <<listed, complete, errored, batch, isUploading, drawer>>

(* The catch block: setFileState throws for a file no longer listed, which *)
(* ends the loop all the same.  The first failure ends upload() for the    *)
(* hook while the batch's other loops go on.                               *)
Fails(n) ==
  /\ loops' = [loops EXCEPT ![n].phase = "failed"]
  /\ errored' = errored \cup ({loops[n].file} \cap listed)
  /\ IF n \in batch THEN batch' = {} /\ isUploading' = FALSE
     ELSE UNCHANGED <<batch, isUploading>>

SkipFailedChunk(n) ==
  /\ loops[n].phase = "sending" /\ loops[n].at <= Chunks
  /\ loops' = [loops EXCEPT ![n].at = @ + 1]
  /\ UNCHANGED <<listed, complete, errored, batch, isUploading, drawer>>

UploadFails(n) ==
  /\ loops[n].phase \in {"init", "sending"} /\ loops[n].at <= Chunks
  /\ \/ Fails(n)
     \/ /\ loops[n].phase = "sending"
        /\ loops' = [loops EXCEPT ![n].stored = @ \cup {loops[n].at}, ![n].phase = "failed"]
        /\ errored' = errored \cup ({loops[n].file} \cap listed)
        /\ IF n \in batch THEN batch' = {} /\ isUploading' = FALSE
           ELSE UNCHANGED <<batch, isUploading>>
  /\ UNCHANGED <<listed, complete, drawer>>

(* The length check, then markComplete.                                    *)
MarkComplete(n) ==
  /\ loops[n].phase = "sending" /\ loops[n].at > Chunks
  /\ IF loops[n].acked < Chunks \/ loops[n].file \notin listed
     THEN Fails(n) /\ UNCHANGED complete
     ELSE /\ loops' = [loops EXCEPT ![n].phase = "done"]
          /\ complete' = [complete EXCEPT ![loops[n].file] = n]
          /\ UNCHANGED <<errored, batch, isUploading>>
  /\ UNCHANGED <<listed, drawer>>

(* upload() resolves when every loop of its batch has ended well.          *)
UploadResolves ==
  /\ isUploading /\ \A n \in batch : loops[n].phase = "done"
  /\ batch' = {} /\ isUploading' = FALSE
  /\ UNCHANGED <<listed, complete, errored, loops, drawer>>

LoopStep ==
  \E n \in LoopIds : InitUpload(n) \/ UploadChunk(n) \/ UploadFails(n) \/ MarkComplete(n)

UploadsNext ==
  \/ AddFiles \/ UploadButton \/ RemoveFile \/ ClearAll \/ SetDrawer
  \/ LoopStep \/ UploadResolves

UploadsSpec == UploadsInit /\ [][UploadsNext]_uploadVars

(* ---- properties ------------------------------------------------------------------ *)

(* A file shown as uploaded has every chunk in one upload session, however *)
(* often its upload failed and was started again beside an older loop.     *)
CompleteMeansStored ==
  \A f \in listed : complete[f] # 0 =>
    /\ loops[complete[f]].file = f
    /\ loops[complete[f]].stored = 1..Chunks
=============================================================================
