----------------------------- MODULE PdfDialogs -----------------------------
(* The dialogs of the web PDF editor (components/extend/                   *)
(* pdf-editor-dialogs.tsx): print, security, document properties, link,    *)
(* signature, captured area, shortcuts.  All are mounted while a document  *)
(* is shown; one `dialog` state of the editor says which is open, and any  *)
(* of them closes it whoever is open by then.  Print, document manager and *)
(* engine (external) answer later, with success or failure.                *)
EXTENDS Naturals, FiniteSets

CONSTANT MaxOpenings   \* bound: dialogs opened

VARIABLES open,     \* the dialog open, or none
          nth,      \* how many were opened
          busy,     \* per command: isPrinting, isApplying, isUnlocking, isSaving
          asked,    \* the commands under way, and the opening each is from
          stale,    \* a command of an earlier opening failed while another ran
          meta,     \* document properties: where the fields come from, loading
          failed,   \* the last fetch of the properties failed
          saved,    \* what was written into the document's properties
          linking,  \* links under way: the selected text is being read
          sign      \* the signature dialog's signature and initials

dialogVars == <<open, nth, busy, asked, stale, meta, failed, saved, linking, sign>>

Commands == {"print", "protect", "unlock", "save"}
DialogOf == [c \in Commands |->
  CASE c = "print" -> "print" [] c = "save" -> "properties" [] OTHER -> "security"]
Dialogs == {"print", "security", "properties", "link", "signature", "shortcuts", "capture"}

DialogsInit ==
  /\ open = "none" /\ nth = 0 /\ busy = {} /\ asked = {} /\ stale = FALSE
  /\ meta = [from |-> "empty", loading |-> 0] /\ failed = FALSE /\ saved = "original"
  /\ linking = 0 /\ sign = {}

(* Security resets on opening; properties asks for the fields again and    *)
(* keeps those of the last time until they come.                           *)
OpenWithoutLoading ==
  /\ open = "none" /\ nth < MaxOpenings
  /\ open' \in Dialogs /\ nth' = nth + 1
  /\ busy' = busy \ (IF open' = "security" THEN {"protect", "unlock"} ELSE {})
  /\ IF open' = "properties" THEN failed' = FALSE ELSE UNCHANGED failed
  /\ UNCHANGED <<asked, stale, meta, saved, linking, sign>>

OpenDialog ==
  /\ open = "none" /\ nth < MaxOpenings
  /\ open' \in Dialogs /\ nth' = nth + 1
  /\ busy' = busy \ (IF open' = "security" THEN {"protect", "unlock"} ELSE {})
  /\ IF open' = "properties"
     THEN meta' = [meta EXCEPT !.loading = nth'] /\ failed' = FALSE
     ELSE UNCHANGED <<meta, failed>>
  /\ UNCHANGED <<asked, stale, saved, linking, sign>>

(* Print and signature reset on closing; closing properties cancels its    *)
(* fetch.                                                                  *)
Closed ==
  /\ open' = "none"
  /\ meta' = [meta EXCEPT !.loading = 0]
  /\ sign' = {}

(* Escape and the backdrop close a dialog even while it is busy; "Cancel"  *)
(* does not.                                                               *)
Dismiss ==
  /\ open # "none" /\ Closed
  /\ busy' = busy \ {"print"}
  /\ UNCHANGED <<nth, asked, stale, failed, saved, linking>>

(* ---- commands ----------------------------------------------------------- *)

Command(c) ==
  /\ open = DialogOf[c]
  /\ busy' = busy \cup {c}
  /\ asked' = asked \cup {[cmd |-> c, of |-> nth, again |-> \E r \in asked : r.cmd = c /\ r.of = nth]}
  /\ UNCHANGED <<open, nth, stale, meta, failed, linking, sign>>

(* handlePrint, handleApply and handleRemove, handleSave: not while busy.  *)
SubmitBusy(c) ==
  /\ c \in {"print", "protect"} /\ Command(c) /\ UNCHANGED saved

Submit(c) ==
  /\ c \in {"print", "protect"} /\ c \notin busy /\ Command(c) /\ UNCHANGED saved

(* Enter in the password input asks again while an answer is due.          *)
Unlock == Command("unlock") /\ UNCHANGED saved

Save ==
  /\ "save" \notin busy /\ meta.loading = 0
  /\ Command("save") /\ saved' = meta.from

(* A success closes the dialog that is open, a failure is shown in the     *)
(* dialog; both end the command's busy flag, whichever opening set it.     *)
Answered(r) ==
  /\ asked' = asked \ {r}
  /\ \/ /\ r.cmd # "unlock" /\ Closed /\ UNCHANGED stale
        /\ busy' = busy \ {r.cmd, "print"}
     \/ /\ busy' = busy \ {r.cmd}
        /\ stale' = (stale \/ (r.of # nth /\ r.cmd \in busy))
        /\ UNCHANGED <<open, meta, sign>>
  /\ UNCHANGED <<nth, failed, saved, linking>>

(* ---- document properties ------------------------------------------------ *)

MetadataAnswered ==
  /\ meta.loading # 0
  /\ \/ meta' = [from |-> "document", loading |-> 0] /\ UNCHANGED failed
     \/ meta' = [meta EXCEPT !.loading = 0] /\ failed' = TRUE
  /\ UNCHANGED <<open, nth, busy, asked, stale, saved, linking, sign>>

UpdateField ==
  /\ open = "properties" /\ meta.loading = 0 /\ meta.from = "document"
  /\ meta' = [meta EXCEPT !.from = "typed"]
  /\ UNCHANGED <<open, nth, busy, asked, stale, failed, saved, linking, sign>>

(* ---- links, signatures, captures ----------------------------------------- *)

(* A link on selected text first reads the text; nothing stops a second    *)
(* Enter meanwhile, and each answer makes its links.                       *)
SubmitLink ==
  /\ open = "link" /\ linking < 2
  /\ \/ linking' = linking + 1 /\ UNCHANGED <<open, meta, sign>>
     \/ Closed /\ UNCHANGED linking
  /\ UNCHANGED <<nth, busy, asked, stale, failed, saved>>

ApplyLinks ==
  /\ linking > 0 /\ linking' = linking - 1
  /\ Closed /\ busy' = busy \ {"print"}
  /\ UNCHANGED <<nth, asked, stale, failed, saved>>

(* Signature and initials; another tab drops both, "Clear" the active one. *)
DrawSignature ==
  /\ open = "signature" /\ \E part \in {"signature", "initials"} : sign' = sign \cup {part}
  /\ UNCHANGED <<open, nth, busy, asked, stale, meta, failed, saved, linking>>

ClearSignature ==
  /\ open = "signature" /\ \E part \in {sign} \cup {{x} : x \in sign} : sign' = sign \ part
  /\ UNCHANGED <<open, nth, busy, asked, stale, meta, failed, saved, linking>>

SaveSignature ==
  /\ open = "signature" /\ sign # {} /\ Closed
  /\ UNCHANGED <<nth, busy, asked, stale, failed, saved, linking>>

DialogsNext ==
  \/ OpenDialog \/ Dismiss
  \/ \E c \in Commands : Submit(c)
  \/ Unlock \/ Save
  \/ \E r \in asked : Answered(r)
  \/ MetadataAnswered \/ UpdateField
  \/ SubmitLink \/ ApplyLinks \/ DrawSignature \/ ClearSignature \/ SaveSignature

DialogsSpec == DialogsInit /\ [][DialogsNext]_dialogVars

(* ---- properties ----------------------------------------------------------- *)

(* One opening of the print or the security dialog has one command under   *)
(* way, unless a command of an earlier opening failed in the middle of it: *)
(* its answer ends the busy flag of both.                                  *)
OneCommandPerOpening == \A r \in asked : r.again => r.cmd = "unlock" \/ stale

(* The document's properties are overwritten with fields that were not     *)
(* loaded from it only after a load that failed.                           *)
SavesWhatItLoaded == saved' = "empty" => saved = "empty" \/ failed
=============================================================================
