---------------------------- MODULE ViewerProofs ----------------------------
(* What is proved of what the clients keep on screen, for every value of   *)
(* the constants: the document of the PDF editor and what overlaps around  *)
(* it, the PDF viewer's thumbnails and text selection, the sheet tabs and  *)
(* style cards that pop up, and the uploads.  One part after another has   *)
(* its inductive invariant, that its initial states satisfy it and that    *)
(* its steps keep it; ClientsProofs puts the parts together.               *)
EXTENDS PdfDocument, PdfText, SheetTabs, DocxToolbar, PdfRotation, Uploads,
        SequenceTheorems, FiniteSetTheorems, WellFoundedInduction, TLAPS

-----------------------------------------------------------------------------
(* ---- PDF editor: the document on screen, its jobs and replacements      *)

PageCountIsReal == Pages \in Nat

Versioned == [ver : Nat, n : Nat]
Statuses == {"opening", "loading", "loaded", "password", "error", "closed"}

DocRecord(r) ==
  r = [src |-> r.src, prev |-> r.prev, status |-> r.status, locked |-> r.locked,
       work |-> r.work, committed |-> r.committed, pages |-> r.pages]

DocFits(ds, d) ==
  /\ DocRecord(ds[d]) /\ ds[d].src \in Versioned /\ ds[d].status \in Statuses
  /\ ds[d].prev \subseteq 1..(d - 1)
  /\ ds[d].work \in Nat /\ ds[d].committed \in Nat /\ ds[d].pages \in Int

DocTypes ==
  /\ \E S : docs \in Seq(S)
  /\ \A d \in DocIds : DocFits(docs, d)
  /\ active \in 0..Len(docs) /\ requested \in 0..Len(docs)
  /\ engine \in {"loading", "ready", "failed"}
  /\ input \in [ver : Nat \ {0}, kind : {"url", "blob"}]
  /\ resolved \in Versioned /\ opened \in Versioned /\ sources \in Nat

JobPhases == {"commit", "work", "land"}

JobShape(j) ==
  j = [kind |-> j.kind, id |-> j.id, doc |-> j.doc, ver |-> j.ver, sel |-> j.sel,
       here |-> j.here, saved |-> j.saved, pages |-> j.pages, phase |-> j.phase]

JobFits(j) ==
  /\ j.ver \in Nat /\ j.ver <= input.ver /\ j.phase \in JobPhases
  /\ IsFiniteSet(j.sel) /\ j.pages \in Int
  /\ IF j.kind = "upload" THEN j.phase = "land" ELSE j.doc \in DocIds

Excused == why \cap {"during", "uncommitted", "superseded"} # {}

(* A job at work on a document works on all of its edits, and what it saved *)
(* are all of them.                                                         *)
Whole(j) ==
  j.kind # "upload" =>
    /\ j.phase = "work" => docs[j.doc].committed = docs[j.doc].work
    /\ j.phase = "land" => j.saved = docs[j.doc].work

JobOk(j) == JobShape(j) /\ JobFits(j) /\ (Excused \/ Whole(j))

DialogOk(j) == JobShape(j) /\ JobFits(j) /\ j.kind # "upload" /\ j.phase # "land" /\ Whole(j)

JobInv ==
  /\ \A d \in DocIds : docs[d].committed <= docs[d].work
  /\ \A j \in jobs : JobOk(j)
  /\ dialog = NoDialog \/ DialogOk(dialog)
  /\ LossHasAReason

(* Sources and versions are numbered, none above the last.                 *)
Numbers ==
  /\ \A d \in DocIds : docs[d].src.n <= sources /\ docs[d].src.ver <= input.ver
  /\ resolved.n <= sources /\ resolved.ver <= input.ver

Newest == Len(docs)

Opening ==
  /\ engine # "ready" => Len(docs) = 0
  /\ IF Len(docs) = 0 THEN opened = NoSource ELSE docs[Newest].src = opened
  /\ \A d \in DocIds : /\ docs[d].status = "closed" <=> docs[d].src = NoSource
                       /\ docs[d].status = "password" => docs[d].locked
  /\ "stale" \notin why =>
       /\ engine = "ready" => Source \in {NoSource, opened}
       /\ \A d, e \in DocIds : docs[d].src = docs[e].src /\ docs[d].status # "closed" => d = e
       /\ "unread" \notin why /\ input.kind = "blob" => reading \/ resolved.ver = input.ver

(* What is known of the document opened last.                              *)
Latest ==
  Len(docs) > 0 =>
    /\ docs[Newest].status \in {"opening", "loading"} =>
         \A d \in DocIds : docs[d].status # "closed" => d = Newest \/ d \in docs[Newest].prev
    /\ docs[Newest].status = "loaded" /\ ~docs[Newest].locked =>
         \A d \in DocIds : docs[d].status # "closed" => d = Newest
    /\ "stale" \notin why =>
         /\ docs[Newest].status \in {"loading", "loaded", "password"} => requested = Newest
         /\ docs[Newest].status \in {"loaded", "password"} => active = Newest
         /\ docs[Newest].status = "error" => failed = opened

PanelShape == \E o, s : panel = [open |-> o, sel |-> s]

DocInv ==
  /\ DocTypes /\ JobInv /\ Numbers /\ Opening /\ Latest
  /\ PanelShape /\ SelectionIsOfPages

-----------------------------------------------------------------------------
LEMMA SourceIsVersioned ==
  ASSUME NEW inp \in [ver : Nat \ {0}, kind : {"url", "blob"}], NEW res \in Versioned
  PROVE  SourceOf(inp, res) \in Versioned
  BY DEF SourceOf, NoSource, Versioned

(* What is opened comes last; the documents before it stay as they are.     *)
Appends(src, p) ==
  /\ src # NoSource /\ opened' = src
  /\ \E S : docs' \in Seq(S)
  /\ Len(docs') = Len(docs) + 1
  /\ \A d \in DocIds : docs'[d] = docs[d]
  /\ DocRecord(docs'[Len(docs')]) /\ docs'[Len(docs')].src = src
  /\ docs'[Len(docs')].prev = OpenDocs /\ docs'[Len(docs')].status = "opening"
  /\ docs'[Len(docs')].work = 0 /\ docs'[Len(docs')].committed = 0
  /\ ~docs'[Len(docs')].locked /\ docs'[Len(docs')].pages = p
  /\ active' \in {active, Len(docs')} /\ (OpenDocs # {} => active' = active)

LEMMA Opens ==
  ASSUME DocTypes, NEW eng, NEW src, NEW p, OpenSource(eng, src, p)
  PROVE  \/ /\ eng # "ready" \/ src = NoSource \/ opened = src
            /\ UNCHANGED <<opened, failed, docs, active>>
         \/ eng = "ready" /\ Appends(src, p)
<1>1. CASE eng # "ready" \/ src = NoSource \/ opened = src
  BY <1>1 DEF OpenSource
<1>2. CASE ~(eng # "ready" \/ src = NoSource \/ opened = src)
  <2> PICK r : r = [src |-> src, prev |-> OpenDocs, status |-> "opening", locked |-> FALSE,
                    work |-> 0, committed |-> 0, pages |-> p]
    OBVIOUS
  <2>1. /\ opened' = src /\ docs' = Append(docs, r)
        /\ active' = IF OpenDocs = {} THEN Len(docs) + 1 ELSE active
    BY <1>2 DEF OpenSource
  <2>2. PICK S : docs \in Seq(S)
    BY DEF DocTypes
  <2>3. docs \in Seq(S \cup {r}) /\ r \in S \cup {r}
    BY <2>2
  <2>4. /\ docs' \in Seq(S \cup {r}) /\ Len(docs') = Len(docs) + 1
        /\ \A d \in DocIds : docs'[d] = docs[d]
        /\ docs'[Len(docs) + 1] = r
    BY <2>1, <2>3 DEF DocIds
  <2>5. DocRecord(r)
    BY DEF DocRecord
  <2>6. \E T : docs' \in Seq(T)
    BY <2>4
  <2>7. docs'[Len(docs')] = r /\ active' \in {active, Len(docs')} /\ (OpenDocs # {} => active' = active)
    BY <2>1, <2>4
  <2>8. /\ r.src = src /\ r.prev = OpenDocs /\ r.status = "opening" /\ r.work = 0
        /\ r.committed = 0 /\ r.locked = FALSE /\ r.pages = p
    OBVIOUS
  <2>9. Appends(src, p)
    BY <1>2, <2>1, <2>4, <2>5, <2>6, <2>7, <2>8, Zenon DEF Appends
  <2> QED BY <1>2, <2>9
<1> QED BY <1>1, <1>2

(* One document changes.                                                    *)
SameBut(ds, d) ==
  /\ \E S : ds \in Seq(S)
  /\ Len(ds) = Len(docs)
  /\ \A e \in DocIds : e # d => ds[e] = docs[e]

LEMMA Changes ==
  ASSUME DocTypes, NEW d \in DocIds, NEW r, NEW ds, ds = [docs EXCEPT ![d] = r]
  PROVE  SameBut(ds, d) /\ ds[d] = r
<1>1. PICK S : docs \in Seq(S)
  BY DEF DocTypes
<1>2. docs \in Seq(S \cup {r})
  BY <1>1
<1>3. ds \in Seq(S \cup {r}) /\ Len(ds) = Len(docs)
  BY <1>2 DEF DocIds
<1> QED BY <1>1, <1>3 DEF DocIds, SameBut

LEMMA StatusChanges ==
  ASSUME DocTypes, NEW d \in DocIds, NEW s, NEW ds, ds = [docs EXCEPT ![d].status = s]
  PROVE  /\ SameBut(ds, d)
         /\ ds[d] = [src |-> docs[d].src, prev |-> docs[d].prev, status |-> s,
                     locked |-> docs[d].locked, work |-> docs[d].work,
                     committed |-> docs[d].committed, pages |-> docs[d].pages]
<1> PICK o : o = docs[d]
  OBVIOUS
<1> PICK r : r = [o EXCEPT !.status = s]
  OBVIOUS
<1>1. ds = [docs EXCEPT ![d] = r]
  OBVIOUS
<1>2. DocRecord(o)
  BY DEF DocTypes, DocFits
<1>3. r = [src |-> o.src, prev |-> o.prev, status |-> s, locked |-> o.locked, work |-> o.work,
           committed |-> o.committed, pages |-> o.pages]
  BY <1>2, Zenon DEF DocRecord
<1>4. SameBut(ds, d) /\ ds[d] = r
  BY <1>1, Changes, Zenon
<1> QED BY <1>3, <1>4, Zenon

LEMMA LoadsOrLocks ==
  ASSUME DocTypes, NEW d \in DocIds, NEW ds
  PROVE  /\ ds = [docs EXCEPT ![d].status = "loaded", ![d].prev = {}] =>
              /\ SameBut(ds, d)
              /\ ds[d] = [src |-> docs[d].src, prev |-> {}, status |-> "loaded",
                          locked |-> docs[d].locked, work |-> docs[d].work,
                          committed |-> docs[d].committed, pages |-> docs[d].pages]
         /\ ds = [docs EXCEPT ![d].status = "password", ![d].locked = TRUE] =>
              /\ SameBut(ds, d)
              /\ ds[d] = [src |-> docs[d].src, prev |-> docs[d].prev, status |-> "password",
                          locked |-> TRUE, work |-> docs[d].work,
                          committed |-> docs[d].committed, pages |-> docs[d].pages]
<1> PICK o : o = docs[d]
  OBVIOUS
<1>1. DocRecord(o)
  BY DEF DocTypes, DocFits
<1>2. ASSUME ds = [docs EXCEPT ![d].status = "loaded", ![d].prev = {}]
      PROVE  /\ SameBut(ds, d)
             /\ ds[d] = [src |-> o.src, prev |-> {}, status |-> "loaded", locked |-> o.locked,
                         work |-> o.work, committed |-> o.committed, pages |-> o.pages]
  <2> PICK r : r = [o EXCEPT !.status = "loaded", !.prev = {}]
    OBVIOUS
  <2>1. ds = [docs EXCEPT ![d] = r]
    BY <1>2
  <2>2. r = [src |-> o.src, prev |-> {}, status |-> "loaded", locked |-> o.locked,
             work |-> o.work, committed |-> o.committed, pages |-> o.pages]
    BY <1>1, Zenon DEF DocRecord
  <2>3. SameBut(ds, d) /\ ds[d] = r
    BY <2>1, Changes, Zenon
  <2> QED BY <2>2, <2>3, Zenon
<1>3. ASSUME ds = [docs EXCEPT ![d].status = "password", ![d].locked = TRUE]
      PROVE  /\ SameBut(ds, d)
             /\ ds[d] = [src |-> o.src, prev |-> o.prev, status |-> "password", locked |-> TRUE,
                         work |-> o.work, committed |-> o.committed, pages |-> o.pages]
  <2> PICK r : r = [o EXCEPT !.status = "password", !.locked = TRUE]
    OBVIOUS
  <2>1. ds = [docs EXCEPT ![d] = r]
    BY <1>3
  <2>2. r = [src |-> o.src, prev |-> o.prev, status |-> "password", locked |-> TRUE,
             work |-> o.work, committed |-> o.committed, pages |-> o.pages]
    BY <1>1, Zenon DEF DocRecord
  <2>3. SameBut(ds, d) /\ ds[d] = r
    BY <2>1, Changes, Zenon
  <2> QED BY <2>2, <2>3, Zenon
<1> QED BY <1>2, <1>3

LEMMA EditsChange ==
  ASSUME DocTypes, NEW d \in DocIds, NEW n, NEW ds
  PROVE  /\ ds = [docs EXCEPT ![d].work = n] =>
              /\ SameBut(ds, d)
              /\ ds[d] = [src |-> docs[d].src, prev |-> docs[d].prev, status |-> docs[d].status,
                          locked |-> docs[d].locked, work |-> n,
                          committed |-> docs[d].committed, pages |-> docs[d].pages]
         /\ ds = [docs EXCEPT ![d].committed = n] =>
              /\ SameBut(ds, d)
              /\ ds[d] = [src |-> docs[d].src, prev |-> docs[d].prev, status |-> docs[d].status,
                          locked |-> docs[d].locked, work |-> docs[d].work,
                          committed |-> n, pages |-> docs[d].pages]
<1> PICK o : o = docs[d]
  OBVIOUS
<1>1. DocRecord(o)
  BY DEF DocTypes, DocFits
<1>2. ASSUME ds = [docs EXCEPT ![d].work = n]
      PROVE  /\ SameBut(ds, d)
             /\ ds[d] = [src |-> o.src, prev |-> o.prev, status |-> o.status, locked |-> o.locked,
                         work |-> n, committed |-> o.committed, pages |-> o.pages]
  <2> PICK r : r = [o EXCEPT !.work = n]
    OBVIOUS
  <2>1. ds = [docs EXCEPT ![d] = r]
    BY <1>2
  <2>2. r = [src |-> o.src, prev |-> o.prev, status |-> o.status, locked |-> o.locked,
             work |-> n, committed |-> o.committed, pages |-> o.pages]
    BY <1>1, Zenon DEF DocRecord
  <2>3. SameBut(ds, d) /\ ds[d] = r
    BY <2>1, Changes, Zenon
  <2> QED BY <2>2, <2>3, Zenon
<1>3. ASSUME ds = [docs EXCEPT ![d].committed = n]
      PROVE  /\ SameBut(ds, d)
             /\ ds[d] = [src |-> o.src, prev |-> o.prev, status |-> o.status, locked |-> o.locked,
                         work |-> o.work, committed |-> n, pages |-> o.pages]
  <2> PICK r : r = [o EXCEPT !.committed = n]
    OBVIOUS
  <2>1. ds = [docs EXCEPT ![d] = r]
    BY <1>3
  <2>2. r = [src |-> o.src, prev |-> o.prev, status |-> o.status, locked |-> o.locked,
             work |-> o.work, committed |-> n, pages |-> o.pages]
    BY <1>1, Zenon DEF DocRecord
  <2>3. SameBut(ds, d) /\ ds[d] = r
    BY <2>1, Changes, Zenon
  <2> QED BY <2>2, <2>3, Zenon
<1> QED BY <1>2, <1>3

(* The documents of a set are closed.                                       *)
LEMMA Closes ==
  ASSUME NEW ds, \E S : ds \in Seq(S), \A d \in 1..Len(ds) : DocRecord(ds[d]),
         NEW gone, NEW cs, cs = CloseAll(ds, gone)
  PROVE  /\ \E S : cs \in Seq(S)
         /\ Len(cs) = Len(ds)
         /\ \A e \in 1..Len(ds) : e \notin gone => cs[e] = ds[e]
         /\ \A e \in 1..Len(ds) : e \in gone =>
              cs[e] = [src |-> NoSource, prev |-> {}, status |-> "closed", locked |-> FALSE,
                       work |-> ds[e].work, committed |-> ds[e].committed, pages |-> 0]
<1>1. PICK S : ds \in Seq(S)
  OBVIOUS
<1>2. DOMAIN ds = 1..Len(ds) /\ DOMAIN cs = 1..Len(ds) /\ Len(ds) \in Nat
  <2>1. DOMAIN ds = 1..Len(ds) /\ Len(ds) \in Nat
    BY <1>1
  <2>2. DOMAIN cs = DOMAIN ds
    BY Zenon DEF CloseAll
  <2> QED BY <2>1, <2>2
<1>3. cs \in Seq({cs[e] : e \in 1..Len(ds)}) /\ Len(cs) = Len(ds)
  <2>1. cs \in [1..Len(ds) -> {cs[e] : e \in 1..Len(ds)}]
    BY <1>2, Zenon DEF CloseAll
  <2> QED BY <1>2, <2>1, LenProperties
<1>4. \A e \in 1..Len(ds) : e \notin gone => cs[e] = ds[e]
  BY <1>2, Zenon DEF CloseAll
<1>5. ASSUME NEW e \in 1..Len(ds), e \in gone
      PROVE  cs[e] = [src |-> NoSource, prev |-> {}, status |-> "closed", locked |-> FALSE,
                      work |-> ds[e].work, committed |-> ds[e].committed, pages |-> 0]
  <2> PICK o : o = ds[e]
    OBVIOUS
  <2>1. cs[e] = [o EXCEPT !.status = "closed", !.src = NoSource, !.prev = {}, !.pages = 0,
                          !.locked = FALSE]
    BY <1>2, <1>5, Zenon DEF CloseAll
  <2>2. DocRecord(o)
    OBVIOUS
  <2> QED BY <2>1, <2>2, Zenon DEF DocRecord
<1> QED BY <1>3, <1>4, <1>5

-----------------------------------------------------------------------------
LEMMA OpeningKeepsTypes ==
  ASSUME DocTypes, NEW src \in Versioned, NEW p \in Int, OpenSource(engine', src, p),
         UNCHANGED requested, input' \in [ver : Nat \ {0}, kind : {"url", "blob"}],
         engine' \in {"loading", "ready", "failed"},
         resolved' \in Versioned, sources' \in Nat
  PROVE  DocTypes'
<1>1. CASE UNCHANGED <<opened, failed, docs, active>>
  BY <1>1 DEF DocTypes, DocIds, DocFits
<1>2. CASE Appends(src, p)
  <2>1. PICK r : r = docs'[Len(docs')]
    OBVIOUS
  <2>2. Len(docs) \in Nat
    BY DEF DocTypes
  <2>3. /\ DocIds' = DocIds \cup {Len(docs')} /\ Len(docs') = Len(docs) + 1
        /\ \A d \in DocIds : docs'[d] = docs[d]
    BY <1>2, <2>2 DEF Appends, DocIds
  <2>4. DocRecord(r) /\ r.src \in Versioned /\ r.status \in Statuses /\ r.work \in Nat
        /\ r.committed \in Nat /\ r.prev \subseteq 1..(Len(docs') - 1) /\ r.pages \in Int
    BY <1>2, <2>1, <2>2, <2>3 DEF Appends, Statuses, OpenDocs, DocIds
  <2>5. \A d \in DocIds' : DocFits(docs', d)
    BY <2>1, <2>3, <2>4, Zenon DEF DocTypes, DocFits
  <2>6. active' \in 0..Len(docs') /\ requested' \in 0..Len(docs') /\ opened' \in Versioned
    BY <1>2, <2>2, <2>3 DEF Appends, DocTypes
  <2>7. \E S : docs' \in Seq(S)
    BY <1>2 DEF Appends
  <2> QED BY <2>3, <2>5, <2>6, <2>7 DEF DocTypes
<1> QED BY <1>1, <1>2, Opens

(* The documents after document d was loaded and those of a set closed.     *)
LoadedAndClosed(ds, d, gone) ==
  /\ \E S : ds \in Seq(S)
  /\ Len(ds) = Len(docs)
  /\ ds[d] = [src |-> docs[d].src, prev |-> {}, status |-> "loaded",
                        locked |-> docs[d].locked, work |-> docs[d].work,
                        committed |-> docs[d].committed, pages |-> docs[d].pages]
  /\ \A e \in DocIds : e # d /\ e \notin gone => ds[e] = docs[e]
  /\ \A e \in DocIds : e \in gone => ds[e] = [src |-> NoSource, prev |-> {}, status |-> "closed", locked |-> FALSE,
                          work |-> docs[e].work, committed |-> docs[e].committed, pages |-> 0]

LEMMA ClosedAfter ==
  ASSUME DocTypes, NEW d \in DocIds, NEW gone, d \notin gone, NEW ds, SameBut(ds, d),
         ds[d] = [src |-> docs[d].src, prev |-> {}, status |-> "loaded",
                        locked |-> docs[d].locked, work |-> docs[d].work,
                        committed |-> docs[d].committed, pages |-> docs[d].pages],
         NEW cs, cs = CloseAll(ds, gone)
  PROVE  LoadedAndClosed(cs, d, gone)
<1>1. 1..Len(ds) = DocIds /\ Len(ds) = Len(docs) /\ \E S : ds \in Seq(S)
  BY DEF SameBut, DocIds
<1>2. \A e \in DocIds : e # d => ds[e] = docs[e]
  BY DEF SameBut
<1>3. ASSUME NEW e \in 1..Len(ds) PROVE DocRecord(ds[e])
  <2>1. CASE e = d
    BY <2>1 DEF DocRecord
  <2>2. CASE e # d
    BY <1>1, <1>2, <2>2 DEF DocTypes, DocFits
  <2> QED BY <2>1, <2>2
<1>4. /\ \E S : cs \in Seq(S)
      /\ Len(cs) = Len(ds)
      /\ \A e \in 1..Len(ds) : e \notin gone => cs[e] = ds[e]
      /\ \A e \in 1..Len(ds) : e \in gone =>
           cs[e] = [src |-> NoSource, prev |-> {}, status |-> "closed", locked |-> FALSE,
                    work |-> ds[e].work, committed |-> ds[e].committed, pages |-> 0]
  <2>1. \A e \in 1..Len(ds) : DocRecord(ds[e])
    BY <1>3
  <2> QED BY <1>1, <2>1, Closes
<1> QED BY <1>1, <1>2, <1>4, Zenon DEF LoadedAndClosed

LEMMA LoadedDocs ==
  ASSUME DocTypes, NEW d \in DocIds, NEW gone, d \notin gone, NEW cs,
         cs = CloseAll([docs EXCEPT ![d].status = "loaded", ![d].prev = {}], gone)
  PROVE  LoadedAndClosed(cs, d, gone)
<1> PICK ds : ds = [docs EXCEPT ![d].status = "loaded", ![d].prev = {}]
  OBVIOUS
<1>1. SameBut(ds, d) /\ ds[d] = [src |-> docs[d].src, prev |-> {}, status |-> "loaded",
                        locked |-> docs[d].locked, work |-> docs[d].work,
                        committed |-> docs[d].committed, pages |-> docs[d].pages]
  BY LoadsOrLocks, Zenon
<1>2. cs = CloseAll(ds, gone)
  BY Zenon
<1> QED BY <1>1, <1>2, ClosedAfter, Zenon


(* A document was answered: it is loading, failed, loaded or locked, and a  *)
(* load that was heard closed the documents opened before it.               *)
Answer(d, gone) ==
  /\ \E S : docs' \in Seq(S)
  /\ Len(docs') = Len(docs)
  /\ gone \subseteq docs[d].prev
  /\ \A e \in DocIds : e # d /\ e \notin gone => docs'[e] = docs[e]
  /\ \A e \in DocIds : e \in gone =>
       docs'[e] = [src |-> NoSource, prev |-> {}, status |-> "closed", locked |-> FALSE,
                   work |-> docs[e].work, committed |-> docs[e].committed, pages |-> 0]
  /\ DocRecord(docs'[d]) /\ docs'[d].src = docs[d].src
  /\ docs'[d].work = docs[d].work /\ docs'[d].committed = docs[d].committed
  /\ docs'[d].pages = docs[d].pages

Heard(d) == opened = docs[d].src

Outcome(d, gone) ==
  \/ /\ docs[d].status = "opening" /\ docs'[d].status = "loading"
     /\ docs'[d].prev = docs[d].prev /\ docs'[d].locked = docs[d].locked /\ gone = {}
     /\ requested' = IF Heard(d) THEN d ELSE requested
     /\ UNCHANGED <<active, failed>>
  \/ /\ docs[d].status \in {"opening", "loading"} /\ docs'[d].status = "error"
     /\ docs'[d].prev = docs[d].prev /\ docs'[d].locked = docs[d].locked /\ gone = {}
     /\ failed' = IF Heard(d) THEN docs[d].src ELSE failed
     /\ UNCHANGED <<requested, active>>
  \/ /\ docs[d].status = "loading" /\ docs'[d].status = "loaded"
     /\ docs'[d].prev = {} /\ docs'[d].locked = docs[d].locked
     /\ gone = IF Heard(d) THEN docs[d].prev ELSE {}
     /\ active' = IF Heard(d) THEN d ELSE active
     /\ UNCHANGED <<requested, failed>>
  \/ /\ docs[d].status = "loading" /\ docs'[d].status = "password"
     /\ docs'[d].prev = docs[d].prev /\ docs'[d].locked = TRUE /\ gone = {}
     /\ active' = IF Heard(d) THEN d ELSE active
     /\ UNCHANGED <<requested, failed>>

Answers(d) ==
  /\ \E gone : Answer(d, gone) /\ Outcome(d, gone)
  /\ UNCHANGED <<engine, input, reading, resolved, sources, opened, dialog, started, lost, why>>
  /\ PanelFollows(panel.open) /\ JobsFollow(jobs)

LEMMA Fields ==
  \A r, src, prev, status, locked, work, committed, pages :
    r = [src |-> src, prev |-> prev, status |-> status, locked |-> locked, work |-> work,
         committed |-> committed, pages |-> pages] =>
      /\ DocRecord(r) /\ r.src = src /\ r.work = work /\ r.committed = committed
      /\ r.pages = pages /\ r.status = status /\ r.prev = prev /\ r.locked = locked
  BY DEF DocRecord

(* What a document is once its status has changed.                          *)
StatusOnly(d, s) ==
  /\ SameBut(docs', d) /\ DocRecord(docs'[d])
  /\ docs'[d].src = docs[d].src /\ docs'[d].prev = docs[d].prev /\ docs'[d].status = s
  /\ docs'[d].locked = docs[d].locked /\ docs'[d].work = docs[d].work
  /\ docs'[d].committed = docs[d].committed /\ docs'[d].pages = docs[d].pages

LEMMA StatusFields ==
  ASSUME NEW d, NEW s, SameBut(docs', d),
         docs'[d] = [src |-> docs[d].src, prev |-> docs[d].prev, status |-> s,
                     locked |-> docs[d].locked, work |-> docs[d].work,
                     committed |-> docs[d].committed, pages |-> docs[d].pages]
  PROVE  StatusOnly(d, s)
<1> PICK o : o = docs[d]
  OBVIOUS
<1> PICK r : r = docs'[d]
  OBVIOUS
<1>1. r = [src |-> o.src, prev |-> o.prev, status |-> s, locked |-> o.locked, work |-> o.work,
           committed |-> o.committed, pages |-> o.pages]
  OBVIOUS
<1> QED BY <1>1 DEF StatusOnly, DocRecord

LEMMA StatusGoes ==
  ASSUME DocTypes, NEW d \in DocIds, NEW s, docs' = [docs EXCEPT ![d].status = s]
  PROVE  StatusOnly(d, s)
<1>1. SameBut(docs', d) /\ docs'[d] = [src |-> docs[d].src, prev |-> docs[d].prev, status |-> s,
                     locked |-> docs[d].locked, work |-> docs[d].work,
                     committed |-> docs[d].committed, pages |-> docs[d].pages]
  BY StatusChanges, Zenon
<1> QED BY <1>1, StatusFields, Zenon

LEMMA StatusAnswers ==
  ASSUME DocTypes, NEW d \in DocIds, NEW s, docs' = [docs EXCEPT ![d].status = s]
  PROVE  /\ Answer(d, {}) /\ docs'[d].status = s
         /\ docs'[d].prev = docs[d].prev /\ docs'[d].locked = docs[d].locked
<1> QED BY StatusGoes, Zenon DEF StatusOnly, Answer, SameBut

LEMMA LockAnswers ==
  ASSUME DocTypes, NEW d \in DocIds,
         docs' = [docs EXCEPT ![d].status = "password", ![d].locked = TRUE]
  PROVE  /\ Answer(d, {}) /\ docs'[d].status = "password"
         /\ docs'[d].prev = docs[d].prev /\ docs'[d].locked = TRUE
<1> PICK r : r = docs'[d]
  OBVIOUS
<1> PICK o : o = docs[d]
  OBVIOUS
<1>1. SameBut(docs', d) /\ r = [src |-> o.src, prev |-> o.prev, status |-> "password",
                     locked |-> TRUE, work |-> o.work,
                     committed |-> o.committed, pages |-> o.pages]
  BY LoadsOrLocks, Zenon
<1>2. /\ DocRecord(r) /\ r.src = o.src /\ r.work = o.work /\ r.committed = o.committed
      /\ r.pages = o.pages /\ r.status = "password" /\ r.prev = o.prev /\ r.locked = TRUE
  BY <1>1, Fields
<1> QED BY <1>1, <1>2, Zenon DEF Answer, SameBut

LEMMA LoadAnswers ==
  ASSUME DocTypes, NEW d \in DocIds, NEW gone, gone \subseteq docs[d].prev,
         LoadedAndClosed(docs', d, gone)
  PROVE  /\ Answer(d, gone) /\ docs'[d].status = "loaded"
         /\ docs'[d].prev = {} /\ docs'[d].locked = docs[d].locked
<1> PICK r : r = docs'[d]
  OBVIOUS
<1> PICK o : o = docs[d]
  OBVIOUS
<1>1. r = [src |-> o.src, prev |-> {}, status |-> "loaded", locked |-> o.locked, work |-> o.work,
           committed |-> o.committed, pages |-> o.pages]
  BY Zenon DEF LoadedAndClosed
<1>2. /\ DocRecord(r) /\ r.src = o.src /\ r.work = o.work /\ r.committed = o.committed
      /\ r.pages = o.pages /\ r.status = "loaded" /\ r.prev = {} /\ r.locked = o.locked
  BY <1>1, Fields
<1> QED BY <1>2, Zenon DEF Answer, LoadedAndClosed

LEMMA EngineAnswers ==
  ASSUME DocTypes, NEW d \in DocIds, OpenAnswered(d) \/ LoadSettles(d)
  PROVE  Answers(d)
<1>0. /\ UNCHANGED <<engine, input, reading, resolved, sources, opened, dialog, started, lost, why>>
      /\ PanelFollows(panel.open) /\ JobsFollow(jobs)
  <2>1. CASE OpenAnswered(d)
    BY <2>1, Zenon DEF OpenAnswered
  <2>2. CASE LoadSettles(d)
    BY <2>2, Zenon DEF LoadSettles
  <2> QED BY <2>1, <2>2
<1>1. \E gone : Answer(d, gone) /\ Outcome(d, gone)
  <2>1. CASE OpenAnswered(d)
    <3>1. docs[d].status = "opening" /\ UNCHANGED active
      BY <2>1, Zenon DEF OpenAnswered
    <3>2. CASE /\ docs' = [docs EXCEPT ![d].status = "loading"]
               /\ requested' = IF opened = docs[d].src THEN d ELSE requested
               /\ UNCHANGED failed
      <4>1. /\ Answer(d, {}) /\ docs'[d].status = "loading"
            /\ docs'[d].prev = docs[d].prev /\ docs'[d].locked = docs[d].locked
        BY <3>2, StatusAnswers, Zenon
      <4>2. Outcome(d, {})
        BY <3>1, <3>2, <4>1, Zenon DEF Outcome, Heard
      <4> QED BY <4>1, <4>2
    <3>3. CASE /\ docs' = [docs EXCEPT ![d].status = "error"]
               /\ failed' = IF opened = docs[d].src THEN docs[d].src ELSE failed
               /\ UNCHANGED requested
      <4>1. /\ Answer(d, {}) /\ docs'[d].status = "error"
            /\ docs'[d].prev = docs[d].prev /\ docs'[d].locked = docs[d].locked
        BY <3>3, StatusAnswers, Zenon
      <4>2. Outcome(d, {})
        BY <3>1, <3>3, <4>1, Zenon DEF Outcome, Heard
      <4> QED BY <4>1, <4>2
    <3> QED BY <2>1, <3>2, <3>3, Zenon DEF OpenAnswered
  <2>2. CASE LoadSettles(d)
    <3>1. docs[d].status = "loading" /\ UNCHANGED requested
      BY <2>2, Zenon DEF LoadSettles
    <3>2. CASE /\ docs' = CloseAll([docs EXCEPT ![d].status = "loaded", ![d].prev = {}],
                                   IF Heard(d) THEN docs[d].prev \ {d} ELSE {})
               /\ active' = IF Heard(d) THEN d ELSE active
               /\ UNCHANGED failed
      <4> DEFINE gone == IF Heard(d) THEN docs[d].prev ELSE {}
      <4>0. docs[d].prev \ {d} = docs[d].prev
        <5>1. docs[d].prev \subseteq 1..(d - 1) /\ d \in Nat
          BY DEF DocTypes, DocFits, DocIds
        <5>2. d \notin 1..(d - 1)
          BY <5>1
        <5> QED BY <5>1, <5>2
      <4>1. docs' = CloseAll([docs EXCEPT ![d].status = "loaded", ![d].prev = {}], gone)
        BY <3>2, <4>0, Zenon
      <4>2. gone \subseteq docs[d].prev /\ d \notin gone
        BY <4>0, Zenon
      <4>5. LoadedAndClosed(docs', d, gone)
        <5> HIDE DEF gone
        <5> QED BY <4>1, <4>2, LoadedDocs, Zenon
      <4>3. /\ Answer(d, gone) /\ docs'[d].status = "loaded"
            /\ docs'[d].prev = {} /\ docs'[d].locked = docs[d].locked
        <5> HIDE DEF gone
        <5> QED BY <4>2, <4>5, LoadAnswers, Zenon
      <4>4. Outcome(d, gone)
        BY <3>1, <3>2, <4>3, Zenon DEF Outcome
      <4> QED BY <4>3, <4>4, Zenon
    <3>3. CASE /\ docs' = [docs EXCEPT ![d].status = "password", ![d].locked = TRUE]
               /\ active' = IF Heard(d) THEN d ELSE active
               /\ UNCHANGED failed
      <4>1. /\ Answer(d, {}) /\ docs'[d].status = "password"
            /\ docs'[d].prev = docs[d].prev /\ docs'[d].locked = TRUE
        BY <3>3, LockAnswers, Zenon
      <4>2. Outcome(d, {})
        BY <3>1, <3>3, <4>1, Zenon DEF Outcome
      <4> QED BY <4>1, <4>2
    <3>4. CASE /\ docs' = [docs EXCEPT ![d].status = "error"]
               /\ failed' = IF Heard(d) THEN docs[d].src ELSE failed
               /\ UNCHANGED active
      <4>1. /\ Answer(d, {}) /\ docs'[d].status = "error"
            /\ docs'[d].prev = docs[d].prev /\ docs'[d].locked = docs[d].locked
        BY <3>4, StatusAnswers, Zenon
      <4>2. docs[d].status \in {"opening", "loading"}
        BY <3>1
      <4>3. Outcome(d, {})
        BY <3>1, <3>4, <4>1, <4>2, Zenon DEF Outcome
      <4> QED BY <4>1, <4>3
    <3> QED BY <2>2, <3>2, <3>3, <3>4, Zenon DEF LoadSettles, Heard
  <2> QED BY <2>1, <2>2
<1> QED BY <1>0, <1>1, Zenon DEF Answers

(* One document was edited, committed or unlocked.                          *)
OneChange(d) ==
  /\ \E S : docs' \in Seq(S)
  /\ Len(docs') = Len(docs)
  /\ \A e \in DocIds : e # d => docs'[e] = docs[e]
  /\ DocRecord(docs'[d]) /\ docs'[d].src = docs[d].src /\ docs'[d].prev = docs[d].prev
  /\ docs'[d].locked = docs[d].locked /\ docs'[d].pages = docs[d].pages
  /\ docs'[d].work \in Nat /\ docs'[d].committed \in Nat
  /\ UNCHANGED <<engine, input, reading, resolved, sources, opened, requested, active, failed>>
  /\ why \subseteq why'

Worked(d, w, c) ==
  /\ OneChange(d) /\ docs'[d].work = w /\ docs'[d].committed = c
  /\ docs'[d].status = docs[d].status

Unlocks(d) ==
  /\ OneChange(d) /\ docs'[d].work = docs[d].work /\ docs'[d].committed = docs[d].committed
  /\ docs[d].status = "password" /\ docs'[d].status = "loaded"
  /\ UNCHANGED <<panel, dialog, jobs, started, lost, why>>

LEMMA ActiveIsOne ==
  ASSUME DocTypes, IsRequested
  PROVE  active \in DocIds /\ requested = active
  BY DEF DocTypes, IsRequested, DocIds

LEMMA Retries ==
  ASSUME DocTypes, RetryDocument
  PROVE  active \in DocIds /\ Unlocks(active)
<1>1. IsRequested /\ docs[active].status = "password"
  <2>1. Shown = "password"
    BY Zenon DEF RetryDocument
  <2> QED BY <2>1 DEF Shown
<1>2. active \in DocIds
  BY <1>1, ActiveIsOne
<1> PICK d \in DocIds : d = active
  BY <1>2
<1>3. UNCHANGED <<engine, input, reading, resolved, sources, opened, requested,
                 active, failed, panel, dialog, jobs, started, lost, why>>
  BY Zenon DEF RetryDocument
<1>4. docs' = [docs EXCEPT ![d].status = "loaded"]
  BY Zenon DEF RetryDocument
<1>5. StatusOnly(d, "loaded")
  BY <1>4, StatusGoes, Zenon
<1>7. docs[d].work \in Nat /\ docs[d].committed \in Nat
  BY DEF DocTypes, DocFits
<1>8. OneChange(d)
  BY <1>3, <1>5, <1>7, Zenon DEF OneChange, SameBut, StatusOnly
<1>9. Unlocks(d)
  BY <1>1, <1>3, <1>5, <1>8, Zenon DEF Unlocks, StatusOnly
<1> QED BY <1>2, <1>9

LEMMA Works ==
  ASSUME DocTypes, NEW d \in DocIds, NEW n \in Nat,
         UNCHANGED <<engine, input, reading, resolved, sources, opened, requested, active, failed>>,
         why \subseteq why'
  PROVE  /\ docs' = [docs EXCEPT ![d].work = n] => Worked(d, n, docs[d].committed)
         /\ docs' = [docs EXCEPT ![d].committed = n] => Worked(d, docs[d].work, n)
<1> PICK o : o = docs[d]
  OBVIOUS
<1>0. o.work \in Nat /\ o.committed \in Nat
  BY DEF DocTypes, DocFits
<1>1. ASSUME NEW ds, ds = docs', SameBut(ds, d), NEW w \in Nat, NEW c \in Nat,
             ds[d] = [src |-> o.src, prev |-> o.prev, status |-> o.status, locked |-> o.locked,
                      work |-> w, committed |-> c, pages |-> o.pages]
      PROVE  Worked(d, w, c)
  <2> PICK r : r = ds[d]
    OBVIOUS
  <2>1. /\ DocRecord(r) /\ r.src = o.src /\ r.work = w /\ r.committed = c
        /\ r.pages = o.pages /\ r.status = o.status /\ r.prev = o.prev /\ r.locked = o.locked
    BY <1>1, Fields
  <2>2. OneChange(d)
    BY <1>1, <2>1, Zenon DEF OneChange, SameBut
  <2> QED BY <1>1, <2>1, <2>2, Zenon DEF Worked
<1>2. ASSUME docs' = [docs EXCEPT ![d].work = n]
      PROVE  Worked(d, n, docs[d].committed)
  <2> PICK ds : ds = docs'
    OBVIOUS
  <2>1. SameBut(ds, d) /\ ds[d] = [src |-> o.src, prev |-> o.prev, status |-> o.status,
          locked |-> o.locked, work |-> n, committed |-> o.committed, pages |-> o.pages]
    <3>1. ds = [docs EXCEPT ![d].work = n]
      BY <1>2, Zenon
    <3>2. SameBut(ds, d) /\ ds[d] = [src |-> docs[d].src, prev |-> docs[d].prev,
            status |-> docs[d].status, locked |-> docs[d].locked, work |-> n,
            committed |-> docs[d].committed, pages |-> docs[d].pages]
      BY <3>1, EditsChange, Zenon
    <3> QED BY <3>2
  <2> QED BY <1>0, <1>1, <2>1, Zenon
<1>3. ASSUME docs' = [docs EXCEPT ![d].committed = n]
      PROVE  Worked(d, docs[d].work, n)
  <2> PICK ds : ds = docs'
    OBVIOUS
  <2>1. SameBut(ds, d) /\ ds[d] = [src |-> o.src, prev |-> o.prev, status |-> o.status,
          locked |-> o.locked, work |-> o.work, committed |-> n, pages |-> o.pages]
    <3>1. ds = [docs EXCEPT ![d].committed = n]
      BY <1>3, Zenon
    <3>2. SameBut(ds, d) /\ ds[d] = [src |-> docs[d].src, prev |-> docs[d].prev,
            status |-> docs[d].status, locked |-> docs[d].locked, work |-> docs[d].work,
            committed |-> n, pages |-> docs[d].pages]
      BY <3>1, EditsChange, Zenon
    <3> QED BY <3>2
  <2> QED BY <1>0, <1>1, <2>1, Zenon
<1> QED BY <1>2, <1>3

-----------------------------------------------------------------------------
(* The documents, and what is known of the source, rest.                    *)
Rests ==
  /\ UNCHANGED <<engine, input, resolved, sources, opened, docs, requested, active, failed>>
  /\ why \subseteq why' /\ (reading' = reading \/ "unread" \in why')

(* The source may have changed: it is opened if it has.                     *)
Renews(p) ==
  /\ OpenSource(engine', Source', p) /\ UNCHANGED requested /\ why \subseteq why'
  /\ engine' \in {"loading", "ready", "failed"} /\ (engine = "ready" => engine' = "ready")
  /\ input' \in [ver : Nat \ {0}, kind : {"url", "blob"}]
  /\ resolved' \in Versioned /\ sources' \in Nat
  /\ input.ver <= input'.ver /\ sources <= sources'
  /\ resolved'.n <= sources' /\ resolved'.ver <= input'.ver
  /\ "stale" \notin why' =>
       /\ engine = "ready" =>
            Source' \in {NoSource, opened} \/ \A d \in DocIds : docs[d].src # Source'
       /\ "unread" \notin why' /\ input'.kind = "blob" =>
            reading' \/ resolved'.ver = input'.ver

LEMMA Settles ==
  ASSUME DocTypes, Numbers, Opening, EngineSettles
  PROVE  Renews(Pages)
<1>1. /\ engine = "loading" /\ engine' \in {"ready", "failed"}
      /\ OpenSource(engine', Source, Pages)
      /\ UNCHANGED <<input, reading, resolved, sources, requested, why>>
  BY Zenon DEF EngineSettles
<1>2. OpenSource(engine', Source', Pages)
  BY <1>1, Zenon DEF Source, SourceOf
<1>3. engine # "ready" /\ engine' \in {"loading", "ready", "failed"}
  BY <1>1
<1>4. /\ input' \in [ver : Nat \ {0}, kind : {"url", "blob"}]
      /\ resolved' \in Versioned /\ sources' \in Nat
      /\ input.ver <= input'.ver /\ sources <= sources'
      /\ resolved'.n <= sources' /\ resolved'.ver <= input'.ver
  BY <1>1 DEF DocTypes, Numbers
<1>5. "stale" \notin why' /\ "unread" \notin why' /\ input'.kind = "blob" =>
        reading' \/ resolved'.ver = input'.ver
  BY <1>1, Zenon DEF Opening
<1> QED BY <1>1, <1>2, <1>3, <1>4, <1>5, Zenon DEF Renews

LEMMA InputChanges ==
  ASSUME DocTypes, Numbers, Opening, ChangeInput
  PROVE  Renews(Pages)
<1>1. PICK k \in {"url", "blob"} :
        /\ input' = [ver |-> input.ver + 1, kind |-> k]
        /\ reading' = (k = "blob")
        /\ OpenSource(engine, SourceOf(input', resolved), Pages)
  BY Zenon DEF ChangeInput
<1>2. UNCHANGED <<engine, resolved, sources, requested, why>>
  BY Zenon DEF ChangeInput
<1>3. OpenSource(engine', Source', Pages)
  BY <1>1, <1>2, Zenon DEF Source
<1>4. input.ver \in Nat /\ resolved.ver \in Nat /\ resolved.ver <= input.ver
  BY DEF DocTypes, Versioned, Numbers
<1>5. input'.ver = input.ver + 1 /\ input'.kind = k
  BY <1>1
<1>6. /\ input' \in [ver : Nat \ {0}, kind : {"url", "blob"}]
      /\ resolved' \in Versioned /\ sources' \in Nat
      /\ input.ver <= input'.ver /\ sources <= sources'
      /\ resolved'.n <= sources' /\ resolved'.ver <= input'.ver
  <2>1. input' \in [ver : Nat \ {0}, kind : {"url", "blob"}] /\ input.ver <= input'.ver
    BY <1>1, <1>4
  <2>2. /\ resolved' \in Versioned /\ sources' \in Nat /\ sources <= sources'
        /\ resolved'.n <= sources' /\ resolved'.ver <= input'.ver
    BY <1>2, <1>4, <1>5 DEF DocTypes, Numbers, Versioned
  <2> QED BY <2>1, <2>2
<1>7. Source' = NoSource \/ Source'.ver = input.ver + 1
  BY <1>2, <1>4, <1>5 DEF Source, SourceOf
<1>8. \A d \in DocIds : docs[d].src.ver \in Nat /\ docs[d].src.ver <= input.ver
  BY DEF DocTypes, DocFits, Versioned, Numbers
<1>9. Source' \in {NoSource, opened} \/ \A d \in DocIds : docs[d].src # Source'
  BY <1>4, <1>7, <1>8
<1>10. input'.kind = "blob" => reading'
  BY <1>1, <1>5, Zenon
<1>11. engine' \in {"loading", "ready", "failed"} /\ (engine = "ready" => engine' = "ready")
       /\ why \subseteq why' /\ UNCHANGED requested
  BY <1>2 DEF DocTypes
<1> QED BY <1>3, <1>6, <1>9, <1>10, <1>11, Zenon DEF Renews

LEMMA BlobReads ==
  ASSUME DocTypes, Numbers, Opening, BlobRead
  PROVE  Renews(Pages) \/ Rests
<1>1. UNCHANGED <<engine, input, requested>>
  BY Zenon DEF BlobRead
<1>2. CASE /\ sources' = sources + 1
           /\ resolved' = [ver |-> input.ver, n |-> sources']
           /\ OpenSource(engine, resolved', Pages)
           /\ UNCHANGED why
  <2>1. sources \in Nat /\ input.ver \in Nat
    BY DEF DocTypes
  <2>2. resolved'.ver = input.ver /\ resolved'.n = sources + 1
    BY <1>2
  <2>3. Source' = resolved'
    BY <1>1, <2>2, Zenon DEF Source, SourceOf
  <2>4. OpenSource(engine', Source', Pages)
    BY <1>1, <1>2, <2>3, Zenon
  <2>5. resolved' \in Versioned /\ sources' \in Nat
    BY <1>2, <2>1 DEF Versioned
  <2>6. input' \in [ver : Nat \ {0}, kind : {"url", "blob"}]
    BY <1>1, Zenon DEF DocTypes
  <2>7. \A d \in DocIds : docs[d].src.n <= sources
    BY DEF Numbers
  <2>8. \A d \in DocIds : docs[d].src # Source'
    BY <2>1, <2>2, <2>3, <2>7
  <2>9. engine' \in {"loading", "ready", "failed"} /\ (engine = "ready" => engine' = "ready")
    BY <1>1 DEF DocTypes
  <2>10. why \subseteq why'
    BY <1>2
  <2>11. /\ input.ver <= input'.ver /\ sources <= sources'
         /\ resolved'.n <= sources' /\ resolved'.ver <= input'.ver
         /\ resolved'.ver = input'.ver
    BY <1>1, <1>2, <2>1, <2>2
  <2>12. Renews(Pages)
    BY <1>1, <2>4, <2>5, <2>6, <2>8, <2>9, <2>10, <2>11, Zenon DEF Renews
  <2> QED BY <2>12
<1>3. CASE /\ why' = why \cup {"unread"}
           /\ UNCHANGED <<sources, resolved, opened, failed, docs, active>>
  <2>1. why \subseteq why' /\ "unread" \in why'
    BY <1>3
  <2>2. Rests
    BY <1>1, <1>3, <2>1, Zenon DEF Rests
  <2> QED BY <2>2
<1> QED BY <1>2, <1>3, Zenon DEF BlobRead

LEMMA Lands ==
  ASSUME DocTypes, Numbers, Opening, NEW j \in jobs, JobFits(j), JobLands(j)
  PROVE  \E p \in {Pages, j.pages} : Renews(p)
<1>1. PICK p \in {Pages, j.pages} : OpenSource(engine, SourceOf(input, resolved'), p)
  BY Zenon DEF JobLands
<1>2. /\ UNCHANGED <<engine, input, reading, requested>>
      /\ sources' = sources + 1
      /\ resolved' = [ver |-> j.ver, n |-> sources']
  BY Zenon DEF JobLands
<1>3. why \subseteq why' /\ (j.ver # input.ver => "stale" \in why')
  <2>1. why' = why \cup (IF j.ver # input.ver THEN {"stale"} ELSE {})
                \cup (IF j.doc # active THEN {"superseded"} ELSE {})
    BY Zenon DEF JobLands
  <2> QED BY <2>1
<1>4. OpenSource(engine', Source', p)
  BY <1>1, <1>2, Zenon DEF Source
<1>5. sources \in Nat /\ input.ver \in Nat /\ j.ver \in Nat /\ j.ver <= input.ver
  BY DEF DocTypes, JobFits
<1>6. resolved'.ver = j.ver /\ resolved'.n = sources + 1
  BY <1>2
<1>7. resolved' \in Versioned /\ sources' \in Nat
  BY <1>2, <1>5 DEF Versioned
<1>8. input' \in [ver : Nat \ {0}, kind : {"url", "blob"}]
  BY <1>2, Zenon DEF DocTypes
<1>9. engine' \in {"loading", "ready", "failed"} /\ (engine = "ready" => engine' = "ready")
  BY <1>2 DEF DocTypes
<1>10. /\ input.ver <= input'.ver /\ sources <= sources'
       /\ resolved'.n <= sources' /\ resolved'.ver <= input'.ver
  BY <1>2, <1>5, <1>6
<1>11. j.ver = input.ver => Source' = resolved'
  BY <1>2, <1>6, Zenon DEF Source, SourceOf
<1>12. \A d \in DocIds : docs[d].src.n <= sources
  BY DEF Numbers
<1>13. j.ver = input.ver => \A d \in DocIds : docs[d].src # Source'
  BY <1>5, <1>6, <1>11, <1>12
<1>14. j.ver = input.ver => resolved'.ver = input'.ver
  BY <1>2, <1>6
<1>15. Renews(p)
  BY <1>2, <1>3, <1>4, <1>7, <1>8, <1>9, <1>10, <1>13, <1>14, Zenon DEF Renews
<1> QED BY <1>1, <1>15

-----------------------------------------------------------------------------
(* What a step does to the edits: none of them changes them for the         *)
(* documents there were, and a new document has none.                       *)
WorkKept ==
  /\ DocIds \subseteq DocIds'
  /\ \A d \in DocIds : docs'[d].work = docs[d].work /\ docs'[d].committed = docs[d].committed
  /\ \A d \in DocIds' : d \notin DocIds => docs'[d].work = 0 /\ docs'[d].committed = 0

LEMMA RestKeepsTypes ==
  ASSUME DocTypes, Rests
  PROVE  DocTypes' /\ WorkKept
<1>1. UNCHANGED <<engine, input, resolved, sources, opened, docs, requested, active>>
  BY Zenon DEF Rests
<1>2. DocTypes'
  BY <1>1, Zenon DEF DocTypes, DocFits, DocIds
<1>3. WorkKept
  BY <1>1, Zenon DEF WorkKept, DocIds
<1> QED BY <1>2, <1>3

LEMMA RenewalKeepsTypes ==
  ASSUME DocTypes, NEW p \in Int, Renews(p)
  PROVE  DocTypes' /\ WorkKept
<1>1. Source' \in Versioned
  <2>1. input' \in [ver : Nat \ {0}, kind : {"url", "blob"}] /\ resolved' \in Versioned
    BY Zenon DEF Renews
  <2>2. SourceOf(input', resolved') \in Versioned
    BY <2>1, SourceIsVersioned
  <2> QED BY <2>2, Zenon DEF Source
<1>2. OpenSource(engine', Source', p)
  BY Zenon DEF Renews
<1>3. DocTypes'
  BY <1>1, <1>2, OpeningKeepsTypes, Zenon DEF Renews
<1>4. WorkKept
  <2>1. CASE UNCHANGED docs
    BY <2>1, Zenon DEF WorkKept, DocIds
  <2>2. CASE Appends(Source', p)
    <3>1. Len(docs) \in Nat /\ Len(docs') = Len(docs) + 1
      BY <2>2 DEF DocTypes, Appends
    <3>2. /\ DocIds \subseteq DocIds'
          /\ \A d \in DocIds' : d \notin DocIds => d = Len(docs')
      BY <3>1 DEF DocIds
    <3> QED BY <2>2, <3>2, Zenon DEF WorkKept, Appends
  <2> QED BY <1>2, <2>1, <2>2, Opens
<1> QED BY <1>3, <1>4

LEMMA AnswerKeepsTypes ==
  ASSUME DocTypes, NEW d \in DocIds, Answers(d)
  PROVE  DocTypes' /\ WorkKept
<1>1. PICK gone : Answer(d, gone) /\ Outcome(d, gone)
  BY Zenon DEF Answers
<1>2. UNCHANGED <<engine, input, reading, resolved, sources, opened>>
  BY Zenon DEF Answers
<1>3. Len(docs) \in Nat /\ DocIds' = DocIds /\ Len(docs') = Len(docs)
  BY <1>1 DEF Answer, DocIds, DocTypes
<1>4. ASSUME NEW e \in DocIds PROVE DocFits(docs', e)
  <2>1. CASE e = d
    <3>1. docs'[d].status \in Statuses
      BY <1>1, Zenon DEF Outcome, Statuses
    <3>2. docs'[d].prev \subseteq docs[d].prev
      BY <1>1, Zenon DEF Outcome
    <3>3. DocFits(docs, d)
      BY DEF DocTypes
    <3>4. docs'[d].prev \subseteq 1..(d - 1)
      BY <3>2, <3>3, Zenon DEF DocFits
    <3>5. /\ DocRecord(docs'[d]) /\ docs'[d].src \in Versioned
          /\ docs'[d].work \in Nat /\ docs'[d].committed \in Nat /\ docs'[d].pages \in Int
      BY <1>1, <3>3, Zenon DEF DocFits, Answer
    <3> QED BY <2>1, <3>1, <3>4, <3>5, Zenon DEF DocFits
  <2>2. CASE e # d /\ e \notin gone
    BY <1>1, <2>2, Zenon DEF DocTypes, DocFits, Answer
  <2>3. CASE e # d /\ e \in gone
    <3> PICK o : o = docs[e]
      OBVIOUS
    <3> PICK r : r = docs'[e]
      OBVIOUS
    <3>1. r = [src |-> NoSource, prev |-> {}, status |-> "closed", locked |-> FALSE,
               work |-> o.work, committed |-> o.committed, pages |-> 0]
      BY <1>1, <2>3, Zenon DEF Answer
    <3>2. DocRecord(r) /\ r.src = NoSource /\ r.work = o.work /\ r.committed = o.committed
          /\ r.pages = 0 /\ r.status = "closed" /\ r.prev = {}
      BY <3>1, Fields
    <3>3. o.work \in Nat /\ o.committed \in Nat
      BY DEF DocTypes, DocFits
    <3>4. NoSource \in Versioned /\ 0 \in Int /\ "closed" \in Statuses
      BY DEF NoSource, Versioned, Statuses
    <3> QED BY <3>2, <3>3, <3>4, Zenon DEF DocFits
  <2> QED BY <2>1, <2>2, <2>3
<1>5. active' \in 0..Len(docs) /\ requested' \in 0..Len(docs)
  <2>1. active' \in {active, d} /\ requested' \in {requested, d}
    BY <1>1, Zenon DEF Outcome
  <2>2. d \in 0..Len(docs)
    BY <1>3 DEF DocIds
  <2> QED BY <2>1, <2>2 DEF DocTypes
<1>6. \E S : docs' \in Seq(S)
  BY <1>1, Zenon DEF Answer
<1>7. DocTypes'
  BY <1>2, <1>3, <1>4, <1>5, <1>6, Zenon DEF DocTypes
<1>8. WorkKept
  <2>1. ASSUME NEW e \in DocIds
        PROVE  docs'[e].work = docs[e].work /\ docs'[e].committed = docs[e].committed
    <3>1. CASE e = d
      BY <1>1, <3>1, Zenon DEF Answer
    <3>2. CASE e # d /\ e \notin gone
      BY <1>1, <3>2, Zenon DEF Answer
    <3>3. CASE e # d /\ e \in gone
      <4> PICK w, c : w = docs[e].work /\ c = docs[e].committed
        OBVIOUS
      <4>1. docs'[e] = [src |-> NoSource, prev |-> {}, status |-> "closed", locked |-> FALSE,
                   work |-> w, committed |-> c, pages |-> 0]
        BY <1>1, <3>3, Zenon DEF Answer
      <4> QED BY <4>1
    <3> QED BY <3>1, <3>2, <3>3
  <2> QED BY <1>3, <2>1, Zenon DEF WorkKept
<1> QED BY <1>7, <1>8

LEMMA ChangeKeepsTypes ==
  ASSUME DocTypes, NEW d \in DocIds, OneChange(d), docs'[d].status \in Statuses
  PROVE  DocTypes'
<1>1. UNCHANGED <<engine, input, reading, resolved, sources, opened, requested, active, failed>>
  BY Zenon DEF OneChange
<1>2. Len(docs) \in Nat /\ DocIds' = DocIds /\ Len(docs') = Len(docs)
  BY DEF OneChange, DocIds, DocTypes
<1>3. ASSUME NEW e \in DocIds PROVE DocFits(docs', e)
  <2>1. CASE e = d
    BY <2>1, Zenon DEF DocTypes, DocFits, OneChange
  <2>2. CASE e # d
    BY <2>2, Zenon DEF DocTypes, DocFits, OneChange
  <2> QED BY <2>1, <2>2
<1>4. \E S : docs' \in Seq(S)
  BY Zenon DEF OneChange
<1> QED BY <1>1, <1>2, <1>3, <1>4, Zenon DEF DocTypes

-----------------------------------------------------------------------------
LEMMA RestKeepsOpening ==
  ASSUME DocTypes, Numbers, Opening, Latest, Rests
  PROVE  Numbers' /\ Opening' /\ Latest'
<1>1. /\ UNCHANGED <<engine, input, resolved, sources, opened, docs, requested, active, failed>>
      /\ why \subseteq why' /\ (reading' = reading \/ "unread" \in why')
  BY Zenon DEF Rests
<1>2. Numbers' /\ DocIds' = DocIds /\ Newest' = Newest
  BY <1>1, Zenon DEF Numbers, DocIds, Newest
<1>3. ("stale" \notin why' => "stale" \notin why) /\ ("unread" \notin why' => "unread" \notin why)
  BY <1>1
<1>4. Source' = Source
  BY <1>1, Zenon DEF Source, SourceOf
<1>5. Opening'
  <2>1. ASSUME "stale" \notin why'
        PROVE  /\ engine = "ready" => Source \in {NoSource, opened}
               /\ \A d, e \in DocIds :
                    docs[d].src = docs[e].src /\ docs[d].status # "closed" => d = e
               /\ "unread" \notin why' /\ input.kind = "blob" =>
                    reading' \/ resolved.ver = input.ver
    BY <1>1, <1>3, <2>1 DEF Opening
  <2>2. /\ engine # "ready" => Len(docs) = 0
        /\ IF Len(docs) = 0 THEN opened = NoSource ELSE docs[Newest].src = opened
        /\ \A d \in DocIds : /\ docs[d].status = "closed" <=> docs[d].src = NoSource
                             /\ docs[d].status = "password" => docs[d].locked
    BY DEF Opening
  <2> QED BY <1>1, <1>2, <1>4, <2>1, <2>2, Zenon DEF Opening
<1>6. Latest'
  BY <1>1, <1>2, <1>3, Zenon DEF Latest
<1> QED BY <1>2, <1>5, <1>6

LEMMA RenewalKeepsOpening ==
  ASSUME DocTypes, Numbers, Opening, Latest, NEW p \in Int, Renews(p)
  PROVE  Numbers' /\ Opening' /\ Latest'
<1>0. DocTypes' /\ Len(docs) \in Nat
  BY RenewalKeepsTypes DEF DocTypes
<1>1. /\ OpenSource(engine', Source', p) /\ UNCHANGED requested
      /\ (engine = "ready" => engine' = "ready")
      /\ input.ver <= input'.ver /\ sources <= sources'
      /\ resolved'.n <= sources' /\ resolved'.ver <= input'.ver
  BY Zenon DEF Renews
<1>2. ("stale" \notin why' => "stale" \notin why) /\ ("unread" \notin why' => "unread" \notin why)
  <2>1. why \subseteq why'
    BY Zenon DEF Renews
  <2> QED BY <2>1
<1>3. /\ "stale" \notin why' =>
           /\ engine = "ready" =>
                Source' \in {NoSource, opened} \/ \A d \in DocIds : docs[d].src # Source'
           /\ "unread" \notin why' /\ input'.kind = "blob" =>
                reading' \/ resolved'.ver = input'.ver
  BY Zenon DEF Renews
<1>4. \A d \in DocIds : docs[d].src.n <= sources' /\ docs[d].src.ver <= input'.ver
  <2>1. sources <= sources' /\ input.ver <= input'.ver
    BY <1>1
  <2>2. sources \in Nat /\ sources' \in Nat /\ input.ver \in Nat /\ input'.ver \in Nat
    BY <1>0 DEF DocTypes
  <2>3. ASSUME NEW d \in DocIds
        PROVE  docs[d].src.n <= sources' /\ docs[d].src.ver <= input'.ver
    <3>1. docs[d].src \in Versioned
      BY DEF DocTypes, DocFits
    <3>2. docs[d].src.n <= sources /\ docs[d].src.ver <= input.ver
      BY DEF Numbers
    <3> QED BY <2>1, <2>2, <3>1, <3>2 DEF Versioned
  <2> QED BY <2>3
<1>5. CASE /\ engine' # "ready" \/ Source' = NoSource \/ opened = Source'
           /\ UNCHANGED <<opened, failed, docs, active>>
  <2>1. DocIds' = DocIds /\ Newest' = Newest /\ UNCHANGED <<opened, failed, docs, active, requested>>
    BY <1>1, <1>5, Zenon DEF DocIds, Newest
  <2>2. Numbers'
    BY <1>1, <1>4, <2>1, Zenon DEF Numbers
  <2>3. engine' = "ready" => Source' \in {NoSource, opened'}
    BY <1>5
  <2>4. Opening'
    BY <1>1, <1>2, <1>3, <2>1, <2>3, Zenon DEF Opening
  <2>5. Latest'
    BY <1>2, <2>1, Zenon DEF Latest
  <2> QED BY <2>2, <2>4, <2>5
<1>6. CASE engine' = "ready" /\ Appends(Source', p)
  <2> PICK n : n = Len(docs')
    OBVIOUS
  <2> PICK r : r = docs'[n]
    OBVIOUS
  <2>1. /\ Source' # NoSource /\ opened' = Source' /\ Len(docs') = Len(docs) + 1
        /\ \A d \in DocIds : docs'[d] = docs[d]
        /\ r.src = Source' /\ r.prev = OpenDocs /\ r.status = "opening" /\ ~r.locked
    BY <1>6, Zenon DEF Appends
  <2>2. /\ Newest' = n /\ n \in Nat /\ n > 0 /\ n \notin DocIds /\ DocIds' = DocIds \cup {n}
    BY <1>0, <2>1 DEF DocIds, Newest
  <2>3. Source'.n <= sources' /\ Source'.ver <= input'.ver
    <3>1. Source' \in {resolved', [ver |-> input'.ver, n |-> 0], NoSource}
      BY Zenon DEF Source, SourceOf
    <3>2. input'.ver \in Nat /\ sources' \in Nat
      BY <1>0 DEF DocTypes
    <3> QED BY <1>1, <3>1, <3>2 DEF NoSource
  <2>4. Numbers'
    <3>1. ASSUME NEW d \in DocIds' PROVE docs'[d].src.n <= sources' /\ docs'[d].src.ver <= input'.ver
      BY <1>4, <2>1, <2>2, <2>3
    <3> QED BY <1>1, <3>1, Zenon DEF Numbers
  <2>5. Opening'
    <3>1. engine' # "ready" => Len(docs') = 0
      BY <1>6
    <3>2. IF Len(docs') = 0 THEN opened' = NoSource ELSE docs'[Newest'].src = opened'
      BY <2>1, <2>2
    <3>3. \A d \in DocIds' : /\ docs'[d].status = "closed" <=> docs'[d].src = NoSource
                             /\ docs'[d].status = "password" => docs'[d].locked
      <4>1. \A d \in DocIds : /\ docs'[d].status = "closed" <=> docs'[d].src = NoSource
                              /\ docs'[d].status = "password" => docs'[d].locked
        BY <2>1, Zenon DEF Opening
      <4>2. r.status # "closed" /\ r.status # "password" /\ r.src # NoSource
        BY <2>1
      <4> QED BY <2>2, <4>1, <4>2, Zenon
    <3>4. ASSUME "stale" \notin why'
          PROVE  /\ engine' = "ready" => Source' \in {NoSource, opened'}
                 /\ \A d, e \in DocIds' :
                      docs'[d].src = docs'[e].src /\ docs'[d].status # "closed" => d = e
                 /\ "unread" \notin why' /\ input'.kind = "blob" =>
                      reading' \/ resolved'.ver = input'.ver
      <4>1. \A d, e \in DocIds :
               docs'[d].src = docs'[e].src /\ docs'[d].status # "closed" => d = e
        <5>1. \A d, e \in DocIds : docs[d].src = docs[e].src /\ docs[d].status # "closed" => d = e
          BY <1>2, <3>4 DEF Opening
        <5> QED BY <2>1, <5>1, Zenon
      <4>2. \A d \in DocIds : docs'[d].src # r.src
        <5>1. CASE engine = "ready" /\ ~(Source' \in {NoSource, opened})
          BY <1>3, <2>1, <3>4, <5>1
        <5>2. CASE engine = "ready" /\ Source' \in {NoSource, opened}
          <6>1. Source' = opened
            BY <2>1, <5>2
          <6>2. ~(engine' # "ready" \/ Source' = NoSource \/ opened = Source') 
            BY <1>6, <2>1, <2>2, <1>1, <1>0 DEF OpenSource
          <6> QED BY <6>1, <6>2
        <5>3. CASE engine # "ready"
          BY <5>3, <1>0 DEF Opening, DocIds
        <5> QED BY <5>1, <5>2, <5>3
      <4>3. \A d, e \in DocIds' :
               docs'[d].src = docs'[e].src /\ docs'[d].status # "closed" => d = e
        BY <2>2, <4>1, <4>2, Zenon
      <4> QED BY <1>3, <2>1, <3>4, <4>3
    <3> QED BY <3>1, <3>2, <3>3, <3>4, Zenon DEF Opening
  <2>6. Latest'
    <3>1. \A d \in DocIds' : docs'[d].status # "closed" => d = Newest' \/ d \in docs'[Newest'].prev
      <4>1. \A d \in DocIds : docs'[d].status # "closed" => d \in r.prev
        BY <2>1, Zenon DEF OpenDocs
      <4> QED BY <2>2, <4>1, Zenon
    <3>2. docs'[Newest'].status = "opening"
      BY <2>1, <2>2, Zenon
    <3> QED BY <3>1, <3>2, Zenon DEF Latest
  <2> QED BY <2>4, <2>5, <2>6
<1> QED BY <1>1, <1>5, <1>6, Opens

(* What an answer leaves of the other documents.                            *)
LEMMA AnswerLeaves ==
  ASSUME DocTypes, NEW d \in DocIds, NEW gone, Answer(d, gone), Outcome(d, gone)
  PROVE  /\ docs[d].status \in {"opening", "loading"}
         /\ docs'[d].status \in {"loading", "error", "loaded", "password"}
         /\ \A e \in DocIds : e \in gone => /\ docs'[e].status = "closed"
                                           /\ docs'[e].src = NoSource /\ e # d /\ e # Newest
         /\ \A e \in DocIds : e \notin gone => docs'[e].src = docs[e].src
         /\ \A e \in DocIds : e \notin gone /\ e # d => docs'[e] = docs[e]
         /\ DocIds' = DocIds /\ Newest' = Newest /\ Newest \in DocIds
<1>1. docs[d].status \in {"opening", "loading"}
  BY DEF Outcome
<1>2. docs'[d].status \in {"loading", "error", "loaded", "password"}
  BY DEF Outcome
<1>3. ASSUME NEW e \in DocIds, e \in gone
      PROVE  docs'[e].status = "closed" /\ docs'[e].src = NoSource /\ e # d /\ e # Newest
  <2> PICK w, c : w = docs[e].work /\ c = docs[e].committed
    OBVIOUS
  <2>1. docs'[e] = [src |-> NoSource, prev |-> {}, status |-> "closed", locked |-> FALSE,
                    work |-> w, committed |-> c, pages |-> 0]
    BY <1>3, Zenon DEF Answer
  <2>2. docs'[e].status = "closed" /\ docs'[e].src = NoSource
    BY <2>1
  <2>3. e \in 1..(d - 1)
    BY <1>3 DEF Answer, DocTypes, DocFits
  <2>4. e # d /\ e # Len(docs)
    BY <2>3 DEF DocIds, DocTypes
  <2> QED BY <2>2, <2>4 DEF Newest
<1>4. \A e \in DocIds : e \notin gone /\ e # d => docs'[e] = docs[e]
  BY Zenon DEF Answer
<1>5. \A e \in DocIds : e \notin gone => docs'[e].src = docs[e].src
  BY <1>4, Zenon DEF Answer
<1>6. DocIds' = DocIds /\ Newest' = Newest
  BY Zenon DEF Answer, DocIds, Newest
<1>7. Newest \in DocIds
  BY DEF DocTypes, DocIds, Newest
<1> QED BY <1>1, <1>2, <1>3, <1>4, <1>5, <1>6, <1>7

LEMMA AnswerKeepsOpening ==
  ASSUME DocTypes, Numbers, Opening, Latest, NEW d \in DocIds, Answers(d)
  PROVE  Numbers' /\ Opening' /\ Latest'
<1>1. PICK gone : Answer(d, gone) /\ Outcome(d, gone)
  BY Zenon DEF Answers
<1>2. UNCHANGED <<engine, input, reading, resolved, sources, opened, why>>
  BY Zenon DEF Answers
<1>3. /\ docs[d].status \in {"opening", "loading"}
      /\ docs'[d].status \in {"loading", "error", "loaded", "password"}
      /\ \A e \in DocIds : e \in gone => /\ docs'[e].status = "closed"
                                        /\ docs'[e].src = NoSource /\ e # d /\ e # Newest
      /\ \A e \in DocIds : e \notin gone => docs'[e].src = docs[e].src
      /\ \A e \in DocIds : e \notin gone /\ e # d => docs'[e] = docs[e]
      /\ DocIds' = DocIds /\ Newest' = Newest /\ Newest \in DocIds
  BY <1>1, AnswerLeaves
<1>4. \A e \in DocIds : docs'[e].status # "closed" => docs[e].status # "closed" /\ e \notin gone
  BY <1>3
<1>5. Len(docs) \in Nat /\ Len(docs) # 0 /\ Len(docs') = Len(docs)
  BY <1>3 DEF DocTypes, DocIds, Newest
<1>6. docs[Newest].src = opened
  BY <1>5 DEF Opening
<1>7. /\ d = Newest => Heard(d)
      /\ "stale" \notin why => (Heard(d) <=> d = Newest)
  <2>1. d = Newest => Heard(d)
    BY <1>6 DEF Heard
  <2>2. docs[d].status # "closed"
    BY <1>3
  <2>3. ASSUME "stale" \notin why, Heard(d) PROVE d = Newest
    <3>1. \A a, b \in DocIds : docs[a].src = docs[b].src /\ docs[a].status # "closed" => a = b
      BY <2>3 DEF Opening
    <3> QED BY <1>3, <1>6, <2>2, <2>3, <3>1 DEF Heard
  <2> QED BY <2>1, <2>3
<1>8. Numbers'
  <2>1. ASSUME NEW e \in DocIds PROVE docs'[e].src.n <= sources /\ docs'[e].src.ver <= input.ver
    <3>1. CASE e \notin gone
      BY <1>3, <3>1 DEF Numbers
    <3>2. CASE e \in gone
      BY <1>3, <3>2 DEF NoSource, DocTypes
    <3> QED BY <3>1, <3>2
  <2> QED BY <1>2, <1>3, <2>1, Zenon DEF Numbers
<1>9. \A e \in DocIds : /\ docs'[e].status = "closed" <=> docs'[e].src = NoSource
                        /\ docs'[e].status = "password" => docs'[e].locked
  <2> TAKE e \in DocIds
  <2>1. CASE e = d
    <3>1. docs[d].src # NoSource
      BY <1>3 DEF Opening
    <3>2. docs'[d].src = docs[d].src /\ docs'[d].status # "closed"
      BY <1>3
    <3>3. docs'[d].status = "password" => docs'[d].locked
      BY <1>1 DEF Outcome
    <3> QED BY <2>1, <3>1, <3>2, <3>3
  <2>2. CASE e # d /\ e \notin gone
    <3>1. docs'[e] = docs[e]
      BY <1>3, <2>2
    <3> QED BY <3>1, Zenon DEF Opening
  <2>3. CASE e \in gone
    <3>1. docs'[e].status = "closed" /\ docs'[e].src = NoSource
      BY <1>3, <2>3
    <3> QED BY <3>1
  <2> QED BY <2>1, <2>2, <2>3
<1>10. Opening'
  <2>1. engine # "ready" => Len(docs) = 0
    BY DEF Opening
  <2>2. docs'[Newest].src = opened
    BY <1>3, <1>6, Zenon
  <2>3. ASSUME "stale" \notin why
        PROVE  /\ engine = "ready" => Source \in {NoSource, opened}
               /\ \A a, b \in DocIds :
                    docs'[a].src = docs'[b].src /\ docs'[a].status # "closed" => a = b
               /\ "unread" \notin why /\ input.kind = "blob" =>
                    reading \/ resolved.ver = input.ver
    <3>1. \A a, b \in DocIds : docs[a].src = docs[b].src /\ docs[a].status # "closed" => a = b
      BY <2>3 DEF Opening
    <3>2. ASSUME NEW a \in DocIds, NEW b \in DocIds,
                 docs'[a].src = docs'[b].src, docs'[a].status # "closed"
          PROVE  a = b
      <4>1. docs[a].status # "closed" /\ docs'[a].src = docs[a].src /\ docs'[a].src # NoSource
        BY <1>3, <1>4, <1>9, <3>2
      <4>2. b \notin gone
        BY <1>3, <3>2, <4>1
      <4>3. docs'[b].src = docs[b].src
        BY <1>3, <4>2
      <4> QED BY <3>1, <3>2, <4>1, <4>3
    <3> QED BY <2>3, <3>2 DEF Opening
  <2>4. Source' = Source
    BY <1>2, Zenon DEF Source, SourceOf
  <2> QED BY <1>2, <1>3, <1>5, <1>9, <2>1, <2>2, <2>3, <2>4, Zenon DEF Opening
<1>11. Latest'
  <2>1. docs'[Newest].status \in {"opening", "loading"} =>
          \A e \in DocIds : docs'[e].status # "closed" => e = Newest \/ e \in docs'[Newest].prev
    <3>1. SUFFICES ASSUME docs'[Newest].status \in {"opening", "loading"}, NEW e \in DocIds,
                          docs'[e].status # "closed", e # Newest
                   PROVE  e \in docs'[Newest].prev
      OBVIOUS
    <3>2. CASE d = Newest
      <4>1. docs[d].status = "opening" /\ docs'[d].prev = docs[d].prev /\ gone = {}
        BY <1>1, <3>1, <3>2 DEF Outcome
      <4>2. docs[e].status # "closed"
        BY <1>4, <3>1
      <4> QED BY <1>5, <3>1, <3>2, <4>1, <4>2 DEF Latest
    <3>3. CASE d # Newest
      <4>1. docs'[Newest] = docs[Newest]
        BY <1>3, <3>3, Zenon
      <4>2. docs[e].status # "closed"
        BY <1>4, <3>1
      <4> QED BY <1>5, <3>1, <4>1, <4>2 DEF Latest
    <3> QED BY <3>2, <3>3
  <2>2. docs'[Newest].status = "loaded" /\ ~docs'[Newest].locked =>
          \A e \in DocIds : docs'[e].status # "closed" => e = Newest
    <3>1. SUFFICES ASSUME docs'[Newest].status = "loaded", ~docs'[Newest].locked,
                          NEW e \in DocIds, docs'[e].status # "closed"
                   PROVE  e = Newest
      OBVIOUS
    <3>2. docs[e].status # "closed" /\ e \notin gone
      BY <1>4, <3>1
    <3>3. CASE d = Newest
      <4>1. docs[d].status = "loading" /\ gone = docs[d].prev
        BY <1>1, <1>7, <3>1, <3>3 DEF Outcome
      <4> QED BY <1>5, <3>2, <3>3, <4>1 DEF Latest
    <3>4. CASE d # Newest
      <4>1. docs'[Newest] = docs[Newest]
        BY <1>3, <3>4, Zenon
      <4>2. docs[d].status # "closed"
        BY <1>3
      <4> QED BY <1>5, <3>1, <3>4, <4>1, <4>2 DEF Latest
    <3> QED BY <3>3, <3>4
  <2>3. ASSUME "stale" \notin why
        PROVE  /\ docs'[Newest].status \in {"loading", "loaded", "password"} => requested' = Newest
               /\ docs'[Newest].status \in {"loaded", "password"} => active' = Newest
               /\ docs'[Newest].status = "error" => failed' = opened
    <3>1. /\ docs[Newest].status \in {"loading", "loaded", "password"} => requested = Newest
          /\ docs[Newest].status \in {"loaded", "password"} => active = Newest
          /\ docs[Newest].status = "error" => failed = opened
      BY <1>5, <2>3 DEF Latest
    <3>2. CASE d = Newest
      <4>1. Heard(d)
        BY <1>7, <3>2
      <4> QED BY <1>1, <1>6, <3>1, <3>2, <4>1 DEF Outcome
    <3>3. CASE d # Newest
      <4>1. ~Heard(d)
        BY <1>7, <2>3, <3>3
      <4>2. requested' = requested /\ active' = active /\ failed' = failed
        BY <1>1, <4>1, Zenon DEF Outcome
      <4>3. docs'[Newest] = docs[Newest]
        BY <1>3, <3>3, Zenon
      <4> QED BY <3>1, <4>2, <4>3
    <3> QED BY <3>2, <3>3
  <2> QED BY <1>2, <1>3, <1>5, <2>1, <2>2, <2>3, Zenon DEF Latest
<1> QED BY <1>8, <1>10, <1>11

LEMMA ChangeKeepsOpening ==
  ASSUME DocTypes, Numbers, Opening, Latest, NEW d \in DocIds, OneChange(d),
         \/ docs'[d].status = docs[d].status
         \/ docs[d].status = "password" /\ docs'[d].status = "loaded",
         reading' = reading
  PROVE  Numbers' /\ Opening' /\ Latest'
<1>1. /\ UNCHANGED <<engine, input, reading, resolved, sources, opened, requested, active, failed>>
      /\ Len(docs') = Len(docs)
      /\ \A e \in DocIds : e # d => docs'[e] = docs[e]
      /\ docs'[d].src = docs[d].src /\ docs'[d].prev = docs[d].prev
      /\ docs'[d].locked = docs[d].locked
  BY Zenon DEF OneChange
<1>2. ("stale" \notin why' => "stale" \notin why) /\ ("unread" \notin why' => "unread" \notin why)
  <2>1. why \subseteq why'
    BY Zenon DEF OneChange
  <2> QED BY <2>1
<1>3. DocIds' = DocIds /\ Newest' = Newest /\ Source' = Source
  BY <1>1, Zenon DEF DocIds, Newest, Source, SourceOf
<1>4. /\ \A e \in DocIds : docs'[e].src = docs[e].src /\ docs'[e].prev = docs[e].prev
      /\ \A e \in DocIds : docs'[e].locked = docs[e].locked
  BY <1>1, Zenon
<1>5. \A e \in DocIds : \/ docs'[e].status = docs[e].status
                        \/ docs[e].status = "password" /\ docs'[e].status = "loaded"
  BY <1>1, Zenon
<1>6. Numbers'
  BY <1>1, <1>3, <1>4, Zenon DEF Numbers
<1>7. Len(docs) \in Nat /\ Newest \in DocIds /\ Len(docs) # 0
  BY DEF DocTypes, DocIds, Newest
<1>8. Opening'
  <2>1. \A e \in DocIds : /\ docs'[e].status = "closed" <=> docs'[e].src = NoSource
                          /\ docs'[e].status = "password" => docs'[e].locked
    <3> TAKE e \in DocIds
    <3>1. docs'[e].status = "closed" <=> docs[e].status = "closed"
      BY <1>5
    <3>2. docs'[e].status = "password" => docs[e].status = "password"
      BY <1>5
    <3>3. /\ docs[e].status = "closed" <=> docs[e].src = NoSource
          /\ docs[e].status = "password" => docs[e].locked
      BY DEF Opening
    <3> QED BY <1>4, <3>1, <3>2, <3>3, Zenon
  <2>2. ASSUME "stale" \notin why'
        PROVE  /\ engine = "ready" => Source \in {NoSource, opened}
               /\ \A a, b \in DocIds :
                    docs'[a].src = docs'[b].src /\ docs'[a].status # "closed" => a = b
               /\ "unread" \notin why' /\ input.kind = "blob" =>
                    reading \/ resolved.ver = input.ver
    <3>1. /\ engine = "ready" => Source \in {NoSource, opened}
          /\ \A a, b \in DocIds :
               docs[a].src = docs[b].src /\ docs[a].status # "closed" => a = b
          /\ "unread" \notin why /\ input.kind = "blob" =>
               reading \/ resolved.ver = input.ver
      BY <1>2, <2>2 DEF Opening
    <3>2. \A a \in DocIds : docs'[a].status # "closed" => docs[a].status # "closed"
      BY <1>5
    <3>3. \A a, b \in DocIds :
               docs'[a].src = docs'[b].src /\ docs'[a].status # "closed" => a = b
      BY <1>4, <3>1, <3>2
    <3> QED BY <1>2, <3>1, <3>3
  <2>3. /\ engine # "ready" => Len(docs) = 0
        /\ docs[Newest].src = opened
    BY <1>7 DEF Opening
  <2>4. "stale" \notin why' =>
          /\ engine' = "ready" => Source' \in {NoSource, opened'}
          /\ \A a, b \in DocIds' :
               docs'[a].src = docs'[b].src /\ docs'[a].status # "closed" => a = b
          /\ "unread" \notin why' /\ input'.kind = "blob" =>
               reading' \/ resolved'.ver = input'.ver
    BY <1>1, <1>3, <2>2
  <2>5. /\ engine' # "ready" => Len(docs') = 0
        /\ IF Len(docs') = 0 THEN opened' = NoSource ELSE docs'[Newest'].src = opened'
    BY <1>1, <1>3, <1>4, <1>7, <2>3, Zenon
  <2> QED BY <1>3, <2>1, <2>4, <2>5, Zenon DEF Opening
<1>9. Latest'
  <2>1. docs'[Newest].status \in {"opening", "loading"} =>
          \A e \in DocIds : docs'[e].status # "closed" => e = Newest \/ e \in docs'[Newest].prev
    <3>1. docs'[Newest].status \in {"opening", "loading"} =>
            docs[Newest].status \in {"opening", "loading"}
      BY <1>5, <1>7
    <3>2. \A e \in DocIds : docs'[e].status # "closed" => docs[e].status # "closed"
      BY <1>5
    <3> QED BY <1>4, <1>7, <3>1, <3>2 DEF Latest
  <2>2. docs'[Newest].status = "loaded" /\ ~docs'[Newest].locked =>
          \A e \in DocIds : docs'[e].status # "closed" => e = Newest
    <3>1. docs'[Newest].status = "loaded" /\ ~docs'[Newest].locked =>
            docs[Newest].status = "loaded" /\ ~docs[Newest].locked
      BY <1>4, <1>5, <1>7 DEF Opening
    <3>2. \A e \in DocIds : docs'[e].status # "closed" => docs[e].status # "closed"
      BY <1>5
    <3> QED BY <1>7, <3>1, <3>2 DEF Latest
  <2>3. ASSUME "stale" \notin why'
        PROVE  /\ docs'[Newest].status \in {"loading", "loaded", "password"} => requested = Newest
               /\ docs'[Newest].status \in {"loaded", "password"} => active = Newest
               /\ docs'[Newest].status = "error" => failed = opened
    <3>1. /\ docs[Newest].status \in {"loading", "loaded", "password"} => requested = Newest
          /\ docs[Newest].status \in {"loaded", "password"} => active = Newest
          /\ docs[Newest].status = "error" => failed = opened
      BY <1>2, <1>7, <2>3 DEF Latest
    <3>2. \/ docs'[Newest].status = docs[Newest].status
          \/ docs[Newest].status = "password" /\ docs'[Newest].status = "loaded"
      BY <1>5, <1>7
    <3> QED BY <3>1, <3>2
  <2> QED BY <1>1, <1>3, <1>7, <2>1, <2>2, <2>3, Zenon DEF Latest
<1> QED BY <1>6, <1>8, <1>9

-----------------------------------------------------------------------------
(* What a step keeps of the edits: how many a document has, and that they   *)
(* are all committed.                                                       *)
EditsKept ==
  /\ DocIds \subseteq DocIds'
  /\ \A d \in DocIds : /\ docs'[d].work = docs[d].work
                       /\ docs[d].committed = docs[d].work => docs'[d].committed = docs'[d].work
  /\ \A d \in DocIds' : docs'[d].committed <= docs'[d].work

LEMMA KeepsEdits ==
  ASSUME DocTypes, JobInv, WorkKept
  PROVE  EditsKept
<1>1. \A d \in DocIds : docs[d].committed <= docs[d].work
  BY DEF JobInv
<1>2. ASSUME NEW d \in DocIds' PROVE docs'[d].committed <= docs'[d].work
  BY <1>1 DEF WorkKept
<1> QED BY <1>2, Zenon DEF WorkKept, EditsKept

(* Two jobs that differ at most in their number and in their panel.         *)
Alike(i, j) ==
  /\ JobShape(i) /\ i.kind = j.kind /\ i.doc = j.doc /\ i.ver = j.ver /\ i.sel = j.sel
  /\ i.saved = j.saved /\ i.pages = j.pages /\ i.phase = j.phase

LEMMA JobFields ==
  ASSUME NEW r, NEW kind, NEW id, NEW doc, NEW ver, NEW sel, NEW here, NEW stored, NEW pages,
         NEW phase,
         r = [kind |-> kind, id |-> id, doc |-> doc, ver |-> ver, sel |-> sel, here |-> here,
              saved |-> stored, pages |-> pages, phase |-> phase]
  PROVE  /\ JobShape(r) /\ r.kind = kind /\ r.doc = doc /\ r.ver = ver /\ r.sel = sel
         /\ r.saved = stored /\ r.pages = pages /\ r.phase = phase
  BY DEF JobShape

LEMMA AlikeBut ==
  ASSUME NEW j, NEW h, NEW m, NEW i,
         i = [kind |-> j.kind, id |-> m, doc |-> j.doc, ver |-> j.ver, sel |-> j.sel,
              here |-> h, saved |-> j.saved, pages |-> j.pages, phase |-> j.phase]
  PROVE  Alike(i, j)
  BY JobFields DEF Alike

LEMMA Orphan ==
  ASSUME NEW j, JobShape(j), NEW b, NEW n, NEW i,
         \/ i = j
         \/ i = [j EXCEPT !.here = b]
         \/ i = [j EXCEPT !.id = n, !.here = b]
  PROVE  Alike(i, j)
<1> PICK h, m : i = [kind |-> j.kind, id |-> m, doc |-> j.doc, ver |-> j.ver, sel |-> j.sel,
                     here |-> h, saved |-> j.saved, pages |-> j.pages, phase |-> j.phase]
  BY Zenon DEF JobShape
<1> QED BY AlikeBut, Zenon

LEMMA Carried ==
  ASSUME NEW js, \A j \in js : JobShape(j), JobsFollow(js) \/ jobs' = Orphaned(js) \/ jobs' = js
  PROVE  \A i \in jobs' : \E j \in js : Alike(i, j)
<1> SUFFICES ASSUME NEW i \in jobs' PROVE \E j \in js : Alike(i, j)
  OBVIOUS
<1>1. PICK j \in js : i = j \/ i = [j EXCEPT !.here = FALSE]
  BY Zenon DEF JobsFollow, Orphaned
<1>2. JobShape(j)
  OBVIOUS
<1> QED BY <1>1, <1>2, Orphan, Zenon

LEMMA ExcusedStays ==
  ASSUME why \subseteq why', Excused
  PROVE  Excused'
  BY DEF Excused

LEMMA JobKept ==
  ASSUME DocTypes, EditsKept, why \subseteq why', input'.ver \in Nat, input.ver <= input'.ver,
         NEW j, NEW i, Alike(i, j), JobShape(j), JobFits(j)
  PROVE  /\ JobShape(i) /\ JobFits(i)'
         /\ Whole(j) => Whole(i)'
         /\ JobOk(j) => JobOk(i)'
         /\ DialogOk(j) => DialogOk(i)'
<1>1. JobShape(i) /\ i.kind = j.kind /\ i.doc = j.doc /\ i.ver = j.ver /\ i.sel = j.sel
      /\ i.saved = j.saved /\ i.pages = j.pages /\ i.phase = j.phase
  BY DEF Alike
<1>2. JobFits(i)'
  <2>1. /\ j.ver \in Nat /\ j.ver <= input.ver /\ j.phase \in JobPhases
        /\ IsFiniteSet(j.sel) /\ j.pages \in Int
        /\ IF j.kind = "upload" THEN j.phase = "land" ELSE j.doc \in DocIds
    BY Zenon DEF JobFits
  <2>2. j.ver <= input'.ver
    <3>1. input.ver \in Nat
      BY DEF DocTypes
    <3> QED BY <2>1, <3>1
  <2>3. IF j.kind = "upload" THEN j.phase = "land" ELSE j.doc \in DocIds'
    BY <2>1, Zenon DEF EditsKept
  <2> QED BY <1>1, <2>1, <2>2, <2>3, Zenon DEF JobFits
<1>3. ASSUME Whole(j) PROVE Whole(i)'
  <2>1. CASE j.kind = "upload"
    BY <1>1, <2>1 DEF Whole
  <2>2. CASE j.kind # "upload"
    <3>1. j.doc \in DocIds
      BY <2>2 DEF JobFits
    <3>2. /\ j.phase = "work" => docs[j.doc].committed = docs[j.doc].work
          /\ j.phase = "land" => j.saved = docs[j.doc].work
      BY <1>3, <2>2 DEF Whole
    <3>3. /\ docs'[j.doc].work = docs[j.doc].work
          /\ (docs[j.doc].committed = docs[j.doc].work =>
                docs'[j.doc].committed = docs'[j.doc].work)
      BY <3>1, Zenon DEF EditsKept
    <3> QED BY <1>1, <3>2, <3>3, Zenon DEF Whole
  <2> QED BY <2>1, <2>2
<1>4. JobOk(j) => JobOk(i)'
  BY <1>1, <1>2, <1>3, ExcusedStays, Zenon DEF JobOk
<1>5. DialogOk(j) => DialogOk(i)'
  BY <1>1, <1>2, <1>3, Zenon DEF DialogOk
<1> QED BY <1>1, <1>2, <1>3, <1>4, <1>5

JobsGoOn ==
  /\ \A i \in jobs' : JobOk(i)' \/ \E j \in jobs : Alike(i, j)
  /\ dialog' = dialog \/ dialog' = NoDialog \/ DialogOk(dialog)'
  /\ lost' => lost \/ Excused'

LEMMA JobInvKept ==
  ASSUME DocTypes, JobInv, EditsKept, why \subseteq why', input'.ver \in Nat,
         input.ver <= input'.ver, JobsGoOn
  PROVE  JobInv'
<1>1. \A j \in jobs : JobOk(j) /\ JobShape(j) /\ JobFits(j)
  BY Zenon DEF JobInv, JobOk
<1>2. ASSUME NEW i \in jobs' PROVE JobOk(i)'
  <2>1. CASE \E j \in jobs : Alike(i, j)
    BY <1>1, <2>1, JobKept, Zenon
  <2> QED BY <2>1, Zenon DEF JobsGoOn
<1>3. dialog' = NoDialog \/ DialogOk(dialog)'
  <2>1. CASE dialog' = dialog /\ dialog # NoDialog
    <3> PICK x : x = dialog
      OBVIOUS
    <3>1. DialogOk(x) /\ JobShape(x) /\ JobFits(x)
      BY <2>1, Zenon DEF JobInv, DialogOk
    <3>2. Alike(x, x)
      BY <3>1, Orphan, Zenon
    <3>3. DialogOk(x)'
      BY <3>1, <3>2, JobKept, Zenon
    <3> QED BY <2>1, <3>3, Zenon DEF DialogOk, JobShape, JobFits, Whole
  <2> QED BY <2>1, Zenon DEF JobsGoOn
<1>4. LossHasAReason'
  <2>1. lost' => lost \/ Excused'
    BY Zenon DEF JobsGoOn
  <2>2. lost => Excused
    BY Zenon DEF JobInv, LossHasAReason, Excused
  <2>3. lost' => Excused'
    BY <2>1, <2>2, ExcusedStays
  <2> QED BY <2>3, Zenon DEF LossHasAReason, Excused
<1>5. \A d \in DocIds' : docs'[d].committed <= docs'[d].work
  BY Zenon DEF EditsKept
<1> QED BY <1>2, <1>3, <1>4, <1>5, Zenon DEF JobInv

-----------------------------------------------------------------------------
(* What the pages panel has selected.                                       *)
LEMMA ReadyIsOne ==
  ASSUME DocTypes, Ready
  PROVE  /\ active \in DocIds /\ requested = active /\ docs[active].status = "loaded"
         /\ engine = "ready" /\ docs[active].src = Source
<1>1. IsRequested /\ docs[active].status = "loaded" /\ engine = "ready"
  BY Zenon DEF Ready
<1>2. docs[requested].src = Source
  BY <1>1, Zenon DEF IsRequested
<1> QED BY <1>1, <1>2, ActiveIsOne, Zenon

LEMMA ReadyStays ==
  ASSUME DocTypes, Ready, UNCHANGED <<engine, input, resolved, requested, active, failed>>,
         docs'[active].status = docs[active].status, docs'[active].src = docs[active].src
  PROVE  Ready'
<1>1. Source' = Source
  BY Zenon DEF Source, SourceOf
<1>2. IsRequested /\ docs[active].status = "loaded" /\ engine = "ready" /\ ~Failed
  BY Zenon DEF Ready
<1>3. IsRequested'
  BY <1>1, <1>2, Zenon DEF IsRequested
<1>4. ~Failed'
  <2>1. ~(failed # NoSource /\ failed = Source)
    BY <1>2, Zenon DEF Failed
  <2>2. docs'[active].status # "error"
    BY <1>2
  <2> QED BY <1>1, <2>1, <2>2, Zenon DEF Failed
<1> QED BY <1>2, <1>3, <1>4, Zenon DEF Ready

LEMMA SelectionStays ==
  ASSUME SelectionIsOfPages, PanelShape, UNCHANGED panel,
         Ready => Ready' /\ active' = active /\ docs'[active].pages = docs[active].pages
  PROVE  SelectionIsOfPages' /\ PanelShape'
<1>1. PanelShape'
  BY Zenon DEF PanelShape
<1>2. SelectionIsOfPages'
  BY Zenon DEF SelectionIsOfPages
<1> QED BY <1>1, <1>2

LEMMA NothingSelected ==
  ASSUME NEW o, panel' = [open |-> o, sel |-> {}]
  PROVE  SelectionIsOfPages' /\ PanelShape'
  BY DEF SelectionIsOfPages, PanelShape

LEMMA SelectionFollows ==
  ASSUME DocTypes, DocTypes', SelectionIsOfPages, PanelShape, PanelFollows(panel.open),
         requested' = requested \/ active' = active,
         \A d \in DocIds : docs'[d].status = "closed" \/ docs'[d].pages = docs[d].pages
  PROVE  SelectionIsOfPages' /\ PanelShape'
<1>1. CASE Ready' /\ panel' = panel
  <2>1. ASSUME Ready PROVE active' = active /\ docs'[active].pages = docs[active].pages
    <3>1. active \in DocIds /\ requested = active
      BY <2>1, ReadyIsOne
    <3>2. requested' = active' /\ docs'[active'].status = "loaded"
      BY <1>1, Zenon DEF Ready, IsRequested
    <3>3. active' = active
      BY <3>1, <3>2
    <3>4. docs'[active].status # "closed"
      BY <3>2, <3>3
    <3> QED BY <3>1, <3>3, <3>4
  <2> QED BY <1>1, <2>1, SelectionStays, Zenon
<1>2. CASE panel' = [open |-> panel.open, sel |-> {}]
  BY <1>2, NothingSelected, Zenon
<1> QED BY <1>1, <1>2, Zenon DEF PanelFollows

LEMMA RenewalFollows ==
  ASSUME DocTypes, SelectionIsOfPages, PanelShape, NEW p \in Int, Renews(p),
         PanelFollows(panel.open)
  PROVE  SelectionIsOfPages' /\ PanelShape'
<1>1. requested' = requested /\ OpenSource(engine', Source', p)
  BY Zenon DEF Renews
<1>2. \A d \in DocIds : docs'[d].pages = docs[d].pages
  BY <1>1, Opens, Zenon DEF Appends
<1>3. DocTypes'
  BY RenewalKeepsTypes
<1> QED BY <1>1, <1>2, <1>3, SelectionFollows, Zenon

LEMMA AnswerFollows ==
  ASSUME DocTypes, SelectionIsOfPages, PanelShape, NEW d \in DocIds, Answers(d)
  PROVE  SelectionIsOfPages' /\ PanelShape'
<1>1. PICK gone : Answer(d, gone) /\ Outcome(d, gone)
  BY Zenon DEF Answers
<1>2. requested' = requested \/ active' = active
  BY <1>1, Zenon DEF Outcome
<1>3. /\ \A e \in DocIds : e \in gone => docs'[e].status = "closed"
      /\ \A e \in DocIds : e \notin gone /\ e # d => docs'[e] = docs[e]
  BY <1>1, AnswerLeaves
<1>4. docs'[d].pages = docs[d].pages
  BY <1>1, Zenon DEF Answer
<1>5. \A e \in DocIds : docs'[e].status = "closed" \/ docs'[e].pages = docs[e].pages
  BY <1>3, <1>4, Zenon
<1>6. DocTypes' /\ PanelFollows(panel.open)
  BY AnswerKeepsTypes, Zenon DEF Answers
<1> QED BY <1>2, <1>5, <1>6, SelectionFollows, Zenon

LEMMA ChangeFollows ==
  ASSUME DocTypes, SelectionIsOfPages, PanelShape, NEW d \in DocIds, OneChange(d),
         UNCHANGED panel, docs'[d].status = docs[d].status
  PROVE  SelectionIsOfPages' /\ PanelShape'
<1>1. /\ UNCHANGED <<engine, input, resolved, requested, active, failed>>
      /\ \A e \in DocIds : e # d => docs'[e] = docs[e]
      /\ docs'[d].src = docs[d].src /\ docs'[d].pages = docs[d].pages
  BY Zenon DEF OneChange
<1>2. \A e \in DocIds : /\ docs'[e].status = docs[e].status /\ docs'[e].src = docs[e].src
                        /\ docs'[e].pages = docs[e].pages
  BY <1>1, Zenon
<1>3. ASSUME Ready PROVE Ready' /\ active' = active /\ docs'[active].pages = docs[active].pages
  <2>1. active \in DocIds
    BY <1>3, ReadyIsOne
  <2> QED BY <1>1, <1>2, <1>3, <2>1, ReadyStays, Zenon
<1> QED BY <1>3, SelectionStays, Zenon

LEMMA RestStays ==
  ASSUME DocTypes, Rests, Ready
  PROVE  Ready' /\ active' = active /\ docs' = docs
<1>1. UNCHANGED <<engine, input, resolved, docs, requested, active, failed>>
  BY Zenon DEF Rests
<1> QED BY <1>1, ReadyStays, Zenon

LEMMA RestFollows ==
  ASSUME DocTypes, SelectionIsOfPages, PanelShape, Rests, UNCHANGED panel
  PROVE  SelectionIsOfPages' /\ PanelShape'
  BY RestStays, SelectionStays, Zenon

LEMMA SelectionIsFinite ==
  ASSUME DocTypes, SelectionIsOfPages
  PROVE  IsFiniteSet(panel.sel)
<1>1. CASE panel.sel = {}
  BY <1>1, FS_EmptySet
<1>2. CASE panel.sel # {}
  <2>1. Ready /\ panel.sel \subseteq 1..docs[active].pages
    BY <1>2 DEF SelectionIsOfPages
  <2>2. active \in DocIds
    BY <2>1, ReadyIsOne
  <2>3. docs[active].pages \in Int
    BY <2>2 DEF DocTypes, DocFits
  <2>4. IsFiniteSet(1..docs[active].pages)
    BY <2>3, FS_Interval
  <2> QED BY <2>1, <2>4, FS_Subset
<1> QED BY <1>1, <1>2

(* A click selects pages of the document shown.                             *)
LEMMA Selects ==
  ASSUME DocTypes, SelectionIsOfPages, PanelShape, SelectPage, Rests
  PROVE  SelectionIsOfPages' /\ PanelShape'
<1>1. Ready
  BY Zenon DEF SelectPage
<1>2. PICK p, q \in 1..docs[active].pages :
        \E s \in Selections(panel.sel, p, q) : panel' = [panel EXCEPT !.sel = s]
  BY Zenon DEF SelectPage
<1>3. PICK s \in Selections(panel.sel, p, q) : panel' = [panel EXCEPT !.sel = s]
  BY <1>2
<1>4. PICK o, t : panel = [open |-> o, sel |-> t]
  BY DEF PanelShape
<1>5. panel' = [open |-> o, sel |-> s]
  BY <1>3, <1>4
<1>6. PICK n : n = docs[active].pages
  OBVIOUS
<1>7. n \in Int
  <2>1. active \in DocIds
    BY <1>1, ReadyIsOne
  <2> QED BY <1>6, <2>1 DEF DocTypes, DocFits
<1>8. panel.sel \subseteq 1..n
  BY <1>6 DEF SelectionIsOfPages
<1>9. s \subseteq 1..n
  <2>1. p \in 1..n /\ q \in 1..n
    BY <1>2, <1>6
  <2>2. CASE s = {p}
    BY <2>1, <2>2
  <2>3. CASE s = p..q
    BY <1>7, <2>1, <2>3
  <2>4. CASE s = (panel.sel \cup {p}) \ (panel.sel \cap {p})
    BY <1>8, <2>1, <2>4
  <2> QED BY <1>3, <2>2, <2>3, <2>4 DEF Selections
<1>10. Ready' /\ active' = active /\ docs' = docs
  BY <1>1, RestStays
<1>11. panel'.sel = s
  BY <1>5
<1>12. SelectionIsOfPages'
  BY <1>6, <1>9, <1>10, <1>11, Zenon DEF SelectionIsOfPages
<1>13. PanelShape'
  BY <1>5 DEF PanelShape
<1> QED BY <1>12, <1>13

-----------------------------------------------------------------------------
(* Every step keeps the invariant.                                          *)
LEMMA CarriedOn ==
  ASSUME JobInv, NEW js, js \subseteq jobs,
         JobsFollow(js) \/ jobs' = Orphaned(js) \/ jobs' = js,
         dialog' = dialog, lost' => lost \/ Excused'
  PROVE  JobsGoOn
<1>1. \A j \in js : JobShape(j)
  BY Zenon DEF JobInv, JobOk
<1>2. \A i \in jobs' : \E j \in js : Alike(i, j)
  BY <1>1, Carried, Zenon
<1>3. \A i \in jobs' : \E j \in jobs : Alike(i, j)
  BY <1>2, Zenon
<1> QED BY <1>3, Zenon DEF JobsGoOn

LEMMA RestInv ==
  ASSUME DocInv, Rests, JobsGoOn, SelectionIsOfPages' /\ PanelShape'
  PROVE  DocInv'
<1>1. DocTypes /\ JobInv /\ Numbers /\ Opening /\ Latest
  BY Zenon DEF DocInv
<1>2. DocTypes' /\ WorkKept
  BY <1>1, RestKeepsTypes
<1>3. Numbers' /\ Opening' /\ Latest'
  BY <1>1, RestKeepsOpening
<1>4. EditsKept
  BY <1>1, <1>2, KeepsEdits
<1>5. why \subseteq why' /\ input'.ver \in Nat /\ input.ver <= input'.ver
  BY <1>1 DEF Rests, DocTypes
<1>6. JobInv'
  BY <1>1, <1>4, <1>5, JobInvKept
<1> QED BY <1>2, <1>3, <1>6, Zenon DEF DocInv

LEMMA RenewalInv ==
  ASSUME DocInv, NEW p \in Int, Renews(p), JobsGoOn, SelectionIsOfPages' /\ PanelShape'
  PROVE  DocInv'
<1>1. DocTypes /\ JobInv /\ Numbers /\ Opening /\ Latest
  BY Zenon DEF DocInv
<1>2. DocTypes' /\ WorkKept
  BY <1>1, RenewalKeepsTypes
<1>3. Numbers' /\ Opening' /\ Latest'
  BY <1>1, RenewalKeepsOpening
<1>4. EditsKept
  BY <1>1, <1>2, KeepsEdits
<1>5. why \subseteq why' /\ input'.ver \in Nat /\ input.ver <= input'.ver
  BY <1>2 DEF Renews, DocTypes
<1>6. JobInv'
  BY <1>1, <1>4, <1>5, JobInvKept
<1> QED BY <1>2, <1>3, <1>6, Zenon DEF DocInv

LEMMA AnswerInv ==
  ASSUME DocInv, NEW d \in DocIds, Answers(d)
  PROVE  DocInv'
<1>1. /\ DocTypes /\ JobInv /\ Numbers /\ Opening /\ Latest
      /\ SelectionIsOfPages /\ PanelShape
  BY Zenon DEF DocInv
<1>2. DocTypes' /\ WorkKept
  BY <1>1, AnswerKeepsTypes
<1>3. Numbers' /\ Opening' /\ Latest'
  BY <1>1, AnswerKeepsOpening
<1>4. EditsKept
  BY <1>1, <1>2, KeepsEdits
<1>5. UNCHANGED <<input, dialog, lost, why>> /\ JobsFollow(jobs)
  BY Zenon DEF Answers
<1>6. why \subseteq why' /\ input'.ver \in Nat /\ input.ver <= input'.ver
  BY <1>1, <1>5 DEF DocTypes
<1>7. JobsGoOn
  BY <1>1, <1>5, CarriedOn
<1>8. JobInv'
  BY <1>1, <1>4, <1>6, <1>7, JobInvKept
<1>9. SelectionIsOfPages' /\ PanelShape'
  BY <1>1, AnswerFollows
<1> QED BY <1>2, <1>3, <1>8, <1>9, Zenon DEF DocInv

LEMMA ChangeInv ==
  ASSUME DocInv, NEW d \in DocIds, OneChange(d), JobInv', SelectionIsOfPages' /\ PanelShape',
         \/ docs'[d].status = docs[d].status
         \/ docs[d].status = "password" /\ docs'[d].status = "loaded"
  PROVE  DocInv'
<1>1. DocTypes /\ Numbers /\ Opening /\ Latest
  BY Zenon DEF DocInv
<1>2. docs'[d].status \in Statuses
  BY <1>1 DEF DocTypes, DocFits, Statuses
<1>3. DocTypes'
  BY <1>1, <1>2, ChangeKeepsTypes
<1>4. reading' = reading
  BY Zenon DEF OneChange
<1>5. Numbers' /\ Opening' /\ Latest'
  BY <1>1, <1>4, ChangeKeepsOpening
<1> QED BY <1>3, <1>5, Zenon DEF DocInv

LEMMA SettlesInv ==
  ASSUME PageCountIsReal, DocInv, EngineSettles
  PROVE  DocInv'
<1>1. /\ DocTypes /\ JobInv /\ Numbers /\ Opening /\ Latest
      /\ SelectionIsOfPages /\ PanelShape
  BY Zenon DEF DocInv
<1>2. Renews(Pages)
  BY <1>1, Settles
<1>3. engine = "loading" /\ UNCHANGED <<panel, dialog, jobs, lost>>
  BY Zenon DEF EngineSettles
<1>4. ~Ready
  BY <1>3 DEF Ready
<1>5. SelectionIsOfPages' /\ PanelShape'
  BY <1>1, <1>3, <1>4, SelectionStays, Zenon
<1>6. JobsGoOn
  BY <1>1, <1>3, CarriedOn
<1>7. Pages \in Int
  BY DEF PageCountIsReal
<1> QED BY <1>2, <1>5, <1>6, <1>7, RenewalInv

LEMMA InputInv ==
  ASSUME PageCountIsReal, DocInv, ChangeInput \/ BlobRead
  PROVE  DocInv'
<1>1. /\ DocTypes /\ JobInv /\ Numbers /\ Opening /\ Latest
      /\ SelectionIsOfPages /\ PanelShape
  BY Zenon DEF DocInv
<1>2. Pages \in Int
  BY DEF PageCountIsReal
<1>3. Renews(Pages) \/ Rests
  BY <1>1, InputChanges, BlobReads
<1>4. UNCHANGED <<dialog, lost>> /\ PanelFollows(panel.open) /\ JobsFollow(jobs)
  BY Zenon DEF ChangeInput, BlobRead
<1>5. JobsGoOn
  BY <1>1, <1>4, CarriedOn
<1>6. CASE Renews(Pages)
  <2>1. SelectionIsOfPages' /\ PanelShape'
    BY <1>1, <1>2, <1>4, <1>6, RenewalFollows
  <2> QED BY <1>2, <1>5, <1>6, <2>1, RenewalInv
<1>7. CASE Rests
  <2>1. DocTypes' /\ requested' = requested /\ docs' = docs
    BY <1>1, <1>7, RestKeepsTypes, Zenon DEF Rests
  <2>2. SelectionIsOfPages' /\ PanelShape'
    BY <1>1, <1>4, <2>1, SelectionFollows, Zenon
  <2> QED BY <1>5, <1>7, <2>2, RestInv
<1> QED BY <1>3, <1>6, <1>7

LEMMA LandsInv ==
  ASSUME PageCountIsReal, DocInv, NEW j \in jobs, JobLands(j)
  PROVE  DocInv'
<1>1. /\ DocTypes /\ JobInv /\ Numbers /\ Opening /\ Latest
      /\ SelectionIsOfPages /\ PanelShape
  BY Zenon DEF DocInv
<1>2. JobShape(j) /\ JobFits(j) /\ (Excused \/ Whole(j))
  BY <1>1, Zenon DEF JobInv, JobOk
<1>3. PICK p \in {Pages, j.pages} : Renews(p)
  BY <1>1, <1>2, Lands
<1>4. p \in Int
  BY <1>2 DEF PageCountIsReal, JobFits
<1>5. /\ UNCHANGED dialog /\ PanelFollows(panel.open) /\ JobsFollow(jobs \ {j})
      /\ lost' = (lost \/ Misses(j)) /\ j.phase = "land"
  BY Zenon DEF JobLands
<1>6. why \subseteq why' /\ (j.doc # active => "superseded" \in why')
  <2>1. why' = why \cup (IF j.ver # input.ver THEN {"stale"} ELSE {})
                \cup (IF j.doc # active THEN {"superseded"} ELSE {})
    BY Zenon DEF JobLands
  <2> QED BY <2>1
<1>7. ASSUME Misses(j) PROVE Excused'
  <2>1. CASE Excused
    BY <1>6, <2>1, ExcusedStays
  <2>2. CASE j.doc # active
    BY <1>6, <2>2 DEF Excused
  <2>3. CASE Whole(j) /\ j.doc = active
    <3>1. j.kind # "upload" /\ j.saved < docs[j.doc].work
      BY <1>7, <2>3 DEF Misses
    <3>2. j.saved = docs[j.doc].work
      BY <1>5, <2>3, <3>1 DEF Whole
    <3>3. j.doc \in DocIds
      BY <1>2, <3>1 DEF JobFits
    <3>4. docs[j.doc].work \in Nat
      BY <1>1, <3>3 DEF DocTypes, DocFits
    <3> QED BY <3>1, <3>2, <3>4
  <2> QED BY <1>2, <2>1, <2>2, <2>3
<1>8. JobsGoOn
  <2>1. lost' => lost \/ Excused'
    BY <1>5, <1>7, Zenon
  <2>2. jobs \ {j} \subseteq jobs
    OBVIOUS
  <2> QED BY <1>1, <1>5, <2>1, <2>2, CarriedOn
<1>9. SelectionIsOfPages' /\ PanelShape'
  BY <1>1, <1>3, <1>4, <1>5, RenewalFollows
<1> QED BY <1>3, <1>4, <1>8, <1>9, RenewalInv

LEMMA RetryInv ==
  ASSUME DocInv, RetryDocument
  PROVE  DocInv'
<1>1. /\ DocTypes /\ JobInv /\ SelectionIsOfPages /\ PanelShape
  BY Zenon DEF DocInv
<1>2. active \in DocIds /\ Unlocks(active)
  BY <1>1, Retries
<1> PICK d \in DocIds : d = active
  BY <1>2
<1>3. /\ OneChange(d) /\ docs'[d].work = docs[d].work /\ docs'[d].committed = docs[d].committed
      /\ docs[d].status = "password" /\ docs'[d].status = "loaded"
      /\ UNCHANGED <<panel, dialog, jobs, started, lost, why>>
  BY <1>2, Zenon DEF Unlocks
<1>4. WorkKept
  <2>1. DocIds' = DocIds /\ \A e \in DocIds : e # d => docs'[e] = docs[e]
    BY <1>3, Zenon DEF OneChange, DocIds
  <2> QED BY <1>3, <2>1, Zenon DEF WorkKept
<1>5. EditsKept /\ why \subseteq why' /\ input'.ver \in Nat /\ input.ver <= input'.ver
  <2>1. UNCHANGED <<input, why>>
    BY <1>3, Zenon DEF OneChange
  <2>2. why \subseteq why' /\ input'.ver \in Nat /\ input.ver <= input'.ver
    BY <1>1, <2>1 DEF DocTypes
  <2> QED BY <1>1, <1>4, <2>2, KeepsEdits
<1>6. JobsGoOn
  BY <1>1, <1>3, CarriedOn
<1>7. JobInv'
  BY <1>1, <1>5, <1>6, JobInvKept
<1>8. ~Ready
  BY <1>2, <1>3, Zenon DEF Ready
<1>9. SelectionIsOfPages' /\ PanelShape'
  BY <1>1, <1>3, <1>8, SelectionStays, Zenon
<1> QED BY <1>3, <1>7, <1>9, ChangeInv

LEMMA EditInv ==
  ASSUME DocInv, Edit
  PROVE  DocInv'
<1>1. /\ DocTypes /\ JobInv /\ SelectionIsOfPages /\ PanelShape
  BY Zenon DEF DocInv
<1>2. /\ Ready /\ dialog = NoDialog
      /\ docs' = [docs EXCEPT ![active].work = docs[active].work + 1]
      /\ why' = IF jobs = {} THEN why ELSE why \cup {"during"}
      /\ UNCHANGED <<engine, input, reading, resolved, sources, opened, requested,
                     active, failed, panel, dialog, jobs, started, lost>>
  BY Zenon DEF Edit
<1>3. active \in DocIds
  BY <1>1, <1>2, ReadyIsOne
<1> PICK d \in DocIds : d = active
  BY <1>3
<1> PICK w : w = docs[d].work
  OBVIOUS
<1>4. w \in Nat /\ docs[d].committed \in Nat /\ docs[d].committed <= w
  BY <1>1 DEF DocTypes, DocFits, JobInv
<1>5. why \subseteq why' /\ (jobs # {} => "during" \in why')
  <2>1. why' = IF jobs = {} THEN why ELSE why \cup {"during"}
    BY <1>2, Zenon
  <2> QED BY <2>1
<1>6. docs' = [docs EXCEPT ![d].work = w + 1]
  BY <1>2, Zenon
<1>7. w + 1 \in Nat
  BY <1>4
<1>8. Worked(d, w + 1, docs[d].committed)
  BY <1>1, <1>2, <1>5, <1>6, <1>7, Works, Zenon
<1>9. /\ OneChange(d) /\ docs'[d].work = w + 1 /\ docs'[d].committed = docs[d].committed
      /\ docs'[d].status = docs[d].status
  BY <1>8, Zenon DEF Worked
<1>10. DocIds' = DocIds /\ \A e \in DocIds : e # d => docs'[e] = docs[e]
  BY <1>9, Zenon DEF OneChange, DocIds
<1>11. JobInv'
  <2>1. ASSUME NEW e \in DocIds' PROVE docs'[e].committed <= docs'[e].work
    <3>1. CASE e = d
      BY <1>4, <1>9, <3>1
    <3>2. CASE e # d
      BY <1>1, <1>10, <3>2, Zenon DEF JobInv
    <3> QED BY <3>1, <3>2
  <2>2. ASSUME NEW i \in jobs' PROVE JobOk(i)'
    <3>1. i \in jobs /\ input' = input
      BY <1>2, Zenon
    <3>2. JobShape(i) /\ JobFits(i)
      BY <1>1, <3>1, Zenon DEF JobInv, JobOk
    <3>3. Excused'
      BY <1>5, <3>1 DEF Excused
    <3>4. JobFits(i)'
      BY <1>10, <3>1, <3>2, Zenon DEF JobFits
    <3> QED BY <3>2, <3>3, <3>4, Zenon DEF JobOk
  <2>3. dialog' = NoDialog
    BY <1>2, Zenon
  <2>4. LossHasAReason'
    <3>1. lost => Excused
      BY <1>1, Zenon DEF JobInv, LossHasAReason, Excused
    <3>2. lost' => Excused'
      BY <1>2, <1>5, <3>1, ExcusedStays, Zenon
    <3> QED BY <3>2, Zenon DEF LossHasAReason, Excused
  <2> QED BY <2>1, <2>2, <2>3, <2>4, Zenon DEF JobInv
<1>12. SelectionIsOfPages' /\ PanelShape'
  BY <1>1, <1>2, <1>9, ChangeFollows
<1> QED BY <1>9, <1>11, <1>12, ChangeInv

(* A document's edits are committed, some or all of them.                   *)
LEMMA CommitInv ==
  ASSUME DocInv, NEW d \in DocIds, NEW c \in Nat, Worked(d, docs[d].work, c),
         c <= docs[d].work, docs[d].committed = docs[d].work => c = docs[d].work,
         JobsGoOn, UNCHANGED panel
  PROVE  DocInv'
<1>1. /\ DocTypes /\ JobInv /\ SelectionIsOfPages /\ PanelShape
  BY Zenon DEF DocInv
<1>2. /\ OneChange(d) /\ docs'[d].work = docs[d].work /\ docs'[d].committed = c
      /\ docs'[d].status = docs[d].status
  BY Zenon DEF Worked
<1>3. DocIds' = DocIds /\ (\A e \in DocIds : e # d => docs'[e] = docs[e]) /\ input' = input
      /\ why \subseteq why'
  BY <1>2, Zenon DEF OneChange, DocIds
<1>4. EditsKept
  <2>1. \A e \in DocIds : docs[e].committed <= docs[e].work
    BY <1>1, Zenon DEF JobInv
  <2>2. \A e \in DocIds :
          /\ docs'[e].work = docs[e].work
          /\ docs[e].committed = docs[e].work => docs'[e].committed = docs'[e].work
          /\ docs'[e].committed <= docs'[e].work
    BY <1>2, <1>3, <2>1, Zenon
  <2> QED BY <1>3, <2>2, Zenon DEF EditsKept
<1>5. input'.ver \in Nat /\ input.ver <= input'.ver
  BY <1>1, <1>3 DEF DocTypes
<1>6. JobInv'
  BY <1>1, <1>3, <1>4, <1>5, JobInvKept
<1>7. SelectionIsOfPages' /\ PanelShape'
  BY <1>1, <1>2, ChangeFollows
<1> QED BY <1>2, <1>6, <1>7, ChangeInv

LEMMA AutoCommitInv ==
  ASSUME DocInv, AutoCommit
  PROVE  DocInv'
<1>1. DocTypes /\ JobInv
  BY Zenon DEF DocInv
<1>2. PICK d \in DocIds : /\ Live(d) /\ Pending(d)
                          /\ docs' = [docs EXCEPT ![d].committed = docs[d].committed + 1]
  BY Zenon DEF AutoCommit
<1>3. UNCHANGED <<engine, input, reading, resolved, sources, opened, requested,
                 active, failed, panel, dialog, jobs, started, lost, why>>
  BY Zenon DEF AutoCommit
<1> PICK c, w : c = docs[d].committed /\ w = docs[d].work
  OBVIOUS
<1>4. c \in Nat /\ w \in Nat /\ c < w
  <2>1. Pending(d)
    BY <1>2, Zenon
  <2> QED BY <1>1, <2>1 DEF DocTypes, DocFits, Pending
<1>5. c + 1 \in Nat /\ c + 1 <= w /\ c # w
  BY <1>4
<1>6. docs' = [docs EXCEPT ![d].committed = c + 1]
  BY <1>2, Zenon
<1>7. why \subseteq why'
  BY <1>3
<1>8. Worked(d, w, c + 1)
  BY <1>1, <1>3, <1>5, <1>6, <1>7, Works, Zenon
<1>9. JobsGoOn
  BY <1>1, <1>3, CarriedOn
<1> QED BY <1>3, <1>5, <1>8, <1>9, CommitInv, Zenon

(* A job that starts fits the document it starts on.                        *)
LEMMA Fresh ==
  ASSUME DocTypes, JobInv, NEW kind, NEW sel, IsFiniteSet(sel), NEW here,
         NEW x, x = Job(kind, sel, here), kind = "upload" \/ Ready
  PROVE  JobOk(x) /\ (kind # "upload" => DialogOk(x))
<1> DEFINE ph == IF kind = "upload" THEN "land"
                 ELSE IF active # 0 /\ Pending(active) THEN "commit" ELSE "work"
<1>1. PICK p : p = ph
  OBVIOUS
<1>2. /\ JobShape(x) /\ x.kind = kind /\ x.doc = active /\ x.ver = input.ver /\ x.sel = sel
      /\ x.saved = 0 /\ x.pages = 0 /\ x.phase = p
  <2>1. x = [kind |-> kind, id |-> started + 1, doc |-> active, ver |-> input.ver, sel |-> sel,
             here |-> here, saved |-> 0, pages |-> 0, phase |-> p]
    BY <1>1, Zenon DEF Job
  <2> QED BY <2>1, JobFields
<1>3. kind # "upload" => active \in DocIds
  BY ReadyIsOne
<1>4. JobFits(x)
  <2>1. p \in JobPhases
    BY <1>1 DEF JobPhases
  <2>2. input.ver \in Nat /\ input.ver <= input.ver /\ 0 \in Int
    BY DEF DocTypes
  <2>3. IF kind = "upload" THEN p = "land" ELSE active \in DocIds
    BY <1>1, <1>3
  <2> QED BY <1>2, <2>1, <2>2, <2>3, Zenon DEF JobFits
<1>5. ASSUME kind # "upload" PROVE p # "land" /\ Whole(x)
  <2>1. p # "land"
    BY <1>1, <1>5
  <2>2. ASSUME p = "work" PROVE docs[active].committed = docs[active].work
    <3>1. active \in DocIds /\ active # 0
      BY <1>3, <1>5 DEF DocIds
    <3>2. ~Pending(active)
      BY <1>1, <1>5, <2>2, <3>1
    <3>3. /\ docs[active].committed \in Nat /\ docs[active].work \in Nat
          /\ docs[active].committed <= docs[active].work
      BY <3>1 DEF DocTypes, DocFits, JobInv
    <3> QED BY <3>2, <3>3 DEF Pending
  <2> QED BY <1>2, <2>1, <2>2, Zenon DEF Whole
<1>6. Whole(x)
  <2>1. CASE kind = "upload"
    BY <1>2, <2>1, Zenon DEF Whole
  <2> QED BY <1>5, <2>1
<1> QED BY <1>2, <1>4, <1>5, <1>6, Zenon DEF JobOk, DialogOk

(* While the documents rest, a job keeps what it has.                       *)
LEMMA RestsJob ==
  ASSUME DocTypes, JobInv, Rests, NEW j, JobShape(j), JobFits(j)
  PROVE  JobFits(j)' /\ (JobOk(j) => JobOk(j)') /\ (DialogOk(j) => DialogOk(j)')
<1>1. EditsKept
  BY RestKeepsTypes, KeepsEdits
<1>2. why \subseteq why' /\ input'.ver \in Nat /\ input.ver <= input'.ver
  BY DEF Rests, DocTypes
<1>3. Alike(j, j)
  BY Orphan, Zenon
<1> QED BY <1>1, <1>2, <1>3, JobKept, Zenon

LEMMA StartsInv ==
  ASSUME DocInv, Rests, UNCHANGED <<panel, lost>>, dialog' = dialog \/ dialog' = NoDialog,
         NEW x, JobOk(x), jobs' = jobs \cup {x}
  PROVE  DocInv'
<1>1. DocTypes /\ JobInv /\ SelectionIsOfPages /\ PanelShape
  BY Zenon DEF DocInv
<1>2. JobOk(x)'
  <2>1. JobShape(x) /\ JobFits(x)
    BY Zenon DEF JobOk
  <2> QED BY <1>1, <2>1, RestsJob, Zenon
<1>3. \A j \in jobs : Alike(j, j)
  BY <1>1, Orphan, Zenon DEF JobInv, JobOk
<1>4. JobsGoOn
  BY <1>2, <1>3, Zenon DEF JobsGoOn
<1> QED BY <1>1, <1>4, RestFollows, RestInv

LEMMA AsksInv ==
  ASSUME DocInv, Rests, UNCHANGED <<panel, jobs, lost>>, NEW x, DialogOk(x), dialog' = x
  PROVE  DocInv'
<1>1. DocTypes /\ JobInv /\ SelectionIsOfPages /\ PanelShape
  BY Zenon DEF DocInv
<1>2. DialogOk(x)'
  <2>1. JobShape(x) /\ JobFits(x)
    BY Zenon DEF DialogOk
  <2> QED BY <1>1, <2>1, RestsJob, Zenon
<1>3. DialogOk(dialog)'
  BY <1>2, Zenon DEF DialogOk, JobShape, JobFits, Whole
<1>4. \A j \in jobs : Alike(j, j)
  BY <1>1, Orphan, Zenon DEF JobInv, JobOk
<1>5. JobsGoOn
  BY <1>3, <1>4, Zenon DEF JobsGoOn
<1> QED BY <1>1, <1>5, RestFollows, RestInv

LEMMA AtRest ==
  ASSUME UNCHANGED <<engine, input, reading, resolved, sources, opened, docs, requested, active,
                     failed>>,
         why \subseteq why'
  PROVE  Rests
  BY Zenon DEF Rests

LEMMA PanelInv ==
  ASSUME DocInv, TogglePanel \/ SelectPage
  PROVE  DocInv'
<1>1. DocTypes /\ JobInv /\ SelectionIsOfPages /\ PanelShape
  BY Zenon DEF DocInv
<1>2. /\ UNCHANGED <<engine, input, reading, resolved, sources, opened, docs, requested,
                     active, failed, dialog, lost, why>>
      /\ jobs' = Orphaned(jobs) \/ jobs' = jobs
  BY Zenon DEF TogglePanel, SelectPage
<1>3. Rests
  <2>1. why \subseteq why'
    BY <1>2
  <2> QED BY <1>2, <2>1, AtRest, Zenon
<1>4. JobsGoOn
  BY <1>1, <1>2, CarriedOn
<1>5. SelectionIsOfPages' /\ PanelShape'
  <2>1. CASE TogglePanel
    <3>1. panel' = [open |-> ~panel.open, sel |-> {}]
      BY <2>1, Zenon DEF TogglePanel
    <3> QED BY <3>1, NothingSelected, Zenon
  <2>2. CASE SelectPage
    BY <1>1, <1>3, <2>2, Selects
  <2> QED BY <2>1, <2>2
<1> QED BY <1>3, <1>4, <1>5, RestInv

LEMMA StartInv ==
  ASSUME DocInv, StartSave \/ StartPageOperation \/ UploadFile
  PROVE  DocInv'
<1>1. DocTypes /\ JobInv /\ SelectionIsOfPages /\ PanelShape
  BY Zenon DEF DocInv
<1>2. /\ UNCHANGED <<engine, input, reading, resolved, sources, opened, docs, requested,
                     active, failed, panel, dialog, lost, why>>
  BY Zenon DEF StartSave, StartPageOperation, UploadFile
<1>3. Rests
  <2>1. why \subseteq why'
    BY <1>2
  <2> QED BY <1>2, <2>1, AtRest, Zenon
<1>4. PICK kind, sel, here : /\ Start(Job(kind, sel, here)) /\ sel \in {{}, panel.sel}
                             /\ kind = "upload" \/ Ready
  <2>1. CASE StartSave
    BY <2>1, Zenon DEF StartSave
  <2>2. CASE UploadFile
    BY <2>2, Zenon DEF UploadFile
  <2>3. CASE StartPageOperation
    BY <2>3, Zenon DEF StartPageOperation, CanAssemble
  <2> QED BY <2>1, <2>2, <2>3
<1>5. IsFiniteSet(sel)
  BY <1>1, <1>4, SelectionIsFinite, FS_EmptySet
<1>6. PICK x : x = Job(kind, sel, here)
  OBVIOUS
<1>7. JobOk(x)
  BY <1>1, <1>4, <1>5, <1>6, Fresh, Zenon
<1>8. jobs' = jobs \cup {x}
  BY <1>4, <1>6, Zenon DEF Start
<1> QED BY <1>2, <1>3, <1>7, <1>8, StartsInv, Zenon

LEMMA AskInv ==
  ASSUME DocInv, AskFlatten \/ AskDelete
  PROVE  DocInv'
<1>1. DocTypes /\ JobInv /\ SelectionIsOfPages /\ PanelShape
  BY Zenon DEF DocInv
<1>2. UNCHANGED <<engine, input, reading, resolved, sources, opened, docs, requested,
                  active, failed, panel, jobs, started, lost, why>>
  BY Zenon DEF AskFlatten, AskDelete
<1>3. Rests
  <2>1. why \subseteq why'
    BY <1>2
  <2> QED BY <1>2, <2>1, AtRest, Zenon
<1>4. PICK kind, sel, here : /\ dialog' = Job(kind, sel, here) /\ sel \in {{}, panel.sel}
                             /\ kind \in {"flatten", "delete"} /\ Ready
  <2>1. CASE AskFlatten
    BY <2>1, Zenon DEF AskFlatten
  <2>2. CASE AskDelete
    BY <2>2, Zenon DEF AskDelete, CanAssemble
  <2> QED BY <2>1, <2>2
<1>5. IsFiniteSet(sel) /\ kind # "upload"
  BY <1>1, <1>4, SelectionIsFinite, FS_EmptySet
<1>6. PICK x : x = Job(kind, sel, here)
  OBVIOUS
<1>7. DialogOk(x)
  BY <1>1, <1>4, <1>5, <1>6, Fresh, Zenon
<1> QED BY <1>2, <1>3, <1>4, <1>6, <1>7, AsksInv, Zenon

LEMMA AnswerDialogInv ==
  ASSUME DocInv, AnswerDialog
  PROVE  DocInv'
<1>1. DocTypes /\ JobInv /\ SelectionIsOfPages /\ PanelShape
  BY Zenon DEF DocInv
<1>2. /\ UNCHANGED <<engine, input, reading, resolved, sources, opened, docs, requested,
                     active, failed, panel, lost, why>>
      /\ dialog # NoDialog /\ dialog' = NoDialog
  BY Zenon DEF AnswerDialog
<1>3. Rests
  <2>1. why \subseteq why'
    BY <1>2
  <2> QED BY <1>2, <2>1, AtRest, Zenon
<1> PICK y : y = dialog
  OBVIOUS
<1>4. DialogOk(y)
  BY <1>1, <1>2, Zenon DEF JobInv
<1>5. CASE UNCHANGED <<jobs, started>>
  <2>1. \A j \in jobs : Alike(j, j)
    BY <1>1, Orphan, Zenon DEF JobInv, JobOk
  <2>2. JobsGoOn
    BY <1>2, <1>5, <2>1, Zenon DEF JobsGoOn
  <2> QED BY <1>1, <1>2, <1>3, <2>2, RestFollows, RestInv, Zenon
<1>6. CASE Start([y EXCEPT !.id = started + 1, !.here = y.here /\ y.doc = active])
  <2>1. PICK x : x = [y EXCEPT !.id = started + 1, !.here = y.here /\ y.doc = active]
    OBVIOUS
  <2>2. jobs' = jobs \cup {x}
    BY <1>6, <2>1, Zenon DEF Start
  <2>3. PICK n, b : x = [y EXCEPT !.id = n, !.here = b]
    BY <2>1, Zenon
  <2>4. Alike(x, y)
    BY <1>4, <2>3, Orphan, Zenon DEF DialogOk
  <2>5. JobOk(x)
    <3>1. JobShape(x) /\ x.kind = y.kind /\ x.doc = y.doc /\ x.ver = y.ver /\ x.sel = y.sel
          /\ x.saved = y.saved /\ x.pages = y.pages /\ x.phase = y.phase
      BY <2>4, Zenon DEF Alike
    <3>2. JobFits(y) /\ Whole(y)
      BY <1>4, Zenon DEF DialogOk
    <3>3. JobFits(x)
      BY <3>1, <3>2, Zenon DEF JobFits
    <3>4. Whole(x)
      BY <3>1, <3>2, Zenon DEF Whole
    <3> QED BY <3>1, <3>3, <3>4, Zenon DEF JobOk
  <2> QED BY <1>2, <1>3, <2>2, <2>5, StartsInv, Zenon
<1> QED BY <1>5, <1>6, Zenon DEF AnswerDialog

(* A job that goes on to its next phase.                                    *)
Advances(x, j, p, s, n) ==
  \/ x = [j EXCEPT !.phase = p] /\ s = j.saved /\ n = j.pages
  \/ x = [j EXCEPT !.phase = p, !.saved = s, !.pages = n]

LEMMA NextPhase ==
  ASSUME NEW j, JobShape(j), NEW p, NEW s, NEW n, NEW x, Advances(x, j, p, s, n)
  PROVE  /\ JobShape(x) /\ x.kind = j.kind /\ x.doc = j.doc /\ x.ver = j.ver /\ x.sel = j.sel
         /\ x.saved = s /\ x.pages = n /\ x.phase = p
<1>1. x = [kind |-> j.kind, id |-> j.id, doc |-> j.doc, ver |-> j.ver, sel |-> j.sel,
           here |-> j.here, saved |-> s, pages |-> n, phase |-> p]
  BY Zenon DEF JobShape, Advances
<1> QED BY <1>1, JobFields, Zenon

LEMMA CommitsInv ==
  ASSUME DocInv, NEW j \in jobs, JobCommits(j)
  PROVE  DocInv'
<1>1. DocTypes /\ JobInv /\ SelectionIsOfPages /\ PanelShape
  BY Zenon DEF DocInv
<1>2. JobShape(j) /\ JobFits(j) /\ j.phase = "commit"
  BY <1>1, Zenon DEF JobInv, JobOk, JobCommits
<1>3. j.kind # "upload" /\ j.doc \in DocIds
  BY <1>2 DEF JobFits
<1>4. UNCHANGED <<engine, input, reading, resolved, sources, opened, requested,
                  active, failed, panel, dialog, started, lost>>
  BY Zenon DEF JobCommits
<1>5. PICK x : x = [j EXCEPT !.phase = "work"]
  OBVIOUS
<1>6. /\ JobShape(x) /\ x.kind = j.kind /\ x.doc = j.doc /\ x.ver = j.ver /\ x.sel = j.sel
      /\ x.saved = j.saved /\ x.pages = j.pages /\ x.phase = "work"
  <2>1. Advances(x, j, "work", j.saved, j.pages)
    BY <1>5, Zenon DEF Advances
  <2> QED BY <1>2, <2>1, NextPhase
<1>7. JobFits(x)
  <2>1. "work" \in JobPhases
    BY DEF JobPhases
  <2> QED BY <1>2, <1>3, <1>6, <2>1, Zenon DEF JobFits
<1>8. \A i \in jobs : Alike(i, i)
  BY <1>1, Orphan, Zenon DEF JobInv, JobOk
<1>9. CASE /\ docs' = [docs EXCEPT ![j.doc].committed = docs[j.doc].work]
           /\ jobs' = (jobs \ {j}) \cup {x}
           /\ UNCHANGED why
  <2> PICK d \in DocIds : d = j.doc
    BY <1>3
  <2> PICK w : w = docs[d].work
    OBVIOUS
  <2>1. w \in Nat /\ w <= w
    BY <1>1 DEF DocTypes, DocFits
  <2>2. docs' = [docs EXCEPT ![d].committed = w] /\ why \subseteq why'
    <3>1. why \subseteq why'
      BY <1>9
    <3> QED BY <1>9, <3>1, Zenon
  <2>3. Worked(d, w, w)
    BY <1>1, <1>4, <2>1, <2>2, Works, Zenon
  <2>4. JobOk(x)'
    <3>1. docs'[d].work = w /\ docs'[d].committed = w /\ DocIds' = DocIds
      BY <2>3, Zenon DEF Worked, OneChange, DocIds
    <3>2. JobFits(x)'
      BY <1>4, <1>7, <3>1, Zenon DEF JobFits
    <3>3. Whole(x)'
      BY <1>6, <3>1 DEF Whole
    <3> QED BY <1>6, <3>2, <3>3, Zenon DEF JobOk
  <2>5. JobsGoOn
    BY <1>4, <1>8, <1>9, <2>4, Zenon DEF JobsGoOn
  <2> QED BY <1>4, <2>1, <2>3, <2>5, CommitInv, Zenon
<1>10. CASE /\ jobs' = (jobs \ {j}) \cup (IF j.kind \in {"flatten", "delete"} THEN {} ELSE {x})
            /\ why' = why \cup {"uncommitted"}
            /\ UNCHANGED docs
  <2>1. why \subseteq why' /\ "uncommitted" \in why'
    BY <1>10
  <2>2. Rests
    BY <1>4, <1>10, <2>1, AtRest, Zenon
  <2>3. JobOk(x)'
    <3>1. Excused'
      BY <2>1 DEF Excused
    <3>2. JobFits(x)'
      BY <1>4, <1>7, <1>10, Zenon DEF JobFits, DocIds
    <3> QED BY <1>6, <3>1, <3>2, Zenon DEF JobOk
  <2>4. JobsGoOn
    BY <1>4, <1>8, <1>10, <2>3, Zenon DEF JobsGoOn
  <2> QED BY <1>1, <1>4, <2>2, <2>4, RestFollows, RestInv, Zenon
<1> QED BY <1>5, <1>9, <1>10, Zenon DEF JobCommits

LEMMA WorksInv ==
  ASSUME DocInv, NEW j \in jobs, JobWorks(j)
  PROVE  DocInv'
<1>1. DocTypes /\ JobInv /\ SelectionIsOfPages /\ PanelShape
  BY Zenon DEF DocInv
<1>2. JobShape(j) /\ JobFits(j) /\ j.phase = "work" /\ (Excused \/ Whole(j))
  BY <1>1, Zenon DEF JobInv, JobOk, JobWorks
<1>3. j.kind # "upload" /\ j.doc \in DocIds
  BY <1>2 DEF JobFits
<1>4. UNCHANGED <<engine, input, reading, resolved, sources, opened, docs, requested,
                  active, failed, panel, dialog, started, lost, why>>
  BY Zenon DEF JobWorks
<1>5. Rests
  <2>1. why \subseteq why'
    BY <1>4
  <2> QED BY <1>4, <2>1, AtRest, Zenon
<1>6. PICK s, n : s = docs[j.doc].committed /\ n = PagesAfter(j)
  OBVIOUS
<1>7. PICK x : x = [j EXCEPT !.phase = "land", !.saved = s, !.pages = n]
  OBVIOUS
<1>8. /\ JobShape(x) /\ x.kind = j.kind /\ x.doc = j.doc /\ x.ver = j.ver /\ x.sel = j.sel
      /\ x.saved = s /\ x.pages = n /\ x.phase = "land"
  <2>1. Advances(x, j, "land", s, n)
    BY <1>7, Zenon DEF Advances
  <2> QED BY <1>2, <2>1, NextPhase
<1>9. n \in Int
  <2>1. Cardinality(j.sel) \in Nat
    BY <1>2, FS_CardinalityType DEF JobFits
  <2>2. docs[j.doc].pages \in Int
    BY <1>1, <1>3 DEF DocTypes, DocFits
  <2> QED BY <1>6, <2>1, <2>2 DEF PagesAfter
<1>10. JobOk(x)
  <2>1. "land" \in JobPhases
    BY DEF JobPhases
  <2>2. JobFits(x)
    BY <1>2, <1>3, <1>8, <1>9, <2>1, Zenon DEF JobFits
  <2>3. ASSUME Whole(j) PROVE Whole(x)
    <3>1. docs[j.doc].committed = docs[j.doc].work
      BY <1>2, <1>3, <2>3 DEF Whole
    <3> QED BY <1>6, <1>8, <3>1 DEF Whole
  <2> QED BY <1>2, <1>8, <2>2, <2>3, Zenon DEF JobOk
<1>11. JobOk(x)'
  <2>1. JobShape(x) /\ JobFits(x)
    BY <1>10, Zenon DEF JobOk
  <2> QED BY <1>1, <1>5, <1>10, <2>1, RestsJob, Zenon
<1>12. \A i \in jobs : Alike(i, i)
  BY <1>1, Orphan, Zenon DEF JobInv, JobOk
<1>13. jobs' \subseteq jobs \cup {x}
  <2>1. \/ jobs' = (jobs \ {j}) \cup (IF j.kind \in {"save", "extract"} THEN {} ELSE {x})
        \/ jobs' = jobs \ {j}
    BY <1>6, <1>7, Zenon DEF JobWorks
  <2> QED BY <2>1
<1>14. JobsGoOn
  BY <1>4, <1>11, <1>12, <1>13, Zenon DEF JobsGoOn
<1> QED BY <1>1, <1>4, <1>5, <1>14, RestFollows, RestInv, Zenon

LEMMA DocInitInv ==
  ASSUME DocInit
  PROVE  DocInv
<1>1. /\ engine = "loading" /\ input \in [ver : {1}, kind : {"url", "blob"}]
      /\ reading = (input.kind = "blob")
      /\ resolved = NoSource /\ sources = 0 /\ opened = NoSource
      /\ docs = <<>> /\ requested = 0 /\ active = 0 /\ failed = NoSource
      /\ panel = [open |-> FALSE, sel |-> {}]
      /\ dialog = NoDialog /\ jobs = {} /\ lost = FALSE
  BY Zenon DEF DocInit
<1>2. docs \in Seq({}) /\ Len(docs) = 0 /\ DocIds = {}
  BY <1>1 DEF DocIds
<1>3. NoSource \in Versioned /\ NoSource.ver = 0 /\ NoSource.n = 0
  BY DEF NoSource, Versioned
<1>4. input \in [ver : Nat \ {0}, kind : {"url", "blob"}] /\ input.ver = 1
  BY <1>1
<1>5. DocTypes
  BY <1>1, <1>2, <1>3, <1>4 DEF DocTypes
<1>6. JobInv
  BY <1>1, <1>2 DEF JobInv, LossHasAReason
<1>7. Numbers
  BY <1>1, <1>2, <1>3, <1>4 DEF Numbers
<1>8. Opening
  <2>1. engine # "ready"
    BY <1>1
  <2>2. input.kind = "blob" => reading
    BY <1>1, Zenon
  <2> QED BY <1>1, <1>2, <2>1, <2>2, Zenon DEF Opening
<1>9. Latest
  BY <1>2 DEF Latest
<1>10. PanelShape /\ SelectionIsOfPages
  BY <1>1 DEF PanelShape, SelectionIsOfPages
<1> QED BY <1>5, <1>6, <1>7, <1>8, <1>9, <1>10, Zenon DEF DocInv

LEMMA DocUnchanged ==
  ASSUME DocInv, UNCHANGED docVars
  PROVE  DocInv'
<1>1. UNCHANGED <<engine, input, reading, resolved, sources, opened, docs, requested,
                  active, failed, panel, dialog, jobs, started, lost, why>>
  BY Zenon DEF docVars
<1>2. DocTypes /\ JobInv /\ SelectionIsOfPages /\ PanelShape
  BY Zenon DEF DocInv
<1>3. Rests
  <2>1. why \subseteq why'
    BY <1>1
  <2> QED BY <1>1, <2>1, AtRest, Zenon
<1>4. JobsGoOn
  BY <1>1, <1>2, CarriedOn
<1> QED BY <1>1, <1>2, <1>3, <1>4, RestFollows, RestInv

LEMMA DocNextInv ==
  ASSUME PageCountIsReal, DocInv, DocNext
  PROVE  DocInv'
<1>1. CASE EngineSettles
  BY <1>1, SettlesInv
<1>2. CASE ChangeInput \/ BlobRead
  BY <1>2, InputInv
<1>3. CASE \E d \in DocIds : OpenAnswered(d) \/ LoadSettles(d)
  <2>1. PICK d \in DocIds : OpenAnswered(d) \/ LoadSettles(d)
    BY <1>3
  <2>2. DocTypes
    BY Zenon DEF DocInv
  <2>3. Answers(d)
    BY <2>1, <2>2, EngineAnswers
  <2> QED BY <2>3, AnswerInv
<1>4. CASE RetryDocument
  BY <1>4, RetryInv
<1>5. CASE Edit
  BY <1>5, EditInv
<1>6. CASE AutoCommit
  BY <1>6, AutoCommitInv
<1>7. CASE TogglePanel \/ SelectPage
  BY <1>7, PanelInv
<1>8. CASE StartSave \/ StartPageOperation \/ UploadFile
  BY <1>8, StartInv
<1>9. CASE AskFlatten \/ AskDelete
  BY <1>9, AskInv
<1>10. CASE AnswerDialog
  BY <1>10, AnswerDialogInv
<1>11. ASSUME NEW j \in jobs, JobCommits(j) \/ JobWorks(j) \/ JobLands(j)
       PROVE  DocInv'
  BY <1>11, CommitsInv, WorksInv, LandsInv
<1> QED BY <1>1, <1>2, <1>3, <1>4, <1>5, <1>6, <1>7, <1>8, <1>9, <1>10, <1>11 DEF DocNext

LEMMA DocInvariance == PageCountIsReal /\ DocSpec => []DocInv
<1> SUFFICES ASSUME PageCountIsReal PROVE DocSpec => []DocInv
  OBVIOUS
<1>1. DocInit => DocInv
  BY DocInitInv
<1>2. DocInv /\ [DocNext]_docVars => DocInv'
  BY DocNextInv, DocUnchanged
<1> QED BY <1>1, <1>2, PTL DEF DocSpec

(* The document on screen is the newest one.                                *)
LEMMA ShownIsNewest ==
  ASSUME DocInv, Ready, "stale" \notin why
  PROVE  active = Newest /\ Len(docs) > 0
<1>1. DocTypes /\ Opening
  BY Zenon DEF DocInv
<1>2. active \in DocIds /\ docs[active].status = "loaded" /\ engine = "ready"
      /\ docs[active].src = Source
  BY <1>1, ReadyIsOne
<1>3. Len(docs) \in Nat /\ Len(docs) > 0 /\ Newest \in DocIds
  BY <1>1, <1>2 DEF DocTypes, DocIds, Newest
<1>4. docs[active].src = docs[Newest].src
  BY <1>1, <1>2, <1>3 DEF Opening
<1> QED BY <1>1, <1>2, <1>3, <1>4 DEF Opening

LEMMA NothingLeft ==
  ASSUME DocInv
  PROVE  NoDocumentLeft
<1> SUFFICES ASSUME Ready, ~docs[active].locked, "stale" \notin why
             PROVE  OpenDocs = {active}
  BY Zenon DEF NoDocumentLeft
<1>1. DocTypes /\ Latest
  BY Zenon DEF DocInv
<1>2. active = Newest /\ Len(docs) > 0
  BY ShownIsNewest
<1>3. active \in DocIds /\ docs[active].status = "loaded"
  BY <1>1, ReadyIsOne
<1>4. \A d \in DocIds : docs[d].status # "closed" => d = active
  BY <1>1, <1>2, <1>3 DEF Latest
<1> QED BY <1>3, <1>4 DEF OpenDocs

LEMMA NotLeft ==
  ASSUME DocInv
  PROVE  NotLeftLoading
<1> SUFFICES ASSUME engine # "loading", ~reading,
                    \A d \in DocIds : docs[d].status \notin {"opening", "loading"},
                    why \cap {"unread", "stale"} = {}, Shown = "loading"
             PROVE  FALSE
  BY Zenon DEF NotLeftLoading
<1>1. DocTypes /\ Opening /\ Latest
  BY Zenon DEF DocInv
<1>2. engine = "ready" /\ ~Failed /\ ~Ready /\ ~(IsRequested /\ docs[active].status = "password")
  BY <1>1 DEF Shown, DocTypes
<1>3. "unread" \notin why /\ "stale" \notin why
  OBVIOUS
<1>4. input.kind = "blob" => resolved.ver = input.ver
  BY <1>1, <1>3 DEF Opening
<1>5. Source # NoSource /\ Source = opened
  <2>1. input.ver \in Nat \ {0} /\ input.kind \in {"url", "blob"}
    BY <1>1 DEF DocTypes
  <2>2. Source # NoSource
    BY <1>4, <2>1 DEF Source, SourceOf, NoSource
  <2> QED BY <1>1, <1>2, <1>3, <2>2 DEF Opening
<1>6. Len(docs) \in Nat /\ Len(docs) > 0 /\ Newest \in DocIds /\ docs[Newest].src = opened
  BY <1>1, <1>5 DEF Opening, DocTypes, DocIds, Newest
<1>7. docs[Newest].status \in {"loaded", "password", "error"}
  <2>1. docs[Newest].status \in Statuses /\ docs[Newest].status \notin {"opening", "loading"}
    BY <1>1, <1>6 DEF DocTypes, DocFits
  <2>2. docs[Newest].status # "closed"
    BY <1>1, <1>5, <1>6 DEF Opening
  <2> QED BY <2>1, <2>2 DEF Statuses
<1>8. CASE docs[Newest].status = "error"
  <2>1. failed = opened
    BY <1>1, <1>3, <1>6, <1>8 DEF Latest
  <2> QED BY <1>2, <1>5, <2>1 DEF Failed
<1>9. CASE docs[Newest].status \in {"loaded", "password"}
  <2>1. requested = Newest /\ active = Newest
    BY <1>1, <1>3, <1>6, <1>9 DEF Latest
  <2>2. IsRequested
    BY <1>5, <1>6, <2>1 DEF IsRequested, DocIds
  <2> QED BY <1>2, <1>9, <2>1, <2>2 DEF Ready
<1> QED BY <1>7, <1>8, <1>9

\* However inputs, replacements, page jobs, retries and answers of the PDF engine
\* overlap (use-document-manager, the replace handlers), the document on screen
\* is the only one open and nothing stays loading, but for the ways the history
\* names; a replacement drops an edit only for a reason; and the pages selected
\* are pages of the document shown.
THEOREM DocumentKept ==
  PageCountIsReal /\ DocSpec =>
    [](NoDocumentLeft /\ NotLeftLoading /\ LossHasAReason /\ SelectionIsOfPages)
<1> SUFFICES ASSUME PageCountIsReal
             PROVE  DocSpec =>
                      [](NoDocumentLeft /\ NotLeftLoading /\ LossHasAReason /\ SelectionIsOfPages)
  OBVIOUS
<1>1. DocSpec => []DocInv
  BY DocInvariance
<1>2. DocInv => NoDocumentLeft /\ NotLeftLoading /\ LossHasAReason /\ SelectionIsOfPages
  BY NothingLeft, NotLeft, Zenon DEF DocInv, JobInv
<1> QED BY <1>1, <1>2, PTL

-----------------------------------------------------------------------------
(* ---- PDF viewer: a text selection does not hang                         *)

(* A selection being made has the pointer down or a check before it.       *)
SelectingInv == text \in [selecting : BOOLEAN, some : BOOLEAN] /\ NotLeftSelecting

LEMMA SelectingInitInv == TextInit => SelectingInv
<1> SUFFICES ASSUME TextInit PROVE SelectingInv
  OBVIOUS
<1>1. text = [selecting |-> FALSE, some |-> FALSE]
  BY DEF TextInit
<1>2. text \in [selecting : BOOLEAN, some : BOOLEAN] /\ text.selecting = FALSE
  BY <1>1
<1> QED BY <1>2, Zenon DEF SelectingInv, NotLeftSelecting

LEMMA SelectingNextInv == SelectingInv /\ [TextNext]_textVars => SelectingInv'
<1> SUFFICES ASSUME SelectingInv, [TextNext]_textVars PROVE SelectingInv'
  OBVIOUS
<1>t. text \in [selecting : BOOLEAN, some : BOOLEAN]
  BY Zenon DEF SelectingInv
<1>1. CASE UNCHANGED <<held, frame, text>>
  BY <1>1, Zenon DEF SelectingInv, NotLeftSelecting
<1>2. CASE BeginSelection
  <2>1. text' = [selecting |-> TRUE, some |-> FALSE] /\ held' = TRUE
    BY <1>2 DEF BeginSelection
  <2>2. text' \in [selecting : BOOLEAN, some : BOOLEAN]
    BY <2>1
  <2> QED BY <2>1, <2>2, Zenon DEF SelectingInv, NotLeftSelecting
<1>3. CASE Drag
  <2>1. held' = TRUE
    BY <1>3, Zenon DEF Drag
  <2>2. text' \in [selecting : BOOLEAN, some : BOOLEAN]
    BY <1>3, <1>t DEF Drag
  <2> QED BY <2>1, <2>2, Zenon DEF SelectingInv, NotLeftSelecting
<1>4. CASE Release
  <2>1. frame' = TRUE
    BY <1>4, Zenon DEF Release
  <2>2. text' \in [selecting : BOOLEAN, some : BOOLEAN]
    BY <1>4, <1>t DEF Release
  <2> QED BY <2>1, <2>2, Zenon DEF SelectingInv, NotLeftSelecting
<1>5. CASE ReleaseCheck
  <2>1. text' \in [selecting : BOOLEAN, some : BOOLEAN] /\ text'.selecting = FALSE
    BY <1>5, <1>t DEF ReleaseCheck
  <2> QED BY <2>1, Zenon DEF SelectingInv, NotLeftSelecting
<1> QED
  <2>1. UNCHANGED <<held, frame, text>> \/ BeginSelection \/ Drag \/ Release \/ ReleaseCheck
    BY DEF TextNext, textVars, selectVars, OpenChange, Debounce, TypeText, EraseText,
           ClearSearch, Answered, SearchFails, ClickArrow, PressEnter, CopySelected,
           RunSearch, GiveUp, Navigate
  <2> QED BY <2>1, <1>1, <1>2, <1>3, <1>4, <1>5

-----------------------------------------------------------------------------
(* ---- PDF search: only an answer to the newest search scrolls             *)

(* Searches are numbered as they are asked for, and one under way with the *)
(* newest number is for the query asked for last.                          *)
AskedInOrder ==
  /\ request \in Nat
  /\ \A j \in asked : j.id \in Nat /\ j.id <= request /\ (j.id = request => j.of = query)

LEMMA AskedInitInv == TextInit => AskedInOrder
<1>1. TextInit => request = 0 /\ asked = {}
  BY Zenon DEF TextInit
<1> QED BY <1>1 DEF AskedInOrder

LEMMA SearchIsNumbered ==
  ASSUME AskedInOrder, NEW wanted, RunSearch(wanted) PROVE AskedInOrder'
<1>1. /\ request \in Nat /\ request' = request + 1 /\ query' = wanted
      /\ asked' \subseteq asked \union {[id |-> request', of |-> wanted]}
  BY DEF RunSearch, AskedInOrder
<1>2. \A j \in asked : j.id \in Nat /\ j.id <= request' /\ j.id # request'
  BY <1>1 DEF AskedInOrder
<1> QED BY <1>1, <1>2 DEF AskedInOrder

LEMMA AskedNextInv == AskedInOrder /\ [TextNext]_textVars => AskedInOrder'
<1> SUFFICES ASSUME AskedInOrder, [TextNext]_textVars PROVE AskedInOrder'
  OBVIOUS
<1>1. CASE UNCHANGED <<request, query>> /\ asked' \subseteq asked
  BY <1>1 DEF AskedInOrder
<1>2. CASE GiveUp
  <2>1. request \in Nat /\ request' = request + 1 /\ asked' = asked
    BY <1>2 DEF GiveUp, AskedInOrder
  <2>2. \A j \in asked : j.id \in Nat /\ j.id <= request' /\ j.id # request'
    BY <2>1 DEF AskedInOrder
  <2> QED BY <2>1, <2>2 DEF AskedInOrder
<1>3. CASE \E wanted : RunSearch(wanted)
  BY <1>3, SearchIsNumbered
<1> QED
  <2>1. (UNCHANGED <<request, query>> /\ asked' \subseteq asked) \/ GiveUp
        \/ \E wanted : RunSearch(wanted)
    BY DEF TextNext, textVars, searchVars, selectVars, OpenChange, Debounce, TypeText, EraseText,
           ClearSearch, Answered, SearchFails, ClickArrow, PressEnter, CopySelected,
           Navigate, BeginSelection, Drag, Release, ReleaseCheck
  <2> QED BY <2>1, <1>1, <1>2, <1>3

\* Of all the answers to searches, in any order, only one to the search asked
\* for last moves the document (the search plugin's request numbers).
LEMMA OnlyTheNewestScrolls ==
  AskedInOrder /\ [TextNext]_textVars => ScrollsForTheNewest
<1> SUFFICES ASSUME AskedInOrder, [TextNext]_textVars, asked' # asked, shown' # shown
             PROVE  shown' = query
  BY DEF ScrollsForTheNewest
<1>1. PICK job \in asked : Answered(job)
  BY DEF TextNext, textVars, searchVars, selectVars, OpenChange, Debounce, TypeText, EraseText,
         ClearSearch, GiveUp, RunSearch, SearchFails, ClickArrow, PressEnter, CopySelected,
         Navigate, BeginSelection, Drag, Release, ReleaseCheck
<1>2. job.id = request /\ shown' = job.of
  BY <1>1 DEF Answered
<1> QED BY <1>2 DEF AskedInOrder

-----------------------------------------------------------------------------
(* ---- PDF viewer: the thumbnails in view are drawn                       *)

PagesAreCounted == N \in Nat \ {0}

LEMMA Least ==
  ASSUME NEW S, S \subseteq Nat, S # {}
  PROVE  \E n \in S : \A m \in S : n <= m
<1>1. PICK n \in S : \A m \in S : <<m, n>> \notin OpToRel(<, Nat)
  BY NatLessThanWellFounded, WFMin, Zenon
<1>2. \A m \in S : ~(m < n)
  BY <1>1 DEF OpToRel
<1> QED BY <1>2

LEMMA MinIsLeast ==
  ASSUME NEW S, S \subseteq Nat, S # {}
  PROVE  Min(S) \in S /\ \A m \in S : Min(S) <= m
  BY Least, Zenon DEF Min

LEMMA RotatedAre ==
  ASSUME NEW t, NEW p PROVE RotatedHeight(p, t) \in {2, 4, 8} /\ RotatedWidth(p, t) \in {2, 4, 8}
  BY DEF RotatedHeight, RotatedWidth, Width, Height

LEMMA HeightsAreNumbers ==
  ASSUME NEW t, NEW p PROVE ThumbHeight(p, t) \in Nat
<1>1. RotatedHeight(p, t) \in {2, 4, 8} /\ RotatedWidth(p, t) \in {2, 4, 8}
  BY RotatedAre
<1>2. \A a, b \in {2, 4, 8} : (4 * a) \div b \in Nat
  OBVIOUS
<1> QED BY <1>1, <1>2 DEF ThumbHeight

(* Boxes one above the other, a gap of 1 between: where the first n begin. *)
StackOf(n, f, first, h) ==
  f = [q \in 1..n |-> IF q = 1 THEN first ELSE f[q - 1] + h[q - 1] + 1]

LEMMA StacksExist ==
  ASSUME NEW first, NEW h, NEW n \in Nat PROVE \E f : StackOf(n, f, first, h)
<1> DEFINE Lacking == {m \in Nat : ~\E f : StackOf(m, f, first, h)}
<1>1. SUFFICES ASSUME Lacking # {} PROVE FALSE
  OBVIOUS
<1>2. PICK m \in Lacking : \A k \in Lacking : m <= k
  BY <1>1, Least
<1>3. m # 0
  <2> DEFINE f == [q \in 1..0 |-> 0]
  <2>1. StackOf(0, f, first, h)
    BY DEF StackOf
  <2> QED BY <2>1
<1>4. PICK f : StackOf(m - 1, f, first, h)
  <2>1. m - 1 \in Nat /\ ~(m <= m - 1)
    BY <1>2, <1>3
  <2> QED BY <1>2, <2>1
<1>5. PICK g : g = [q \in 1..m |-> IF q = m THEN IF m = 1 THEN first ELSE f[m - 1] + h[m - 1] + 1
                                    ELSE f[q]]
  OBVIOUS
<1>6. \A q \in 1..m : g[q] = IF q = 1 THEN first ELSE g[q - 1] + h[q - 1] + 1
  <2> SUFFICES ASSUME NEW q \in 1..m PROVE g[q] = IF q = 1 THEN first ELSE g[q - 1] + h[q - 1] + 1
    OBVIOUS
  <2>1. q \in Nat /\ m \in Nat /\ 1..(m-1) = {x \in 1..m : x # m}
    OBVIOUS
  <2>2. CASE q = m
    <3>1. q # 1 => q - 1 \in 1..m /\ q - 1 # m
      BY <2>1
    <3> QED BY <1>5, <2>2, <3>1, Zenon
  <2>3. CASE q # m
    <3>1. q \in 1..(m - 1) /\ (q # 1 => q - 1 \in 1..m /\ q - 1 # m)
      BY <2>1, <2>3
    <3>2. f[q] = IF q = 1 THEN first ELSE f[q - 1] + h[q - 1] + 1
      BY <1>4, <3>1, Zenon DEF StackOf
    <3>3. g[q] = f[q] /\ (q # 1 => g[q - 1] = f[q - 1])
      BY <1>5, <2>3, <3>1, Zenon
    <3> QED BY <3>2, <3>3, Zenon
  <2> QED BY <2>2, <2>3
<1>7. StackOf(m, g, first, h)
  <2>1. g = [q \in 1..m |-> g[q]]
    BY <1>5
  <2> QED BY <1>6, <2>1 DEF StackOf
<1> QED BY <1>2, <1>7

(* Each thumbnail begins below the end of the one before.                   *)
LEMMA TopsAre ==
  ASSUME PagesAreCounted, NEW t, NEW tops, tops = ThumbTops(t)
  PROVE  \A q \in AllPages : tops[q] = IF q = 1 THEN 2 ELSE tops[q - 1] + ThumbHeight(q - 1, t) + 1
<1> DEFINE h == [p \in AllPages |-> ThumbHeight(p, t)]
<1>1. \E f : StackOf(N, f, 2, h)
  BY StacksExist DEF PagesAreCounted
<1>2. ASSUME NEW q \in 1..N, q # 1 PROVE h[q - 1] = ThumbHeight(q - 1, t)
  <2>1. q - 1 \in AllPages
    BY <1>2 DEF AllPages, PagesAreCounted
  <2> QED BY <2>1
<1> HIDE DEF h
<1>3. PICK f : f = [q \in 1..N |-> IF q = 1 THEN 2 ELSE f[q - 1] + h[q - 1] + 1]
  BY <1>1, Zenon DEF StackOf
<1>4. f = [q \in AllPages |-> IF q = 1 THEN 2 ELSE f[q - 1] + ThumbHeight(q - 1, t) + 1]
  <2>1. ASSUME NEW q \in 1..N
        PROVE  (IF q = 1 THEN 2 ELSE f[q - 1] + h[q - 1] + 1)
                 = IF q = 1 THEN 2 ELSE f[q - 1] + ThumbHeight(q - 1, t) + 1
    BY <1>2, Zenon
  <2>2. [q \in 1..N |-> IF q = 1 THEN 2 ELSE f[q - 1] + h[q - 1] + 1]
          = [q \in 1..N |-> IF q = 1 THEN 2 ELSE f[q - 1] + ThumbHeight(q - 1, t) + 1]
    BY <2>1, Zenon
  <2> QED BY <1>3, <2>2, Zenon DEF AllPages
<1>5. tops = [q \in AllPages |-> IF q = 1 THEN 2 ELSE tops[q - 1] + ThumbHeight(q - 1, t) + 1]
  BY <1>4, Zenon DEF ThumbTops
<1> QED BY <1>5, Zenon

LEMMA TopsAreNumbers ==
  ASSUME PagesAreCounted, NEW t, NEW tops, tops = ThumbTops(t)
  PROVE  \A q \in AllPages : tops[q] \in Nat
<1> DEFINE Odd == {q \in AllPages : tops[q] \notin Nat}
<1>1. SUFFICES ASSUME Odd # {} PROVE FALSE
  OBVIOUS
<1>2. PICK m \in Odd : \A k \in Odd : m <= k
  <2>1. Odd \subseteq Nat
    BY DEF AllPages
  <2> QED BY <1>1, <2>1, Least
<1>3. tops[m] = IF m = 1 THEN 2 ELSE tops[m - 1] + ThumbHeight(m - 1, t) + 1
  BY TopsAre
<1>4. CASE m = 1
  BY <1>3, <1>4
<1>5. CASE m # 1
  <2>1. m - 1 \in AllPages /\ ~(m <= m - 1)
    BY <1>5 DEF AllPages, PagesAreCounted
  <2>2. tops[m - 1] \in Nat
    BY <1>2, <2>1
  <2> QED BY <1>3, <1>5, <2>2, HeightsAreNumbers
<1> QED BY <1>4, <1>5

LEMMA TopsGrow ==
  ASSUME PagesAreCounted, NEW t, NEW tops, tops = ThumbTops(t),
         NEW p \in AllPages, NEW q \in AllPages, p <= q
  PROVE  tops[p] <= tops[q]
<1> DEFINE Odd == {r \in AllPages : p <= r /\ ~(tops[p] <= tops[r])}
<1>1. SUFFICES ASSUME Odd # {} PROVE FALSE
  OBVIOUS
<1>2. PICK m \in Odd : \A k \in Odd : m <= k
  <2>1. Odd \subseteq Nat
    BY DEF AllPages
  <2> QED BY <1>1, <2>1, Least
<1>3. m # p /\ p \in Nat /\ m \in Nat /\ p >= 1 /\ m <= N
  <2>1. tops[p] <= tops[p]
    BY TopsAreNumbers
  <2> QED BY <1>2, <2>1 DEF AllPages
<1>4. m - 1 \in AllPages /\ p <= m - 1 /\ ~(m <= m - 1) /\ m # 1
  BY <1>2, <1>3 DEF AllPages, PagesAreCounted
<1>5. tops[p] <= tops[m - 1]
  BY <1>2, <1>4
<1>6. tops[m] = tops[m - 1] + ThumbHeight(m - 1, t) + 1
  BY <1>4, TopsAre
<1>7. tops[p] \in Nat /\ tops[m - 1] \in Nat /\ ThumbHeight(m - 1, t) \in Nat
  BY <1>4, TopsAreNumbers, HeightsAreNumbers
<1>8. tops[p] <= tops[m]
  BY <1>5, <1>6, <1>7
<1> QED BY <1>2, <1>8

(* Whatever is turned, and wherever the column is scrolled.                 *)
LEMMA WindowHoldsTheVisible ==
  ASSUME PagesAreCounted, NEW t, NEW tops, tops = ThumbTops(t), NEW top \in Nat,
         NEW height \in Nat \ {0}, NEW p \in AllPages,
         tops[p] < top + height, tops[p] + ThumbHeight(p, t) > top
  PROVE  p \in VisibleItems(top, height, 0, t)
<1> DEFINE Ending == {q \in AllPages : tops[q] + ThumbHeight(q, t) >= top} \union {N}
           start  == Min(Ending)
           Below  == {q \in start..N : tops[q] > top + height} \union {N + 1}
           end    == Min(Below)
<1>1. N \in Nat /\ N >= 1 /\ p \in Nat /\ 1 <= p /\ p <= N
  BY DEF PagesAreCounted, AllPages
<1>2. tops[p] \in Nat /\ ThumbHeight(p, t) \in Nat
  BY TopsAreNumbers, HeightsAreNumbers
<1>3. p \in Ending /\ Ending \subseteq Nat /\ \A q \in Ending : q >= 1 /\ q <= N
  BY <1>1, <1>2 DEF AllPages
<1>4. start \in Ending /\ start <= p
  BY <1>3, MinIsLeast
<1>5. start \in Nat /\ start >= 1
  BY <1>3, <1>4
<1>6. N + 1 \in Below /\ Below \subseteq Nat
  BY <1>1, <1>5
<1>7. end \in Below
  BY <1>6, MinIsLeast
<1>8. end \in Nat /\ p < end
  <2>1. CASE end = N + 1
    BY <1>1, <2>1
  <2>2. CASE end \in start..N /\ tops[end] > top + height
    <3>1. end \in AllPages
      BY <1>1, <1>5, <2>2 DEF AllPages
    <3>2. end <= p => tops[end] <= tops[p]
      BY <3>1, TopsGrow
    <3>3. tops[end] \in Nat
      BY <3>1, TopsAreNumbers
    <3> QED BY <1>1, <1>2, <2>2, <3>1, <3>2, <3>3 DEF AllPages
  <2> QED BY <1>7, <2>1, <2>2
<1>9. Max({1, start - 0}) <= p
  <2>1. Max({1, start - 0}) \in {1, start}
    BY <1>5 DEF Max
  <2> QED BY <1>1, <1>4, <2>1
<1>10. p <= Min({N, end - 1 + 0})
  <2>1. {N, end - 1 + 0} \subseteq Nat
    BY <1>1, <1>8
  <2>2. Min({N, end - 1 + 0}) \in {N, end - 1 + 0}
    BY <2>1, MinIsLeast
  <2> QED BY <1>1, <1>8, <2>2
<1>11. VisibleItems(top, height, 0, t) = Max({1, start - 0})..Min({N, end - 1 + 0})
  <2>1. ~(height <= 0)
    OBVIOUS
  <2> QED BY <2>1, Zenon DEF VisibleItems
<1>12. Max({1, start - 0}) \in Nat /\ Min({N, end - 1 + 0}) \in Nat
  <2>1. Max({1, start - 0}) \in {1, start}
    BY <1>5 DEF Max
  <2>2. Min({N, end - 1 + 0}) \in {N, end - 1 + 0}
    BY <1>1, <1>8, MinIsLeast
  <2> QED BY <1>1, <1>5, <1>8, <2>1, <2>2
<1> QED BY <1>1, <1>9, <1>10, <1>11, <1>12

\* For every number of pages, however they are turned and wherever the column
\* is scrolled, each thumbnail some part of which can be seen is drawn: the tops
\* are recomputed from the turned heights (thumbnail plugin, getVisibleItems).
THEOREM Drawn ==
  ASSUME PagesAreCounted PROVE EveryVisibleIsDrawn
<1> DEFINE tops == ThumbTops(turned)
<1>1. N \in AllPages
  BY DEF PagesAreCounted, AllPages
<1>2. tops[N] + ThumbHeight(N, turned) \in Nat
  BY <1>1, TopsAreNumbers, HeightsAreNumbers
<1>3. \A top \in 0..(tops[N] + ThumbHeight(N, turned)), height \in {1, 6} :
        {p \in AllPages : tops[p] < top + height /\ tops[p] + ThumbHeight(p, turned) > top}
          \subseteq VisibleItems(top, height, 0, turned)
  BY <1>2, WindowHoldsTheVisible
<1> QED BY <1>3, Zenon DEF EveryVisibleIsDrawn

-----------------------------------------------------------------------------
(* ---- PDF viewer: turning pages leaves the page being read where it is    *)

LEMMA PageHeights ==
  ASSUME NEW p, NEW z \in {1, 2}
  PROVE  /\ \A t : HeightOf(p, t, z) \in Nat
         /\ \A t, u : t[p] = u[p] => HeightOf(p, t, z) = HeightOf(p, u, z)
<1>1. \A t : HeightOf(p, t, z) \in Nat
  BY RotatedAre DEF HeightOf
<1>2. \A t, u : t[p] = u[p] => HeightOf(p, t, z) = HeightOf(p, u, z)
  BY Zenon DEF HeightOf, RotatedHeight, OnItsSide, Rotation
<1> QED BY <1>1, <1>2

(* Each page begins below the end of the one before, the first below the   *)
(* room kept for it.                                                       *)
LEMMA OffsetsAre ==
  ASSUME PagesAreCounted, NEW t, NEW z
  PROVE  \A q \in AllPages :
           Offset(q, t, z) = IF q = 1 THEN StartSpacing(t, z)
                             ELSE Offset(q - 1, t, z) + HeightOf(q - 1, t, z) + 1
<1> DEFINE first == StartSpacing(t, z)
           h == [p \in AllPages |-> HeightOf(p, t, z)]
           Sums(f) == f = [q \in AllPages |-> IF q = 1 THEN first
                                              ELSE f[q - 1] + HeightOf(q - 1, t, z) + PageGap]
           offset == CHOOSE f : Sums(f)
<1>1. \E f : StackOf(N, f, first, h)
  BY StacksExist DEF PagesAreCounted
<1>2. ASSUME NEW q \in 1..N, q # 1 PROVE h[q - 1] = HeightOf(q - 1, t, z)
  <2>1. q - 1 \in AllPages
    BY <1>2 DEF AllPages, PagesAreCounted
  <2> QED BY <2>1
<1>3. \A q : Offset(q, t, z) = offset[q]
  BY Zenon DEF Offset
<1> HIDE DEF h, first, offset
<1>4. \E f : Sums(f)
  <2>1. PICK f : f = [q \in 1..N |-> IF q = 1 THEN first ELSE f[q - 1] + h[q - 1] + 1]
    BY <1>1, Zenon DEF StackOf
  <2>2. ASSUME NEW q \in 1..N
        PROVE  (IF q = 1 THEN first ELSE f[q - 1] + h[q - 1] + 1)
                 = IF q = 1 THEN first ELSE f[q - 1] + HeightOf(q - 1, t, z) + PageGap
    BY <1>2, Zenon DEF PageGap
  <2>3. [q \in 1..N |-> IF q = 1 THEN first ELSE f[q - 1] + h[q - 1] + 1]
          = [q \in 1..N |-> IF q = 1 THEN first ELSE f[q - 1] + HeightOf(q - 1, t, z) + PageGap]
    BY <2>2, Zenon
  <2>4. Sums(f)
    BY <2>1, <2>3, Zenon DEF AllPages
  <2> QED BY <2>4
<1>5. Sums(offset)
  BY <1>4, Zenon DEF offset
<1>6. \A q \in AllPages : offset[q] = IF q = 1 THEN first ELSE offset[q - 1] + HeightOf(q - 1, t, z) + 1
  BY <1>5, Zenon DEF PageGap
<1> QED BY <1>3, <1>6, Zenon DEF first

(* Where a page begins below that room.                                    *)
Begins(q, t, z) == Offset(q, t, z) - StartSpacing(t, z)

LEMMA BeginsAre ==
  ASSUME PagesAreCounted, NEW t, NEW z \in {1, 2}
  PROVE  \A q \in AllPages :
           /\ Offset(q, t, z) \in Int /\ Begins(q, t, z) \in Int
           /\ Begins(q, t, z) = IF q = 1 THEN 0 ELSE Begins(q - 1, t, z) + HeightOf(q - 1, t, z) + 1
<1>1. StartSpacing(t, z) \in Int
  <2>1. HeightOf(1, t, z) \in Nat /\ HeightOf(1, Flat, z) \in Nat
    BY PageHeights
  <2> QED BY <2>1 DEF StartSpacing
<1> DEFINE Odd == {q \in AllPages : Offset(q, t, z) \notin Int}
<1>2. Odd = {}
  <2>1. SUFFICES ASSUME Odd # {} PROVE FALSE
    OBVIOUS
  <2>2. PICK m \in Odd : \A k \in Odd : m <= k
    <3>1. Odd \subseteq Nat
      BY DEF AllPages
    <3> QED BY <2>1, <3>1, Least
  <2>3. Offset(m, t, z) = IF m = 1 THEN StartSpacing(t, z)
                          ELSE Offset(m - 1, t, z) + HeightOf(m - 1, t, z) + 1
    BY OffsetsAre
  <2>4. CASE m = 1
    BY <1>1, <2>3, <2>4
  <2>5. CASE m # 1
    <3>1. m - 1 \in AllPages /\ ~(m <= m - 1)
      BY <2>5 DEF AllPages, PagesAreCounted
    <3>2. Offset(m - 1, t, z) \in Int
      BY <2>2, <3>1
    <3>3. HeightOf(m - 1, t, z) \in Nat
      BY PageHeights
    <3> QED BY <2>3, <2>5, <3>2, <3>3
  <2> QED BY <2>4, <2>5
<1> QED
  <2> SUFFICES ASSUME NEW q \in AllPages
               PROVE  /\ Offset(q, t, z) \in Int /\ Begins(q, t, z) \in Int
                      /\ Begins(q, t, z) = IF q = 1 THEN 0
                                           ELSE Begins(q - 1, t, z) + HeightOf(q - 1, t, z) + 1
    OBVIOUS
  <2>1. Offset(q, t, z) \in Int
    BY <1>2
  <2>2. CASE q = 1
    BY <1>1, <2>1, <2>2, OffsetsAre DEF Begins
  <2>3. CASE q # 1
    <3>1. q - 1 \in AllPages
      BY <2>3 DEF AllPages, PagesAreCounted
    <3>2. Offset(q - 1, t, z) \in Int /\ HeightOf(q - 1, t, z) \in Nat
      BY <1>2, <3>1, PageHeights
    <3>3. Offset(q, t, z) = Offset(q - 1, t, z) + HeightOf(q - 1, t, z) + 1
      BY <2>3, OffsetsAre
    <3> QED BY <1>1, <2>1, <2>3, <3>2, <3>3 DEF Begins
  <2> QED BY <2>2, <2>3

(* Two layouts that differ above page q in page x at most.                 *)
LEMMA BeginsDiffer ==
  ASSUME PagesAreCounted, NEW t, NEW u, NEW z \in {1, 2}, NEW x \in AllPages, NEW q \in AllPages,
         \A p \in AllPages : p < q /\ p # x => t[p] = u[p]
  PROVE  Begins(q, t, z) - Begins(q, u, z)
           = IF x < q THEN HeightOf(x, t, z) - HeightOf(x, u, z) ELSE 0
<1> DEFINE Moved(r) == IF x < r THEN HeightOf(x, t, z) - HeightOf(x, u, z) ELSE 0
           Odd == {r \in AllPages : r <= q /\ Begins(r, t, z) - Begins(r, u, z) # Moved(r)}
<1>1. SUFFICES ASSUME Odd # {} PROVE FALSE
  BY DEF AllPages
<1>2. PICK m \in Odd : \A k \in Odd : m <= k
  <2>1. Odd \subseteq Nat
    BY DEF AllPages
  <2> QED BY <1>1, <2>1, Least
<1>3. m \in Nat /\ m >= 1 /\ m <= N /\ m <= q /\ q \in Nat /\ x \in Nat /\ x >= 1 /\ N \in Nat
  BY <1>2 DEF AllPages, PagesAreCounted
<1>4. CASE m = 1
  <2>1. Begins(m, t, z) = 0 /\ Begins(m, u, z) = 0
    BY <1>4, BeginsAre
  <2>2. ~(x < m)
    BY <1>3, <1>4
  <2> QED BY <1>2, <2>1, <2>2
<1>5. CASE m # 1
  <2>1. m - 1 \in AllPages /\ m - 1 <= q /\ m - 1 < q /\ ~(m <= m - 1)
    BY <1>3, <1>5 DEF AllPages
  <2>2. Begins(m - 1, t, z) - Begins(m - 1, u, z) = Moved(m - 1)
    BY <1>2, <2>1
  <2>3. /\ Begins(m, t, z) = Begins(m - 1, t, z) + HeightOf(m - 1, t, z) + 1
        /\ Begins(m, u, z) = Begins(m - 1, u, z) + HeightOf(m - 1, u, z) + 1
    BY <1>5, BeginsAre
  <2>4. /\ Begins(m - 1, t, z) \in Int /\ Begins(m - 1, u, z) \in Int
        /\ HeightOf(m - 1, t, z) \in Nat /\ HeightOf(m - 1, u, z) \in Nat
        /\ HeightOf(x, t, z) \in Nat /\ HeightOf(x, u, z) \in Nat
    BY <2>1, BeginsAre, PageHeights
  <2>5. m - 1 # x => HeightOf(m - 1, t, z) = HeightOf(m - 1, u, z)
    BY <2>1, PageHeights
  <2>6. Begins(m, t, z) - Begins(m, u, z) = Moved(m)
    BY <1>3, <2>2, <2>3, <2>4, <2>5
  <2> QED BY <1>2, <2>6
<1> QED BY <1>4, <1>5

(* How far the middle of page a moves, doubled, when page x alone is turned. *)
LEMMA OneTurned ==
  ASSUME PagesAreCounted, zoom \in {1, 2}, NEW t, NEW u, NEW x \in AllPages, NEW a \in AllPages,
         x <= a, \A p \in AllPages : p <= a /\ p # x => t[p] = u[p]
  PROVE  /\ TwiceMiddle(a, t) \in Int /\ TwiceMiddle(a, u) \in Int
         /\ TwiceMiddle(a, t) - TwiceMiddle(a, u)
              = IF x = a THEN HeightOf(x, t, zoom) - HeightOf(x, u, zoom)
                ELSE 2 * (HeightOf(x, t, zoom) - HeightOf(x, u, zoom))
<1>1. \A v : TwiceMiddle(a, v) = 2 * Begins(a, v, zoom) + HeightOf(a, v, zoom)
  BY Zenon DEF TwiceMiddle, Begins
<1>2. /\ Begins(a, t, zoom) \in Int /\ Begins(a, u, zoom) \in Int
      /\ HeightOf(a, t, zoom) \in Nat /\ HeightOf(a, u, zoom) \in Nat
      /\ HeightOf(x, t, zoom) \in Nat /\ HeightOf(x, u, zoom) \in Nat
  BY BeginsAre, PageHeights
<1>3. a \in Nat /\ x \in Nat /\ \A p \in AllPages : p \in Nat /\ (p < a => p <= a)
  BY DEF AllPages
<1>4. Begins(a, t, zoom) - Begins(a, u, zoom)
        = IF x < a THEN HeightOf(x, t, zoom) - HeightOf(x, u, zoom) ELSE 0
  BY <1>3, BeginsDiffer
<1>5. x # a => HeightOf(a, t, zoom) = HeightOf(a, u, zoom)
  BY <1>3, PageHeights
<1> QED BY <1>1, <1>2, <1>3, <1>4, <1>5

(* The layout in which only the pages of s have been turned as t turns them. *)
Partly(s, t) == [p \in AllPages |-> IF p \in s THEN t[p] ELSE turned[p]]

Share(p, a, t) == IF p = a THEN Growth(p, t) ELSE 2 * Growth(p, t)

SumsUpTo(S, f, a, t) ==
  f = [s \in SUBSET S |->
         IF s = {} THEN 0
         ELSE LET x == CHOOSE y \in s : TRUE IN Share(x, a, t) + f[s \ {x}]]

LEMMA ScrollIsASum ==
  ASSUME NEW targets, NEW a, NEW t
  PROVE  LET S == {p \in targets : p <= a}
         IN  ScrollDelta(targets, a, t) = (CHOOSE f : SumsUpTo(S, f, a, t))[S]
  BY Zenon DEF ScrollDelta, MapThenSumSet, MapThenFoldSet, SumsUpTo, Share

(* Layouts alike down to page a have its middle at one place.              *)
LEMMA NothingMoves ==
  ASSUME PagesAreCounted, zoom \in {1, 2}, NEW t, NEW u, NEW a \in AllPages,
         \A p \in AllPages : p <= a => t[p] = u[p]
  PROVE  TwiceMiddle(a, t) \in Int /\ TwiceMiddle(a, t) = TwiceMiddle(a, u)
<1>1. a <= a
  BY DEF AllPages
<1>2. HeightOf(a, t, zoom) = HeightOf(a, u, zoom) /\ HeightOf(a, t, zoom) \in Nat
  BY <1>1, PageHeights
<1>3. /\ TwiceMiddle(a, t) \in Int /\ TwiceMiddle(a, u) \in Int
      /\ TwiceMiddle(a, t) - TwiceMiddle(a, u) = HeightOf(a, t, zoom) - HeightOf(a, u, zoom)
  BY <1>1, OneTurned
<1> QED BY <1>2, <1>3

(* How far the middle of page a moves with the pages of s turned is a sum  *)
(* of what each of them moves it.                                          *)
LEMMA MovesAddUp ==
  ASSUME PagesAreCounted, zoom \in {1, 2}, NEW t, NEW a \in AllPages,
         NEW S \in SUBSET AllPages, \A p \in S : p <= a
  PROVE  SumsUpTo(S, [s \in SUBSET S |-> TwiceMiddle(a, Partly(s, t)) - TwiceMiddle(a, turned)], a, t)
<1> DEFINE g == [s \in SUBSET S |-> TwiceMiddle(a, Partly(s, t)) - TwiceMiddle(a, turned)]
<1>1. ASSUME NEW s \in SUBSET S, s = {} PROVE g[s] = 0
  <2>1. \A p \in AllPages : p <= a => Partly(s, t)[p] = turned[p]
    BY <1>1 DEF Partly
  <2> HIDE DEF g
  <2>2. TwiceMiddle(a, Partly(s, t)) \in Int /\ TwiceMiddle(a, Partly(s, t)) = TwiceMiddle(a, turned)
    BY <2>1, NothingMoves
  <2> QED BY <2>2 DEF g
<1>2. ASSUME NEW s \in SUBSET S, NEW x \in s
      PROVE  g[s] = Share(x, a, t) + g[s \ {x}]
  <2> DEFINE all == Partly(s, t)
             rest == Partly(s \ {x}, t)
  <2>1. x \in AllPages /\ x <= a /\ x \in s
    OBVIOUS
  <2>2. \A p \in AllPages : p <= a /\ p # x => all[p] = rest[p]
    BY Zenon DEF Partly
  <2>3. all[x] = t[x] /\ rest[x] = turned[x]
    BY <2>1 DEF Partly
  <2>4. \A p \in AllPages : p <= a /\ p # a => turned[p] = turned[p]
    OBVIOUS
  <2>5. g[s] = TwiceMiddle(a, all) - TwiceMiddle(a, turned)
        /\ g[s \ {x}] = TwiceMiddle(a, rest) - TwiceMiddle(a, turned)
    OBVIOUS
  <2> HIDE DEF g, all, rest
  <2>6. /\ TwiceMiddle(a, all) \in Int /\ TwiceMiddle(a, rest) \in Int
        /\ TwiceMiddle(a, all) - TwiceMiddle(a, rest)
             = IF x = a THEN HeightOf(x, all, zoom) - HeightOf(x, rest, zoom)
               ELSE 2 * (HeightOf(x, all, zoom) - HeightOf(x, rest, zoom))
    BY <2>1, <2>2, OneTurned
  <2>7. HeightOf(x, all, zoom) = HeightOf(x, t, zoom)
        /\ HeightOf(x, rest, zoom) = HeightOf(x, turned, zoom)
    BY <2>3, PageHeights
  <2>8. TwiceMiddle(a, all) - TwiceMiddle(a, rest) = Share(x, a, t)
    BY <2>6, <2>7, Zenon DEF Share, Growth
  <2>9. TwiceMiddle(a, turned) \in Int
    BY NothingMoves
  <2> QED BY <2>5, <2>6, <2>8, <2>9
<1>3. ASSUME NEW s \in SUBSET S
      PROVE  g[s] = IF s = {} THEN 0
                    ELSE LET x == CHOOSE y \in s : TRUE IN Share(x, a, t) + g[s \ {x}]
  <2>1. CASE s = {}
    BY <1>1, <2>1
  <2>2. CASE s # {}
    <3>1. (CHOOSE y \in s : TRUE) \in s
      BY <2>2
    <3> HIDE DEF g
    <3> QED BY <1>2, <2>2, <3>1, Zenon
  <2> QED BY <2>1, <2>2
<1>4. g = [s \in SUBSET S |-> g[s]]
  OBVIOUS
<1> HIDE DEF g
<1>5. g = [s \in SUBSET S |-> IF s = {} THEN 0
             ELSE LET x == CHOOSE y \in s : TRUE IN Share(x, a, t) + g[s \ {x}]]
  BY <1>3, <1>4, Zenon
<1> QED BY <1>5, Zenon DEF SumsUpTo, g

(* There is one such sum.                                                  *)
LEMMA OneSum ==
  ASSUME PagesAreCounted, NEW t, NEW a, NEW S \in SUBSET AllPages, NEW f, NEW g,
         SumsUpTo(S, f, a, t), SumsUpTo(S, g, a, t)
  PROVE  f[S] = g[S]
<1> DEFINE Odd == {s \in SUBSET S : f[s] # g[s]}
           sizes == {Cardinality(s) : s \in Odd}
<1>1. SUFFICES ASSUME Odd # {} PROVE FALSE
  OBVIOUS
<1>2. \A s \in SUBSET S : IsFiniteSet(s) /\ Cardinality(s) \in Nat
  <2>1. IsFiniteSet(1..N)
    BY FS_Interval DEF PagesAreCounted
  <2> QED BY <2>1, FS_Subset, FS_CardinalityType DEF AllPages
<1>3. PICK n \in sizes : \A m \in sizes : n <= m
  <2>1. sizes \subseteq Nat /\ sizes # {}
    BY <1>1, <1>2
  <2> QED BY <2>1, Least
<1>4. PICK s \in Odd : n = Cardinality(s)
  BY <1>3
<1>5. \A h : SumsUpTo(S, h, a, t) =>
        h[s] = IF s = {} THEN 0
               ELSE Share(CHOOSE y \in s : TRUE, a, t) + h[s \ {CHOOSE y \in s : TRUE}]
  BY <1>4, Zenon DEF SumsUpTo
<1>6. s # {}
  BY <1>4, <1>5, Zenon
<1> DEFINE x == CHOOSE y \in s : TRUE
<1>7. x \in s /\ s \ {x} \in SUBSET S
  BY <1>4, <1>6, Zenon
<1> HIDE DEF x
<1>8. Cardinality(s \ {x}) < Cardinality(s)
  <2>1. Cardinality(s \ {x}) = Cardinality(s) - 1
    BY <1>2, <1>4, <1>7, FS_RemoveElement
  <2> QED BY <1>2, <1>4, <2>1
<1>9. f[s \ {x}] = g[s \ {x}]
  <2>1. SUFFICES ASSUME s \ {x} \in Odd PROVE FALSE
    BY <1>7
  <2>2. n <= Cardinality(s \ {x}) /\ Cardinality(s \ {x}) \in Nat /\ Cardinality(s) \in Nat
    BY <1>2, <1>3, <1>4, <1>7, <2>1
  <2> QED BY <1>4, <1>8, <2>2
<1>10. f[s] = g[s]
  BY <1>5, <1>6, <1>9, Zenon DEF x
<1> QED BY <1>4, <1>10

(* The scroll position moves as far as the middle of the page scrolled to. *)
LEMMA TurningHoldsThePlace ==
  ASSUME PagesAreCounted, zoom \in {1, 2}, NEW targets \in SUBSET AllPages, NEW a \in AllPages,
         NEW t, \A p \in AllPages \ targets : t[p] = turned[p]
  PROVE  ScrollDelta(targets, a, t) = TwiceMiddle(a, t) - TwiceMiddle(a, turned)
<1> DEFINE S == {p \in targets : p <= a}
           g == [s \in SUBSET S |-> TwiceMiddle(a, Partly(s, t)) - TwiceMiddle(a, turned)]
           f == CHOOSE h : SumsUpTo(S, h, a, t)
<1>1. S \in SUBSET AllPages /\ \A p \in S : p <= a
  OBVIOUS
<1>2. SumsUpTo(S, g, a, t)
  <2> HIDE DEF S
  <2> QED BY <1>1, MovesAddUp
<1>3. SumsUpTo(S, f, a, t)
  <2> HIDE DEF S, g
  <2> QED BY <1>2, Zenon
<1>4. ScrollDelta(targets, a, t) = f[S]
  BY ScrollIsASum, Zenon
<1>5. g[S] = TwiceMiddle(a, Partly(S, t)) - TwiceMiddle(a, turned)
  OBVIOUS
<1>6. \A p \in AllPages : p <= a => Partly(S, t)[p] = t[p]
  BY DEF Partly
<1> HIDE DEF S, f, g
<1>7. f[S] = g[S]
  BY <1>1, <1>2, <1>3, OneSum
<1>8. TwiceMiddle(a, Partly(S, t)) = TwiceMiddle(a, t)
  BY <1>6, NothingMoves
<1> QED BY <1>4, <1>5, <1>7, <1>8, Zenon

TurnInv == zoom \in {1, 2} /\ turns \in Nat

LEMMA TurnInitInv == TurnInit => TurnInv
  BY DEF TurnInit, TurnInv

LEMMA TurnNextInv == TurnInv /\ [TurnNext]_turnVars => TurnInv'
<1>1. ASSUME TurnInv, UNCHANGED <<zoom, turns>> PROVE TurnInv'
  BY <1>1 DEF TurnInv
<1>2. ASSUME TurnInv, ChangeZoom PROVE TurnInv'
  BY <1>2 DEF TurnInv, ChangeZoom
<1>3. ASSUME TurnInv, RotateSelectedPages PROVE TurnInv'
  <2>1. zoom' = zoom /\ turns' = turns + 1
    BY <1>3, Zenon DEF RotateSelectedPages
  <2> QED BY <1>3, <2>1 DEF TurnInv
<1> QED BY <1>1, <1>2, <1>3, Zenon DEF TurnNext, turnVars, PagesLoad, HandleDownload, DownloadEnds

\* However many pages the document has and whichever of them are turned, however
\* they lay before: the page being read stays where it is on screen, because the
\* scroll position is moved by what the turn adds above the page's middle
\* (rotateSelectedPages).
THEOREM PlaceHeld ==
  ASSUME PagesAreCounted PROVE TurnInv /\ [TurnNext]_turnVars => HoldsThePlace
<1> SUFFICES ASSUME TurnInv, [TurnNext]_turnVars, turns' = turns + 1
             PROVE  scrolled' = TwiceMiddle(readPage', turned') - TwiceMiddle(readPage', turned)
  BY Zenon DEF HoldsThePlace
<1>1. turns' # turns
  BY DEF TurnInv
<1>2. RotateSelectedPages
  BY <1>1, Zenon DEF TurnNext, turnVars, PagesLoad, ChangeZoom, HandleDownload, DownloadEnds
<1>3. PICK a \in AllPages, selected \in SUBSET AllPages, direction \in {-1, 1} :
        /\ turned' = Turned(Targets(selected, a), direction)
        /\ readPage' = a
        /\ scrolled' = ScrollDelta(Targets(selected, a), a, turned')
  BY <1>2, Zenon DEF RotateSelectedPages
<1> DEFINE targets == Targets(selected, a)
<1>4. targets \in SUBSET AllPages
  BY Zenon DEF Targets
<1> HIDE DEF targets
<1>5. \A p \in AllPages \ targets : turned'[p] = turned[p]
  BY <1>3, Zenon DEF Turned, targets
<1>6. zoom \in {1, 2}
  BY Zenon DEF TurnInv
<1>7. ScrollDelta(targets, a, turned')
        = TwiceMiddle(a, turned') - TwiceMiddle(a, turned)
  BY <1>4, <1>5, <1>6, TurningHoldsThePlace
<1> QED BY <1>3, <1>7, Zenon DEF targets

-----------------------------------------------------------------------------
(* ---- Spreadsheet: the preview of a sheet goes with its strip            *)

(* A preview hangs over a strip that is gone only until the poll looks, and *)
(* one that hangs over the strip has the pointer on it.                     *)
TabsInv ==
  /\ PreviewGoes
  /\ opening # 0 /\ pointer = 0 => ~strip \/ blinked

LEMMA TabsInitInv == TabsInit => TabsInv
  BY DEF TabsInit, TabsInv, PreviewGoes

LEMMA TabsNextInv == TabsInv /\ [TabsNext]_tabVars => TabsInv'
<1> SUFFICES ASSUME TabsInv, [TabsNext]_tabVars PROVE TabsInv'
  OBVIOUS
<1> USE DEF TabsInv, PreviewGoes
<1>1. CASE HandleItemEnter
  <2>1. pointer' # 0
    BY <1>1 DEF HandleItemEnter
  <2> QED BY <2>1
<1>2. CASE HandleContainerLeave
  BY <1>2 DEF HandleContainerLeave
<1>3. CASE OpenTimer
  BY <1>3 DEF OpenTimer
<1>4. CASE CloseTimer
  BY <1>4 DEF CloseTimer
<1>5. CASE DismissWhenHidden
  BY <1>5 DEF DismissWhenHidden
<1>6. CASE HideOrShow
  BY <1>6 DEF HideOrShow
<1>7. CASE ChangeSheets
  BY <1>7 DEF ChangeSheets
<1>8. CASE UNCHANGED tabVars
  BY <1>8 DEF tabVars
<1> QED BY <1>1, <1>2, <1>3, <1>4, <1>5, <1>6, <1>7, <1>8 DEF TabsNext

-----------------------------------------------------------------------------
(* ---- Document editor: the card shown is that of the style pointed at    *)

(* The card about to close is not that of the style under the pointer. *)
CardsInv == CardOfTheStylePointedAt /\ (hover # NoStyle => hover \notin closing)

LEMMA CardsInitInv == ToolbarInit => CardsInv
  BY DEF ToolbarInit, CardsInv, CardOfTheStylePointedAt

LEMMA CardsNextInv == CardsInv /\ [ToolbarNext]_toolbarVars => CardsInv'
<1> SUFFICES ASSUME CardsInv, [ToolbarNext]_toolbarVars PROVE CardsInv'
  OBVIOUS
<1> USE DEF CardsInv, CardOfTheStylePointedAt
<1>1. CASE UNCHANGED Popups
  BY <1>1 DEF Popups
<1>2. CASE StyleMenu \/ SetParagraphStyle
  BY <1>2 DEF StyleMenu, SetParagraphStyle
<1>3. CASE PointAtStyle \/ LeaveStyles
  BY <1>3 DEF PointAtStyle, LeaveStyles
<1>4. CASE CardCloses
  BY <1>4 DEF CardCloses
<1> QED BY <1>1, <1>2, <1>3, <1>4
        DEF ToolbarNext, toolbarVars, Popups, DocumentLoads, Select, ToggleReadOnly, UndoRedo, ApplyFontToggleValues,
            OtherCommand, OpenLinkEditor, ApplyLink, PickImage, HandleImageUpload

-----------------------------------------------------------------------------
(* ---- Uploads: a file shown as uploaded is stored whole                  *)

Phases == {"none", "init", "sending", "done", "failed"}
Loop == [file : Files \cup {NoFile}, phase : Phases, at : Nat, stored : SUBSET Nat, acked : Nat]

(* A loop that sends has stored the chunks before the one it is at.        *)
InOrder(l) ==
  l.phase \in {"init", "sending"} => l.at \in 1..(Chunks + 1) /\ l.stored = 1..(l.at - 1)

(* A file counts as uploaded by the loop that has sent all of it.          *)
SentWhole(f) ==
  complete[f] # 0 =>
    /\ complete[f] \in LoopIds /\ loops[complete[f]].phase = "done"
    /\ loops[complete[f]].file = f /\ loops[complete[f]].stored = 1..Chunks

(* A file has so many chunks, and so many loops can run. *)
ChunksAreCounted == Chunks \in Nat

LoopTypes == loops \in [LoopIds -> Loop] /\ listed \subseteq Files /\ complete \in [Files -> Nat]

UploadsInv ==
  /\ LoopTypes
  /\ \A n \in LoopIds : InOrder(loops[n])
  /\ \A f \in Files : SentWhole(f)

LEMMA NoLoopIsOne == NoLoop \in Loop
<1>1. NoLoop.phase = "none" /\ NoLoop.file = NoFile
  BY DEF NoLoop
<1> QED BY DEF NoLoop, Loop, Phases

LEMMA UploadsInitInv == UploadsInit => UploadsInv
<1> SUFFICES ASSUME UploadsInit PROVE UploadsInv
  OBVIOUS
<1>1. LoopTypes
  BY NoLoopIsOne DEF UploadsInit, LoopTypes
<1>2. ASSUME NEW n \in LoopIds PROVE InOrder(loops[n])
  <2>1. loops[n].phase = "none"
    BY DEF UploadsInit, NoLoop
  <2> QED BY <2>1 DEF InOrder
<1>3. ASSUME NEW f \in Files PROVE SentWhole(f)
  BY DEF UploadsInit, SentWhole
<1> QED BY <1>1, <1>2, <1>3 DEF UploadsInv

(* Steps that let the loops and the files' states be.                      *)
LEMMA Unmoved ==
  ASSUME ChunksAreCounted, UploadsInv, UNCHANGED <<loops, complete>>, listed' \subseteq Files
  PROVE  UploadsInv'
<1>1. LoopTypes'
  BY DEF UploadsInv, LoopTypes
<1>2. ASSUME NEW n \in LoopIds PROVE InOrder(loops[n])'
  BY DEF UploadsInv, InOrder
<1>3. ASSUME NEW f \in Files PROVE SentWhole(f)'
  BY DEF UploadsInv, SentWhole
<1> QED BY <1>1, <1>2, <1>3 DEF UploadsInv

(* A loop that was not done moves, and no file is completed by it.         *)
LEMMA LoopMoves ==
  ASSUME ChunksAreCounted, UploadsInv, NEW n \in LoopIds, NEW l \in Loop, InOrder(l),
         loops[n].phase # "done", loops' = [loops EXCEPT ![n] = l],
         UNCHANGED <<listed, complete>>
  PROVE  UploadsInv'
<1>1. LoopTypes'
  BY DEF UploadsInv, LoopTypes
<1>2. ASSUME NEW m \in LoopIds PROVE InOrder(loops[m])'
  <2>1. InOrder(loops'[m])
    BY DEF UploadsInv, LoopTypes
  <2> QED BY <2>1 DEF InOrder
<1>3. ASSUME NEW f \in Files PROVE SentWhole(f)'
  <2>1. SentWhole(f)
    BY DEF UploadsInv
  <2>2. complete[f] # 0 => complete[f] # n
    BY <2>1 DEF SentWhole
  <2>3. complete[f] # 0 => loops'[complete[f]] = loops[complete[f]]
    BY <2>1, <2>2 DEF UploadsInv, LoopTypes, SentWhole
  <2> QED BY <2>1, <2>3 DEF SentWhole
<1> QED BY <1>1, <1>2, <1>3 DEF UploadsInv

LEMMA UploadsStart ==
  ASSUME ChunksAreCounted, UploadsInv, NEW list, list \subseteq Files, UploadFiles(list),
         listed' \subseteq Files, complete' = complete
  PROVE  UploadsInv'
<1>1. CASE UNCHANGED <<loops, batch, isUploading, drawer>>
  BY <1>1, Unmoved
<1>2. CASE ~UNCHANGED <<loops, batch, isUploading, drawer>>
  <2>0. PICK over \in SUBSET Files : \E start \in [over -> Free] :
          /\ batch' = {start[f] : f \in over}
          /\ loops' = [m \in LoopIds |->
               IF m \in batch'
               THEN [NoLoop EXCEPT !.phase = "init", !.file = CHOOSE f \in over : start[f] = m]
               ELSE loops[m]]
    <3>1. PICK again \in SUBSET errored :
            LET over == {f \in list : complete[f] = 0 /\ f \notin errored \ again} \ InBatch
            IN  \E start \in [over -> Free] :
                  /\ batch' = {start[f] : f \in over}
                  /\ loops' = [m \in LoopIds |->
                       IF m \in batch'
                       THEN [NoLoop EXCEPT !.phase = "init",
                                           !.file = CHOOSE f \in over : start[f] = m]
                       ELSE loops[m]]
      BY <1>2, Zenon DEF UploadFiles
    <3>2. {f \in list : complete[f] = 0 /\ f \notin errored \ again} \ InBatch \in SUBSET Files
      OBVIOUS
    <3> QED BY <3>1, <3>2, Zenon
  <2>1. PICK start \in [over -> Free] :
          /\ batch' = {start[f] : f \in over}
          /\ loops' = [m \in LoopIds |->
               IF m \in batch'
               THEN [NoLoop EXCEPT !.phase = "init", !.file = CHOOSE f \in over : start[f] = m]
               ELSE loops[m]]
    BY <2>0
  <2>2. batch' \subseteq Free
    BY <2>1
  <2>3. ASSUME NEW m \in batch'
        PROVE  \E f \in over : loops'[m] = [file |-> f, phase |-> "init", at |-> 1,
                                            stored |-> {}, acked |-> 0]
    <3>1. PICK f \in over : f = (CHOOSE g \in over : start[g] = m)
      BY <2>1
    <3>2. loops'[m] = [NoLoop EXCEPT !.phase = "init", !.file = f]
      BY <2>1, <2>2, <3>1 DEF Free
    <3> QED BY <3>2 DEF NoLoop
  <2>4. ASSUME NEW m \in LoopIds PROVE loops'[m] \in Loop /\ InOrder(loops'[m])
    <3>1. CASE m \in batch'
      <4>1. PICK f \in over : loops'[m] = [file |-> f, phase |-> "init", at |-> 1,
                                           stored |-> {}, acked |-> 0]
        BY <3>1, <2>3
      <4> QED BY <4>1 DEF ChunksAreCounted, Loop, Phases, InOrder
    <3>2. CASE m \notin batch'
      BY <3>2, <2>1 DEF UploadsInv, LoopTypes
    <3> QED BY <3>1, <3>2
  <2>5. LoopTypes'
    BY <2>1, <2>4 DEF UploadsInv, LoopTypes
  <2>6. ASSUME NEW m \in LoopIds PROVE InOrder(loops[m])'
    BY <2>4 DEF InOrder
  <2>7. ASSUME NEW f \in Files PROVE SentWhole(f)'
    <3>1. SentWhole(f)
      BY DEF UploadsInv
    <3>2. complete[f] # 0 => loops'[complete[f]] = loops[complete[f]]
      BY <3>1, <2>1, <2>2 DEF SentWhole, Free
    <3> QED BY <3>1, <3>2 DEF SentWhole
  <2> QED BY <2>5, <2>6, <2>7 DEF UploadsInv
<1> QED BY <1>1, <1>2

LEMMA UploadsForget ==
  ASSUME ChunksAreCounted, UploadsInv, NEW gone, Forget(gone)
  PROVE  UploadsInv'
<1>1. LoopTypes'
  BY DEF UploadsInv, LoopTypes, Forget
<1>2. ASSUME NEW n \in LoopIds PROVE InOrder(loops[n])'
  BY DEF UploadsInv, InOrder, Forget
<1>3. ASSUME NEW f \in Files PROVE SentWhole(f)'
  BY DEF UploadsInv, SentWhole, Forget, LoopTypes
<1> QED BY <1>1, <1>2, <1>3 DEF UploadsInv

LEMMA UploadsNextInv == ChunksAreCounted /\ UploadsInv /\ [UploadsNext]_uploadVars => UploadsInv'
<1> SUFFICES ASSUME ChunksAreCounted, UploadsInv, [UploadsNext]_uploadVars PROVE UploadsInv'
  OBVIOUS
<1>1. CASE AddFiles
  <2>1. listed' \subseteq Files /\ complete' = complete
    BY <1>1 DEF AddFiles, UploadsInv, LoopTypes
  <2> QED BY <1>1, <2>1, UploadsStart, Unmoved DEF AddFiles
<1>2. CASE UploadButton
  BY <1>2, UploadsStart DEF UploadButton, UploadsInv, LoopTypes
<1>3. CASE RemoveFile \/ ClearAll
  BY <1>3, UploadsForget DEF RemoveFile, ClearAll
<1>4. CASE UNCHANGED <<loops, complete, listed>>
  BY <1>4, Unmoved DEF UploadsInv, LoopTypes
<1>5. ASSUME NEW n \in LoopIds, InitUpload(n) PROVE UploadsInv'
  <2> DEFINE l == [loops[n] EXCEPT !.phase = IF loops[n].file \in listed THEN "sending" ELSE "done"]
  <2>1. loops[n] \in Loop /\ loops[n].phase = "init" /\ InOrder(loops[n])
    BY <1>5 DEF InitUpload, UploadsInv, LoopTypes
  <2>2. l \in Loop /\ InOrder(l)
    BY <2>1 DEF Loop, Phases, InOrder
  <2>3. loops' = [loops EXCEPT ![n] = l] /\ UNCHANGED <<listed, complete>>
    BY <1>5 DEF InitUpload
  <2> QED BY <2>1, <2>2, <2>3, LoopMoves
<1>6. ASSUME NEW n \in LoopIds, UploadChunk(n) PROVE UploadsInv'
  <2>1. loops[n] \in Loop /\ loops[n].phase = "sending" /\ InOrder(loops[n]) /\ loops[n].at <= Chunks
    BY <1>6 DEF UploadChunk, UploadsInv, LoopTypes
  <2>2. loops[n].at \in Nat /\ loops[n].stored = 1..(loops[n].at - 1) /\ loops[n].at \in 1..Chunks
    BY <2>1 DEF ChunksAreCounted, Loop, InOrder
  <2>3. PICK l : l = [loops[n] EXCEPT !.stored = @ \cup {loops[n].at}, !.acked = loops[n].at,
                                      !.at = @ + 1]
    OBVIOUS
  <2>4. PICK l1 \in Loop : l1 = [loops[n] EXCEPT !.stored = @ \cup {loops[n].at}]
    BY <2>1, <2>2 DEF Loop
  <2>5. PICK l2 \in Loop : l2 = [l1 EXCEPT !.acked = loops[n].at]
    BY <2>2, <2>4 DEF Loop
  <2>6. PICK l3 \in Loop : l3 = [l2 EXCEPT !.at = loops[n].at + 1]
    <3>1. PICK next \in Nat : next = loops[n].at + 1
      BY <2>2
    <3>2. [l2 EXCEPT !.at = next] \in Loop
      BY DEF Loop
    <3> QED BY <3>1, <3>2, Zenon
  <2>7. l = l3
    BY <2>1, <2>3, <2>4, <2>5, <2>6 DEF Loop
  <2>8. l.stored = loops[n].stored \cup {loops[n].at} /\ l.at = loops[n].at + 1
    BY <2>1, <2>3 DEF Loop
  <2>9. l.stored = 1..(l.at - 1) /\ l.at \in 1..(Chunks + 1)
    BY <2>2, <2>8 DEF ChunksAreCounted
  <2>10. l \in Loop /\ InOrder(l)
    BY <2>6, <2>7, <2>9 DEF InOrder
  <2>11. loops' = [loops EXCEPT ![n] = l] /\ UNCHANGED <<listed, complete>>
    BY <1>6, <2>3 DEF UploadChunk, UploadsInv, LoopTypes
  <2> QED BY <2>1, <2>10, <2>11, LoopMoves
<1>7. ASSUME NEW n \in LoopIds, loops[n].phase # "done", UNCHANGED <<listed, complete>>,
             NEW stored \in SUBSET Nat,
             loops' = [loops EXCEPT ![n].stored = stored, ![n].phase = "failed"]
      PROVE  UploadsInv'
  <2> DEFINE l == [loops[n] EXCEPT !.stored = stored, !.phase = "failed"]
  <2>1. loops[n] \in Loop
    BY DEF UploadsInv, LoopTypes
  <2>2. l \in Loop /\ InOrder(l)
    BY <2>1 DEF Loop, Phases, InOrder
  <2>3. loops' = [loops EXCEPT ![n] = l]
    BY <1>7 DEF UploadsInv, LoopTypes
  <2> QED BY <1>7, <2>2, <2>3, LoopMoves
<1>8. ASSUME NEW n \in LoopIds, loops[n].phase # "done", UNCHANGED <<listed, complete>>,
             loops' = [loops EXCEPT ![n].phase = "failed"]
      PROVE  UploadsInv'
  <2> DEFINE l == [loops[n] EXCEPT !.phase = "failed"]
  <2>1. loops[n] \in Loop
    BY DEF UploadsInv, LoopTypes
  <2>2. l \in Loop /\ InOrder(l)
    BY <2>1 DEF Loop, Phases, InOrder
  <2>3. loops' = [loops EXCEPT ![n] = l]
    BY <1>8 DEF UploadsInv, LoopTypes
  <2> QED BY <1>8, <2>2, <2>3, LoopMoves
<1>9. ASSUME NEW n \in LoopIds, UploadFails(n) PROVE UploadsInv'
  <2>1. loops[n].phase # "done" /\ UNCHANGED <<listed, complete>>
    BY <1>9 DEF UploadFails
  <2>2. CASE loops' = [loops EXCEPT ![n].phase = "failed"]
    BY <2>1, <2>2, <1>8
  <2>3. CASE loops' = [loops EXCEPT ![n].stored = @ \cup {loops[n].at}, ![n].phase = "failed"]
    <3>1. loops[n].stored \cup {loops[n].at} \in SUBSET Nat
      BY DEF UploadsInv, LoopTypes, Loop
    <3>2. loops' = [loops EXCEPT ![n].stored = loops[n].stored \cup {loops[n].at}, ![n].phase = "failed"]
      BY <2>3 DEF UploadsInv, LoopTypes
    <3> QED BY <2>1, <3>1, <3>2, <1>7
  <2> QED BY <1>9, <2>2, <2>3 DEF UploadFails, Fails
<1>10. ASSUME NEW n \in LoopIds, MarkComplete(n) PROVE UploadsInv'
  <2>1. CASE Fails(n) /\ UNCHANGED complete
    BY <1>10, <2>1, <1>8 DEF MarkComplete, Fails
  <2>2. CASE ~(loops[n].acked < Chunks \/ loops[n].file \notin listed)
    <3> DEFINE l == [loops[n] EXCEPT !.phase = "done"]
    <3>1. loops[n] \in Loop /\ InOrder(loops[n]) /\ loops[n].phase = "sending" /\ loops[n].at > Chunks
          /\ loops[n].file \in Files
      BY <1>10, <2>2 DEF MarkComplete, UploadsInv, LoopTypes
    <3>2. l \in Loop /\ InOrder(l) /\ l.phase = "done" /\ l.file = loops[n].file /\ l.stored = 1..Chunks
      BY <3>1 DEF ChunksAreCounted, Loop, Phases, InOrder
    <3>3. loops' = [loops EXCEPT ![n] = l] /\ complete' = [complete EXCEPT ![loops[n].file] = n]
          /\ listed' = listed
      BY <1>10, <2>2 DEF MarkComplete
    <3>4. n \in Nat
      BY DEF LoopIds
    <3> HIDE DEF l
    <3>5. LoopTypes'
      BY <3>2, <3>3, <3>4 DEF UploadsInv, LoopTypes
    <3>6. ASSUME NEW m \in LoopIds PROVE InOrder(loops[m])'
      <4>1. InOrder(loops'[m])
        BY <3>2, <3>3 DEF UploadsInv, LoopTypes
      <4> QED BY <4>1 DEF InOrder
    <3>7. ASSUME NEW f \in Files PROVE SentWhole(f)'
      <4>1. SentWhole(f)
        BY DEF UploadsInv
      <4>2. CASE f = loops[n].file
        <5>1. complete'[f] = n /\ loops'[n] = l
          BY <3>3, <4>2 DEF UploadsInv, LoopTypes
        <5> QED BY <5>1, <4>2, <3>2 DEF SentWhole
      <4>3. CASE f # loops[n].file
        <5>1. complete'[f] = complete[f]
          BY <3>3, <4>3 DEF UploadsInv, LoopTypes
        <5>2. complete[f] # 0 => loops'[complete[f]] = loops[complete[f]]
          BY <3>1, <3>3, <4>1 DEF UploadsInv, LoopTypes, SentWhole
        <5> QED BY <5>1, <5>2, <4>1 DEF SentWhole
      <4> QED BY <4>2, <4>3
    <3> QED BY <3>5, <3>6, <3>7 DEF UploadsInv
  <2> QED BY <1>10, <2>1, <2>2 DEF MarkComplete
<1> QED BY <1>1, <1>2, <1>3, <1>4, <1>5, <1>6, <1>9, <1>10
        DEF UploadsNext, uploadVars, LoopStep, SetDrawer, UploadResolves

LEMMA UploadsAreWhole == UploadsInv => CompleteMeansStored
  BY DEF UploadsInv, LoopTypes, SentWhole, CompleteMeansStored
=============================================================================
