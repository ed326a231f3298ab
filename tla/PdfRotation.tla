---------------------------- MODULE PdfRotation ----------------------------
(* The quarter turns a reader of the web PDF viewer puts on pages, the     *)
(* layout of pages and thumbnails turned that way, and the download that   *)
(* carries them (components/extend/pdf-viewer.tsx).  Which page is         *)
(* scrolled to and which are selected is PdfPages' matter: here any may be *)
(* when pages are turned.  All pages are in the scroller's window.         *)
EXTENDS Integers, FiniteSets, FiniteSetsExt

CONSTANTS N,          \* the pages of the document, 1 .. N
          MaxTurns    \* bound: turns over the run

VARIABLES loaded,     \* the document is there
          turned,     \* pageRotationDeltas
          zoom,       \* the zoom level, a factor
          turns,      \* turns made so far
          readPage,   \* the page scrolled to when pages were turned last
          scrolled,   \* twice what that turn added to the scroll position
          download,   \* the turns the download under way will make, or Idle
          saved       \* how the first page lies in the file saved last

turnVars == <<loaded, turned, zoom, turns, readPage, scrolled, download, saved>>

AllPages == 1..N
Flat == [p \in AllPages |-> 0]

(* The document: pages of unequal shape, the last one turned by itself.    *)
Width(p) == 4

Height(p) == IF p = 1 THEN 8 ELSE 2

Base(p) == IF p = N THEN 1 ELSE 0

Quarter(r) == r % 4

Rotation(p, t) == Quarter(Base(p) + t[p])

OnItsSide(p, t) == Rotation(p, t) % 2 = 1

RotatedHeight(p, t) == IF OnItsSide(p, t) THEN Width(p) ELSE Height(p)

RotatedWidth(p, t) == IF OnItsSide(p, t) THEN Height(p) ELSE Width(p)

(* ---- the pages and the thumbnails, laid out below one another ---------- *)

HeightOf(p, t, z) == z * RotatedHeight(p, t)

(* When the first page gets shorter than the scroll plugin takes it to be, *)
(* half the room it leaves is kept above it.                               *)
StartSpacing(t, z) ==
  IF HeightOf(1, t, z) < HeightOf(1, Flat, z)
  THEN (HeightOf(1, Flat, z) - HeightOf(1, t, z)) \div 2 ELSE 0

PageGap == 1

Offset(p, t, z) ==
  LET offset[q \in AllPages] ==
        IF q = 1 THEN StartSpacing(t, z) ELSE offset[q - 1] + HeightOf(q - 1, t, z) + PageGap
  IN  offset[p]

(* A thumbnail: padding, the page scaled to the width of the column,       *)
(* padding again and the label; a gap to the next.                         *)
ThumbHeight(p, t) == 1 + (4 * RotatedHeight(p, t)) \div RotatedWidth(p, t) + 1 + 1

ThumbTops(t) ==
  LET top[q \in AllPages] == IF q = 1 THEN 2 ELSE top[q - 1] + ThumbHeight(q - 1, t) + 1
  IN  top

(* The thumbnails drawn when the column is scrolled to top and height of   *)
(* it is seen: from the first that ends below top to the last that begins  *)
(* above the bottom, and so many more on either side.                      *)
VisibleItemsCutTop(top, height, buffer, t) ==
  IF height <= 0 THEN 1..Min({N, 2 * buffer})
  ELSE LET tops  == ThumbTops(t)
           start == Min({p \in AllPages : tops[p] >= top} \union {N})
           end   == Min({p \in start..N : tops[p] > top + height} \union {N + 1})
       IN  Max({1, start - buffer})..Min({N, end - 1 + buffer})

VisibleItems(top, height, buffer, t) ==
  IF height <= 0 THEN 1..Min({N, 2 * buffer})
  ELSE LET tops  == ThumbTops(t)
           start == Min({p \in AllPages : tops[p] + ThumbHeight(p, t) >= top} \union {N})
           end   == Min({p \in start..N : tops[p] > top + height} \union {N + 1})
       IN  Max({1, start - buffer})..Min({N, end - 1 + buffer})

Idle == [p \in {} |-> 0]

(* ---- turning ------------------------------------------------------------ *)

TurnInit ==
  /\ loaded = FALSE /\ turned = Flat /\ zoom = 1 /\ turns = 0 /\ readPage = 1
  /\ scrolled = 0 /\ download = Idle /\ saved = 0

PagesLoad ==
  /\ ~loaded
  /\ loaded' = TRUE
  /\ UNCHANGED <<turned, zoom, turns, readPage, scrolled, download, saved>>

(* The zoom buttons and the list of levels are enabled with the document.  *)
ChangeZoom ==
  /\ loaded
  /\ zoom' \in {1, 2} \ {zoom}
  /\ UNCHANGED <<loaded, turned, turns, readPage, scrolled, download, saved>>

(* The selected pages, or the page scrolled to when none is.               *)
Targets(selected, active) == IF selected # {} THEN selected ELSE {active}

Turned(targets, direction) ==
  [p \in AllPages |-> IF p \in targets THEN Quarter(turned[p] + direction) ELSE turned[p]]

Growth(p, t) == HeightOf(p, t, zoom) - HeightOf(p, turned, zoom)

(* What is turned above the page scrolled to shifts it, what is turned of  *)
(* it shifts its middle by half.                                           *)
ScrollDeltaWhole(targets, active, t) ==
  MapThenSumSet(LAMBDA p : 2 * Growth(p, t), {p \in targets : p <= active})

ScrollDelta(targets, active, t) ==
  MapThenSumSet(LAMBDA p : IF p = active THEN Growth(p, t) ELSE 2 * Growth(p, t),
                {p \in targets : p <= active})

RotateSelectedPages ==
  /\ loaded /\ turns < MaxTurns
  /\ \E active \in AllPages, selected \in SUBSET AllPages, direction \in {-1, 1} :
       LET targets == Targets(selected, active)
       IN  /\ turned' = Turned(targets, direction)
           /\ readPage' = active
           /\ scrolled' = ScrollDelta(targets, active, turned')
  /\ turns' = turns + 1
  /\ UNCHANGED <<loaded, zoom, download, saved>>

(* ---- downloading -------------------------------------------------------- *)

HandleDownload ==
  /\ loaded /\ download = Idle
  /\ download' = turned
  /\ UNCHANGED <<loaded, turned, zoom, turns, readPage, scrolled, saved>>

(* The file is fetched again and turned as the pages were when asked; any  *)
(* step of it may fail.                                                    *)
DownloadEnds ==
  /\ download # Idle
  /\ saved' \in {saved, Rotation(1, download)}
  /\ download' = Idle
  /\ UNCHANGED <<loaded, turned, zoom, turns, readPage, scrolled>>

TurnNext ==
  PagesLoad \/ ChangeZoom \/ RotateSelectedPages \/ HandleDownload \/ DownloadEnds

TurnSpec == TurnInit /\ [][TurnNext]_turnVars

-----------------------------------------------------------------------------

TwiceMiddle(p, t) == 2 * (Offset(p, t, zoom) - StartSpacing(t, zoom)) + HeightOf(p, t, zoom)

(* Turning pages leaves the middle of the page being read where it is on   *)
(* screen, whichever pages are turned: the scroll position moves by as     *)
(* much as the layout moved it, the room kept above a first page aside.    *)
HoldsThePlace ==
  turns' = turns + 1 =>
    scrolled' = TwiceMiddle(readPage', turned') - TwiceMiddle(readPage', turned)

(* Every thumbnail some part of which can be seen is drawn, even without   *)
(* the buffer, wherever the column is scrolled and whatever is turned.     *)
EveryVisibleIsDrawn ==
  LET tops == ThumbTops(turned)
      Bottom(p) == tops[p] + ThumbHeight(p, turned)
  IN  \A top \in 0..Bottom(N), height \in {1, 6} :
        {p \in AllPages : tops[p] < top + height /\ Bottom(p) > top}
          \subseteq VisibleItems(top, height, 0, turned)

=============================================================================
