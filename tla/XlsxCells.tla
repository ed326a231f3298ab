------------------------------ MODULE XlsxCells ------------------------------
(* The toolbar of the web workbook editor (components/extend/              *)
(* xlsx-editor.tsx): styles, borders and merges on the selected cells.     *)
(* The engine (@extend-ai/react-xlsx, external) holds the selection and    *)
(* the sheets with their merged regions; it may ignore a request to merge. *)
EXTENDS Naturals, FiniteSets

CONSTANTS Rows, Cols   \* the grid: 0..Rows-1, 0..Cols-1

VARIABLES sheet,      \* the active sheet
          selection,  \* selection and, at its start, the active cell; NoRange if cleared
          merged,     \* the merged regions of each sheet
          applied,    \* appliedMergeRegions: asked for and not yet seen
          target,     \* lastStyleTargetRef
          menu,       \* a style menu is open
          last        \* a command just given: name, range, the cells or edges it set

cellVars == <<sheet, selection, merged, applied, target, menu, last>>

(* ---- ranges ------------------------------------------------------------------ *)

Pos == (0..Rows-1) \X (0..Cols-1)
Ranges == [start : Pos, end : Pos]
NoRange == [start |-> <<Rows, Cols>>, end |-> <<Rows, Cols>>]
NoCommand == [cmd |-> "none", range |-> NoRange, set |-> {}]

Least(a, b) == IF a < b THEN a ELSE b
Most(a, b) == IF a < b THEN b ELSE a

NormalizeCellRange(r) ==
  [start |-> <<Least(r.start[1], r.end[1]), Least(r.start[2], r.end[2])>>,
   end   |-> <<Most(r.start[1], r.end[1]), Most(r.start[2], r.end[2])>>]

RangesIntersect(r1, r2) ==
  LET a == NormalizeCellRange(r1)
      b == NormalizeCellRange(r2)
  IN  \A i \in 1..2 : a.start[i] <= b.end[i] /\ a.end[i] >= b.start[i]

IsSingleCellRange(r) == r.start = r.end

CellsOf(r) ==
  LET n == NormalizeCellRange(r)
  IN  {p \in Pos : \A i \in 1..2 : n.start[i] <= p[i] /\ p[i] <= n.end[i]}

(* The row or column of the range along one of its edges.                  *)
BorderEdgeRangeSwapped(r, edge) ==
  LET n == NormalizeCellRange(r)
  IN  CASE edge = "top"    -> [n EXCEPT !.end[1] = n.start[1]]
        [] edge = "bottom" -> [n EXCEPT !.start[1] = n.end[1]]
        [] edge = "left"   -> [n EXCEPT !.start[2] = n.end[2]]
        [] edge = "right"  -> [n EXCEPT !.end[2] = n.start[2]]

BorderEdgeRange(r, edge) ==
  LET n == NormalizeCellRange(r)
  IN  CASE edge = "top"    -> [n EXCEPT !.end[1] = n.start[1]]
        [] edge = "bottom" -> [n EXCEPT !.start[1] = n.end[1]]
        [] edge = "left"   -> [n EXCEPT !.end[2] = n.start[2]]
        [] edge = "right"  -> [n EXCEPT !.start[2] = n.end[2]]

Edges == {"top", "bottom", "left", "right"}

(* ---- what the toolbar derives ---------------------------------------------------- *)

MergeRegions == merged[sheet] \cup applied
IntersectsMerge == selection # NoRange /\ \E m \in MergeRegions : RangesIntersect(selection, m)
CanMerge == selection # NoRange /\ ~IntersectsMerge /\ ~IsSingleCellRange(selection)
CanMergeAcross ==
  selection # NoRange /\ ~IntersectsMerge /\ selection.start[2] # selection.end[2]

CellsInit ==
  /\ sheet = 1 /\ selection = NoRange /\ merged = [s \in 1..2 |-> {}] /\ applied = {}
  /\ target = [range |-> NoRange, sheet |-> 1] /\ menu = FALSE
  /\ last = NoCommand

(* ---- selection, sheets ------------------------------------------------------------- *)

(* Every selection is remembered with its sheet.                           *)
SelectCells ==
  /\ selection' \in Ranges \ {selection}
  /\ target' = [range |-> NormalizeCellRange(selection'), sheet |-> sheet]
  /\ UNCHANGED <<sheet, merged, applied, menu>>
  /\ last' = NoCommand

(* The engine drops the selection, as it may when a menu takes the focus.  *)
ClearSelection ==
  /\ selection # NoRange /\ selection' = NoRange
  /\ UNCHANGED <<sheet, merged, applied, target, menu>>
  /\ last' = NoCommand

(* Another sheet by its tab: the regions asked for are forgotten.          *)
ShowSheet ==
  /\ sheet' = 3 - sheet /\ applied' = {} /\ selection' = NoRange /\ menu' = FALSE
  /\ UNCHANGED <<merged, target>>
  /\ last' = NoCommand

OpenMenu ==
  /\ menu' = (~menu /\ selection # NoRange) /\ menu' # menu
  /\ UNCHANGED <<sheet, selection, merged, applied, target>>
  /\ last' = NoCommand

(* ---- styles --------------------------------------------------------------------------- *)

(* applyStyle: the selection with every merge it touches; one cell alone;  *)
(* with nothing selected, what was last selected on this sheet.            *)
StyleTarget ==
  IF selection # NoRange THEN NormalizeCellRange(selection)
  ELSE IF target.sheet = sheet THEN target.range ELSE NoRange

ApplyStyle ==
  /\ selection # NoRange \/ menu
  /\ StyleTarget # NoRange
  /\ LET touched == IF IsSingleCellRange(StyleTarget) THEN {}
                    ELSE {m \in MergeRegions : RangesIntersect(StyleTarget, m)}
     IN  last' = [cmd |-> "style", range |-> StyleTarget,
                  set |-> UNION {CellsOf(r) : r \in touched \cup {StyleTarget}}]
  /\ UNCHANGED <<sheet, selection, merged, applied, target, menu>>

SetEdge(r, edge) == {<<p, edge>> : p \in CellsOf(BorderEdgeRange(r, edge))}

(* applyBorderAction: one edge, the four around the range, all, or none.   *)
ApplyBorder(action) ==
  /\ selection # NoRange
  /\ last' = [cmd |-> action, range |-> NormalizeCellRange(selection),
              set |-> IF action \in Edges THEN SetEdge(selection, action)
                      ELSE IF action \in {"all", "none"} THEN CellsOf(selection) \X Edges
                      ELSE IF IsSingleCellRange(selection) THEN {selection.start} \X Edges
                      ELSE UNION {SetEdge(selection, e) : e \in Edges}]
  /\ UNCHANGED <<sheet, selection, merged, applied, target, menu>>

(* ---- merges ----------------------------------------------------------------------------- *)

(* The regions asked for count as merged until the worksheet shows them.   *)
Merge(regions) ==
  \/ merged' = [merged EXCEPT ![sheet] = @ \cup regions] /\ applied' = {}
  \/ applied' = regions /\ UNCHANGED merged

MergeOverMerged ==
  /\ selection # NoRange /\ ~IsSingleCellRange(selection)
  /\ Merge({NormalizeCellRange(selection)})
  /\ UNCHANGED <<sheet, selection, target, menu>>
  /\ last' = NoCommand

MergeCells ==
  /\ CanMerge /\ Merge({NormalizeCellRange(selection)})
  /\ UNCHANGED <<sheet, selection, target, menu>>
  /\ last' = NoCommand

MergeAndCenter ==
  /\ CanMerge /\ Merge({NormalizeCellRange(selection)})
  /\ last' = [cmd |-> "style", range |-> NormalizeCellRange(selection),
              set |-> CellsOf(selection)]
  /\ UNCHANGED <<sheet, selection, target, menu>>

RowsOf(r) == {[start |-> <<i, r.start[2]>>, end |-> <<i, r.end[2]>>]
                : i \in r.start[1]..r.end[1]}

(* Every row of the selection on its own.                                  *)
MergeAcross ==
  /\ CanMergeAcross
  /\ \/ /\ Merge(RowsOf(NormalizeCellRange(selection)))
        /\ selection' = NormalizeCellRange(selection)
        /\ target' = [range |-> selection', sheet |-> sheet]
     \/ UNCHANGED <<merged, applied, selection, target>>
  /\ UNCHANGED <<sheet, menu>>
  /\ last' = NoCommand

(* Every region the selection touches; what was asked for goes with it     *)
(* if the worksheet had any of them.                                       *)
UnmergeCells ==
  /\ IntersectsMerge
  /\ LET here == {m \in merged[sheet] : RangesIntersect(selection, m)}
     IN  /\ merged' = [merged EXCEPT ![sheet] = @ \ here]
         /\ IF here = {} THEN UNCHANGED <<applied, selection, target>>
            ELSE /\ applied' = {} /\ selection' = NormalizeCellRange(selection)
                 /\ target' = [range |-> selection', sheet |-> sheet]
  /\ UNCHANGED <<sheet, menu>>
  /\ last' = NoCommand

CellsNext ==
  \/ SelectCells \/ ClearSelection \/ ShowSheet \/ OpenMenu \/ ApplyStyle
  \/ \E action \in Edges \cup {"all", "none", "outside"} : ApplyBorder(action)
  \/ MergeCells \/ MergeAndCenter \/ MergeAcross \/ UnmergeCells

CellsSpec == CellsInit /\ [][CellsNext]_cellVars

(* ---- properties ------------------------------------------------------------ *)

Neighbour(p, edge) ==
  CASE edge = "top"    -> <<p[1] - 1, p[2]>>
    [] edge = "bottom" -> <<p[1] + 1, p[2]>>
    [] edge = "left"   -> <<p[1], p[2] - 1>>
    [] edge = "right"  -> <<p[1], p[2] + 1>>

(* "Outside border" sets exactly those edges of the selected cells beyond  *)
(* which lies no selected cell, whichever corner the selection began at.   *)
OutsideIsTheBoundary ==
  last.cmd = "outside" =>
    last.set = {e \in CellsOf(last.range) \X Edges :
                  Neighbour(e[1], e[2]) \notin CellsOf(last.range)}

(* The merged regions of a sheet never overlap: a workbook in which they   *)
(* do is a damaged file.                                                   *)
MergesAreDisjoint ==
  \A s \in 1..2 : \A m1, m2 \in merged[s] : m1 # m2 => ~RangesIntersect(m1, m2)
=============================================================================
