----------------------------- MODULE XlsxEditor -----------------------------
(* The web workbook editor (components/extend/xlsx-editor.tsx) around its  *)
(* formula bar: the workbook shown (fetched or picked from disk), sheets,  *)
(* the active cell, and the text typed into the bar on its way to a cell.  *)
(* The engine (@extend-ai/react-xlsx, external) holds workbook, sheets     *)
(* and active cell; a click in its grid moves the active cell before the   *)
(* bar hears that it lost the focus.                                       *)
EXTENDS Naturals, Sequences, FiniteSets, SequencesExt

CONSTANT MaxPicks   \* bound: files picked from disk

VARIABLES fetch,    \* the url's workbook: loading, loaded or failed
          picks,    \* files picked so far
          reading,  \* the picks whose bytes are being read
          book,     \* the workbook shown: a pick, or 0, the url's
          sheets,   \* the workbook's sheets in order
          at,       \* activeSheetIndex
          cell,     \* the active cell, 0: none
          values,   \* what the cells hold
          bar,      \* the formula bar: DOM focus, formulaFocused, the refs and the draft
          landed    \* the last commit: where it went and where the edit began

editorVars == <<fetch, picks, reading, book, sheets, at, cell, values, bar, landed>>

SheetIds == 1..2   \* bound: sheets of a workbook
CellIds == 1..2
Texts == {"", "x"}

NoBar == [dom |-> FALSE, focused |-> FALSE, cell |-> 0, initial |-> "", draft |-> "",
          from |-> <<0, 1, 0>>]

Opened == book # 0 \/ fetch = "loaded"
Here == <<book, sheets[at], cell>>

EditorInit ==
  /\ fetch = "loading" /\ picks = 0 /\ reading = {} /\ book = 0
  /\ sheets = <<1>> /\ at = 1 /\ cell = 0
  /\ values = [s \in SheetIds, c \in CellIds |-> ""]
  /\ bar = NoBar /\ landed = [to |-> <<0, 1, 0>>, from |-> <<0, 1, 0>>]

(* ---- the workbook ----------------------------------------------------------- *)

LoadWorkbook ==
  /\ fetch = "loading" /\ fetch' \in {"loaded", "failed"}
  /\ UNCHANGED <<picks, reading, book, sheets, at, cell, values, bar, landed>>

PickFile ==
  /\ picks < MaxPicks /\ picks' = picks + 1 /\ reading' = reading \cup {picks'}
  /\ UNCHANGED <<fetch, book, sheets, at, cell, values, bar, landed>>

(* The engine opens the picked workbook; the toolbar, and with it the bar, *)
(* stays mounted.  The input is disabled while no cell is active, which    *)
(* some browsers tell by a blur and some do not.                           *)
HandleUpload ==
  /\ \E n \in reading : reading' = reading \ {n} /\ book' = n
  /\ sheets' = <<1>> /\ at' = 1 /\ cell' = 0
  /\ values' = [s \in SheetIds, c \in CellIds |-> ""]
  /\ UNCHANGED <<fetch, picks, bar, landed>>

(* ---- sheets ------------------------------------------------------------------- *)

(* A control outside the grid takes the focus from the bar first.          *)
AddSheet ==
  /\ Opened /\ ~bar.dom /\ Len(sheets) < Cardinality(SheetIds)
  /\ \E s \in SheetIds : s \notin ToSet(sheets) /\ sheets' = Append(sheets, s)
  /\ at' = Len(sheets') /\ cell' \in {0, 1}
  /\ UNCHANGED <<fetch, picks, reading, book, values, bar, landed>>

(* The cells' values once sheet `gone` is removed.                         *)
WithoutSheet(gone) ==
  [s \in SheetIds, c \in CellIds |-> IF s = gone THEN "" ELSE values[s, c]]

RemoveActiveSheet ==
  /\ Opened /\ ~bar.dom /\ Len(sheets) > 1
  /\ sheets' = RemoveAt(sheets, at) /\ at' = 1 /\ cell' \in {0, 1}
  /\ values' = WithoutSheet(sheets[at])
  /\ UNCHANGED <<fetch, picks, reading, book, bar, landed>>

SetActiveSheet ==
  /\ Opened /\ ~bar.dom /\ at' \in DOMAIN sheets \ {at} /\ cell' \in {0, 1}
  /\ UNCHANGED <<fetch, picks, reading, book, sheets, values, bar, landed>>

(* ---- cells and the formula bar -------------------------------------------------- *)

SelectCell ==
  /\ Opened /\ cell' \in CellIds \ {cell}
  /\ UNCHANGED <<fetch, picks, reading, book, sheets, at, values, bar, landed>>

(* Undo, redo or a cell edited in the grid.                                *)
EditInGrid ==
  /\ Opened /\ ~bar.dom /\ cell # 0
  /\ \E t \in Texts : values' = [values EXCEPT ![<<sheets[at], cell>>] = t]
  /\ UNCHANGED <<fetch, picks, reading, book, sheets, at, cell, bar, landed>>

FocusBar ==
  /\ Opened /\ cell # 0 /\ ~bar.dom
  /\ LET shown == values[sheets[at], cell]
     IN  bar' = [dom |-> TRUE, focused |-> TRUE, cell |-> cell, initial |-> shown,
                 draft |-> shown, from |-> Here]
  /\ UNCHANGED <<fetch, picks, reading, book, sheets, at, cell, values, landed>>

(* Typing goes into the draft also after Enter, when the bar shows the     *)
(* cell's value again but keeps the focus.                                 *)
TypeInBar ==
  /\ bar.dom /\ cell # 0
  /\ \E t \in Texts \ {bar.draft} : bar' = [bar EXCEPT !.draft = t]
  /\ UNCHANGED <<fetch, picks, reading, book, sheets, at, cell, values, landed>>

(* commitFormula: to the cell that was active when the bar took the focus; *)
(* a text that starts with "=" as a formula, any other as a value.         *)
CommitFormulaHere(b) ==
  IF cell = 0 \/ bar.draft = bar.initial
  THEN bar' = b /\ UNCHANGED <<values, landed>>
  ELSE /\ values' = [values EXCEPT ![<<sheets[at], cell>>] = bar.draft]
       /\ landed' = [to |-> Here, from |-> bar.from]
       /\ bar' = [b EXCEPT !.initial = bar.draft]

CommitFormula(b) ==
  IF bar.draft = bar.initial
  THEN bar' = b /\ UNCHANGED <<values, landed>>
  ELSE /\ values' = [values EXCEPT ![<<sheets[at], bar.cell>>] = bar.draft]
       /\ landed' = [to |-> <<book, sheets[at], bar.cell>>, from |-> bar.from]
       /\ bar' = [b EXCEPT !.initial = bar.draft]

EnterInBar ==
  /\ bar.dom /\ cell # 0 /\ CommitFormula([bar EXCEPT !.focused = FALSE])
  /\ UNCHANGED <<fetch, picks, reading, book, sheets, at, cell>>

BlurBar ==
  /\ bar.dom
  /\ \/ CommitFormula([bar EXCEPT !.focused = FALSE, !.dom = FALSE])
     \/ cell = 0 /\ bar' = [bar EXCEPT !.dom = FALSE] /\ UNCHANGED <<values, landed>>
  /\ UNCHANGED <<fetch, picks, reading, book, sheets, at, cell>>

EditorNext ==
  \/ LoadWorkbook \/ PickFile \/ HandleUpload
  \/ AddSheet \/ RemoveActiveSheet \/ SetActiveSheet \/ SelectCell \/ EditInGrid
  \/ FocusBar \/ TypeInBar \/ EnterInBar \/ BlurBar

EditorSpec == EditorInit /\ [][EditorNext]_editorVars

(* ---- properties ------------------------------------------------------------------ *)

(* What was typed into the formula bar lands on the cell and the sheet     *)
(* where the edit began, wherever the selection went meanwhile, unless the *)
(* workbook was replaced while the bar had the focus.                      *)
LandsWhereItBegan ==
  \/ landed.to = landed.from
  \/ landed.to[1] # landed.from[1]
=============================================================================
