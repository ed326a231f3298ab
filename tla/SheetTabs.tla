------------------------------ MODULE SheetTabs ------------------------------
(* The sheet tabs of the web workbook viewer and editor                    *)
(* (components/extend/xlsx-viewer.tsx) and the preview card that hangs     *)
(* over them: it is rendered outside the strip, opens and closes with      *)
(* timers, and is polled away when the strip is hidden under the pointer.  *)
EXTENDS Naturals

VARIABLES sheets,     \* how many sheets: with one there is no strip
          preview,    \* visiblePreviewIndex, 0: none
          opening,    \* the open timer and the sheet it is for, 0: not running
          closeTimer,    \* the close timer runs
          pointer,    \* the tab under the pointer, 0: outside the strip
          strip,      \* the strip is on screen
          blinked     \* the strip went and came back since the poll last saw it

tabVars == <<sheets, preview, opening, closeTimer, pointer, strip, blinked>>

MaxSheets == 3   \* bound: sheets

TabsInit ==
  /\ sheets \in 1..MaxSheets /\ preview = 0 /\ opening = 0 /\ closeTimer = FALSE
  /\ pointer = 0 /\ strip = (sheets > 1) /\ blinked = FALSE

(* The next preview is shown at once where one is already open, else after *)
(* a while.                                                                *)
HandleItemEnter ==
  /\ strip
  /\ \E n \in 1..sheets \ {pointer} :
       /\ pointer' = n /\ closeTimer' = FALSE
       /\ IF preview # 0 THEN preview' = n /\ opening' = 0
          ELSE opening' = n /\ UNCHANGED preview
  /\ blinked' = FALSE /\ UNCHANGED <<sheets, strip>>

LeaveWithTimer ==
  /\ strip /\ pointer # 0 /\ pointer' = 0 /\ closeTimer' = TRUE
  /\ UNCHANGED <<sheets, preview, opening, strip, blinked>>

HandleContainerLeave ==
  /\ strip /\ pointer # 0 /\ pointer' = 0 /\ opening' = 0 /\ closeTimer' = TRUE
  /\ UNCHANGED <<sheets, preview, strip, blinked>>

OpenTimer ==
  /\ opening # 0 /\ preview' = opening /\ opening' = 0
  /\ UNCHANGED <<sheets, closeTimer, pointer, strip, blinked>>

CloseTimer ==
  /\ closeTimer /\ preview' = 0 /\ closeTimer' = FALSE
  /\ UNCHANGED <<sheets, opening, pointer, strip, blinked>>

(* While a preview is open the poll drops it, and the timers, as soon as   *)
(* it finds the strip gone.                                                *)
DismissWhenHidden ==
  /\ preview # 0 /\ ~strip
  /\ preview' = 0 /\ opening' = 0 /\ closeTimer' = FALSE
  /\ UNCHANGED <<sheets, pointer, strip, blinked>>

(* The viewer is hidden or shown by its host: no pointer event tells.      *)
HideOrShow ==
  /\ sheets > 1 /\ strip' = ~strip /\ pointer' = 0
  /\ blinked' = (strip' \/ blinked)
  /\ UNCHANGED <<sheets, preview, opening, closeTimer>>

(* The editor adds or removes a sheet.                                     *)
ChangeSheets ==
  /\ sheets' \in {sheets - 1, sheets + 1} \cap 1..MaxSheets
  /\ strip' = (sheets' > 1) /\ pointer' = 0
  /\ blinked' = (blinked \/ pointer # 0 \/ ~strip)
  /\ UNCHANGED <<preview, opening, closeTimer>>

TabsNext ==
  \/ HandleItemEnter \/ HandleContainerLeave \/ OpenTimer \/ CloseTimer
  \/ DismissWhenHidden \/ HideOrShow \/ ChangeSheets

TabsSpec == TabsInit /\ [][TabsNext]_tabVars

(* ---- properties ---------------------------------------------------------------- *)

(* No preview hangs on the screen: with the pointer elsewhere it is about  *)
(* to be closed by its timer or by the poll, unless the strip came back or *)
(* changed before the poll looked.                                         *)
PreviewGoes == preview # 0 /\ pointer = 0 => closeTimer \/ ~strip \/ blinked
=============================================================================
