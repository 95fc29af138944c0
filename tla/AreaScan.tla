------------------------------ MODULE AreaScan ------------------------------
(***************************************************************************)
(* The settings dialog scans an area: OnOk calls ScanArea for every scale  *)
(* that is checked, and ScanArea moves the chart over the area, row by     *)
(* row, so that OpenCPN loads and reports what is on the charts.  At each  *)
(* position wxYield runs the handlers of pending events: the buttons of    *)
(* the dialog work in the middle of the loop.                              *)
(*                                                                         *)
(* Angles are in units of Quarter per 90 degrees.  A scale and the pixels  *)
(* per metre that show it have the constant product Screen; a view spans   *)
(* Span \div ppm in both directions.                                       *)
(***************************************************************************)
EXTENDS Integers, Sequences

CONSTANTS
  Lats, Lons,  \* what the spin controls of the dialog can be set to
  Quarter,     \* 90 degrees
  Scales,      \* the scales of the check boxes, in the order of OnOk
  Preset,      \* the scales that are checked in a new dialog
  UserScale,   \* the scale the user was looking at
  Screen,      \* scale * pixels per metre
  Span,        \* extent of a view * pixels per metre
  MaxDialogs   \* bound: times the dialog is opened

ASSUME AreaAssumption ==
  /\ Lats \subseteq Int /\ 0 \in Lats
  /\ Lons \subseteq Int /\ 0 \in Lons
  /\ Quarter \in Nat
  /\ MaxDialogs \in Nat

ASSUME ScaleAssumption ==
  /\ Scales \in Seq(1 .. Screen)
  /\ Preset \in SUBSET (1 .. Screen)
  /\ UserScale \in 1 .. Screen
  /\ Screen \in Nat
  /\ Span \in Nat
  /\ Screen <= Span

(* The program computes with doubles; here the quotients come out even.    *)
ASSUME ExactAssumption ==
  /\ Screen % UserScale = 0
  /\ \A i \in DOMAIN Scales : Screen % Scales[i] = 0

VARIABLES
  dialog,    \* "closed", "open", or "hidden": closed while OnOk is running
  okEnabled, \* the OK button of the dialog
  boxes,     \* scales whose check box is checked
  depth,     \* calls of OnOk on the stack
  finishing, \* member of objsearch_pi
  spc,       \* where OnOk or ScanArea is
  area,      \* latmin, latmax, lonmin, lonmax
  todo,      \* scales OnOk has not come to the end of; the first is next
  lat, lon,  \* locals of ScanArea
  step,      \* lat_step and lon_step
  canvas,    \* pixels per metre of the chart canvas
  vp,        \* what SetCurrentViewPort stored: scale, ppm and extent; at
             \* first NoViewPort
  centres,   \* positions this ScanArea has visited
  late,      \* a row of this ScanArea has the steps of another scale, or none
  refused,   \* the last area was refused
  stops,     \* calls of StopScan
  skipped,   \* calls of ScanArea that did not finish
  opened     \* dialogs opened

scanVars == <<lat, lon, step, canvas, vp, centres, late>>
okVars == <<area, todo, refused>>
vars == <<dialog, okEnabled, boxes, depth, finishing, spc, okVars, scanVars,
          stops, skipped, opened>>

(* What SetCurrentViewPort receives, and what the constructor set before.  *)
ViewPort(ppm) ==
  [scale |-> Screen \div ppm, ppm |-> ppm, extent |-> Span \div ppm]

NoViewPort == [scale |-> 0, ppm |-> 0, extent |-> 0]

InvertedPPM(view, scale) ==
  IF view.scale = 0 THEN 0 ELSE (scale * view.ppm) \div view.scale
CalculatePPM(view, scale) == (view.scale * view.ppm) \div scale

Init ==
  /\ dialog = "closed"
  /\ okEnabled = TRUE
  /\ boxes = Preset
  /\ depth = 0
  /\ finishing = FALSE
  /\ spc = "idle"
  /\ area = [latmin |-> 0, latmax |-> 0, lonmin |-> 0, lonmax |-> 0]
  /\ todo = <<>>
  /\ lat = 0
  /\ lon = 0
  /\ step = 0
  /\ canvas = Screen \div UserScale
  /\ vp = NoViewPort
  /\ centres = {}
  /\ late = FALSE
  /\ refused = FALSE
  /\ stops = 0
  /\ skipped = 0
  /\ opened = 0

-----------------------------------------------------------------------------
(* Handlers that run from the event loop, or from the wxYield of ScanArea. *)

ShowPreferencesDialog ==
  /\ spc = "idle"
  /\ dialog = "closed"
  /\ opened < MaxDialogs
  /\ dialog' = "open"
  /\ okEnabled' = TRUE
  /\ boxes' = Preset
  /\ opened' = opened + 1
  /\ UNCHANGED <<depth, finishing, spc, okVars, scanVars, stops, skipped>>

DispatchesEvents == dialog = "open" /\ spc \in {"idle", "yield"}

Lower(x, y) == IF x < y THEN x ELSE y
Upper(x, y) == IF x > y THEN x ELSE y

CrossesIDL(lonmin, lonmax) ==
  \/ lonmin < - Quarter /\ lonmax > Quarter
  \/ lonmin < 0 /\ lonmax > 0 /\ 2 * Quarter + lonmin + lonmax < 2 * Quarter

StayEnabled == UNCHANGED okEnabled
DisableOk == okEnabled' = FALSE

(* OnOk with an empty path, up to its first ScanArea. *)
OnOk(lat1, lat2, lon1, lon2) ==
  /\ DispatchesEvents
  /\ okEnabled
  /\ DisableOk
  /\ depth' = depth + 1
  /\ spc' = "scales"
  /\ area' = [latmin |-> Lower(lat1, lat2), latmax |-> Upper(lat1, lat2),
              lonmin |-> Lower(lon1, lon2), lonmax |-> Upper(lon1, lon2)]
  /\ refused' = CrossesIDL(area'.lonmin, area'.lonmax)
  /\ todo' = IF refused' THEN <<>> ELSE Scales
  /\ UNCHANGED <<dialog, boxes, finishing, scanVars, stops, skipped, opened>>

ClickBox(scale) ==
  /\ DispatchesEvents
  /\ boxes' = IF scale \in boxes THEN boxes \ {scale} ELSE boxes \union {scale}
  /\ UNCHANGED <<dialog, okEnabled, depth, finishing, spc, okVars, scanVars,
                 stops, skipped, opened>>

CloseDialog == dialog' = IF spc = "idle" THEN "closed" ELSE "hidden"

(* OnCancel: StopScan, then Close. *)
OnCancel ==
  /\ DispatchesEvents
  /\ finishing' = TRUE
  /\ stops' = stops + 1
  /\ CloseDialog
  /\ UNCHANGED <<okEnabled, boxes, depth, spc, okVars, scanVars, skipped,
                 opened>>

(* The close box ends the dialog, but OnCancel is bound to its button.     *)
CloseBox ==
  /\ DispatchesEvents
  /\ CloseDialog
  /\ UNCHANGED <<okEnabled, boxes, depth, finishing, spc, okVars, scanVars,
                 stops, skipped, opened>>

(* The viewport that a position brought about, when it was not reported at *)
(* once; or the first report of the canvas.                                *)
LateViewPort ==
  /\ spc \in {"idle", "yield"}
  /\ vp # ViewPort(canvas)
  /\ vp' = ViewPort(canvas)
  /\ UNCHANGED <<dialog, okEnabled, boxes, depth, finishing, spc, okVars, lat,
                 lon, step, canvas, centres, late, stops, skipped, opened>>

-----------------------------------------------------------------------------
(* The loops of OnOk and ScanArea. *)
loopUnchanged == <<okEnabled, boxes, area, refused, stops, opened>>

(* A box is looked at when its turn comes, not when OK was pressed.        *)
CallScanArea ==
  /\ spc = "scales"
  /\ todo # <<>>
  /\ Head(todo) \in boxes
  /\ spc' = "row"
  /\ lat' = area.latmin
  /\ lon' = area.lonmin
  /\ centres' = {}
  /\ late' = FALSE
  /\ UNCHANGED <<loopUnchanged, dialog, depth, finishing, todo, step, canvas,
                 vp, skipped>>

SkipScale ==
  /\ spc = "scales"
  /\ todo # <<>>
  /\ Head(todo) \notin boxes
  /\ todo' = Tail(todo)
  /\ UNCHANGED <<loopUnchanged, scanVars, dialog, depth, finishing, spc,
                 skipped>>

(* A jump to a scale; one to no scale at all leaves the canvas its own.    *)
Jump(ppm) == canvas' = IF ppm = 0 THEN canvas ELSE ppm

(* Two jumps, to the old and to the new scale, then the steps are taken    *)
(* from the viewport; after each OpenCPN may or may not have reported it.  *)
(* Before the first report the new scale and the steps are 0: the row does *)
(* not end, unless the scan is stopped.                                    *)
BeginRow ==
  /\ spc = "row"
  /\ ~ finishing
  /\ lat <= area.latmax
  /\ spc' = "column"
  /\ \E seen \in {vp, ViewPort(canvas)} :
       /\ Jump(CalculatePPM(seen, Head(todo)))
       /\ vp' \in {seen, ViewPort(canvas')}
  /\ step' = vp'.extent
  /\ late' = (late \/ vp' # ViewPort(Screen \div Head(todo)))
  /\ UNCHANGED <<loopUnchanged, dialog, depth, finishing, todo, lat, lon,
                 centres, skipped>>

(* JumpToPosition, RequestRefresh, and into wxYield. *)
Visit ==
  /\ spc = "column"
  /\ ~ finishing
  /\ lon <= area.lonmax
  /\ spc' = "yield"
  /\ centres' = centres \union {<<lat, lon>>}
  /\ UNCHANGED <<loopUnchanged, dialog, depth, finishing, todo, lat, lon, step,
                 canvas, vp, late, skipped>>

StandStill == lon' = lon
Advance == lon' = lon + step

YieldReturns ==
  /\ spc = "yield"
  /\ spc' = "column"
  /\ Advance
  /\ UNCHANGED <<loopUnchanged, dialog, depth, finishing, todo, lat, step,
                 canvas, vp, centres, late, skipped>>

NextRowTwice == lat' = lat + 2 * step
NextRow == lat' = lat + step

EndRow ==
  /\ spc = "column"
  /\ finishing \/ lon > area.lonmax
  /\ spc' = "row"
  /\ lon' = area.lonmin
  /\ NextRow
  /\ UNCHANGED <<loopUnchanged, dialog, depth, finishing, todo, step, canvas,
                 vp, centres, late, skipped>>

KeepFinishing == UNCHANGED finishing
ResetFinishing == finishing' = FALSE

ScanAreaReturns ==
  /\ spc = "row"
  /\ finishing \/ lat > area.latmax
  /\ spc' = "scales"
  /\ ResetFinishing
  /\ skipped' = IF finishing THEN skipped + 1 ELSE skipped
  /\ todo' = Tail(todo)
  /\ UNCHANGED <<loopUnchanged, scanVars, dialog, depth>>

(* this->Close() and return *)
OnOkReturns ==
  /\ spc = "scales"
  /\ todo = <<>>
  /\ spc' = "idle"
  /\ depth' = depth - 1
  /\ dialog' = "closed"
  /\ UNCHANGED <<loopUnchanged, scanVars, finishing, todo, skipped>>

ScanStep ==
  \/ CallScanArea \/ SkipScale \/ BeginRow \/ Visit \/ YieldReturns \/ EndRow
  \/ ScanAreaReturns \/ OnOkReturns

UserStep ==
  \/ ShowPreferencesDialog
  \/ \E lat1, lat2 \in Lats, lon1, lon2 \in Lons : OnOk(lat1, lat2, lon1, lon2)
  \/ \E i \in DOMAIN Scales : ClickBox(Scales[i])
  \/ OnCancel
  \/ CloseBox

Next == UserStep \/ LateViewPort \/ ScanStep

(* The loops run; nothing makes the user press a button. *)
Spec == Init /\ [][Next]_vars /\ WF_vars(ScanStep)

-----------------------------------------------------------------------------
(* The variables have their types, and the corners of an area their order. *)
TypeOK ==
  /\ dialog \in {"closed", "open", "hidden"}
  /\ okEnabled \in BOOLEAN
  /\ boxes \in SUBSET (1 .. Screen)
  /\ finishing \in BOOLEAN
  /\ refused \in BOOLEAN
  /\ spc \in {"idle", "scales", "row", "column", "yield"}
  /\ area \in [latmin : Lats, latmax : Lats, lonmin : Lons, lonmax : Lons]
  /\ area.latmin <= area.latmax /\ area.lonmin <= area.lonmax
  /\ todo \in Seq(1 .. Screen)
  /\ lat \in Int
  /\ lon \in Int
  /\ step \in Nat
  /\ canvas \in 1 .. Screen
  /\ vp \in {NoViewPort} \union {ViewPort(ppm) : ppm \in 1 .. Screen}
  /\ centres \in SUBSET (Int \X Int)
  /\ late \in BOOLEAN
  /\ {depth, stops, skipped, opened} \subseteq Nat

(* wxYield lets the user press OK again in the middle of a scan; only the  *)
(* disabled button keeps OnOk from being entered a second time, over the   *)
(* same finishing flag.                                                    *)
OneScanAtATime == depth <= 1 /\ (depth = 0 <=> spc = "idle")

(* A stop request ends at most one ScanArea, wherever it comes from: one   *)
(* pressed while nothing is scanned is used up by the next scale.          *)
StopCostsOneScale == skipped + (IF finishing THEN 1 ELSE 0) <= stops

(* When a scale is done that was not stopped, and whose rows were begun    *)
(* with their own viewport, every point of the area lies less than a view  *)
(* north and east of a position the chart was moved to.  Up to the last    *)
(* row and column the views therefore leave no gap; the last ones need not *)
(* reach the edge of the area.                                             *)
LeavesNoGaps ==
  spc = "row" /\ ~ finishing /\ ~ late /\ lat > area.latmax =>
    \A y \in area.latmin .. area.latmax, x \in area.lonmin .. area.lonmax :
      \E c \in centres :
        /\ c[1] <= y /\ y < c[1] + Span \div canvas
        /\ c[2] <= x /\ x < c[2] + Span \div canvas

(* OnOk returns, although its loops count in steps the canvas decides on,  *)
(* once OpenCPN has reported a viewport; a scan begun before may go on     *)
(* until it is stopped.                                                    *)
ScanReturns == spc = "scales" /\ vp # NoViewPort ~> spc = "idle"

(* objsearch_pi.cpp, OnOk: "Check if we cross IDL and refuse to run...".   *)
(* An area is refused only when its borders are more than half the globe   *)
(* apart, so that the way across the date line is the shorter one.         *)
RefusesOnlyIDL == refused => area.lonmax - area.lonmin > 2 * Quarter
=============================================================================
