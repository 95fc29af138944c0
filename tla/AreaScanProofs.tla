--------------------------- MODULE AreaScanProofs ---------------------------
(***************************************************************************)
(* Proofs about the scan of an area: the finishing flag and the disabled   *)
(* button, for every area, set of scales and order of events.              *)
(***************************************************************************)
EXTENDS AreaScan, TLAPS

(* The button is enabled only while no scan runs: with it, and with the    *)
(* counters in Nat, the two properties are inductive.                      *)
ScanInv ==
  /\ depth \in {0, 1}
  /\ depth = 0 <=> spc = "idle"
  /\ okEnabled /\ dialog = "open" => spc = "idle"
  /\ finishing \in BOOLEAN
  /\ stops \in Nat
  /\ skipped \in Nat
  /\ StopCostsOneScale

(* No dialog is open at first.                                             *)
LEMMA ScanInvInit ==
  ASSUME Init
  PROVE  ScanInv
<1>1. finishing = FALSE /\ skipped = 0 /\ stops = 0
  BY DEF Init
<1>2. StopCostsOneScale
  BY <1>1 DEF StopCostsOneScale
<1>3. depth = 0 /\ spc = "idle"
  BY DEF Init
<1> QED
  BY <1>1, <1>2, <1>3 DEF ScanInv

(* A handler keeps the invariant: OnOk is entered from the idle dialog     *)
(* only, and a stop request pays for the flag it sets.                     *)
LEMMA ScanInvUser ==
  ASSUME ScanInv, UserStep \/ LateViewPort
  PROVE  ScanInv'
<1> USE DEF ScanInv, StopCostsOneScale, DispatchesEvents
<1>1. CASE ShowPreferencesDialog
  BY <1>1 DEF ShowPreferencesDialog
<1>2. ASSUME NEW lat1, NEW lat2, NEW lon1, NEW lon2,
             OnOk(lat1, lat2, lon1, lon2)
      PROVE  ScanInv'
  BY <1>2 DEF OnOk, DisableOk
<1>3. CASE OnCancel
  BY <1>3 DEF OnCancel, CloseDialog
<1>4. CASE CloseBox
  BY <1>4 DEF CloseBox, CloseDialog
<1>5. CASE LateViewPort
  BY <1>5 DEF LateViewPort
<1>6. ASSUME NEW scale, ClickBox(scale)
      PROVE  ScanInv'
  BY <1>6 DEF ClickBox
<1> HIDE DEF ScanInv
<1> QED
  BY <1>1, <1>2, <1>3, <1>4, <1>5, <1>6 DEF UserStep

(* A step of the loops keeps it: the flag is spent with the scale it ends. *)
LEMMA ScanInvLoop ==
  ASSUME ScanInv, ScanStep
  PROVE  ScanInv'
<1> USE DEF ScanInv, StopCostsOneScale, loopUnchanged
<1>1. CASE CallScanArea
  BY <1>1 DEF CallScanArea
<1>2. CASE BeginRow
  BY <1>2 DEF BeginRow
<1>3. CASE Visit
  BY <1>3 DEF Visit
<1>4. CASE YieldReturns
  BY <1>4 DEF YieldReturns
<1>5. CASE EndRow
  BY <1>5 DEF EndRow
<1>6. CASE ScanAreaReturns
  <2>1. finishing' = FALSE /\ stops' = stops
    BY <1>6 DEF ScanAreaReturns, ResetFinishing
  <2>2. skipped' = skipped + (IF finishing THEN 1 ELSE 0)
    BY <1>6 DEF ScanAreaReturns
  <2>3. skipped' \in Nat /\ StopCostsOneScale'
    BY <2>1, <2>2
  <2>4. /\ UNCHANGED <<depth, okEnabled, dialog>>
        /\ spc # "idle" /\ spc' # "idle"
    BY <1>6 DEF ScanAreaReturns
  <2> QED
    BY <2>1, <2>3, <2>4
<1>7. CASE OnOkReturns
  BY <1>7 DEF OnOkReturns
<1>8. CASE SkipScale
  BY <1>8 DEF SkipScale
<1> HIDE DEF ScanInv
<1> QED
  BY <1>1, <1>2, <1>3, <1>4, <1>5, <1>6, <1>7, <1>8 DEF ScanStep

(* OnOk is never entered while it runs, and no stop request ends more than *)
(* one ScanArea, whatever the user presses in whichever wxYield.           *)
THEOREM ScanInvariant == Spec => []ScanInv
<1>1. ScanInv /\ UNCHANGED vars => ScanInv'
  BY DEF ScanInv, StopCostsOneScale, vars
<1>2. ScanInv /\ [Next]_vars => ScanInv'
  BY <1>1, ScanInvUser, ScanInvLoop DEF Next
<1> QED
  BY <1>2, ScanInvInit, PTL DEF Spec

(* OnOk is not reentered through wxYield.                                  *)
THEOREM NeverReentered == Spec => []OneScanAtATime
<1>1. ScanInv => OneScanAtATime
  BY DEF ScanInv, OneScanAtATime
<1> QED
  BY <1>1, ScanInvariant, PTL

(* Stop requests are not multiplied by the scales that follow.             *)
THEOREM StopsAddUp == Spec => []StopCostsOneScale
<1>1. ScanInv => StopCostsOneScale
  BY DEF ScanInv
<1> QED
  BY <1>1, ScanInvariant, PTL

-----------------------------------------------------------------------------
(* The scales that can be shown, and the canvas that shows one. *)
Shown == {Scales[i] : i \in DOMAIN Scales} \union {UserScale}
PPM(scale) == Screen \div scale

ScanTypes ==
  /\ TypeOK
  /\ todo \in Seq(Shown)
  /\ canvas \in {PPM(scale) : scale \in Shown}
  /\ vp \in {NoViewPort} \union {ViewPort(PPM(scale)) : scale \in Shown}
  /\ spc \in {"row", "column", "yield"} => todo # <<>>

(* A multiple divides evenly.                                              *)
LEMMA Quotient ==
  ASSUME NEW a \in Int, NEW k \in Nat \ {0}
  PROVE  (a * k) \div k = a
OBVIOUS

(* A divisor and its quotient are both between 1 and the number.           *)
LEMMA EvenQuotient ==
  ASSUME NEW n \in Nat \ {0}, NEW s \in 1 .. n, n % s = 0
  PROVE  /\ n \div s \in 1 .. n
         /\ s * (n \div s) = n
<1>1. n \div s \in Nat /\ n = (n \div s) * s + (n % s)
  OBVIOUS
<1>2. ASSUME NEW k \in Nat, n = k * s
      PROVE  k \in 1 .. n
  BY <1>2
<1> QED
  BY <1>1, <1>2

(* A scale and its canvas have the constant product Screen. *)
LEMMA Product ==
  ASSUME NEW scale \in Shown
  PROVE  /\ scale \in 1 .. Screen
         /\ PPM(scale) \in 1 .. Screen
         /\ PPM(scale) * scale = Screen
         /\ Screen \div PPM(scale) = scale
<1>1. scale \in 1 .. Screen /\ Screen % scale = 0 /\ Screen \in Nat
  BY ScaleAssumption, ExactAssumption DEF Shown
<1> DEFINE k == PPM(scale)
<1>2. k \in 1 .. Screen /\ scale * k = Screen
  BY <1>1, EvenQuotient DEF PPM
<1> HIDE DEF k
<1>3. (scale * k) \div k = scale
  BY <1>1, <1>2, Quotient
<1>4. k * scale = scale * k
  BY <1>1, <1>2
<1> QED
  BY <1>1, <1>2, <1>3, <1>4 DEF k

(* From whatever viewport was reported, the two jumps end at the canvas of *)
(* the scale; without a report there is none to compute.                   *)
LEMMA CanvasOfScale ==
  ASSUME NEW scale \in Shown, NEW view,
         view \in {NoViewPort} \union {ViewPort(PPM(s)) : s \in Shown}
  PROVE  IF view = NoViewPort THEN CalculatePPM(view, scale) = 0
                              ELSE CalculatePPM(view, scale) = PPM(scale)
<1>1. CASE view = NoViewPort
  <2>1. view.scale * view.ppm = 0
    BY <1>1 DEF NoViewPort
  <2>2. scale \in Nat \ {0}
    BY Product, ScaleAssumption
  <2> QED
    BY <1>1, <2>1, <2>2 DEF CalculatePPM
<1>2. CASE view # NoViewPort
  <2>1. PICK s \in Shown : view = ViewPort(PPM(s))
    BY <1>2
  <2>2. view.scale = s /\ view.ppm = PPM(s)
    BY <2>1, Product DEF ViewPort
  <2>3. view.scale * view.ppm = Screen
    BY <2>2, Product
  <2> QED
    BY <1>2, <2>3 DEF CalculatePPM, PPM
<1> QED
  BY <1>1, <1>2

(* The canvas and the viewport after the jumps of a row: whatever was      *)
(* reported, the canvas shows a scale; and when the viewport is that of    *)
(* the row's own scale, so is the canvas.                                  *)
LEMMA RowBegins ==
  ASSUME ScanTypes, BeginRow
  PROVE  /\ Head(todo) \in Shown
         /\ canvas' \in {PPM(scale) : scale \in Shown}
         /\ vp' \in {NoViewPort} \union {ViewPort(PPM(scale)) : scale \in Shown}
         /\ vp' = ViewPort(PPM(Head(todo))) => canvas' = PPM(Head(todo))
<1> DEFINE views == {NoViewPort} \union {ViewPort(PPM(s)) : s \in Shown}
           scale == Head(todo)
<1>1. scale \in Shown
  BY DEF BeginRow, ScanTypes
<1>2. PICK seen \in {vp, ViewPort(canvas)} :
        /\ canvas' = IF CalculatePPM(seen, scale) = 0
                     THEN canvas ELSE CalculatePPM(seen, scale)
        /\ vp' \in {seen, ViewPort(canvas')}
  BY DEF BeginRow, Jump
<1>3. vp \in views /\ canvas \in {PPM(s) : s \in Shown}
  BY DEF ScanTypes
<1>4. seen \in views
  BY <1>2, <1>3
<1>5. PPM(scale) # 0
  BY <1>1, Product, ScaleAssumption
<1>6. IF seen = NoViewPort THEN CalculatePPM(seen, scale) = 0
                           ELSE CalculatePPM(seen, scale) = PPM(scale)
  BY <1>1, <1>4, CanvasOfScale
<1>7. \/ canvas' = PPM(scale)
      \/ seen = NoViewPort /\ canvas' = canvas
  BY <1>2, <1>5, <1>6
<1>8. canvas' \in {PPM(s) : s \in Shown}
  BY <1>1, <1>3, <1>7
<1>9. vp' \in views
  BY <1>2, <1>4, <1>8
<1>10. ASSUME vp' = ViewPort(PPM(scale))
       PROVE  canvas' = PPM(scale)
  <2>1. vp' # NoViewPort
    BY <1>5, <1>10 DEF ViewPort, NoViewPort
  <2>2. ASSUME vp' = ViewPort(canvas')
        PROVE  canvas' = PPM(scale)
    BY <1>10, <2>2 DEF ViewPort
  <2> QED
    BY <1>2, <1>7, <2>1, <2>2
<1> QED
  BY <1>1, <1>8, <1>9, <1>10

(* The steps of a row are the extent of a viewport.                        *)
LEMMA ExtentIsNatural ==
  ASSUME NEW view, view \in {NoViewPort} \union {ViewPort(PPM(s)) : s \in Shown}
  PROVE  /\ view.extent \in Nat
         /\ view \in {NoViewPort} \union {ViewPort(ppm) : ppm \in 1 .. Screen}
<1>1. CASE view = NoViewPort
  BY <1>1 DEF NoViewPort
<1>2. CASE view # NoViewPort
  <2>1. PICK s \in Shown : view = ViewPort(PPM(s))
    BY <1>2
  <2>2. PPM(s) \in 1 .. Screen
    BY Product
  <2>3. Span \div PPM(s) \in Nat
    BY <2>2, ScaleAssumption
  <2> QED
    BY <2>1, <2>2, <2>3 DEF ViewPort
<1> QED
  BY <1>1, <1>2

(* The order of the corners is made by OnOk. *)
LEMMA CornersInOrder ==
  ASSUME NEW x \in Int, NEW y \in Int
  PROVE  /\ Lower(x, y) \in {x, y} /\ Upper(x, y) \in {x, y}
         /\ Lower(x, y) <= Upper(x, y)
BY DEF Lower, Upper

(* The canvas begins with the scale of the user, unreported.               *)
LEMMA ScanTypesInit ==
  ASSUME Init
  PROVE  ScanTypes
<1>1. UserScale \in Shown /\ canvas = PPM(UserScale) /\ vp = NoViewPort
  BY DEF Init, Shown, PPM
<1>2. /\ canvas \in {PPM(scale) : scale \in Shown}
      /\ vp \in {NoViewPort} \union {ViewPort(PPM(scale)) : scale \in Shown}
  BY <1>1
<1>3. /\ canvas \in 1 .. Screen
      /\ vp \in {NoViewPort} \union {ViewPort(ppm) : ppm \in 1 .. Screen}
  BY <1>1, Product
<1>4. todo = <<>> /\ spc = "idle"
  BY DEF Init
<1>5. /\ boxes \in SUBSET (1 .. Screen) /\ todo \in Seq(1 .. Screen)
      /\ dialog = "closed" /\ okEnabled = TRUE
      /\ finishing = FALSE /\ late = FALSE /\ refused = FALSE
      /\ centres = {} /\ lat = 0 /\ lon = 0 /\ step = 0
      /\ depth = 0 /\ stops = 0 /\ skipped = 0 /\ opened = 0
  BY ScaleAssumption DEF Init
<1>6. {depth, stops, skipped, opened} \subseteq Nat
  BY <1>5
<1>7. /\ okEnabled \in BOOLEAN /\ finishing \in BOOLEAN
      /\ late \in BOOLEAN /\ refused \in BOOLEAN
  BY <1>5
<1>8. centres \in SUBSET (Int \X Int)
  BY <1>5
<1>9. /\ area \in [latmin : Lats, latmax : Lats, lonmin : Lons, lonmax : Lons]
      /\ area.latmin <= area.latmax /\ area.lonmin <= area.lonmax
  BY AreaAssumption DEF Init
<1>10. TypeOK
  BY <1>3, <1>4, <1>5, <1>6, <1>7, <1>8, <1>9 DEF TypeOK
<1> QED
  BY <1>2, <1>4, <1>10 DEF ScanTypes

(* The list OnOk makes is one of scales that divide the screen.            *)
LEMMA ScalesShown ==
  Scales \in Seq(Shown)
<1>1. /\ Len(Scales) \in Nat /\ DOMAIN Scales = 1 .. Len(Scales)
      /\ Scales = [i \in 1 .. Len(Scales) |-> Scales[i]]
  BY ScaleAssumption
<1>2. \A i \in 1 .. Len(Scales) : Scales[i] \in Shown
  BY <1>1 DEF Shown
<1>3. [i \in 1 .. Len(Scales) |-> Scales[i]] \in Seq(Shown)
  BY <1>1, <1>2
<1> QED
  BY <1>1, <1>3

(* The user and a late viewport set variables to values of their types.    *)
LEMMA ScanTypesUser ==
  ASSUME ScanTypes, ScanInv, UserStep \/ LateViewPort
  PROVE  ScanTypes'
<1>1. CASE ShowPreferencesDialog
  <2>1. boxes' \in SUBSET (1 .. Screen) /\ opened' \in Nat
    BY <1>1, ScaleAssumption DEF ShowPreferencesDialog, ScanTypes, TypeOK
  <2> QED
    BY <1>1, <2>1
    DEF ShowPreferencesDialog, ScanTypes, TypeOK, okVars, scanVars
<1>2. ASSUME NEW lat1 \in Lats, NEW lat2 \in Lats,
             NEW lon1 \in Lons, NEW lon2 \in Lons,
             OnOk(lat1, lat2, lon1, lon2)
      PROVE  ScanTypes'
  <2>1. /\ area' \in [latmin : Lats, latmax : Lats, lonmin : Lons, lonmax : Lons]
        /\ area'.latmin <= area'.latmax /\ area'.lonmin <= area'.lonmax
    <3>1. /\ Lower(lat1, lat2) \in Lats /\ Upper(lat1, lat2) \in Lats
          /\ Lower(lon1, lon2) \in Lons /\ Upper(lon1, lon2) \in Lons
          /\ Lower(lat1, lat2) <= Upper(lat1, lat2)
          /\ Lower(lon1, lon2) <= Upper(lon1, lon2)
      BY CornersInOrder, AreaAssumption
    <3> QED
      BY <1>2, <3>1 DEF OnOk
  <2>2. todo' \in Seq(Shown) /\ todo' \in Seq(1 .. Screen)
    <3>1. todo' = <<>> \/ todo' = Scales
      BY <1>2 DEF OnOk
    <3>2. <<>> \in Seq(Shown) /\ <<>> \in Seq(1 .. Screen)
      OBVIOUS
    <3>3. Scales \in Seq(1 .. Screen)
      BY ScaleAssumption
    <3> QED
      BY <3>1, <3>2, <3>3, ScalesShown
  <2>3. refused' \in BOOLEAN /\ spc' = "scales" /\ okEnabled' = FALSE
    BY <1>2 DEF OnOk, DisableOk, CrossesIDL
  <2>4. depth' \in Nat
    BY <1>2 DEF OnOk, ScanInv
  <2>5. UNCHANGED <<dialog, boxes, finishing, scanVars, stops, skipped, opened>>
    BY <1>2 DEF OnOk
  <2> QED
    BY <2>1, <2>2, <2>3, <2>4, <2>5 DEF ScanTypes, TypeOK, scanVars
<1>3. CASE OnCancel \/ CloseBox
  <2>1. dialog' \in {"closed", "open", "hidden"}
    BY <1>3 DEF OnCancel, CloseBox, CloseDialog
  <2>2. finishing' = TRUE \/ finishing' = finishing
    BY <1>3 DEF OnCancel, CloseBox
  <2>3. stops' = stops + 1 \/ stops' = stops
    BY <1>3 DEF OnCancel, CloseBox
  <2>4. UNCHANGED <<okEnabled, boxes, depth, spc, okVars, scanVars, skipped,
                    opened>>
    BY <1>3 DEF OnCancel, CloseBox
  <2>5. finishing' \in BOOLEAN
    BY <2>2 DEF ScanInv
  <2>6. stops' \in Nat
    BY <2>3 DEF ScanInv
  <2> QED
    BY <2>1, <2>4, <2>5, <2>6 DEF ScanTypes, TypeOK, okVars, scanVars
<1>4. CASE LateViewPort
  <2>1. vp' \in {NoViewPort} \union {ViewPort(PPM(scale)) : scale \in Shown}
    BY <1>4 DEF LateViewPort, ScanTypes
  <2>2. vp' \in {NoViewPort} \union {ViewPort(ppm) : ppm \in 1 .. Screen}
    BY <1>4 DEF LateViewPort, ScanTypes, TypeOK
  <2> QED
    BY <1>4, <2>1, <2>2 DEF LateViewPort, ScanTypes, TypeOK, okVars
<1>5. ASSUME NEW i \in DOMAIN Scales, ClickBox(Scales[i])
      PROVE  ScanTypes'
  <2>1. boxes \in SUBSET (1 .. Screen) /\ Scales[i] \in 1 .. Screen
    BY <1>5, ScaleAssumption DEF ScanTypes, TypeOK
  <2>2. boxes' \subseteq boxes \union {Scales[i]}
    BY <1>5 DEF ClickBox
  <2>3. boxes' \in SUBSET (1 .. Screen)
    BY <2>1, <2>2
  <2> QED
    BY <1>5, <2>3 DEF ClickBox, ScanTypes, TypeOK, okVars, scanVars
<1> QED
  BY <1>1, <1>2, <1>3, <1>4, <1>5 DEF UserStep

(* So do the steps of OnOk and ScanArea.                                   *)
LEMMA ScanTypesLoop ==
  ASSUME ScanTypes, ScanInv, ScanStep
  PROVE  ScanTypes'
<1>1. /\ area.latmin \in Int /\ area.lonmin \in Int
      /\ lat \in Int /\ lon \in Int /\ step \in Nat
  BY AreaAssumption DEF ScanTypes, TypeOK
<1>2. CASE CallScanArea
  BY <1>1, <1>2 DEF CallScanArea, loopUnchanged, ScanTypes, TypeOK
<1>3. CASE SkipScale
  BY <1>3 DEF SkipScale, loopUnchanged, scanVars, ScanTypes, TypeOK
<1>4. CASE BeginRow
  <2>1. /\ canvas' \in {PPM(scale) : scale \in Shown}
        /\ vp' \in {NoViewPort} \union {ViewPort(PPM(scale)) : scale \in Shown}
    BY <1>4, RowBegins
  <2>2. canvas' \in 1 .. Screen
    BY <2>1, Product
  <2>3. /\ vp' \in {NoViewPort} \union {ViewPort(ppm) : ppm \in 1 .. Screen}
        /\ vp'.extent \in Nat
    BY <2>1, ExtentIsNatural
  <2>4. step' \in Nat
    BY <1>4, <2>3 DEF BeginRow
  <2>5. late' \in BOOLEAN
    BY <1>4 DEF BeginRow, ScanTypes, TypeOK
  <2>6. /\ spc' = "column" /\ todo # <<>>
        /\ UNCHANGED <<loopUnchanged, dialog, depth, finishing, todo, lat, lon,
                       centres, skipped>>
    BY <1>4 DEF BeginRow, ScanTypes
  <2> QED
    BY <2>1, <2>2, <2>3, <2>4, <2>5, <2>6 DEF loopUnchanged, ScanTypes, TypeOK
<1>5. CASE Visit
  BY <1>1, <1>5 DEF Visit, loopUnchanged, ScanTypes, TypeOK
<1>6. CASE YieldReturns
  BY <1>1, <1>6 DEF YieldReturns, Advance, loopUnchanged, ScanTypes, TypeOK
<1>7. CASE EndRow
  BY <1>1, <1>7 DEF EndRow, NextRow, loopUnchanged, ScanTypes, TypeOK
<1>8. CASE ScanAreaReturns
  <2>1. todo' \in Seq(Shown) /\ todo' \in Seq(1 .. Screen)
    BY <1>8 DEF ScanAreaReturns, ScanTypes, TypeOK
  <2>2. skipped' \in Nat
    BY <1>8 DEF ScanAreaReturns, ScanInv
  <2> QED
    BY <1>8, <2>1, <2>2
    DEF ScanAreaReturns, ResetFinishing, loopUnchanged, scanVars, ScanTypes,
        TypeOK
<1>9. CASE OnOkReturns
  <2>1. depth' \in Nat
    BY <1>9 DEF OnOkReturns, ScanInv
  <2> QED
    BY <1>9, <2>1 DEF OnOkReturns, loopUnchanged, scanVars, ScanTypes, TypeOK
<1> QED
  BY <1>2, <1>3, <1>4, <1>5, <1>6, <1>7, <1>8, <1>9 DEF ScanStep

(* The types, and with them that what is left to scan ends the list of     *)
(* scales and that the area of a scan has its corners in order.            *)
THEOREM ScanTypesInvariant == Spec => []ScanTypes
<1>1. ScanTypes /\ UNCHANGED vars => ScanTypes'
  BY DEF ScanTypes, TypeOK, vars, okVars, scanVars
<1>2. ScanTypes /\ ScanInv /\ [Next]_vars => ScanTypes'
  BY <1>1, ScanTypesUser, ScanTypesLoop DEF Next
<1> QED
  BY <1>2, ScanTypesInit, ScanInvariant, PTL DEF Spec

(* The variables keep their types: whatever the order of scales, the       *)
(* canvas is that of a scale, and the corners of an area keep their order. *)
THEOREM TypeCorrect == Spec => []TypeOK
<1>1. ScanTypes => TypeOK
  BY DEF ScanTypes
<1> QED
  BY <1>1, ScanTypesInvariant, PTL

-----------------------------------------------------------------------------
(* A point that a centre to its south and west shows, in a view of an      *)
(* extent.                                                                 *)
SeenFrom(c, x, y, extent) ==
  /\ c[1] <= y /\ y < c[1] + extent
  /\ c[2] <= x /\ x < c[2] + extent

InScanArea == spc \in {"row", "column", "yield"}
InRow == spc \in {"column", "yield"}

(* The rows that are done leave no gap below lat; in the row being visited *)
(* there is none to the west of lon.                                       *)
RowsShown ==
  \A y \in area.latmin .. area.latmax, x \in area.lonmin .. area.lonmax :
    y < lat => \E c \in centres : SeenFrom(c, x, y, Span \div canvas)

RowShown ==
  \A x \in area.lonmin .. area.lonmax :
    x < lon => \E c \in centres :
                 c[1] = lat /\ c[2] <= x /\ x < c[2] + Span \div canvas

(* All rows of a scan are counted with the extent of one canvas, that of   *)
(* its scale, unless the viewport was late.                                *)
CoverInv ==
  /\ InScanArea /\ ~ late /\ lat # area.latmin => canvas = PPM(Head(todo))
  /\ InRow /\ ~ late => canvas = PPM(Head(todo))
  /\ InRow /\ ~ late => step = Span \div canvas
  /\ spc = "row" => lon = area.lonmin
  /\ spc = "yield" => <<lat, lon>> \in centres
  /\ InScanArea /\ ~ late /\ ~ finishing => RowsShown
  /\ InRow /\ ~ late /\ ~ finishing => RowShown

(* Nothing is to be covered before a scan.                                 *)
LEMMA CoverInvInit ==
  ASSUME Init
  PROVE  CoverInv
BY DEF Init, CoverInv, InScanArea, InRow

(* The user may stop a scan; a viewport that comes late is marked as such. *)
LEMMA CoverInvUser ==
  ASSUME CoverInv, ScanInv, UserStep \/ LateViewPort
  PROVE  CoverInv'
<1>1. /\ UNCHANGED <<lat, lon, step, canvas, centres, late>>
      /\ finishing' \/ finishing' = finishing
      /\ \/ UNCHANGED <<spc, area, todo>>
         \/ ~ InScanArea'
  BY DEF UserStep, ShowPreferencesDialog, OnOk, ClickBox, OnCancel, CloseBox,
     LateViewPort, InScanArea, scanVars, okVars
<1>2. CASE ~ InScanArea'
  BY <1>2 DEF CoverInv, InScanArea, InRow
<1>3. CASE UNCHANGED <<spc, area, todo>>
  <2>1. /\ RowsShown => RowsShown'
        /\ RowShown => RowShown'
    BY <1>1, <1>3 DEF RowsShown, RowShown
  <2>2. (InScanArea' <=> InScanArea) /\ (InRow' <=> InRow)
    BY <1>3 DEF InScanArea, InRow
  <2>3. ~ finishing' => ~ finishing
    BY <1>1
  <2> QED
    BY <1>1, <1>3, <2>1, <2>2, <2>3 DEF CoverInv
<1> QED
  BY <1>1, <1>2, <1>3

(* The first row of a scan begins with nothing below it. *)
LEMMA CoverInvCall ==
  ASSUME ScanTypes, CoverInv, CallScanArea
  PROVE  CoverInv'
<1>1. /\ spc' = "row" /\ lat' = area.latmin /\ lon' = area.lonmin
      /\ UNCHANGED <<area, todo, canvas>>
  BY DEF CallScanArea, loopUnchanged
<1>2. area.latmin \in Int
  BY AreaAssumption DEF ScanTypes, TypeOK
<1>3. RowsShown'
  BY <1>1, <1>2 DEF RowsShown
<1> QED
  BY <1>1, <1>3 DEF CoverInv, InScanArea, InRow

(* A row after the first finds the canvas that its scale already has. *)
LEMMA CoverInvBegin ==
  ASSUME ScanTypes, CoverInv, BeginRow
  PROVE  CoverInv'
<1>1. /\ spc = "row" /\ spc' = "column" /\ ~ finishing
      /\ step' = vp'.extent
      /\ late' = (late \/ vp' # ViewPort(Screen \div Head(todo)))
      /\ UNCHANGED <<area, todo, lat, lon, centres, finishing>>
  BY DEF BeginRow, loopUnchanged
<1>2. ~ late' => ~ late /\ vp' = ViewPort(PPM(Head(todo)))
  BY <1>1 DEF PPM
<1>3. ~ late' => canvas' = PPM(Head(todo))
  BY <1>2, RowBegins
<1>4. ~ late' => step' = Span \div canvas'
  BY <1>1, <1>2, <1>3 DEF ViewPort
<1>5. /\ area.latmin \in Int /\ area.lonmin \in Int /\ area.lonmax \in Int
      /\ area.latmax \in Int /\ lat \in Int
  BY AreaAssumption DEF ScanTypes, TypeOK
<1>6. RowShown'
  BY <1>1, <1>5 DEF CoverInv, RowShown
<1>7. ASSUME ~ late'
      PROVE  RowsShown'
  <2>1. CASE lat = area.latmin
    BY <2>1, <1>1, <1>5 DEF RowsShown
  <2>2. CASE lat # area.latmin
    <3>1. canvas' = canvas
      BY <1>1, <1>2, <1>3, <1>7, <2>2 DEF CoverInv, InScanArea
    <3>2. RowsShown
      BY <1>1, <1>2, <1>7 DEF CoverInv, InScanArea
    <3> QED
      BY <1>1, <3>1, <3>2 DEF RowsShown
  <2> QED
    BY <2>1, <2>2
<1> QED
  BY <1>1, <1>3, <1>4, <1>6, <1>7 DEF CoverInv, InScanArea, InRow

(* A position adds a centre. *)
LEMMA CoverInvVisit ==
  ASSUME CoverInv, Visit
  PROVE  CoverInv'
<1>1. /\ spc = "column" /\ spc' = "yield"
      /\ centres' = centres \union {<<lat, lon>>}
      /\ UNCHANGED <<area, todo, lat, lon, step, canvas, late, finishing>>
  BY DEF Visit, loopUnchanged
<1>2. RowsShown => RowsShown'
  BY <1>1 DEF RowsShown
<1>3. RowShown => RowShown'
  BY <1>1 DEF RowShown
<1> QED
  BY <1>1, <1>2, <1>3 DEF CoverInv, InScanArea, InRow

(* The step to the next position leads to the end of what this one shows.  *)
LEMMA CoverInvAdvance ==
  ASSUME ScanTypes, CoverInv, YieldReturns
  PROVE  CoverInv'
<1>1. /\ spc = "yield" /\ spc' = "column" /\ lon' = lon + step
      /\ UNCHANGED <<area, todo, lat, step, canvas, centres, late, finishing>>
  BY DEF YieldReturns, Advance, loopUnchanged
<1>2. /\ area.lonmin \in Int /\ area.lonmax \in Int
      /\ lon \in Int /\ step \in Nat
  BY AreaAssumption DEF ScanTypes, TypeOK
<1>3. RowsShown => RowsShown'
  BY <1>1 DEF RowsShown
<1>4. ASSUME ~ late, RowShown
      PROVE  RowShown'
  <2> SUFFICES ASSUME NEW x \in area.lonmin .. area.lonmax, x < lon + step
               PROVE  \E c \in centres :
                        c[1] = lat /\ c[2] <= x /\ x < c[2] + Span \div canvas
    BY <1>1 DEF RowShown
  <2>1. CASE x < lon
    BY <1>4, <2>1 DEF RowShown
  <2>2. CASE ~ (x < lon)
    <3>1. <<lat, lon>> \in centres /\ step = Span \div canvas
      BY <1>1, <1>4 DEF CoverInv, InRow
    <3>2. lon <= x /\ x < lon + Span \div canvas
      BY <1>2, <2>2, <3>1
    <3> QED
      BY <3>1, <3>2
  <2> QED
    BY <2>1, <2>2
<1> QED
  BY <1>1, <1>3, <1>4 DEF CoverInv, InScanArea, InRow

(* A row that went to the eastern end shows everything up to the next.     *)
LEMMA CoverInvEndRow ==
  ASSUME ScanTypes, CoverInv, EndRow
  PROVE  CoverInv'
<1>1. /\ spc = "column" /\ spc' = "row"
      /\ finishing \/ lon > area.lonmax
      /\ lon' = area.lonmin /\ lat' = lat + step
      /\ UNCHANGED <<area, todo, step, canvas, centres, late, finishing>>
  BY DEF EndRow, NextRow, loopUnchanged
<1>2. /\ area.lonmin \in Int /\ area.lonmax \in Int
      /\ area.latmin \in Int /\ area.latmax \in Int
      /\ lat \in Int /\ lon \in Int /\ step \in Nat
  BY AreaAssumption DEF ScanTypes, TypeOK
<1>3. ASSUME ~ late, ~ finishing
      PROVE  RowsShown'
  <2> SUFFICES ASSUME NEW y \in area.latmin .. area.latmax,
                      NEW x \in area.lonmin .. area.lonmax,
                      y < lat + step
               PROVE  \E c \in centres : SeenFrom(c, x, y, Span \div canvas)
    BY <1>1 DEF RowsShown
  <2>1. RowsShown /\ RowShown /\ step = Span \div canvas
    BY <1>1, <1>3 DEF CoverInv, InScanArea, InRow
  <2>2. CASE y < lat
    BY <2>1, <2>2 DEF RowsShown
  <2>3. CASE ~ (y < lat)
    <3>1. x < lon
      BY <1>1, <1>2, <1>3
    <3>2. PICK c \in centres :
            c[1] = lat /\ c[2] <= x /\ x < c[2] + Span \div canvas
      BY <2>1, <3>1 DEF RowShown
    <3>3. c[1] <= y /\ y < c[1] + Span \div canvas
      BY <1>2, <2>1, <2>3, <3>2
    <3> QED
      BY <3>2, <3>3 DEF SeenFrom
  <2> QED
    BY <2>2, <2>3
<1>4. ~ late' => canvas' = PPM(Head(todo'))
  BY <1>1 DEF CoverInv, InRow
<1> QED
  BY <1>1, <1>3, <1>4 DEF CoverInv, InScanArea, InRow

(* What a running scan has shown so far has no gap: the rows it has done   *)
(* reach up to lat, and the views of the current row as far as lon.        *)
THEOREM CoverInvariant == Spec => []CoverInv
<1>1. CoverInv /\ UNCHANGED vars => CoverInv'
  <2> SUFFICES ASSUME CoverInv, UNCHANGED vars PROVE CoverInv'
    OBVIOUS
  <2>1. UNCHANGED <<spc, area, todo, lat, lon, step, canvas, centres, late,
                    finishing>>
    BY DEF vars, okVars, scanVars
  <2>2. (InScanArea' <=> InScanArea) /\ (InRow' <=> InRow)
    BY <2>1 DEF InScanArea, InRow
  <2>3. (RowsShown => RowsShown') /\ (RowShown => RowShown')
    BY <2>1 DEF RowsShown, RowShown
  <2> QED
    BY <2>1, <2>2, <2>3 DEF CoverInv
<1>2. CoverInv /\ (SkipScale \/ ScanAreaReturns \/ OnOkReturns) => CoverInv'
  BY DEF SkipScale, ScanAreaReturns, OnOkReturns, CoverInv, InScanArea, InRow
<1>3. CoverInv /\ ScanTypes /\ ScanInv /\ [Next]_vars => CoverInv'
  BY <1>1, <1>2, CoverInvUser, CoverInvCall, CoverInvBegin, CoverInvVisit,
     CoverInvAdvance, CoverInvEndRow DEF Next, ScanStep
<1> QED
  BY <1>3, CoverInvInit, ScanInvariant, ScanTypesInvariant, PTL DEF Spec

(* A scan that nobody stopped, and that had its viewports in time, has     *)
(* been within a view to the south-west of every point of the area, for    *)
(* any area, any scales and any canvas before the scan.                    *)
THEOREM ScanShowsArea == Spec => []LeavesNoGaps
<1>1. ScanTypes /\ CoverInv => LeavesNoGaps
  <2> SUFFICES ASSUME ScanTypes, CoverInv,
                      spc = "row", ~ finishing, ~ late, lat > area.latmax,
                      NEW y \in area.latmin .. area.latmax,
                      NEW x \in area.lonmin .. area.lonmax
               PROVE  \E c \in centres : SeenFrom(c, x, y, Span \div canvas)
    BY DEF LeavesNoGaps, SeenFrom
  <2>1. RowsShown
    BY DEF CoverInv, InScanArea
  <2>2. /\ area.latmin \in Int /\ area.latmax \in Int /\ lat \in Int
    BY AreaAssumption DEF ScanTypes, TypeOK
  <2>3. y < lat
    BY <2>2
  <2> QED
    BY <2>1, <2>3 DEF RowsShown
<1> QED
  BY <1>1, CoverInvariant, ScanTypesInvariant, PTL
=============================================================================
