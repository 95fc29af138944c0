--------------------------- MODULE ObjectPosition ---------------------------
(***************************************************************************)
(* The position of an object on its way through three places that each     *)
(* have an idea of what is on the map: StoreNewObject brings a longitude   *)
(* back to the map and forgets the rest, initDB repairs the rows of        *)
(* versions 0.1 and 0.2, and the SQL function distanceMercator fails on a  *)
(* row that is off the map, which makes the database unusable for good.    *)
(*                                                                         *)
(* The way ends at the chart: the result list shows the position as two    *)
(* texts, and a double click reads it back from them.                      *)
(*                                                                         *)
(* Angles are integers, as in the statement that stores them with a fixed  *)
(* number of decimals.                                                     *)
(***************************************************************************)
EXTENDS Dmm

CONSTANTS
  Angles,   \* what OpenCPN, a CSV line or an old row may hold
  Quarter,  \* 90 degrees
  Half,     \* 180 degrees
  OldRows   \* sets of rows an old version may have left

Positions == [lat : Int, lon : Int]

ASSUME AnglesAssumption ==
  /\ Angles \subseteq Int
  /\ Quarter \in Nat
  /\ Half \in Nat
  /\ OldRows \subseteq SUBSET Positions

VARIABLES
  objects, \* positions in the table object
  kept,    \* positions this version has put there
  ppc,     \* the next statement of initDB, "ready" or "off"
  jump     \* the last jump from the result list: to which object, where it
           \* went, and the format of the list

vars == <<objects, kept, ppc, jump>>

Nowhere == [lat |-> 0, lon |-> 0]

Init ==
  /\ objects \in OldRows
  /\ kept = {}
  /\ ppc = "off"
  /\ jump = [object |-> Nowhere, to |-> Nowhere, format |-> "minutes"]

-----------------------------------------------------------------------------
(* initDB: two UPDATEs and a DELETE, each a transaction of its own; the    *)
(* process may end between them, and the next start begins again.          *)
Start ==
  /\ ppc = "off"
  /\ ppc' = "fixEast"
  /\ UNCHANGED <<objects, kept, jump>>

FixEast ==
  /\ ppc = "fixEast"
  /\ ppc' = "fixWest"
  /\ objects' = {[o EXCEPT !.lon = IF @ > Half THEN @ - 2 * Half ELSE @]
                   : o \in objects}
  /\ UNCHANGED <<kept, jump>>

FixWest ==
  /\ ppc = "fixWest"
  /\ ppc' = "delete"
  /\ objects' = {[o EXCEPT !.lon = IF @ < - Half THEN @ + 2 * Half ELSE @]
                   : o \in objects}
  /\ UNCHANGED <<kept, jump>>

BrokenAtBorder(o) ==
  o.lon <= - Half \/ o.lon >= Half \/ o.lat < - Quarter \/ o.lat > Quarter
Broken(o) ==
  o.lon < - Half \/ o.lon > Half \/ o.lat < - Quarter \/ o.lat > Quarter

DeleteBroken ==
  /\ ppc = "delete"
  /\ ppc' = "ready"
  /\ objects' = {o \in objects : ~ Broken(o)}
  /\ UNCHANGED <<kept, jump>>

(* StoreNewObject *)
OnWorldChart(lon) ==
  IF lon < - Half THEN lon + 2 * Half
  ELSE IF lon > Half THEN lon - 2 * Half ELSE lon

NothingIsOff(lat, lon) == FALSE
OffTheMap(lat, lon) ==
  lon > Half \/ lon < - Half \/ lat > Quarter \/ lat < - Quarter

StoreNewObject(lat, lon) ==
  /\ ppc = "ready"
  /\ ~ OffTheMap(lat, OnWorldChart(lon))
  /\ LET o == [lat |-> lat, lon |-> OnWorldChart(lon)]
     IN  /\ objects' = objects \union {o}
         /\ kept' = kept \union {o}
  /\ UNCHANGED <<ppc, jump>>

(* AddObject writes the position of a found object into two columns of the *)
(* list, in the format of the day, and OnShowOnChart and OnLeftDClick read *)
(* the columns of the selected row.                                        *)
Row(o, format) ==
  <<toSDMM(1, o.lat, format), toSDMM(2, o.lon, format)>>

ShowOnChart(o, format) ==
  /\ ppc = "ready"
  /\ LET row == Row(o, format)
     IN  \E lat \in Readings(row[1]), lon \in Readings(row[2]) :
           jump' = [object |-> o, to |-> [lat |-> lat, lon |-> lon],
                    format |-> format]
  /\ UNCHANGED <<objects, kept, ppc>>

EndOfRun ==
  /\ ppc # "off"
  /\ ppc' = "off"
  /\ UNCHANGED <<objects, kept, jump>>

Next ==
  \/ Start \/ FixEast \/ FixWest \/ DeleteBroken
  \/ \E lat, lon \in Angles : StoreNewObject(lat, lon)
  \/ \E o \in objects, format \in Formats : ShowOnChart(o, format)
  \/ EndOfRun

Spec == Init /\ [][Next]_vars

-----------------------------------------------------------------------------
(* DistanceMercatorFunc::Execute computes a result *)
HasDistance(o) ==
  ~ (o.lat > Quarter \/ o.lat < - Quarter \/ o.lon > Half \/ o.lon < - Half)

(* Every variable has its type. *)
TypeOK ==
  /\ objects \in SUBSET Positions
  /\ kept \in SUBSET Positions
  /\ ppc \in {"off", "fixEast", "fixWest", "delete", "ready"}
  /\ jump \in [object : Positions, to : Positions, format : Formats]

(* No row makes a search by range fail, once initDB is through: whatever   *)
(* an old version left, and whatever is stored in this one.                *)
SearchNeverFails == ppc = "ready" => \A o \in objects : HasDistance(o)

(* The repair never moves and never deletes a row that this version has    *)
(* stored, however often the program is started or dies in the middle of   *)
(* it.                                                                     *)
RepairKeepsStored == kept \subseteq objects

(* A double click on a found object shows that object, in every format     *)
(* whose texts end with the letter of the hemisphere: no hemisphere is     *)
(* lost between the number, its text, and the number read from it, no      *)
(* fraction but what the rounding of toSDMM_PlugIn takes, which is left    *)
(* out, and nothing behind the text is read.                               *)
JumpsToTheObject == jump.format # "degrees" => jump.to = jump.object
=============================================================================
