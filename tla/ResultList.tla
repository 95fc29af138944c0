----------------------------- MODULE ResultList -----------------------------
(***************************************************************************)
(* The list of results: a row for each object found, with its distance in  *)
(* tenths of the user's unit as the item data the rows are sorted by, and  *)
(* the button that shows the selected one on the chart.                    *)
(***************************************************************************)
EXTENDS RangeLimit, Sequences, Functions

CONSTANT Fine  \* distances are counted in parts of 1 / Fine nautical mile

ASSUME FineAssumption == Fine \in Nat \ {0}

VARIABLES
  rows,            \* m_listCtrlResults: number of the object, item data
  m_btnShowOnChart \* the button is enabled

listVars == <<rows, m_btnShowOnChart>>

-----------------------------------------------------------------------------
KeepsButton == rows' = <<>> /\ UNCHANGED m_btnShowOnChart
ClearObjects == rows' = <<>> /\ m_btnShowOnChart' = FALSE

(* (int)(dist * 10), after toUsrDistance_Plugin *)
WholeUnits(dist) == (dist * unit.per) \div (unit.miles * Fine)
ItemData(dist) == (10 * dist * unit.per) \div (unit.miles * Fine)

AddObject(n, dist) ==
  /\ rows' = Append(rows, [object |-> n, data |-> ItemData(dist)])
  /\ UNCHANGED m_btnShowOnChart

ObjectDistanceCompareFunction(item1, item2) ==
  IF item1 < item2 THEN -1 ELSE IF item1 > item2 THEN 1 ELSE 0

(* SortItems may leave equal rows in any order. *)
IsSorted(list) ==
  \A i, j \in DOMAIN list :
    i < j => ObjectDistanceCompareFunction(list[i].data, list[j].data) <= 0

SortResults ==
  /\ \E order \in Bijection(DOMAIN rows, DOMAIN rows) :
       LET list == [i \in DOMAIN rows |-> rows[order[i]]]
       IN  IsSorted(list) /\ rows' = list
  /\ UNCHANGED m_btnShowOnChart

OnItemSelected ==
  /\ rows # <<>>
  /\ m_btnShowOnChart' = TRUE
  /\ UNCHANGED rows
=============================================================================
