------------------------- MODULE SearchDialogProofs -------------------------
(***************************************************************************)
(* Proofs about the search dialog: the order of its list, the button below *)
(* it, its settings, its popup and what a search lists, for every unit,    *)
(* limit, set of features and number of objects.                           *)
(***************************************************************************)
EXTENDS SearchDialog, TLAPS, WellFoundedInduction,
        SequenceTheorems, FiniteSetTheorems

Objects == [feature : Features, dist : Distances]

(* Every row stands for a stored object of its own, with that object's     *)
(* distance as its data.                                                   *)
Faithful(list) ==
  /\ list \in Seq([object : 1 .. Len(objects), data : Int])
  /\ \A i \in DOMAIN list : list[i].data = ItemData(objects[list[i].object].dist)
  /\ \A i, j \in DOMAIN list : i # j => list[i].object # list[j].object

(* Rows are added in the order of the table, between an empty list and the *)
(* sort.                                                                   *)
ListInv ==
  /\ unit \in Units
  /\ objects \in Seq(Objects)
  /\ Faithful(rows)
  /\ dpc \in {"ask", "select"} => rows = <<>>
  /\ dpc = "list" => row \in 0 .. Len(objects)
  /\ dpc = "list" /\ row # 0 => \A i \in DOMAIN rows : rows[i].object < row
  /\ dpc = "idle" /\ ~ torn => IsSorted(rows)
  /\ ButtonHasRow

(* A cleared list.                                                         *)
LEMMA EmptyList ==
  /\ Faithful(<<>>)
  /\ IsSorted(<<>>)
BY DEF Faithful, IsSorted

(* The rows of a list that stands for objects.                             *)
LEMMA RowTypes ==
  ASSUME NEW list, Faithful(list)
  PROVE  /\ Len(list) \in Nat
         /\ DOMAIN list = 1 .. Len(list)
         /\ \A i \in DOMAIN list : list[i] \in [object : 1 .. Len(objects), data : Int]
<1>1. list \in Seq([object : 1 .. Len(objects), data : Int])
  BY DEF Faithful
<1> QED
  BY <1>1, LenProperties, ElementOfSeq

(* At first there is no list.                                              *)
LEMMA ListInvInit ==
  ASSUME Init
  PROVE  ListInv
BY EmptyList DEF Init, RangeInit, NewDialog, ListInv, ButtonHasRow

(* A step that leaves the list alone, or ends with an empty one. *)
LEMMA ListInvKept ==
  ASSUME ListInv, UNCHANGED <<unit, objects>>,
         \/ UNCHANGED <<rows, dpc, row, torn>> /\ ButtonHasRow'
         \/ rows' = <<>> /\ dpc' # "list" /\ ~ m_btnShowOnChart'
  PROVE  ListInv'
<1>1. CASE UNCHANGED <<rows, dpc, row, torn>> /\ ButtonHasRow'
  BY <1>1 DEF ListInv, Faithful, ItemData, IsSorted
<1>2. CASE rows' = <<>> /\ dpc' # "list" /\ ~ m_btnShowOnChart'
  BY <1>2 DEF ListInv, Faithful, IsSorted, ButtonHasRow
<1> QED
  BY <1>1, <1>2

(* Products of positive numbers.                                           *)
LEMMA ProductIsPositive ==
  ASSUME NEW m \in Nat \ {0}, NEW n \in Nat \ {0}
  PROVE  m * n \in Nat \ {0}
OBVIOUS

(* Division with rest.                                                     *)
LEMMA QuotientIsNat ==
  ASSUME NEW u \in Nat, NEW d \in Nat \ {0}
  PROVE  /\ u \div d \in Nat
         /\ u % d \in 0 .. d - 1
         /\ u = (u \div d) * d + (u % d)
OBVIOUS

Tenths(o) == 10 * o.dist * unit.per
Width == unit.miles * Fine

(* The item data of a row is the number of tenths, rounded down.           *)
LEMMA ItemDataTypes ==
  ASSUME unit \in Units, NEW o \in Objects
  PROVE  /\ Tenths(o) \in Nat
         /\ Width \in Nat \ {0}
         /\ ItemData(o.dist) = Tenths(o) \div Width
         /\ ItemData(o.dist) \in Nat
<1>1. o.dist \in Nat /\ unit.per \in Nat /\ unit.miles \in Nat \ {0}
  BY RangeAssumption, SearchAssumption DEF Objects
<1>2. Tenths(o) \in Nat
  BY <1>1 DEF Tenths
<1>3. Width \in Nat \ {0}
  BY <1>1, ProductIsPositive, FineAssumption DEF Width
<1>4. ItemData(o.dist) = Tenths(o) \div Width
  BY DEF ItemData, Tenths, Width
<1> QED
  BY <1>2, <1>3, <1>4, QuotientIsNat

(* DbThread stores an object behind those the rows stand for. *)
LEMMA ListInvNewObject ==
  ASSUME ListInv, NEW f \in Features, NEW d \in Distances, NewObject(f, d)
  PROVE  ListInv'
<1> DEFINE o == [feature |-> f, dist |-> d]
           n == Len(objects)
<1>1. /\ objects' = Append(objects, o)
      /\ UNCHANGED <<unit, rows, m_btnShowOnChart, dpc, row, torn>>
  BY DEF NewObject, rangeVars, dialogVars, listVars, findVars
<1>2. /\ n \in Nat
      /\ Len(objects') = n + 1
      /\ objects' \in Seq(Objects)
      /\ \A k \in 1 .. n : objects'[k] = objects[k]
  BY <1>1 DEF ListInv, Objects
<1>3. rows \in Seq([object : 1 .. n + 1, data : Int])
  <2>1. [object : 1 .. n, data : Int] \subseteq [object : 1 .. n + 1, data : Int]
    BY <1>2
  <2>2. rows \in Seq([object : 1 .. n, data : Int])
    BY DEF ListInv, Faithful
  <2> HIDE DEF n
  <2> QED
    BY <2>1, <2>2, SeqMonotonic
<1>4. ASSUME NEW i \in DOMAIN rows
      PROVE  rows[i].data = ItemData(objects'[rows[i].object].dist)
  <2>1. rows[i].object \in 1 .. n
    BY <1>4, RowTypes DEF ListInv
  <2> QED
    BY <1>2, <2>1, <1>4 DEF ListInv, Faithful
<1>5. Faithful(rows)'
  BY <1>1, <1>2, <1>3, <1>4 DEF Faithful, ListInv, ItemData
<1> HIDE DEF n
<1> QED
  BY <1>1, <1>2, <1>5 DEF ListInv, ButtonHasRow, IsSorted,
     ObjectDistanceCompareFunction, n

(* Every set of natural numbers has a least member.                        *)
LEMMA LeastNatural ==
  ASSUME NEW T \in SUBSET Nat, T # {}
  PROVE  \E x \in T : \A y \in T : x <= y
<1>1. PICK x \in T : \A y \in T : ~ (<<y, x>> \in OpToRel(<, Nat))
  BY NatLessThanWellFounded, WFMin
<1>2. ASSUME NEW y \in T
      PROVE  x <= y
  <2>1. x \in Nat /\ y \in Nat
    BY <1>2
  <2>2. ~ (y < x)
    BY <1>1, <1>2, <2>1 DEF OpToRel
  <2> QED
    BY <2>1, <2>2
<1> QED
  BY <1>2

(* The row the statement stands on is a stored object, and the next one is *)
(* behind it.                                                              *)
LEMMA StepGoesOn ==
  ASSUME ListInv, NEW n \in 0 .. Len(objects)
  PROVE  /\ StepFrom(n) \in 0 .. Len(objects)
         /\ StepFrom(n) # 0 => StepFrom(n) > n
<1> DEFINE later == {m \in Selected(filter, m_iLimitRange) : m > n}
<1>1. Len(objects) \in Nat /\ DOMAIN objects = 1 .. Len(objects)
  BY DEF ListInv
<1>2. later \subseteq 1 .. Len(objects) /\ \A m \in later : m > n
  BY <1>1 DEF Selected
<1>3. CASE later = {}
  BY <1>1, <1>3 DEF StepFrom
<1>4. CASE later # {}
  <2>1. \E x \in later : \A y \in later : x <= y
    <3>1. later \in SUBSET Nat
      BY <1>1, <1>2
    <3> HIDE DEF later
    <3> QED
      BY <3>1, <1>4, LeastNatural
  <2>2. StepFrom(n) \in later
    BY <1>4, <2>1 DEF StepFrom
  <2> QED
    BY <1>1, <1>2, <2>2
<1> QED
  BY <1>3, <1>4

(* AddObject, for the row the statement stands on *)
LEMMA ListInvListObject ==
  ASSUME ListInv, ListObject
  PROVE  ListInv'
<1> DEFINE new == [object |-> row, data |-> ItemData(objects[row].dist)]
           n == Len(rows)
<1>1. /\ dpc = "list" /\ row # 0 /\ row \in 1 .. Len(objects)
      /\ objects[row] \in Objects
      /\ Len(objects) \in Nat
  BY DEF ListObject, ListInv
<1>2. new \in [object : 1 .. Len(objects), data : Int]
  BY <1>1, ItemDataTypes DEF ListInv
<1>3. /\ rows' = Append(rows, new)
      /\ UNCHANGED <<unit, objects, m_btnShowOnChart>>
      /\ \/ row' = StepFrom(row) /\ UNCHANGED <<dpc, torn>>
         \/ dpc' = "idle" /\ torn' = TRUE
  BY DEF ListObject, AddObject, Returns, rangeVars, storeVars
<1>4. /\ rows \in Seq([object : 1 .. Len(objects), data : Int])
      /\ \A i \in DOMAIN rows : rows[i].object < row
  BY <1>1 DEF ListInv, Faithful
<1>5. /\ n \in Nat
      /\ DOMAIN rows = 1 .. n
      /\ rows' \in Seq([object : 1 .. Len(objects), data : Int])
      /\ DOMAIN rows' = 1 .. n + 1
      /\ \A i \in 1 .. n : rows'[i] = rows[i]
      /\ rows'[n + 1] = new
  <2> HIDE DEF new
  <2> QED
    BY <1>2, <1>3, <1>4, AppendProperties, LenProperties
<1>6. \A i \in 1 .. n :
        rows'[i].object \in 1 .. Len(objects) /\ rows'[i].object < row
  BY <1>4, <1>5, RowTypes DEF ListInv
<1>7. Faithful(rows)'
  <2>1. ASSUME NEW i \in DOMAIN rows'
        PROVE  rows'[i].data = ItemData(objects[rows'[i].object].dist)
    <3>1. CASE i \in 1 .. n
      <4>1. i \in DOMAIN rows /\ rows'[i] = rows[i]
        BY <1>5, <3>1
      <4> QED
        BY <4>1 DEF ListInv, Faithful
    <3>2. CASE i = n + 1
      BY <1>5, <3>2
    <3> HIDE DEF n, new
    <3> QED
      BY <1>5, <2>1, <3>1, <3>2
  <2>2. ASSUME NEW i \in DOMAIN rows', NEW j \in DOMAIN rows', i # j
        PROVE  rows'[i].object # rows'[j].object
    <3>1. CASE i \in 1 .. n /\ j \in 1 .. n
      <4>1. /\ i \in DOMAIN rows /\ rows'[i] = rows[i]
            /\ j \in DOMAIN rows /\ rows'[j] = rows[j]
        BY <1>5, <3>1
      <4> QED
        BY <2>2, <4>1 DEF ListInv, Faithful
    <3>2. CASE i = n + 1 /\ j \in 1 .. n
      <4>1. rows'[i].object = row
        BY <1>5, <3>2
      <4> HIDE DEF n, new
      <4> QED
        BY <1>1, <1>6, <3>2, <4>1
    <3>3. CASE i \in 1 .. n /\ j = n + 1
      <4>1. rows'[j].object = row
        BY <1>5, <3>3
      <4> HIDE DEF n, new
      <4> QED
        BY <1>1, <1>6, <3>3, <4>1
    <3> HIDE DEF n, new
    <3> QED
      BY <1>5, <2>2, <3>1, <3>2, <3>3
  <2> HIDE DEF new, n
  <2> QED
    BY <1>3, <1>5, <2>1, <2>2 DEF Faithful, ItemData
<1>8. dpc' = "list" => row' \in 0 .. Len(objects)
  BY <1>1, <1>3, StepGoesOn
<1>9. dpc' = "list" /\ row' # 0 => \A i \in DOMAIN rows' : rows'[i].object < row'
  <2>1. dpc' = "list" /\ row' # 0 => row' > row /\ row' \in Nat
    BY <1>1, <1>3, StepGoesOn
  <2>2. \A i \in DOMAIN rows' : rows'[i].object <= row /\ rows'[i].object \in Nat
    <3> SUFFICES ASSUME NEW i \in DOMAIN rows'
                 PROVE  rows'[i].object <= row /\ rows'[i].object \in Nat
      OBVIOUS
    <3>1. CASE i \in 1 .. n
      <4>1. rows'[i].object \in 1 .. Len(objects) /\ rows'[i].object < row
        BY <1>6, <3>1
      <4> QED
        BY <1>1, <4>1
    <3>2. CASE i = n + 1
      <4>1. rows'[i].object = row
        BY <1>5, <3>2
      <4> QED
        BY <1>1, <4>1
    <3>3. i \in 1 .. n \/ i = n + 1
      BY <1>5
    <3> QED
      BY <3>1, <3>2, <3>3
  <2> QED
    BY <1>1, <2>1, <2>2
<1>10. rows' # <<>>
  BY <1>5
<1> HIDE DEF new, n
<1> QED
  BY <1>1, <1>3, <1>7, <1>8, <1>9, <1>10 DEF ListInv, ButtonHasRow

(* SortResults puts the same rows in another order. *)
LEMMA ListInvListEnds ==
  ASSUME ListInv, ListEnds
  PROVE  ListInv'
<1>1. PICK order \in Bijection(DOMAIN rows, DOMAIN rows) :
        LET list == [i \in DOMAIN rows |-> rows[order[i]]]
        IN  IsSorted(list) /\ rows' = list
  BY DEF ListEnds, SortResults
<1>2. /\ dpc' = "idle"
      /\ UNCHANGED <<unit, objects, m_btnShowOnChart>>
  BY DEF ListEnds, Returns, SortResults, rangeVars, storeVars
<1>3. /\ order \in [DOMAIN rows -> DOMAIN rows]
      /\ \A i, j \in DOMAIN rows : i # j => order[i] # order[j]
  BY <1>1 DEF Bijection, Injection, IsInjective
<1>4. /\ Len(rows) \in Nat
      /\ DOMAIN rows = 1 .. Len(rows)
      /\ \A i \in DOMAIN rows : rows[i] \in [object : 1 .. Len(objects), data : Int]
  BY RowTypes DEF ListInv
<1>5. /\ DOMAIN rows' = DOMAIN rows
      /\ \A i \in DOMAIN rows : rows'[i] = rows[order[i]]
      /\ rows' \in Seq([object : 1 .. Len(objects), data : Int])
  BY <1>1, <1>3, <1>4, SeqDef
<1>6. Faithful(rows)'
  <2>1. ASSUME NEW i \in DOMAIN rows'
        PROVE  rows'[i].data = ItemData(objects[rows'[i].object].dist)
    <3>1. order[i] \in DOMAIN rows /\ rows'[i] = rows[order[i]]
      BY <1>3, <1>5, <2>1
    <3> QED
      BY <3>1 DEF ListInv, Faithful
  <2>2. ASSUME NEW i \in DOMAIN rows', NEW j \in DOMAIN rows', i # j
        PROVE  rows'[i].object # rows'[j].object
    <3>1. /\ order[i] \in DOMAIN rows /\ rows'[i] = rows[order[i]]
          /\ order[j] \in DOMAIN rows /\ rows'[j] = rows[order[j]]
          /\ order[i] # order[j]
      BY <1>3, <1>5, <2>2
    <3> QED
      BY <3>1 DEF ListInv, Faithful
  <2> QED
    BY <1>2, <1>5, <2>1, <2>2 DEF Faithful, ItemData
<1>7. IsSorted(rows)'
  BY <1>1 DEF IsSorted, ObjectDistanceCompareFunction
<1>8. rows # <<>> => rows' # <<>>
  BY <1>4, <1>5
<1> QED
  BY <1>2, <1>6, <1>7, <1>8 DEF ListInv, ButtonHasRow

(* The second statement begins with an empty list. *)
LEMMA ListInvSelectObjects ==
  ASSUME ListInv, SelectObjects
  PROVE  ListInv'
<1>1. /\ rows = <<>>
      /\ UNCHANGED <<unit, objects, rows, m_btnShowOnChart>>
  BY DEF SelectObjects, ListInv, rangeVars, dialogVars, listVars, storeVars
<1>2. CASE SelectFails
  BY <1>1, <1>2, ListInvKept DEF SelectFails, Returns, ListInv, ButtonHasRow
<1>3. CASE dpc' = "list" /\ row' = StepFrom(0)
  <2>1. row' \in 0 .. Len(objects)
    <3>1. Len(objects) \in Nat
      BY DEF ListInv
    <3> QED
      BY <1>3, <3>1, StepGoesOn
  <2> QED
    BY <1>1, <1>3, <2>1, EmptyList DEF ListInv, Faithful, ButtonHasRow
<1> QED
  BY <1>2, <1>3 DEF SelectObjects

(* Every step of a search, of the dialog and of DbThread keeps ListInv.    *)
LEMMA ListInvNext ==
  ASSUME ListInv, [Next]_vars
  PROVE  ListInv'
<1> USE DEF rangeVars, dialogVars, listVars, storeVars, findVars
<1>1. CASE UNCHANGED vars
  BY <1>1, ListInvKept DEF vars, ListInv, ButtonHasRow
<1>2. CASE Start \/ WriterFails \/ OnToolbarToolCallback
             \/ \E f \in Features : NewFeature(f)
  BY <1>2, ListInvKept DEF Start, LoadSettings, WriterFails, NewFeature,
     OnToolbarToolCallback, ListInv, ButtonHasRow
<1>3. CASE DeInit \/ Crash
  <2>1. /\ UNCHANGED <<unit, objects>>
        /\ rows' = <<>> /\ dpc' # "list" /\ ~ m_btnShowOnChart'
    BY <1>3 DEF DeInit, Crash, SaveAtDeInit, LoseSettings, DialogEnds,
       NewDialog, Returns
  <2> QED
    BY <2>1, ListInvKept
<1>4. CASE \E f \in Features, d \in Distances : NewObject(f, d)
  BY <1>4, ListInvNewObject
<1>5. CASE UseControls
  <2>1. UNCHANGED <<unit, objects, rows, dpc, row, torn>>
    BY <1>5 DEF UseControls, EnterSettings, OnItemSelected, ShowOnChart, Hide
  <2>2. m_btnShowOnChart' => m_btnShowOnChart \/ rows # <<>>
    BY <1>5 DEF UseControls, OnItemSelected, ShowOnChart, Hide
  <2> QED
    BY <2>1, <2>2, ListInvKept DEF ListInv, ButtonHasRow
<1>6. CASE OnSearch
  <2>1. UNCHANGED <<unit, objects>>
    BY <1>6 DEF OnSearch
  <2>2. CASE m_bDBUsable
    BY <1>6, <2>1, <2>2, ListInvKept DEF OnSearch, ClearObjects, CountObjects,
       SelectFails, Returns
  <2>3. CASE ~ m_bDBUsable
    BY <1>6, <2>1, <2>3, ListInvKept DEF OnSearch, ListInv, ButtonHasRow
  <2> QED
    BY <2>2, <2>3
<1>7. ASSUME NEW yes \in BOOLEAN, Answer(yes)
      PROVE  ListInv'
  <2>1. rows = <<>> /\ UNCHANGED <<unit, objects, rows, m_btnShowOnChart>>
    BY <1>7 DEF Answer, ListInv
  <2>2. dpc' # "list"
    BY <1>7 DEF Answer, Returns
  <2> QED
    BY <2>1, <2>2, ListInvKept DEF ListInv, ButtonHasRow
<1> QED
  BY <1>1, <1>2, <1>3, <1>4, <1>5, <1>6, <1>7, ListInvSelectObjects,
     ListInvListObject, ListInvListEnds DEF Next

(* ListInv holds in every reachable state. *)
THEOREM ListInvariant == Spec => []ListInv
BY ListInvInit, ListInvNext, PTL DEF Spec

(* The button below the list is enabled only while there is a row. *)
THEOREM ButtonIsSafe == Spec => []ButtonHasRow
<1>1. ListInv => ButtonHasRow
  BY DEF ListInv
<1> QED
  BY <1>1, ListInvariant, PTL

(* Two distances whose tenths are in order are in order up to a tenth. *)
LEMMA TenthsInOrder ==
  ASSUME NEW u \in Nat, NEW v \in Nat, NEW d \in Nat \ {0},
         u \div d <= v \div d
  PROVE  u < v + d
<1> DEFINE x == u \div d
           y == v \div d
<1>1. /\ x \in Nat /\ y \in Nat /\ x <= y
      /\ u < x * d + d
      /\ y * d <= v
  BY QuotientIsNat
<1>2. ASSUME NEW m \in Nat, NEW n \in Nat, m <= n
      PROVE  m * d <= n * d
  BY <1>2
<1>3. x * d <= y * d
  BY <1>1, <1>2
<1>4. x * d \in Nat /\ y * d \in Nat
  BY <1>1
<1> HIDE DEF x, y
<1> QED
  BY <1>1, <1>3, <1>4

(* Unless an exception ended the listing, the list is in the order of      *)
(* distance, and in any case it names an object once.                      *)
THEOREM ListIsInOrder == Spec => []NearestFirst
<1>1. ListInv => NearestFirst
  <2> SUFFICES ASSUME ListInv, dpc = "idle",
                      NEW i \in DOMAIN rows, NEW j \in DOMAIN rows, i < j
               PROVE  /\ rows[i].object # rows[j].object
                      /\ torn \/ Tenths(objects[rows[i].object])
                                  < Tenths(objects[rows[j].object]) + Width
    BY DEF NearestFirst, Tenths, Width
  <2>1. i \in Nat /\ j \in Nat /\ i # j
    BY RowTypes DEF ListInv
  <2>2. rows[i].object # rows[j].object
    BY <2>1 DEF ListInv, Faithful
  <2>3. /\ rows[i].object \in 1 .. Len(objects)
        /\ rows[j].object \in 1 .. Len(objects)
    BY RowTypes DEF ListInv
  <2>4. /\ objects[rows[i].object] \in Objects
        /\ objects[rows[j].object] \in Objects
    BY <2>3, ElementOfSeq DEF ListInv
  <2>5. /\ rows[i].data = Tenths(objects[rows[i].object]) \div Width
        /\ rows[j].data = Tenths(objects[rows[j].object]) \div Width
        /\ rows[i].data \in Nat /\ rows[j].data \in Nat
        /\ Tenths(objects[rows[i].object]) \in Nat
        /\ Tenths(objects[rows[j].object]) \in Nat
        /\ Width \in Nat \ {0}
    BY <2>4, ItemDataTypes DEF ListInv, Faithful
  <2>6. ~ torn => rows[i].data <= rows[j].data
    BY <2>5 DEF ListInv, IsSorted, ObjectDistanceCompareFunction
  <2> QED
    BY <2>2, <2>5, <2>6, TenthsInOrder
<1> QED
  BY <1>1, ListInvariant, PTL

(* The configuration holds what the dialog showed at the last DeInit, the  *)
(* limit in nautical miles, whatever was searched for since.               *)
SettingsInv ==
  /\ unit \in Units
  /\ m_scRange \in Int
  /\ left.limit \in Int
  /\ config.limit = RangeLimit(left.limit)
  /\ config.close = left.close

(* With miles as the unit SetRangeLimit converts nothing.                  *)
LEMMA MilesAreMiles ==
  ASSUME unit = NauticalMile, NEW n \in Int
  PROVE  RangeLimit(n) = n
BY DEF RangeLimit, NauticalMile

(* What SetRangeLimit converts to is a number.                             *)
LEMMA LimitIsInt ==
  ASSUME unit \in Units, NEW n \in Int
  PROVE  RangeLimit(n) \in Int
<1>1. unit.per \in Nat \ {0} /\ unit.miles \in Nat \ {0}
  BY RangeAssumption
<1>2. 2 * unit.per \in Nat \ {0} /\ 2 * n * unit.miles + unit.per \in Int
  BY <1>1
<1>3. ASSUME NEW u \in Int, NEW d \in Nat \ {0}
      PROVE  u \div d \in Int
  BY <1>3
<1> QED
  BY <1>2, <1>3 DEF RangeLimit

(* Only DeInit changes the two, and it collects from the dialog first.     *)
LEMMA SettingsInvNext ==
  ASSUME SettingsInv, [Next]_vars
  PROVE  SettingsInv'
<1> USE DEF SettingsInv, rangeVars, controlVars
<1>1. ASSUME UNCHANGED <<unit, config, left>>, m_scRange' \in Int
      PROVE  SettingsInv'
  BY <1>1 DEF RangeLimit
<1>2. CASE UNCHANGED rangeVars
  BY <1>1, <1>2
<1>3. CASE Start
  <2>1. config.limit \in Int /\ MaxLimit \in Int
    BY LimitIsInt, RangeAssumption
  <2>2. Capped(config.limit) \in Int
    BY <2>1 DEF Capped
  <2> QED
    BY <1>1, <1>3, <2>2 DEF Start, LoadSettings
<1>4. CASE DeInit
  <2>1. /\ UNCHANGED <<unit, m_scRange>>
        /\ config' = [limit |-> RangeLimit(m_scRange), close |-> m_cAutoClose]
        /\ left' = [limit |-> m_scRange, close |-> m_cAutoClose]
    BY <1>4 DEF DeInit, SaveAtDeInit, SaveSettings, SaveConfig, Shown
  <2>2. /\ config'.limit = RangeLimit(m_scRange)
        /\ left'.limit = m_scRange
        /\ config'.close = left'.close
    BY <2>1
  <2> QED
    BY <2>1, <2>2 DEF RangeLimit
<1>5. CASE Crash
  BY <1>1, <1>5 DEF Crash, LoseSettings
<1>6. ASSUME NEW e \in Entries, EnterSettings(e)
      PROVE  SettingsInv'
  <2>1. e.limit \in Int
    BY RangeAssumption
  <2> QED
    BY <1>1, <1>6, <2>1 DEF EnterSettings
<1>7. CASE OnSearch
  BY <1>1, <1>7 DEF OnSearch, SaveSettings
<1> QED
  BY <1>2, <1>3, <1>4, <1>5, <1>6, <1>7 DEF vars, Next, NewFeature, NewObject,
     WriterFails, OnToolbarToolCallback, UseControls, OnItemSelected,
     ShowOnChart, Hide, Answer, SelectObjects, ListObject, ListEnds

(* The configuration is in step with the last DeInit in every reachable    *)
(* state.                                                                  *)
THEOREM SettingsInvariant == Spec => []SettingsInv
<1>1. Init => SettingsInv
  <2> SUFFICES ASSUME Init
               PROVE  SettingsInv
    OBVIOUS
  <2>1. /\ unit \in Units
        /\ m_scRange = 0
        /\ config = [limit |-> 0, close |-> TRUE]
        /\ left = config
    BY DEF Init, RangeInit
  <2>2. config.limit = 0 /\ left.limit = 0 /\ config.close = left.close
    BY <2>1
  <2>3. RangeLimit(0) = 0
    <3>1. unit.per \in Nat \ {0} /\ unit.miles \in Nat \ {0}
      BY <2>1, RangeAssumption
    <3>2. 2 * 0 * unit.miles + unit.per = unit.per
      BY <3>1
    <3>3. ASSUME NEW n \in Nat \ {0}
          PROVE  n \div (2 * n) = 0
      BY <3>3, SMTT(30)
    <3> QED
      BY <3>1, <3>2, <3>3 DEF RangeLimit
  <2> QED
    BY <2>1, <2>2, <2>3 DEF SettingsInv
<1> QED
  BY <1>1, SettingsInvNext, PTL DEF Spec

(* A run starts with what the dialog showed at the last DeInit, converted  *)
(* once, after any number of runs, searches, entries and crashes, for any  *)
(* unit of distance.                                                       *)
THEOREM SettingsAreKept == Spec => SettingsSurvive
<1> DEFINE Kept == ~ running /\ running' =>
             /\ m_cAutoClose' = left.close
             /\ m_scRange' = Capped(RangeLimit(left.limit))
<1>1. ASSUME SettingsInv, [Next]_vars
      PROVE  [Kept]_vars
  <2> SUFFICES ASSUME ~ running, running'
               PROVE  /\ m_cAutoClose' = left.close
                      /\ m_scRange' = Capped(RangeLimit(left.limit))
    OBVIOUS
  <2>1. Start
    BY <1>1 DEF Next, vars, rangeVars, DeInit, Crash, SaveAtDeInit,
       SaveSettings, LoseSettings, NewFeature, NewObject, WriterFails,
       OnToolbarToolCallback, UseControls, EnterSettings, ShowOnChart, Hide,
       OnSearch, Answer, SelectObjects, ListObject, ListEnds
  <2> QED
    BY <1>1, <2>1 DEF Start, LoadSettings, SettingsInv
<1> QED
  BY <1>1, SettingsInvariant, PTL DEF Spec, SettingsSurvive

-----------------------------------------------------------------------------
(* How many places there are up to a place                                 *)
Rank(places, i) == Cardinality({j \in places : j <= i})

(* Places have ranks of their own, and every rank up to their number is    *)
(* that of a place.                                                        *)
LEMMA RanksAreUnique ==
  ASSUME NEW n \in Nat, NEW places \in SUBSET (1 .. n)
  PROVE  /\ Cardinality(places) \in Nat
         /\ \A i \in places : Rank(places, i) \in 1 .. Cardinality(places)
         /\ \A i, j \in places : Rank(places, i) = Rank(places, j) => i = j
         /\ \A k \in 1 .. Cardinality(places) :
              \E i \in places : Rank(places, i) = k
<1> DEFINE c == Cardinality(places)
           upTo(i) == {j \in places : j <= i}
<1>1. IsFiniteSet(places) /\ c \in Nat
  <2>1. IsFiniteSet(1 .. n)
    BY FS_Interval
  <2> QED
    BY <2>1, FS_Subset, FS_CardinalityType
<1>2. ASSUME NEW i \in places
      PROVE  /\ IsFiniteSet(upTo(i))
             /\ Cardinality(upTo(i)) \in 1 .. c
  <2>1. /\ IsFiniteSet(upTo(i))
        /\ Cardinality(upTo(i)) <= c
    BY <1>1, FS_Subset
  <2>2. i \in upTo(i)
    OBVIOUS
  <2>3. Cardinality(upTo(i)) \in Nat /\ Cardinality(upTo(i)) # 0
    BY <2>1, <2>2, FS_CardinalityType, FS_EmptySet
  <2> HIDE DEF upTo, c
  <2> QED
    BY <1>1, <2>1, <2>3
<1>3. ASSUME NEW i \in places, NEW j \in places, i < j
      PROVE  Cardinality(upTo(i)) # Cardinality(upTo(j))
  <2>1. upTo(i) \in SUBSET upTo(j)
    <3>1. \A x \in places : x \in Nat
      OBVIOUS
    <3>2. \A x \in places : x <= i => x <= j
      BY <1>3, <3>1
    <3> QED
      BY <3>2
  <2>2. j \in upTo(j) /\ j \notin upTo(i)
    BY <1>3
  <2>3. IsFiniteSet(upTo(j))
    BY <1>2
  <2> HIDE DEF upTo
  <2> QED
    BY <2>1, <2>2, <2>3, FS_Subset
<1>4. \A i, j \in places : Cardinality(upTo(i)) = Cardinality(upTo(j)) => i = j
  <2> SUFFICES ASSUME NEW i \in places, NEW j \in places, i # j
               PROVE  Cardinality(upTo(i)) # Cardinality(upTo(j))
    OBVIOUS
  <2>1. i < j \/ j < i
    OBVIOUS
  <2> HIDE DEF upTo
  <2> QED
    BY <1>3, <2>1
<1>5. \A k \in 1 .. c : \E i \in places : Cardinality(upTo(i)) = k
  <2> DEFINE r == [i \in places |-> Cardinality(upTo(i))]
  <2>1. r \in Injection(places, 1 .. c)
    <3> HIDE DEF c, upTo
    <3> QED
      BY <1>2, <1>4 DEF Injection, IsInjective
  <2>2. IsFiniteSet(1 .. c) /\ Cardinality(1 .. c) = c
    <3>1. c \in Int /\ 1 \in Int /\ (1 > c => c = 0) /\ c - 1 + 1 = c
      BY <1>1
    <3> HIDE DEF c
    <3> QED
      BY <3>1, FS_Interval
  <2>3. r \in Surjection(places, 1 .. c)
    <3> HIDE DEF r
    <3>1. Cardinality(places) = Cardinality(1 .. c)
      BY <2>2
    <3> QED
      BY <2>1, <2>2, <3>1, FS_Injection
  <2> HIDE DEF c, upTo
  <2> QED
    BY <2>3 DEF Surjection
<1> HIDE DEF c
<1> QED
  BY <1>1, <1>2, <1>4, <1>5 DEF Rank, c

(* InOrder takes every place and no other.                                 *)
LEMMA InOrderTakesPlaces ==
  ASSUME NEW list, NEW n \in Nat, NEW places \in SUBSET (1 .. n)
  PROVE  LET taken == InOrder(list, places)
         IN  /\ Cardinality(places) \in Nat
             /\ DOMAIN taken = 1 .. Cardinality(places)
             /\ taken = [k \in 1 .. Cardinality(places) |-> taken[k]]
             /\ \A k \in DOMAIN taken : \E i \in places : taken[k] = list[i]
             /\ \A i \in places : \E k \in DOMAIN taken : taken[k] = list[i]
<1> DEFINE c == Cardinality(places)
           nth(k) == CHOOSE i \in places : Rank(places, i) = k
           taken == InOrder(list, places)
<1>1. taken = [k \in 1 .. c |-> list[nth(k)]]
  BY DEF InOrder, Rank
<1>2. c \in Nat
  BY RanksAreUnique
<1>3. ASSUME NEW k \in 1 .. c
      PROVE  nth(k) \in places /\ Rank(places, nth(k)) = k
  BY RanksAreUnique
<1>4. ASSUME NEW i \in places
      PROVE  \E k \in 1 .. c : nth(k) = i
  <2> DEFINE k == Rank(places, i)
  <2>1. k \in 1 .. c
    BY RanksAreUnique
  <2>2. nth(k) \in places /\ Rank(places, nth(k)) = k
    BY <1>3, <2>1
  <2>3. nth(k) = i
    BY <2>2, RanksAreUnique
  <2> QED
    BY <2>1, <2>3
<1> HIDE DEF c, nth, taken
<1>5. /\ DOMAIN taken = 1 .. c
      /\ taken = [k \in 1 .. c |-> taken[k]]
      /\ \A k \in 1 .. c : taken[k] = list[nth(k)]
  BY <1>1
<1> QED
  BY <1>2, <1>3, <1>4, <1>5 DEF c, taken

(* Of a list without repetition InOrder makes one without.                 *)
LEMMA InOrderKeepsDistinct ==
  ASSUME NEW list, NEW n \in Nat, NEW places \in SUBSET (1 .. n),
         \A i, j \in places : list[i] = list[j] => i = j
  PROVE  LET taken == InOrder(list, places)
         IN  \A k, l \in DOMAIN taken : taken[k] = taken[l] => k = l
<1> DEFINE c == Cardinality(places)
           nth(k) == CHOOSE i \in places : Rank(places, i) = k
           taken == InOrder(list, places)
<1>1. taken = [k \in 1 .. c |-> list[nth(k)]]
  BY DEF InOrder, Rank
<1>2. ASSUME NEW k \in 1 .. c
      PROVE  nth(k) \in places /\ Rank(places, nth(k)) = k
  BY RanksAreUnique
<1> HIDE DEF c, nth, taken
<1>3. ASSUME NEW k \in 1 .. c, NEW l \in 1 .. c, taken[k] = taken[l]
      PROVE  k = l
  <2>1. list[nth(k)] = list[nth(l)]
    BY <1>1, <1>3
  <2>2. nth(k) = nth(l)
    BY <1>2, <2>1
  <2> QED
    BY <1>2, <2>2
<1>4. DOMAIN taken = 1 .. c
  BY <1>1
<1> QED
  BY <1>3, <1>4 DEF taken

-----------------------------------------------------------------------------
(* The items are the words of the values, place by place, and no value is  *)
(* there twice; "All" is checked with all of them.                         *)
PopupInv ==
  /\ m_values \in Seq(Features)
  /\ \A i, j \in DOMAIN m_values : m_values[i] = m_values[j] => i = j
  /\ items = [i \in 1 .. Len(m_values) |-> HumanizeFeatureName(m_values[i])]
  /\ checked \subseteq 0 .. Len(m_values)
  /\ AllMeansAll

(* An empty popup.                                                         *)
LEMMA NewPopupInv ==
  ASSUME NewPopup(items, m_values, checked)
  PROVE  PopupInv
<1>1. items = <<>> /\ m_values = <<>> /\ checked = {}
  BY DEF NewPopup
<1>2. [i \in 1 .. Len(<<>>) |-> HumanizeFeatureName(<<>>[i])] = <<>>
  OBVIOUS
<1> QED
  BY <1>1, <1>2 DEF PopupInv, AllMeansAll

(* How many items there are.                                               *)
LEMMA PopupTypes ==
  ASSUME PopupInv
  PROVE  /\ Len(m_values) \in Nat
         /\ Len(items) = Len(m_values)
         /\ DOMAIN items = 1 .. Len(items)
         /\ \A i \in DOMAIN items :
              /\ m_values[i] \in Features
              /\ items[i] = HumanizeFeatureName(m_values[i])
<1>1. Len(m_values) \in Nat /\ DOMAIN m_values = 1 .. Len(m_values)
  BY DEF PopupInv
<1> DEFINE word == [i \in 1 .. Len(m_values) |-> HumanizeFeatureName(m_values[i])]
<1>2. Len(word) = Len(m_values) /\ DOMAIN word = 1 .. Len(m_values)
  BY <1>1
<1> QED
  BY <1>1, <1>2 DEF PopupInv

(* The toolbar button fills the popup with features of the plugin.         *)
LEMMA PopupInvRefill ==
  ASSUME OnToolbarToolCallback
  PROVE  PopupInv'
<1> DEFINE places == {i \in DOMAIN Order : Order[i] \in m_featuresInDb}
           c == Cardinality(places)
           features == InOrder(Order, places)
<1>1. /\ items' = [i \in DOMAIN features |-> HumanizeFeatureName(features[i])]
      /\ m_values' = features
      /\ checked' = 0 .. Len(features)
  BY DEF OnToolbarToolCallback, Refill, ClearAll
<1>2. Len(Order) \in Nat /\ DOMAIN Order = 1 .. Len(Order)
      /\ \A i \in DOMAIN Order : Order[i] \in Features
  BY SearchAssumption
<1>3. /\ c \in Nat
      /\ DOMAIN features = 1 .. c
      /\ features = [k \in 1 .. c |-> features[k]]
      /\ \A k \in DOMAIN features : \E i \in places : features[k] = Order[i]
  <2>1. places \in SUBSET (1 .. Len(Order))
    BY <1>2
  <2> HIDE DEF places
  <2> QED
    BY <1>2, <2>1, InOrderTakesPlaces
<1>4. \A k \in DOMAIN features : features[k] \in Features
  BY <1>2, <1>3
<1>5. \A k, l \in DOMAIN features : features[k] = features[l] => k = l
  <2>1. /\ places \in SUBSET (1 .. Len(Order))
        /\ \A i, j \in places : Order[i] = Order[j] => i = j
    BY <1>2, SearchAssumption
  <2> HIDE DEF places
  <2> QED
    BY <1>2, <2>1, InOrderKeepsDistinct
<1> HIDE DEF features, c, places
<1>6. features \in Seq(Features) /\ Len(features) = c
  BY <1>3, <1>4
<1>7. Len(items') = c
  BY <1>1, <1>3
<1> QED
  BY <1>1, <1>3, <1>5, <1>6, <1>7 DEF PopupInv, AllMeansAll

(* A check in the popup takes the check of "All" with it.                  *)
LEMMA PopupInvListBox ==
  ASSUME PopupInv, NEW i \in 0 .. Len(items), OnListBox(i)
  PROVE  PopupInv'
<1>1. UNCHANGED <<items, m_values>>
  BY DEF OnListBox
<1>2. checked' \subseteq 0 .. Len(m_values)
  <2>1. i \in 0 .. Len(m_values) /\ Len(items) = Len(m_values)
    BY PopupTypes
  <2> QED
    BY <2>1 DEF OnListBox, AfterAll, AfterItem, PopupInv
<1>3. AllMeansAll'
  <2>1. Len(items) \in Nat
    BY PopupTypes
  <2>2. CASE i = 0
    BY <1>1, <2>1, <2>2 DEF OnListBox, AfterAll, AllMeansAll
  <2>3. CASE i # 0
    BY <2>3 DEF OnListBox, AfterItem, AllMeansAll
  <2> QED
    BY <2>2, <2>3
<1> QED
  BY <1>1, <1>2, <1>3 DEF PopupInv

(* Every step keeps the popup.                                             *)
LEMMA PopupInvNext ==
  ASSUME PopupInv, [Next]_vars
  PROVE  PopupInv'
<1> USE DEF dialogVars, popupVars
<1>1. ASSUME UNCHANGED popupVars
      PROVE  PopupInv'
  BY <1>1 DEF PopupInv, AllMeansAll
<1>2. CASE UNCHANGED vars
  BY <1>1, <1>2 DEF vars
<1>3. CASE Start \/ WriterFails \/ \E f \in Features :
             NewFeature(f) \/ \E d \in Distances : NewObject(f, d)
  BY <1>1, <1>3 DEF Start, WriterFails, NewFeature, NewObject
<1>4. CASE DeInit \/ Crash
  <2>1. NewPopup(items, m_values, checked)'
    BY <1>4 DEF DeInit, Crash, DialogEnds, NewPopup
  <2>2. items' = <<>> /\ m_values' = <<>> /\ checked' = {}
    BY <2>1 DEF NewPopup
  <2> QED
    BY <2>2 DEF PopupInv, AllMeansAll
<1>5. CASE UseControls
  <2>1. CASE UNCHANGED popupVars
    BY <1>1, <2>1
  <2>2. CASE \E i \in 0 .. Len(items) : OnListBox(i)
    BY <2>2, PopupInvListBox
  <2> QED
    BY <1>5, <2>1, <2>2 DEF UseControls, ShowOnChart, Hide
<1>6. CASE OnSearch \/ (\E yes \in BOOLEAN : Answer(yes)) \/ SelectObjects
             \/ ListObject \/ ListEnds
  BY <1>1, <1>6 DEF OnSearch, Answer, SelectObjects, ListObject, ListEnds
<1> QED
  BY <1>2, <1>3, <1>4, <1>5, <1>6, PopupInvRefill DEF Next

(* The popup's three structures stay side by side.                         *)
THEOREM PopupInvariant == Spec => []PopupInv
<1>1. Init => PopupInv
  BY NewPopupInv DEF Init
<1> QED
  BY <1>1, PopupInvNext, PTL DEF Spec

(* "All" is checked only with every item below it, after any sequence of   *)
(* checks and refills.                                                     *)
THEOREM AllIsAll == Spec => []AllMeansAll
<1>1. PopupInv => AllMeansAll
  BY DEF PopupInv
<1> QED
  BY <1>1, PopupInvariant, PTL

(* A code in capitals has words that no other code of its kind has, in     *)
(* whichever table they are found.                                         *)
LEMMA WordsOfOneKind ==
  ASSUME NEW f \in DOMAIN Upper, NEW g \in DOMAIN Upper, f = Upper[g],
         HumanizeFeatureName(f) = HumanizeFeatureName(g)
  PROVE  f = g
<1>1. ASSUME NEW a, NEW b, NEW s, NEW t, Words(a, s) = Words(b, t)
      PROVE  a = b /\ s = t
  BY <1>1 DEF Words
<1>2. Upper[f] = f
  BY NamesAssumption
<1>3. CASE f \in DOMAIN EncWords
  <2>1. Words(f # f, EncWords[f]) = Words(f # g, EncWords[f])
    BY <1>2, <1>3 DEF HumanizeFeatureName, EncFeature
  <2>2. (f # f) = (f # g)
    BY <1>1, <2>1
  <2> QED
    BY <2>2
<1>4. CASE f \notin DOMAIN EncWords
  <2> DEFINE text(code) ==
        IF code \in DOMAIN ExactWords THEN ExactWords[code] ELSE code
  <2>1. /\ HumanizeFeatureName(f) = Words(FALSE, text(f))
        /\ HumanizeFeatureName(g) = Words(FALSE, text(g))
    BY <1>2, <1>4 DEF HumanizeFeatureName, ExactFeature
  <2>2. text(f) = text(g)
    <3> HIDE DEF text
    <3> QED
      BY <1>1, <2>1
  <2>3. f \notin DOMAIN ExactWords
    BY <1>2, NamesAssumption
  <2>4. g \in DOMAIN ExactWords => ExactWords[g] # f
    BY NamesAssumption
  <2> QED
    BY <2>2, <2>3, <2>4
<1> QED
  BY <1>3, <1>4

(* A marine feature and any other of its kind are two items, after any     *)
(* sequence of refills, for any two tables of words of which the second    *)
(* has no code in capitals and gives none the words of its capitals.       *)
THEOREM ItemsAreToldApart == Spec => []ItemsDiffer
<1>1. PopupInv => ItemsDiffer
  <2> SUFFICES ASSUME PopupInv, NEW i \in DOMAIN items, NEW j \in DOMAIN items,
                      m_values[i] = Upper[m_values[j]],
                      items[i] = items[j]
               PROVE  i = j
    BY DEF ItemsDiffer
  <2>1. /\ i \in DOMAIN m_values /\ j \in DOMAIN m_values
        /\ m_values[i] \in DOMAIN Upper /\ m_values[j] \in DOMAIN Upper
        /\ HumanizeFeatureName(m_values[i]) = HumanizeFeatureName(m_values[j])
    BY PopupTypes, SearchAssumption DEF PopupInv
  <2>2. m_values[i] = m_values[j]
    BY <2>1, WordsOfOneKind
  <2> QED
    BY <2>1, <2>2 DEF PopupInv
<1> QED
  BY <1>1, PopupInvariant, PTL

-----------------------------------------------------------------------------
(* While a search runs, its filter has the features of the checked items   *)
(* and no other, its limit is what the dialog shows, and the objects that  *)
(* were counted are there.                                                 *)
FilterInv ==
  dpc # "idle" =>
    /\ running
    /\ \A k \in DOMAIN filter :
         /\ filter[k] \in Features
         /\ HumanizeFeatureName(filter[k]) \in wanted
    /\ \A w \in wanted : \E k \in DOMAIN filter :
         w = HumanizeFeatureName(filter[k])
    /\ unit = NauticalMile => m_iLimitRange = m_scRange
    /\ counted \in 0 .. Len(objects)

(* What GetStringValue makes of the popup.                                 *)
LEMMA FilterOfPopup ==
  ASSUME PopupInv
  PROVE  LET value == GetStringValue
             words == {items[i] : i \in checked \ {0}}
         IN  /\ \A k \in DOMAIN value :
                  /\ value[k] \in Features
                  /\ HumanizeFeatureName(value[k]) \in words
             /\ \A w \in words : \E k \in DOMAIN value :
                  w = HumanizeFeatureName(value[k])
<1> DEFINE places == AllItems \intersect checked
           n == Len(items)
           value == InOrder(m_values, places)
<1>1. /\ n \in Nat
      /\ DOMAIN items = 1 .. n
      /\ \A i \in 1 .. n : /\ m_values[i] \in Features
                           /\ items[i] = HumanizeFeatureName(m_values[i])
  BY PopupTypes
<1>2. places \in SUBSET (1 .. n) /\ checked \ {0} = places
  <2>1. checked \subseteq 0 .. n
    BY PopupTypes DEF PopupInv
  <2>2. \A i \in 0 .. n : i \in 1 .. n <=> i # 0
    BY <1>1
  <2>3. 1 .. n = AllItems /\ 0 \notin 1 .. n
    BY <1>1 DEF AllItems
  <2> HIDE DEF n
  <2> QED
    BY <2>1, <2>2, <2>3
<1>3. GetStringValue = value
  BY DEF GetStringValue
<1> HIDE DEF places, n
<1>4. /\ \A k \in DOMAIN value : \E i \in places : value[k] = m_values[i]
      /\ \A i \in places : \E k \in DOMAIN value : value[k] = m_values[i]
  <2>1. n \in Nat /\ places \in SUBSET (1 .. n)
    BY <1>1, <1>2
  <2> HIDE DEF value
  <2>2. value = InOrder(m_values, places)
    BY DEF value
  <2> QED
    BY <2>1, <2>2, InOrderTakesPlaces
<1>5. \A i \in places : m_values[i] \in Features
                        /\ items[i] = HumanizeFeatureName(m_values[i])
  BY <1>1, <1>2
<1> QED
  <2> DEFINE words == {items[i] : i \in places}
  <2>1. {items[i] : i \in checked \ {0}} = words
    BY <1>2
  <2> HIDE DEF value
  <2>2. \A i \in places : items[i] \in words
    OBVIOUS
  <2>3. ASSUME NEW k \in DOMAIN value
        PROVE  /\ value[k] \in Features
               /\ HumanizeFeatureName(value[k]) \in words
    <3>1. PICK i \in places : value[k] = m_values[i]
      BY <1>4
    <3> QED
      BY <1>5, <2>2, <3>1
  <2>4. ASSUME NEW w \in words
        PROVE  \E k \in DOMAIN value : w = HumanizeFeatureName(value[k])
    <3>1. PICK i \in places : w = items[i]
      OBVIOUS
    <3>2. PICK k \in DOMAIN value : value[k] = m_values[i]
      BY <1>4
    <3> QED
      BY <1>5, <3>1, <3>2
  <2> HIDE DEF words
  <2> QED
    BY <1>3, <2>1, <2>3, <2>4

(* OnSearch takes the filter and the limit from the dialog.                *)
LEMMA FilterInvOnSearch ==
  ASSUME ListInv, PopupInv, SettingsInv, OnSearch
  PROVE  FilterInv'
<1>1. /\ dpc = "idle" /\ running
      /\ UNCHANGED <<m_scRange, unit, running, objects>>
      /\ m_iLimitRange' = RangeLimit(m_scRange)
  BY DEF OnSearch, SaveSettings, controlVars, storeVars
<1>2. CASE UNCHANGED dpc \/ SelectFails
  BY <1>1, <1>2 DEF SelectFails, Returns, FilterInv
<1>3. CASE CountObjects
  <2>1. /\ filter' = GetStringValue
        /\ wanted' = {items[i] : i \in checked \ {0}}
        /\ counted' = Len(objects)
    BY <1>3 DEF CountObjects
  <2>2. Len(objects) \in Nat
    BY DEF ListInv
  <2>3. unit = NauticalMile => m_iLimitRange' = m_scRange
    BY <1>1, MilesAreMiles DEF SettingsInv
  <2>4. /\ \A k \in DOMAIN filter' :
             /\ filter'[k] \in Features
             /\ HumanizeFeatureName(filter'[k]) \in wanted'
        /\ \A w \in wanted' : \E k \in DOMAIN filter' :
             w = HumanizeFeatureName(filter'[k])
    BY <2>1, FilterOfPopup
  <2> QED
    BY <1>1, <2>1, <2>2, <2>3, <2>4 DEF FilterInv
<1> QED
  BY <1>2, <1>3 DEF OnSearch, findVars

(* Nothing but OnSearch touches the filter of a search that runs.          *)
LEMMA FilterInvNext ==
  ASSUME ListInv, PopupInv, SettingsInv, FilterInv, [Next]_vars
  PROVE  FilterInv'
<1> USE DEF rangeVars, controlVars, memberVars, storeVars, findVars
<1>1. ASSUME UNCHANGED <<unit, running, m_scRange, m_iLimitRange, objects>>,
             UNCHANGED <<dpc, filter, wanted, counted>> \/ dpc' = "idle"
      PROVE  FilterInv'
  BY <1>1 DEF FilterInv
<1>2. CASE UNCHANGED vars
  BY <1>1, <1>2 DEF vars
<1>3. CASE WriterFails \/ OnToolbarToolCallback
             \/ \E f \in Features : NewFeature(f)
  BY <1>1, <1>3 DEF WriterFails, OnToolbarToolCallback, NewFeature
<1>4. CASE Start
  <2>1. dpc = "idle" /\ UNCHANGED dpc
    BY <1>4 DEF Start, LoadSettings, FilterInv
  <2> QED
    BY <2>1 DEF FilterInv
<1>5. CASE DeInit \/ Crash
  BY <1>5 DEF DeInit, Crash, SaveAtDeInit, LoseSettings, DialogEnds, Returns,
     FilterInv
<1>6. CASE \E f \in Features, d \in Distances : NewObject(f, d)
  <2>1. /\ UNCHANGED <<unit, running, m_scRange, m_iLimitRange>>
        /\ UNCHANGED <<dpc, filter, wanted, counted>>
    BY <1>6 DEF NewObject
  <2>2. Len(objects) \in Nat /\ Len(objects') = Len(objects) + 1
    BY <1>6 DEF NewObject, ListInv
  <2>3. dpc' # "idle" => counted' \in 0 .. Len(objects')
    BY <2>1, <2>2 DEF FilterInv
  <2> QED
    BY <2>1, <2>3 DEF FilterInv
<1>7. CASE UseControls
  <2>1. dpc = "idle" /\ UNCHANGED dpc
    BY <1>7 DEF UseControls
  <2> QED
    BY <2>1 DEF FilterInv
<1>8. CASE (\E yes \in BOOLEAN : Answer(yes)) \/ SelectObjects
             \/ ListObject \/ ListEnds
  <2>1. UNCHANGED <<unit, running, m_scRange, m_iLimitRange, objects>>
    BY <1>8 DEF Answer, SelectObjects, ListObject, ListEnds
  <2>2. \/ UNCHANGED <<filter, wanted, counted>> /\ dpc # "idle"
        \/ dpc' = "idle"
    BY <1>8 DEF Answer, SelectObjects, SelectFails, ListObject, ListEnds,
       Returns
  <2> QED
    BY <2>1, <2>2 DEF FilterInv
<1> QED
  BY <1>2, <1>3, <1>4, <1>5, <1>6, <1>7, <1>8, FilterInvOnSearch DEF Next

(* The filter of a search that runs is that of the items it was started    *)
(* with.                                                                   *)
THEOREM FilterInvariant == Spec => []FilterInv
<1>1. Init => FilterInv
  BY DEF Init, RangeInit, FilterInv
<1> QED
  BY <1>1, FilterInvNext, ListInvariant, PopupInvariant, SettingsInvariant,
     PTL DEF Spec

-----------------------------------------------------------------------------
(* What is listed was selected, and what was there to be selected is       *)
(* listed or still to come.                                                *)
Found == Selected(filter, m_iLimitRange)
Listed(n) == \E i \in DOMAIN rows : rows[i].object = n
Comes(n) == row # 0 /\ row <= n

ShownInv ==
  dpc = "list" =>
    /\ \A i \in DOMAIN rows : rows[i].object \in Found
    /\ row # 0 => row \in Found
    /\ \A n \in Found : n <= counted => Comes(n) \/ Listed(n)

(* The statement steps to the next object that it selects.                 *)
LEMMA StepToNext ==
  ASSUME ListInv, NEW n \in 0 .. Len(objects)
  PROVE  /\ StepFrom(n) # 0 => StepFrom(n) \in Found
         /\ \A m \in Found : m > n => StepFrom(n) # 0 /\ StepFrom(n) <= m
<1> DEFINE later == {m \in Found : m > n}
<1>1. Len(objects) \in Nat /\ DOMAIN objects = 1 .. Len(objects)
  BY DEF ListInv
<1>2. Found \in SUBSET (1 .. Len(objects))
  BY <1>1 DEF Found, Selected
<1>3. StepFrom(n) = IF later = {} THEN 0
                    ELSE CHOOSE m \in later : \A k \in later : m <= k
  BY DEF StepFrom, Found
<1>4. CASE later = {}
  BY <1>3, <1>4
<1>5. CASE later # {}
  <2>1. later \in SUBSET Nat /\ 0 \notin later
    <3>1. \A m \in Found : m \in Nat /\ m # 0
      BY <1>1, <1>2
    <3> HIDE DEF Found
    <3> QED
      BY <3>1
  <2>2. \E x \in later : \A y \in later : x <= y
    <3> HIDE DEF later
    <3> QED
      BY <2>1, <1>5, LeastNatural
  <2>3. StepFrom(n) \in later /\ \A y \in later : StepFrom(n) <= y
    <3> HIDE DEF later
    <3> QED
      BY <1>3, <1>5, <2>2
  <2> QED
    BY <2>1, <2>3
<1> QED
  BY <1>4, <1>5

(* The second statement begins before the first object.                    *)
LEMMA ShownInvSelectObjects ==
  ASSUME ListInv, SelectObjects
  PROVE  ShownInv'
<1>1. UNCHANGED <<objects, m_iLimitRange, rows>> /\ rows = <<>>
  BY DEF SelectObjects, ListInv, rangeVars, memberVars, dialogVars, listVars,
     storeVars
<1>2. CASE SelectFails
  BY <1>2 DEF SelectFails, Returns, ShownInv
<1>3. CASE row' = StepFrom(0) /\ UNCHANGED filter
  <2>1. Found' = Found
    BY <1>1, <1>3 DEF Found, Selected, Selects
  <2>2. \A n \in Found : n > 0
    BY DEF Found, Selected, ListInv
  <2>3. /\ row' # 0 => row' \in Found
        /\ \A n \in Found : row' # 0 /\ row' <= n
    <3>1. 0 \in 0 .. Len(objects)
      BY DEF ListInv
    <3> QED
      BY <1>3, <2>2, <3>1, StepToNext
  <2>4. \A i \in DOMAIN rows' : rows'[i].object \in Found
    BY <1>1
  <2> QED
    BY <2>1, <2>3, <2>4 DEF ShownInv, Comes
<1> QED
  BY <1>2, <1>3 DEF SelectObjects

(* AddObject lists the object the statement stands on; the next one is     *)
(* behind it.                                                              *)
LEMMA ShownInvListObject ==
  ASSUME ListInv, FilterInv, ShownInv, ListObject
  PROVE  ShownInv'
<1> DEFINE new == [object |-> row, data |-> ItemData(objects[row].dist)]
<1>1. /\ dpc = "list" /\ row \in Found /\ row \in 0 .. Len(objects)
      /\ UNCHANGED <<objects, m_iLimitRange>>
      /\ rows' = Append(rows, new)
  BY DEF ListObject, AddObject, ListInv, ShownInv, rangeVars, memberVars,
     storeVars
<1>2. CASE Returns("exception")
  BY <1>2 DEF Returns, ShownInv
<1>3. CASE row' = StepFrom(row) /\ UNCHANGED <<filter, counted>>
  <2>1. Found' = Found
    BY <1>1, <1>3 DEF Found, Selected, Selects
  <2>2. /\ Len(rows) \in Nat
        /\ DOMAIN rows = 1 .. Len(rows)
        /\ DOMAIN rows' = 1 .. Len(rows) + 1
        /\ \A i \in DOMAIN rows : rows'[i] = rows[i]
        /\ rows'[Len(rows) + 1].object = row
    <3>1. rows \in Seq([object : 1 .. Len(objects), data : Int])
      BY DEF ListInv, Faithful
    <3>2. new.object = row
      OBVIOUS
    <3> HIDE DEF new
    <3> QED
      BY <1>1, <3>1, <3>2
  <2>3. \A i \in DOMAIN rows' : rows'[i].object \in Found
    <3> SUFFICES ASSUME NEW i \in DOMAIN rows'
                 PROVE  rows'[i].object \in Found
      OBVIOUS
    <3>1. i \in DOMAIN rows \/ i = Len(rows) + 1
      BY <2>2
    <3>2. CASE i \in DOMAIN rows
      BY <1>1, <2>2, <3>2 DEF ShownInv
    <3> QED
      BY <1>1, <2>2, <3>1, <3>2
  <2>4. row' # 0 => row' \in Found
    BY <1>1, <1>3, StepToNext
  <2>5. ASSUME NEW n \in Found, n <= counted
        PROVE  Comes(n)' \/ Listed(n)'
    <3>1. CASE Listed(n)
      <4>1. PICK i \in DOMAIN rows : rows[i].object = n
        BY <3>1 DEF Listed
      <4>2. i \in DOMAIN rows' /\ rows'[i].object = n
        BY <2>2, <4>1
      <4> QED
        BY <4>2 DEF Listed
    <3>2. CASE n = row
      BY <2>2, <3>2 DEF Listed
    <3>3. CASE n > row
      BY <1>1, <1>3, <3>3, StepToNext DEF Comes
    <3>4. n \in Nat /\ row \in Nat
      BY <1>1 DEF Found, Selected, ListInv
    <3>5. Comes(n) => n = row \/ n > row
      BY <3>4 DEF Comes
    <3> QED
      BY <1>1, <2>5, <3>1, <3>2, <3>3, <3>5 DEF ShownInv
  <2> QED
    BY <1>3, <2>1, <2>3, <2>4, <2>5 DEF ShownInv
<1> QED
  BY <1>2, <1>3 DEF ListObject

(* An object that DbThread stores is behind those that were counted.       *)
LEMMA ShownInvNewObject ==
  ASSUME ListInv, FilterInv, ShownInv,
         NEW f \in Features, NEW d \in Distances, NewObject(f, d)
  PROVE  ShownInv'
<1> DEFINE o == [feature |-> f, dist |-> d]
<1>1. /\ UNCHANGED <<rows, row, dpc, filter, counted, m_iLimitRange>>
      /\ objects' = Append(objects, o)
  BY DEF NewObject, rangeVars, memberVars, dialogVars, listVars, findVars
<1>2. /\ Len(objects) \in Nat
      /\ DOMAIN objects = 1 .. Len(objects)
      /\ DOMAIN objects' = 1 .. Len(objects) + 1
      /\ \A n \in DOMAIN objects : objects'[n] = objects[n]
  BY <1>1 DEF ListInv, Objects
<1>3. Found \subseteq Found'
  BY <1>1, <1>2 DEF Found, Selected, Selects
<1>4. ASSUME dpc = "list", NEW n \in Found', n <= counted
      PROVE  n \in Found
  <2>1. counted \in 0 .. Len(objects)
    BY <1>4 DEF FilterInv
  <2>2. n \in 1 .. Len(objects) + 1
    BY <1>2 DEF Found, Selected
  <2>3. n \in DOMAIN objects
    BY <1>2, <1>4, <2>1, <2>2
  <2> QED
    BY <1>1, <1>2, <1>4, <2>3 DEF Found, Selected, Selects
<1>5. UNCHANGED <<rows, row, dpc, counted>>
  BY <1>1
<1> QED
  BY <1>3, <1>4, <1>5 DEF ShownInv, Comes, Listed

(* Every step keeps ShownInv.                                              *)
LEMMA ShownInvNext ==
  ASSUME ListInv, FilterInv, ShownInv, [Next]_vars
  PROVE  ShownInv'
<1> USE DEF rangeVars, memberVars, dialogVars, listVars, storeVars, findVars
<1>1. ASSUME UNCHANGED <<objects, rows, row, dpc, filter, counted,
                         m_iLimitRange>>
      PROVE  ShownInv'
  BY <1>1 DEF ShownInv, Found, Selected, Selects, Listed, Comes
<1>2. ASSUME dpc' # "list"
      PROVE  ShownInv'
  BY <1>2 DEF ShownInv
<1>3. CASE UNCHANGED vars
  BY <1>1, <1>3 DEF vars
<1>4. CASE WriterFails \/ OnToolbarToolCallback
             \/ \E f \in Features : NewFeature(f)
  BY <1>1, <1>4 DEF WriterFails, OnToolbarToolCallback, NewFeature
<1>5. CASE Start
  BY <1>2, <1>5 DEF Start, LoadSettings, FilterInv
<1>6. CASE DeInit \/ Crash \/ ListEnds
  BY <1>2, <1>6 DEF DeInit, Crash, DialogEnds, ListEnds, Returns
<1>7. CASE \E f \in Features, d \in Distances : NewObject(f, d)
  BY <1>7, ShownInvNewObject
<1>8. CASE UseControls
  BY <1>2, <1>8 DEF UseControls
<1>9. CASE OnSearch
  BY <1>2, <1>9 DEF OnSearch, CountObjects, SelectFails, Returns
<1>10. CASE \E yes \in BOOLEAN : Answer(yes)
  BY <1>2, <1>10 DEF Answer, Returns
<1> QED
  BY <1>3, <1>4, <1>5, <1>6, <1>7, <1>8, <1>9, <1>10, ShownInvSelectObjects,
     ShownInvListObject DEF Next

(* A listing has what was selected, and what was counted is in it or to    *)
(* come.                                                                   *)
THEOREM ShownInvariant == Spec => []ShownInv
<1>1. Init => ShownInv
  BY DEF Init, ShownInv
<1> QED
  BY <1>1, ShownInvNext, ListInvariant, FilterInvariant, PTL DEF Spec

(* A row stands for an object of a checked item, up to names that are part *)
(* of one another, for any features and any sequence of refills, checks    *)
(* and insertions.                                                         *)
THEOREM ListsWhatWasChecked == Spec => []ShowsOnlyWanted
<1>1. FilterInv /\ ShownInv => ShowsOnlyWanted
  <2> SUFFICES ASSUME FilterInv, ShownInv, dpc = "list", NEW i \in DOMAIN rows
               PROVE  \E f \in Features :
                        /\ HumanizeFeatureName(f) \in wanted
                        /\ <<objects[rows[i].object].feature, f>> \in Part
    BY DEF ShowsOnlyWanted
  <2>1. rows[i].object \in Found
    BY DEF ShownInv
  <2>2. PICK k \in DOMAIN filter :
          <<objects[rows[i].object].feature, filter[k]>> \in Part
    BY <2>1 DEF Found, Selected, Selects
  <2>3. filter[k] \in Features /\ HumanizeFeatureName(filter[k]) \in wanted
    BY DEF FilterInv
  <2> QED
    BY <2>2, <2>3
<1> QED
  BY <1>1, FilterInvariant, ShownInvariant, PTL

(* A listing passes over no object that was counted, has a checked feature *)
(* and is within the range, for any number of objects stored meanwhile.    *)
THEOREM ListsAllThatWasChecked == Spec => []ShowsAllWanted
<1>1. ASSUME ListInv, FilterInv, ShownInv
      PROVE  ShowsAllWanted
  <2> SUFFICES ASSUME dpc = "list", unit = NauticalMile, NEW n \in 1 .. counted,
                      HumanizeFeatureName(objects[n].feature) \in wanted,
                      HasOwnWords(objects[n].feature),
                      Near(objects[n])
               PROVE  Comes(n) \/ Listed(n)
    BY DEF ShowsAllWanted, Comes, Listed
  <2>1. n \in 1 .. Len(objects) /\ n <= counted
    BY <1>1 DEF FilterInv, ListInv
  <2>2. objects[n] \in Objects /\ n \in DOMAIN objects
    BY <1>1, <2>1 DEF ListInv
  <2>3. PICK k \in DOMAIN filter : HumanizeFeatureName(objects[n].feature)
                                     = HumanizeFeatureName(filter[k])
    BY <1>1 DEF FilterInv
  <2>4. filter[k] = objects[n].feature
    BY <1>1, <2>3 DEF FilterInv, HasOwnWords
  <2>5. <<objects[n].feature, filter[k]>> \in Part
    BY <2>2, <2>4, SearchAssumption DEF Objects
  <2>6. m_iLimitRange = 0 \/ objects[n].dist <= m_iLimitRange * Fine
    BY <1>1 DEF FilterInv, Near
  <2>7. n \in Found
    BY <2>2, <2>5, <2>6 DEF Found, Selected, Selects
  <2> QED
    BY <1>1, <2>1, <2>7 DEF ShownInv
<1>2. ListInv /\ FilterInv /\ ShownInv => ShowsAllWanted
  BY <1>1
<1> QED
  BY <1>2, ListInvariant, FilterInvariant, ShownInvariant, PTL
=============================================================================
