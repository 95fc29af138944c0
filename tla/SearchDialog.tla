---------------------------- MODULE SearchDialog ----------------------------
(***************************************************************************)
(* The search dialog: its popup is filled from the features of the plugin  *)
(* whenever the toolbar button is pressed, its settings go to the plugin   *)
(* with every search and at the end of a run, and a search asks the        *)
(* database twice, with a question to the user in between.  All the time   *)
(* DbThread goes on writing, on the connection the search reads with.      *)
(***************************************************************************)
EXTENDS ResultList, FeaturePopup

CONSTANTS
  Order,      \* the features in the order of std::map
  Part,       \* pairs <<f, g>> such that the name of f is part of that of g
  Distances,  \* of objects from the boat
  MaxObjects, \* bound: objects in the database
  Many        \* more objects than this are shown only if the user agrees

Features == {Order[i] : i \in DOMAIN Order}

ASSUME SearchAssumption ==
  /\ Order \in Seq(Features)
  /\ \A i, j \in DOMAIN Order : Order[i] = Order[j] => i = j
  /\ Features \subseteq DOMAIN Upper
  /\ Part \subseteq Features \X Features
  /\ \A f \in Features : <<f, f>> \in Part
  /\ Distances \subseteq Nat
  /\ MaxObjects \in Nat
  /\ Many \in Nat

VARIABLES
  shown,          \* the dialog is on the screen
  m_bDBUsable,    \* no statement has failed in this run
  m_featuresInDb, \* features that have a row
  objects,        \* feature and distance of each stored object
  dpc,            \* "idle", or where FindObjects is
  filter,         \* feature_filter of FindObjects
  row,            \* the object the second statement stands on, 0 at its end
  counted,        \* objects there were when they were counted
  wanted,         \* the items that were checked when Search was pressed
  torn            \* an exception ended the listing

storeVars == <<m_featuresInDb, objects>>
findVars == <<dpc, filter, row, counted, wanted, torn>>
dialogVars == <<popupVars, listVars, shown>>
vars == <<rangeVars, dialogVars, storeVars, m_bDBUsable, findVars>>

(* A dialog as the constructor leaves it *)
NewDialog(list, box, visible) ==
  /\ list = <<>>
  /\ box = FALSE
  /\ visible = FALSE

Init ==
  /\ RangeInit
  /\ NewPopup(items, m_values, checked)
  /\ NewDialog(rows, m_btnShowOnChart, shown)
  /\ m_bDBUsable = TRUE
  /\ m_featuresInDb = {}
  /\ objects = <<>>
  /\ dpc = "idle"
  /\ filter = <<>>
  /\ row = 0
  /\ counted = 0
  /\ wanted = {}
  /\ torn = FALSE

-----------------------------------------------------------------------------
(* FindObjects returns, or is left by an exception. *)
Returns(by) ==
  /\ dpc' = "idle"
  /\ filter' = <<>>
  /\ row' = 0
  /\ counted' = 0
  /\ wanted' = {}
  /\ torn' = (by = "exception")

(* The dialog ends with the run, the next one begins with an empty popup,  *)
(* which the toolbar button fills.                                         *)
DialogEnds ==
  /\ NewPopup(items', m_values', checked')
  /\ NewDialog(rows', m_btnShowOnChart', shown')
  /\ Returns("the end")
  /\ UNCHANGED storeVars

Start ==
  /\ LoadSettings
  /\ m_bDBUsable' = TRUE
  /\ UNCHANGED <<dialogVars, storeVars, findVars>>

DeInit ==
  /\ dpc = "idle"
  /\ SaveAtDeInit
  /\ DialogEnds
  /\ UNCHANGED m_bDBUsable

Crash ==
  /\ LoseSettings
  /\ DialogEnds
  /\ UNCHANGED m_bDBUsable

(* StoreNewFeature adds to the map the popup was filled from. *)
NewFeature(f) ==
  /\ running /\ m_bDBUsable
  /\ f \notin m_featuresInDb
  /\ m_featuresInDb' = m_featuresInDb \union {f}
  /\ UNCHANGED <<rangeVars, dialogVars, objects, m_bDBUsable, findVars>>

(* DbThread stores an object, at any time; a statement of its may fail.    *)
NewObject(f, d) ==
  /\ running
  /\ f \in m_featuresInDb
  /\ Len(objects) < MaxObjects
  /\ objects' = Append(objects, [feature |-> f, dist |-> d])
  /\ UNCHANGED <<rangeVars, dialogVars, m_featuresInDb, m_bDBUsable, findVars>>

WriterFails ==
  /\ running
  /\ m_bDBUsable' = FALSE
  /\ UNCHANGED <<rangeVars, dialogVars, storeVars, findVars>>

OnToolbarToolCallback ==
  /\ running /\ dpc = "idle"
  /\ shown' = TRUE
  /\ Refill(InOrder(Order, {i \in DOMAIN Order : Order[i] \in m_featuresInDb}))
  /\ UNCHANGED <<rangeVars, listVars, storeVars, m_bDBUsable, findVars>>

-----------------------------------------------------------------------------
(* OnClose and the escape key; OnSettings hides the dialog as well. *)
Hide ==
  /\ shown'= FALSE
  /\ UNCHANGED <<popupVars, listVars, rangeVars>>

(* OnShowOnChart and OnLeftDClick jump to the selected row, and do nothing *)
(* without one.                                                            *)
ShowOnChart ==
  /\ rows # <<>>
  /\ m_cAutoClose
  /\ Hide

(* The user does something in the dialog. *)
UseControls ==
  /\ shown /\ dpc = "idle"
  /\ \/ /\ \E i \in 0 .. Len(items) : OnListBox(i)
        /\ UNCHANGED <<rangeVars, listVars, shown>>
     \/ (\E e \in Entries : EnterSettings(e)) /\ UNCHANGED dialogVars
     \/ OnItemSelected /\ UNCHANGED <<rangeVars, popupVars, shown>>
     \/ ShowOnChart \/ Hide
  /\ UNCHANGED <<storeVars, m_bDBUsable, findVars>>

-----------------------------------------------------------------------------
(* instr(filter, featurename) > 0: the filter is ONE string, so a name     *)
(* that is part of a listed name matches too.  A limit of 0 is none.       *)
Selects(o, values, limit) ==
  /\ \E k \in DOMAIN values : <<o.feature, values[k]>> \in Part
  /\ limit = 0 \/ o.dist <= limit * Fine

Selected(values, limit) ==
  {n \in DOMAIN objects : Selects(objects[n], values, limit)}

(* SelectFromDB catches what the database throws, and nothing is found. *)
SelectFails == m_bDBUsable' = FALSE /\ Returns("early")

(* The objects are counted, and the user is asked when there are many. *)
CountObjects ==
  /\ filter' = GetStringValue
  /\ wanted' = {items[i] : i \in checked \ {0}}
  /\ counted' = Len(objects)
  /\ dpc' = IF Cardinality(Selected(filter', m_iLimitRange')) > Many
            THEN "ask" ELSE "select"
  /\ row' = 0
  /\ torn' = FALSE
  /\ UNCHANGED m_bDBUsable

(* OnSearch, with a term to search for, and FindObjects up to its question;*)
(* a message box is all there is when the database is unusable.            *)
OnSearch ==
  /\ shown /\ dpc = "idle"
  /\ SaveSettings
  /\ IF m_bDBUsable
     THEN /\ ClearObjects
          /\ CountObjects \/ SelectFails
     ELSE UNCHANGED <<listVars, findVars, m_bDBUsable>>
  /\ UNCHANGED <<popupVars, storeVars, shown, unit, running, controlVars,
                 config, left>>

(* wxMessageBox *)
Answer(yes) ==
  /\ dpc = "ask"
  /\ IF yes THEN dpc' = "select" /\ UNCHANGED <<filter, row, counted, wanted, torn>>
            ELSE Returns("early")
  /\ UNCHANGED <<rangeVars, dialogVars, storeVars, m_bDBUsable>>

(* sqlite3_step goes to the next row there is, new ones among them. *)
StepFrom(n) ==
  LET later == {m \in Selected(filter, m_iLimitRange) : m > n}
  IN  IF later = {} THEN 0 ELSE CHOOSE m \in later : \A k \in later : m <= k

(* The second statement, which steps to its first row at once *)
SelectObjects ==
  /\ dpc = "select"
  /\ \/ /\ m_bDBUsable
        /\ dpc' = "list"
        /\ row' = StepFrom(0)
        /\ UNCHANGED <<filter, counted, wanted, torn, m_bDBUsable>>
     \/ SelectFails
  /\ UNCHANGED <<rangeVars, dialogVars, storeVars>>

(* AddObject, then NextRow, which throws in a handler that does not catch: *)
(* on some systems the process ends, on others the user may go on.         *)
ListObject ==
  /\ dpc = "list" /\ row # 0
  /\ AddObject(row, objects[row].dist)
  /\ \/ row' = StepFrom(row) /\ UNCHANGED <<dpc, filter, counted, wanted, torn>>
     \/ Returns("exception")
  /\ UNCHANGED <<rangeVars, popupVars, shown, storeVars, m_bDBUsable>>

ListEnds ==
  /\ dpc = "list" /\ row = 0
  /\ SortResults
  /\ Returns("the end")
  /\ UNCHANGED <<rangeVars, popupVars, shown, storeVars, m_bDBUsable>>

Next ==
  \/ Start \/ DeInit \/ Crash
  \/ \E f \in Features : NewFeature(f) \/ \E d \in Distances : NewObject(f, d)
  \/ WriterFails
  \/ OnToolbarToolCallback \/ UseControls
  \/ OnSearch
  \/ \E yes \in BOOLEAN : Answer(yes)
  \/ SelectObjects \/ ListObject \/ ListEnds

Spec == Init /\ [][Next]_vars

-----------------------------------------------------------------------------
(* "All" is checked only while every feature below it is: OnListBox takes  *)
(* the check away with the first item the user touches.                    *)
AllMeansAll == 0 \in checked => 1 .. Len(items) \subseteq checked

(* A marine feature, whose code is in capitals, and an inland one of the   *)
(* same kind are two items the user can tell apart, and no marine feature  *)
(* is there twice.  Other features are not always told apart: T_TIMS has   *)
(* the words of TS_TIS, and two codes of a file that differ only in        *)
(* capitals are one kind of inland feature.                                *)
ItemsDiffer ==
  \A i, j \in DOMAIN items :
    m_values[i] = Upper[m_values[j]] /\ items[i] = items[j] => i = j

(* What a search lists belongs to an item that was checked, up to names    *)
(* that are part of one another: items and m_values stay side by side over *)
(* every refill of the popup, and no row is left of an earlier list.       *)
ShowsOnlyWanted ==
  dpc = "list" =>
    \A i \in DOMAIN rows :
      \E f \in Features : /\ HumanizeFeatureName(f) \in wanted
                         /\ <<objects[rows[i].object].feature, f>> \in Part

NauticalMile == [miles |-> 1, per |-> 1]
Near(o) == m_scRange = 0 \/ o.dist <= m_scRange * Fine

(* With nautical miles as the unit, a listing passes over no object that   *)
(* was there when the objects were counted, has a checked feature, with    *)
(* words no other feature has, and is within the range that the dialog     *)
(* shows, whatever DbThread stores while the user is asked and while the   *)
(* rows are read.                                                          *)
HasOwnWords(f) ==
  \A g \in Features : HumanizeFeatureName(g) = HumanizeFeatureName(f) => g = f

ShowsAllWanted ==
  dpc = "list" /\ unit = NauticalMile =>
    \A n \in 1 .. counted :
      /\ HumanizeFeatureName(objects[n].feature) \in wanted
      /\ HasOwnWords(objects[n].feature)
      /\ Near(objects[n])
      => (row # 0 /\ row <= n) \/ \E i \in DOMAIN rows : rows[i].object = n

(* A list names an object once, and unless it was torn by an exception it  *)
(* is in the order of distance, up to a tenth of the user's unit.          *)
NearestFirst ==
  dpc = "idle" =>
    \A i, j \in DOMAIN rows :
      LET Tenths(k) == 10 * objects[rows[k].object].dist * unit.per
      IN  i < j => /\ rows[i].object # rows[j].object
                   /\ torn \/ Tenths(i) < Tenths(j) + unit.miles * Fine

(* "Show on Chart" is enabled only while there is a row to show. *)
ButtonHasRow == m_btnShowOnChart => rows # <<>>

(* What a run starts with is what the dialog showed at the last DeInit,    *)
(* however many searches saved it before, and whatever was searched for in *)
(* runs that crashed since: the box as it was, the limit converted to      *)
(* nautical miles exactly once, which in that unit leaves it as it was.    *)
SettingsSurvive ==
  [][~ running /\ running' =>
       /\ m_cAutoClose' = left.close
       /\ m_scRange' = Capped(RangeLimit(left.limit))]_vars
=============================================================================
