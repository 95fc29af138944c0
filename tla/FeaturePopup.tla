---------------------------- MODULE FeaturePopup ----------------------------
(***************************************************************************)
(* CheckListComboPopup: the features to search for, in a list box whose    *)
(* first item is "All".  The items, in words, and the values they stand    *)
(* for are two lists; the value of item i is m_values[i - 1] in the code   *)
(* and m_values[i] here.                                                   *)
(***************************************************************************)
EXTENDS FeatureNames, Integers, Sequences, FiniteSets

VARIABLES
  items,    \* words in the popup, below the item "All"
  m_values, \* CheckListComboPopup::m_values
  checked   \* numbers of the items that are checked, 0 is "All"

popupVars == <<items, m_values, checked>>

NewPopup(f, v, c) == f = <<>> /\ v = <<>> /\ c = {}

ClearItemsOnly(values) == m_values' = m_values \o values
ClearAll(values) == m_values' = values

(* ClearFeatures, then AddFeature for each; every item is checked as it is *)
(* added.                                                                  *)
Refill(features) ==
  /\ items' = [i \in DOMAIN features |-> HumanizeFeatureName(features[i])]
  /\ ClearAll(features)
  /\ checked' = 0 .. Len(features)

AfterAll(is) == IF is THEN 0 .. Len(items) ELSE {}
AfterOne(i, is) == IF is THEN checked \union {i} ELSE checked \ {i}
AfterItem(i, is) ==
  IF is THEN (checked \union {i}) \ {0} ELSE checked \ {0, i}

(* The user checks or unchecks an item, and the handler follows. *)
OnListBox(i) ==
  /\ i \in 0 .. Len(items)
  /\ checked' = IF i = 0 THEN AfterAll(0 \notin checked)
                         ELSE AfterItem(i, i \notin checked)
  /\ UNCHANGED <<items, m_values>>

(* The members of a list at some of its places, in the order of the list. *)
InOrder(list, places) ==
  LET Nth(k) == CHOOSE i \in places : Cardinality({j \in places : j <= i}) = k
  IN  [k \in 1 .. Cardinality(places) |-> list[Nth(k)]]

(* The values of the checked items *)
WithoutLast == 1 .. Len(items) - 1
AllItems == 1 .. Len(items)
GetStringValue == InOrder(m_values, AllItems \intersect checked)
=============================================================================
