---------------------------- MODULE FeatureNames ----------------------------
(***************************************************************************)
(* The words the dialog shows for the code of a feature.  The code of an   *)
(* inland feature is in small letters, most of them those of a marine one; *)
(* a code from a file of the user's may have letters of both kinds.        *)
(***************************************************************************)
CONSTANTS
  Upper,     \* wxString::Upper, on the codes of interest
  EncWords,  \* the words of the codes in capitals
  ExactWords \* the words of codes that only inland and CM93 charts have

(* The codes of the second table are not in capitals, and no words of it   *)
(* are the capitals of their own code.                                     *)
ASSUME NamesAssumption ==
  /\ \A f \in DOMAIN Upper :
       Upper[f] \in DOMAIN Upper => Upper[Upper[f]] = Upper[f]
  /\ \A f \in DOMAIN Upper \intersect DOMAIN ExactWords :
       Upper[f] \notin {f, ExactWords[f]}

Words(inland, text) == [inland |-> inland, text |-> text]

EncFeature(code) ==
  Words(Upper[code] # code, EncWords[Upper[code]])

ExactFeature(code) == Words(FALSE, ExactWords[code])

(* The first table is asked for the code in capitals, the second for the   *)
(* code itself; an unknown code is shown as it is.                         *)
ExactFirst(code) ==
  IF code \in DOMAIN ExactWords THEN ExactFeature(code)
  ELSE IF Upper[code] \in DOMAIN EncWords THEN EncFeature(code)
  ELSE Words(FALSE, code)

HumanizeFeatureName(code) ==
  IF Upper[code] \in DOMAIN EncWords THEN EncFeature(code)
  ELSE IF code \in DOMAIN ExactWords THEN ExactFeature(code)
  ELSE Words(FALSE, code)
=============================================================================
