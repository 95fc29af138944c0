---------------------------- MODULE MCObjSearch ----------------------------
(***************************************************************************)
(* Small instances of ObjSearch for TLC.                                   *)
(***************************************************************************)
EXTENDS ObjSearch, TLC

CONSTANTS a, b, A, B, LIGHTS, WRECKS

(* Two charts with names of their own. *)
TwoCharts == a :> A @@ b :> B

(* Two charts of the same name in two directories. *)
SameName == a :> A @@ b :> A
=============================================================================
