-------------------------- MODULE MCObjectPosition --------------------------
(***************************************************************************)
(* A degree of two minutes of two seconds and a world of four degrees per  *)
(* half circle, so that fractions of a degree and of a minute occur;       *)
(* angles up to two turns, and at most two rows of an old version.         *)
(***************************************************************************)
EXTENDS ObjectPosition

MCAngles == {-35, -5, 7, 16, 50}
MCLegacy == [lat : {-9, 8}, lon : {-50, -17, -16, 16, 19, 50}]
MCOldRows == {{}} \union {{o, r} : o, r \in MCLegacy}
=============================================================================
