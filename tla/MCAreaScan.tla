----------------------------- MODULE MCAreaScan -----------------------------
(***************************************************************************)
(* Small instances of AreaScan for TLC: three scales, whose views span 1,  *)
(* 2 and 4 units.                                                          *)
(***************************************************************************)
EXTENDS AreaScan

MCScales == <<4, 2, 1>>
MCLats == {-1, 0, 3}
MCLons == {-2, 0, 1}

(* A unit of 30 degrees, and areas up to the whole globe. *)
GlobeLats == {0}
GlobeLons == {-6, -4, -1, 0, 2, 4, 6}
=============================================================================
