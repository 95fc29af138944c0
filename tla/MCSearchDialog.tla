--------------------------- MODULE MCSearchDialog ---------------------------
(***************************************************************************)
(* Three features for SearchDialog: canal banks of marine and of inland    *)
(* charts, and one from a file whose name is part of the inland one's.     *)
(* The units are the nautical mile and the kilometre.                      *)
(***************************************************************************)
EXTENDS SearchDialog

MCOrder == <<"CANBNK", "bnk", "canbnk">>
MCPart == {<<f, f>> : f \in Features} \union {<<"bnk", "canbnk">>}

MCUpper == [f \in Features |-> IF f = "bnk" THEN "BNK" ELSE "CANBNK"]
MCEncWords == [CANBNK |-> "Canal bank"]
MCExactWords == [canbnk |-> "Canal bank"]

MCEntries ==
  {[limit |-> 0, close |-> TRUE], [limit |-> 3, close |-> FALSE]}
MCUnits == {NauticalMile, [miles |-> 1000, per |-> 1852]}
=============================================================================
