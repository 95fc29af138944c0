----------------------------- MODULE ImportFile -----------------------------
(***************************************************************************)
(* What the import of a file promises, without characters, quotes or a     *)
(* buffer: the records are taken one by one in the order of the file, each *)
(* that describes an object is reported once and the others not at all,    *)
(* and an import is complete only when no record is left.  It may give up  *)
(* before any of them, and what it has reported by then stays reported.    *)
(* In a last record that is not ended it may see more than there is, and   *)
(* report an object although the record describes none.                    *)
(***************************************************************************)
EXTENDS Naturals, Sequences

CONSTANTS
  IsObject(_), \* a record that describes an object
  ObjectOf(_)  \* the object it describes

VARIABLES
  records,  \* of the file
  ended,    \* the last of them is
  taken,    \* number of records taken from it
  reported, \* objects the plugin was told of
  outcome   \* "open", "complete" or "partial"

ifVars == <<records, ended, taken, reported, outcome>>

IFInit ==
  /\ taken = 0
  /\ reported = <<>>
  /\ outcome = "open"

Take ==
  /\ outcome = "open"
  /\ taken < Len(records)
  /\ taken' = taken + 1
  /\ reported' = IF IsObject(records[taken'])
                 THEN Append(reported, ObjectOf(records[taken']))
                 ELSE reported
  /\ UNCHANGED <<records, ended, outcome>>

TakeUnended ==
  /\ outcome = "open"
  /\ ~ ended
  /\ taken' = taken + 1
  /\ taken' = Len(records)
  /\ ~ IsObject(records[taken'])
  /\ Len(reported') = Len(reported) + 1
  /\ SubSeq(reported', 1, Len(reported)) = reported
  /\ UNCHANGED <<records, ended, outcome>>

Complete ==
  /\ outcome = "open"
  /\ taken = Len(records)
  /\ outcome' = "complete"
  /\ UNCHANGED <<records, ended, taken, reported>>

GiveUp ==
  /\ outcome = "open"
  /\ outcome' = "partial"
  /\ UNCHANGED <<records, ended, taken, reported>>

IFSpec == IFInit /\ [][Take \/ TakeUnended \/ Complete \/ GiveUp]_ifVars
=============================================================================
