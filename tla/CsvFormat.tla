------------------------------ MODULE CsvFormat ------------------------------
(***************************************************************************)
(* What csv_parser.h says of a file: fields that contain commas, quotes or *)
(* line breaks are quoted, a quote within a field is doubled, blanks after *)
(* a quoted field may be there, and a line break within a field is kept.   *)
(* It does not say what a quote is in a field that does not begin with it: *)
(* here, as in the parser, it begins a quoted part of the field.           *)
(* A file comes with its reading: the place a reader has reached before    *)
(* each of its characters, in which record, in which column and behind how *)
(* many characters of the field.  Each place follows from the one before   *)
(* it by a rule for one character, and the records of the file are what is *)
(* read at its places.  A quoted field that goes on behind its closing     *)
(* quote breaks the reading off: what follows has no meaning.  Any file    *)
(* without a NUL has exactly one reading.                                  *)
(***************************************************************************)
EXTENDS Integers, Sequences

CONSTANTS
  Text,    \* characters without a meaning of their own
  NUL, LF, COMMA, QUOTE, BLANK

Chars == Text \union {LF, COMMA, QUOTE, BLANK}

ASSUME CharsAssumption ==
  /\ {NUL} \intersect Chars = {}
  /\ {LF, COMMA, QUOTE, BLANK} \intersect Text = {}
  /\ LF \notin {COMMA, QUOTE, BLANK}
  /\ COMMA \notin {QUOTE, BLANK}
  /\ QUOTE # BLANK

Records == Seq(Seq(Seq(Chars)))

(* mode: in a field without quotes, within quotes, behind a quote that may *)
(* be the first of two, behind blanks after the field, or nowhere.         *)
Places ==
  [record : Nat, column : Nat, length : Nat,
   mode : {"plain", "quoted", "quote", "after", "broken"}]

Files == [chars : Seq(Chars), records : Records, places : Seq(Places)]

-----------------------------------------------------------------------------
BeginningOf(record) ==
  [record |-> record, column |-> 1, length |-> 0, mode |-> "plain"]

(* The character is one of the field's. *)
IsContent(at, char) ==
  \/ at.mode = "plain" /\ char \notin {COMMA, QUOTE, LF}
  \/ at.mode = "quoted" /\ char # QUOTE
  \/ at.mode = "quote" /\ char = QUOTE

(* The character ends the field. *)
Separates(at, char) ==
  at.mode \in {"plain", "quote", "after"} /\ char \in {COMMA, LF}

Opens(at, char) == at.mode = "plain" /\ char = QUOTE
Closes(at, char) == at.mode = "quoted" /\ char = QUOTE
Trails(at, char) == at.mode \in {"quote", "after"} /\ char = BLANK

PlaceAfter(at, char) ==
  CASE IsContent(at, char) ->
         [at EXCEPT !.length = @ + 1,
                    !.mode = IF @ = "plain" THEN "plain" ELSE "quoted"]
    [] Separates(at, char) /\ char = COMMA ->
         [at EXCEPT !.column = @ + 1, !.length = 0, !.mode = "plain"]
    [] Separates(at, char) /\ char = LF -> BeginningOf(at.record + 1)
    [] Opens(at, char) -> [at EXCEPT !.mode = "quoted"]
    [] Closes(at, char) -> [at EXCEPT !.mode = "quote"]
    [] Trails(at, char) -> [at EXCEPT !.mode = "after"]
    [] OTHER -> [at EXCEPT !.mode = "broken"]

(* What the character at a place says of the records. *)
FieldAt(records, at) == records[at.record][at.column]

IsLastOf(records, at) == at.length = Len(FieldAt(records, at))

Means(records, at, char) ==
  /\ at.record <= Len(records) =>
       /\ at.column <= Len(records[at.record])
       /\ IsContent(at, char) =>
            /\ at.length < Len(FieldAt(records, at))
            /\ FieldAt(records, at)[at.length + 1] = char
       /\ Separates(at, char) => IsLastOf(records, at)
       /\ Separates(at, char) /\ char = COMMA =>
            at.column < Len(records[at.record])
  /\ Separates(at, char) /\ char = LF =>
       /\ at.record <= Len(records)
       /\ at.column = Len(records[at.record])

(* A file that ends in a line without a newline has this line as its last  *)
(* record, unless it is broken or ends within quotes.                      *)
EndsInRecord(at) ==
  at # BeginningOf(at.record) /\ at.mode \in {"plain", "quote", "after"}

EndsWell(records, at) ==
  IF EndsInRecord(at)
  THEN /\ at.record = Len(records)
       /\ at.column = Len(records[at.record])
       /\ IsLastOf(records, at)
  ELSE at.record = Len(records) + 1

(* The reading is one of the file's characters, and it gives its records.  *)
IsReading(file) ==
  LET n == Len(file.chars)
  IN  /\ Len(file.places) = n + 1
      /\ file.places[1] = BeginningOf(1)
      /\ \A i \in 1 .. n :
           /\ file.places[i + 1] = PlaceAfter(file.places[i], file.chars[i])
           /\ Means(file.records, file.places[i], file.chars[i])
           /\ file.places[i].mode = "broken" =>
                file.places[i].record > Len(file.records)
      /\ EndsWell(file.records, file.places[n + 1])
=============================================================================
