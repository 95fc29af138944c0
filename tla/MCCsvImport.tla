---------------------------- MODULE MCCsvImport -----------------------------
(***************************************************************************)
(* Small files: every string of a few characters, whatever it may mean;    *)
(* every record of up to two short fields, in pairs where the buffer is    *)
(* used twice, and records an import accepts or rejects, rendered by the   *)
(* rules in csv_parser.h, with quotes where they are needed or everywhere, *)
(* with or without blanks behind the quotes.                               *)
(***************************************************************************)
EXTENDS CsvImport, SequencesExt

CONSTANTS
  x,   \* any character
  far, \* one that begins a number that is off the map
  bad, \* a byte that is not UTF-8
  MaxString \* bound on the length of the strings

FieldsOver(set, n) == UNION {[1 .. k -> set] : k \in 0 .. n}
RecordsOver(set, n, columns) ==
  UNION {[1 .. c -> FieldsOver(set, n)] : c \in 1 .. columns}

Doubled(field) ==
  FlattenSeq([i \in DOMAIN field |->
    IF field[i] = QUOTE THEN <<QUOTE, QUOTE>> ELSE <<field[i]>>])

Render(field, all, blanks) ==
  IF all \/ \E i \in DOMAIN field : field[i] \in {COMMA, QUOTE, LF}
  THEN <<QUOTE>> \o Doubled(field) \o <<QUOTE>> \o blanks
  ELSE field

RenderRecord(record, all, blanks) ==
  FlattenSeq([i \in DOMAIN record |->
    IF i = 1 THEN Render(record[i], all, blanks)
             ELSE <<COMMA>> \o Render(record[i], all, blanks)])

Reading(chars) ==
  FoldLeft(LAMBDA places, char :
             Append(places, PlaceAfter(places[Len(places)], char)),
           <<BeginningOf(1)>>, chars)

FileOf(chars, records) ==
  [chars |-> chars, records |-> records, places |-> Reading(chars)]

Rendered(records, ends) ==
  UNION {{FileOf(FlattenSeq([i \in DOMAIN r |->
                   RenderRecord(r[i], all, blanks)
                     \o (IF i < Len(r) THEN <<LF>> ELSE end)]),
                 r)
          : r \in records}
        : all \in BOOLEAN, blanks \in {<<>>, <<BLANK>>}, end \in ends}

Characters == {x, COMMA, QUOTE, LF}

(* What is read at the places of a string: its records, and the fields and *)
(* the field of the one that is not ended yet.                             *)
ReadOn(sofar, char) ==
  LET field == IF IsContent(sofar.at, char) THEN Append(sofar.field, char)
               ELSE sofar.field
      fields == Append(sofar.fields, field)
      next == [sofar EXCEPT !.at = PlaceAfter(@, char)]
  IN  IF ~ Separates(sofar.at, char) THEN [next EXCEPT !.field = field]
      ELSE IF char = COMMA
      THEN [next EXCEPT !.field = <<>>, !.fields = fields]
      ELSE [next EXCEPT !.field = <<>>, !.fields = <<>>,
                        !.records = Append(@, fields)]

RecordsOf(chars) ==
  LET whole == FoldLeft(ReadOn,
                        [at |-> BeginningOf(1), records |-> <<>>,
                         fields |-> <<>>, field |-> <<>>], chars)
  IN  IF EndsInRecord(whole.at)
      THEN Append(whole.records, Append(whole.fields, whole.field))
      ELSE whole.records

Strings(n) ==
  {FileOf(chars, RecordsOf(chars))
    : chars \in FieldsOver({x, COMMA, QUOTE, LF, BLANK}, n)}

(* A record, then a line that goes on behind a closing quote.              *)
IllFormed ==
  {FileOf(RenderRecord(r, FALSE, <<>>) \o <<LF, QUOTE, x, QUOTE, x, LF>>,
          <<r>>)
    : r \in RecordsOver({x, QUOTE}, 1, 1)}

(* Records with what an import needs, missing or off the map in places,    *)
(* one alone or one before an acceptable one.                              *)
FullRecord == <<<<x>>, <<x>>, <<QUOTE>>, <<x>>, <<far>>>>
Importable ==
  UNION {{SubSeq(Append(r, <<far>>), 1, columns) : columns \in 4 .. 6}
         : r \in {<<lat, lon, name, feature, source>>
                  : lat, lon \in {<<x>>, <<far>>},
                    name \in {<<>>, <<QUOTE>>, <<LF>>, <<bad>>},
                    feature, source \in {<<>>, <<x>>}}}
Imports == Rendered({<<r, FullRecord>> : r \in Importable}, {<<LF>>})
UnendedImports ==
  Rendered({<<SubSeq(FullRecord, 1, columns)>> : columns \in 4 .. 5}, {<<>>})

(* One field more than there is room for *)
TooManyColumns == Rendered({<<[i \in 1 .. MaxColumns + 1 |-> <<>>]>>}, {<<LF>>})

MCBeyond == {<<far>>}
MCIllEncoded == {<<bad>>}
MCStale == {<<>>, <<<<x>>>>}

(* Any string; one record of two fields of two characters, ended or not;   *)
(* two records of one; files an import takes.                              *)
MCInputs ==
  Strings(MaxString)
    \union Rendered({<<r>> : r \in RecordsOver(Characters, 2, 2)}, {<<LF>>})
    \union Rendered({<<r, s>> : r \in RecordsOver({x, QUOTE, LF}, 1, 2),
                             s \in RecordsOver({x, COMMA, QUOTE}, 2, 1)},
                  {<<LF>>})
    \union Rendered({<<r>> : r \in RecordsOver({x, QUOTE}, 2, 2) \ {<<<<>>>>}},
                  {<<>>})
    \union IllFormed
    \union Imports
    \union UnendedImports
    \union TooManyColumns

(* Records of one field, which may hold a line break. *)
LineBreakInputs ==
  Rendered({<<r>> : r \in RecordsOver({x, LF}, 1, 1)}, {<<LF>>})
=============================================================================
