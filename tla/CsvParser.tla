----------------------------- MODULE CsvParser ------------------------------
(***************************************************************************)
(* csv_parser.cpp: a file is read line by line into ONE buffer, which is   *)
(* cut into fields in place.  A quoted field is compacted inside the       *)
(* buffer: p writes where the quotes and the doubled quotes are left out,  *)
(* while q reads ahead of it.                                              *)
(***************************************************************************)
EXTENDS CsvFormat

CONSTANTS
  Inputs,    \* files with the reading that gives them their meaning
  Stale,     \* fields that the bytes behind a line may hold: never written,
             \* or left there by what the stack held before
  MaxLine,   \* MAX_LINE_LEN
  MaxColumns \* MAX_COLUMN_COUNT

ASSUME InputsAssumption ==
  /\ Inputs \subseteq Files
  /\ \A file \in Inputs : IsReading(file)
  /\ Stale \subseteq Seq(Seq(Chars))
  /\ MaxLine \in Nat
  /\ MaxLine >= 2
  /\ MaxColumns \in Nat \ {0}

VARIABLES
  input,     \* the file that is imported
  fp,        \* characters of it that fgets has returned
  cpc,       \* where csv_parse and the functions it calls are
  buff,      \* the buffer, 0 .. MAX_LINE_LEN - 1
  line,      \* number of characters fgets put into it
  b,         \* buff of csv_parse_line
  p, q,      \* locals of csv_process_quoted_string
  column_values, \* where the fields start
  delivered, \* the records the callback has received
  rc         \* what csv_parse returns

vars == <<input, fp, cpc, buff, line, b, p, q, column_values, delivered, rc>>

Init ==
  /\ input \in Inputs
  /\ fp = 0
  /\ cpc = "read"
  /\ buff = [i \in 0 .. MaxLine - 1 |-> NUL]
  /\ line = 0
  /\ b = 0
  /\ p = 0
  /\ q = 0
  /\ column_values = <<>>
  /\ delivered = <<>>
  /\ rc = "none"

-----------------------------------------------------------------------------
Return(code) ==
  /\ cpc' = "done"
  /\ rc' = code

(* fgets reads up to and including a newline, and leaves room for the NUL. *)
WholeBuffer == MaxLine
Room == MaxLine - 1

LineEnds(n) ==
  \/ fp + n = Len(input.chars)
  \/ n = Room
  \/ n > 0 /\ input.chars[fp + n] = LF

EndOfFile ==
  /\ cpc = "read"
  /\ fp = Len(input.chars)
  /\ Return("ok")
  /\ UNCHANGED <<input, fp, buff, line, b, p, q, column_values, delivered>>

(* A buffer that is full and does not end with a newline is too wide.      *)
Full(text, n) == n = Room
TooWide(text, n) == n = Room /\ text[n - 1] # LF

ReadLine ==
  /\ cpc = "read"
  /\ \E n \in 1 .. Room :
       /\ fp + n <= Len(input.chars)
       /\ LineEnds(n)
       /\ \A k \in 1 .. n - 1 : ~ LineEnds(k)
       /\ fp' = fp + n
       /\ line' = n
       /\ buff' = [i \in 0 .. MaxLine - 1 |->
                     IF i < n THEN input.chars[fp + i + 1]
                     ELSE IF i = n THEN NUL ELSE buff[i]]
       /\ IF TooWide(buff', n)
          THEN Return("E_LINE_TOO_WIDE")
          ELSE cpc' = "scan" /\ UNCHANGED rc
  /\ b' = 0
  /\ p' = 0
  /\ q' = 0
  /\ column_values' = <<0>>
  /\ UNCHANGED <<input, delivered>>

(* A field ends at its NUL. *)
Field(text, start) ==
  LET n == CHOOSE i \in start .. MaxLine :
             /\ i = MaxLine \/ text[i] = NUL
             /\ \A k \in start .. i - 1 : text[k] # NUL
  IN  [i \in 1 .. n - start |-> text[start + i - 1]]

Comma ==
  /\ cpc = "scan"
  /\ buff[b] = COMMA
  /\ Len(column_values) < MaxColumns
  /\ buff' = [buff EXCEPT ![b] = NUL]
  /\ column_values' = Append(column_values, b + 1)
  /\ b' = b + 1
  /\ UNCHANGED <<input, fp, cpc, line, p, q, delivered, rc>>

OpenQuote ==
  /\ cpc = "scan"
  /\ buff[b] = QUOTE
  /\ cpc' = "quoted"
  /\ p' = b
  /\ q' = b + 1
  /\ UNCHANGED <<input, fp, buff, line, b, column_values, delivered, rc>>

OtherCharacter ==
  /\ cpc = "scan"
  /\ buff[b] \notin {COMMA, QUOTE, LF, NUL}
  /\ b' = b + 1
  /\ UNCHANGED <<input, fp, cpc, buff, line, p, q, column_values, delivered,
                 rc>>

(* The last line of a file may have no newline: the loop goes on over what *)
(* is behind the NUL.  Nobody has put a newline there during this parse,   *)
(* since the end of a record writes a NUL over it; but the rest of the     *)
(* buffer may hold anything.  The loop may find a newline, and fields      *)
(* before it; or a quote that is not closed well; or the end of the buffer.*)
(* And nothing compares the number of fields with the room for them.       *)
PastTheLine == buff[b] = NUL
PastTheColumns == buff[b] = COMMA /\ Len(column_values) >= MaxColumns

(* What the callback gets. *)
FieldsOf(text) ==
  [i \in DOMAIN column_values |-> Field(text, column_values[i])]

(* What the loop has written behind the line is not read again: fgets has  *)
(* nothing left to read.                                                   *)
StaleNewline ==
  /\ cpc = "scan"
  /\ PastTheLine
  /\ \E extra \in Stale :
       /\ Len(column_values) + Len(extra) <= MaxColumns
       /\ delivered' = Append(delivered, FieldsOf(buff) \o extra)
  /\ cpc' = "read"
  /\ UNCHANGED <<input, fp, buff, line, b, p, q, column_values, rc>>

StaleQuote ==
  /\ cpc = "scan"
  /\ PastTheLine
  /\ Return("E_QUOTED_STRING")
  /\ UNCHANGED <<input, fp, buff, line, b, p, q, column_values, delivered>>

(* The end of the buffer, or of column_values: what follows is undefined.  *)
GoesAstray ==
  /\ cpc = "scan"
  /\ PastTheLine \/ PastTheColumns
  /\ cpc' = "astray"
  /\ UNCHANGED <<input, fp, buff, line, b, p, q, column_values, delivered, rc>>

(* The callback gets the fields; ProcessCsvLine always returns 0.          *)
EndOfRecord ==
  /\ cpc = "scan"
  /\ buff[b] = LF
  /\ buff' = [buff EXCEPT ![b] = NUL]
  /\ delivered' = Append(delivered, FieldsOf(buff'))
  /\ cpc' = "read"
  /\ UNCHANGED <<input, fp, line, b, p, q, column_values, rc>>

-----------------------------------------------------------------------------
(* csv_process_quoted_string *)
QuoteUnterminated ==
  /\ cpc = "quoted"
  /\ buff[q] = NUL
  /\ Return("E_QUOTED_STRING")
  /\ UNCHANGED <<input, fp, buff, line, b, p, q, column_values, delivered>>

CopyOne == q' = q + 1
SkipQuote == q' = q + 2

DoubledQuote ==
  /\ cpc = "quoted"
  /\ buff[q] = QUOTE
  /\ buff[q + 1] = QUOTE
  /\ buff' = [buff EXCEPT ![p] = QUOTE]
  /\ p' = p + 1
  /\ SkipQuote
  /\ UNCHANGED <<input, fp, cpc, line, b, column_values, delivered, rc>>

QuotedCharacter ==
  /\ cpc = "quoted"
  /\ buff[q] \notin {QUOTE, NUL}
  /\ buff' = [buff EXCEPT ![p] = buff[q]]
  /\ p' = p + 1
  /\ q' = q + 1
  /\ UNCHANGED <<input, fp, cpc, line, b, column_values, delivered, rc>>

TerminateAtReader == buff' = [buff EXCEPT ![q + 1] = NUL]
Terminate == buff' = [buff EXCEPT ![p] = NUL]

CloseQuote ==
  /\ cpc = "quoted"
  /\ buff[q] = QUOTE
  /\ buff[q + 1] # QUOTE
  /\ Terminate
  /\ q' = q + 1
  /\ cpc' = "afterQuote"
  /\ UNCHANGED <<input, fp, line, b, p, column_values, delivered, rc>>

StuckAtBlank ==
  /\ cpc = "afterQuote"
  /\ buff[q] = BLANK
  /\ UNCHANGED vars

SkipBlank ==
  /\ cpc = "afterQuote"
  /\ buff[q] = BLANK
  /\ q' = q + 1
  /\ UNCHANGED <<input, fp, cpc, buff, line, b, p, column_values, delivered,
                 rc>>

BehindSeparator == b' = q + 1
AtSeparator == b' = q

BackToLine ==
  /\ cpc = "afterQuote"
  /\ buff[q] \in {COMMA, LF, NUL}
  /\ AtSeparator
  /\ cpc' = "scan"
  /\ UNCHANGED <<input, fp, buff, line, p, q, column_values, delivered, rc>>

QuoteIllFormatted ==
  /\ cpc = "afterQuote"
  /\ buff[q] \notin {COMMA, LF, NUL, BLANK}
  /\ Return("E_QUOTED_STRING")
  /\ UNCHANGED <<input, fp, buff, line, b, p, q, column_values, delivered>>

(* Not a step of the program. *)
Stopped == cpc \in {"done", "astray"} /\ UNCHANGED vars

(* Where the caller's code runs. *)
Callback == EndOfRecord \/ StaleNewline

ParserStep ==
  \/ EndOfFile \/ ReadLine
  \/ Comma \/ OpenQuote \/ OtherCharacter \/ StaleQuote \/ GoesAstray
  \/ QuoteUnterminated \/ DoubledQuote \/ QuotedCharacter \/ CloseQuote
  \/ SkipBlank \/ BackToLine \/ QuoteIllFormatted

Next == ParserStep \/ Callback \/ Stopped

Spec == Init /\ [][Next]_vars

-----------------------------------------------------------------------------
(* Every variable has its type. *)
TypeOK ==
  /\ fp \in 0 .. Len(input.chars)
  /\ cpc \in {"read", "scan", "quoted", "afterQuote", "done", "astray"}
  /\ buff \in [0 .. MaxLine - 1 -> Chars \union {NUL}]
  /\ line \in 0 .. MaxLine - 1
  /\ b \in 0 .. MaxLine - 1
  /\ p \in Nat
  /\ q \in Nat
  /\ column_values \in Seq(Nat)
  /\ rc \in {"none", "ok", "E_LINE_TOO_WIDE", "E_QUOTED_STRING"}

Reader == IF cpc = "scan" THEN b ELSE q

(* The compaction never overtakes itself: the writer stays behind the      *)
(* reader, what is still to be read is as fgets left it, and the reader    *)
(* stays within the line.                                                  *)
UnreadIsIntact ==
  cpc \in {"scan", "quoted", "afterQuote"} =>
    /\ cpc = "quoted" => p < q
    /\ Reader <= line
    /\ buff[line] = NUL
    /\ \A i \in Reader .. line - 1 : buff[i] = input.chars[fp - line + i + 1]

(* The last line of the file has no newline. *)
Unended == input.chars # <<>> /\ input.chars[Len(input.chars)] # LF

(* Whatever the file holds, and whatever the parse ends with, the callback *)
(* has received the records of the file from the first one on, field by    *)
(* field as they were before they were quoted; only behind the fields of a *)
(* last record without a newline there may be further ones.                *)
DeliversPrefix ==
  /\ Len(delivered) <= Len(input.records)
  /\ \A i \in DOMAIN delivered :
       \/ delivered[i] = input.records[i]
       \/ /\ Unended
          /\ i = Len(input.records)
          /\ \E extra \in Stale : delivered[i] = input.records[i] \o extra

HasLineBreak(record) ==
  \E i \in DOMAIN record : \E k \in DOMAIN record[i] : record[i][k] = LF

(* The line with its newline is wider than the buffer; or it has none, is  *)
(* the last of the file, and as wide as the buffer with its NUL.           *)
FillsBuffer == \A i \in 1 .. MaxLine - 1 : input.chars[fp - line + i] # LF
TooWideForBuffer == fp < Len(input.chars) /\ FillsBuffer
LastFillsBuffer == fp = Len(input.chars) /\ FillsBuffer

(* A parse ends before the last record of the file only because of a line  *)
(* that the buffer does not hold, a line break in a quoted field, or a     *)
(* last line without a newline, which it may give up as too wide one       *)
(* character early or for what is behind it: a file without any of these   *)
(* arrives completely.  csv_parser.h has only the first as an error (18,   *)
(* 22, 23).                                                                *)
EndsOnlyForCause ==
  cpc = "done" /\ Len(delivered) < Len(input.records) =>
    \/ rc = "E_LINE_TOO_WIDE" /\ TooWideForBuffer
    \/ rc = "E_LINE_TOO_WIDE" /\ LastFillsBuffer
    \/ rc = "E_QUOTED_STRING"
         /\ HasLineBreak(input.records[Len(delivered) + 1])
    \/ rc = "E_QUOTED_STRING"
         /\ Unended /\ Len(delivered) + 1 = Len(input.records)

(* The parser keeps to its buffer and its array of fields on every file    *)
(* that ends with a newline and has no line of more fields than that.      *)
StraysOnlyForCause ==
  cpc = "astray" =>
    \/ Unended
    \/ \E i \in DOMAIN input.places : input.places[i].column > MaxColumns

-----------------------------------------------------------------------------
(* No quoted field goes on behind its quotes, and none is left open.       *)
WellFormatted ==
  /\ \A i \in DOMAIN input.places : input.places[i].mode # "broken"
  /\ input.places[Len(input.places)].mode # "quoted"

(* csv_parser.h: E_QUOTED_STRING is the "error code for ill-formatted      *)
(* quoted string", and "a line break within an element must be preserved". *)
QuotedStringErrorsAreIllFormatted ==
  rc = "E_QUOTED_STRING" => ~ WellFormatted
=============================================================================
