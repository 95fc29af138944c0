------------------------------ MODULE CsvProofs ------------------------------
(***************************************************************************)
(* Proofs about the parser and the import, for every file, buffer and      *)
(* number of columns: the in-place compaction of a quoted field never      *)
(* damages what is still to be read; the parser is always at the place of  *)
(* the file that the format gives it, with the records before it delivered *)
(* and the fields before it in the buffer; and the import implements       *)
(* ImportFile.                                                             *)
(***************************************************************************)
EXTENDS CsvImport, FiniteSetTheorems, TLAPS

(* The rules of the format, one per kind of character. *)
LEMMA AfterContent ==
  ASSUME NEW at \in Places, NEW char, IsContent(at, char)
  PROVE  /\ PlaceAfter(at, char) \in Places
         /\ PlaceAfter(at, char).record = at.record
         /\ PlaceAfter(at, char).column = at.column
         /\ PlaceAfter(at, char).length = at.length + 1
         /\ PlaceAfter(at, char).mode =
              IF at.mode = "plain" THEN "plain" ELSE "quoted"
<1> DEFINE next == [at EXCEPT !.length = at.length + 1,
                              !.mode = IF at.mode = "plain" THEN "plain"
                                       ELSE "quoted"]
<1>1. PlaceAfter(at, char) = next
  <2>1. ~ Separates(at, char) /\ ~ Opens(at, char) /\ ~ Closes(at, char)
        /\ ~ Trails(at, char)
    BY CharsAssumption DEF IsContent, Separates, Opens, Closes, Trails
  <2> QED
    BY <2>1 DEF PlaceAfter
<1>2. /\ next \in Places
      /\ next.record = at.record /\ next.column = at.column
      /\ next.length = at.length + 1
      /\ next.mode = IF at.mode = "plain" THEN "plain" ELSE "quoted"
  <2>1. next \in Places
    <3> DEFINE length == at.length + 1
               mode == IF at.mode = "plain" THEN "plain" ELSE "quoted"
    <3>1. length \in Nat /\ mode \in {"plain", "quoted"}
      BY DEF Places
    <3> HIDE DEF length, mode
    <3>2. [at EXCEPT !.length = length, !.mode = mode] \in Places
      BY <3>1 DEF Places
    <3> QED
      BY <3>2 DEF length, mode
  <2> QED
    BY <2>1 DEF Places
<1> QED
  BY <1>1, <1>2

(* A newline begins a record, a comma the next column of the same one.     *)
LEMMA AfterSeparator ==
  ASSUME NEW at \in Places, NEW char, Separates(at, char)
  PROVE  /\ char = LF =>
              PlaceAfter(at, char) = BeginningOf(at.record + 1)
         /\ char = COMMA =>
              /\ PlaceAfter(at, char) \in Places
              /\ PlaceAfter(at, char).record = at.record
              /\ PlaceAfter(at, char).column = at.column + 1
              /\ PlaceAfter(at, char).length = 0
              /\ PlaceAfter(at, char).mode = "plain"
<1>1. ~ IsContent(at, char) /\ ~ Opens(at, char) /\ ~ Closes(at, char)
      /\ ~ Trails(at, char) /\ LF # COMMA
  BY CharsAssumption DEF IsContent, Separates, Opens, Closes, Trails
<1>2. CASE char = LF
  BY <1>1, <1>2 DEF PlaceAfter
<1>3. CASE char = COMMA
  <2> DEFINE next == [at EXCEPT !.column = at.column + 1, !.length = 0,
                                !.mode = "plain"]
  <2>1. PlaceAfter(at, char) = next
    BY <1>1, <1>3 DEF PlaceAfter
  <2>2. /\ next \in Places
        /\ next.record = at.record /\ next.column = at.column + 1
        /\ next.length = 0 /\ next.mode = "plain"
    <3> DEFINE column == at.column + 1
    <3>1. column \in Nat
      BY DEF Places
    <3> HIDE DEF column
    <3>2. [at EXCEPT !.column = column, !.length = 0, !.mode = "plain"]
            \in Places
      BY <3>1 DEF Places
    <3>3. next \in Places
      BY <3>2 DEF column
    <3> QED
      BY <3>3 DEF Places
  <2> QED
    BY <2>1, <2>2, <1>1, <1>3
<1> QED
  BY <1>2, <1>3

(* Quotes and the blanks behind them are no characters of the field.       *)
LEMMA AfterMark ==
  ASSUME NEW at \in Places, NEW char,
         Opens(at, char) \/ Closes(at, char) \/ Trails(at, char)
  PROVE  /\ PlaceAfter(at, char) \in Places
         /\ PlaceAfter(at, char).record = at.record
         /\ PlaceAfter(at, char).column = at.column
         /\ PlaceAfter(at, char).length = at.length
         /\ Opens(at, char) => PlaceAfter(at, char).mode = "quoted"
         /\ Closes(at, char) => PlaceAfter(at, char).mode = "quote"
         /\ Trails(at, char) => PlaceAfter(at, char).mode = "after"
<1>1. ~ IsContent(at, char) /\ ~ Separates(at, char)
  BY CharsAssumption DEF IsContent, Separates, Opens, Closes, Trails
<1>2. \E mode \in {"quoted", "quote", "after"} :
        /\ PlaceAfter(at, char) = [at EXCEPT !.mode = mode]
        /\ Opens(at, char) => mode = "quoted"
        /\ Closes(at, char) => mode = "quote"
        /\ Trails(at, char) => mode = "after"
  <2>1. CASE Opens(at, char)
    <3>1. ~ Closes(at, char) /\ ~ Trails(at, char)
      BY <2>1 DEF Opens, Closes, Trails
    <3> QED
      BY <1>1, <2>1, <3>1 DEF PlaceAfter
  <2>2. CASE Closes(at, char)
    <3>1. ~ Opens(at, char) /\ ~ Trails(at, char)
      BY <2>2 DEF Opens, Closes, Trails
    <3> QED
      BY <1>1, <2>2, <3>1 DEF PlaceAfter
  <2>3. CASE Trails(at, char)
    <3>1. ~ Opens(at, char) /\ ~ Closes(at, char)
      BY <2>3 DEF Opens, Closes, Trails
    <3> QED
      BY <1>1, <2>3, <3>1 DEF PlaceAfter
  <2> QED
    BY <2>1, <2>2, <2>3
<1> QED
  BY <1>2 DEF Places

(* Anything else behind a quoted field has no meaning.                     *)
LEMMA AfterNothing ==
  ASSUME NEW at \in Places, NEW char,
         at.mode \in {"quote", "after"},
         char \notin {COMMA, LF, BLANK},
         at.mode = "quote" => char # QUOTE
  PROVE  /\ PlaceAfter(at, char).mode = "broken"
         /\ PlaceAfter(at, char).record = at.record
<1>1. /\ ~ IsContent(at, char) /\ ~ Separates(at, char)
      /\ ~ Opens(at, char) /\ ~ Closes(at, char) /\ ~ Trails(at, char)
  BY DEF IsContent, Separates, Opens, Closes, Trails
<1>2. PlaceAfter(at, char) = [at EXCEPT !.mode = "broken"]
  BY <1>1 DEF PlaceAfter
<1> QED
  BY <1>2 DEF Places

(* Behind a line break the reader is in quotes only if it was there before.*)
LEMMA LineBreakInQuotes ==
  ASSUME NEW at \in Places, PlaceAfter(at, LF).mode = "quoted"
  PROVE  at.mode = "quoted" /\ PlaceAfter(at, LF).record = at.record
<1>1. LF # QUOTE /\ LF # COMMA /\ LF # BLANK
  BY CharsAssumption
<1>2. ~ Opens(at, LF) /\ ~ Closes(at, LF) /\ ~ Trails(at, LF)
  BY <1>1 DEF Opens, Closes, Trails
<1>3. CASE at.mode = "quoted"
  BY <1>1, <1>3, AfterContent DEF IsContent
<1>4. CASE at.mode \in {"plain", "quote", "after"}
  <2>1. PlaceAfter(at, LF).mode = "plain"
    BY <1>4, AfterSeparator DEF Separates, BeginningOf
  <2> QED
    BY <2>1
<1>5. CASE at.mode = "broken"
  <2>1. PlaceAfter(at, LF) = [at EXCEPT !.mode = "broken"]
    BY <1>2, <1>5 DEF PlaceAfter, IsContent, Separates
  <2> QED
    BY <2>1 DEF Places
<1> QED
  BY <1>3, <1>4, <1>5 DEF Places

-----------------------------------------------------------------------------
(* Where the line in the buffer comes from, and the types arithmetic needs. *)
LineInv ==
  /\ input \in Inputs
  /\ fp \in Nat /\ fp <= Len(input.chars)
  /\ line \in 0 .. MaxLine - 1 /\ line <= fp
  /\ buff \in [0 .. MaxLine - 1 -> Chars \union {NUL}]
  /\ b \in Nat /\ p \in Nat /\ q \in Nat
  /\ cpc \in {"read", "scan", "quoted", "afterQuote", "done", "astray"}

CsvInv == LineInv /\ UnreadIsIntact

(* Writing a character leaves the buffer a buffer.                         *)
LEMMA CellWritten ==
  ASSUME NEW S, NEW n \in Nat, NEW text \in [0 .. n -> S],
         NEW i \in 0 .. n, NEW c \in S
  PROVE  [text EXCEPT ![i] = c] \in [0 .. n -> S]
OBVIOUS

(* A file has characters of the alphabet and no NUL.                       *)
LEMMA InputTypes ==
  ASSUME input \in Inputs
  PROVE  /\ input.chars \in Seq(Chars)
         /\ Len(input.chars) \in Nat
         /\ \A i \in 1 .. Len(input.chars) :
              input.chars[i] \in Chars /\ input.chars[i] # NUL
<1>1. input.chars \in Seq(Chars)
  BY InputsAssumption DEF Files
<1> QED
  BY <1>1, CharsAssumption

(* Before the first fgets there is no line to speak of.                    *)
LEMMA CsvInvInit ==
  ASSUME Init
  PROVE  CsvInv
<1>1. Len(input.chars) \in Nat
  BY InputTypes DEF Init
<1>2. LineInv
  BY <1>1, InputsAssumption DEF Init, LineInv
<1> QED
  BY <1>2 DEF CsvInv, UnreadIsIntact, Init

(* fgets: the buffer holds the next characters of the file and a NUL.      *)
LEMMA ReadLineIntact ==
  ASSUME CsvInv, ReadLine
  PROVE  CsvInv'
<1>1. PICK n \in 1 .. Room :
        /\ fp + n <= Len(input.chars)
        /\ fp' = fp + n
        /\ line' = n
        /\ buff' = [i \in 0 .. MaxLine - 1 |->
                      IF i < n THEN input.chars[fp + i + 1]
                      ELSE IF i = n THEN NUL ELSE buff[i]]
        /\ cpc' \in {"scan", "done"}
  BY DEF ReadLine, Return
<1>2. b' = 0 /\ p' = 0 /\ q' = 0 /\ input' = input
  BY DEF ReadLine
<1>3. /\ n \in Nat /\ n <= MaxLine - 1 /\ MaxLine \in Nat
      /\ fp \in Nat /\ Len(input.chars) \in Nat
      /\ buff \in [0 .. MaxLine - 1 -> Chars \union {NUL}]
  BY <1>1, InputsAssumption, InputTypes DEF Room, CsvInv, LineInv
<1>4. \A i \in 0 .. n - 1 : input.chars[fp + i + 1] \in Chars
  BY <1>1, <1>3, InputTypes DEF CsvInv, LineInv
<1>5. buff' \in [0 .. MaxLine - 1 -> Chars \union {NUL}]
  <2> DEFINE cell(i) == IF i < n THEN input.chars[fp + i + 1]
                        ELSE IF i = n THEN NUL ELSE buff[i]
  <2>1. ASSUME NEW i \in 0 .. MaxLine - 1
        PROVE  cell(i) \in Chars \union {NUL}
    <3>1. CASE i < n
      <4>1. i \in 0 .. n - 1
        BY <3>1, <1>3
      <4>2. input.chars[fp + i + 1] \in Chars
        BY <4>1, <1>4
      <4> QED
        BY <3>1, <4>2
    <3>2. CASE ~ (i < n)
      BY <3>2, <1>3
    <3> QED
      BY <3>1, <3>2
  <2>2. buff' = [i \in 0 .. MaxLine - 1 |-> cell(i)]
    BY <1>1
  <2> HIDE DEF cell
  <2> QED
    BY <2>1, <2>2
<1>6. LineInv'
  BY <1>1, <1>2, <1>3, <1>5 DEF CsvInv, LineInv
<1>7. \A i \in 0 .. n - 1 : buff'[i] = input'.chars[fp' - line' + i + 1]
  BY <1>1, <1>2, <1>3
<1>8. buff'[line'] = NUL
  BY <1>1, <1>3
<1> QED
  BY <1>1, <1>2, <1>3, <1>6, <1>7, <1>8 DEF CsvInv, UnreadIsIntact, Reader

(* What a reader sees before the NUL is a character of the file. *)
LEMMA ReaderInLine ==
  ASSUME CsvInv, cpc \in {"scan", "quoted", "afterQuote"}
  PROVE  /\ Reader \in 0 .. line
         /\ buff[Reader] # NUL => Reader < line
         /\ line < MaxLine
BY InputsAssumption DEF CsvInv, UnreadIsIntact, LineInv, Reader

(* Steps that write to the buffer write behind the reader. *)
LEMMA WritesIntact ==
  ASSUME CsvInv, Comma \/ DoubledQuote \/ QuotedCharacter \/ CloseQuote
  PROVE  CsvInv'
<1>1. CASE Comma
  <2>1. buff[b] # NUL /\ cpc = "scan" /\ cpc' = "scan"
    BY <1>1, CharsAssumption DEF Comma, Chars
  <2>2. b < line /\ b \in Nat /\ line < MaxLine /\ line \in Nat
    BY <2>1, ReaderInLine DEF Reader, CsvInv, LineInv
  <2>3. /\ UNCHANGED <<input, fp, line, p, q>> /\ b' = b + 1
        /\ buff' = [buff EXCEPT ![b] = NUL]
    BY <1>1 DEF Comma
  <2>4. buff' \in [0 .. MaxLine - 1 -> Chars \union {NUL}]
    BY <2>2, <2>3, CellWritten, InputsAssumption DEF CsvInv, LineInv, Chars
  <2>5. LineInv'
    BY <2>1, <2>2, <2>3, <2>4 DEF CsvInv, LineInv
  <2> QED
    BY <2>1, <2>2, <2>3, <2>5 DEF CsvInv, UnreadIsIntact, LineInv, Reader
<1>2. CASE DoubledQuote
  <2>1. /\ buff[q] # NUL /\ buff[q + 1] # NUL
        /\ cpc = "quoted" /\ cpc' = "quoted"
    BY <1>2, CharsAssumption DEF DoubledQuote, Chars
  <2>2. /\ p < q /\ q < line /\ q + 1 # line
        /\ p \in Nat /\ q \in Nat /\ line \in Nat /\ line < MaxLine
    BY <2>1, ReaderInLine DEF Reader, CsvInv, LineInv, UnreadIsIntact
  <2>3. /\ UNCHANGED <<input, fp, line, b>> /\ p' = p + 1 /\ q' = q + 2
        /\ buff' = [buff EXCEPT ![p] = QUOTE]
    BY <1>2 DEF DoubledQuote, SkipQuote
  <2>4. buff' \in [0 .. MaxLine - 1 -> Chars \union {NUL}]
    BY <2>2, <2>3, CellWritten, InputsAssumption DEF CsvInv, LineInv, Chars
  <2>5. LineInv'
    BY <2>1, <2>2, <2>3, <2>4 DEF CsvInv, LineInv
  <2> QED
    BY <2>1, <2>2, <2>3, <2>5 DEF CsvInv, UnreadIsIntact, LineInv, Reader
<1>3. CASE QuotedCharacter
  <2>1. buff[q] # NUL /\ cpc = "quoted" /\ cpc' = "quoted"
    BY <1>3 DEF QuotedCharacter
  <2>2. /\ p < q /\ q < line
        /\ p \in Nat /\ q \in Nat /\ line \in Nat /\ line < MaxLine
    BY <2>1, ReaderInLine DEF Reader, CsvInv, LineInv, UnreadIsIntact
  <2>3. /\ UNCHANGED <<input, fp, line, b>> /\ p' = p + 1 /\ q' = q + 1
        /\ buff' = [buff EXCEPT ![p] = buff[q]]
    BY <1>3 DEF QuotedCharacter
  <2>4. buff' \in [0 .. MaxLine - 1 -> Chars \union {NUL}]
    BY <2>2, <2>3, CellWritten, InputsAssumption DEF CsvInv, LineInv, Chars
  <2>5. LineInv'
    BY <2>1, <2>2, <2>3, <2>4 DEF CsvInv, LineInv
  <2> QED
    BY <2>1, <2>2, <2>3, <2>5 DEF CsvInv, UnreadIsIntact, LineInv, Reader
<1>4. CASE CloseQuote
  <2>1. buff[q] # NUL /\ cpc = "quoted" /\ cpc' = "afterQuote"
    BY <1>4, CharsAssumption DEF CloseQuote, Chars
  <2>2. /\ p < q /\ q < line
        /\ p \in Nat /\ q \in Nat /\ line \in Nat /\ line < MaxLine
    BY <2>1, ReaderInLine DEF Reader, CsvInv, LineInv, UnreadIsIntact
  <2>3. /\ UNCHANGED <<input, fp, line, b, p>> /\ q' = q + 1
        /\ buff' = [buff EXCEPT ![p] = NUL]
    BY <1>4 DEF CloseQuote, Terminate
  <2>4. buff' \in [0 .. MaxLine - 1 -> Chars \union {NUL}]
    BY <2>2, <2>3, CellWritten, InputsAssumption DEF CsvInv, LineInv, Chars
  <2>5. LineInv'
    BY <2>1, <2>2, <2>3, <2>4 DEF CsvInv, LineInv
  <2> QED
    BY <2>1, <2>2, <2>3, <2>5 DEF CsvInv, UnreadIsIntact, LineInv, Reader
<1> QED
  BY <1>1, <1>2, <1>3, <1>4

(* Steps that only move the reader keep it in the line. *)
LEMMA MovesIntact ==
  ASSUME CsvInv, OpenQuote \/ OtherCharacter \/ SkipBlank \/ BackToLine
  PROVE  CsvInv'
<1> USE DEF CsvInv, UnreadIsIntact, LineInv, Reader
<1>1. CASE OpenQuote
  <2>1. b < line /\ b \in Nat /\ line \in Nat
    BY <1>1, ReaderInLine, CharsAssumption DEF OpenQuote, Chars
  <2> QED
    BY <1>1, <2>1 DEF OpenQuote
<1>2. CASE OtherCharacter
  <2>1. b < line /\ b \in Nat /\ line \in Nat
    BY <1>2, ReaderInLine DEF OtherCharacter
  <2> QED
    BY <1>2, <2>1 DEF OtherCharacter
<1>3. CASE SkipBlank
  <2>1. q < line /\ q \in Nat /\ line \in Nat
    BY <1>3, ReaderInLine, CharsAssumption DEF SkipBlank, Chars
  <2> QED
    BY <1>3, <2>1 DEF SkipBlank
<1>4. CASE BackToLine
  BY <1>4 DEF BackToLine, AtSeparator
<1> QED
  BY <1>1, <1>2, <1>3, <1>4

(* Steps that end a record, or the parse. *)
LEMMA EndsIntact ==
  ASSUME CsvInv,
         \/ EndOfFile \/ GoesAstray \/ EndOfRecord
         \/ StaleNewline \/ StaleQuote
         \/ QuoteUnterminated \/ QuoteIllFormatted
  PROVE  CsvInv'
<1>1. /\ cpc' \in {"read", "done", "astray"}
      /\ UNCHANGED <<input, fp, line, b, p, q>>
  BY DEF EndOfFile, GoesAstray, EndOfRecord, StaleNewline, StaleQuote,
     QuoteUnterminated, QuoteIllFormatted, Return
<1>2. buff' \in [0 .. MaxLine - 1 -> Chars \union {NUL}]
  BY DEF EndOfFile, GoesAstray, EndOfRecord, StaleNewline, StaleQuote,
     QuoteUnterminated, QuoteIllFormatted, CsvInv, LineInv
<1> QED
  BY <1>1, <1>2 DEF CsvInv, LineInv, UnreadIsIntact

(* Where the line of the buffer is in the file, and what is unread of it.  *)
THEOREM CsvInvariant == Spec => []CsvInv
<1>1. CsvInv /\ [Next]_vars => CsvInv'
  <2> SUFFICES ASSUME CsvInv, [Next]_vars PROVE CsvInv'
    OBVIOUS
  <2>1. CASE UNCHANGED vars
    BY <2>1 DEF vars, CsvInv, LineInv, UnreadIsIntact, Reader
  <2>2. CASE Next
    BY <2>1, <2>2, ReadLineIntact, WritesIntact, MovesIntact, EndsIntact
    DEF Next, ParserStep, Callback, Stopped
  <2> QED
    BY <2>1, <2>2
<1> QED
  BY <1>1, CsvInvInit, PTL DEF Spec

(* The writer of the compaction stays behind the reader, the reader within *)
(* the line, and the unread part of the line is as fgets left it.          *)
THEOREM CompactionIsSafe == Spec => []UnreadIsIntact
<1>1. CsvInv => UnreadIsIntact
  BY DEF CsvInv
<1> QED
  BY <1>1, CsvInvariant, PTL

(* A reader that goes on is before the NUL, so b does not leave the buffer. *)
LEMMA TypesKept ==
  ASSUME CsvInv, CsvInv', TypeOK, Next
  PROVE  TypeOK'
<1>1. /\ fp' \in 0 .. Len(input'.chars)
      /\ cpc' \in {"read", "scan", "quoted", "afterQuote", "done", "astray"}
      /\ buff' \in [0 .. MaxLine - 1 -> Chars \union {NUL}]
      /\ line' \in 0 .. MaxLine - 1
      /\ p' \in Nat
      /\ q' \in Nat
  BY InputTypes DEF CsvInv, LineInv
<1>2. b' \in 0 .. MaxLine - 1 /\ column_values' \in Seq(Nat)
  <2>1. CASE ReadLine
    BY <2>1, InputsAssumption DEF ReadLine
  <2>2. CASE Comma
    <3>1. b < line /\ b \in Nat /\ line \in 0 .. MaxLine - 1
      BY <2>2, ReaderInLine, CharsAssumption
      DEF Comma, Chars, Reader, CsvInv, LineInv
    <3>2. b' = b + 1 /\ column_values' = Append(column_values, b + 1)
      BY <2>2 DEF Comma
    <3> QED
      BY <3>1, <3>2, InputsAssumption DEF TypeOK
  <2>3. CASE OtherCharacter
    <3>1. b < line /\ b \in Nat /\ line \in 0 .. MaxLine - 1
      BY <2>3, ReaderInLine DEF OtherCharacter, Reader, CsvInv, LineInv
    <3>2. b' = b + 1 /\ UNCHANGED column_values
      BY <2>3 DEF OtherCharacter
    <3> QED
      BY <3>1, <3>2, InputsAssumption DEF TypeOK
  <2>4. CASE BackToLine
    <3>1. q <= line /\ q \in Nat /\ line \in 0 .. MaxLine - 1
      BY <2>4, ReaderInLine DEF BackToLine, Reader, CsvInv, LineInv
    <3>2. b' = q /\ UNCHANGED column_values
      BY <2>4 DEF BackToLine, AtSeparator
    <3> QED
      BY <3>1, <3>2, InputsAssumption DEF TypeOK
  <2>5. CASE \/ EndOfFile \/ OpenQuote \/ GoesAstray \/ EndOfRecord
             \/ StaleNewline \/ StaleQuote
             \/ QuoteUnterminated \/ DoubledQuote \/ QuotedCharacter
             \/ CloseQuote \/ SkipBlank \/ QuoteIllFormatted \/ Stopped
    <3>1. UNCHANGED <<b, column_values>>
      BY <2>5 DEF EndOfFile, OpenQuote, GoesAstray, EndOfRecord,
         StaleNewline, StaleQuote, QuoteUnterminated, DoubledQuote, QuotedCharacter, CloseQuote,
         SkipBlank, QuoteIllFormatted, Stopped, vars
    <3> QED
      BY <3>1 DEF TypeOK
  <2> QED
    BY <2>1, <2>2, <2>3, <2>4, <2>5 DEF Next, ParserStep, Callback
<1>3. rc' \in {"none", "ok", "E_LINE_TOO_WIDE", "E_QUOTED_STRING"}
  <2>1. CASE ReadLine
    BY <2>1 DEF ReadLine, Return, TypeOK
  <2>2. CASE \/ EndOfFile \/ StaleQuote
             \/ QuoteUnterminated \/ QuoteIllFormatted
    BY <2>2 DEF EndOfFile, StaleQuote, QuoteUnterminated, QuoteIllFormatted,
       Return
  <2>3. CASE \/ Comma \/ OpenQuote \/ OtherCharacter \/ GoesAstray
             \/ EndOfRecord \/ StaleNewline \/ DoubledQuote \/ QuotedCharacter
             \/ CloseQuote \/ SkipBlank \/ BackToLine \/ Stopped
    <3>1. UNCHANGED rc
      BY <2>3 DEF Comma, OpenQuote, OtherCharacter, GoesAstray, EndOfRecord,
         StaleNewline, DoubledQuote, QuotedCharacter, CloseQuote, SkipBlank,
         BackToLine, Stopped, vars
    <3> QED
      BY <3>1 DEF TypeOK
  <2> QED
    BY <2>1, <2>2, <2>3 DEF Next, ParserStep, Callback
<1> QED
  BY <1>1, <1>2, <1>3 DEF TypeOK

(* Every variable keeps its type; of those the reader b counts: it stays   *)
(* in the buffer, on any file, until the parse goes astray.                *)
THEOREM TypeCorrect == Spec => []TypeOK
<1>1. Init => TypeOK
  BY InputTypes, InputsAssumption DEF Init, TypeOK
<1>2. CsvInv /\ CsvInv' /\ TypeOK /\ [Next]_vars => TypeOK'
  BY TypesKept DEF vars, TypeOK
<1> QED
  BY <1>1, <1>2, CsvInvariant, PTL DEF Spec

-----------------------------------------------------------------------------
(* Where the parser is in the reading of the file: the characters before   *)
(* its reader, their place, and where the current field starts.            *)
InLine == cpc \in {"scan", "quoted", "afterQuote"}
Position == fp - line + Reader
At == input.places[Position + 1]
FieldStart == column_values[Len(column_values)]

Holds(text, start, field, n) ==
  \A k \in 1 .. n : text[start + k - 1] = field[k]

IsField(text, start, field) ==
  /\ Holds(text, start, field, Len(field))
  /\ text[start + Len(field)] = NUL

(* A line ends with its first newline, or with the file; the reader has    *)
(* not passed the newline unless it is within quotes; and the first field  *)
(* begins with the line.                                                   *)
LineEnded ==
  /\ \A i \in 1 .. line - 1 : input.chars[fp - line + i] # LF
  /\ InLine =>
       /\ line > 0
       /\ input.chars[fp] = LF \/ fp = Len(input.chars)
       /\ cpc # "quoted" /\ Reader > 0 => input.chars[Position] # LF
       /\ column_values[1] = 0
  /\ rc = "none" <=> cpc # "done"

(* The last record has been delivered although no newline ends it. *)
AllTaken ==
  Unended /\ fp = Len(input.chars) /\ Len(delivered) = Len(input.records)

(* The reader's place is the one the format gives it; the writer is where  *)
(* the field is to go on.                                                  *)
AtPlace ==
  /\ cpc = "read" =>
       \/ input.places[fp + 1] = BeginningOf(Len(delivered) + 1)
       \/ AllTaken
  /\ InLine =>
       /\ At.record = Len(delivered) + 1
       /\ At.column = Len(column_values)
       /\ At.column > 0
       /\ FieldStart + At.length =
            IF cpc = "scan" /\ At.mode = "plain" THEN b ELSE p
       /\ At.mode \in {"quote", "after"} => p < Reader /\ buff[p] = NUL
  /\ cpc = "scan" =>
       /\ At.mode \in {"plain", "quote", "after"}
       /\ At.mode # "plain" => buff[b] \in {COMMA, LF, NUL}
  /\ cpc = "quoted" => At.mode = "quoted"
  /\ cpc = "afterQuote" =>
       /\ At.mode \in {"quote", "after"}
       /\ At.mode = "quote" => buff[q] # QUOTE

(* The fields of the line that are complete, and the part of the current   *)
(* one that has been read, are those of the record.                        *)
Fields ==
  InLine /\ At.record <= Len(input.records) =>
    /\ Holds(buff, FieldStart, FieldAt(input.records, At), At.length)
    /\ \A i \in 1 .. Len(column_values) - 1 :
         LET field == input.records[At.record][i]
         IN  /\ IsField(buff, column_values[i], field)
             /\ column_values[i] + Len(field) < FieldStart

ReadingInv == LineEnded /\ AtPlace /\ Fields

Delivered == delivered \in Records /\ DeliversPrefix

ParseInv == CsvInv /\ TypeOK /\ ReadingInv /\ Delivered

(* What a file's reading says of each of its places. *)
LEMMA PlacesOfFile ==
  ASSUME input \in Inputs
  PROVE  /\ input.records \in Records
         /\ input.places \in Seq(Places)
         /\ Len(input.places) = Len(input.chars) + 1
         /\ input.places[1] = BeginningOf(1)
         /\ \A i \in 1 .. Len(input.chars) :
              /\ input.places[i + 1] =
                   PlaceAfter(input.places[i], input.chars[i])
              /\ Means(input.records, input.places[i], input.chars[i])
              /\ input.places[i].mode = "broken" =>
                   input.places[i].record > Len(input.records)
         /\ EndsWell(input.records, input.places[Len(input.chars) + 1])
         /\ \A i \in 1 .. Len(input.chars) + 1 : input.places[i] \in Places
<1>1. input \in Files /\ IsReading(input)
  BY InputsAssumption
<1>2. input.records \in Records /\ input.places \in Seq(Places)
  BY <1>1 DEF Files
<1>3. Len(input.places) = Len(input.chars) + 1
  BY <1>1 DEF IsReading
<1>4. \A i \in 1 .. Len(input.chars) + 1 : input.places[i] \in Places
  BY <1>2, <1>3
<1> HIDE DEF Places
<1> QED
  BY <1>1, <1>2, <1>3, <1>4 DEF IsReading

(* The numbers of a state within a line. *)
LEMMA InLineFacts ==
  ASSUME ParseInv, InLine
  PROVE  /\ Reader \in Nat /\ Reader <= line
         /\ line \in Nat \ {0} /\ line < MaxLine /\ MaxLine \in Nat
         /\ fp \in Nat /\ line <= fp
         /\ Len(input.chars) \in Nat /\ fp <= Len(input.chars)
         /\ Position \in Nat /\ Position <= fp
         /\ At \in Places
         /\ Len(column_values) \in Nat \ {0}
         /\ column_values \in Seq(Nat)
         /\ FieldStart \in Nat
         /\ b \in Nat /\ p \in Nat /\ q \in Nat
         /\ buff \in [0 .. MaxLine - 1 -> Chars \union {NUL}]
<1>1. /\ Reader \in Nat /\ Reader <= line
      /\ line \in Nat /\ line < MaxLine /\ MaxLine \in Nat
      /\ fp \in Nat /\ line <= fp /\ fp <= Len(input.chars)
      /\ b \in Nat /\ p \in Nat /\ q \in Nat
      /\ buff \in [0 .. MaxLine - 1 -> Chars \union {NUL}]
      /\ input \in Inputs
  BY ReaderInLine, InputsAssumption DEF ParseInv, CsvInv, LineInv, InLine
<1>2. Len(input.chars) \in Nat
  BY <1>1, InputTypes
<1>3. line # 0
  BY <1>1 DEF ParseInv, ReadingInv, LineEnded
<1>4. Position \in Nat /\ Position <= fp
  BY <1>1, <1>2 DEF Position
<1>5. At \in Places
  BY <1>1, <1>2, <1>4, PlacesOfFile DEF At
<1>6. column_values \in Seq(Nat)
  BY DEF ParseInv, TypeOK
<1>7. Len(column_values) > 0
  BY DEF ParseInv, ReadingInv, AtPlace
<1> QED
  BY <1>1, <1>2, <1>3, <1>4, <1>5, <1>6, <1>7 DEF FieldStart

(* The next character of the line is that of the file, and the place after *)
(* it follows from the format.                                             *)
LEMMA NextPlace ==
  ASSUME ParseInv, InLine, buff[Reader] # NUL
  PROVE  /\ Reader < line
         /\ Position + 1 \in 1 .. Len(input.chars)
         /\ buff[Reader] = input.chars[Position + 1]
         /\ buff[Reader] \in Chars
         /\ input.places[Position + 2] = PlaceAfter(At, buff[Reader])
         /\ Means(input.records, At, buff[Reader])
<1>1. Reader < line
  BY ReaderInLine, InLineFacts DEF ParseInv, InLine
<1>2. /\ Reader \in Nat /\ line \in Nat /\ fp \in Nat /\ line <= fp
      /\ Len(input.chars) \in Nat /\ fp <= Len(input.chars)
  BY InLineFacts
<1>3. /\ Position + 1 \in 1 .. Len(input.chars)
      /\ buff[Reader] = input.chars[Position + 1]
  <2>1. buff[Reader] = input.chars[fp - line + Reader + 1]
    BY <1>1, <1>2 DEF ParseInv, CsvInv, UnreadIsIntact, InLine
  <2> QED
    BY <1>1, <1>2, <2>1 DEF Position
<1>4. input \in Inputs
  BY DEF ParseInv, CsvInv, LineInv
<1>5. buff[Reader] \in Chars
  BY <1>3, <1>4, InputTypes
<1>6. Position + 1 + 1 = Position + 2
  BY InLineFacts
<1> QED
  BY <1>1, <1>2, <1>3, <1>4, <1>5, <1>6, PlacesOfFile DEF At

(* The reader's place moves with it. *)
LEMMA PlaceMoves ==
  ASSUME ParseInv, InLine, NEW n \in Nat, Reader' = Reader + n,
         UNCHANGED <<input, fp, line>>
  PROVE  /\ Position' = Position + n
         /\ At' = input.places[Position + n + 1]
<1>1. Position' = Position + n
  <2>1. Reader \in Nat /\ line \in Nat /\ fp \in Nat
    BY InLineFacts
  <2>2. Position' = fp - line + (Reader + n)
    BY DEF Position
  <2> QED
    BY <2>1, <2>2 DEF Position
<1> QED
  BY <1>1 DEF At

(* By one character: the place the format gives. *)
LEMMA NextAt ==
  ASSUME ParseInv, InLine, buff[Reader] # NUL, Reader' = Reader + 1,
         UNCHANGED <<input, fp, line>>
  PROVE  At' = PlaceAfter(At, buff[Reader])
<1>1. At' = input.places[Position + 1 + 1]
  BY PlaceMoves
<1>2. Position + 1 + 1 = Position + 2
  BY InLineFacts
<1> QED
  BY <1>1, <1>2, NextPlace

(* A write leaves what ends before it. *)
LEMMA HoldsKept ==
  ASSUME NEW S, NEW n \in Nat, NEW text \in [0 .. n -> S],
         NEW i \in 0 .. n, NEW c, NEW start \in Nat, NEW k \in Nat,
         NEW field, Holds(text, start, field, k), start + k <= i
  PROVE  Holds([text EXCEPT ![i] = c], start, field, k)
BY DEF Holds

(* A write behind a part of a field makes it longer. *)
LEMMA HoldsMore ==
  ASSUME NEW S, NEW n \in Nat, NEW text \in [0 .. n -> S],
         NEW start \in Nat, NEW k \in Nat, start + k \in 0 .. n,
         NEW field, Holds(text, start, field, k)
  PROVE  Holds([text EXCEPT ![start + k] = field[k + 1]],
               start, field, k + 1)
BY DEF Holds

(* So does the character that is there already.                            *)
LEMMA HoldsNext ==
  ASSUME NEW text, NEW start \in Nat, NEW k \in Nat,
         NEW field, Holds(text, start, field, k),
         text[start + k] = field[k + 1]
  PROVE  Holds(text, start, field, k + 1)
BY DEF Holds

(* A field that ends with its NUL is what the callback gets. *)
LEMMA FieldIsRead ==
  ASSUME NEW text, NEW start \in Nat, NEW field \in Seq(Chars),
         IsField(text, start, field), start + Len(field) < MaxLine
  PROVE  Field(text, start) = field
<1> DEFINE end == start + Len(field)
           ends(i) == /\ i = MaxLine \/ text[i] = NUL
                      /\ \A k \in start .. i - 1 : text[k] # NUL
<1>1. end \in Nat /\ MaxLine \in Nat /\ Len(field) \in Nat
  BY InputsAssumption
<1>2. \A k \in start .. end - 1 : text[k] # NUL
  <2> TAKE k \in start .. end - 1
  <2>1. k - start + 1 \in 1 .. Len(field)
    BY <1>1
  <2>2. text[start + (k - start + 1) - 1] = field[k - start + 1]
    BY <2>1 DEF IsField, Holds
  <2>3. field[k - start + 1] \in Chars
    BY <2>1
  <2> QED
    BY <1>1, <2>2, <2>3, CharsAssumption
<1>3. end \in start .. MaxLine /\ ends(end)
  BY <1>1, <1>2 DEF IsField
<1>4. ASSUME NEW i \in start .. MaxLine, ends(i)
      PROVE  i = end
  <2>1. CASE i < end
    BY <1>1, <1>2, <1>4, <2>1
  <2>2. CASE i > end
    <3>1. end \in start .. i - 1
      BY <1>1, <2>2
    <3>2. text[end] = NUL
      BY DEF IsField
    <3> QED
      BY <1>4, <3>1, <3>2
  <2> QED
    BY <1>1, <2>1, <2>2
<1>5. (CHOOSE i \in start .. MaxLine : ends(i)) = end
  <2> HIDE DEF ends, end
  <2> QED
    BY <1>3, <1>4
<1>6. Field(text, start) = [i \in 1 .. end - start |-> text[start + i - 1]]
  BY <1>5 DEF Field
<1>7. \A i \in 1 .. Len(field) : text[start + i - 1] = field[i]
  BY DEF IsField, Holds
<1>8. field = [i \in 1 .. Len(field) |-> field[i]]
  OBVIOUS
<1>9. end - start = Len(field)
  BY <1>1
<1> HIDE DEF end
<1> QED
  BY <1>6, <1>7, <1>8, <1>9

(* A write at or behind the current field leaves the complete ones.        *)
LEMMA FinishedKept ==
  ASSUME ParseInv, InLine,
         At.record <= Len(input.records),
         At.column <= Len(input.records[At.record]),
         NEW i \in 0 .. MaxLine - 1, FieldStart <= i, NEW c,
         NEW k \in 1 .. Len(column_values) - 1
  PROVE  LET field == input.records[At.record][k]
         IN  /\ field \in Seq(Chars)
             /\ IsField([buff EXCEPT ![i] = c], column_values[k], field)
             /\ column_values[k] + Len(field) < FieldStart
<1> DEFINE at == At
           field == input.records[at.record][k]
<1>1. /\ at.record \in Nat \ {0} /\ at.column = Len(column_values)
      /\ delivered \in Records
  <2>1. delivered \in Records /\ at.record = Len(delivered) + 1
    BY DEF ParseInv, ReadingInv, AtPlace, Delivered
  <2>2. Len(delivered) \in Nat
    BY <2>1 DEF Records
  <2> QED
    BY <2>1, <2>2 DEF ParseInv, ReadingInv, AtPlace
<1>2. input.records \in Records
  BY PlacesOfFile DEF ParseInv, CsvInv, LineInv
<1>3. input.records[at.record] \in Seq(Seq(Chars))
  BY <1>1, <1>2 DEF Records
<1>4. field \in Seq(Chars)
  <2>1. k \in Nat /\ 1 <= k /\ k < Len(column_values)
        /\ Len(column_values) \in Nat
    BY InLineFacts
  <2>2. Len(input.records[at.record]) \in Nat
    BY <1>3
  <2>3. k \in 1 .. Len(input.records[at.record])
    BY <1>1, <2>1, <2>2
  <2> QED
    BY <1>3, <2>3
<1>5. IsField(buff, column_values[k], field)
      /\ column_values[k] + Len(field) < FieldStart
  BY DEF ParseInv, ReadingInv, Fields
<1>6. /\ column_values[k] \in Nat /\ Len(field) \in Nat
      /\ FieldStart \in Nat /\ MaxLine \in Nat
      /\ buff \in [0 .. MaxLine - 1 -> Chars \union {NUL}]
  <2>1. Len(field) \in Nat
    BY <1>4
  <2>2. k \in 1 .. Len(column_values) /\ column_values \in Seq(Nat)
    BY InLineFacts
  <2>3. column_values[k] \in Nat
    BY <2>2
  <2> HIDE DEF field
  <2> QED
    BY <2>1, <2>3, InLineFacts
<1> HIDE DEF at, field
<1>7. Holds([buff EXCEPT ![i] = c], column_values[k], field, Len(field))
  <2>1. column_values[k] + Len(field) <= i /\ MaxLine - 1 \in Nat
    BY <1>5, <1>6
  <2> QED
    BY <1>5, <1>6, <2>1, HoldsKept DEF IsField
<1>8. [buff EXCEPT ![i] = c][column_values[k] + Len(field)] = NUL
  <2>1. /\ column_values[k] + Len(field) \in 0 .. MaxLine - 1
        /\ column_values[k] + Len(field) # i
    BY <1>5, <1>6
  <2> QED
    BY <1>5, <1>6, <2>1 DEF IsField
<1>9. IsField([buff EXCEPT ![i] = c], column_values[k], field)
  BY <1>7, <1>8 DEF IsField
<1> QED
  BY <1>4, <1>5, <1>9 DEF at, field

-----------------------------------------------------------------------------
(* A character of the field that p writes goes where the field goes on.    *)
LEMMA ContentWritten ==
  ASSUME ParseInv, cpc = "quoted",
         At.record <= Len(input.records) =>
           /\ At.column <= Len(input.records[At.record])
           /\ FieldAt(input.records, At)[At.length + 1] = buff'[p],
         UNCHANGED <<input, column_values>>,
         buff' = [buff EXCEPT ![p] = buff'[p]],
         At'.record = At.record, At'.column = At.column,
         At'.length = At.length + 1
  PROVE  Fields'
<1> DEFINE at == At
           field == FieldAt(input.records, at)
<1>1. InLine /\ Reader = q
  BY DEF InLine, Reader
<1>2. /\ q <= line /\ line < MaxLine
      /\ q \in Nat /\ p \in Nat /\ line \in Nat /\ MaxLine \in Nat
      /\ FieldStart \in Nat /\ at \in Places
      /\ buff \in [0 .. MaxLine - 1 -> Chars \union {NUL}]
  BY <1>1, InLineFacts
<1>3. p < q
  BY DEF ParseInv, CsvInv, UnreadIsIntact
<1>4. at.length \in Nat /\ FieldStart + at.length = p
  BY <1>1, <1>2 DEF ParseInv, ReadingInv, AtPlace, Places
<1> SUFFICES ASSUME at.record <= Len(input.records)
             PROVE  Fields'
  BY DEF Fields
<1>5. Holds(buff, FieldStart, field, at.length)
  BY <1>1 DEF ParseInv, ReadingInv, Fields
<1>6. Holds(buff', FieldStart, field, at.length + 1)
  <2> HIDE DEF at, field
  <2>1. buff' = [buff EXCEPT ![FieldStart + at.length]
                   = field[at.length + 1]]
    BY <1>4 DEF at, field
  <2>2. FieldStart + at.length \in 0 .. MaxLine - 1 /\ MaxLine - 1 \in Nat
    BY <1>2, <1>3, <1>4
  <2> QED
    BY <1>2, <1>4, <1>5, <2>1, <2>2, HoldsMore
<1>7. ASSUME NEW k \in 1 .. Len(column_values) - 1
      PROVE  LET f == input.records[at.record][k]
             IN  /\ IsField(buff', column_values[k], f)
                 /\ column_values[k] + Len(f) < FieldStart
  <2>1. p \in 0 .. MaxLine - 1 /\ FieldStart <= p
    BY <1>2, <1>3, <1>4
  <2>2. at.column <= Len(input.records[at.record])
    OBVIOUS
  <2>3. /\ IsField([buff EXCEPT ![p] = buff'[p]], column_values[k],
                   input.records[at.record][k])
        /\ column_values[k] + Len(input.records[at.record][k]) < FieldStart
    BY <1>1, <2>1, <2>2, FinishedKept
  <2> QED
    BY <2>3
<1>8. FieldAt(input'.records, At') = field /\ FieldStart' = FieldStart
  BY DEF FieldAt, FieldStart
<1> HIDE DEF field
<1> QED
  BY <1>6, <1>7, <1>8 DEF Fields

(* A character within quotes is one of the field's. *)
LEMMA QuotedCharacterReads ==
  ASSUME ParseInv, QuotedCharacter
  PROVE  ReadingInv'
<1> DEFINE at == At
           char == buff[q]
<1>1. /\ cpc = "quoted" /\ cpc' = "quoted"
      /\ UNCHANGED <<input, fp, line, b, column_values, delivered, rc>>
      /\ p' = p + 1 /\ q' = q + 1
      /\ buff' = [buff EXCEPT ![p] = char]
      /\ char \notin {QUOTE, NUL}
  BY DEF QuotedCharacter
<1>2. /\ InLine /\ Reader = q /\ Reader' = Reader + 1 /\ InLine'
  BY <1>1 DEF InLine, Reader
<1>3. /\ at \in Places /\ q \in Nat /\ p \in Nat /\ FieldStart \in Nat
      /\ line \in Nat /\ q <= line /\ line < MaxLine /\ MaxLine \in Nat
      /\ buff \in [0 .. MaxLine - 1 -> Chars \union {NUL}]
  BY <1>1, <1>2, InLineFacts
<1>4. /\ at.record = Len(delivered) + 1
      /\ at.column = Len(column_values) /\ at.column > 0
      /\ at.mode = "quoted" /\ FieldStart + at.length = p
      /\ at.length \in Nat
  BY <1>1, <1>2, <1>3 DEF ParseInv, ReadingInv, AtPlace, Places
<1>5. IsContent(at, char)
  BY <1>1, <1>4 DEF IsContent
<1>6. At' = PlaceAfter(at, char)
  BY <1>1, <1>2, NextAt
<1>7. /\ At'.record = at.record /\ At'.column = at.column
      /\ At'.length = at.length + 1 /\ At'.mode = "quoted"
  BY <1>3, <1>4, <1>5, <1>6, AfterContent
<1>8. Fields'
  <2>1. Means(input.records, at, char)
    BY <1>1, <1>2, NextPlace
  <2>2. at.record <= Len(input.records) =>
          /\ at.column <= Len(input.records[at.record])
          /\ FieldAt(input.records, at)[at.length + 1] = char
    BY <1>5, <2>1 DEF Means
  <2>3. p \in 0 .. MaxLine - 1
    BY <1>1, <1>3 DEF ParseInv, CsvInv, UnreadIsIntact
  <2>4. buff'[p] = char
    BY <1>1, <1>3, <2>3
  <2> HIDE DEF char
  <2> QED
    BY <1>1, <1>7, <2>2, <2>4, ContentWritten
<1>9. FieldStart' = FieldStart
  BY <1>1 DEF FieldStart
<1> HIDE DEF at
<1>10. AtPlace'
  BY <1>1, <1>3, <1>4, <1>7, <1>9 DEF AtPlace
<1>11. LineEnded'
  BY <1>1, <1>2 DEF ParseInv, ReadingInv, LineEnded
<1> QED
  BY <1>8, <1>10, <1>11 DEF ReadingInv

(* A write behind what has been read of the current field leaves that too. *)
LEMMA WriteBehindField ==
  ASSUME ParseInv, InLine,
         At.record <= Len(input.records) =>
           At.column <= Len(input.records[At.record]),
         NEW i \in 0 .. MaxLine - 1, FieldStart + At.length <= i, NEW c,
         buff' = [buff EXCEPT ![i] = c],
         UNCHANGED <<input, column_values>>,
         At'.record = At.record, At'.column = At.column,
         At'.length = At.length
  PROVE  Fields'
<1> DEFINE at == At
           field == FieldAt(input.records, at)
<1>1. /\ FieldStart \in Nat /\ at.length \in Nat /\ MaxLine - 1 \in Nat
      /\ buff \in [0 .. MaxLine - 1 -> Chars \union {NUL}]
  <2>1. at \in Places
    BY InLineFacts
  <2>2. at.length \in Nat
    BY <2>1 DEF Places
  <2> HIDE DEF at
  <2> QED
    BY <2>2, InLineFacts
<1> SUFFICES ASSUME at.record <= Len(input.records)
             PROVE  Fields'
  BY DEF Fields
<1>2. Holds(buff, FieldStart, field, at.length)
  BY DEF ParseInv, ReadingInv, Fields
<1>3. Holds(buff', FieldStart, field, at.length)
  <2> HIDE DEF at, field
  <2> QED
    BY <1>1, <1>2, HoldsKept DEF at
<1>4. ASSUME NEW k \in 1 .. Len(column_values) - 1
      PROVE  /\ IsField(buff', column_values[k], input.records[at.record][k])
             /\ column_values[k] + Len(input.records[at.record][k])
                  < FieldStart
  <2>1. FieldStart <= i
    BY <1>1
  <2>2. at.column <= Len(input.records[at.record])
    OBVIOUS
  <2> QED
    BY <2>1, <2>2, FinishedKept
<1>5. FieldAt(input'.records, At') = field /\ FieldStart' = FieldStart
  BY DEF FieldAt, FieldStart
<1> HIDE DEF field
<1> QED
  BY <1>3, <1>4, <1>5 DEF Fields

(* Two quotes are two characters of the file and one of the field.         *)
LEMMA DoubledQuoteReads ==
  ASSUME ParseInv, DoubledQuote
  PROVE  ReadingInv'
<1> DEFINE at == At
           mid == PlaceAfter(at, QUOTE)
<1>1. /\ cpc = "quoted" /\ cpc' = "quoted"
      /\ UNCHANGED <<input, fp, line, b, column_values, delivered, rc>>
      /\ p' = p + 1 /\ q' = q + 2
      /\ buff' = [buff EXCEPT ![p] = QUOTE]
      /\ buff[q] = QUOTE /\ buff[q + 1] = QUOTE /\ QUOTE # NUL
  BY CharsAssumption DEF DoubledQuote, SkipQuote, Chars
<1>2. /\ InLine /\ Reader = q /\ Reader' = Reader + 2 /\ InLine'
  BY <1>1 DEF InLine, Reader
<1>3. /\ at \in Places /\ q \in Nat /\ p \in Nat /\ FieldStart \in Nat
      /\ line \in Nat /\ q < line /\ line < MaxLine /\ MaxLine \in Nat
      /\ fp \in Nat /\ line <= fp
      /\ Len(input.chars) \in Nat /\ fp <= Len(input.chars)
      /\ buff \in [0 .. MaxLine - 1 -> Chars \union {NUL}]
  BY <1>1, <1>2, InLineFacts, NextPlace
<1>4. /\ at.record = Len(delivered) + 1
      /\ at.column = Len(column_values) /\ at.column > 0
      /\ at.mode = "quoted" /\ FieldStart + at.length = p
      /\ at.length \in Nat
  BY <1>1, <1>2, <1>3 DEF ParseInv, ReadingInv, AtPlace, Places
<1>5. Closes(at, QUOTE)
  BY <1>4 DEF Closes
<1>6. /\ mid \in Places /\ mid.mode = "quote"
      /\ mid.record = at.record /\ mid.column = at.column
      /\ mid.length = at.length
  BY <1>3, <1>5, AfterMark
<1>7. IsContent(mid, QUOTE)
  BY <1>6 DEF IsContent
<1>8. /\ At' = PlaceAfter(mid, QUOTE)
      /\ Means(input.records, mid, QUOTE)
  <2>1. At' = input.places[Position + 2 + 1]
    BY <1>1, <1>2, PlaceMoves
  <2>2. input.places[Position + 2] = mid
    BY <1>1, <1>2, NextPlace
  <2>3. q + 1 # line
    BY <1>1 DEF ParseInv, CsvInv, UnreadIsIntact
  <2>4. buff[q + 1] = input.chars[fp - line + (q + 1) + 1]
    <3>1. q + 1 \in q .. line - 1
      BY <1>3, <2>3
    <3>2. \A i \in q .. line - 1 : buff[i] = input.chars[fp - line + i + 1]
      BY <1>1, <1>2 DEF ParseInv, CsvInv, UnreadIsIntact
    <3> QED
      BY <3>1, <3>2
  <2>5. fp - line + (q + 1) + 1 = Position + 2
    BY <1>2, <1>3 DEF Position
  <2>6. Position + 2 \in 1 .. Len(input.chars)
    BY <1>2, <1>3, <2>3 DEF Position
  <2>7. input.chars[Position + 2] = QUOTE
    BY <1>1, <2>4, <2>5
  <2>8. input \in Inputs
    BY DEF ParseInv, CsvInv, LineInv
  <2> HIDE DEF mid
  <2> QED
    BY <2>1, <2>2, <2>6, <2>7, <2>8, PlacesOfFile
<1> HIDE DEF mid
<1>9. /\ At'.record = at.record /\ At'.column = at.column
      /\ At'.length = at.length + 1 /\ At'.mode = "quoted"
  BY <1>6, <1>7, <1>8, AfterContent
<1>10. p < q
  BY <1>1 DEF ParseInv, CsvInv, UnreadIsIntact
<1>11. Fields'
  <2>1. at.record <= Len(input.records) =>
          /\ at.column <= Len(input.records[at.record])
          /\ FieldAt(input.records, at)[at.length + 1] = QUOTE
    BY <1>6, <1>7, <1>8 DEF Means, FieldAt
  <2>2. buff'[p] = QUOTE
    BY <1>1, <1>3, <1>10
  <2> QED
    BY <1>1, <1>9, <2>1, <2>2, ContentWritten
<1>12. FieldStart' = FieldStart
  BY <1>1 DEF FieldStart
<1> HIDE DEF at
<1>13. AtPlace'
  <2>1. FieldStart' + At'.length = p'
    <3>1. FieldStart \in Nat /\ p \in Nat /\ p' = p + 1
      BY <1>1, <1>3
    <3> QED
      BY <1>4, <1>9, <1>12, <3>1
  <2> QED
    BY <1>1, <1>4, <1>9, <2>1 DEF AtPlace
<1>14. LineEnded'
  BY <1>1, <1>2 DEF ParseInv, ReadingInv, LineEnded
<1> QED
  BY <1>11, <1>13, <1>14 DEF ReadingInv

(* The closing quote ends the field: p puts its NUL behind it.             *)
LEMMA CloseQuoteReads ==
  ASSUME ParseInv, CloseQuote
  PROVE  ReadingInv'
<1> DEFINE at == At
<1>1. /\ cpc = "quoted" /\ cpc' = "afterQuote"
      /\ UNCHANGED <<input, fp, line, b, p, column_values, delivered, rc>>
      /\ q' = q + 1
      /\ buff' = [buff EXCEPT ![p] = NUL]
      /\ buff[q] = QUOTE /\ buff[q + 1] # QUOTE
      /\ QUOTE # NUL /\ QUOTE # LF
  BY CharsAssumption DEF CloseQuote, Terminate, Chars
<1>2. /\ InLine /\ Reader = q /\ Reader' = Reader + 1 /\ InLine'
  BY <1>1 DEF InLine, Reader
<1>3. /\ at \in Places /\ q \in Nat /\ p \in Nat /\ FieldStart \in Nat
      /\ line \in Nat /\ q < line /\ line < MaxLine /\ MaxLine \in Nat
      /\ buff \in [0 .. MaxLine - 1 -> Chars \union {NUL}]
  BY <1>1, <1>2, InLineFacts, NextPlace
<1>4. /\ at.record = Len(delivered) + 1
      /\ at.column = Len(column_values) /\ at.column > 0
      /\ at.mode = "quoted" /\ FieldStart + at.length = p
      /\ at.length \in Nat
  BY <1>1, <1>2, <1>3 DEF ParseInv, ReadingInv, AtPlace, Places
<1>5. Closes(at, QUOTE)
  BY <1>4 DEF Closes
<1>6. At' = PlaceAfter(at, QUOTE)
  BY <1>1, <1>2, NextAt
<1>7. /\ At'.record = at.record /\ At'.column = at.column
      /\ At'.length = at.length /\ At'.mode = "quote"
  BY <1>3, <1>5, <1>6, AfterMark
<1>8. p < q
  BY <1>1 DEF ParseInv, CsvInv, UnreadIsIntact
<1>9. Fields'
  <2>1. Means(input.records, at, QUOTE)
    BY <1>1, <1>2, NextPlace
  <2>2. at.record <= Len(input.records) =>
          at.column <= Len(input.records[at.record])
    BY <2>1 DEF Means
  <2>3. p \in 0 .. MaxLine - 1 /\ FieldStart + at.length <= p
    BY <1>3, <1>4, <1>8
  <2> QED
    BY <1>1, <1>2, <1>7, <2>2, <2>3, WriteBehindField
<1>10. FieldStart' = FieldStart
  BY <1>1 DEF FieldStart
<1>11. buff'[p] = NUL /\ buff'[q + 1] = buff[q + 1]
  BY <1>1, <1>3, <1>8
<1>12. q' > 0 /\ input'.chars[Position'] # LF
  <2>1. Position' = Position + 1
    BY <1>1, <1>2, PlaceMoves
  <2>2. input.chars[Position + 1] = QUOTE
    BY <1>1, <1>2, NextPlace
  <2> QED
    BY <1>1, <1>3, <2>1, <2>2
<1> HIDE DEF at
<1>13. AtPlace'
  <2>1. Reader' = q + 1 /\ p < q + 1
    BY <1>2, <1>3, <1>8
  <2> QED
    BY <1>1, <1>4, <1>7, <1>10, <1>11, <2>1 DEF AtPlace
<1>14. LineEnded'
  BY <1>1, <1>2, <1>12 DEF ParseInv, ReadingInv, LineEnded
<1> QED
  BY <1>9, <1>13, <1>14 DEF ReadingInv

(* Blanks behind the quotes are no part of the field. *)
LEMMA SkipBlankReads ==
  ASSUME ParseInv, SkipBlank
  PROVE  ReadingInv'
<1> DEFINE at == At
<1>1. /\ cpc = "afterQuote" /\ cpc' = "afterQuote"
      /\ UNCHANGED <<input, fp, buff, line, b, p, column_values, delivered,
                     rc>>
      /\ q' = q + 1
      /\ buff[q] = BLANK /\ BLANK # NUL /\ BLANK # LF
  BY CharsAssumption DEF SkipBlank, Chars
<1>2. /\ InLine /\ Reader = q /\ Reader' = Reader + 1 /\ InLine'
  BY <1>1 DEF InLine, Reader
<1>3. at \in Places /\ q \in Nat /\ p \in Nat
  BY <1>1, <1>2, InLineFacts
<1>4. /\ at.record = Len(delivered) + 1
      /\ at.column = Len(column_values) /\ at.column > 0
      /\ at.mode \in {"quote", "after"} /\ FieldStart + at.length = p
      /\ p < q /\ buff[p] = NUL
  BY <1>1, <1>2 DEF ParseInv, ReadingInv, AtPlace
<1>5. Trails(at, BLANK)
  BY <1>4 DEF Trails
<1>6. At' = PlaceAfter(at, BLANK)
  BY <1>1, <1>2, NextAt
<1>7. /\ At'.record = at.record /\ At'.column = at.column
      /\ At'.length = at.length /\ At'.mode = "after"
  BY <1>3, <1>5, <1>6, AfterMark
<1>8. FieldStart' = FieldStart
  BY <1>1 DEF FieldStart
<1>9. Fields'
  BY <1>1, <1>2, <1>7, <1>8
  DEF ParseInv, ReadingInv, Fields, FieldAt, IsField, Holds
<1>10. input'.chars[Position'] # LF
  <2>1. Position' = Position + 1
    BY <1>1, <1>2, PlaceMoves
  <2>2. input.chars[Position + 1] = BLANK
    BY <1>1, <1>2, NextPlace
  <2> QED
    BY <1>1, <2>1, <2>2
<1> HIDE DEF at
<1>11. AtPlace'
  <2>1. Reader' = q + 1 /\ p < q + 1
    BY <1>2, <1>3, <1>4
  <2> QED
    BY <1>1, <1>4, <1>7, <1>8, <2>1 DEF AtPlace
<1>12. LineEnded'
  BY <1>1, <1>2, <1>10 DEF ParseInv, ReadingInv, LineEnded
<1> QED
  BY <1>9, <1>11, <1>12 DEF ReadingInv

(* Steps that move nothing but the program counter keep their place.       *)
LEMMA BackToLineReads ==
  ASSUME ParseInv, BackToLine
  PROVE  ReadingInv'
<1>1. /\ cpc = "afterQuote" /\ cpc' = "scan" /\ b' = q
      /\ UNCHANGED <<input, fp, buff, line, p, q, column_values, delivered,
                     rc>>
      /\ buff[q] \in {COMMA, LF, NUL}
  BY DEF BackToLine, AtSeparator
<1>2. /\ InLine /\ Reader = q /\ Reader' = Reader + 0 /\ InLine'
      /\ q \in Nat
  BY <1>1, InLineFacts DEF InLine, Reader
<1>3. At' = At /\ Position' = Position
  <2>1. Position' = Position + 0
    BY <1>1, <1>2, PlaceMoves
  <2> QED
    BY <1>1, <1>2, <2>1, InLineFacts DEF At
<1>4. FieldStart' = FieldStart
  BY <1>1 DEF FieldStart
<1>5. Fields'
  BY <1>1, <1>2, <1>3, <1>4
  DEF ParseInv, ReadingInv, Fields, FieldAt, IsField, Holds
<1>6. AtPlace'
  <2>1. Reader' = q
    BY <1>1 DEF Reader
  <2> QED
    BY <1>1, <1>2, <1>3, <1>4, <2>1 DEF ParseInv, ReadingInv, AtPlace
<1>7. LineEnded'
  <2>1. Reader' = q
    BY <1>1 DEF Reader
  <2> QED
    BY <1>1, <1>2, <1>3, <2>1 DEF ParseInv, ReadingInv, LineEnded
<1> QED
  BY <1>5, <1>6, <1>7 DEF ReadingInv

(* A quote where the field is not quoted opens a quoted part of it.        *)
LEMMA OpenQuoteReads ==
  ASSUME ParseInv, OpenQuote
  PROVE  ReadingInv'
<1> DEFINE at == At
<1>1. /\ cpc = "scan" /\ cpc' = "quoted"
      /\ UNCHANGED <<input, fp, buff, line, b, column_values, delivered, rc>>
      /\ p' = b /\ q' = b + 1
      /\ buff[b] = QUOTE /\ QUOTE \notin {NUL, LF, COMMA}
  BY CharsAssumption DEF OpenQuote, Chars
<1>2. /\ InLine /\ Reader = b /\ Reader' = Reader + 1 /\ InLine'
  BY <1>1 DEF InLine, Reader
<1>3. at \in Places /\ b \in Nat
  BY <1>1, <1>2, InLineFacts
<1>4. /\ at.record = Len(delivered) + 1
      /\ at.column = Len(column_values) /\ at.column > 0
      /\ at.mode = "plain" /\ FieldStart + at.length = b
  BY <1>1, <1>2 DEF ParseInv, ReadingInv, AtPlace
<1>5. Opens(at, QUOTE)
  BY <1>4 DEF Opens
<1>6. At' = PlaceAfter(at, QUOTE)
  BY <1>1, <1>2, NextAt
<1>7. /\ At'.record = at.record /\ At'.column = at.column
      /\ At'.length = at.length /\ At'.mode = "quoted"
  BY <1>3, <1>5, <1>6, AfterMark
<1>8. FieldStart' = FieldStart
  BY <1>1 DEF FieldStart
<1>9. Fields'
  BY <1>1, <1>2, <1>7, <1>8
  DEF ParseInv, ReadingInv, Fields, FieldAt, IsField, Holds
<1> HIDE DEF at
<1>10. AtPlace'
  BY <1>1, <1>4, <1>7, <1>8 DEF AtPlace
<1>11. LineEnded'
  BY <1>1, <1>2 DEF ParseInv, ReadingInv, LineEnded
<1> QED
  BY <1>9, <1>10, <1>11 DEF ReadingInv

(* Any other character is one of the field's, and stays where it is.       *)
LEMMA OtherCharacterReads ==
  ASSUME ParseInv, OtherCharacter
  PROVE  ReadingInv'
<1> DEFINE at == At
           char == buff[b]
           field == FieldAt(input.records, at)
<1>1. /\ cpc = "scan" /\ cpc' = "scan"
      /\ UNCHANGED <<input, fp, buff, line, p, q, column_values, delivered,
                     rc>>
      /\ b' = b + 1
      /\ char \notin {COMMA, QUOTE, LF, NUL}
  BY DEF OtherCharacter
<1>2. /\ InLine /\ Reader = b /\ Reader' = Reader + 1 /\ InLine'
  BY <1>1 DEF InLine, Reader
<1>3. at \in Places /\ b \in Nat /\ FieldStart \in Nat
  BY <1>1, <1>2, InLineFacts
<1>4. /\ at.record = Len(delivered) + 1
      /\ at.column = Len(column_values) /\ at.column > 0
      /\ at.mode = "plain" /\ FieldStart + at.length = b
      /\ at.length \in Nat
  BY <1>1, <1>2, <1>3 DEF ParseInv, ReadingInv, AtPlace, Places
<1>5. IsContent(at, char)
  BY <1>1, <1>4 DEF IsContent
<1>6. At' = PlaceAfter(at, char)
  BY <1>1, <1>2, NextAt
<1>7. /\ At'.record = at.record /\ At'.column = at.column
      /\ At'.length = at.length + 1 /\ At'.mode = "plain"
  BY <1>3, <1>4, <1>5, <1>6, AfterContent
<1>8. FieldStart' = FieldStart
  BY <1>1 DEF FieldStart
<1>9. Fields'
  <2> SUFFICES ASSUME at.record <= Len(input.records)
               PROVE  Fields'
    BY <1>1, <1>7 DEF Fields
  <2>1. Means(input.records, at, char)
    BY <1>1, <1>2, NextPlace
  <2>2. field[at.length + 1] = buff[FieldStart + at.length]
    BY <1>4, <1>5, <2>1 DEF Means
  <2>3. Holds(buff, FieldStart, field, at.length)
    BY <1>2 DEF ParseInv, ReadingInv, Fields
  <2>4. Holds(buff, FieldStart, field, at.length + 1)
    <3> HIDE DEF at, field
    <3> QED
      BY <1>3, <1>4, <2>2, <2>3, HoldsNext
  <2>5. \A k \in 1 .. Len(column_values) - 1 :
          /\ IsField(buff, column_values[k], input.records[at.record][k])
          /\ column_values[k] + Len(input.records[at.record][k]) < FieldStart
    BY <1>2 DEF ParseInv, ReadingInv, Fields
  <2>6. FieldAt(input'.records, At') = field
    BY <1>1, <1>7 DEF FieldAt
  <2> HIDE DEF field
  <2> QED
    BY <1>1, <1>7, <1>8, <2>4, <2>5, <2>6 DEF Fields
<1>10. input'.chars[Position'] # LF
  <2>1. Position' = Position + 1
    BY <1>1, <1>2, PlaceMoves
  <2>2. input.chars[Position + 1] = char
    BY <1>1, <1>2, NextPlace
  <2> QED
    BY <1>1, <2>1, <2>2
<1> HIDE DEF at
<1>11. AtPlace'
  <2>1. FieldStart' + At'.length = b'
    <3>1. b' = b + 1
      BY <1>1
    <3> QED
      BY <1>3, <1>4, <1>7, <1>8, <3>1
  <2> QED
    BY <1>1, <1>4, <1>7, <2>1 DEF AtPlace
<1>12. LineEnded'
  BY <1>1, <1>2, <1>10 DEF ParseInv, ReadingInv, LineEnded
<1> QED
  BY <1>9, <1>11, <1>12 DEF ReadingInv

-----------------------------------------------------------------------------
(* Where a field ends it ends with the NUL that is put there, or with the  *)
(* one that p has put behind a quoted field.  The fields before it stay.   *)
LEMMA FieldsEnd ==
  ASSUME ParseInv, cpc = "scan",
         At.record <= Len(input.records),
         At.column <= Len(input.records[At.record]),
         IsLastOf(input.records, At)
  PROVE  LET text == [buff EXCEPT ![b] = NUL]
             r == input.records[At.record]
         IN  /\ r \in Seq(Seq(Chars))
             /\ At.column \in 1 .. Len(r)
             /\ At.column = Len(column_values)
             /\ \A k \in 1 .. Len(column_values) :
                  /\ r[k] \in Seq(Chars)
                  /\ IsField(text, column_values[k], r[k])
                  /\ column_values[k] + Len(r[k]) < b + 1
<1> DEFINE at == At
           text == [buff EXCEPT ![b] = NUL]
           r == input.records[at.record]
           field == FieldAt(input.records, at)
           n == Len(column_values)
<1>1. InLine /\ Reader = b
  BY DEF InLine, Reader
<1>2. /\ at \in Places /\ b \in Nat /\ p \in Nat /\ FieldStart \in Nat
      /\ line \in Nat /\ b <= line /\ line < MaxLine /\ MaxLine \in Nat
      /\ n \in Nat \ {0} /\ column_values \in Seq(Nat)
      /\ buff \in [0 .. MaxLine - 1 -> Chars \union {NUL}]
  BY <1>1, InLineFacts
<1>3. /\ at.record = Len(delivered) + 1
      /\ at.column = n /\ at.column > 0
      /\ at.mode \in {"plain", "quote", "after"}
      /\ at.mode = "plain" => FieldStart + at.length = b
      /\ at.mode # "plain" =>
           FieldStart + at.length = p /\ p < b /\ buff[p] = NUL
  BY <1>1 DEF ParseInv, ReadingInv, AtPlace
<1>4. at.length \in Nat /\ at.record \in Nat \ {0}
  <2>1. at.length \in Nat /\ at.record \in Nat
    BY <1>2 DEF Places
  <2>2. Len(delivered) \in Nat
    BY DEF ParseInv, Delivered, Records
  <2> HIDE DEF at
  <2> QED
    BY <1>3, <2>1, <2>2
<1>7. at.column <= Len(r) /\ at.length = Len(field)
  BY DEF IsLastOf
<1>8. r \in Seq(Seq(Chars))
  <2>1. input.records \in Records
    BY PlacesOfFile DEF ParseInv, CsvInv, LineInv
  <2> QED
    BY <1>4, <2>1 DEF Records
<1>9. field = r[n]
  BY <1>3 DEF FieldAt
<1>10. field \in Seq(Chars)
  <2>1. Len(r) \in Nat
    BY <1>8
  <2>2. n \in 1 .. Len(r)
    <3> HIDE DEF n, r, at
    <3> QED
      BY <1>2, <1>3, <1>7, <2>1
  <2> HIDE DEF n, r
  <2> QED
    BY <1>8, <1>9, <2>2
<1>11. IsField(text, FieldStart, field) /\ FieldStart + Len(field) < b + 1
  <2>1. FieldStart + at.length <= b
    <3> HIDE DEF at
    <3> QED
      BY <1>2, <1>3, <1>4
  <2>2. Holds(buff, FieldStart, field, at.length)
    BY <1>1 DEF ParseInv, ReadingInv, Fields
  <2>3. Holds(text, FieldStart, field, at.length)
    <3>1. b \in 0 .. MaxLine - 1 /\ MaxLine - 1 \in Nat
      BY <1>2
    <3> HIDE DEF at, field
    <3> QED
      BY <1>2, <1>4, <2>1, <2>2, <3>1, HoldsKept
  <2>4. text[FieldStart + at.length] = NUL
    <3> HIDE DEF at
    <3>1. CASE at.mode = "plain"
      BY <1>2, <1>3, <3>1
    <3>2. CASE at.mode # "plain"
      <4>1. p \in 0 .. MaxLine - 1 /\ p # b
        BY <1>2, <1>3, <3>2
      <4> QED
        BY <1>2, <1>3, <3>2, <4>1
    <3> QED
      BY <3>1, <3>2
  <2> HIDE DEF at, field, text
  <2> QED
    BY <1>2, <1>4, <1>7, <2>1, <2>3, <2>4 DEF IsField
<1>12. FieldStart <= b
  <2> HIDE DEF at
  <2> QED
    BY <1>2, <1>3, <1>4
<1>13. ASSUME NEW k \in 1 .. n
       PROVE  /\ r[k] \in Seq(Chars)
              /\ IsField(text, column_values[k], r[k])
              /\ column_values[k] + Len(r[k]) < b + 1
  <2>1. CASE k = n
    BY <1>9, <1>10, <1>11, <2>1 DEF FieldStart
  <2>2. CASE k # n
    <3>1. k \in 1 .. n - 1
      BY <1>2, <2>2
    <3>2. b \in 0 .. MaxLine - 1
      BY <1>2
    <3>3. /\ r[k] \in Seq(Chars)
          /\ IsField(text, column_values[k], r[k])
          /\ column_values[k] + Len(r[k]) < FieldStart
      BY <1>1, <1>7, <1>12, <3>1, <3>2, FinishedKept
    <3>4. column_values[k] \in Nat /\ Len(r[k]) \in Nat
      <4>1. k \in 1 .. Len(column_values)
        OBVIOUS
      <4>2. column_values[k] \in Nat
        BY <1>2, <4>1
      <4> QED
        BY <3>3, <4>2
    <3> HIDE DEF r, n, text
    <3> QED
      BY <1>2, <1>12, <3>3, <3>4
  <2> QED
    BY <2>1, <2>2
<1>14. at.column \in 1 .. Len(r)
  <2>1. Len(r) \in Nat
    BY <1>8
  <2> HIDE DEF r, at, n
  <2> QED
    BY <1>2, <1>3, <1>7, <2>1
<1> QED
  BY <1>3, <1>8, <1>13, <1>14

(* A separator is such an end. *)
LEMMA SeparatorEndsField ==
  ASSUME ParseInv, cpc = "scan", buff[b] \in {COMMA, LF}
  PROVE  /\ Separates(At, buff[b])
         /\ At.record <= Len(input.records) =>
              /\ At.column <= Len(input.records[At.record])
              /\ IsLastOf(input.records, At)
         /\ buff[b] = LF =>
              /\ At.record <= Len(input.records)
              /\ At.column = Len(input.records[At.record])
<1>1. InLine /\ Reader = b /\ buff[b] # NUL
  BY CharsAssumption DEF InLine, Reader, Chars
<1>2. Separates(At, buff[b])
  BY <1>1 DEF ParseInv, ReadingInv, AtPlace, Separates
<1>3. Means(input.records, At, buff[b])
  BY <1>1, NextPlace
<1> QED
  BY <1>2, <1>3 DEF Means

(* What the callback gets at the end of a record is the record. *)
LEMMA RecordIsRead ==
  ASSUME ParseInv, cpc = "scan",
         At.record <= Len(input.records),
         At.column = Len(input.records[At.record]),
         IsLastOf(input.records, At)
  PROVE  FieldsOf([buff EXCEPT ![b] = NUL]) = input.records[At.record]
<1> DEFINE r == input.records[At.record]
           text == [buff EXCEPT ![b] = NUL]
<1>1. r \in Seq(Seq(Chars)) /\ Len(r) \in Nat
  <2>1. input.records \in Records
    BY PlacesOfFile DEF ParseInv, CsvInv, LineInv
  <2>2. At.record \in Nat \ {0}
    <3>1. InLine
      BY DEF InLine
    <3>2. At.record = Len(delivered) + 1
      BY <3>1 DEF ParseInv, ReadingInv, AtPlace
    <3>3. Len(delivered) \in Nat
      BY DEF ParseInv, Delivered, Records
    <3> QED
      BY <3>2, <3>3
  <2> QED
    BY <2>1, <2>2 DEF Records
<1>2. /\ Len(r) = Len(column_values)
      /\ \A k \in 1 .. Len(column_values) :
           /\ r[k] \in Seq(Chars)
           /\ IsField(text, column_values[k], r[k])
           /\ column_values[k] + Len(r[k]) < b + 1
  <2>1. At.column <= Len(r)
    BY <1>1
  <2> QED
    BY <2>1, FieldsEnd
<1>3. /\ b \in Nat /\ line \in Nat /\ b <= line /\ line < MaxLine
      /\ MaxLine \in Nat /\ column_values \in Seq(Nat)
  <2>1. InLine /\ Reader = b
    BY DEF InLine, Reader
  <2> QED
    BY <2>1, InLineFacts
<1> HIDE DEF r, text
<1>4. \A k \in 1 .. Len(column_values) : Field(text, column_values[k]) = r[k]
  <2> SUFFICES ASSUME NEW k \in 1 .. Len(column_values)
               PROVE  Field(text, column_values[k]) = r[k]
    OBVIOUS
  <2>1. column_values[k] \in Nat
    BY <1>3
  <2>2. Len(r[k]) \in Nat
    BY <1>2
  <2>3. column_values[k] + Len(r[k]) < MaxLine
    <3>1. column_values[k] + Len(r[k]) < b + 1
      BY <1>2
    <3> QED
      BY <1>3, <2>1, <2>2, <3>1
  <2> QED
    BY <1>2, <2>1, <2>3, FieldIsRead
<1>5. DOMAIN column_values = 1 .. Len(column_values)
  BY <1>3
<1>6. FieldsOf(text) = [k \in 1 .. Len(r) |-> r[k]]
  <2>1. FieldsOf(text)
          = [k \in 1 .. Len(column_values) |-> Field(text, column_values[k])]
    BY <1>5 DEF FieldsOf
  <2> QED
    BY <1>2, <1>4, <2>1
<1>7. r = [k \in 1 .. Len(r) |-> r[k]]
  BY <1>1
<1> QED
  BY <1>6, <1>7 DEF r, text

(* A comma: the field before it is complete, an empty one begins behind it.*)
LEMMA CommaReads ==
  ASSUME ParseInv, Comma
  PROVE  ReadingInv'
<1> DEFINE at == At
<1>1. /\ cpc = "scan" /\ cpc' = "scan"
      /\ UNCHANGED <<input, fp, line, p, q, delivered, rc>>
      /\ b' = b + 1
      /\ buff' = [buff EXCEPT ![b] = NUL]
      /\ column_values' = Append(column_values, b + 1)
      /\ buff[b] = COMMA /\ COMMA # NUL /\ COMMA # LF
  BY CharsAssumption DEF Comma, Chars
<1>2. /\ InLine /\ Reader = b /\ Reader' = Reader + 1 /\ InLine'
  BY <1>1 DEF InLine, Reader
<1>3. /\ at \in Places /\ b \in Nat /\ column_values \in Seq(Nat)
      /\ Len(column_values) \in Nat \ {0}
  BY <1>1, <1>2, InLineFacts
<1>4. /\ at.record = Len(delivered) + 1
      /\ at.column = Len(column_values) /\ at.column > 0
      /\ at.mode \in {"plain", "quote", "after"}
  BY <1>1, <1>2 DEF ParseInv, ReadingInv, AtPlace
<1>5. Separates(at, COMMA)
  BY <1>4 DEF Separates
<1>6. At' = PlaceAfter(at, COMMA)
  BY <1>1, <1>2, NextAt
<1>7. /\ At'.record = at.record /\ At'.column = at.column + 1
      /\ At'.length = 0 /\ At'.mode = "plain"
  BY <1>3, <1>5, <1>6, AfterSeparator
<1>8. /\ Len(column_values') = Len(column_values) + 1
      /\ FieldStart' = b + 1
      /\ \A k \in 1 .. Len(column_values) :
           column_values'[k] = column_values[k]
  <2>1. /\ Len(column_values') = Len(column_values) + 1
        /\ column_values'[Len(column_values) + 1] = b + 1
        /\ \A k \in 1 .. Len(column_values) :
             column_values'[k] = column_values[k]
    BY <1>1, <1>3
  <2> QED
    BY <2>1 DEF FieldStart
<1>9. Fields'
  <2> SUFFICES ASSUME at.record <= Len(input.records)
               PROVE  Fields'
    BY <1>1, <1>7 DEF Fields
  <2> DEFINE r == input.records[at.record]
  <2>1. ASSUME NEW k \in 1 .. Len(column_values)
        PROVE  /\ IsField(buff', column_values[k], r[k])
               /\ column_values[k] + Len(r[k]) < b + 1
    <3>1. at.column <= Len(r) /\ IsLastOf(input.records, at)
      BY <1>1, SeparatorEndsField
    <3> QED
      BY <1>1, <3>1, FieldsEnd
  <2>2. ASSUME NEW k \in 1 .. Len(column_values') - 1
        PROVE  /\ IsField(buff', column_values'[k], r[k])
               /\ column_values'[k] + Len(r[k]) < FieldStart'
    <3>1. k \in 1 .. Len(column_values)
      BY <1>3, <1>8
    <3> HIDE DEF r
    <3> QED
      BY <1>8, <2>1, <3>1
  <2>3. input'.records[At'.record] = r
    BY <1>1, <1>7
  <2>4. Holds(buff', FieldStart', FieldAt(input'.records, At'), At'.length)
    BY <1>7 DEF Holds
  <2> HIDE DEF r
  <2> QED
    BY <2>2, <2>3, <2>4 DEF Fields
<1>10. input'.chars[Position'] # LF
  <2>1. Position' = Position + 1
    BY <1>1, <1>2, PlaceMoves
  <2>2. input.chars[Position + 1] = COMMA
    BY <1>1, <1>2, NextPlace
  <2> QED
    BY <1>1, <2>1, <2>2
<1> HIDE DEF at
<1>11. AtPlace'
  <2>1. FieldStart' + At'.length = b'
    BY <1>1, <1>3, <1>7, <1>8
  <2>2. At'.column = Len(column_values') /\ At'.column > 0
    BY <1>3, <1>4, <1>7, <1>8
  <2> QED
    BY <1>1, <1>4, <1>7, <2>1, <2>2 DEF AtPlace
<1>12. LineEnded'
  <2>1. column_values'[1] = column_values[1]
    BY <1>3, <1>8
  <2> QED
    BY <1>1, <1>2, <1>10, <2>1 DEF ParseInv, ReadingInv, LineEnded
<1> QED
  BY <1>9, <1>11, <1>12 DEF ReadingInv

(* What is delivered is a record of the file, perhaps with fields that the *)
(* bytes behind an unended last line hold.                                 *)
LEMMA DeliveredGrows ==
  ASSUME ParseInv, NEW extra \in {<<>>} \union Stale,
         Len(delivered) < Len(input.records),
         delivered' = Append(delivered,
                             input.records[Len(delivered) + 1] \o extra),
         extra # <<>> => Unended /\ Len(delivered) + 1 = Len(input.records),
         input' = input
  PROVE  /\ Delivered'
         /\ Len(delivered') = Len(delivered) + 1
         /\ delivered'[Len(delivered')]
              = input.records[Len(delivered) + 1] \o extra
<1> DEFINE n == Len(delivered)
           r == input.records[n + 1]
           new == r \o extra
<1>1. input.records \in Seq(Seq(Seq(Chars)))
      /\ delivered \in Seq(Seq(Seq(Chars)))
  BY PlacesOfFile DEF ParseInv, CsvInv, LineInv, Delivered, Records
<1>2. n \in Nat /\ Len(input.records) \in Nat
  BY <1>1
<1>3. r \in Seq(Seq(Chars))
  BY <1>1, <1>2
<1>4. extra \in Seq(Seq(Chars))
  <2>1. <<>> \in Seq(Seq(Chars))
    OBVIOUS
  <2> QED
    BY <2>1, InputsAssumption
<1>5. new \in Seq(Seq(Chars)) /\ (extra = <<>> => new = r)
  BY <1>3, <1>4
<1>6. /\ delivered' \in Seq(Seq(Seq(Chars)))
      /\ Len(delivered') = n + 1
      /\ delivered'[n + 1] = new
      /\ \A i \in 1 .. n : delivered'[i] = delivered[i]
  <2>1. delivered' = Append(delivered, new)
    OBVIOUS
  <2> HIDE DEF new
  <2> QED
    BY <1>1, <1>5, <2>1
<1>7. DOMAIN delivered' = 1 .. n + 1 /\ DOMAIN delivered = 1 .. n
  BY <1>1, <1>6
<1>8. ASSUME NEW i \in 1 .. n + 1
      PROVE  \/ delivered'[i] = input.records[i]
             \/ /\ Unended
                /\ i = Len(input.records)
                /\ \E e \in Stale : delivered'[i] = input.records[i] \o e
  <2>1. CASE i \in 1 .. n
    BY <1>6, <1>7, <2>1 DEF ParseInv, Delivered, DeliversPrefix
  <2>2. CASE i = n + 1 /\ extra = <<>>
    BY <1>5, <1>6, <2>2
  <2>3. CASE i = n + 1 /\ extra # <<>>
    <3>1. Unended /\ i = Len(input.records) /\ extra \in Stale
      BY <2>3
    <3>2. delivered'[i] = input.records[i] \o extra
      BY <1>6, <2>3
    <3> QED
      BY <3>1, <3>2
  <2>4. i \in 1 .. n \/ i = n + 1
    BY <1>2
  <2> HIDE DEF n
  <2> QED
    BY <2>1, <2>2, <2>3, <2>4
<1>9. Unended' = Unended
  BY DEF Unended
<1> HIDE DEF r, new
<1>10. Delivered'
  <2>1. Len(delivered') <= Len(input'.records)
    BY <1>2, <1>6
  <2>2. delivered' \in Records
    BY <1>6 DEF Records
  <2>3. \A i \in DOMAIN delivered' :
          \/ delivered'[i] = input'.records[i]
          \/ /\ Unended'
             /\ i = Len(input'.records)
             /\ \E e \in Stale : delivered'[i] = input'.records[i] \o e
    BY <1>7, <1>8, <1>9
  <2> HIDE DEF n
  <2> QED
    BY <2>1, <2>2, <2>3 DEF Delivered, DeliversPrefix
<1> QED
  BY <1>6, <1>10 DEF new, r

(* The newline that ends a record ends the line, and the fields the        *)
(* callback gets are those of the record whose turn it is.                 *)
LEMMA EndOfRecordDelivers ==
  ASSUME ParseInv, EndOfRecord
  PROVE  /\ ReadingInv'
         /\ Delivered'
         /\ Len(delivered) < Len(input.records)
         /\ delivered'[Len(delivered')] = input.records[Len(delivered) + 1]
         /\ Len(delivered') = Len(delivered) + 1
         /\ input.chars[fp] = LF
<1> DEFINE at == At
           r == input.records[at.record]
<1>1. /\ cpc = "scan" /\ cpc' = "read"
      /\ UNCHANGED <<input, fp, line, b, p, q, column_values, rc>>
      /\ buff' = [buff EXCEPT ![b] = NUL]
      /\ delivered' = Append(delivered, FieldsOf([buff EXCEPT ![b] = NUL]))
      /\ buff[b] = LF /\ LF # NUL
  BY CharsAssumption DEF EndOfRecord, Chars
<1>2. /\ InLine /\ Reader = b
  BY <1>1 DEF InLine, Reader
<1>3. /\ at \in Places /\ b \in Nat
      /\ b < line /\ line \in Nat
      /\ fp \in Nat /\ line <= fp
      /\ Len(input.chars) \in Nat /\ fp <= Len(input.chars)
  BY <1>1, <1>2, InLineFacts, NextPlace
<1>4. at.record = Len(delivered) + 1
  BY <1>1, <1>2 DEF ParseInv, ReadingInv, AtPlace
<1>5. /\ Separates(at, LF)
      /\ at.record <= Len(input.records)
      /\ at.column = Len(r)
      /\ IsLastOf(input.records, at)
  BY <1>1, SeparatorEndsField
<1>6. FieldsOf([buff EXCEPT ![b] = NUL]) = r
  BY <1>1, <1>5, RecordIsRead
<1>7. Len(delivered) \in Nat /\ Len(input.records) \in Nat
      /\ input.records \in Seq(Seq(Seq(Chars)))
  BY PlacesOfFile DEF ParseInv, CsvInv, LineInv, Delivered, Records
<1>8. Len(delivered) < Len(input.records)
  <2> HIDE DEF at
  <2> QED
    BY <1>4, <1>5, <1>7
<1>9. /\ Delivered'
      /\ Len(delivered') = Len(delivered) + 1
      /\ delivered'[Len(delivered')] = input.records[Len(delivered) + 1]
  <2>1. input.records[Len(delivered) + 1] \in Seq(Seq(Chars))
    BY <1>7, <1>8
  <2>2. input.records[Len(delivered) + 1] \o <<>>
          = input.records[Len(delivered) + 1]
    BY <2>1
  <2>3. delivered' = Append(delivered,
                            input.records[Len(delivered) + 1] \o <<>>)
    BY <1>1, <1>4, <1>6, <2>2
  <2> QED
    BY <1>1, <1>8, <2>2, <2>3, DeliveredGrows
<1>10. Position + 1 = fp /\ input.chars[fp] = LF
  <2>1. input.chars[Position + 1] = LF
    BY <1>1, <1>2, NextPlace
  <2>2. Position + 1 = fp - line + (b + 1)
    BY <1>2, <1>3 DEF Position
  <2>3. b + 1 \notin 1 .. line - 1
    BY <2>1, <2>2 DEF ParseInv, ReadingInv, LineEnded
  <2>4. b + 1 = line
    BY <1>3, <2>3
  <2> QED
    BY <1>3, <2>1, <2>2, <2>4
<1>11. AtPlace'
  <2>1. input.places[Position + 2] = BeginningOf(at.record + 1)
    BY <1>1, <1>2, <1>3, <1>5, NextPlace, AfterSeparator
  <2>2. Position + 2 = fp + 1
    BY <1>2, <1>10, InLineFacts
  <2>3. at.record + 1 = Len(delivered') + 1
    BY <1>4, <1>9
  <2>4. input'.places[fp' + 1] = BeginningOf(Len(delivered') + 1)
    BY <1>1, <2>1, <2>2, <2>3
  <2> QED
    BY <1>1, <2>4 DEF AtPlace, InLine
<1>12. LineEnded' /\ Fields'
  BY <1>1 DEF LineEnded, Fields, InLine, ParseInv, ReadingInv
<1> QED
  BY <1>8, <1>9, <1>10, <1>11, <1>12 DEF ReadingInv

(* The reader is at the NUL only behind a line without a newline, which is *)
(* the last of the file, and at the end of its last record.                *)
LEMMA LastLineEnds ==
  ASSUME ParseInv, cpc = "scan", PastTheLine
  PROVE  /\ Unended
         /\ fp = Len(input.chars)
         /\ Len(delivered) + 1 = Len(input.records)
         /\ At.record = Len(input.records)
         /\ At.column = Len(input.records[At.record])
         /\ IsLastOf(input.records, At)
<1> DEFINE at == At
<1>1. InLine /\ Reader = b /\ buff[b] = NUL
  BY DEF InLine, Reader, PastTheLine
<1>2. /\ b \in Nat /\ line \in Nat \ {0} /\ b <= line
      /\ fp \in Nat /\ line <= fp
      /\ Len(input.chars) \in Nat /\ fp <= Len(input.chars)
  BY <1>1, InLineFacts
<1>3. input \in Inputs
  BY DEF ParseInv, CsvInv, LineInv
<1>4. b = line
  <2> SUFFICES ASSUME b < line
               PROVE  FALSE
    BY <1>2
  <2>1. buff[b] = input.chars[fp - line + b + 1]
    <3>1. b \in b .. line - 1
      BY <1>2
    <3> QED
      BY <1>1, <3>1 DEF ParseInv, CsvInv, UnreadIsIntact, Reader
  <2>2. fp - line + b + 1 \in 1 .. Len(input.chars)
    BY <1>2
  <2> QED
    BY <1>1, <1>3, <2>1, <2>2, InputTypes
<1>5. Position = fp /\ Reader > 0
  BY <1>1, <1>2, <1>4 DEF Position
<1>6. input.chars[fp] # LF
  BY <1>1, <1>5 DEF ParseInv, ReadingInv, LineEnded
<1>7. fp = Len(input.chars)
  BY <1>1, <1>6 DEF ParseInv, ReadingInv, LineEnded
<1>8. Unended
  <2>1. input.chars # <<>>
    BY <1>2, <1>7
  <2> QED
    BY <1>6, <1>7, <2>1 DEF Unended
<1>9. /\ at.record = Len(delivered) + 1
      /\ at.column = Len(column_values)
      /\ at.mode \in {"plain", "quote", "after"}
      /\ at.mode = "plain" => FieldStart + at.length = b
  BY <1>1 DEF ParseInv, ReadingInv, AtPlace
<1>10. EndsInRecord(at)
  <2> SUFFICES ASSUME at = BeginningOf(at.record)
               PROVE  FALSE
    BY <1>9 DEF EndsInRecord
  <2>1. at.column = 1 /\ at.length = 0 /\ at.mode = "plain"
    BY DEF BeginningOf
  <2>2. FieldStart = column_values[1]
    BY <1>9, <2>1 DEF FieldStart
  <2>3. column_values[1] = 0
    BY <1>1 DEF ParseInv, ReadingInv, LineEnded
  <2> HIDE DEF at
  <2> QED
    BY <1>2, <1>4, <1>9, <2>1, <2>2, <2>3
<1>11. EndsWell(input.records, at)
  <2>1. at = input.places[Len(input.chars) + 1]
    BY <1>5, <1>7 DEF At
  <2> HIDE DEF at
  <2> QED
    BY <1>3, <2>1, PlacesOfFile
<1>12. /\ at.record = Len(input.records)
       /\ at.column = Len(input.records[at.record])
       /\ IsLastOf(input.records, at)
  BY <1>10, <1>11 DEF EndsWell
<1> QED
  BY <1>7, <1>8, <1>9, <1>12

(* A newline behind the line ends the last record all the same; there may  *)
(* be fields before it.                                                    *)
LEMMA StaleNewlineDelivers ==
  ASSUME ParseInv, StaleNewline
  PROVE  /\ ReadingInv'
         /\ Delivered'
         /\ Len(delivered) + 1 = Len(input.records)
         /\ Len(delivered') = Len(delivered) + 1
         /\ \E extra \in Stale :
              delivered'[Len(delivered')]
                = input.records[Len(delivered) + 1] \o extra
         /\ Unended
         /\ fp = Len(input.chars)
<1>1. /\ cpc = "scan" /\ cpc' = "read" /\ PastTheLine
      /\ UNCHANGED <<input, fp, buff, line, b, p, q, column_values, rc>>
  BY DEF StaleNewline
<1>2. PICK extra \in Stale :
        delivered' = Append(delivered, FieldsOf(buff) \o extra)
  BY DEF StaleNewline
<1>3. /\ Unended /\ fp = Len(input.chars)
      /\ Len(delivered) + 1 = Len(input.records)
      /\ At.record = Len(input.records)
      /\ At.column = Len(input.records[At.record])
      /\ IsLastOf(input.records, At)
  BY <1>1, LastLineEnds
<1>4. buff = [buff EXCEPT ![b] = NUL]
  <2>1. buff \in [0 .. MaxLine - 1 -> Chars \union {NUL}]
    BY DEF ParseInv, CsvInv, LineInv
  <2> QED
    BY <1>1, <2>1 DEF PastTheLine
<1>5. Len(delivered) \in Nat /\ Len(input.records) \in Nat
  BY PlacesOfFile DEF ParseInv, CsvInv, LineInv, Delivered, Records
<1>6. FieldsOf(buff) = input.records[Len(delivered) + 1]
  <2>1. At.record <= Len(input.records)
    BY <1>3, <1>5
  <2> QED
    BY <1>1, <1>3, <1>4, <2>1, RecordIsRead
<1>7. /\ Delivered'
      /\ Len(delivered') = Len(delivered) + 1
      /\ delivered'[Len(delivered')]
           = input.records[Len(delivered) + 1] \o extra
  <2>1. Len(delivered) < Len(input.records)
    BY <1>3, <1>5
  <2> QED
    BY <1>1, <1>2, <1>3, <1>6, <2>1, DeliveredGrows
<1>8. AtPlace'
  <2>1. Unended' /\ fp' = Len(input'.chars)
        /\ Len(delivered') = Len(input'.records)
    BY <1>1, <1>3, <1>7 DEF Unended
  <2> QED
    BY <1>1, <2>1 DEF AtPlace, AllTaken, InLine
<1>9. LineEnded' /\ Fields'
  BY <1>1 DEF LineEnded, Fields, InLine, ParseInv, ReadingInv
<1> QED
  BY <1>3, <1>7, <1>8, <1>9 DEF ReadingInv

(* fgets takes a line at the beginning of a record. *)
LEMMA ReadLineReads ==
  ASSUME ParseInv, ReadLine
  PROVE  ReadingInv'
<1>1. PICK n \in 1 .. Room :
        /\ fp + n <= Len(input.chars)
        /\ LineEnds(n)
        /\ \A k \in 1 .. n - 1 : ~ LineEnds(k)
        /\ fp' = fp + n
        /\ line' = n
        /\ buff' = [i \in 0 .. MaxLine - 1 |->
                      IF i < n THEN input.chars[fp + i + 1]
                      ELSE IF i = n THEN NUL ELSE buff[i]]
        /\ IF TooWide(buff', n)
           THEN Return("E_LINE_TOO_WIDE")
           ELSE cpc' = "scan" /\ UNCHANGED rc
  BY DEF ReadLine
<1>2. /\ cpc = "read" /\ b' = 0 /\ p' = 0 /\ q' = 0
      /\ column_values' = <<0>>
      /\ UNCHANGED <<input, delivered>>
  BY DEF ReadLine
<1>3. /\ n \in Nat /\ n > 0 /\ n <= MaxLine - 1 /\ MaxLine \in Nat
      /\ fp \in Nat /\ Len(input.chars) \in Nat
  BY <1>1, InputsAssumption, InputTypes DEF Room, ParseInv, CsvInv, LineInv
<1>4. fp' - line' = fp
  BY <1>1, <1>3
<1>5. ASSUME NEW i \in 1 .. n - 1
      PROVE  input.chars[fp + i] # LF
  <2>1. ~ LineEnds(i)
    BY <1>1
  <2>2. i > 0
    OBVIOUS
  <2> QED
    BY <2>1, <2>2 DEF LineEnds
<1>6. CASE TooWide(buff', n)
  <2>1. cpc' = "done" /\ rc' = "E_LINE_TOO_WIDE"
    BY <1>1, <1>6 DEF Return
  <2>2. AtPlace' /\ Fields'
    BY <2>1 DEF AtPlace, Fields, InLine
  <2>3. LineEnded'
    BY <1>1, <1>2, <1>4, <1>5, <2>1 DEF LineEnded, InLine
  <2> QED
    BY <2>2, <2>3 DEF ReadingInv
<1>7. CASE ~ TooWide(buff', n)
  <2>1. cpc' = "scan" /\ rc' = rc
    BY <1>1, <1>7
  <2>2. Reader' = 0 /\ Position' = fp
    BY <1>2, <1>3, <1>4, <2>1 DEF Reader, Position
  <2>3. At' = BeginningOf(Len(delivered) + 1)
    <3>1. ~ AllTaken
      BY <1>1, <1>3 DEF AllTaken
    <3> QED
      BY <1>2, <2>2, <3>1 DEF At, ParseInv, ReadingInv, AtPlace
  <2>4. Len(column_values') = 1 /\ FieldStart' = 0
    BY <1>2 DEF FieldStart
  <2>5. /\ At'.record = Len(delivered) + 1 /\ At'.column = 1
        /\ At'.length = 0 /\ At'.mode = "plain"
    BY <2>3 DEF BeginningOf
  <2>6. AtPlace'
    BY <1>2, <2>1, <2>4, <2>5 DEF AtPlace
  <2>7. Fields'
    BY <2>4, <2>5 DEF Fields, Holds
  <2>8. input.chars[fp + n] = LF \/ fp + n = Len(input.chars)
    <3> SUFFICES ASSUME n = Room
                 PROVE  input.chars[fp + n] = LF
      BY <1>1 DEF LineEnds
    <3>1. buff'[n - 1] = LF
      BY <1>7 DEF TooWide
    <3>2. buff'[n - 1] = input.chars[fp + (n - 1) + 1]
      BY <1>1, <1>3
    <3>3. fp + (n - 1) + 1 = fp + n
      BY <1>3
    <3> QED
      BY <3>1, <3>2, <3>3
  <2>9. LineEnded'
    <3>1. rc' = "none"
      BY <1>2, <2>1 DEF ParseInv, ReadingInv, LineEnded
    <3>2. \A i \in 1 .. line' - 1 : input'.chars[fp' - line' + i] # LF
      BY <1>1, <1>2, <1>4, <1>5
    <3>3. line' > 0 /\ (input'.chars[fp'] = LF \/ fp' = Len(input'.chars))
      BY <1>1, <1>2, <1>3, <2>8
    <3>4. ~ (Reader' > 0)
      BY <2>2
    <3>5. column_values'[1] = 0
      BY <1>2
    <3> QED
      BY <2>1, <3>1, <3>2, <3>3, <3>4, <3>5 DEF LineEnded, InLine
  <2> QED
    BY <2>6, <2>7, <2>9 DEF ReadingInv
<1> QED
  BY <1>6, <1>7

(* The other steps end the parse, or leave it where it is. *)
LEMMA EndsRead ==
  ASSUME ParseInv,
         \/ EndOfFile \/ GoesAstray \/ StaleQuote
         \/ QuoteUnterminated \/ QuoteIllFormatted
  PROVE  ReadingInv' /\ UNCHANGED <<input, delivered>>
<1>1. /\ UNCHANGED <<input, fp, line, delivered>>
      /\ \/ cpc # "done" /\ cpc' = "astray" /\ rc' = rc
         \/ cpc' = "done" /\ rc' \in {"ok", "E_QUOTED_STRING"}
  BY DEF EndOfFile, GoesAstray, StaleQuote, QuoteUnterminated,
     QuoteIllFormatted, Return, ParseInv, ReadingInv, LineEnded
<1>2. AtPlace' /\ Fields'
  BY <1>1 DEF AtPlace, Fields, InLine
<1>3. LineEnded'
  BY <1>1 DEF ParseInv, ReadingInv, LineEnded, InLine
<1> QED
  BY <1>1, <1>2, <1>3 DEF ReadingInv

(* Before the first line: the beginning of the first record.               *)
LEMMA ParseInvInit ==
  ASSUME Init
  PROVE  ReadingInv /\ Delivered
<1>1. input \in Inputs /\ fp = 0 /\ cpc = "read" /\ line = 0
      /\ delivered = <<>> /\ rc = "none"
  BY DEF Init
<1>2. input.places[1] = BeginningOf(1) /\ input.records \in Records
  BY <1>1, PlacesOfFile
<1>3. AtPlace /\ LineEnded /\ Fields
  BY <1>1, <1>2 DEF AtPlace, LineEnded, Fields, InLine
<1>4. Delivered
  <2>1. Len(input.records) \in Nat
    BY <1>2 DEF Records
  <2> QED
    BY <1>1, <2>1 DEF Delivered, DeliversPrefix, Records
<1> QED
  BY <1>3, <1>4 DEF ReadingInv

(* What was delivered stays delivered. *)
LEMMA DeliveredStays ==
  ASSUME ParseInv, UNCHANGED <<input, delivered>>
  PROVE  Delivered'
BY DEF ParseInv, Delivered, DeliversPrefix, Unended

(* Every step of the parser keeps to its place.                            *)
LEMMA ParseInvNext ==
  ASSUME ParseInv, [Next]_vars
  PROVE  ReadingInv' /\ Delivered'
<1>1. CASE UNCHANGED vars
  <2>1. UNCHANGED <<input, fp, cpc, buff, line, b, p, q, column_values,
                    delivered, rc>>
    BY <1>1 DEF vars
  <2>2. Reader' = Reader /\ Position' = Position /\ InLine' = InLine
    BY <2>1 DEF Reader, Position, InLine
  <2>3. At' = At /\ FieldStart' = FieldStart
    BY <2>1, <2>2 DEF At, FieldStart
  <2>4. LineEnded'
    BY <2>1, <2>2 DEF ParseInv, ReadingInv, LineEnded
  <2>5. AtPlace'
    BY <2>1, <2>2, <2>3
    DEF ParseInv, ReadingInv, AtPlace, AllTaken, Unended
  <2>6. Fields'
    BY <2>1, <2>2, <2>3
    DEF ParseInv, ReadingInv, Fields, FieldAt, IsField, Holds
  <2> QED
    BY <2>1, <2>4, <2>5, <2>6, DeliveredStays DEF ReadingInv
<1>2. CASE Callback
  BY <1>2, EndOfRecordDelivers, StaleNewlineDelivers DEF Callback
<1>3. CASE ReadLine
  BY <1>3, ReadLineReads, DeliveredStays DEF ReadLine
<1>4. CASE \/ EndOfFile \/ GoesAstray \/ StaleQuote
           \/ QuoteUnterminated \/ QuoteIllFormatted
  BY <1>4, EndsRead, DeliveredStays
<1>5. CASE \/ Comma \/ OpenQuote \/ OtherCharacter \/ DoubledQuote
           \/ QuotedCharacter \/ CloseQuote \/ SkipBlank \/ BackToLine
  <2>1. UNCHANGED <<input, delivered>>
    BY <1>5 DEF Comma, OpenQuote, OtherCharacter, DoubledQuote,
       QuotedCharacter, CloseQuote, SkipBlank, BackToLine
  <2>2. ReadingInv'
    BY <1>5, CommaReads, OpenQuoteReads, OtherCharacterReads,
       DoubledQuoteReads, QuotedCharacterReads, CloseQuoteReads,
       SkipBlankReads, BackToLineReads
  <2> QED
    BY <2>1, <2>2, DeliveredStays
<1> QED
  BY <1>1, <1>2, <1>3, <1>4, <1>5 DEF Next, ParserStep, Stopped

(* The parser is at the place in the file that the format gives it, with   *)
(* the records before it delivered and the fields before it in the buffer. *)
THEOREM ParseInvariant == Spec => []ParseInv
<1>1. CsvInv /\ TypeOK /\ ReadingInv /\ Delivered => ParseInv
  BY DEF ParseInv
<1>2. Init => ReadingInv /\ Delivered
  BY ParseInvInit
<1>3. /\ CsvInv /\ TypeOK /\ ReadingInv /\ Delivered
      /\ [Next]_vars
      => (ReadingInv /\ Delivered)'
  BY <1>1, ParseInvNext
<1> QED
  BY <1>1, <1>2, <1>3, CsvInvariant, TypeCorrect, PTL DEF Spec

(* Whatever a file holds and wherever the parse ends, the callback has     *)
(* received the file's records from the first one on, each of them whole   *)
(* and as it was before it was quoted; only a last one that no newline     *)
(* ends may have further fields behind its own.                            *)
THEOREM DeliversPrefixOfFile == Spec => []DeliversPrefix
<1>1. ParseInv => DeliversPrefix
  BY DEF ParseInv, Delivered
<1> QED
  BY <1>1, ParseInvariant, PTL

-----------------------------------------------------------------------------
(* Behind the records of the file nothing is left to deliver. *)
LEMMA BehindRecords ==
  ASSUME ParseInv, Len(delivered) + 1 > Len(input.records)
  PROVE  Len(delivered) = Len(input.records)
<1>1. Len(delivered) \in Nat /\ Len(input.records) \in Nat
  BY PlacesOfFile DEF ParseInv, CsvInv, LineInv, Delivered, Records
<1>2. Len(delivered) <= Len(input.records)
  BY DEF ParseInv, Delivered, DeliversPrefix
<1> QED
  BY <1>1, <1>2

(* Where a file ends outside of a record, all of them are behind it.       *)
LEMMA EndsBehindRecords ==
  ASSUME ParseInv, NEW at, at = input.places[Len(input.chars) + 1],
         ~ EndsInRecord(at), at.record = Len(delivered) + 1
  PROVE  Len(delivered) = Len(input.records)
<1>1. EndsWell(input.records, at)
  BY PlacesOfFile DEF ParseInv, CsvInv, LineInv
<1>2. Len(delivered) + 1 = Len(input.records) + 1
  BY <1>1 DEF EndsWell
<1> QED
  BY <1>2, PlacesOfFile DEF ParseInv, CsvInv, LineInv, Delivered, Records

(* A file that has been read to its end has been delivered.                *)
LEMMA EndOfFileComplete ==
  ASSUME ParseInv, EndOfFile
  PROVE  Len(delivered) = Len(input.records)
<1> DEFINE at == input.places[Len(input.chars) + 1]
<1>1. cpc = "read" /\ fp = Len(input.chars)
  BY DEF EndOfFile
<1>2. CASE at = BeginningOf(Len(delivered) + 1)
  <2>1. ~ EndsInRecord(at) /\ at.record = Len(delivered) + 1
    BY <1>2 DEF EndsInRecord, BeginningOf
  <2> QED
    BY <2>1, EndsBehindRecords
<1>3. CASE AllTaken
  BY <1>3 DEF AllTaken
<1> QED
  BY <1>1, <1>2, <1>3 DEF ParseInv, ReadingInv, AtPlace

(* A quote that is open where the line ends: the line has ended within a   *)
(* field, or the file within what is no record.                            *)
LEMMA UnterminatedForCause ==
  ASSUME ParseInv, QuoteUnterminated
  PROVE  \/ Len(delivered) = Len(input.records)
         \/ HasLineBreak(input.records[Len(delivered) + 1])
<1> DEFINE at == At
           last == input.places[fp]
<1>1. cpc = "quoted" /\ buff[q] = NUL /\ InLine /\ Reader = q
  BY DEF QuoteUnterminated, InLine, Reader
<1>2. /\ q \in Nat /\ line \in Nat \ {0} /\ q <= line
      /\ fp \in Nat /\ line <= fp
      /\ Len(input.chars) \in Nat /\ fp <= Len(input.chars)
  BY <1>1, InLineFacts
<1>3. input \in Inputs
  BY DEF ParseInv, CsvInv, LineInv
<1>4. q = line
  <2> SUFFICES ASSUME q < line
               PROVE  FALSE
    BY <1>2
  <2>1. buff[q] = input.chars[fp - line + q + 1]
    <3>1. q \in q .. line - 1
      BY <1>2
    <3> QED
      BY <1>1, <3>1 DEF ParseInv, CsvInv, UnreadIsIntact
  <2>2. fp - line + q + 1 \in 1 .. Len(input.chars)
    BY <1>2
  <2> QED
    BY <1>1, <1>3, <2>1, <2>2, InputTypes
<1>5. at = input.places[fp + 1]
  BY <1>1, <1>2, <1>4 DEF At, Position
<1>6. at.mode = "quoted" /\ at.record = Len(delivered) + 1
  BY <1>1 DEF ParseInv, ReadingInv, AtPlace
<1>7. CASE fp = Len(input.chars)
  <2>1. ~ EndsInRecord(at)
    BY <1>6 DEF EndsInRecord
  <2> HIDE DEF at
  <2> QED
    BY <1>5, <1>6, <1>7, <2>1, EndsBehindRecords
<1>8. CASE input.chars[fp] = LF
  <2>1. /\ fp \in 1 .. Len(input.chars) /\ fp \in 1 .. Len(input.chars) + 1
    BY <1>2
  <2>2. /\ last \in Places
        /\ at = PlaceAfter(last, LF)
        /\ Means(input.records, last, LF)
    BY <1>3, <1>5, <1>8, <2>1, PlacesOfFile
  <2>3. last.mode = "quoted" /\ last.record = at.record
    BY <1>6, <2>2, LineBreakInQuotes
  <2>4. IsContent(last, LF)
    BY <2>3, CharsAssumption DEF IsContent
  <2>5. CASE last.record <= Len(input.records)
    <3> DEFINE r == input.records[last.record]
    <3>1. /\ last.column <= Len(r)
          /\ last.length < Len(r[last.column])
          /\ r[last.column][last.length + 1] = LF
      BY <2>2, <2>4, <2>5 DEF Means, FieldAt
    <3>2. last.length \in Nat /\ last.column \in Nat \ {0}
          /\ last.record \in Nat \ {0}
      <4>1. last.length \in Nat /\ last.column \in Nat
            /\ last.record \in Nat
        BY <2>2 DEF Places
      <4>2. last.column = at.column /\ at.column > 0
        BY <1>1, <2>2, <2>4, AfterContent DEF ParseInv, ReadingInv, AtPlace
      <4>3. Len(delivered) \in Nat
        BY DEF ParseInv, Delivered, Records
      <4> HIDE DEF last, at
      <4> QED
        BY <1>6, <2>3, <4>1, <4>2, <4>3
    <3>3. input.records \in Seq(Seq(Seq(Chars)))
      BY <1>3, PlacesOfFile DEF Records
    <3> HIDE DEF last
    <3>4. r \in Seq(Seq(Chars))
      BY <2>5, <3>2, <3>3
    <3> HIDE DEF r
    <3>5. last.column \in DOMAIN r /\ r[last.column] \in Seq(Chars)
      BY <3>1, <3>2, <3>4
    <3>6. last.length + 1 \in DOMAIN r[last.column]
      BY <3>1, <3>2, <3>5
    <3>7. HasLineBreak(r)
      BY <3>1, <3>5, <3>6 DEF HasLineBreak
    <3> QED
      BY <1>6, <2>3, <3>7 DEF r
  <2>6. CASE ~ (last.record <= Len(input.records))
    <3>1. Len(delivered) \in Nat /\ Len(input.records) \in Nat
      BY PlacesOfFile DEF ParseInv, CsvInv, LineInv, Delivered, Records
    <3> HIDE DEF last, at
    <3> QED
      BY <1>6, <2>3, <2>6, <3>1, BehindRecords
  <2> QED
    BY <2>5, <2>6
<1> QED
  BY <1>1, <1>7, <1>8 DEF ParseInv, ReadingInv, LineEnded

(* Something behind a closing quote: what the format gives no meaning.     *)
LEMMA IllFormattedForCause ==
  ASSUME ParseInv, QuoteIllFormatted
  PROVE  Len(delivered) = Len(input.records)
<1> DEFINE at == At
           next == PlaceAfter(at, buff[q])
<1>1. /\ cpc = "afterQuote" /\ InLine /\ Reader = q
      /\ buff[q] \notin {COMMA, LF, NUL, BLANK}
  BY DEF QuoteIllFormatted, InLine, Reader
<1>2. at \in Places /\ Position \in Nat /\ Len(input.chars) \in Nat
  BY <1>1, InLineFacts
<1>3. /\ at.record = Len(delivered) + 1
      /\ at.mode \in {"quote", "after"}
      /\ at.mode = "quote" => buff[q] # QUOTE
  BY <1>1 DEF ParseInv, ReadingInv, AtPlace
<1>4. next.mode = "broken" /\ next.record = at.record
  BY <1>1, <1>2, <1>3, AfterNothing
<1>5. input.places[Position + 2] = next
      /\ Position + 1 \in 1 .. Len(input.chars)
  BY <1>1, NextPlace
<1>6. input \in Inputs
  BY DEF ParseInv, CsvInv, LineInv
<1> HIDE DEF next
<1>7. CASE Position + 2 \in 1 .. Len(input.chars)
  <2>1. next.record > Len(input.records)
    BY <1>4, <1>5, <1>6, <1>7, PlacesOfFile
  <2> HIDE DEF at
  <2> QED
    BY <1>3, <1>4, <2>1, BehindRecords
<1>8. CASE Position + 2 = Len(input.chars) + 1
  <2>1. ~ EndsInRecord(next)
    BY <1>4 DEF EndsInRecord
  <2> HIDE DEF at
  <2> QED
    BY <1>3, <1>4, <1>5, <1>8, <2>1, EndsBehindRecords
<1> QED
  BY <1>2, <1>5, <1>7, <1>8

(* Whatever ends a parse that is not complete has its cause in the file.   *)
LEMMA CauseKept ==
  ASSUME ParseInv, EndsOnlyForCause, [Next]_vars
  PROVE  EndsOnlyForCause'
<1>1. CASE UNCHANGED vars
  BY <1>1
  DEF vars, EndsOnlyForCause, TooWideForBuffer, LastFillsBuffer, FillsBuffer,
      Unended
<1>7. Len(delivered) \in Nat /\ Len(input.records) \in Nat
  BY PlacesOfFile DEF ParseInv, CsvInv, LineInv, Delivered, Records
<1>2. CASE EndOfFile
  <2>1. ~ (Len(delivered) < Len(input.records))
    BY <1>2, EndOfFileComplete, <1>7
  <2> QED
    BY <1>2, <2>1 DEF EndOfFile, EndsOnlyForCause
<1>3. CASE QuoteUnterminated
  <2>1. \/ ~ (Len(delivered) < Len(input.records))
        \/ HasLineBreak(input.records[Len(delivered) + 1])
    BY <1>3, UnterminatedForCause, <1>7
  <2> QED
    BY <1>3, <2>1 DEF QuoteUnterminated, Return, EndsOnlyForCause
<1>4. CASE QuoteIllFormatted
  <2>1. ~ (Len(delivered) < Len(input.records))
    BY <1>4, IllFormattedForCause, <1>7
  <2> QED
    BY <1>4, <2>1 DEF QuoteIllFormatted, EndsOnlyForCause
<1>8. CASE StaleQuote
  <2>1. Unended /\ Len(delivered) + 1 = Len(input.records)
    BY <1>8, LastLineEnds DEF StaleQuote
  <2>2. /\ UNCHANGED <<input, delivered>> /\ rc' = "E_QUOTED_STRING"
    BY <1>8 DEF StaleQuote, Return
  <2>3. Unended'
    BY <2>1, <2>2 DEF Unended
  <2> QED
    BY <2>1, <2>2, <2>3 DEF EndsOnlyForCause
<1>5. CASE ReadLine
  <2> SUFFICES ASSUME cpc' = "done"
               PROVE  EndsOnlyForCause'
    BY DEF EndsOnlyForCause
  <2>1. PICK n \in 1 .. Room :
          /\ fp + n <= Len(input.chars)
          /\ fp' = fp + n
          /\ line' = n
          /\ buff' = [i \in 0 .. MaxLine - 1 |->
                        IF i < n THEN input.chars[fp + i + 1]
                        ELSE IF i = n THEN NUL ELSE buff[i]]
          /\ TooWide(buff', n) /\ rc' = "E_LINE_TOO_WIDE"
    BY <1>5 DEF ReadLine, Return
  <2>2. /\ n \in Nat /\ n > 0 /\ n = MaxLine - 1 /\ MaxLine \in Nat
        /\ fp \in Nat /\ Len(input.chars) \in Nat
    BY <2>1, InputsAssumption, InputTypes
    DEF Room, TooWide, ParseInv, CsvInv, LineInv
  <2>3. input' = input
    BY <1>5 DEF ReadLine
  <2>4. \A i \in 1 .. n - 1 : input'.chars[fp' - line' + i] # LF
    BY <1>5, <2>1, ReadLineReads DEF ReadingInv, LineEnded
  <2>5. input'.chars[fp' - line' + n] # LF
    <3>1. buff'[n - 1] = input.chars[fp + (n - 1) + 1]
      BY <2>1, <2>2
    <3>2. fp + (n - 1) + 1 = fp' - line' + n
      BY <2>1, <2>2
    <3> QED
      BY <2>1, <2>3, <3>1, <3>2 DEF TooWide
  <2>6. \A i \in 1 .. MaxLine - 1 : input'.chars[fp' - line' + i] # LF
    <3> TAKE i \in 1 .. MaxLine - 1
    <3>1. i \in 1 .. n - 1 \/ i = n
      BY <2>2
    <3> QED
      BY <2>4, <2>5, <3>1
  <2>7. TooWideForBuffer' \/ LastFillsBuffer'
    <3>1. fp' < Len(input'.chars) \/ fp' = Len(input'.chars)
      <4>1. fp' \in Nat /\ fp' <= Len(input.chars)
        BY <2>1, <2>2
      <4> QED
        BY <2>2, <2>3, <4>1
    <3>2. FillsBuffer'
      BY <2>6 DEF FillsBuffer
    <3> QED
      BY <3>1, <3>2 DEF TooWideForBuffer, LastFillsBuffer
  <2> QED
    BY <2>1, <2>7 DEF EndsOnlyForCause
<1>6. CASE \/ EndOfRecord \/ StaleNewline \/ GoesAstray
           \/ Comma \/ OpenQuote \/ OtherCharacter \/ DoubledQuote
           \/ QuotedCharacter \/ CloseQuote \/ SkipBlank \/ BackToLine
  <2>1. cpc' # "done"
    BY <1>6 DEF EndOfRecord, StaleNewline, GoesAstray, Comma, OpenQuote,
       OtherCharacter, DoubledQuote, QuotedCharacter, CloseQuote, SkipBlank, BackToLine
  <2> QED
    BY <2>1 DEF EndsOnlyForCause
<1> QED
  BY <1>1, <1>2, <1>3, <1>4, <1>5, <1>6, <1>8
  DEF Next, ParserStep, Callback, Stopped

(* A parse ends before it has delivered all of the file only at a line     *)
(* that does not fit the buffer, in a record with a line break in a field, *)
(* or at a last line without a newline.                                    *)
THEOREM EndsForCause == Spec => []EndsOnlyForCause
<1>1. Init => EndsOnlyForCause
  BY DEF Init, EndsOnlyForCause
<1>2. ParseInv /\ EndsOnlyForCause /\ [Next]_vars => EndsOnlyForCause'
  BY CauseKept
<1> QED
  BY <1>1, <1>2, ParseInvariant, PTL DEF Spec

(* A comma for which column_values has no room begins a column beyond it.  *)
LEMMA PastTheColumnsForCause ==
  ASSUME ParseInv, cpc = "scan", PastTheColumns
  PROVE  \E i \in DOMAIN input.places : input.places[i].column > MaxColumns
<1> DEFINE at == At
<1>1. /\ InLine /\ Reader = b
      /\ buff[b] = COMMA /\ Len(column_values) >= MaxColumns /\ COMMA # NUL
  BY CharsAssumption DEF InLine, Reader, PastTheColumns, Chars
<1>2. /\ at \in Places /\ Position \in Nat
      /\ Len(column_values) \in Nat /\ Len(input.chars) \in Nat
  BY <1>1, InLineFacts
<1>3. at.mode \in {"plain", "quote", "after"}
      /\ at.column = Len(column_values)
  BY <1>1 DEF ParseInv, ReadingInv, AtPlace
<1>4. input.places[Position + 2] = PlaceAfter(at, COMMA)
      /\ Position + 1 \in 1 .. Len(input.chars)
  BY <1>1, NextPlace
<1>5. PlaceAfter(at, COMMA).column = at.column + 1
  BY <1>2, <1>3, AfterSeparator DEF Separates
<1>6. Position + 2 \in DOMAIN input.places
  <2>1. input.places \in Seq(Places)
        /\ Len(input.places) = Len(input.chars) + 1
    BY PlacesOfFile DEF ParseInv, CsvInv, LineInv
  <2>2. Position + 2 \in 1 .. Len(input.places)
    BY <1>2, <1>4, <2>1
  <2> QED
    BY <2>1, <2>2
<1>7. input.places[Position + 2].column > MaxColumns
  <2> HIDE DEF at
  <2>1. MaxColumns \in Nat
    BY InputsAssumption
  <2> QED
    BY <1>1, <1>2, <1>3, <1>4, <1>5, <2>1
<1> QED
  BY <1>6, <1>7

(* The parser leaves its buffer or its array of fields only in a file      *)
(* whose last line has no newline, or one with a line of more fields than  *)
(* there is room for.                                                      *)
THEOREM StraysForCause == Spec => []StraysOnlyForCause
<1>1. Init => StraysOnlyForCause
  BY DEF Init, StraysOnlyForCause
<1>2. ParseInv /\ StraysOnlyForCause /\ [Next]_vars => StraysOnlyForCause'
  <2> SUFFICES ASSUME ParseInv, StraysOnlyForCause, [Next]_vars
               PROVE  StraysOnlyForCause'
    OBVIOUS
  <2>1. CASE UNCHANGED vars
    BY <2>1 DEF vars, StraysOnlyForCause, Unended
  <2>2. CASE GoesAstray
    BY <2>2, LastLineEnds, PastTheColumnsForCause
    DEF GoesAstray, StraysOnlyForCause, Unended
  <2>3. CASE Next /\ ~ GoesAstray /\ ~ UNCHANGED vars
    <3>1. cpc' # "astray"
      BY <2>3 DEF Next, ParserStep, Callback, Stopped, EndOfFile, ReadLine,
         Return, Comma, OpenQuote, OtherCharacter, EndOfRecord, StaleNewline,
         StaleQuote, QuoteUnterminated, DoubledQuote, QuotedCharacter, CloseQuote, SkipBlank, BackToLine,
         QuoteIllFormatted
    <3> QED
      BY <3>1 DEF StraysOnlyForCause
  <2> QED
    BY <2>1, <2>2, <2>3
<1> QED
  BY <1>1, <1>2, ParseInvariant, PTL DEF Spec

-----------------------------------------------------------------------------
(* The import adds to a step of the parser what the caller does with it.   *)
LEMMA ImportTakesParserSteps ==
  ASSUME [ImportNext]_allVars
  PROVE  [Next]_vars
BY DEF ImportNext, FileMissing, OpenFile, CancelStuck, ImportStep, Parse,
   ProcessCsvLine, FinishImport, ImportStopped, Next, allVars

(* An import is a parse, so all that is proved of the parser holds in it.  *)
THEOREM ImportRunsParser == ImportSpec => Spec
<1>1. ImportInit => Init
  BY DEF ImportInit
<1>2. [ImportNext]_allVars => [Next]_vars
  BY ImportTakesParserSteps
<1> QED
  BY <1>1, <1>2, PTL DEF ImportSpec, Spec

-----------------------------------------------------------------------------
(* Newlines are counted up to anywhere, and one more behind one more.      *)
LEMMA LineBreaksGrow ==
  ASSUME NEW m \in Nat, NEW n \in Nat, m <= n
  PROVE  /\ LineBreaks(m) \in Nat /\ LineBreaks(n) \in Nat
         /\ LineBreaks(m) <= LineBreaks(n)
         /\ m < n /\ input.chars[n] = LF =>
              LineBreaks(m) + 1 <= LineBreaks(n)
<1> DEFINE upTo(k) == {i \in 1 .. k : input.chars[i] = LF}
<1>1. ASSUME NEW k \in Nat
      PROVE  IsFiniteSet(upTo(k))
  <2>1. IsFiniteSet(1 .. k)
    BY FS_Interval
  <2> QED
    BY <2>1, FS_Subset
<1>2. LineBreaks(m) = Cardinality(upTo(m)) /\ LineBreaks(n) = Cardinality(upTo(n))
  BY DEF LineBreaks
<1>3. upTo(m) \subseteq upTo(n)
  OBVIOUS
<1>4. ASSUME m < n, input.chars[n] = LF
      PROVE  /\ n \notin upTo(m)
             /\ upTo(m) \union {n} \subseteq upTo(n)
  BY <1>4
<1> HIDE DEF upTo
<1>5. /\ Cardinality(upTo(m)) \in Nat /\ Cardinality(upTo(n)) \in Nat
      /\ Cardinality(upTo(m)) <= Cardinality(upTo(n))
  BY <1>1, <1>3, FS_CardinalityType, FS_Subset
<1>6. ASSUME m < n, input.chars[n] = LF
      PROVE  Cardinality(upTo(m)) + 1 <= Cardinality(upTo(n))
  <2>1. /\ IsFiniteSet(upTo(m) \union {n})
        /\ Cardinality(upTo(m) \union {n}) = Cardinality(upTo(m)) + 1
    BY <1>1, <1>4, <1>6, FS_AddElement
  <2>2. Cardinality(upTo(m) \union {n}) <= Cardinality(upTo(n))
    BY <1>1, <1>4, <1>6, FS_Subset
  <2> QED
    BY <2>1, <2>2
<1> QED
  BY <1>2, <1>5, <1>6

(* A record has become at most one object, and has a newline of its own    *)
(* among the characters that are behind the parser, unless it is the last  *)
(* one of a file that does not end with one.                               *)
Consumed == IF InLine THEN fp - line ELSE fp

Objects == [source : Seq(Chars), feature : Seq(Chars), name : Seq(Chars)]

LastTaken == Unended /\ fp = Len(input.chars) /\ ~ InLine

ImportInv ==
  /\ m_iProcessed \in Nat /\ m_iProcessed <= Len(delivered)
  /\ ipc = "import" => linecount = LineBreaks(Len(input.chars))
  /\ Len(delivered) <= LineBreaks(Consumed) + (IF LastTaken THEN 1 ELSE 0)
  /\ reported \in Seq(Objects)

(* The characters behind the parser are characters of the file.            *)
LEMMA ConsumedInFile ==
  ASSUME ParseInv
  PROVE  /\ Consumed \in Nat /\ Consumed <= fp
         /\ fp \in Nat /\ line \in Nat /\ line <= fp
         /\ Len(input.chars) \in Nat /\ fp <= Len(input.chars)
         /\ Len(delivered) \in Nat
         /\ InLine => Consumed = fp - line /\ Consumed < fp
<1>1. /\ fp \in Nat /\ line \in Nat /\ line <= fp
      /\ Len(input.chars) \in Nat /\ fp <= Len(input.chars)
  BY InputTypes, InputsAssumption DEF ParseInv, CsvInv, LineInv
<1>2. Len(delivered) \in Nat
  BY DEF ParseInv, Delivered, Records
<1>3. InLine => line > 0
  BY DEF ParseInv, ReadingInv, LineEnded
<1> QED
  BY <1>1, <1>2, <1>3 DEF Consumed

(* No step of the parser but those that call back deliver any, and none    *)
(* goes back in the file.                                                  *)
LEMMA ParserStepConsumes ==
  ASSUME ParseInv, ParserStep
  PROVE  /\ UNCHANGED <<input, delivered>>
         /\ Consumed' \in Nat
         /\ Consumed <= Consumed'
         /\ LastTaken => LastTaken'
<1>1. CASE ReadLine
  <2>1. UNCHANGED <<input, delivered>> /\ Consumed = fp
    BY <1>1 DEF ReadLine, Consumed, InLine
  <2>2. PICK n \in 1 .. Room :
          fp + n <= Len(input.chars) /\ fp' = fp + n /\ line' = n
    BY <1>1 DEF ReadLine
  <2>3. fp \in Nat /\ fp' \in Nat /\ fp' - line' = fp /\ fp <= fp'
        /\ fp < Len(input.chars)
    BY <2>2, ConsumedInFile, InputsAssumption DEF Room
  <2>4. Consumed' \in Nat /\ fp <= Consumed'
    BY <2>3 DEF Consumed
  <2>5. ~ LastTaken
    BY <2>3 DEF LastTaken
  <2> QED
    BY <2>1, <2>4, <2>5
<1>2. CASE \/ EndOfFile \/ GoesAstray \/ StaleQuote
           \/ QuoteUnterminated \/ QuoteIllFormatted
  <2>1. UNCHANGED <<input, fp, line, delivered>> /\ ~ InLine'
    BY <1>2 DEF EndOfFile, GoesAstray, StaleQuote, QuoteUnterminated,
       QuoteIllFormatted, Return, InLine
  <2>2. Consumed' = fp /\ (LastTaken => LastTaken')
    BY <2>1 DEF Consumed, LastTaken, Unended
  <2> QED
    BY <2>1, <2>2, ConsumedInFile
<1>3. CASE \/ Comma \/ OpenQuote \/ OtherCharacter \/ DoubledQuote
           \/ QuotedCharacter \/ CloseQuote \/ SkipBlank \/ BackToLine
  <2>1. UNCHANGED <<input, fp, line, delivered>> /\ InLine /\ InLine'
    BY <1>3 DEF Comma, OpenQuote, OtherCharacter, DoubledQuote,
       QuotedCharacter, CloseQuote, SkipBlank, BackToLine, InLine
  <2>2. Consumed' = Consumed /\ ~ LastTaken
    BY <2>1 DEF Consumed, LastTaken
  <2> QED
    BY <2>1, <2>2, ConsumedInFile
<1> QED
  BY <1>1, <1>2, <1>3 DEF ParserStep

(* A record that becomes an object has been delivered with its newline, or *)
(* is the last one and has none.                                           *)
LEMMA CallbackConsumes ==
  ASSUME ParseInv, ImportInv, Callback
  PROVE  /\ UNCHANGED input
         /\ Len(delivered') = Len(delivered) + 1
         /\ Len(delivered') <=
              LineBreaks(Consumed') + (IF LastTaken' THEN 1 ELSE 0)
<1>1. /\ UNCHANGED <<input, fp, line>> /\ InLine /\ ~ InLine'
      /\ Len(delivered') = Len(delivered) + 1
  BY EndOfRecordDelivers, StaleNewlineDelivers
  DEF Callback, EndOfRecord, StaleNewline, InLine
<1>2. /\ Consumed \in Nat /\ fp \in Nat /\ Consumed < fp
      /\ Len(delivered) \in Nat /\ Consumed' = fp
  BY <1>1, ConsumedInFile DEF Consumed
<1>4. /\ LineBreaks(Consumed) \in Nat /\ LineBreaks(fp) \in Nat
      /\ LineBreaks(Consumed) <= LineBreaks(fp)
      /\ input.chars[fp] = LF => LineBreaks(Consumed) + 1 <= LineBreaks(fp)
  <2>1. Consumed <= fp
    BY <1>2
  <2> QED
    BY <1>2, <2>1, LineBreaksGrow
<1>3. Len(delivered) <= LineBreaks(Consumed)
  <2>1. ~ LastTaken
    BY <1>1 DEF LastTaken
  <2> QED
    BY <1>4, <2>1 DEF ImportInv
<1>5. CASE EndOfRecord
  <2>1. Len(delivered') <= LineBreaks(fp)
    BY <1>1, <1>2, <1>3, <1>4, <1>5, EndOfRecordDelivers
  <2>2. Len(delivered') \in Nat
    BY <1>1, <1>2
  <2> QED
    BY <1>1, <1>2, <1>4, <2>1, <2>2
<1>6. CASE StaleNewline
  <2>1. LastTaken'
    BY <1>1, <1>6, StaleNewlineDelivers DEF LastTaken, Unended
  <2> QED
    BY <1>1, <1>2, <1>3, <1>4, <2>1
<1> QED
  BY <1>5, <1>6 DEF Callback

(* What is reported of a record are texts of its fields. *)
LEMMA ObjectsTyped ==
  ASSUME NEW cv \in Seq(Seq(Chars)), Accepts(cv)
  PROVE  CreateObject(cv) \in Objects
<1>1. Len(cv) \in Nat /\ Len(cv) >= 5
  BY DEF Accepts, HasNames
<1>2. cv[3] \in Seq(Chars) /\ cv[4] \in Seq(Chars) /\ cv[5] \in Seq(Chars)
  BY <1>1
<1>3. ASSUME NEW field \in Seq(Chars)
      PROVE  FromUTF8(field) \in Seq(Chars)
  BY DEF FromUTF8
<1> QED
  BY <1>2, <1>3 DEF CreateObject, Objects

(* Every step keeps the counts. *)
LEMMA ImportInvNext ==
  ASSUME ParseInv, ImportInv, [ImportNext]_allVars
  PROVE  ImportInv'
<1>1. CASE Parse
  <2>1. /\ UNCHANGED <<input, delivered, importVars>>
        /\ Consumed' \in Nat /\ Consumed <= Consumed'
        /\ LastTaken => LastTaken'
    BY <1>1, ParserStepConsumes DEF Parse
  <2>2. Consumed \in Nat /\ Len(delivered) \in Nat
    BY ConsumedInFile
  <2>3. /\ LineBreaks(Consumed) \in Nat /\ LineBreaks(Consumed') \in Nat
        /\ LineBreaks(Consumed) <= LineBreaks(Consumed')
    BY <2>1, <2>2, LineBreaksGrow
  <2>4. Len(delivered) <=
          LineBreaks(Consumed') + (IF LastTaken' THEN 1 ELSE 0)
    BY <2>1, <2>2, <2>3 DEF ImportInv
  <2>5. LineBreaks(Consumed)' = LineBreaks(Consumed')
        /\ LineBreaks(Len(input.chars))' = LineBreaks(Len(input.chars))
    BY <2>1 DEF LineBreaks
  <2> QED
    BY <2>1, <2>4, <2>5 DEF ImportInv, importVars
<1>2. CASE ProcessCsvLine
  <2>1. Callback /\ UNCHANGED <<ipc, linecount>>
        /\ m_iProcessed' \in {m_iProcessed, m_iProcessed + 1}
    BY <1>2 DEF ProcessCsvLine
  <2>2. /\ UNCHANGED input
        /\ Len(delivered') = Len(delivered) + 1
        /\ Len(delivered') <=
             LineBreaks(Consumed') + (IF LastTaken' THEN 1 ELSE 0)
    BY <2>1, CallbackConsumes
  <2>3. LineBreaks(Consumed)' = LineBreaks(Consumed')
        /\ LineBreaks(Len(input.chars))' = LineBreaks(Len(input.chars))
    BY <2>2 DEF LineBreaks
  <2>4. m_iProcessed' \in Nat /\ m_iProcessed' <= Len(delivered')
    BY <2>1, <2>2, ConsumedInFile DEF ImportInv
  <2>5. reported' \in Seq(Objects)
    <3> DEFINE cv == delivered'[Len(delivered')]
    <3>1. Delivered'
      BY <2>1, EndOfRecordDelivers, StaleNewlineDelivers DEF Callback
    <3>2. cv \in Seq(Seq(Chars))
      <4>1. delivered' \in Seq(Seq(Seq(Chars)))
        BY <3>1 DEF Delivered, Records
      <4>2. Len(delivered') \in 1 .. Len(delivered')
        BY <2>2, ConsumedInFile
      <4> QED
        BY <4>1, <4>2
    <3>3. IF Accepts(cv) THEN reported' = Append(reported, CreateObject(cv))
          ELSE reported' = reported
      BY <1>2 DEF ProcessCsvLine
    <3> HIDE DEF cv
    <3>4. reported \in Seq(Objects)
      BY DEF ImportInv
    <3>5. CASE Accepts(cv)
      <4>1. CreateObject(cv) \in Objects
        BY <3>2, <3>5, ObjectsTyped
      <4> QED
        BY <3>3, <3>4, <3>5, <4>1
    <3> QED
      BY <3>3, <3>4, <3>5
  <2> QED
    BY <2>1, <2>2, <2>3, <2>4, <2>5 DEF ImportInv
<1>3. CASE \/ FileMissing \/ OpenFile \/ CancelStuck \/ FinishImport
           \/ UNCHANGED allVars
  <2>1. /\ UNCHANGED <<vars, reported>>
        /\ m_iProcessed' \in {m_iProcessed, 0}
        /\ ipc' = "import" =>
             \/ linecount' = CountLines
             \/ ipc = "import" /\ linecount' = linecount
    BY <1>3 DEF FileMissing, OpenFile, CancelStuck, FinishImport, allVars,
       importVars
  <2>2. /\ LineBreaks(Consumed)' = LineBreaks(Consumed)
        /\ LineBreaks(Len(input.chars))' = LineBreaks(Len(input.chars))
        /\ CountLines = LineBreaks(Len(input.chars))
        /\ LastTaken' = LastTaken
    BY <2>1
    DEF LineBreaks, vars, Consumed, InLine, CountLines, LastTaken, Unended
  <2>3. m_iProcessed' \in Nat /\ m_iProcessed' <= Len(delivered)
    BY <2>1, ConsumedInFile DEF ImportInv
  <2> QED
    BY <2>1, <2>2, <2>3 DEF ImportInv, vars
<1> QED
  BY <1>1, <1>2, <1>3 DEF ImportNext, ImportStep, ImportStopped

(* What has become objects has been delivered, and what has been delivered *)
(* has been counted.                                                       *)
THEOREM ImportInvariant == ImportSpec => []ImportInv
<1>1. ImportInit => ImportInv
  <2> SUFFICES ASSUME ImportInit
               PROVE  ImportInv
    OBVIOUS
  <2>1. /\ fp = 0 /\ cpc = "read" /\ delivered = <<>> /\ m_iProcessed = 0
        /\ ipc = "idle" /\ reported = <<>>
    BY DEF ImportInit, Init
  <2>2. Consumed = 0 /\ Len(delivered) = 0
    BY <2>1 DEF Consumed, InLine
  <2>3. LineBreaks(0) \in Nat
    BY LineBreaksGrow
  <2> QED
    BY <2>1, <2>2, <2>3 DEF ImportInv
<1>2. ParseInv /\ ImportInv /\ [ImportNext]_allVars => ImportInv'
  BY ImportInvNext
<1> QED
  BY <1>1, <1>2, ImportRunsParser, ParseInvariant, PTL DEF ImportSpec

(* The progress dialog is told of no more records than it was made for, or *)
(* of one more where the last line of the file has no newline.             *)
THEOREM ProgressIsInRange == ImportSpec => []ProgressInRange
<1>1. ParseInv /\ ImportInv => ProgressInRange
  <2> SUFFICES ASSUME ParseInv, ImportInv, ipc = "import"
               PROVE  m_iProcessed <= linecount + (IF Unended THEN 1 ELSE 0)
    BY DEF ProgressInRange
  <2>1. /\ Consumed \in Nat /\ Len(input.chars) \in Nat
        /\ Consumed <= Len(input.chars) /\ Len(delivered) \in Nat
    BY ConsumedInFile
  <2>2. /\ LineBreaks(Consumed) \in Nat
        /\ LineBreaks(Len(input.chars)) \in Nat
        /\ LineBreaks(Consumed) <= LineBreaks(Len(input.chars))
    BY <2>1, LineBreaksGrow
  <2>3. LastTaken => Unended
    BY DEF LastTaken
  <2> QED
    BY <2>1, <2>2, <2>3 DEF ImportInv
<1> QED
  BY <1>1, ImportInvariant, ImportRunsParser, ParseInvariant, PTL

-----------------------------------------------------------------------------
(* Fields behind the fifth are not looked at by what an object is made of. *)
LEMMA ObjectsOfPrefix ==
  ASSUME NEW r \in Seq(Seq(Chars)), NEW extra \in Seq(Seq(Chars)), IsObject(r)
  PROVE  IsObject(r \o extra) /\ ObjectOf(r \o extra) = ObjectOf(r)
<1>1. 1 .. 5 \subseteq 1 .. Len(r) /\ Len(r) \in Nat
  BY DEF IsObject
<1>2. Len(r) >= 5
  <2>1. 5 \in 1 .. Len(r)
    BY <1>1
  <2> QED
    BY <1>1, <2>1
<1>3. /\ Len(r \o extra) = Len(r) + Len(extra) /\ Len(extra) \in Nat
      /\ r \o extra \in Seq(Seq(Chars))
      /\ \A i \in 1 .. Len(r) : (r \o extra)[i] = r[i]
  OBVIOUS
<1>4. ASSUME NEW i \in 1 .. 5
      PROVE  (r \o extra)[i] = r[i]
  <2>1. i \in 1 .. Len(r)
    BY <1>1
  <2> QED
    BY <1>3, <2>1
<1>5. 1 .. 5 \subseteq DOMAIN (r \o extra)
  BY <1>1, <1>2, <1>3
<1> DEFINE s == r \o extra
<1>6. s[1] = r[1] /\ s[2] = r[2] /\ s[3] = r[3] /\ s[4] = r[4] /\ s[5] = r[5]
  <2>1. \A i \in 1 .. 5 : s[i] = r[i]
    BY <1>4
  <2> HIDE DEF s
  <2>2. /\ 1 \in 1 .. 5 /\ 2 \in 1 .. 5 /\ 3 \in 1 .. 5
        /\ 4 \in 1 .. 5 /\ 5 \in 1 .. 5
    OBVIOUS
  <2> QED
    BY <2>1, <2>2
<1>7. 1 .. 5 \subseteq DOMAIN s
  BY <1>5
<1> HIDE DEF s
<1>8. IsObject(s) /\ ObjectOf(s) = ObjectOf(r)
  BY <1>6, <1>7 DEF IsObject, ObjectOf
<1> QED
  BY <1>8 DEF s

(* ProcessCsvLine takes the records that describe an object, as that       *)
(* object.                                                                 *)
LEMMA AcceptsObjects ==
  ASSUME NEW cv \in Seq(Seq(Chars))
  PROVE  /\ Accepts(cv) <=> IsObject(cv)
         /\ IsObject(cv) => CreateObject(cv) = ObjectOf(cv)
<1>1. DOMAIN cv = 1 .. Len(cv) /\ Len(cv) \in Nat
  OBVIOUS
<1>2. HasNames(cv) <=> 1 .. 5 \subseteq DOMAIN cv
  <2>1. 1 .. 5 \subseteq DOMAIN cv => 5 \in 1 .. Len(cv)
    BY <1>1
  <2> QED
    BY <1>1, <2>1 DEF HasNames
<1>3. (\A i \in 3 .. 5 : FromUTF8(cv[i]) # <<>>)
        <=> /\ FromUTF8(cv[3]) # <<>> /\ FromUTF8(cv[4]) # <<>>
            /\ FromUTF8(cv[5]) # <<>>
  OBVIOUS
<1>4. ASSUME NEW field
      PROVE  /\ FromUTF8(field) # <<>> <=> field \notin {<<>>} \union IllEncoded
             /\ FromUTF8(field) # <<>> => FromUTF8(field) = field
  BY DEF FromUTF8
<1>5. ({cv[3], cv[4], cv[5]} \intersect ({<<>>} \union IllEncoded) = {})
        <=> /\ FromUTF8(cv[3]) # <<>> /\ FromUTF8(cv[4]) # <<>>
            /\ FromUTF8(cv[5]) # <<>>
  <2> DEFINE bad == {<<>>} \union IllEncoded
  <2>1. /\ FromUTF8(cv[3]) # <<>> <=> cv[3] \notin bad
        /\ FromUTF8(cv[4]) # <<>> <=> cv[4] \notin bad
        /\ FromUTF8(cv[5]) # <<>> <=> cv[5] \notin bad
    BY <1>4
  <2> HIDE DEF bad
  <2>2. ({cv[3], cv[4], cv[5]} \intersect bad = {})
          <=> cv[3] \notin bad /\ cv[4] \notin bad /\ cv[5] \notin bad
    OBVIOUS
  <2>3. ({cv[3], cv[4], cv[5]} \intersect bad = {})
          <=> /\ FromUTF8(cv[3]) # <<>> /\ FromUTF8(cv[4]) # <<>>
              /\ FromUTF8(cv[5]) # <<>>
    BY <2>1, <2>2
  <2> QED
    BY <2>3 DEF bad
<1>6. Accepts(cv) <=> IsObject(cv)
  BY <1>2, <1>3, <1>5 DEF Accepts, IsObject
<1>7. ASSUME IsObject(cv)
      PROVE  CreateObject(cv) = ObjectOf(cv)
  <2>1. /\ FromUTF8(cv[3]) = cv[3] /\ FromUTF8(cv[4]) = cv[4]
        /\ FromUTF8(cv[5]) = cv[5]
    BY <1>4, <1>5, <1>7 DEF IsObject
  <2> QED
    BY <2>1 DEF CreateObject, ObjectOf
<1> QED
  BY <1>6, <1>7

(* A sequence is what it was before something was appended. *)
LEMMA AppendedTo ==
  ASSUME NEW S, NEW s \in Seq(S), NEW e \in S
  PROVE  /\ Len(Append(s, e)) = Len(s) + 1
         /\ SubSeq(Append(s, e), 1, Len(s)) = s
<1>1. /\ Len(Append(s, e)) = Len(s) + 1 /\ Len(s) \in Nat
      /\ Append(s, e) \in Seq(S)
      /\ \A i \in 1 .. Len(s) : Append(s, e)[i] = s[i]
  OBVIOUS
<1>2. /\ SubSeq(Append(s, e), 1, Len(s)) \in Seq(S)
      /\ Len(SubSeq(Append(s, e), 1, Len(s))) = Len(s)
      /\ \A i \in 1 .. Len(s) :
           SubSeq(Append(s, e), 1, Len(s))[i] = Append(s, e)[i]
  BY <1>1
<1>3. SubSeq(Append(s, e), 1, Len(s)) = s
  BY <1>1, <1>2
<1> QED
  BY <1>1, <1>3

(* A call of ProcessCsvLine takes a record from the file; if it is given   *)
(* fields behind those of an unended one, it may make an object of what is *)
(* none.                                                                   *)
LEMMA RecordIsTaken ==
  ASSUME ParseInv, ImportInv, ProcessCsvLine
  PROVE  File!Take \/ File!TakeUnended
<1> DEFINE r == input.records[Len(delivered) + 1]
           cv == delivered'[Len(delivered')]
<1>1. /\ Callback
      /\ IF Accepts(cv)
         THEN reported' = Append(reported, CreateObject(cv))
         ELSE UNCHANGED reported
  BY DEF ProcessCsvLine
<1>2. /\ cpc = "scan" /\ cpc' = "read" /\ UNCHANGED <<input, rc>>
  BY <1>1 DEF Callback, EndOfRecord, StaleNewline
<1>3. rc = "none" /\ Unended' = Unended
  BY <1>2 DEF ParseInv, ReadingInv, LineEnded, Unended
<1>4. Len(delivered) \in Nat /\ Len(input.records) \in Nat
      /\ input.records \in Seq(Seq(Seq(Chars)))
  BY PlacesOfFile DEF ParseInv, CsvInv, LineInv, Delivered, Records
<1>5. /\ Len(delivered) < Len(input.records)
      /\ Len(delivered') = Len(delivered) + 1
      /\ (Unended /\ Len(delivered) + 1 = Len(input.records)) \/ cv = r
      /\ \E extra \in {<<>>} \union Stale : cv = r \o extra
  <2>1. CASE EndOfRecord
    <3>1. /\ Len(delivered) < Len(input.records)
          /\ Len(delivered') = Len(delivered) + 1 /\ cv = r
      BY <2>1, EndOfRecordDelivers
    <3>2. r \in Seq(Seq(Chars))
      BY <1>4, <3>1
    <3>3. cv = r \o <<>>
      BY <3>1, <3>2
    <3> QED
      BY <3>1, <3>3
  <2>2. CASE StaleNewline
    BY <1>4, <2>2, StaleNewlineDelivers
  <2> QED
    BY <1>1, <2>1, <2>2 DEF Callback
<1>6. r \in Seq(Seq(Chars))
  BY <1>4, <1>5
<1>7. PICK extra \in {<<>>} \union Stale : cv = r \o extra
  BY <1>5
<1>8. extra \in Seq(Seq(Chars)) /\ cv \in Seq(Seq(Chars))
  <2>1. <<>> \in Seq(Seq(Chars))
    OBVIOUS
  <2>2. extra \in Seq(Seq(Chars))
    BY <2>1, InputsAssumption
  <2> HIDE DEF r, cv
  <2> QED
    BY <1>6, <1>7, <2>2
<1>9. /\ input'.records = input.records
      /\ input'.records[Len(delivered')] = r
  BY <1>2, <1>5
<1> HIDE DEF r, cv
<1>11. CASE IsObject(r)
  <2>1. IsObject(cv) /\ ObjectOf(cv) = ObjectOf(r)
    BY <1>6, <1>7, <1>8, <1>11, ObjectsOfPrefix
  <2>2. reported' = Append(reported, ObjectOf(r))
    BY <1>1, <1>8, <2>1, AcceptsObjects
  <2>3. File!Take
    BY <1>2, <1>3, <1>5, <1>9, <1>11, <2>2 DEF File!Take, r
  <2> QED
    BY <2>3
<1>12. CASE ~ IsObject(r) /\ ~ IsObject(cv)
  <2>1. reported' = reported
    BY <1>1, <1>8, <1>12, AcceptsObjects
  <2>2. File!Take
    BY <1>2, <1>3, <1>5, <1>9, <1>12, <2>1 DEF File!Take, r
  <2> QED
    BY <2>2
<1>13. CASE ~ IsObject(r) /\ IsObject(cv)
  <2>1. reported' = Append(reported, ObjectOf(cv))
    BY <1>1, <1>8, <1>13, AcceptsObjects
  <2>2. Unended /\ Len(delivered) + 1 = Len(input.records)
    BY <1>5, <1>13
  <2>3. /\ Len(reported') = Len(reported) + 1
        /\ SubSeq(reported', 1, Len(reported)) = reported
    <3>1. ObjectOf(cv) \in Objects
      <4>1. Accepts(cv) /\ CreateObject(cv) = ObjectOf(cv)
        BY <1>8, <1>13, AcceptsObjects
      <4> QED
        BY <1>8, <4>1, ObjectsTyped
    <3>2. reported \in Seq(Objects)
      BY DEF ImportInv
    <3> QED
      BY <2>1, <3>1, <3>2, AppendedTo
  <2> QED
    BY <1>2, <1>3, <1>5, <1>9, <1>13, <2>2, <2>3 DEF File!TakeUnended, r
<1> QED
  BY <1>11, <1>12, <1>13

(* The other steps complete the import, give it up, or are none of it.     *)
LEMMA ParserStepImplements ==
  ASSUME ParseInv, ParserStep, UNCHANGED reported
  PROVE  \/ File!Complete
         \/ File!GiveUp
         \/ UNCHANGED File!ifVars
<1>1. CASE EndOfFile
  <2>1. /\ cpc = "read" /\ cpc' = "done" /\ rc' = "ok"
        /\ UNCHANGED <<input, delivered>> /\ Unended' = Unended
    BY <1>1 DEF EndOfFile, Return, Unended
  <2>2. rc = "none"
    BY <2>1 DEF ParseInv, ReadingInv, LineEnded
  <2>3. Len(delivered) = Len(input.records)
    BY <1>1, EndOfFileComplete
  <2> QED
    BY <2>1, <2>2, <2>3 DEF File!Complete
<1>2. CASE \/ GoesAstray \/ StaleQuote
           \/ QuoteUnterminated \/ QuoteIllFormatted
  <2>1. /\ cpc \in {"scan", "quoted", "afterQuote"}
        /\ \/ cpc' = "astray" /\ rc' = rc
           \/ cpc' = "done" /\ rc' = "E_QUOTED_STRING"
        /\ UNCHANGED <<input, delivered>> /\ Unended' = Unended
    BY <1>2 DEF GoesAstray, StaleQuote, QuoteUnterminated, QuoteIllFormatted,
       Return, Unended
  <2>2. rc = "none"
    BY <2>1 DEF ParseInv, ReadingInv, LineEnded
  <2> QED
    BY <2>1, <2>2 DEF File!GiveUp
<1>3. CASE ReadLine
  <2>1. /\ cpc = "read"
        /\ \/ cpc' = "scan" /\ rc' = rc
           \/ cpc' = "done" /\ rc' = "E_LINE_TOO_WIDE"
        /\ UNCHANGED <<input, delivered>> /\ Unended' = Unended
    BY <1>3 DEF ReadLine, Return, Unended
  <2>2. rc = "none"
    BY <2>1 DEF ParseInv, ReadingInv, LineEnded
  <2> QED
    BY <2>1, <2>2 DEF File!GiveUp, File!ifVars
<1>4. CASE \/ Comma \/ OpenQuote \/ OtherCharacter \/ DoubledQuote
           \/ QuotedCharacter \/ CloseQuote \/ SkipBlank \/ BackToLine
  <2>1. /\ UNCHANGED <<input, delivered, rc>>
        /\ cpc # "astray" /\ cpc' # "astray" /\ Unended' = Unended
    BY <1>4 DEF Comma, OpenQuote, OtherCharacter, DoubledQuote,
       QuotedCharacter, CloseQuote, SkipBlank, BackToLine, Unended
  <2> QED
    BY <2>1 DEF File!ifVars
<1> QED
  BY <1>1, <1>2, <1>3, <1>4 DEF ParserStep

(* The import takes the records of its file one by one, reports the        *)
(* objects among them, each once, and is complete only when no record is   *)
(* left; what it may add to an unended last record is the only exception:  *)
(* it implements ImportFile.                                               *)
THEOREM ImportImplementsFile == ImportSpec => ImplementsImportFile
<1>1. ImportInit => File!IFInit
  BY DEF ImportInit, Init, File!IFInit
<1>2. ASSUME ParseInv, ImportInv, [ImportNext]_allVars
      PROVE  [\/ File!Take \/ File!TakeUnended
              \/ File!Complete \/ File!GiveUp]_(File!ifVars)
  <2>1. CASE Parse
    BY <1>2, <2>1, ParserStepImplements DEF Parse, importVars
  <2>2. CASE ProcessCsvLine
    BY <1>2, <2>2, RecordIsTaken
  <2>3. CASE \/ FileMissing \/ OpenFile \/ CancelStuck \/ FinishImport
             \/ UNCHANGED allVars
    <3>1. UNCHANGED <<vars, reported>>
      BY <2>3 DEF FileMissing, OpenFile, CancelStuck, FinishImport, allVars,
         importVars
    <3>2. UNCHANGED File!ifVars
      BY <3>1 DEF vars, File!ifVars, Unended
    <3> QED
      BY <3>2
  <2> QED
    BY <1>2, <2>1, <2>2, <2>3 DEF ImportNext, ImportStep, ImportStopped
<1> QED
  BY <1>1, <1>2, ImportRunsParser, ParseInvariant, ImportInvariant, PTL
  DEF ImportSpec, ImplementsImportFile, File!IFSpec
=============================================================================
