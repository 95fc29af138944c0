----------------------------- MODULE CsvImport ------------------------------
(***************************************************************************)
(* The settings dialog's import of a file: OnOk counts its lines for the   *)
(* progress dialog and runs csv_parse, whose callback ProcessCsvLine       *)
(* reports the acceptable records to the plugin as objects of a chart.     *)
(***************************************************************************)
EXTENDS CsvParser, FiniteSets

CONSTANTS
  BeyondPole,  \* fields that strtod reads as no number from -90 to 90
  BeyondWorld, \* fields that strtod reads as no number from -180 to 180
  IllEncoded   \* fields that are not UTF-8

ASSUME BeyondAssumption ==
  BeyondPole \union BeyondWorld \union IllEncoded \subseteq Seq(Chars)

VARIABLES
  ipc,          \* where OnOk is; m_prgdlg exists in "import" and "stuck"
  linecount,    \* the range of the progress dialog
  m_iProcessed, \* records that have become objects
  reported      \* calls of SendVectorChartObjectInfo

importVars == <<ipc, linecount, m_iProcessed, reported>>
allVars == <<vars, importVars>>

ImportInit ==
  /\ Init
  /\ ipc = "idle"
  /\ linecount = 0
  /\ m_iProcessed = 0
  /\ reported = <<>>

-----------------------------------------------------------------------------
LineBreaks(n) == Cardinality({i \in 1 .. n : input.chars[i] = LF})
WithoutHeader == LineBreaks(Len(input.chars)) - 1
CountLines == LineBreaks(Len(input.chars))

FileMissing ==
  /\ ipc = "idle"
  /\ ipc' = "closed"
  /\ UNCHANGED <<vars, linecount, m_iProcessed, reported>>

(* fopen may fail on a file that exists: OnOk returns, with the progress   *)
(* dialog shown and OK disabled, and Cancel is what is left.               *)
OpenFile ==
  /\ ipc = "idle"
  /\ ipc' \in {"import", "stuck"}
  /\ linecount' = CountLines
  /\ UNCHANGED <<vars, m_iProcessed, reported>>

CancelStuck ==
  /\ ipc = "stuck"
  /\ ipc' = "closed"
  /\ UNCHANGED <<vars, linecount, m_iProcessed, reported>>

Parse ==
  /\ ipc = "import"
  /\ ParserStep
  /\ UNCHANGED importVars

-----------------------------------------------------------------------------
(* A record is lat, lon, name, feature, source and two optional scales; a  *)
(* position is not looked at further than to be on the map.                *)
MoreThanNames(cv) == Len(cv) > 5
HasNames(cv) == Len(cv) >= 5

(* wxString::FromUTF8 makes an empty string of what is not UTF-8. *)
FromUTF8(field) == IF field \in IllEncoded THEN <<>> ELSE field

Accepts(cv) ==
  /\ HasNames(cv)
  /\ cv[1] \notin BeyondPole
  /\ cv[2] \notin BeyondWorld
  /\ \A i \in 3 .. 5 : FromUTF8(cv[i]) # <<>>

CreateObject(cv) ==
  [source |-> FromUTF8(cv[5]), feature |-> FromUTF8(cv[4]),
   name |-> FromUTF8(cv[3])]

ProcessCsvLine ==
  /\ ipc = "import"
  /\ Callback
  /\ LET cv == delivered'[Len(delivered')]
     IN  IF Accepts(cv)
         THEN /\ m_iProcessed' = m_iProcessed + 1
              /\ reported' = Append(reported, CreateObject(cv))
         ELSE UNCHANGED <<m_iProcessed, reported>>
  /\ UNCHANGED <<ipc, linecount>>

(* Whatever csv_parse returns, the progress dialog and this one are closed.*)
FinishImport ==
  /\ ipc = "import"
  /\ cpc = "done"
  /\ ipc' = "closed"
  /\ m_iProcessed' = 0
  /\ UNCHANGED <<vars, linecount, reported>>

(* Not a step of the program. *)
ImportStopped == (ipc = "closed" \/ cpc = "astray") /\ UNCHANGED allVars

ImportStep == Parse \/ ProcessCsvLine \/ FinishImport

ImportNext ==
  \/ FileMissing \/ OpenFile \/ CancelStuck
  \/ ImportStep
  \/ ImportStopped

(* The handler runs once it has opened the file. *)
ImportSpec ==
  ImportInit /\ [][ImportNext]_allVars /\ WF_allVars(ImportStep)

-----------------------------------------------------------------------------
(* README.md, the format of a file to import: "Lat, Lon, Object name,      *)
(* Feature name,"Source" name[[,Scale],PPM Scale]".  It says nothing of    *)
(* the encoding; a name is one in UTF-8.                                   *)
IsObject(record) ==
  /\ 1 .. 5 \subseteq DOMAIN record
  /\ record[1] \notin BeyondPole /\ record[2] \notin BeyondWorld
  /\ {record[3], record[4], record[5]}
       \intersect ({<<>>} \union IllEncoded) = {}

ObjectOf(record) ==
  [name |-> record[3], feature |-> record[4], source |-> record[5]]

File == INSTANCE ImportFile WITH
  records <- input.records,
  ended <- ~ Unended,
  taken <- Len(delivered),
  outcome <- IF rc = "none" /\ cpc # "astray" THEN "open"
             ELSE IF rc = "ok" THEN "complete" ELSE "partial"

(* The plugin is told of the objects of the file, of each once, in their   *)
(* order and with their own columns: of all of them after a parse that     *)
(* ended with the file, of the first ones after any other.  Only a last    *)
(* record without a newline that is no object may become one, with what is *)
(* behind it in the buffer.                                                *)
ImplementsImportFile == File!IFSpec

(* The count of records goes beyond the range of the progress dialog, the  *)
(* number of newlines, by no more than a last record that has none.        *)
ProgressInRange ==
  ipc = "import" => m_iProcessed <= linecount + (IF Unended THEN 1 ELSE 0)

(* An import that has opened its file ends and closes its dialogs, unless  *)
(* the parser has left the line.                                           *)
ImportEnds == ipc = "import" ~> (ipc = "closed" \/ cpc = "astray")
=============================================================================
