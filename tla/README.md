# A TLA+ model of the ObjSearch plugin

ObjSearch is a plugin of OpenCPN. While OpenCPN loads vector charts it reports
their objects to the plugin, which stores them in an SQLite database; a dialog
searches the database. This directory holds a model of the plugin in TLA+, the
TLC configurations that check it on small instances, and proofs that TLAPS
checks for every value of the constants.

The code is `src/objsearch_pi.cpp` and `include/objsearch_pi.h` (the plugin),
`src/csv_parser.cpp`, `src/clcpopup.cpp`, and `src/ObjSearchDialog.cpp`, which
wxFormBuilder generates. `PROJECT.json` maps every definition to its lines.

## The system

Two threads share one `objsearch_pi` object and one database connection:

    OpenCPN  --Init, DeInit-->            +-----------+  query_queue  +----------+
    (GUI     --SendVectorChart...-->      |  plugin   | ------------> | DbThread |
     thread) --SetCurrentViewPort-->      |           |  m_pThreadCS  |          |
                                          +-----------+  m_bIsWriting +----------+
    dialogs  --FindObjects, ScanArea-->      |   m_db (one connection)     |
                                             +------------ SQLite ---------+

| Part | State | Operations | Interacts by |
|---|---|---|---|
| Indexing | `m_chartsInDb`, `m_featuresInDb`, `m_chartLoading`, `m_bWaitForDB` | `SendVectorChartObjectInfo`, `GetChartId`, `GetFeatureId`, `StoreNewChart`, `StoreNewFeature`, `StoreNewObject` | inserts charts and features itself, pushes objects on `query_queue` |
| Writer | `m_bIsWriting`, the statement it holds | `DbThread::Entry`, `~DbThread`, `GetQuery`, `HasQueries` | pops `query_queue`, BEGIN and COMMIT on the shared connection |
| Opening and shutdown | `m_db`, `m_bDBUsable`, `m_pThread`, `m_pThreadCS`, `m_db_thread_running` | constructor, `initDB`, `Init`, `DeInit`, `clearDB`, `QueryDB`, `SelectFromDB` | starts, awaits and deletes the thread |
| Positions | rows of `object` | the longitude in `StoreNewObject`, the repair in `initDB`, `DistanceMercatorFunc` | three tests of the same borders |
| Search dialog, popup | items, checks and `m_values` of the popup, the rows of the result list with their item data, the button | `OnToolbarToolCallback`, `OnListBox`, `GetStringValue`, `OnSearch`, `FindObjects`, `ClearObjects`, `AddObject`, `SortResults`, `OnItemSelected`, `OnShowOnChart` | reads the map of features and, row by row, the database while DbThread writes |
| Range limit | spin control, `m_iLimitRange`, configuration | `LoadConfig`, `SaveConfig`, `SetRangeLimit`, `SaveSettings` | the dialog writes it back when it is deleted |
| Area scan | `finishing`, the dialog's button and boxes, locals of `ScanArea`, the viewport | `OnOk`, `ScanArea`, `OnCancel`, `SetCurrentViewPort` | `wxYield` runs the dialog's handlers inside the loop |
| CSV parser | one line buffer, three pointers into it | `csv_parse` and what it calls | gives records to `ProcessCsvLine` |
| CSV import | `m_prgdlg`, `m_iProcessed` | `OnOk` with a file, `ProcessCsvLine`, `CreateObject` | reports records of the CSV parser to the indexing, from a callback |
| Coordinates as text | two columns of the result list | `AddObject`, `fromDMM`, `OnShowOnChart`, `OnLeftDClick` | writes with OpenCPN's `toSDMM_PlugIn`, jumps with `JumpToPosition` |
| `HumanizeFeatureName` | two tables from codes to words | called for every item of the popup and every row | pure |
| SQLite and wxSQLite3 | the file, the transaction and the last row id of the connection, the open statement | `Open`, `Close`, `ExecuteUpdate`, `ExecuteQuery`, `NextRow`, `GetLastRowId` | one connection for both threads; errors are C++ exceptions |

What is hard about it, and what a test would hardly reach:

* the two threads interleave at every statement, and what a statement leaves in
  the connection (the open transaction, the last row id) belongs to both;
* `m_bDBUsable` may fall between any two steps of a handler, and never rises;
* the process may die between any two steps, and the next run trusts what it
  finds: the file, the chart rows, the old objects;
* `DeInit` polls, locks and waits for a thread that needs the same lock to end;
* `wxYield` in the middle of `ScanArea` runs OK, Cancel and the check boxes;
* a search is two statements with a question to the user between them, and the
  second is read row by row outside any `try` while DbThread writes;
* the CSV parser writes over the buffer it is reading, and is given lines that
  do not fit it, do not end, or have more fields than its array.

Section `hazards` of `PROJECT.json` lists each at its line with the properties
that would catch it going wrong.

## Modules

### The indexing pipeline

    Sqlite <- Plugin <- ChartIndexer \
                     <- DbThread      >- ObjSearch <- MCObjSearch
                     <- Lifecycle    /      |  \
                                            |   WriteBehind (INSTANCE ... WITH)
              ObjSearchProofs <- ShutdownProofs <- NamesProofs, OrderProofs

* **Sqlite**: the statements that matter to a transaction, translated from the
  vendored sources (`OP_AutoCommit`, `sqlite3VdbeHalt`,
  `sqlite3LeaveMutexAndCloseZombie`, `wxSQLite3Database::Open`): the file (`fileExists`, `schema`, `file`), what the connection
  sees (`view`), its transaction and its last row id. A statement is one step:
  SQLite serialises the statements of a connection. Ids are places in a table,
  as the program deletes no chart, feature or object (the repair of old rows is
  in ObjectPosition).
* **Plugin**: the members of `objsearch_pi`, of `DbThread`, and of the calls the
  GUI thread is in, under the names of the code. `mpc` and `tpc` say where the
  two threads are. `QueryDB` is the wrapper all statements go through: an
  illegal statement fails, a legal one may (disk, lock, an apostrophe in a name
  that is not escaped), with or without SQLite's automatic rollback, and then
  `m_bDBUsable` is false for good. A map is a total function with 0 for "no
  entry", which is what `GetChartId` and `GetFeatureId` return.
* **ChartIndexer**: `SendVectorChartObjectInfo` as the nine steps between which
  DbThread can run. A call carries the path of the chart, a feature, whether the
  object is storable (a name of more than one character, a position on the map)
  and the run it came in. `SearchFails` is a search whose statement throws; it
  does so whenever the boat has no position fix, because `GetLat` compares with
  NAN and `nan` is then a column name in the statement.
* **DbThread**: one action per access of shared state in `Entry`, and the
  destructor in two steps under `m_pThreadCS`.
* **Lifecycle**: the constructor (`Load`), `initDB` statement by statement,
  `Init`, `DeInit` wait by wait, `clearDB`; `Unload` is OpenCPN deleting the
  plugin, `Crash` the end of the process at any step.
* **ObjSearch** composes them, states fairness and the properties.
* **WriteBehind** is the promise in terms of object numbers alone: accepted,
  pending, stored, durable. The mapping: `pending` is the statement DbThread
  holds followed by the queue, `stored` the objects the connection sees,
  `durable` those in the file.

### The other modules

* **ObjectPosition**: rows of old versions and new objects, `initDB`'s repair in
  three transactions that a crash may separate. Angles are integers because the
  program stores a fixed number of decimals. `ShowOnChart` takes an object
  through the two columns of the result list to the place the chart jumps to.
* **Dmm**: the texts of these columns, as the numbers and the letter `fromDMM`
  makes of them. `Base` seconds are a minute and `Base` minutes a degree; numbers
  are counted in parts of a degree so that nothing is rounded, as
  `toSDMM_PlugIn`, which is OpenCPN's, would. Only its three formats are texts
  of the model. `narrowbuf` of `fromDMM` has no NUL of its own behind the last
  character: a text that ends with a digit (the format of plain degrees) is read
  on into bytes nobody has written, and `Readings` is the set of what may come
  of it.
* **AreaScan**: `OnOk` and `ScanArea` as one program counter, with the handlers
  of the dialog enabled where events are dispatched (idle, or in `wxYield`). A
  view of a scale spans `Span \div ppm`. OpenCPN may report the viewport of a
  jump before `JumpToPosition` returns or in a later `wxYield` (`LateViewPort`);
  `late` remembers that a row was begun with the steps of another scale. The
  constructor leaves the viewport all zeros (`NoViewPort`; `Init` sets `m_vpppm`
  to 0.1, which times a scale of 0 is 0 all the same): a row that is begun before
  OpenCPN's first report jumps to no scale and steps by 0, so that it does not end
  unless the scan is stopped. Positions and extents are in degrees, a view of one
  scale as high and as wide everywhere; the code's extents are those of a
  Mercator chart, which are less high further north.
* **CsvParser**: the line buffer character by character, because the parser's
  pointers are what can go wrong. Behind an unterminated last line the loop of
  `csv_parse_line` goes on over what the buffer, a local of `csv_parse`, holds
  there: the earlier lines of this parse, whose newlines have become NULs, and
  bytes nobody has written. It may find a newline, and fields before it
  (`StaleNewline`, with any of the fields in `Stale`): then the last record is
  delivered after all, with these fields behind its own. It may find a quote
  that is not closed well (`StaleQuote`), or the end of the buffer.
  `GoesAstray` is the step behind the end of the buffer or behind the last of
  `MAX_COLUMN_COUNT` fields; what comes then is undefined and not followed.
* **CsvFormat** is the reference the parser is held against: the format of
  `csv_parser.h:10-17`, one rule for each character (`PlaceAfter`). A file comes
  with its *reading*, the place before each character, in which record, column
  and mode and behind how many characters of the field, and with the records that
  are read there (`Means`). So what a file means is a condition on each of its
  characters, not a recursion over all of them, and proofs can use it one step
  at a time. Behind a quoted field that goes on after its quote there is no
  meaning, and no record. The comment does not say what a quote is in a field
  that does not begin with it; here, as in the parser, it begins a quoted part
  of the field. So every file without a NUL has exactly one reading.
* **CsvImport** runs CsvParser inside `OnOk`: its `EndOfRecord` and the callback
  `ProcessCsvLine` are one step, every other step of the parser leaves the
  import alone. `FromUTF8` makes an empty string of a field that is not UTF-8
  (`IllEncoded`), and a record without a name is dropped. `stuck` is the handler
  that returned because `fopen` failed.
* **ImportFile** is the promise of an import in terms of whole records. The
  mapping: `taken` is the number of records the callback has received, and the
  `outcome` is open until `csv_parse` returns or goes astray. A name is a field
  that is UTF-8. The promise has one exception: a last record that no newline
  ends and that describes no object may be reported as one, with what is behind
  it in the buffer (`TakeUnended`).
* **FeatureNames**: `HumanizeFeatureName` as the order of its two tables, its
  prefix for codes in small letters and its last resort. The 164 entries are
  constants; the instance has those that two codes share.
* **FeaturePopup**: the popup's items, their values and their checks, three
  structures that have to stay side by side.
* **RangeLimit**: the limit and the "close on show" box between their controls,
  the members of the plugin and the configuration. A unit is a fraction of
  nautical miles; the rounding is the code's. `left` is what the dialog showed
  at the last DeInit; a crash leaves it as it is.
* **ResultList** (on RangeLimit): the rows with their item data, which is the
  distance in tenths of the user's unit and what the rows are sorted by, and the
  button "Show on Chart".
* **SearchDialog** composes ResultList and FeaturePopup with a search:
  `OnSearch` takes the settings over, makes the filter from the popup, and
  `FindObjects` is two statements with a question to the user between them. The
  second one is read row by row (`ListObject`), and every object DbThread
  stores in the meantime may be met. A filter is the sequence of the checked
  names; `instr` on the joined string makes a name match that is part of a
  listed one (`Part`). A statement of either thread may fail. `NextRow` is
  called outside any `try`: its exception leaves the list as it is, unsorted
  (`torn`), and what follows is up to the system. Rows of the database that a
  crash loses are the subject of the pipeline; here they stay.

## Runs

| Run | Instance | Shows |
|---|---|---|
| `faults` | 2 charts, 1 feature, 3 objects, 2 runs, 1 fault, crashes | `TypeOK`, `NoUseAfterClose`, `UsableMeansComplete`, `UniqueNames`, `RoundIsTransaction`, `CloseLosesNothingWritten`, `IndexedInOrder`, `ChartRowSurvivesWithObject`, `IndexedInOneRun`; that the pipeline implements WriteBehind (`ImplementsWriteBehind`) |
| `live` | 2 charts of one name, 2 features, 2 objects, 1 run, 1 fault | `GuiThreadReturns`: no handler of the GUI thread waits for ever; `QueuedIsStored` |
| `position` | angles up to two turns in a world of 4 degrees of 2 minutes of 2 seconds per half circle, 3 formats, up to 2 old rows | `SearchNeverFails`, `RepairKeepsStored`, `JumpsToTheObject` |
| `scan` | 3 scales, every area of a small grid, 2 dialogs, no viewport at first, then viewports in time or late | `TypeOK`, `OneScanAtATime`, `StopCostsOneScale`, `LeavesNoGaps`, `ScanReturns` |
| `csv` | every string of up to 5 characters; rendered records of up to 2 fields of up to 2 characters, files of up to 2 records, records of 4 to 6 fields with a name, feature or source missing or not UTF-8 or a position off the map, with and without a newline at the end; a record of one field more than fits; records before a quoted field that is broken or not closed; a buffer of 14; nothing or one field behind an unended line | `TypeOK`, `UnreadIsIntact`, `DeliversPrefix`, `EndsOnlyForCause`, `StraysOnlyForCause`; `ProgressInRange`, `ImportEnds`; that the import implements ImportFile (`ImplementsImportFile`) |
| `search` | 3 features (a marine and an inland one of a kind, one name part of another), 2 objects at 2 distances, miles or kilometres, failing statements, restarts, crashes | `AllMeansAll`, `ItemsDiffer`, `ShowsOnlyWanted`, `ShowsAllWanted`, `NearestFirst`, `ButtonHasRow`, `SettingsSurvive` |

Six more runs each end in a violation, the subject of a section below.

### Why the bounds are enough

* Two charts are what `m_chartLoading` can confuse; two paths of one name are
  what `GetChartId` can (`live`). A third object is needed where an order of
  three matters (A, B, A again) and where a crash separates the first two.
* Two runs show everything a restart can find: an empty directory, a file
  without tables, some tables, some rows. A third run starts from the same kinds
  of files. Faults are bounded because the first one already makes the database
  unusable for the rest of a run; with two runs and one fault it falls in
  either.
* The views of `scan` span 1, 2 and 4 units in areas up to 4 wide, so rows of
  one, of several, and of partly covered positions all occur. Two dialogs let a
  stop request of the first meet the scan of the second.
* Two objects of `search` can be listed in either order, on either side of the
  limit, and one of them before and one after the count; the two distances are
  within a tenth of a mile and differ in kilometres. The limit of 1 object for
  the question makes it come and not come.
* Fourteen characters are fewer than some lines of `csv` and more than others;
  two records in a row use the buffer twice.
* Deadlock is checked except in the two runs of AreaScan, where all dialogs
  the bound allows have been closed. In ObjSearch and CsvImport the end is the
  action `Stopped`.

### Fairness

* The GUI thread finishes a handler it has entered (`WF` of the steps of
  `SendVectorChartObjectInfo`, `Init` and `DeInit`), and DbThread runs when it
  can (`WF`): both are preemptive threads of the operating system.
* `AwaitWrite` has strong fairness: the GUI thread looks at `m_bIsWriting` every
  10 ms, and the flag is down for the 500 ms of `Sleep` in every round. An
  unfair scheduler could let it look at the wrong moments for ever; the code
  does not exclude that, the two delays do in practice.
* `AwaitGone` tests in one step, without holding `m_pThreadCS` in between; the
  code locks it for each test, and `~DbThread` needs it once. `WF` of the two
  stands for a critical section that does not keep the destructor out for ever.
* `ScanStep` and `ImportStep` have `WF`: the loops run. No user action and no call
  of OpenCPN, a report of the viewport among them, is fair: nothing makes them
  happen.

## Where the code and its documents disagree

| Run | Property | What the code does |
|---|---|---|
| `object_chart` | `ObjectHasItsChart` | the first object of a new chart is stored with `chart_id` 0 |
| `object_feature` | `ObjectHasItsFeature` | an object DbThread inserts between the INSERT of a feature and `GetLastRowId` gives its own id to the feature |
| `interleaved_charts` | `EveryObjectIsIndexed` | objects of a chart that come after the first of another new chart are dropped |
| `shutdown_queue` | `ShutdownKeepsQueue` | objects queued while DbThread sleeps are lost by a clean shutdown |
| `scan_idl` | `RefusesOnlyIDL` | areas across Greenwich that reach further west than east are refused as crossing the date line |
| `csv_line_break` | `QuotedStringErrorsAreIllFormatted` | a line break in a quoted field, which `csv_parser.h:18` wants preserved, ends the parse as an ill-formatted quoted string |

`findings` in `PROJECT.json` quotes the sentence each of them contradicts.

More disagreements have no run of their own; the models have the behaviour, and
these properties name it.

* `csv_parser.h:22` calls `E_LINE_TOO_WIDE` the "error code for line width >=
  MAX_LINE_LEN"; a last line without a newline of `MAX_LINE_LEN - 1` characters
  is given up as too wide already (`csv_parser.cpp:114`). It is the cause
  `LastFillsBuffer` of `EndsOnlyForCause`.
* `csv_parser.cpp:30` has `*buff` before a comma or a newline when
  `csv_process_quoted_string` succeeds; behind a quote that is the last
  character of the file there is neither (58), and the parser goes on behind the
  line: `StaleNewline`, `StaleQuote` and `GoesAstray`.
* `ItemsDiffer` speaks of codes that differ in capitals only, because the tables
  have the words "Tidal stream - time series" twice, for `TS_TIS`
  (`objsearch_pi.cpp:1241`) and for `T_TIMS` (1247): the popup has two items that
  cannot be told apart, and `ShowsAllWanted` leaves features without words of
  their own out. No document of the repository has the words for `T_TIMS`.
* The manual (`manual/modules/ROOT/pages/index.adoc`) explains a limit of 5 as
  5 nautical miles. In another unit of OpenCPN `SetRangeLimit` converts the number
  the dialog labels "NMi": five becomes less, a small number of metres 0,
  "Unlimited", and the converted number is what the next run shows, and converts
  again. `SettingsSurvive` says that this happens exactly once a run;
  `ShowsAllWanted` assumes nautical miles.

## Proofs

| Module | Theorem | Says |
|---|---|---|
| ObjSearchProofs | `TypeCorrect` | `Spec => []TypeOK` |
| ShutdownProofs | `ShutdownInvariant` | `Spec => []ShutdownInv` |
| | `ThreadEndsBeforeClose` | `Spec => []NoUseAfterClose` |
| | `DatabaseIsComplete` | `Spec => []UsableMeansComplete` |
| | `RoundsAreTransactions`, `CloseLosesNothing` | `RoundIsTransaction`, `CloseLosesNothingWritten` |
| NamesProofs | `NamesAreUnique` | `UniqueNames` |
| | `RowsOutliveObjects`, `ChartsAreIndexedOnce` | `ChartRowSurvivesWithObject`, `IndexedInOneRun` |
| OrderProofs | `ObjectsStayInOrder` | `IndexedInOrder` |
| | `PipelineIsWriteBehind` | `Spec => ImplementsWriteBehind`, the refinement |
| AreaScanProofs | `TypeCorrect`, `ScanShowsArea` | `TypeOK`, `LeavesNoGaps` |
| | `NeverReentered`, `StopsAddUp` | `OneScanAtATime`, `StopCostsOneScale` |
| CsvProofs | `TypeCorrect`, `CompactionIsSafe` | `TypeOK`, `UnreadIsIntact` |
| | `ParseInvariant` | `Spec => []ParseInv` |
| | `DeliversPrefixOfFile` | `DeliversPrefix` |
| | `EndsForCause`, `StraysForCause` | `EndsOnlyForCause`, `StraysOnlyForCause` |
| | `ImportRunsParser` | `ImportSpec => Spec`: all of the above holds of imports |
| | `ProgressIsInRange` | `ImportSpec => []ProgressInRange` |
| | `ImportImplementsFile` | `ImportSpec => ImplementsImportFile`, the refinement |
| ObjectPositionProofs | `RangeSearchIsSafe`, `RepairIsHarmless`, `JumpIsFaithful` | `SearchNeverFails`, `RepairKeepsStored`, `JumpsToTheObject` |
| SearchDialogProofs | `ButtonIsSafe`, `ListIsInOrder`, `SettingsAreKept` | `ButtonHasRow`, `NearestFirst`, `SettingsSurvive` |
| | `AllIsAll`, `ListsWhatWasChecked` | `AllMeansAll`, `ShowsOnlyWanted` |
| | `ListsAllThatWasChecked`, `ItemsAreToldApart` | `ShowsAllWanted`, `ItemsDiffer` |

They hold for every set of charts, features, files, angles and scales, and for
every bound, under the named assumptions beside the CONSTANTS (that the empty
path is no chart's path, that the characters of CSV differ, and the like).
`QueryAssumption` says that "no statement" is not one. `ExactAssumption` of
AreaScan has the screen divisible by every scale: the program computes with
doubles, and the model takes the quotients that come out even.
`InputsAssumption` has every file with its reading. A file with quotes the
format does not know has one as well, the parser's own: of such files the
theorems say that records arrive as these rules read them, not that the rules
are what the writer of the file meant. `NamesAssumption` says of the two tables
of words that no code of the second is in capitals and none has the words of its
own capitals, and of `Upper` that it leaves capitals alone; `SearchAssumption`,
that the keys of a map differ.

* **Types.** `TypeOK` is not inductive: popping a statement and reading the row
  of a call need that the queue and the list of calls are not empty where they
  are used. `TInv` adds those facts. The lemmas `FailureTypes` and
  `Insert...Types` say what a statement does, so that an action of either
  thread cites one line for it.
* **Shutdown.** `NoUseAfterClose` speaks of two ends of a chain the invariant
  has to hold together: `LockInv` ties `m_pThread` and `m_pThreadCS` to the
  places of the two threads, `ThreadInv` says that the thread is absent in
  `Init` and after `AwaitGone`, and `OpenInv` what each step of `Init` has
  learnt about the database. `AwaitGone` is where they meet: the lock is free,
  so the destructor is not in its middle, and the pointer is NULL, so it was
  entered; hence it has ended. A crash resets all three.
* **Transaction.** `TxInv` adds to `RoundIsTransaction` that the connection
  sees the file where no transaction is open, and that no run begins in one. It
  needs `ShutdownInv`: `m_bDBUsable` becomes true in `Init`, when there is no
  thread yet, and a run ends with the connection closed.
* **Names.** The table is known to have no name twice only because the maps know
  every name the table has: what `view` has now, and what `file` has and a
  rollback would bring back. The one exception is the row just inserted, between
  its INSERT and the assignment of `GetLastRowId`. After a restart `Init` fills
  the maps before a call can rely on them.
* **Rows and runs.** A stored object has its rows because they were inserted
  first, through the same connection; `LinkInv` follows an object from its call
  through the queue to the two tables: in each table set it is stored with its
  rows, and on its way it finds them in `view`. A row of a chart is never
  lost alone: what takes it from `view` takes all that came after it, and every
  object of the chart did. A chart begins to load when its name is not in the
  map, hence, by `MapsInv` and `NamesInvariant`, in no table, so that no object of
  that name is anywhere: this gives `IndexedInOneRun`.
* **Order and refinement.** `OrderInv`: the numbers of what is stored, of what is
  durable and of what waits increase, both of the first are before the third,
  and the next number is above them all. Order is proved once for each step of
  WriteBehind (`AcceptOrder`, `WriteOrder`, `LossOrder`), and each step of the two
  threads is shown to be one of these (`ChartIndexerSimulates`,
  `DbThreadSimulates` and the like), which is the refinement as well. The ends of a
  run need `ShutdownInv`: DbThread holds no statement when the queue is emptied.
* **Scan.** `ScanInv` adds that the button is disabled, or the dialog hidden or
  closed, while `OnOk` is on the stack, and counts a pending request as one of
  the stops that have not cost a scale yet. For `LeavesNoGaps`, `CoverInv` says
  what the loops have shown when they are not through: the rows that are done
  leave no gap below `lat`, the current row leaves none west of `lon`, and its step is the
  extent of the view. It needs that all rows of a scale are counted with one
  canvas, which is the case because two jumps to one scale from any viewport end
  at the canvas of that scale (`CanvasOfScale`).
* **CSV, the buffer.** `CsvInv` adds to `UnreadIsIntact` that the last character of
  the line is followed by its NUL, that `p` is behind `q` also after the closing
  quote, and that the reader on a character that is not NUL is before the end;
  these give that the step by two on a doubled quote stays within the line. The
  types follow: the reader stays in the buffer until `GoesAstray`.
* **CSV, the records.** What a parser makes of a whole file is an induction over its
  characters, which the prover does not have; `ParseInv` is that induction, with
  the steps of the parser as its steps. `AtPlace` says that the reader (`b`, `q` in
  a quoted field) is where the file's reading is after as many characters, in
  the same column and mode, and the writer (`p`) as far behind the beginning of the field
  as the reading has characters of it. `Fields` says that the buffer has there what
  the record has, and a NUL behind each field that is complete. `LineEnded` says
  that a line has no newline but its last character. A doubled quote is the
  difficult step: the parser looks at two characters and copies one, the reading
  takes two places, and the copy must be behind neither what is still to be
  read nor what was read before. At the newline `Means` says that the record is
  complete, so that what is delivered is the file's next record: `DeliversPrefix`.
  An error is returned at a place that names its cause, and that is
  `EndsOnlyForCause`; a step behind the NUL of a line is taken only at the end of a file
  without a newline, one behind the columns at a column too many, and that is
  `StraysOnlyForCause`. After `StaleNewline` nothing of the file is left, so what
  the loop has written behind the line is never read.
* **CSV import.** Every step of the import is one of the parser or leaves it alone
  (`ImportRunsParser`), so that its invariant holds in an import. `ImportInv`: a record
  has become at most one object, and among the characters that are behind the
  parser there is a newline for each record that was delivered, but for one that
  was delivered from behind an unended last line. A new record has its newline
  behind all that were counted, so a set of newlines grows by one
  (`LineBreaks` is a cardinality), and their number in the whole file is the
  range of the dialog, which the exception can exceed by one: `ProgressInRange`.
  For the refinement a delivery is `Take` of ImportFile, because `ParseInv` gives
  that what is delivered is the next record; when it has further fields behind it,
  it is `Take` or `TakeUnended`; the end is its end, with the causes above.
* **Positions.** `PositionInv` says for each step of the repair which rows may
  still be off the map, and that rows of this version are on it. `RoundTrip` is
  arithmetic: the two or three numbers of a text add up to a multiple of
  `Degree`, so the division of `fromDMM` is exact, and the letter gives the sign.
  It speaks of the text alone; `JumpsToTheObject`, which has `Readings` to do
  with, holds for the formats that end with a letter.
  Its formula is nonlinear in `Base`, and the proof states it for plain numbers
  before it puts the digits in.
* **Result list.** `NearestFirst` speaks of a list at rest; `ListInv` follows the
  list while it is filled: its rows stand for stored objects, each with the
  distance of its own object as data, none later in the table than the row the
  statement is at, and before the first row the list is empty. Hence a row that
  is added is new, and an insertion by DbThread is behind them all. The sort is
  a bijection on places, which keeps all of that. Data are whole tenths, so the
  order of the data is an order of the distances up to one tenth of the unit.
* **Settings.** `SettingsSurvive` speaks of the step that begins a run; `SettingsInv`
  says of the states before it that the configuration holds the limit `left` behind
  converted once, and its box. Searches change the members of the plugin alone,
  and DeInit collects from the dialog before it saves.
* **What a search lists.** Three invariants in a row: `PopupInv`, the items are the
  words of the values place by place; `FilterInv`, the filter of a running search
  has the features of the items that were checked and no other, and its limit is
  the one shown; `ShownInv`, every row was selected by that filter, and what was
  counted and is selected is listed or behind the row the statement is at.
  `InOrderTakesPlaces` says that the filter, and the popup, take all the places
  they are made from: places have ranks of their own, so every rank is taken.
  The user checks words, so `ShowsAllWanted` is about features whose words no other
  has. Order has no feature twice, hence the popup has none (`InOrderKeepsDistinct`),
  and a code in capitals differs in its words from the others of its kind
  (`WordsOfOneKind`, by the tables' order and the prefix): `ItemsDiffer`. Two
  codes neither of which is in capitals, as `Canbnk` and `canbnk` of a file, may
  have the same words.

Every safety invariant, both refinements included, that a passing run checks is
proved. Model-checked only is liveness: `GuiThreadReturns`, `QueuedIsStored`,
`ScanReturns` and `ImportEnds`. Liveness under fairness, and ENABLED, are out of
the prover's reach. So is induction over data: that every file has a reading, and records
that it gives, is checked on the files of the run `csv`, for which both are
computed, and assumed of the others.

## Abstractions to know about

* `query_queue` is a `std::queue` two threads use without a lock. The model
  takes every order of a push and a pop, and lets the process end at any
  moment (`Crash`); a corrupted queue that goes on working is not modelled.
* A crash is the end of the process. With `synchronous=OFF` a power failure may
  damage the file itself; that is not modelled.
* Scale, native scale, position and the name of an object are payload of the
  pipeline: an object is the number of the call that reported it.
* What is behind an unterminated last line is a set of sequences of fields
  (`Stale`), any set in the proofs. `GoesAstray` ends a CSV run: what is behind the
  end of the buffer, and what a field behind the array overwrites, depends on the
  build. `StraysOnlyForCause` says when it happens.
* The progress dialog is told of every tenth object; the model counts all. In a
  file of nine newlines and a tenth record without one it may be told of 10 with a
  range of 9: `ProgressInRange` allows it, and what wxWidgets then does is its own.
* AreaScan has the modal settings dialog of the builds other than macOS
  (`ShowPreferencesDialog` uses `Show` there, and a second dialog has a button
  of its own), and no DeInit in the middle of a scan.
* In the format of plain degrees nothing is claimed of a jump: the number runs
  on into memory that was never written.
* A distance is converted to the user's unit by `FindObjects` and again by
  `AddObject`. With miles both are the identity; otherwise the column shows a
  number twice converted; what the rows are sorted by, and ResultList has, is
  converted once.
* `LeavesNoGaps` is claimed of scans whose rows were begun with their own
  viewport. A row begun with the steps of another scale may leave gaps. It says
  that views leave no gap up to the last row and column, not that the last ones
  reach the edge of the area. That `OnOk` returns (`ScanReturns`) is claimed from
  a scale on at which a viewport has been reported; before, it may not.
* `toSDMM_PlugIn` rounds the last number of a text; `JumpsToTheObject` is exact
  because the model leaves that out.

## Not modelled

* The layout of the dialogs that wxFormBuilder generates; the events it binds
  are actions of SearchDialog and AreaScan.
* The text condition of a search (`LIKE '%term%'`) and the wording of the
  columns.
* `GetLat` and `GetLon` compare with NAN, which nothing equals, so that they
  never fall back to the viewport: without a position fix every search whose
  second statement is sent fails, and the database counts as unusable for the
  rest of the run. The models have the failure at any search (`SearchFails`,
  `SelectFails`), not its reason.
* Spellings of coordinates that `toSDMM_PlugIn` never writes.
* The insides of wxSQLite3 and SQLite beyond the places named above. They are
  vendored, in two copies with a shell, and are 99.6% of the lines of C and C++
  in the repository, so a share of all lines says little; of
  `objsearch_pi.cpp` the map names about 75%, and what it leaves out is licence,
  includes, registration of the plugin and bitmaps.
* Build, packaging and translations.

## Plan

1. *Done:* the pipeline with its lifecycle, its refinement and its first
   proofs; positions and their texts, area scan, CSV
   parser and import, search dialog, range limit.
2. *Done:* the result list row by row, the names of features, the failing
   statements of both threads during a search; the import as an implementation
   of ImportFile; what the parser and `fromDMM` do at the ends of their buffers.
3. *Done:* the proofs of all safety properties: of the indexing pipeline and of
   its refinement, of the area scan, of the positions, of the parser against its
   format, of the import and its refinement, and of the search dialog.
4. Next: a second settings dialog, as the builds for macOS allow it; and a DeInit
   in the middle of a scan.
