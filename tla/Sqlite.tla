------------------------------- MODULE Sqlite -------------------------------
(***************************************************************************)
(* The SQLite database of the plugin: the durable file, and the ONE        *)
(* connection m_db that the GUI thread and DbThread share.                 *)
(*                                                                         *)
(* SQLite serialises the statements of a connection, so a statement is one *)
(* step; the open transaction and the last inserted row id belong to the   *)
(* connection, and therefore to both threads.  Of the library these        *)
(* operators have what objsearch_pi.cpp relies on.                         *)
(***************************************************************************)
EXTENDS Integers, Sequences

VARIABLES
  fileExists, \* objsearch_pi.db is in the private data directory
  schema,     \* the tables that exist in the file
  file,       \* committed rows: what a restart reads
  view,       \* rows as the connection reads them
  inTx,       \* a BEGIN has not been committed or rolled back yet
  lastRow,    \* sqlite3_last_insert_rowid of the connection
  m_db        \* the Database object the pointer m_db leads to

rowVars == <<file, view, inTx, lastRow>>
sqliteVars == <<fileExists, schema, file, view, inTx, lastRow, m_db>>

Tables == {"chart", "feature", "object"}
NoRows == [chart |-> <<>>, feature |-> <<>>, object |-> <<>>]

SqliteInit ==
  /\ fileExists = FALSE
  /\ schema = {}
  /\ file = NoRows
  /\ view = NoRows
  /\ inTx = FALSE
  /\ lastRow = 0
  /\ m_db = "none"

-----------------------------------------------------------------------------
(* Rows are never deleted by the program, so the id AUTOINCREMENT gives to *)
(* a row is its place in the table.  Outside BEGIN..COMMIT a statement is  *)
(* its own transaction.                                                    *)
Insert(rows, rowid) ==
  /\ view' = rows
  /\ file' = IF inTx THEN file ELSE rows
  /\ lastRow' = rowid
  /\ UNCHANGED <<fileExists, schema, inTx, m_db>>

InsertChart(name) ==
  Insert([view EXCEPT !.chart = Append(@, name)], Len(view.chart) + 1)

InsertFeature(name) ==
  Insert([view EXCEPT !.feature = Append(@, name)], Len(view.feature) + 1)

InsertObject(row) ==
  Insert([view EXCEPT !.object = Append(@, row)], Len(view.object) + 1)

BeginTransaction ==
  /\ inTx' = TRUE
  /\ UNCHANGED <<fileExists, schema, file, view, lastRow, m_db>>

CommitTransaction ==
  /\ inTx' = FALSE
  /\ file' = view
  /\ UNCHANGED <<fileExists, schema, view, lastRow, m_db>>

(* Some errors (disk full, I/O) roll the open transaction back. *)
Rollback ==
  /\ inTx' = FALSE
  /\ view' = file
  /\ UNCHANGED <<fileExists, schema, file, lastRow, m_db>>

CreateTable(table) ==
  /\ schema' = schema \union {table}
  /\ UNCHANGED <<fileExists, file, view, inTx, lastRow, m_db>>

(* Opening creates the file; a transaction nobody committed is gone. *)
OpenDatabase ==
  /\ fileExists' = TRUE
  /\ m_db' = "open"
  /\ view' = file
  /\ inTx' = FALSE
  /\ lastRow' = 0
  /\ UNCHANGED <<schema, file>>

(* The connection ends (Close, or the end of the process): what was not    *)
(* committed is rolled back.                                               *)
Disconnect(state) ==
  /\ m_db' = state
  /\ view' = file
  /\ inTx' = FALSE
  /\ lastRow' = 0
  /\ UNCHANGED <<fileExists, schema, file>>
=============================================================================
