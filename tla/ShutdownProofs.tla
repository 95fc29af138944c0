--------------------------- MODULE ShutdownProofs ---------------------------
(***************************************************************************)
(* Proofs about the start and the end of a run and about the transaction:  *)
(* DbThread lives strictly inside the life of the database object, a       *)
(* database that counts as usable is open and has its tables, a round of   *)
(* DbThread is one transaction, and closing the database rolls nothing     *)
(* back.                                                                   *)
(***************************************************************************)
EXTENDS ObjSearchProofs

(* m_pThread tells whether the thread is there, and m_pThreadCS is held    *)
(* exactly where the code holds it.                                        *)
LockInv ==
  /\ m_pThread <=> tpc \notin {"absent", "destroyed"}
  /\ cs = "thread" <=> tpc = "destroyed"
  /\ cs = "main" <=> mpc \in {"awaitWrite", "deleteThread"}

(* The thread is started by the last step of Init and gone before the      *)
(* last-resort wait.                                                       *)
ThreadInv ==
  /\ mpc \in {"off", "lastResort", "clearDB", "closed"} \union InInit
       => tpc = "absent"
  /\ tpc = "absent" => ~ m_db_thread_running

Loading == {"loadCharts", "loadFeatures", "startThread"}

(* What Init has found out about the database at each of its steps. *)
OpenInv ==
  /\ m_db \in {"none", "deleted"} => mpc \in {"off", "open", "closed"}
  /\ m_bDBUsable /\ mpc \notin {"off", "open", "closed"} => m_db = "open"
  /\ mpc \in InSVCOI => m_db = "open"
  /\ m_bDBUsable /\ mpc \in Loading \union {"idle"} \union InSVCOI
       => "object" \in schema
  /\ m_bDBUsable /\ mpc \in (Loading \ {"loadCharts"})
                              \union {"idle"} \union InSVCOI
       => "chart" \in schema
  /\ m_bDBUsable /\ mpc \in {"startThread", "idle"} \union InSVCOI
       => "feature" \in schema

ShutdownInv == LockInv /\ ThreadInv /\ OpenInv

(* No statement of a handler or of the thread closes the database, drops a *)
(* table, or makes an unusable database usable.                            *)
LEMMA StatementsKeepDatabase ==
  ASSUME NEW STATE legal,
         \/ StatementFails(legal)
         \/ /\ UNCHANGED m_bDBUsable
            /\ \/ \E n : InsertChart(n) \/ InsertFeature(n) \/ InsertObject(n)
               \/ BeginTransaction
               \/ CommitTransaction
               \/ UNCHANGED sqliteVars
  PROVE  UNCHANGED schema /\ UNCHANGED m_db /\ (m_bDBUsable' => m_bDBUsable)
<1>1. CASE StatementFails(legal)
  <2>1. m_bDBUsable' = FALSE
    BY <1>1 DEF StatementFails
  <2>2. UNCHANGED sqliteVars \/ Rollback
    BY <1>1 DEF StatementFails
  <2> QED
    BY <2>1, <2>2 DEF sqliteVars, Rollback
<1>2. CASE ~ StatementFails(legal)
  BY <1>2 DEF InsertChart, InsertFeature, InsertObject, Insert,
     BeginTransaction, CommitTransaction, sqliteVars
<1> QED
  BY <1>1, <1>2

(* SendVectorChartObjectInfo creates no table and neither opens nor closes *)
(* the database.                                                           *)
LEMMA ChartIndexerKeepsDatabase ==
  ASSUME ChartIndexerNext
  PROVE  UNCHANGED schema /\ UNCHANGED m_db /\ (m_bDBUsable' => m_bDBUsable)
<1>1. CASE InsertNewChart
  BY <1>1, StatementsKeepDatabase DEF InsertNewChart, QueryDB
<1>2. CASE InsertNewFeature
  BY <1>2, StatementsKeepDatabase DEF InsertNewFeature, QueryDB
<1>3. CASE ReportCall
  BY <1>3 DEF ReportCall, Receive, sqliteVars
<1>4. CASE SearchFails
  BY <1>4 DEF SearchFails, sqliteVars
<1>5. CASE LookupChart
  BY <1>5 DEF LookupChart, sqliteVars
<1>6. CASE LookupFeature
  BY <1>6 DEF LookupFeature, sqliteVars
<1>7. CASE NewChart
  BY <1>7 DEF NewChart, sqliteVars
<1>8. CASE ChartRowId
  BY <1>8 DEF ChartRowId, sqliteVars
<1>9. CASE NewFeature
  BY <1>9 DEF NewFeature, sqliteVars
<1>10. CASE FeatureRowId
  BY <1>10 DEF FeatureRowId, sqliteVars
<1>11. CASE StoreNewObject
  BY <1>11 DEF StoreNewObject, sqliteVars
<1> QED
  BY <1>1, <1>2, <1>3, <1>4, <1>5, <1>6, <1>7, <1>8, <1>9, <1>10,
    <1>11 DEF ChartIndexerNext, ChartIndexerStep

(* Nor does DbThread.                                                      *)
LEMMA DbThreadKeepsDatabase ==
  ASSUME DbThreadNext
  PROVE  UNCHANGED schema /\ UNCHANGED m_db /\ (m_bDBUsable' => m_bDBUsable)
<1>1. CASE Begin
  BY <1>1, StatementsKeepDatabase DEF Begin, QueryDB
<1>2. CASE ExecuteQuery
  BY <1>2, StatementsKeepDatabase DEF ExecuteQuery, QueryDB
<1>3. CASE Commit
  BY <1>3, StatementsKeepDatabase DEF Commit, QueryDB
<1>4. CASE ThreadStarts
  BY <1>4 DEF ThreadStarts, sqliteVars
<1>5. CASE TestDestroy
  BY <1>5 DEF TestDestroy, sqliteVars
<1>6. CASE MarkWriting
  BY <1>6 DEF MarkWriting, sqliteVars
<1>7. CASE TakeQuery
  BY <1>7 DEF TakeQuery, sqliteVars
<1>8. CASE QueueEmpty
  BY <1>8 DEF QueueEmpty, sqliteVars
<1>9. CASE UnmarkWriting
  BY <1>9 DEF UnmarkWriting, sqliteVars
<1>10. CASE WakeUp
  BY <1>10 DEF WakeUp, sqliteVars
<1>11. CASE DestroyThread
  BY <1>11 DEF DestroyThread, sqliteVars
<1>12. CASE ThreadGone
  BY <1>12 DEF ThreadGone, sqliteVars
<1> QED
  BY <1>1, <1>2, <1>3, <1>4, <1>5, <1>6, <1>7, <1>8, <1>9, <1>10, <1>11,
    <1>12 DEF DbThreadNext

(* SendVectorChartObjectInfo runs in the idle plugin, begins only with a   *)
(* usable database and leaves the thread alone.                            *)
LEMMA ChartIndexerMoves ==
  ASSUME ChartIndexerNext
  PROVE  /\ UNCHANGED threadVars /\ UNCHANGED cs
         /\ mpc \in {"idle"} \union InSVCOI
         /\ mpc' \in {"idle"} \union InSVCOI
         /\ mpc = "idle" /\ mpc' # "idle" => m_bDBUsable
<1> USE DEF GuiAt, AfterChart, InSVCOI, guiOnlyVars, csVars
<1>1. CASE ReportCall
  BY <1>1 DEF ReportCall, Receive
<1>2. CASE SearchFails
  BY <1>2 DEF SearchFails
<1>3. CASE LookupChart
  BY <1>3 DEF LookupChart
<1>4. CASE LookupFeature
  BY <1>4 DEF LookupFeature
<1>5. CASE NewChart
  BY <1>5 DEF NewChart
<1>6. CASE InsertNewChart
  BY <1>6 DEF InsertNewChart
<1>7. CASE ChartRowId
  BY <1>7 DEF ChartRowId
<1>8. CASE NewFeature
  BY <1>8 DEF NewFeature
<1>9. CASE InsertNewFeature
  BY <1>9 DEF InsertNewFeature
<1>10. CASE FeatureRowId
  BY <1>10 DEF FeatureRowId
<1>11. CASE StoreNewObject
  BY <1>11 DEF StoreNewObject
<1> QED
  BY <1>1, <1>2, <1>3, <1>4, <1>5, <1>6, <1>7, <1>8, <1>9, <1>10,
    <1>11 DEF ChartIndexerNext, ChartIndexerStep

(* Hence it keeps ShutdownInv.                                             *)
LEMMA ChartIndexerShutdown ==
  ASSUME ShutdownInv, ChartIndexerNext
  PROVE  ShutdownInv'
<1>1. LockInv'
  BY ChartIndexerMoves DEF ShutdownInv, LockInv, threadVars, InSVCOI
<1>2. ThreadInv'
  BY ChartIndexerMoves DEF ShutdownInv, ThreadInv, threadVars, InSVCOI, InInit
<1>3. OpenInv'
  BY ChartIndexerMoves, ChartIndexerKeepsDatabase
  DEF ShutdownInv, OpenInv, InSVCOI, Loading
<1> QED
  BY <1>1, <1>2, <1>3 DEF ShutdownInv

(* DbThread moves only between its first and its last step, and holds      *)
(* m_pThreadCS only on the way out.                                        *)
LEMMA DbThreadShutdown ==
  ASSUME ShutdownInv, DbThreadNext
  PROVE  ShutdownInv'
<1>1. UNCHANGED mpc /\ tpc # "absent"
  BY DEF DbThreadNext, ThreadAt, guiVars, ThreadStarts, TestDestroy, Begin,
     MarkWriting, TakeQuery, ExecuteQuery, QueueEmpty, Commit, UnmarkWriting,
     WakeUp, DestroyThread, ThreadGone
<1>2. OpenInv'
  BY <1>1, DbThreadKeepsDatabase DEF ShutdownInv, OpenInv
<1>3. LockInv' /\ ThreadInv'
  <2> USE <1>1 DEF ShutdownInv, LockInv, ThreadInv, ThreadAt
  <2>1. CASE ThreadStarts
    BY <2>1 DEF ThreadStarts
  <2>2. CASE TestDestroy
    BY <2>2 DEF TestDestroy
  <2>3. CASE Begin
    BY <2>3 DEF Begin
  <2>4. CASE MarkWriting
    BY <2>4 DEF MarkWriting
  <2>5. CASE TakeQuery
    BY <2>5 DEF TakeQuery
  <2>6. CASE ExecuteQuery
    BY <2>6 DEF ExecuteQuery
  <2>7. CASE QueueEmpty
    BY <2>7 DEF QueueEmpty, AfterDrain
  <2>8. CASE Commit
    BY <2>8 DEF Commit
  <2>9. CASE UnmarkWriting
    BY <2>9 DEF UnmarkWriting
  <2>10. CASE WakeUp
    BY <2>10 DEF WakeUp
  <2>11. CASE DestroyThread
    BY <2>11 DEF DestroyThread
  <2>12. CASE ThreadGone
    BY <2>12 DEF ThreadGone
  <2> QED
    BY <2>1, <2>2, <2>3, <2>4, <2>5, <2>6, <2>7, <2>8, <2>9, <2>10, <2>11,
      <2>12 DEF DbThreadNext
<1> QED
  BY <1>2, <1>3 DEF ShutdownInv

(* A step of Init or DeInit keeps what it has to, and none of them skips    *)
(* the one before.                                                         *)
LEMMA LifecycleShutdown ==
  ASSUME ShutdownInv, LifecycleNext
  PROVE  ShutdownInv'
<1> USE DEF ShutdownInv, LockInv, ThreadInv, OpenInv, Loading, InInit, InSVCOI
<1>1. CASE Load
  BY <1>1 DEF Load, InitGoes, Constructed, sqliteVars
<1>2. CASE OpenDB
  BY <1>2 DEF OpenDB, OpenDatabase, initUnchanged, threadVars, csVars
<1>3. CASE CreateTables
  BY <1>3
  DEF CreateTables, Create, CreateTable, QueryDB, StatementFails,
      Accepted, Rollback, InitGoes, initUnchanged, threadVars, csVars,
      sqliteVars
<1>4. CASE FixOldObjects
  BY <1>4
  DEF FixOldObjects, SelectFromDB, QueryDB, StatementFails,
      Accepted, Rollback, InitGoes, initUnchanged, threadVars, csVars,
      sqliteVars
<1>5. CASE LoadCharts
  BY <1>5
  DEF LoadCharts, SelectFromDB, QueryDB, StatementFails,
      Accepted, Rollback, InitGoes, initUnchanged, threadVars, csVars,
      sqliteVars
<1>6. CASE LoadFeatures
  BY <1>6
  DEF LoadFeatures, SelectFromDB, QueryDB, StatementFails,
      Accepted, Rollback, InitGoes, initUnchanged, threadVars, csVars,
      sqliteVars
<1>7. CASE StartThread
  BY <1>7 DEF StartThread, InitGoes, csVars, sqliteVars
<1>8. CASE DeInit
  BY <1>8 DEF DeInit, InitGoes, deInitUnchanged, threadVars, csVars,
    sqliteVars
<1>9. CASE AwaitWrite
  BY <1>9 DEF AwaitWrite, InitGoes, deInitUnchanged, threadVars, csVars,
    sqliteVars
<1>10. CASE LockThread
  BY <1>10 DEF LockThread, deInitUnchanged, threadVars, sqliteVars
<1>11. CASE DeleteThread
  BY <1>11 DEF DeleteThread, RequestDelete, InitGoes, deInitUnchanged,
    threadVars, sqliteVars
<1>12. CASE AwaitGone
  BY <1>12 DEF AwaitGone, ThreadIsGone, InitGoes, deInitUnchanged,
    threadVars, csVars, sqliteVars
<1>13. CASE LastResort
  BY <1>13 DEF LastResort, InitGoes, deInitUnchanged, threadVars, csVars,
    sqliteVars
<1>14. CASE ClearDB
  BY <1>14 DEF ClearDB, Disconnect, InitGoes, deInitUnchanged, threadVars,
    csVars
<1>15. CASE Unload
  BY <1>15 DEF Unload, GoesOff, Constructed, Disconnect
<1>16. CASE Crash
  BY <1>16 DEF Crash, GoesOff, Constructed, Disconnect
<1>17. CASE Stopped
  BY <1>17 DEF Stopped, vars, threadVars, csVars, sqliteVars
<1> QED
  BY <1>1, <1>2, <1>3, <1>4, <1>5, <1>6, <1>7, <1>8, <1>9, <1>10, <1>11,
    <1>12, <1>13, <1>14, <1>15, <1>16, <1>17 DEF LifecycleNext, InitStep,
    DeInitStep

(* The process begins without plugin and thread.                           *)
LEMMA InitShutdown ==
  ASSUME Init
  PROVE  ShutdownInv
BY DEF Init, SqliteInit, ShutdownInv, LockInv, ThreadInv, OpenInv, InInit,
   InSVCOI, Loading

(* Every step keeps ShutdownInv.                                           *)
LEMMA NextShutdown ==
  ASSUME ShutdownInv, [Next]_vars
  PROVE  ShutdownInv'
<1>1. CASE Next
  BY <1>1, ChartIndexerShutdown, DbThreadShutdown, LifecycleShutdown DEF Next
<1>2. CASE UNCHANGED vars
  BY <1>2 DEF vars, sqliteVars, threadVars, csVars, ShutdownInv, LockInv,
     ThreadInv, OpenInv
<1> QED
  BY <1>1, <1>2

(* The three parts of ShutdownInv are what Init, DeInit and the destructor *)
(* of DbThread maintain together; none is inductive alone.                 *)
THEOREM ShutdownInvariant == Spec => []ShutdownInv
BY InitShutdown, NextShutdown, PTL DEF Spec

(* DbThread touches m_db only while the database object is there: DeInit's *)
(* wait for m_pThread = NULL under m_pThreadCS is enough, for any number   *)
(* of charts, objects, faults and restarts.                                *)
THEOREM ThreadEndsBeforeClose == Spec => []NoUseAfterClose
<1>1. ShutdownInv => NoUseAfterClose
  BY DEF ShutdownInv, ThreadInv, OpenInv, NoUseAfterClose, InInit
<1> QED
  BY <1>1, ShutdownInvariant, PTL

(* A database that m_bDBUsable vouches for is open and has its three       *)
(* tables whenever a handler relies on it.                                 *)
THEOREM DatabaseIsComplete == Spec => []UsableMeansComplete
<1>1. TypeOK /\ ShutdownInv => UsableMeansComplete
  BY DEF TypeOK, DatabaseTypes, Tables, ShutdownInv, OpenInv,
     UsableMeansComplete, InSVCOI, Loading
<1> QED
  BY <1>1, TypeCorrect, ShutdownInvariant, PTL

-----------------------------------------------------------------------------
(* The transaction of the connection the two threads share. *)
InRound == {"mark", "drain", "execute", "commit"}

(* A connection begins outside a transaction, and outside a transaction    *)
(* what it reads is what is in the file.                                   *)
TxInv ==
  /\ RoundIsTransaction
  /\ ~ inTx => view = file
  /\ mpc = "off" => ~ inTx

(* What a statement of the GUI thread does to the transaction: nothing,    *)
(* unless it fails.                                                        *)
LEMMA GuiStatementKeepsRound ==
  ASSUME TxInv, UNCHANGED tpc, mpc' # "off", NEW STATE legal,
         \/ StatementFails(legal)
         \/ /\ UNCHANGED m_bDBUsable
            /\ \/ \E n : InsertChart(n) \/ InsertFeature(n)
               \/ \E table : CreateTable(table)
               \/ UNCHANGED sqliteVars
  PROVE  TxInv'
<1>1. CASE StatementFails(legal)
  <2>1. ~ m_bDBUsable' /\ (UNCHANGED sqliteVars \/ Rollback)
    BY <1>1 DEF StatementFails
  <2> QED
    BY <2>1 DEF TxInv, RoundIsTransaction, Rollback, sqliteVars
<1>2. CASE UNCHANGED m_bDBUsable /\ \E n : InsertChart(n) \/ InsertFeature(n)
  BY <1>2 DEF TxInv, RoundIsTransaction, InsertChart, InsertFeature, Insert
<1>3. CASE UNCHANGED m_bDBUsable /\ \E table : CreateTable(table)
  BY <1>3 DEF TxInv, RoundIsTransaction, CreateTable
<1>4. CASE UNCHANGED m_bDBUsable /\ UNCHANGED sqliteVars
  BY <1>4 DEF TxInv, RoundIsTransaction, sqliteVars
<1> QED
  BY <1>1, <1>2, <1>3, <1>4

(* The GUI thread begins and ends no transaction.                          *)
LEMMA ChartIndexerRound ==
  ASSUME TxInv, ChartIndexerNext
  PROVE  TxInv'
<1>1. UNCHANGED tpc /\ mpc' # "off"
  BY ChartIndexerMoves DEF threadVars, InSVCOI
<1>2. CASE InsertNewChart
  BY <1>1, <1>2, GuiStatementKeepsRound DEF InsertNewChart, QueryDB
<1>3. CASE InsertNewFeature
  BY <1>1, <1>3, GuiStatementKeepsRound DEF InsertNewFeature, QueryDB
<1>4. CASE SearchFails
  BY <1>1, <1>4 DEF SearchFails, TxInv, RoundIsTransaction, sqliteVars
<1>5. CASE UNCHANGED sqliteVars /\ UNCHANGED m_bDBUsable
  BY <1>1, <1>5 DEF TxInv, RoundIsTransaction, sqliteVars
<1> QED
  BY <1>2, <1>3, <1>4, <1>5 DEF ChartIndexerNext, ChartIndexerStep,
     ReportCall, Receive, LookupChart, LookupFeature, NewChart, ChartRowId,
     NewFeature, FeatureRowId, StoreNewObject

(* DbThread does, with each round.                                         *)
LEMMA DbThreadRound ==
  ASSUME ShutdownInv, TxInv, DbThreadNext
  PROVE  TxInv'
<1> USE DEF TxInv, RoundIsTransaction
<1>1. UNCHANGED mpc
  BY DEF DbThreadNext, guiVars, ThreadStarts, TestDestroy, Begin,
     MarkWriting, TakeQuery, ExecuteQuery, QueueEmpty, Commit, UnmarkWriting,
     WakeUp, DestroyThread, ThreadGone
<1>2. ASSUME NEW STATE legal, StatementFails(legal)
      PROVE  TxInv'
  <2>1. ~ m_bDBUsable' /\ (UNCHANGED sqliteVars \/ Rollback)
    BY <1>2 DEF StatementFails
  <2> QED
    BY <1>1, <2>1 DEF Rollback, sqliteVars
<1>3. CASE Begin
  <2>1. CASE BeginTransaction /\ UNCHANGED m_bDBUsable
    BY <1>1, <1>3, <2>1 DEF Begin, BeginTransaction, ThreadAt, ShutdownInv,
       ThreadInv
  <2> QED
    BY <1>2, <1>3, <2>1 DEF Begin, QueryDB
<1>4. CASE ExecuteQuery
  <2>1. CASE InsertObject(query) /\ UNCHANGED m_bDBUsable
    BY <1>1, <1>4, <2>1 DEF ExecuteQuery, InsertObject, Insert, ThreadAt
  <2> QED
    BY <1>2, <1>4, <2>1 DEF ExecuteQuery, QueryDB
<1>5. CASE Commit
  <2>1. CASE CommitTransaction /\ UNCHANGED m_bDBUsable
    BY <1>1, <1>5, <2>1 DEF Commit, CommitTransaction, ThreadAt
  <2> QED
    BY <1>2, <1>5, <2>1 DEF Commit, QueryDB
<1>6. CASE UNCHANGED sqliteVars /\ UNCHANGED m_bDBUsable
           /\ (tpc \in InRound <=> tpc' \in InRound)
  BY <1>1, <1>6 DEF sqliteVars, InRound
<1>7. CASE ThreadStarts
  BY <1>6, <1>7 DEF ThreadStarts, ThreadAt, InRound
<1>8. CASE TestDestroy
  BY <1>6, <1>8 DEF TestDestroy, ThreadAt, InRound
<1>9. CASE MarkWriting \/ TakeQuery
  BY <1>6, <1>9 DEF MarkWriting, TakeQuery, ThreadAt, InRound
<1>10. CASE QueueEmpty
  BY <1>6, <1>10 DEF QueueEmpty, AfterDrain, ThreadAt, InRound
<1>11. CASE UnmarkWriting \/ WakeUp \/ DestroyThread \/ ThreadGone
  BY <1>6, <1>11 DEF UnmarkWriting, WakeUp, DestroyThread, ThreadGone,
     ThreadAt, InRound
<1> QED
  BY <1>3, <1>4, <1>5, <1>7, <1>8, <1>9, <1>10, <1>11 DEF DbThreadNext

(* A run begins and ends without one.                                      *)
LEMMA LifecycleRound ==
  ASSUME ShutdownInv, TxInv, LifecycleNext
  PROVE  TxInv'
<1> USE DEF TxInv, RoundIsTransaction, InitGoes, initUnchanged,
    deInitUnchanged, threadVars
<1>1. ASSUME NEW STATE legal, mpc' # "off", UNCHANGED tpc,
             \/ QueryDB(UNCHANGED sqliteVars, legal)
             \/ UNCHANGED <<sqliteVars, m_bDBUsable>>
             \/ \E table : QueryDB(CreateTable(table), legal)
      PROVE  TxInv'
  BY <1>1, GuiStatementKeepsRound DEF QueryDB
<1>2. CASE Load
  BY <1>2 DEF Load, Constructed, sqliteVars
<1>3. CASE OpenDB
  <2>1. tpc = "absent" /\ UNCHANGED tpc
    BY <1>3 DEF OpenDB, ShutdownInv, ThreadInv, InInit
  <2> QED
    BY <1>3, <2>1 DEF OpenDB, OpenDatabase, rowVars
<1>4. CASE CreateTables
  <2>1. PICK here, table, there : Create(here, table, there) /\ there # "off"
    BY <1>4 DEF CreateTables
  <2>2. mpc' # "off" /\ UNCHANGED tpc
    BY <2>1 DEF Create
  <2> QED
    BY <1>1, <2>1, <2>2 DEF Create
<1>5. CASE FixOldObjects
  BY <1>1, <1>5 DEF FixOldObjects, SelectFromDB
<1>6. CASE LoadCharts
  BY <1>1, <1>6 DEF LoadCharts, SelectFromDB
<1>7. CASE LoadFeatures
  BY <1>1, <1>7 DEF LoadFeatures, SelectFromDB
<1>8. CASE StartThread
  <2>1. tpc = "absent"
    BY <1>8 DEF StartThread, ShutdownInv, ThreadInv, InInit
  <2> QED
    BY <1>8, <2>1 DEF StartThread, sqliteVars
<1>9. CASE DeInit \/ AwaitWrite
  BY <1>9 DEF DeInit, AwaitWrite, sqliteVars
<1>10. CASE LockThread \/ DeleteThread
  BY <1>10 DEF LockThread, DeleteThread, sqliteVars
<1>11. CASE AwaitGone \/ LastResort
  BY <1>11 DEF AwaitGone, LastResort, sqliteVars
<1>12. CASE ClearDB
  <2>1. tpc = "absent" /\ UNCHANGED tpc
    BY <1>12 DEF ClearDB, ShutdownInv, ThreadInv
  <2> QED
    BY <1>12, <2>1 DEF ClearDB, Disconnect
<1>13. CASE Unload \/ Crash
  BY <1>13 DEF Unload, Crash, GoesOff, Constructed, Disconnect
<1>14. CASE Stopped
  BY <1>14 DEF Stopped, vars, sqliteVars
<1> QED
  BY <1>2, <1>3, <1>4, <1>5, <1>6, <1>7, <1>8, <1>9, <1>10, <1>11, <1>12,
     <1>13, <1>14 DEF LifecycleNext, InitStep, DeInitStep

(* TxInv needs ShutdownInv: a run begins with no thread, and the database  *)
(* is closed when the thread is gone.                                      *)
THEOREM TransactionInvariant == Spec => []TxInv
<1>1. Init => TxInv
  BY DEF Init, SqliteInit, TxInv, RoundIsTransaction
<1>2. ShutdownInv /\ TxInv /\ [Next]_vars => TxInv'
  <2> SUFFICES ASSUME ShutdownInv, TxInv, [Next]_vars
               PROVE  TxInv'
    OBVIOUS
  <2>1. CASE Next
    BY <2>1, ChartIndexerRound, DbThreadRound, LifecycleRound DEF Next
  <2>2. CASE UNCHANGED vars
    BY <2>2 DEF vars, sqliteVars, threadVars, TxInv, RoundIsTransaction
  <2> QED
    BY <2>1, <2>2
<1> QED
  BY <1>1, <1>2, ShutdownInvariant, PTL DEF Spec

(* While nothing has failed a transaction is open exactly from BEGIN to    *)
(* COMMIT of a round of DbThread.                                          *)
THEOREM RoundsAreTransactions == Spec => []RoundIsTransaction
<1>1. TxInv => RoundIsTransaction
  BY DEF TxInv
<1> QED
  BY <1>1, TransactionInvariant, PTL

(* When DeInit closes the database all that was written is committed.      *)
THEOREM CloseLosesNothing == Spec => []CloseLosesNothingWritten
<1>1. ShutdownInv /\ TxInv => CloseLosesNothingWritten
  BY DEF ShutdownInv, ThreadInv, TxInv, RoundIsTransaction,
     CloseLosesNothingWritten
<1> QED
  BY <1>1, ShutdownInvariant, TransactionInvariant, PTL
=============================================================================
