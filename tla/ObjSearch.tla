----------------------------- MODULE ObjSearch -----------------------------
(***************************************************************************)
(* The indexing pipeline of objsearch_pi: the GUI thread (OpenCPN's calls  *)
(* of Init, SendVectorChartObjectInfo and DeInit), DbThread, the database  *)
(* connection they share, crashes and restarts.                            *)
(***************************************************************************)
EXTENDS ChartIndexer, DbThread, Lifecycle

Init ==
  /\ SqliteInit
  /\ m_bDBUsable = TRUE
  /\ m_bWaitForDB = TRUE
  /\ m_chartLoading = NoPath
  /\ m_chartsInDb = EmptyChartMap
  /\ m_featuresInDb = EmptyFeatureMap
  /\ query_queue = <<>>
  /\ m_db_thread_running = FALSE
  /\ m_pThread = FALSE
  /\ cs = "free"
  /\ mpc = "off"
  /\ chart_id = 0
  /\ feature_id = 0
  /\ tpc = "absent"
  /\ m_bIsWriting = FALSE
  /\ query = NoQuery
  /\ deleteRequested = FALSE
  /\ calls = <<>>
  /\ faults = 0
  /\ runs = 0

Next == ChartIndexerNext \/ DbThreadNext \/ LifecycleNext

(* The GUI thread finishes a handler it has entered and DbThread runs when *)
(* it can: both are preemptive threads of the system.  Strong fairness of  *)
(* AwaitWrite: the GUI thread looks at m_bIsWriting every 10 ms, and the   *)
(* flag is down for 500 ms in every round of DbThread.  Nothing makes      *)
(* OpenCPN report an object, call DeInit or load the plugin again.         *)
Fairness ==
  /\ WF_vars(ChartIndexerStep)
  /\ WF_vars(InitStep)
  /\ WF_vars(DeInitStep)
  /\ WF_vars(DbThreadNext)
  /\ SF_vars(AwaitWrite)

Spec == Init /\ [][Next]_vars /\ Fairness

-----------------------------------------------------------------------------
AllRows == [chart : Seq(Names), feature : Seq(Features), object : Seq(Rows)]

DatabaseTypes ==
  /\ fileExists \in BOOLEAN
  /\ schema \in SUBSET Tables
  /\ file \in AllRows
  /\ view \in AllRows
  /\ inTx \in BOOLEAN
  /\ lastRow \in Nat
  /\ m_db \in {"none", "unopened", "open", "deleted"}
  /\ m_bDBUsable \in BOOLEAN
  /\ faults \in 0 .. MaxFaults

IndexTypes ==
  /\ m_bWaitForDB \in BOOLEAN
  /\ m_chartLoading \in Paths \union {NoPath}
  /\ m_chartsInDb \in [Names \union {NoName} -> Int]
  /\ m_featuresInDb \in [Features -> Int]
  /\ chart_id \in Int
  /\ feature_id \in Int
  /\ calls \in Seq(Calls)
  /\ mpc \in {"off", "idle", "closed"}
               \union InInit \union InSVCOI \union InDeInit
  /\ runs \in 0 .. MaxRuns

ThreadTypes ==
  /\ query_queue \in Seq(Rows)
  /\ query \in Rows \union {NoQuery}
  /\ m_db_thread_running \in BOOLEAN
  /\ m_pThread \in BOOLEAN
  /\ m_bIsWriting \in BOOLEAN
  /\ deleteRequested \in BOOLEAN
  /\ cs \in {"free", "main", "thread"}
  /\ tpc \in {"absent", "starting", "test", "begin", "mark", "drain", "execute",
              "commit", "unmark", "sleep", "destroy", "destroyed"}

(* Every variable has its type. *)
TypeOK == DatabaseTypes /\ IndexTypes /\ ThreadTypes

-----------------------------------------------------------------------------
(* DbThread runs only while the database object exists: no statement of    *)
(* its own reaches m_db before initDB returned it or after clearDB closed  *)
(* it, and once DeInit has seen a NULL m_pThread the thread is past its    *)
(* last access of the plugin, so that the last-resort wait has nothing to  *)
(* wait for.                                                               *)
NoUseAfterClose ==
  /\ m_db \in {"none", "deleted"} => tpc = "absent"
  /\ mpc \in {"lastResort", "clearDB", "closed"} =>
       tpc = "absent" /\ ~ m_db_thread_running

(* GetLastRowId, which is called outside any try block, and the lookups of *)
(* SendVectorChartObjectInfo find an open database with all three tables   *)
(* as long as m_bDBUsable says so, even after a first start that was cut   *)
(* short between creating the file and creating the tables.                *)
UsableMeansComplete ==
  /\ mpc \in InSVCOI => m_db = "open"
  /\ m_bDBUsable /\ mpc \in {"idle"} \union InSVCOI => schema = Tables

OnlyOnce(rows) ==
  \A i, j \in DOMAIN rows : rows[i] = rows[j] => i = j

(* A chart name and a feature name get one row each, over all runs: the    *)
(* maps know every row that a rollback, a crash or a restart can leave.    *)
UniqueNames ==
  \A rows \in {view, file} : OnlyOnce(rows.chart) /\ OnlyOnce(rows.feature)

(* A round of DbThread is one transaction: while nothing has failed, a     *)
(* transaction is open exactly between its BEGIN and its COMMIT, whatever  *)
(* the GUI thread writes in between on the same connection.                *)
RoundIsTransaction ==
  m_bDBUsable => (inTx <=> tpc \in {"mark", "drain", "execute", "commit"})

(* Closing the database in DeInit rolls nothing back: as long as nothing   *)
(* failed, all that was written is committed by then.                      *)
CloseLosesNothingWritten ==
  mpc = "clearDB" /\ m_bDBUsable => view = file

Numbers(rows) == [i \in DOMAIN rows |-> rows[i].obj]
Popped == IF query = NoQuery THEN <<>> ELSE <<query.obj>>
Pipeline == Numbers(view.object) \o Popped \o Numbers(query_queue)

(* Objects are stored in the order in which they were reported and none is *)
(* stored twice, over the queue, the statement DbThread holds and the      *)
(* table, and over rollbacks, crashes and restarts.                        *)
IndexedInOrder ==
  \A i, j \in DOMAIN Pipeline : i < j => Pipeline[i] < Pipeline[j]

NameOf(row) == BaseName[calls[row.obj].path]

(* The row of an object never survives the rows of its chart and feature:  *)
(* these are written first, on the same connection.                        *)
ChartRowSurvivesWithObject ==
  faults = 0 =>
    \A rows \in {view, file} : \A i \in DOMAIN rows.object :
      /\ NameOf(rows.object[i]) \in NamesOf(rows.chart)
      /\ calls[rows.object[i].obj].feature \in NamesOf(rows.feature)

(* The objects of one chart name all come from one run: a chart that was   *)
(* indexed is not indexed again after a restart, and one whose row was     *)
(* lost in a crash has lost all its objects too.                           *)
IndexedInOneRun ==
  faults = 0 =>
    \A i, j \in DOMAIN view.object :
      NameOf(view.object[i]) = NameOf(view.object[j])
        => calls[view.object[i].obj].run = calls[view.object[j].obj].run

-----------------------------------------------------------------------------
(* Init, SendVectorChartObjectInfo and DeInit return: the GUI thread never *)
(* waits for ever for m_bWaitForDB, m_bIsWriting, m_pThreadCS or m_pThread.*)
GuiThreadReturns ==
  mpc \in InInit \union InSVCOI \union InDeInit
    ~> mpc \in {"idle", "closed", "off"}

Queued(n) == \E i \in DOMAIN query_queue : query_queue[i].obj = n
Stored(n) == \E i \in DOMAIN view.object : view.object[i].obj = n

(* A queued object gets written, unless a statement fails, DeInit asks     *)
(* DbThread to stop, or the process dies.                                  *)
QueuedIsStored ==
  \A n \in 1 .. MaxCalls :
    Queued(n) ~> Stored(n) \/ ~ m_bDBUsable \/ deleteRequested \/ mpc = "off"

(* The pipeline does what WriteBehind promises. *)
Abstract == INSTANCE WriteBehind WITH
  accepted <- Len(calls),
  pending <- Popped \o Numbers(query_queue),
  stored <- Numbers(view.object),
  durable <- Numbers(file.object)

ImplementsWriteBehind == Abstract!WBSpec

-----------------------------------------------------------------------------
(* What README.md says of the program, and the code does not do.           *)

(* README.md, CSV format: a line names the chart ("Source") its object     *)
(* belongs to; the row of the object leads to the row of that chart.       *)
ObjectHasItsChart ==
  \A i \in DOMAIN view.object :
    LET row == view.object[i]
    IN  row.chart \in DOMAIN view.chart /\ view.chart[row.chart] = NameOf(row)

(* README.md, CSV format: a line names the feature of its object; the row  *)
(* of the object leads to the row of that feature.                         *)
ObjectHasItsFeature ==
  \A i \in DOMAIN view.object :
    LET row == view.object[i]
    IN  /\ row.feature \in DOMAIN view.feature
        /\ view.feature[row.feature] = calls[row.obj].feature

(* README.md: the objects on the charts that were loaded at least once     *)
(* with the plugin enabled are indexed.  An object of a chart that is      *)
(* loaded is stored, or is on its way.                                     *)
EveryObjectIsIndexed ==
  mpc = "idle" /\ m_bDBUsable =>
    \A n \in DOMAIN calls : calls[n].storable =>
      \E i \in DOMAIN Pipeline : Pipeline[i] = n

(* README.md, the same sentence: an object that was accepted for the index *)
(* is in it when DeInit is through and nothing failed.                     *)
ShutdownKeepsQueue ==
  mpc = "closed" /\ m_bDBUsable => query_queue = <<>>
=============================================================================
