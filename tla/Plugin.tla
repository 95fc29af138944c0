------------------------------- MODULE Plugin -------------------------------
(***************************************************************************)
(* The state of one objsearch_pi object (objsearch_pi.h), of its DbThread, *)
(* and of the calls the GUI thread is in the middle of.  ChartIndexer,     *)
(* DbThread and Lifecycle define the actions on it; ObjSearch composes     *)
(* them.                                                                   *)
(***************************************************************************)
EXTENDS Sqlite, FiniteSets

CONSTANTS
  Paths,     \* full paths of vector charts, or "Source" names of a CSV file
  Names,     \* chart names: wxFileName::GetName of a path
  BaseName,  \* the name of each path
  Features,  \* feature names
  NoName,    \* the empty string as a chart name
  NoPath,    \* the empty string as a path
  NoQuery,   \* DbThread holds no statement
  MaxCalls,  \* bound: objects OpenCPN reports
  MaxFaults, \* bound: statements that fail although they are legal
  MaxRuns    \* bound: times the plugin is loaded

ASSUME PathsAssumption ==
  /\ BaseName \in [Paths -> Names]
  /\ NoName \notin Names
  /\ NoPath \notin Paths

ASSUME BoundsAssumption ==
  /\ MaxCalls \in Nat
  /\ MaxFaults \in Nat
  /\ MaxRuns \in Nat

VARIABLES
  m_bDBUsable,         \* no statement has failed in this run
  m_bWaitForDB,        \* a new chart or feature row is being written
  m_chartLoading,      \* path of the last chart that was new
  m_chartsInDb,        \* chart name -> row id, 0 where the map has no entry
  m_featuresInDb,      \* feature -> row id, 0 where the map has no entry
  query_queue,         \* INSERTs of objects that wait for DbThread
  m_db_thread_running, \* Entry was entered and the destructor has not run
  m_pThread,           \* the pointer is not NULL
  cs,                  \* who holds m_pThreadCS
  mpc,                 \* where the GUI thread is
  chart_id,            \* local of SendVectorChartObjectInfo
  feature_id,          \* local of SendVectorChartObjectInfo
  tpc,                 \* where DbThread is
  m_bIsWriting,        \* DbThread::m_bIsWriting
  query,               \* the statement GetQuery returned
  deleteRequested,     \* wxThread::Delete was called
  calls,               \* every object reported so far; the last is current
  faults,              \* faults so far
  runs                 \* runs so far

indexVars == <<m_chartLoading, m_chartsInDb, m_featuresInDb>>
callVars == <<chart_id, feature_id, calls>>
threadVars == <<tpc, m_bIsWriting, query, m_db_thread_running, m_pThread>>
csVars == <<cs, deleteRequested>>

vars == <<sqliteVars, m_bDBUsable, m_bWaitForDB, indexVars, query_queue,
          threadVars, csVars, mpc, callVars, faults, runs>>

-----------------------------------------------------------------------------
(* What OpenCPN passes to SendVectorChartObjectInfo.  storable: the name   *)
(* has more than one character and the position is on the world chart; run *)
(* is the run of the plugin it is reported in.                             *)
Calls ==
  [path : Paths, feature : Features, storable : BOOLEAN, run : Nat]

(* The INSERT of an object; obj, the number of the call that made it,      *)
(* stands for the name and the position.                                   *)
Rows == [chart : Int, feature : Int, obj : Nat \ {0}]

ASSUME QueryAssumption == NoQuery \notin Rows

call == calls[Len(calls)]
callName == BaseName[call.path]

InSVCOI == {"lookupChart", "lookupFeature", "newChart", "insertChart",
            "chartRowId", "newFeature", "insertFeature", "featureRowId",
            "storeObject"}
InInit == {"open", "createChart", "createFeature", "createObject", "fix",
           "loadCharts", "loadFeatures", "startThread"}
InDeInit == {"lockThread", "awaitWrite", "deleteThread", "awaitGone",
             "lastResort", "clearDB"}

NamesOf(rows) == {rows[i] : i \in DOMAIN rows}

(* The id that loading a table gives to a name: its last row, 0 for none.  *)
IdIn(rows, name) ==
  LET ids == {i \in DOMAIN rows : rows[i] = name}
  IN  IF ids = {} THEN 0 ELSE CHOOSE i \in ids : \A j \in ids : j <= i

-----------------------------------------------------------------------------
(* QueryDB runs one statement.  It never throws: an exception only makes   *)
(* the database unusable, for good.  Statement is the effect; legal says   *)
(* that SQLite accepts it in the present state; a legal statement may      *)
(* still fail (disk full, locked file, an apostrophe in a name that was    *)
(* not escaped), and some failures roll the transaction back.              *)
Accepted(legal) == m_db = "open" /\ legal

StatementFails(legal) ==
  /\ m_bDBUsable' = FALSE
  /\ \/ ~ Accepted(legal) /\ UNCHANGED <<sqliteVars, faults>>
     \/ /\ Accepted(legal)
        /\ faults < MaxFaults
        /\ faults' = faults + 1
        /\ UNCHANGED sqliteVars \/ Rollback

QueryDB(Statement, legal) ==
  \/ /\ Accepted(legal)
     /\ Statement
     /\ UNCHANGED <<m_bDBUsable, faults>>
  \/ StatementFails(legal)
=============================================================================
