----------------------------- MODULE Lifecycle -----------------------------
(***************************************************************************)
(* The life of the plugin on the GUI thread: OpenCPN constructs it and     *)
(* calls Init (open or create the database, fill the maps, start           *)
(* DbThread), later DeInit (stop DbThread, close the database), and        *)
(* destroys it.  The process may die at any point and be started again.    *)
(***************************************************************************)
EXTENDS Plugin

initUnchanged == <<indexVars, query_queue, threadVars, csVars, callVars, runs>>

InitGoes(here, there) ==
  /\ mpc = here
  /\ mpc' = there

EmptyChartMap == [n \in Names \union {NoName} |-> 0]
EmptyFeatureMap == [f \in Features |-> 0]

(* The members of an objsearch_pi object and of its thread as the          *)
(* constructor leaves them.                                                *)
Constructed ==
  /\ m_bDBUsable' = TRUE
  /\ m_bWaitForDB' = TRUE
  /\ m_chartLoading' = NoPath
  /\ m_chartsInDb' = EmptyChartMap
  /\ m_featuresInDb' = EmptyFeatureMap
  /\ query_queue' = <<>>
  /\ m_db_thread_running' = FALSE
  /\ m_pThread' = FALSE
  /\ cs' = "free"
  /\ chart_id' = 0
  /\ feature_id' = 0
  /\ tpc' = "absent"
  /\ m_bIsWriting' = FALSE
  /\ query' = NoQuery
  /\ deleteRequested' = FALSE

Load ==
  /\ InitGoes("off", "open")
  /\ runs < MaxRuns
  /\ runs' = runs + 1
  /\ Constructed
  /\ UNCHANGED <<sqliteVars, calls, faults>>

-----------------------------------------------------------------------------
(* initDB.  Whether the tables have to be created is decided by the        *)
(* existence of the file, before it is opened.                             *)
OpenDB ==
  /\ mpc = "open"
  /\ \/ /\ OpenDatabase
        /\ mpc' = IF fileExists THEN "fix" ELSE "createChart"
        /\ UNCHANGED <<m_bDBUsable, faults>>
     \/ /\ faults < MaxFaults
        /\ faults' = faults + 1
        /\ m_db' = "unopened"
        /\ m_bDBUsable' = FALSE
        /\ mpc' = "fix"
        /\ UNCHANGED <<fileExists, schema, rowVars>>
  /\ UNCHANGED <<initUnchanged, m_bWaitForDB>>

(* The three CREATEs are tried one after the other, whatever became of the *)
(* one before.                                                             *)
Create(here, table, there) ==
  /\ InitGoes(here, there)
  /\ QueryDB(CreateTable(table), table \notin schema)
  /\ UNCHANGED <<initUnchanged, m_bWaitForDB>>

CreateTables ==
  \/ Create("createChart", "chart", "createFeature")
  \/ Create("createFeature", "feature", "createObject")
  \/ Create("createObject", "object", "fix")

(* A statement that reads, or changes no row this model has.               *)
IgnoreErrors(table) == UNCHANGED <<sqliteVars, m_bDBUsable, faults>>
SelectFromDB(table) == QueryDB(UNCHANGED sqliteVars, table \in schema)

(* The PRAGMAs and the repair of the rows of versions 0.1 and 0.2: no      *)
(* object of this version has such a position.                             *)
FixOldObjects ==
  /\ InitGoes("fix", "loadCharts")
  /\ IF m_bDBUsable THEN SelectFromDB("object")
                    ELSE UNCHANGED <<sqliteVars, m_bDBUsable, faults>>
  /\ UNCHANGED <<initUnchanged, m_bWaitForDB>>

(* Init fills the maps; of several rows of one name the last one wins. *)
LoadCharts ==
  /\ InitGoes("loadCharts", "loadFeatures")
  /\ IF m_bDBUsable THEN SelectFromDB("chart")
                    ELSE UNCHANGED <<sqliteVars, m_bDBUsable, faults>>
  /\ m_chartsInDb' =
       IF m_bDBUsable'
       THEN [n \in Names \union {NoName} |-> IdIn(view.chart, n)]
       ELSE m_chartsInDb
  /\ UNCHANGED <<m_chartLoading, m_featuresInDb, query_queue, threadVars,
                 csVars, callVars, runs, m_bWaitForDB>>

LoadFeatures ==
  /\ InitGoes("loadFeatures", "startThread")
  /\ IF m_bDBUsable THEN SelectFromDB("feature")
                    ELSE UNCHANGED <<sqliteVars, m_bDBUsable, faults>>
  /\ m_featuresInDb' =
       IF m_bDBUsable' THEN [f \in Features |-> IdIn(view.feature, f)]
                       ELSE m_featuresInDb
  /\ m_bWaitForDB' = FALSE
  /\ UNCHANGED <<m_chartLoading, m_chartsInDb, query_queue, threadVars,
                 csVars, callVars, runs>>

(* The thread is started even when the database is unusable.  When Run     *)
(* fails the destructor clears the pointer at once.                        *)
StartThread ==
  /\ InitGoes("startThread", "idle")
  /\ \/ /\ m_pThread' = TRUE
        /\ tpc' = "starting"
        /\ UNCHANGED faults
     \/ /\ faults < MaxFaults
        /\ faults' = faults + 1
        /\ UNCHANGED <<m_pThread, tpc>>
  /\ UNCHANGED <<sqliteVars, m_bDBUsable, m_bWaitForDB, indexVars, query_queue,
                 m_bIsWriting, query, m_db_thread_running, csVars, callVars,
                 runs>>

-----------------------------------------------------------------------------
deInitUnchanged == <<m_bDBUsable, m_bWaitForDB, indexVars, query_queue,
                     threadVars, callVars, faults, runs>>

DeInit ==
  /\ InitGoes("idle", "lockThread")
  /\ UNCHANGED <<sqliteVars, csVars, deInitUnchanged>>

LockThread ==
  /\ mpc = "lockThread"
  /\ cs = "free"
  /\ IF m_pThread THEN cs' = "main" /\ mpc' = "awaitWrite"
                  ELSE mpc' = "awaitGone" /\ UNCHANGED cs
  /\ UNCHANGED <<sqliteVars, deInitUnchanged, deleteRequested>>

(* while (m_pThread->IsWriting()) wxMilliSleep(10), inside m_pThreadCS. *)
AwaitWrite ==
  /\ InitGoes("awaitWrite", "deleteThread")
  /\ ~ m_bIsWriting
  /\ UNCHANGED <<sqliteVars, csVars, deInitUnchanged>>

StayLocked == deleteRequested' = TRUE /\ UNCHANGED cs
RequestDelete == deleteRequested' = TRUE /\ cs' = "free"

DeleteThread ==
  /\ InitGoes("deleteThread", "awaitGone")
  /\ RequestDelete
  /\ UNCHANGED <<sqliteVars, deInitUnchanged>>

NotLocked == cs = "free"
ThreadIsGone == cs = "free" /\ ~ m_pThread

AwaitGone ==
  /\ InitGoes("awaitGone", "lastResort")
  /\ ThreadIsGone
  /\ UNCHANGED <<sqliteVars, csVars, deInitUnchanged>>

(* Waits for m_db_thread_running to fall, but 5 seconds at most: it goes   *)
(* on whatever the flag is.                                                *)
LastResort ==
  /\ InitGoes("lastResort", "clearDB")
  /\ UNCHANGED <<sqliteVars, csVars, deInitUnchanged>>

ClearDB ==
  /\ InitGoes("clearDB", "closed")
  /\ Disconnect("deleted")
  /\ UNCHANGED <<csVars, deInitUnchanged>>

-----------------------------------------------------------------------------
(* What OpenCPN does after DeInit, and what a crash does at any moment:    *)
(* only the file stays.                                                    *)
GoesOff ==
  /\ mpc' = "off"
  /\ Constructed
  /\ Disconnect("none")
  /\ UNCHANGED <<calls, faults, runs>>

Unload == mpc = "closed" /\ GoesOff

Crash == mpc \notin {"off", "closed"} /\ GoesOff

(* Not a step of the program: the last run is over. *)
Stopped == mpc = "off" /\ runs = MaxRuns /\ UNCHANGED vars

InitStep ==
  \/ OpenDB \/ CreateTables \/ FixOldObjects
  \/ LoadCharts \/ LoadFeatures \/ StartThread

DeInitStep ==
  \/ LockThread \/ DeleteThread \/ AwaitGone \/ LastResort \/ ClearDB \/ Unload

LifecycleNext ==
  \/ Load \/ InitStep
  \/ DeInit \/ AwaitWrite \/ DeInitStep
  \/ Crash \/ Stopped
=============================================================================
