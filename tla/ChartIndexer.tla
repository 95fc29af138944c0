---------------------------- MODULE ChartIndexer ----------------------------
(***************************************************************************)
(* SendVectorChartObjectInfo: OpenCPN reports an object of a vector chart, *)
(* and the GUI thread finds or creates the rows of its chart and of its    *)
(* feature, then queues the object for DbThread.  The two lookups in the   *)
(* maps, each statement and each read of the shared connection are steps   *)
(* DbThread can run between.                                               *)
(***************************************************************************)
EXTENDS Plugin

guiOnlyVars == <<threadVars, csVars, runs>>

GuiAt(here, there) ==
  /\ mpc = here
  /\ mpc' = there

(* if (!m_bDBUsable || !IsDBThreadRunning()) return; *)
Receive(path, feature, storable) ==
  /\ GuiAt("idle", "lookupChart")
  /\ Len(calls) < MaxCalls
  /\ m_bDBUsable
  /\ m_db_thread_running
  /\ calls' = Append(calls, [path |-> path, feature |-> feature,
                             storable |-> storable, run |-> runs])
  /\ UNCHANGED <<sqliteVars, guiOnlyVars, indexVars, query_queue, m_bDBUsable,
                 m_bWaitForDB, chart_id, feature_id, faults>>

(* GetChartId *)
LookupChart ==
  /\ GuiAt("lookupChart", "lookupFeature")
  /\ chart_id' = IF m_bDBUsable THEN m_chartsInDb[callName] ELSE -1
  /\ UNCHANGED <<sqliteVars, guiOnlyVars, indexVars, query_queue, m_bDBUsable,
                 m_bWaitForDB, feature_id, calls, faults>>

(* GetFeatureId *)
LookupFeature ==
  /\ mpc = "lookupFeature"
  /\ feature_id' = IF m_bDBUsable THEN m_featuresInDb[call.feature] ELSE -1
  /\ mpc' = IF chart_id = 0 THEN "newChart"
            ELSE IF feature_id' = 0 THEN "newFeature" ELSE "storeObject"
  /\ UNCHANGED <<sqliteVars, guiOnlyVars, indexVars, query_queue, m_bDBUsable,
                 m_bWaitForDB, chart_id, calls, faults>>

SkipFeature == "storeObject"
AfterChart == IF feature_id = 0 THEN "newFeature" ELSE "storeObject"

NameIsLoading == m_chartLoading' = callName
ChartIsLoading == m_chartLoading' = call.path

(* StoreNewChart up to its statement; when the database has just become    *)
(* unusable it returns the empty Chart, whose name is "" and id is -1.     *)
NewChart ==
  /\ mpc = "newChart"
  /\ IF m_bDBUsable
     THEN /\ mpc' = "insertChart"
          /\ m_bWaitForDB' = TRUE
          /\ ChartIsLoading
          /\ UNCHANGED m_chartsInDb
     ELSE /\ mpc' = AfterChart
          /\ m_bWaitForDB' = FALSE
          /\ m_chartsInDb' = [m_chartsInDb EXCEPT ![NoName] = -1]
          /\ UNCHANGED m_chartLoading
  /\ UNCHANGED <<sqliteVars, guiOnlyVars, m_featuresInDb, query_queue,
                 m_bDBUsable, callVars, faults>>

InsertNewChart ==
  /\ GuiAt("insertChart", "chartRowId")
  /\ QueryDB(InsertChart(callName), "chart" \in schema)
  /\ UNCHANGED <<guiOnlyVars, indexVars, query_queue, m_bWaitForDB, callVars>>

ForgetChart == UNCHANGED m_chartsInDb
RememberChart == m_chartsInDb' = [m_chartsInDb EXCEPT ![callName] = lastRow]

(* GetLastRowId belongs to the connection.  The id goes into the map; the  *)
(* local chart_id keeps the 0 that GetChartId returned.                    *)
ChartRowId ==
  /\ GuiAt("chartRowId", AfterChart)
  /\ m_db = "open"
  /\ RememberChart
  /\ m_bWaitForDB' = FALSE
  /\ UNCHANGED <<sqliteVars, guiOnlyVars, m_chartLoading, m_featuresInDb,
                 query_queue, m_bDBUsable, callVars, faults>>

(* StoreNewFeature up to its statement, -1 when the database is unusable. *)
NewFeature ==
  /\ mpc = "newFeature"
  /\ IF m_bDBUsable
     THEN /\ mpc' = "insertFeature"
          /\ m_bWaitForDB' = TRUE
          /\ UNCHANGED <<feature_id, m_featuresInDb>>
     ELSE /\ mpc' = "storeObject"
          /\ m_bWaitForDB' = FALSE
          /\ feature_id' = -1
          /\ m_featuresInDb' = [m_featuresInDb EXCEPT ![call.feature] = -1]
  /\ UNCHANGED <<sqliteVars, guiOnlyVars, m_chartLoading, m_chartsInDb,
                 query_queue, m_bDBUsable, chart_id, calls, faults>>

InsertNewFeature ==
  /\ GuiAt("insertFeature", "featureRowId")
  /\ QueryDB(InsertFeature(call.feature), "feature" \in schema)
  /\ UNCHANGED <<guiOnlyVars, indexVars, query_queue, m_bWaitForDB, callVars>>

FeatureRowId ==
  /\ GuiAt("featureRowId", "storeObject")
  /\ m_db = "open"
  /\ feature_id' = lastRow
  /\ m_featuresInDb' = [m_featuresInDb EXCEPT ![call.feature] = lastRow]
  /\ m_bWaitForDB' = FALSE
  /\ UNCHANGED <<sqliteVars, guiOnlyVars, m_chartLoading, m_chartsInDb,
                 query_queue, m_bDBUsable, chart_id, calls, faults>>

(* if (chart == m_chartLoading) StoreNewObject(...): the whole path is     *)
(* compared, an object of any other chart is dropped.                      *)
QueuesAnyChart == m_bDBUsable /\ call.storable
Queues == call.path = m_chartLoading /\ m_bDBUsable /\ call.storable

StoreNewObject ==
  /\ GuiAt("storeObject", "idle")
  /\ IF Queues
     THEN /\ ~ m_bWaitForDB
          /\ query_queue' = Append(query_queue,
               [chart |-> chart_id, feature |-> feature_id, obj |-> Len(calls)])
     ELSE UNCHANGED query_queue
  /\ UNCHANGED <<sqliteVars, guiOnlyVars, indexVars, m_bDBUsable, m_bWaitForDB,
                 callVars, faults>>

(* SelectFromDB throws inside a search: while the boat has no position fix *)
(* the statement holds the word nan, and SQLite knows no such column.      *)
SearchFails ==
  /\ mpc = "idle"
  /\ m_bDBUsable
  /\ faults < MaxFaults
  /\ faults' = faults + 1
  /\ m_bDBUsable' = FALSE
  /\ UNCHANGED <<sqliteVars, guiOnlyVars, indexVars, query_queue, mpc,
                 m_bWaitForDB, callVars>>

ReportCall ==
  \E p \in Paths, f \in Features, s \in BOOLEAN : Receive(p, f, s)

ChartIndexerStep ==
  \/ LookupChart \/ LookupFeature
  \/ NewChart \/ InsertNewChart \/ ChartRowId
  \/ NewFeature \/ InsertNewFeature \/ FeatureRowId
  \/ StoreNewObject

ChartIndexerNext == ReportCall \/ SearchFails \/ ChartIndexerStep
=============================================================================
