----------------------------- MODULE NamesProofs -----------------------------
(***************************************************************************)
(* Proofs about names and rows.  A chart name and a feature name get one   *)
(* row each: whatever the table has, now or after a rollback, the map has  *)
(* too when it counts.  And an object that is stored has the rows of its   *)
(* chart and its feature, of charts that were indexed in one run.          *)
(***************************************************************************)
EXTENDS ShutdownProofs

(* Where a lookup may follow, the map knows every row there is or may be   *)
(* again after a rollback, but for the row that was just inserted; and a   *)
(* row is inserted only for a name the map does not know.                  *)
ChartsCount ==
  \/ mpc \in InSVCOI
  \/ m_bDBUsable /\ mpc \in {"loadFeatures", "startThread", "idle"}

ChartKnown(n) ==
  \/ m_chartsInDb[n] # 0
  \/ mpc = "chartRowId" /\ n = callName /\ lastRow # 0

ChartsInv ==
  /\ OnlyOnce(view.chart) /\ OnlyOnce(file.chart)
  /\ ChartsCount =>
       \A rows \in {view, file} : \A n \in NamesOf(rows.chart) : ChartKnown(n)
  /\ mpc = "lookupFeature" /\ chart_id = 0 => m_chartsInDb[callName] = 0
  /\ mpc \in {"newChart", "insertChart", "chartRowId"} => m_chartsInDb[callName] = 0

FeaturesCount ==
  \/ mpc \in InSVCOI
  \/ m_bDBUsable /\ mpc \in {"startThread", "idle"}

FeatureKnown(f) ==
  \/ m_featuresInDb[f] # 0
  \/ mpc = "featureRowId" /\ f = call.feature /\ lastRow # 0

FeaturesInv ==
  /\ OnlyOnce(view.feature) /\ OnlyOnce(file.feature)
  /\ FeaturesCount =>
       \A rows \in {view, file} : \A f \in NamesOf(rows.feature) : FeatureKnown(f)
  /\ mpc \in {"newChart", "insertChart", "chartRowId"} /\ feature_id = 0
       => m_featuresInDb[call.feature] = 0
  /\ mpc \in {"newFeature", "insertFeature", "featureRowId"}
       => m_featuresInDb[call.feature] = 0

(* A row for a new name keeps the names of a table distinct.               *)
LEMMA AppendOnce ==
  ASSUME NEW S, NEW s \in Seq(S), NEW n \in S, OnlyOnce(s), n \notin NamesOf(s)
  PROVE  /\ OnlyOnce(Append(s, n))
         /\ NamesOf(Append(s, n)) = NamesOf(s) \union {n}
<1> DEFINE t == Append(s, n)
           k == Len(s)
<1>1. /\ k \in Nat /\ DOMAIN s = 1 .. k /\ DOMAIN t = 1 .. k + 1
      /\ \A i \in 1 .. k : t[i] = s[i]
      /\ t[k + 1] = n
  OBVIOUS
<1>2. \A i \in DOMAIN t : i \in DOMAIN s \/ i = k + 1
  BY <1>1
<1>3. \A i \in DOMAIN s : i \in DOMAIN t /\ t[i] = s[i]
  BY <1>1
<1>4. k + 1 \in DOMAIN t
  BY <1>1
<1> HIDE DEF t, k
<1>5. OnlyOnce(t)
  <2> SUFFICES ASSUME NEW i \in DOMAIN t, NEW j \in DOMAIN t, t[i] = t[j]
               PROVE  i = j
    BY DEF OnlyOnce
  <2>1. CASE i \in DOMAIN s /\ j \in DOMAIN s
    BY <1>3, <2>1 DEF OnlyOnce
  <2>2. CASE i = k + 1 /\ j \in DOMAIN s
    BY <1>1, <1>3, <2>2 DEF NamesOf
  <2>3. CASE i \in DOMAIN s /\ j = k + 1
    BY <1>1, <1>3, <2>3 DEF NamesOf
  <2> QED
    BY <1>2, <2>1, <2>2, <2>3
<1>6. NamesOf(t) = NamesOf(s) \union {n}
  BY <1>1, <1>2, <1>3, <1>4 DEF NamesOf
<1> QED
  BY <1>5, <1>6 DEF t

(* What any statement but the INSERT of a chart does to the rows of charts *)
LEMMA StatementKeepsCharts ==
  ASSUME TInv, NEW STATE legal,
         \/ StatementFails(legal)
         \/ /\ UNCHANGED m_bDBUsable
            /\ \/ \E n : InsertFeature(n) \/ InsertObject(n)
               \/ \E table : CreateTable(table)
               \/ BeginTransaction
               \/ CommitTransaction
               \/ UNCHANGED sqliteVars
  PROVE  /\ {view'.chart, file'.chart} \subseteq {view.chart, file.chart}
         /\ m_bDBUsable' => m_bDBUsable
         /\ lastRow # 0 => lastRow' # 0
<1>1. CASE StatementFails(legal)
  <2>1. ~ m_bDBUsable' /\ (UNCHANGED sqliteVars \/ Rollback)
    BY <1>1 DEF StatementFails
  <2> QED
    BY <2>1 DEF Rollback, sqliteVars
<1>2. view \in AllRows /\ view.object \in Seq(Rows) /\ view.feature \in Seq(Features)
  BY DEF TInv, TypeOK, DatabaseTypes, AllRows
<1>3. CASE UNCHANGED m_bDBUsable /\ \E n : InsertFeature(n)
  BY <1>2, <1>3 DEF InsertFeature, Insert, AllRows
<1>4. CASE UNCHANGED m_bDBUsable /\ \E n : InsertObject(n)
  BY <1>2, <1>4 DEF InsertObject, Insert, AllRows
<1>5. CASE /\ UNCHANGED m_bDBUsable
           /\ \/ \E table : CreateTable(table)
              \/ BeginTransaction \/ CommitTransaction \/ UNCHANGED sqliteVars
  BY <1>5 DEF CreateTable, BeginTransaction, CommitTransaction, sqliteVars
<1> QED
  BY <1>1, <1>3, <1>4, <1>5

(* A step that keeps the rows and the map, and does not make a lookup      *)
(* possible that was not, keeps what is known.                             *)
LEMMA ChartsKept ==
  ASSUME ChartsInv, UNCHANGED m_chartsInDb,
         {view'.chart, file'.chart} \subseteq {view.chart, file.chart},
         ChartsCount' =>
           /\ ChartsCount
           /\ \/ mpc # "chartRowId"
              \/ UNCHANGED <<mpc, calls>> /\ (lastRow # 0 => lastRow' # 0)
  PROVE  /\ OnlyOnce(view.chart)' /\ OnlyOnce(file.chart)'
         /\ ChartsCount' =>
              \A rows \in {view', file'} : \A n \in NamesOf(rows.chart) :
                ChartKnown(n)'
<1>1. OnlyOnce(view.chart)' /\ OnlyOnce(file.chart)'
  BY DEF ChartsInv, OnlyOnce
<1>2. ASSUME ChartsCount', NEW rows \in {view', file'}, NEW n \in NamesOf(rows.chart)
      PROVE  ChartKnown(n)'
  <2>1. \/ mpc # "chartRowId"
        \/ UNCHANGED <<mpc, calls>> /\ (lastRow # 0 => lastRow' # 0)
    BY <1>2
  <2>2. ChartKnown(n)
    BY <1>2 DEF ChartsInv
  <2>3. CASE mpc # "chartRowId"
    BY <2>2, <2>3 DEF ChartKnown
  <2>4. CASE UNCHANGED <<mpc, calls>> /\ (lastRow # 0 => lastRow' # 0)
    <3>1. callName' = callName
      BY <2>4 DEF callName, call
    <3> QED
      BY <2>2, <2>4, <3>1 DEF ChartKnown
  <2> QED
    BY <2>1, <2>3, <2>4
<1> QED
  BY <1>1, <1>2

(* DbThread and the end of a call do not touch the map. *)
LEMMA DbThreadCharts ==
  ASSUME TInv, ChartsInv, DbThreadNext
  PROVE  ChartsInv'
<1>1. UNCHANGED guiVars
  BY DEF DbThreadNext, ThreadStarts, TestDestroy, Begin, MarkWriting,
     TakeQuery, ExecuteQuery, QueueEmpty, Commit, UnmarkWriting, WakeUp,
     DestroyThread, ThreadGone
<1>2. /\ {view'.chart, file'.chart} \subseteq {view.chart, file.chart}
      /\ m_bDBUsable' => m_bDBUsable
      /\ lastRow # 0 => lastRow' # 0
  <2>1. CASE Begin
    BY <2>1, StatementKeepsCharts DEF Begin, QueryDB
  <2>2. CASE ExecuteQuery
    BY <2>2, StatementKeepsCharts DEF ExecuteQuery, QueryDB
  <2>3. CASE Commit
    BY <2>3, StatementKeepsCharts DEF Commit, QueryDB
  <2>4. CASE UNCHANGED sqliteVars /\ UNCHANGED m_bDBUsable
    BY <2>4 DEF sqliteVars
  <2> QED
    BY <2>1, <2>2, <2>3, <2>4 DEF DbThreadNext, ThreadStarts, TestDestroy,
       MarkWriting, TakeQuery, QueueEmpty, UnmarkWriting, WakeUp,
       DestroyThread, ThreadGone
<1>3. UNCHANGED <<mpc, calls, chart_id, m_chartsInDb, callName>>
  BY <1>1 DEF guiVars, callVars, indexVars, callName, call
<1>4. ChartsCount' => ChartsCount
  BY <1>2, <1>3 DEF ChartsCount
<1>5. /\ OnlyOnce(view.chart)' /\ OnlyOnce(file.chart)'
      /\ ChartsCount' =>
           \A rows \in {view', file'} : \A n \in NamesOf(rows.chart) :
             ChartKnown(n)'
  BY <1>2, <1>3, <1>4, ChartsKept
<1> QED
  BY <1>3, <1>5 DEF ChartsInv

(* SendVectorChartObjectInfo inserts a name the map does not have, and     *)
(* enters it in the map.                                                   *)
LEMMA ChartIndexerCharts ==
  ASSUME TInv, ChartsInv, ChartIndexerNext
  PROVE  ChartsInv'
<1> USE DEF GuiAt, InSVCOI
<1>1. ASSUME UNCHANGED <<m_chartsInDb, calls, chart_id>>,
             {view'.chart, file'.chart} \subseteq {view.chart, file.chart},
             m_bDBUsable' => m_bDBUsable,
             mpc # "chartRowId", mpc \in {"idle"} \union InSVCOI,
             mpc' \in {"idle", "lookupChart", "newFeature", "insertFeature",
                       "featureRowId", "storeObject"},
             mpc = "idle" => mpc' = "idle"
      PROVE  ChartsInv'
  <2>1. ChartsCount' => ChartsCount
    BY <1>1 DEF ChartsCount
  <2> QED
    BY <1>1, <2>1, ChartsKept DEF ChartsInv
<1>2. CASE ReportCall
  <2>1. /\ UNCHANGED <<view, file, m_chartsInDb>>
        /\ ChartsCount /\ mpc # "chartRowId" /\ mpc' = "lookupChart"
    BY <1>2 DEF ReportCall, Receive, sqliteVars, indexVars, ChartsCount
  <2> QED
    BY <2>1, ChartsKept DEF ChartsInv
<1>3. CASE SearchFails
  BY <1>1, <1>3 DEF SearchFails, sqliteVars, indexVars, callVars
<1>4. CASE LookupChart
  <2>1. /\ UNCHANGED <<view, file, m_chartsInDb, calls, callName>>
        /\ ChartsCount /\ mpc # "chartRowId" /\ mpc' = "lookupFeature"
        /\ chart_id' = 0 => m_chartsInDb[callName] = 0
    BY <1>4 DEF LookupChart, sqliteVars, indexVars, ChartsCount, callName, call
  <2> QED
    BY <2>1, ChartsKept DEF ChartsInv
<1>5. CASE LookupFeature
  <2>1. /\ UNCHANGED <<view, file, m_chartsInDb, calls, callName>>
        /\ ChartsCount /\ mpc = "lookupFeature"
        /\ mpc' \in {"newChart", "newFeature", "storeObject"}
        /\ mpc' = "newChart" => chart_id = 0
    BY <1>5
      DEF LookupFeature, sqliteVars, indexVars, ChartsCount, callName, call
  <2> QED
    BY <2>1, ChartsKept DEF ChartsInv
<1>6. CASE NewChart
  <2>1. CASE m_bDBUsable
    <3>1. /\ UNCHANGED <<view, file, m_chartsInDb, callName>>
          /\ ChartsCount /\ mpc = "newChart" /\ mpc' = "insertChart"
      BY <1>6, <2>1
        DEF NewChart, sqliteVars, callVars, ChartsCount, callName, call
    <3> QED
      BY <3>1, ChartsKept DEF ChartsInv
  <2>2. CASE ~ m_bDBUsable
    <3>1. /\ UNCHANGED <<view, file>>
          /\ ChartsCount /\ mpc = "newChart"
          /\ mpc' \in {"newFeature", "storeObject"}
          /\ m_chartsInDb' = [m_chartsInDb EXCEPT ![NoName] = -1]
      BY <1>6, <2>2 DEF NewChart, AfterChart, sqliteVars, ChartsCount
    <3>2. \A n : m_chartsInDb[n] # 0 /\ n \in Names => m_chartsInDb'[n] # 0
      BY <3>1 DEF TInv, TypeOK, IndexTypes
    <3>3. \A rows \in {view, file} : NamesOf(rows.chart) \subseteq Names
      BY DEF TInv, TypeOK, DatabaseTypes, AllRows, NamesOf
    <3> QED
      BY <3>1, <3>2, <3>3 DEF ChartsInv, ChartKnown
  <2> QED
    BY <2>1, <2>2
<1>7. CASE InsertNewChart
  <2>1. /\ mpc = "insertChart" /\ mpc' = "chartRowId"
        /\ UNCHANGED <<m_chartsInDb, callName>>
        /\ ChartsCount
    BY <1>7 DEF InsertNewChart, indexVars, callVars, callName, call, ChartsCount
  <2>2. CASE StatementFails("chart" \in schema)
    BY <2>1, <2>2, StatementKeepsCharts, ChartsKept DEF ChartsInv
  <2>3. CASE InsertChart(callName)
    <3>1. /\ callName \in Names
          /\ view \in AllRows /\ view.chart \in Seq(Names)
          /\ Len(view.chart) \in Nat
      BY <2>1, CallTypes DEF TInv, CurrentCall, TypeOK, DatabaseTypes, AllRows
    <3>2. callName \notin NamesOf(view.chart)
      BY <2>1 DEF ChartsInv, ChartKnown
    <3>3. /\ view'.chart = Append(view.chart, callName)
          /\ file'.chart \in {file.chart, view'.chart}
          /\ lastRow' # 0
      BY <2>3, <3>1 DEF InsertChart, Insert, AllRows
    <3>4. /\ OnlyOnce(view'.chart)
          /\ NamesOf(view'.chart) = NamesOf(view.chart) \union {callName}
      BY <3>1, <3>2, <3>3, AppendOnce DEF ChartsInv
    <3>5. OnlyOnce(file'.chart)
      BY <3>3, <3>4 DEF ChartsInv
    <3>6. \A rows \in {view', file'} : \A n \in NamesOf(rows.chart) :
             n = callName \/ ChartKnown(n)
      BY <2>1, <3>3, <3>4 DEF ChartsInv
    <3>7. \A rows \in {view', file'} : \A n \in NamesOf(rows.chart) :
            ChartKnown(n)'
      BY <2>1, <3>3, <3>6 DEF ChartKnown
    <3> QED
      BY <2>1, <3>4, <3>5, <3>7 DEF ChartsInv, OnlyOnce
  <2> QED
    BY <1>7, <2>2, <2>3 DEF InsertNewChart, QueryDB
<1>8. CASE ChartRowId
  <2>1. /\ UNCHANGED <<view, file>>
        /\ ChartsCount /\ mpc = "chartRowId"
        /\ mpc' \in {"newFeature", "storeObject"}
        /\ m_chartsInDb' = [m_chartsInDb EXCEPT ![callName] = lastRow]
    BY <1>8 DEF ChartRowId, RememberChart, AfterChart, sqliteVars, ChartsCount
  <2>2. \A n \in Names : ChartKnown(n) => m_chartsInDb'[n] # 0
    <3>1. callName \in Names
      BY <2>1, CallTypes DEF TInv, CurrentCall, TypeOK
    <3>2. /\ m_chartsInDb \in [Names \union {NoName} -> Int]
          /\ m_chartsInDb[callName] = 0
      BY <2>1 DEF ChartsInv, TInv, TypeOK, IndexTypes
    <3> SUFFICES ASSUME NEW n \in Names, ChartKnown(n)
                 PROVE  m_chartsInDb'[n] # 0
      OBVIOUS
    <3>3. CASE n # callName
      BY <2>1, <3>2, <3>3 DEF ChartKnown
    <3>4. CASE n = callName
      BY <2>1, <3>1, <3>2, <3>4 DEF ChartKnown
    <3> QED
      BY <3>3, <3>4
  <2>3. \A rows \in {view, file} : NamesOf(rows.chart) \subseteq Names
    BY DEF TInv, TypeOK, DatabaseTypes, AllRows, NamesOf
  <2> QED
    BY <2>1, <2>2, <2>3 DEF ChartsInv, ChartKnown
<1>9. CASE NewFeature
  BY <1>1, <1>9 DEF NewFeature, sqliteVars
<1>10. CASE InsertNewFeature
  <2>1. /\ {view'.chart, file'.chart} \subseteq {view.chart, file.chart}
        /\ m_bDBUsable' => m_bDBUsable
    BY <1>10, StatementKeepsCharts DEF InsertNewFeature, QueryDB
  <2> QED
    BY <1>1, <1>10, <2>1 DEF InsertNewFeature, indexVars, callVars
<1>11. CASE FeatureRowId
  BY <1>1, <1>11 DEF FeatureRowId, sqliteVars
<1>12. CASE StoreNewObject
  BY <1>1, <1>12 DEF StoreNewObject, sqliteVars, indexVars, callVars
<1> QED
  BY <1>2, <1>3, <1>4, <1>5, <1>6, <1>7, <1>8, <1>9, <1>10, <1>11,
    <1>12 DEF ChartIndexerNext, ChartIndexerStep

(* Init fills the map from the rows it sees, which are all there are: no   *)
(* transaction is open before the thread is started.                       *)
LEMMA LifecycleCharts ==
  ASSUME TInv, ShutdownInv, TxInv, ChartsInv, LifecycleNext
  PROVE  ChartsInv'
<1> USE DEF InitGoes, InSVCOI
<1>1. ASSUME {view'.chart, file'.chart} \subseteq {view.chart, file.chart},
             mpc' \in {"off", "closed"} \union InDeInit
                        \union (InInit \ {"loadFeatures", "startThread"})
      PROVE  ChartsInv'
  BY <1>1 DEF ChartsInv, OnlyOnce, ChartsCount, InInit, InDeInit
<1>2. CASE Load
  BY <1>1, <1>2 DEF Load, sqliteVars, InInit
<1>3. CASE OpenDB
  <2>1. {view'.chart, file'.chart} \subseteq {view.chart, file.chart}
    BY <1>3 DEF OpenDB, OpenDatabase, rowVars
  <2>2. mpc' \in {"fix", "createChart"}
    BY <1>3 DEF OpenDB
  <2> QED
    BY <1>1, <2>1, <2>2 DEF InInit
<1>4. CASE CreateTables
  <2>1. PICK here, table, there : Create(here, table, there)
              /\ there \in {"createFeature", "createObject", "fix"}
    BY <1>4 DEF CreateTables
  <2>2. {view'.chart, file'.chart} \subseteq {view.chart, file.chart}
    BY <2>1, StatementKeepsCharts DEF Create, QueryDB
  <2>3. mpc' \in {"createFeature", "createObject", "fix"}
    BY <2>1 DEF Create
  <2> QED
    BY <1>1, <2>2, <2>3 DEF InInit
<1>5. ASSUME NEW table,
             IF m_bDBUsable THEN SelectFromDB(table)
                            ELSE UNCHANGED <<sqliteVars, m_bDBUsable, faults>>
      PROVE  /\ {view'.chart, file'.chart} \subseteq {view.chart, file.chart}
             /\ m_bDBUsable' => m_bDBUsable /\ UNCHANGED <<view, file>>
  <2>1. CASE StatementFails(table \in schema)
    BY <2>1, StatementKeepsCharts DEF StatementFails
  <2>2. CASE ~ StatementFails(table \in schema)
    BY <1>5, <2>2 DEF SelectFromDB, QueryDB, sqliteVars
  <2> QED
    BY <2>1, <2>2
<1>6. CASE FixOldObjects
  BY <1>1, <1>5, <1>6 DEF FixOldObjects, InInit
<1>7. CASE LoadCharts
  <2>1. mpc = "loadCharts" /\ mpc' = "loadFeatures"
    BY <1>7 DEF LoadCharts
  <2>2. {view'.chart, file'.chart} \subseteq {view.chart, file.chart}
    BY <1>5, <1>7 DEF LoadCharts
  <2>3. OnlyOnce(view'.chart) /\ OnlyOnce(file'.chart)
    BY <2>2 DEF ChartsInv
  <2>4. CASE ~ m_bDBUsable'
    BY <2>1, <2>3, <2>4 DEF ChartsInv, ChartsCount, OnlyOnce
  <2>5. CASE m_bDBUsable'
    <3>1. m_bDBUsable /\ UNCHANGED <<view, file>>
      BY <1>5, <1>7, <2>5 DEF LoadCharts
    <3>2. view = file
      BY <2>1, <3>1
        DEF ShutdownInv, ThreadInv, InInit, TxInv, RoundIsTransaction
    <3>3. view.chart \in Seq(Names)
      BY DEF TInv, TypeOK, DatabaseTypes, AllRows
    <3>4. \A n \in NamesOf(view.chart) : n \in Names /\ IdIn(view.chart, n) # 0
      BY <3>3, IdInType DEF NamesOf
    <3>5. \A n \in NamesOf(view.chart) : m_chartsInDb'[n] # 0
      BY <1>7, <2>5, <3>4 DEF LoadCharts
    <3> QED
      BY <2>1, <2>3, <3>1, <3>2, <3>5 DEF ChartsInv, ChartKnown, OnlyOnce
  <2> QED
    BY <2>4, <2>5
<1>8. CASE LoadFeatures
  <2>1. /\ {view'.chart, file'.chart} \subseteq {view.chart, file.chart}
        /\ m_bDBUsable' => m_bDBUsable
    BY <1>5, <1>8 DEF LoadFeatures
  <2>2. /\ mpc = "loadFeatures" /\ mpc' = "startThread"
        /\ UNCHANGED m_chartsInDb
    BY <1>8 DEF LoadFeatures
  <2> QED
    BY <2>1, <2>2, ChartsKept DEF ChartsInv, ChartsCount
<1>9. CASE StartThread
  <2>1. /\ mpc = "startThread" /\ mpc' = "idle"
        /\ UNCHANGED <<view, file, m_bDBUsable, m_chartsInDb>>
    BY <1>9 DEF StartThread, sqliteVars, indexVars
  <2> QED
    BY <2>1, ChartsKept DEF ChartsInv, ChartsCount
<1>10. CASE DeInit \/ AwaitWrite \/ LockThread \/ DeleteThread \/ AwaitGone
              \/ LastResort
  <2>1. UNCHANGED <<view, file>>
    BY <1>10 DEF DeInit, AwaitWrite, LockThread, DeleteThread, AwaitGone,
       LastResort, sqliteVars
  <2>2. mpc' \in InDeInit
    BY <1>10 DEF DeInit, AwaitWrite, LockThread, DeleteThread, AwaitGone,
       LastResort, InDeInit
  <2> QED
    BY <1>1, <2>1, <2>2
<1>11. CASE ClearDB \/ Unload \/ Crash
  <2>1. view' = file /\ file' = file
    BY <1>11 DEF ClearDB, Unload, Crash, GoesOff, Disconnect
  <2>2. mpc' \in {"off", "closed"}
    BY <1>11 DEF ClearDB, Unload, Crash, GoesOff
  <2> QED
    BY <1>1, <2>1, <2>2
<1>12. CASE Stopped
  BY <1>1, <1>12 DEF Stopped, vars, sqliteVars
<1> QED
  BY <1>2, <1>3, <1>4, <1>6, <1>7, <1>8, <1>9, <1>10, <1>11,
    <1>12 DEF LifecycleNext, InitStep, DeInitStep

(* The same for the rows of features *)
LEMMA StatementKeepsFeatures ==
  ASSUME TInv, NEW STATE legal,
         \/ StatementFails(legal)
         \/ /\ UNCHANGED m_bDBUsable
            /\ \/ \E n : InsertChart(n) \/ InsertObject(n)
               \/ \E table : CreateTable(table)
               \/ BeginTransaction
               \/ CommitTransaction
               \/ UNCHANGED sqliteVars
  PROVE  /\ {view'.feature, file'.feature} \subseteq {view.feature, file.feature}
         /\ m_bDBUsable' => m_bDBUsable
         /\ lastRow # 0 => lastRow' # 0
<1>1. CASE StatementFails(legal)
  <2>1. ~ m_bDBUsable' /\ (UNCHANGED sqliteVars \/ Rollback)
    BY <1>1 DEF StatementFails
  <2> QED
    BY <2>1 DEF Rollback, sqliteVars
<1>2. view \in AllRows /\ view.object \in Seq(Rows) /\ view.chart \in Seq(Names)
  BY DEF TInv, TypeOK, DatabaseTypes, AllRows
<1>3. CASE UNCHANGED m_bDBUsable /\ \E n : InsertChart(n)
  BY <1>2, <1>3 DEF InsertChart, Insert, AllRows
<1>4. CASE UNCHANGED m_bDBUsable /\ \E n : InsertObject(n)
  BY <1>2, <1>4 DEF InsertObject, Insert, AllRows
<1>5. CASE /\ UNCHANGED m_bDBUsable
           /\ \/ \E table : CreateTable(table)
              \/ BeginTransaction \/ CommitTransaction \/ UNCHANGED sqliteVars
  BY <1>5 DEF CreateTable, BeginTransaction, CommitTransaction, sqliteVars
<1> QED
  BY <1>1, <1>3, <1>4, <1>5

(* A step that adds no feature, and loses at most rows to a rollback,      *)
(* leaves the map complete.                                                *)
LEMMA FeaturesKept ==
  ASSUME FeaturesInv, UNCHANGED m_featuresInDb,
         {view'.feature, file'.feature} \subseteq {view.feature, file.feature},
         FeaturesCount' =>
           /\ FeaturesCount
           /\ \/ mpc # "featureRowId"
              \/ UNCHANGED <<mpc, calls>> /\ (lastRow # 0 => lastRow' # 0)
  PROVE  /\ OnlyOnce(view.feature)' /\ OnlyOnce(file.feature)'
         /\ FeaturesCount' =>
              \A rows \in {view', file'} : \A n \in NamesOf(rows.feature) :
                FeatureKnown(n)'
<1>1. OnlyOnce(view.feature)' /\ OnlyOnce(file.feature)'
  BY DEF FeaturesInv, OnlyOnce
<1>2. ASSUME FeaturesCount', NEW rows \in {view', file'}, NEW n \in NamesOf(rows.feature)
      PROVE  FeatureKnown(n)'
  <2>1. \/ mpc # "featureRowId"
        \/ UNCHANGED <<mpc, calls>> /\ (lastRow # 0 => lastRow' # 0)
    BY <1>2
  <2>2. FeatureKnown(n)
    BY <1>2 DEF FeaturesInv
  <2>3. CASE mpc # "featureRowId"
    BY <2>2, <2>3 DEF FeatureKnown
  <2>4. CASE UNCHANGED <<mpc, calls>> /\ (lastRow # 0 => lastRow' # 0)
    <3>1. call.feature' = call.feature
      BY <2>4 DEF call
    <3> QED
      BY <2>2, <2>4, <3>1 DEF FeatureKnown
  <2> QED
    BY <2>1, <2>3, <2>4
<1> QED
  BY <1>1, <1>2

(* DbThread writes objects only; a rollback brings back features the map   *)
(* had.                                                                    *)
LEMMA DbThreadFeatures ==
  ASSUME TInv, FeaturesInv, DbThreadNext
  PROVE  FeaturesInv'
<1>1. UNCHANGED guiVars
  BY DEF DbThreadNext, ThreadStarts, TestDestroy, Begin, MarkWriting,
     TakeQuery, ExecuteQuery, QueueEmpty, Commit, UnmarkWriting, WakeUp,
     DestroyThread, ThreadGone
<1>2. /\ {view'.feature, file'.feature} \subseteq {view.feature, file.feature}
      /\ m_bDBUsable' => m_bDBUsable
      /\ lastRow # 0 => lastRow' # 0
  <2>1. CASE Begin
    BY <2>1, StatementKeepsFeatures DEF Begin, QueryDB
  <2>2. CASE ExecuteQuery
    BY <2>2, StatementKeepsFeatures DEF ExecuteQuery, QueryDB
  <2>3. CASE Commit
    BY <2>3, StatementKeepsFeatures DEF Commit, QueryDB
  <2>4. CASE UNCHANGED sqliteVars /\ UNCHANGED m_bDBUsable
    BY <2>4 DEF sqliteVars
  <2> QED
    BY <2>1, <2>2, <2>3, <2>4 DEF DbThreadNext, ThreadStarts, TestDestroy,
       MarkWriting, TakeQuery, QueueEmpty, UnmarkWriting, WakeUp,
       DestroyThread, ThreadGone
<1>3. UNCHANGED <<mpc, calls, feature_id, m_featuresInDb, call.feature>>
  BY <1>1 DEF guiVars, callVars, indexVars, call
<1>4. FeaturesCount' => FeaturesCount
  BY <1>2, <1>3 DEF FeaturesCount
<1>5. /\ OnlyOnce(view.feature)' /\ OnlyOnce(file.feature)'
      /\ FeaturesCount' =>
           \A rows \in {view', file'} : \A n \in NamesOf(rows.feature) :
             FeatureKnown(n)'
  BY <1>2, <1>3, <1>4, FeaturesKept
<1> QED
  BY <1>3, <1>5 DEF FeaturesInv

(* SendVectorChartObjectInfo inserts a feature when the map has none, and  *)
(* then puts it there.                                                     *)
LEMMA ChartIndexerFeatures ==
  ASSUME TInv, FeaturesInv, ChartIndexerNext
  PROVE  FeaturesInv'
<1> USE DEF GuiAt, InSVCOI
<1>1. ASSUME UNCHANGED <<m_featuresInDb, calls>>,
             {view'.feature, file'.feature} \subseteq {view.feature, file.feature},
             m_bDBUsable' => m_bDBUsable,
             mpc # "featureRowId", mpc \in {"idle"} \union InSVCOI,
             \/ mpc' \in {"lookupFeature", "storeObject"} /\ mpc # "idle"
             \/ mpc' = "idle"
             \/ mpc' \in {"insertChart", "chartRowId"} /\ UNCHANGED feature_id
                /\ mpc \in {"newChart", "insertChart", "chartRowId"}
             \/ mpc' = "newFeature" /\ feature_id = 0
                /\ mpc \in {"newChart", "chartRowId"}
             \/ mpc' = "insertFeature" /\ mpc = "newFeature"
      PROVE  FeaturesInv'
  <2>1. FeaturesCount' => FeaturesCount
    BY <1>1 DEF FeaturesCount
  <2>2. (call.feature)' = call.feature
    BY <1>1 DEF call
  <2> QED
    BY <1>1, <2>1, <2>2, FeaturesKept DEF FeaturesInv
<1>2. CASE ReportCall
  <2>1. /\ UNCHANGED <<view, file, m_featuresInDb>>
        /\ FeaturesCount /\ mpc # "featureRowId" /\ mpc' = "lookupChart"
    BY <1>2 DEF ReportCall, Receive, sqliteVars, indexVars, FeaturesCount
  <2> QED
    BY <2>1, FeaturesKept DEF FeaturesInv
<1>3. CASE SearchFails
  BY <1>1, <1>3 DEF SearchFails, sqliteVars, indexVars, callVars
<1>4. CASE LookupChart
  BY <1>1, <1>4 DEF LookupChart, sqliteVars, indexVars
<1>5. CASE LookupFeature
  <2>1. /\ UNCHANGED <<view, file, m_featuresInDb, calls, call>>
        /\ FeaturesCount /\ mpc = "lookupFeature"
        /\ mpc' \in {"newChart", "newFeature", "storeObject"}
        /\ mpc' = "newFeature" => feature_id' = 0
        /\ feature_id' = 0 => m_featuresInDb[call.feature] = 0
    BY <1>5 DEF LookupFeature, sqliteVars, indexVars, FeaturesCount, call
  <2> QED
    BY <2>1, FeaturesKept DEF FeaturesInv
<1>6. CASE NewChart
  BY <1>1, <1>6 DEF NewChart, AfterChart, sqliteVars, callVars
<1>7. CASE InsertNewChart
  <2>1. /\ {view'.feature, file'.feature} \subseteq {view.feature, file.feature}
        /\ m_bDBUsable' => m_bDBUsable
    BY <1>7, StatementKeepsFeatures DEF InsertNewChart, QueryDB
  <2> QED
    BY <1>1, <1>7, <2>1 DEF InsertNewChart, indexVars, callVars
<1>8. CASE ChartRowId
  BY <1>1, <1>8 DEF ChartRowId, AfterChart, sqliteVars, callVars
<1>9. CASE NewFeature
  <2>1. CASE m_bDBUsable
    BY <1>1, <1>9, <2>1 DEF NewFeature, sqliteVars
  <2>2. CASE ~ m_bDBUsable
    <3>1. /\ UNCHANGED <<view, file>>
          /\ FeaturesCount /\ mpc = "newFeature" /\ mpc' = "storeObject"
          /\ m_featuresInDb' = [m_featuresInDb EXCEPT ![call.feature] = -1]
      BY <1>9, <2>2 DEF NewFeature, sqliteVars, FeaturesCount
    <3>2. \A n : m_featuresInDb[n] # 0 /\ n \in Features => m_featuresInDb'[n] # 0
      BY <3>1 DEF TInv, TypeOK, IndexTypes
    <3>3. \A rows \in {view, file} : NamesOf(rows.feature) \subseteq Features
      BY DEF TInv, TypeOK, DatabaseTypes, AllRows, NamesOf
    <3> QED
      BY <3>1, <3>2, <3>3 DEF FeaturesInv, FeatureKnown
  <2> QED
    BY <2>1, <2>2
<1>10. CASE InsertNewFeature
  <2>1. /\ mpc = "insertFeature" /\ mpc' = "featureRowId"
        /\ UNCHANGED <<m_featuresInDb, call>>
        /\ FeaturesCount
    BY <1>10 DEF InsertNewFeature, indexVars, callVars, call, FeaturesCount
  <2>2. CASE StatementFails("feature" \in schema)
    BY <2>1, <2>2, StatementKeepsFeatures, FeaturesKept DEF FeaturesInv
  <2>3. CASE InsertFeature(call.feature)
    <3>1. /\ call.feature \in Features
          /\ view \in AllRows /\ view.feature \in Seq(Features)
          /\ Len(view.feature) \in Nat
      BY <2>1, CallTypes DEF TInv, CurrentCall, TypeOK, DatabaseTypes, AllRows,
         Calls
    <3>2. call.feature \notin NamesOf(view.feature)
      BY <2>1 DEF FeaturesInv, FeatureKnown
    <3>3. /\ view'.feature = Append(view.feature, call.feature)
          /\ file'.feature \in {file.feature, view'.feature}
          /\ lastRow' # 0
      BY <2>3, <3>1 DEF InsertFeature, Insert, AllRows
    <3>4. /\ OnlyOnce(view'.feature)
          /\ NamesOf(view'.feature) = NamesOf(view.feature) \union {call.feature}
      BY <3>1, <3>2, <3>3, AppendOnce DEF FeaturesInv
    <3>5. OnlyOnce(file'.feature)
      BY <3>3, <3>4 DEF FeaturesInv
    <3>6. \A rows \in {view', file'} : \A n \in NamesOf(rows.feature) :
             n = call.feature \/ FeatureKnown(n)
      BY <2>1, <3>3, <3>4 DEF FeaturesInv
    <3>7. \A rows \in {view', file'} : \A n \in NamesOf(rows.feature) :
            FeatureKnown(n)'
      BY <2>1, <3>3, <3>6 DEF FeatureKnown
    <3> QED
      BY <2>1, <3>4, <3>5, <3>7 DEF FeaturesInv, OnlyOnce
  <2> QED
    BY <1>10, <2>2, <2>3 DEF InsertNewFeature, QueryDB
<1>11. CASE FeatureRowId
  <2>1. /\ UNCHANGED <<view, file>>
        /\ FeaturesCount /\ mpc = "featureRowId" /\ mpc' = "storeObject"
        /\ m_featuresInDb' = [m_featuresInDb EXCEPT ![call.feature] = lastRow]
    BY <1>11 DEF FeatureRowId, sqliteVars, FeaturesCount
  <2>2. \A n \in Features : FeatureKnown(n) => m_featuresInDb'[n] # 0
    <3>1. call.feature \in Features
      BY <2>1, CallTypes DEF TInv, CurrentCall, TypeOK, Calls
    <3>2. /\ m_featuresInDb \in [Features -> Int]
          /\ m_featuresInDb[call.feature] = 0
      BY <2>1 DEF FeaturesInv, TInv, TypeOK, IndexTypes
    <3> SUFFICES ASSUME NEW n \in Features, FeatureKnown(n)
                 PROVE  m_featuresInDb'[n] # 0
      OBVIOUS
    <3>3. CASE n # call.feature
      BY <2>1, <3>2, <3>3 DEF FeatureKnown
    <3>4. CASE n = call.feature
      BY <2>1, <3>1, <3>2, <3>4 DEF FeatureKnown
    <3> QED
      BY <3>3, <3>4
  <2>3. \A rows \in {view, file} : NamesOf(rows.feature) \subseteq Features
    BY DEF TInv, TypeOK, DatabaseTypes, AllRows, NamesOf
  <2> QED
    BY <2>1, <2>2, <2>3 DEF FeaturesInv, FeatureKnown
<1>12. CASE StoreNewObject
  BY <1>1, <1>12 DEF StoreNewObject, sqliteVars, indexVars, callVars
<1> QED
  BY <1>2, <1>3, <1>4, <1>5, <1>6, <1>7, <1>8, <1>9, <1>10, <1>11,
    <1>12 DEF ChartIndexerNext, ChartIndexerStep

(* Init fills the map of features before any call relies on it.            *)
LEMMA LifecycleFeatures ==
  ASSUME TInv, ShutdownInv, TxInv, FeaturesInv, LifecycleNext
  PROVE  FeaturesInv'
<1> USE DEF InitGoes, InSVCOI
<1>1. ASSUME {view'.feature, file'.feature} \subseteq {view.feature, file.feature},
             mpc' \in {"off", "closed"} \union InDeInit
                        \union (InInit \ {"startThread"})
      PROVE  FeaturesInv'
  BY <1>1 DEF FeaturesInv, OnlyOnce, FeaturesCount, InInit, InDeInit
<1>2. CASE Load
  BY <1>1, <1>2 DEF Load, sqliteVars, InInit
<1>3. CASE OpenDB
  <2>1. {view'.feature, file'.feature} \subseteq {view.feature, file.feature}
    BY <1>3 DEF OpenDB, OpenDatabase, rowVars
  <2>2. mpc' \in {"fix", "createChart"}
    BY <1>3 DEF OpenDB
  <2> QED
    BY <1>1, <2>1, <2>2 DEF InInit
<1>4. CASE CreateTables
  <2>1. PICK here, table, there : Create(here, table, there)
              /\ there \in {"createFeature", "createObject", "fix"}
    BY <1>4 DEF CreateTables
  <2>2. {view'.feature, file'.feature} \subseteq {view.feature, file.feature}
    BY <2>1, StatementKeepsFeatures DEF Create, QueryDB
  <2>3. mpc' \in {"createFeature", "createObject", "fix"}
    BY <2>1 DEF Create
  <2> QED
    BY <1>1, <2>2, <2>3 DEF InInit
<1>5. ASSUME NEW table,
             IF m_bDBUsable THEN SelectFromDB(table)
                            ELSE UNCHANGED <<sqliteVars, m_bDBUsable, faults>>
      PROVE  /\ {view'.feature, file'.feature} \subseteq {view.feature, file.feature}
             /\ m_bDBUsable' => m_bDBUsable /\ UNCHANGED <<view, file>>
  <2>1. CASE StatementFails(table \in schema)
    BY <2>1, StatementKeepsFeatures DEF StatementFails
  <2>2. CASE ~ StatementFails(table \in schema)
    BY <1>5, <2>2 DEF SelectFromDB, QueryDB, sqliteVars
  <2> QED
    BY <2>1, <2>2
<1>6. CASE FixOldObjects
  BY <1>1, <1>5, <1>6 DEF FixOldObjects, InInit
<1>7. CASE LoadCharts
  BY <1>1, <1>5, <1>7 DEF LoadCharts, InInit
<1>8. CASE LoadFeatures
  <2>1. mpc = "loadFeatures" /\ mpc' = "startThread"
    BY <1>8 DEF LoadFeatures
  <2>2. {view'.feature, file'.feature} \subseteq {view.feature, file.feature}
    BY <1>5, <1>8 DEF LoadFeatures
  <2>3. OnlyOnce(view'.feature) /\ OnlyOnce(file'.feature)
    BY <2>2 DEF FeaturesInv
  <2>4. CASE ~ m_bDBUsable'
    BY <2>1, <2>3, <2>4 DEF FeaturesInv, FeaturesCount, OnlyOnce
  <2>5. CASE m_bDBUsable'
    <3>1. m_bDBUsable /\ UNCHANGED <<view, file>>
      BY <1>5, <1>8, <2>5 DEF LoadFeatures
    <3>2. view = file
      BY <2>1, <3>1
        DEF ShutdownInv, ThreadInv, InInit, TxInv, RoundIsTransaction
    <3>3. view.feature \in Seq(Features)
      BY DEF TInv, TypeOK, DatabaseTypes, AllRows
    <3>4. \A n \in NamesOf(view.feature) : n \in Features /\ IdIn(view.feature, n) # 0
      BY <3>3, IdInType DEF NamesOf
    <3>5. \A n \in NamesOf(view.feature) : m_featuresInDb'[n] # 0
      BY <1>8, <2>5, <3>4 DEF LoadFeatures
    <3> QED
      BY <2>1, <2>3, <3>1, <3>2, <3>5 DEF FeaturesInv, FeatureKnown, OnlyOnce
  <2> QED
    BY <2>4, <2>5
<1>9. CASE StartThread
  <2>1. /\ mpc = "startThread" /\ mpc' = "idle"
        /\ UNCHANGED <<view, file, m_bDBUsable, m_featuresInDb>>
    BY <1>9 DEF StartThread, sqliteVars, indexVars
  <2> QED
    BY <2>1, FeaturesKept DEF FeaturesInv, FeaturesCount
<1>10. CASE DeInit \/ AwaitWrite \/ LockThread \/ DeleteThread \/ AwaitGone
              \/ LastResort
  <2>1. UNCHANGED <<view, file>>
    BY <1>10 DEF DeInit, AwaitWrite, LockThread, DeleteThread, AwaitGone,
       LastResort, sqliteVars
  <2>2. mpc' \in InDeInit
    BY <1>10 DEF DeInit, AwaitWrite, LockThread, DeleteThread, AwaitGone,
       LastResort, InDeInit
  <2> QED
    BY <1>1, <2>1, <2>2
<1>11. CASE ClearDB \/ Unload \/ Crash
  <2>1. view' = file /\ file' = file
    BY <1>11 DEF ClearDB, Unload, Crash, GoesOff, Disconnect
  <2>2. mpc' \in {"off", "closed"}
    BY <1>11 DEF ClearDB, Unload, Crash, GoesOff
  <2> QED
    BY <1>1, <2>1, <2>2
<1>12. CASE Stopped
  BY <1>1, <1>12 DEF Stopped, vars, sqliteVars
<1> QED
  BY <1>2, <1>3, <1>4, <1>6, <1>7, <1>8, <1>9, <1>10, <1>11,
    <1>12 DEF LifecycleNext, InitStep, DeInitStep

(* What the maps know, for charts and for features, holds in every         *)
(* reachable state.                                                        *)
THEOREM NamesInvariant == Spec => [](ChartsInv /\ FeaturesInv)
<1>1. Init => ChartsInv /\ FeaturesInv
  BY DEF Init, SqliteInit, NoRows, ChartsInv, FeaturesInv, OnlyOnce,
     ChartsCount, FeaturesCount, InSVCOI
<1>2. TInv /\ ShutdownInv /\ TxInv /\ ChartsInv /\ FeaturesInv /\ [Next]_vars
        => ChartsInv' /\ FeaturesInv'
  <2> SUFFICES ASSUME TInv, ShutdownInv, TxInv, ChartsInv, FeaturesInv,
                      [Next]_vars
               PROVE  ChartsInv' /\ FeaturesInv'
    OBVIOUS
  <2>1. CASE ChartIndexerNext
    BY <2>1, ChartIndexerCharts, ChartIndexerFeatures
  <2>2. CASE DbThreadNext
    BY <2>2, DbThreadCharts, DbThreadFeatures
  <2>3. CASE LifecycleNext
    BY <2>3, LifecycleCharts, LifecycleFeatures
  <2>4. CASE UNCHANGED vars
    <3>1. UNCHANGED <<mpc, m_bDBUsable, view, file, lastRow, m_chartsInDb,
                      m_featuresInDb, chart_id, feature_id, calls, call, callName>>
      BY <2>4 DEF vars, sqliteVars, indexVars, callVars, call, callName
    <3> QED
      BY <3>1 DEF ChartsInv, FeaturesInv, ChartsCount, FeaturesCount,
         ChartKnown, FeatureKnown, OnlyOnce
  <2> QED
    BY <2>1, <2>2, <2>3, <2>4 DEF Next
<1> QED
  BY <1>1, <1>2, TypeInvariant, ShutdownInvariant, TransactionInvariant,
     PTL DEF Spec

(* A chart name and a feature name get one row each, over rollbacks,       *)
(* crashes and restarts, for any number of each.                           *)
THEOREM NamesAreUnique == Spec => []UniqueNames
<1>1. ChartsInv /\ FeaturesInv => UniqueNames
  BY DEF ChartsInv, FeaturesInv, UniqueNames
<1> QED
  BY <1>1, NamesInvariant, PTL

-----------------------------------------------------------------------------

(* Objects and the rows of their charts and features.  An object is on its *)
(* way while it is queued, or held by DbThread.                            *)
OnTheWay ==
  NamesOf(query_queue) \union (IF query = NoQuery THEN {} ELSE {query})
Everywhere == NamesOf(view.object) \union NamesOf(file.object) \union OnTheWay

HasRows(row, rows) ==
  /\ NameOf(row) \in NamesOf(rows.chart)
  /\ calls[row.obj].feature \in NamesOf(rows.feature)

Grows(old, new) ==
  /\ NamesOf(old.chart) \subseteq NamesOf(new.chart)
  /\ NamesOf(old.feature) \subseteq NamesOf(new.feature)

(* Every object is that of a call, and a run begins with none on its way.  *)
CallsInv ==
  /\ \A row \in Everywhere : row.obj \in DOMAIN calls
  /\ mpc \in InSVCOI => call.run = runs
  /\ mpc \in {"off"} \union InInit => OnTheWay = {}

(* While no statement has failed, what is stored has its rows, and what is *)
(* on its way finds them.                                                  *)
RowsInv ==
  faults = 0 =>
    /\ \A rows \in {view, file} : \A row \in NamesOf(rows.object) :
         HasRows(row, rows)
    /\ m_db = "open" => \A row \in OnTheWay : HasRows(row, view)

(* The maps name rows that are there, and a call that comes to its object  *)
(* has both rows.                                                          *)
MapsCount ==
  faults = 0 /\ m_bDBUsable /\ mpc \in {"idle"} \union InInit \union InSVCOI

HasChart ==
  \/ mpc = "lookupFeature" /\ chart_id # 0
  \/ mpc \in {"chartRowId", "newFeature", "insertFeature", "featureRowId",
              "storeObject"}
HasFeature ==
  \/ mpc \in {"newChart", "insertChart", "chartRowId"} /\ feature_id # 0
  \/ mpc \in {"featureRowId", "storeObject"}

MapsInv ==
  MapsCount =>
    /\ \A n \in Names : m_chartsInDb[n] # 0 => n \in NamesOf(view.chart)
    /\ \A f \in Features :
         m_featuresInDb[f] # 0 => f \in NamesOf(view.feature)
    /\ HasChart => callName \in NamesOf(view.chart)
    /\ HasFeature => call.feature \in NamesOf(view.feature)

(* The objects of a name are of one run, for the chart that is loading of  *)
(* this one.                                                               *)
RunInv ==
  faults = 0 =>
    /\ \A r, s \in Everywhere :
         NameOf(r) = NameOf(s) => calls[r.obj].run = calls[s.obj].run
    /\ m_chartLoading # NoPath =>
         \A r \in Everywhere :
           NameOf(r) = BaseName[m_chartLoading] => calls[r.obj].run = runs

LinkInv == CallsInv /\ RowsInv /\ MapsInv /\ RunInv

(* The steps that store no object: each table of objects is an old one,    *)
(* and while nothing fails the names it leads to are still there.          *)
CalmRows ==
  \A rows \in {view', file'} : \E old \in {view, file} :
    rows.object = old.object /\ (faults' = 0 => Grows(old, rows))

CallsExtend ==
  \A i \in DOMAIN calls : i \in DOMAIN calls' /\ calls'[i] = calls[i]

(* The names after a row is appended.                                      *)
LEMMA NamesOfAppend ==
  ASSUME NEW S, NEW s \in Seq(S), NEW n
  PROVE  NamesOf(Append(s, n)) = NamesOf(s) \union {n}
<1> DEFINE t == Append(s, n)
           k == Len(s)
<1>1. /\ k \in Nat /\ DOMAIN s = 1 .. k /\ DOMAIN t = 1 .. k + 1
      /\ \A i \in 1 .. k : t[i] = s[i]
      /\ t[k + 1] = n
  OBVIOUS
<1>2. \A i \in DOMAIN t : i \in DOMAIN s \/ i = k + 1
  BY <1>1
<1>3. \A i \in DOMAIN s : i \in DOMAIN t /\ t[i] = s[i]
  BY <1>1
<1>4. k + 1 \in DOMAIN t
  BY <1>1
<1> HIDE DEF t, k
<1> QED
  BY <1>1, <1>2, <1>3, <1>4 DEF NamesOf, t

(* A statement of the GUI thread keeps every table of objects, and the     *)
(* rows they lead to unless it fails.                                      *)
LEMMA StatementCalm ==
  ASSUME TInv, NEW STATE legal,
         \/ StatementFails(legal)
         \/ /\ UNCHANGED <<m_bDBUsable, faults>>
            /\ \/ \E n \in Names : InsertChart(n)
               \/ \E f \in Features : InsertFeature(f)
               \/ \E table : CreateTable(table)
               \/ BeginTransaction
               \/ CommitTransaction
               \/ UNCHANGED sqliteVars
  PROVE  /\ CalmRows
         /\ faults' = 0 => faults = 0 /\ Grows(view, view')
         /\ m_bDBUsable' => m_bDBUsable
         /\ m_db' = m_db
<1>1. /\ view \in AllRows /\ view.chart \in Seq(Names)
      /\ view.feature \in Seq(Features) /\ faults \in Nat
  BY BoundsAssumption DEF TInv, TypeOK, DatabaseTypes, AllRows
<1>2. CASE StatementFails(legal)
  <2>1. ~ m_bDBUsable'
    BY <1>2 DEF StatementFails
  <2>2. CASE UNCHANGED <<sqliteVars, faults>>
    BY <2>1, <2>2 DEF sqliteVars, CalmRows, Grows
  <2>3. CASE faults' = faults + 1 /\ (UNCHANGED sqliteVars \/ Rollback)
    <3>1. faults' # 0
      BY <1>1, <2>3
    <3> QED
      BY <2>1, <2>3, <3>1 DEF sqliteVars, Rollback, CalmRows
  <2> QED
    BY <1>2, <2>2, <2>3 DEF StatementFails
<1>3. ASSUME UNCHANGED <<m_bDBUsable, faults>>, NEW n \in Names, InsertChart(n)
      PROVE  CalmRows /\ Grows(view, view') /\ m_db' = m_db
  <2>1. /\ view' = [view EXCEPT !.chart = Append(view.chart, n)]
        /\ file' \in {file, view'} /\ m_db' = m_db
    BY <1>3 DEF InsertChart, Insert
  <2>2. /\ view'.chart = Append(view.chart, n)
        /\ view'.feature = view.feature /\ view'.object = view.object
    BY <1>1, <2>1 DEF AllRows
  <2>3. Grows(view, view')
    BY <1>1, <2>2, NamesOfAppend DEF Grows
  <2> QED
    BY <2>1, <2>2, <2>3 DEF CalmRows, Grows
<1>4. ASSUME UNCHANGED <<m_bDBUsable, faults>>, NEW f \in Features,
             InsertFeature(f)
      PROVE  CalmRows /\ Grows(view, view') /\ m_db' = m_db
  <2>1. /\ view' = [view EXCEPT !.feature = Append(view.feature, f)]
        /\ file' \in {file, view'} /\ m_db' = m_db
    BY <1>4 DEF InsertFeature, Insert
  <2>2. /\ view'.feature = Append(view.feature, f)
        /\ view'.chart = view.chart /\ view'.object = view.object
    BY <1>1, <2>1 DEF AllRows
  <2>3. Grows(view, view')
    BY <1>1, <2>2, NamesOfAppend DEF Grows
  <2> QED
    BY <2>1, <2>2, <2>3 DEF CalmRows, Grows
<1>5. CASE /\ UNCHANGED <<m_bDBUsable, faults>>
           /\ \/ \E table : CreateTable(table)
              \/ BeginTransaction \/ CommitTransaction \/ UNCHANGED sqliteVars
  <2>1. view' = view /\ file' \in {file, view} /\ m_db' = m_db
    BY <1>5 DEF CreateTable, BeginTransaction, CommitTransaction, sqliteVars
  <2> QED
    BY <1>5, <2>1 DEF CalmRows, Grows
<1> QED
  BY <1>2, <1>3, <1>4, <1>5

(* What a step that stores no object keeps. *)
LEMMA RowsKept ==
  ASSUME CallsInv, RowsInv, CalmRows, CallsExtend, faults' = 0 => faults = 0,
         OnTheWay' \subseteq OnTheWay,
         faults' = 0 /\ m_db' = "open" =>
           \/ OnTheWay' = {}
           \/ m_db = "open" /\ Grows(view, view')
  PROVE  /\ Everywhere' \subseteq Everywhere
         /\ \A row \in Everywhere' : row.obj \in DOMAIN calls'
         /\ RowsInv'
<1>1. Everywhere' \subseteq Everywhere
  BY DEF CalmRows, Everywhere
<1>2. \A row \in Everywhere' : row.obj \in DOMAIN calls'
  BY <1>1 DEF CallsInv, CallsExtend
<1>3. ASSUME NEW row \in Everywhere, NEW old, NEW new,
             HasRows(row, old), Grows(old, new)
      PROVE  /\ (NameOf(row))' \in NamesOf(new.chart)
             /\ calls'[row.obj].feature \in NamesOf(new.feature)
  BY <1>3 DEF CallsInv, CallsExtend, HasRows, Grows, NameOf
<1>4. ASSUME faults' = 0, NEW rows \in {view', file'},
             NEW row \in NamesOf(rows.object)
      PROVE  /\ (NameOf(row))' \in NamesOf(rows.chart)
             /\ calls'[row.obj].feature \in NamesOf(rows.feature)
  <2>1. PICK old \in {view, file} :
          rows.object = old.object /\ Grows(old, rows)
    BY <1>4 DEF CalmRows
  <2>2. HasRows(row, old) /\ row \in Everywhere
    BY <1>4, <2>1 DEF RowsInv, Everywhere
  <2> QED
    BY <1>3, <2>1, <2>2
<1>5. ASSUME faults' = 0, m_db' = "open", NEW row \in OnTheWay'
      PROVE  /\ (NameOf(row))' \in NamesOf(view'.chart)
             /\ calls'[row.obj].feature \in NamesOf(view'.feature)
  <2>1. m_db = "open" /\ Grows(view, view') /\ faults = 0
    BY <1>5
  <2>2. row \in OnTheWay /\ HasRows(row, view)
    BY <1>5, <2>1 DEF RowsInv
  <2> QED
    BY <1>3, <2>1, <2>2 DEF Everywhere
<1> QED
  BY <1>1, <1>2, <1>4, <1>5 DEF RowsInv, HasRows

(* A step that accepts no object and changes no loading chart, or ends the *)
(* loading, keeps objects of a name in one run.                            *)
LEMMA RunsKept ==
  ASSUME CallsInv, RunInv, Everywhere' \subseteq Everywhere, CallsExtend,
         faults' = 0 => faults = 0,
         UNCHANGED <<m_chartLoading, runs>> \/ m_chartLoading' = NoPath
  PROVE  RunInv'
<1>1. \A row \in Everywhere' :
        (NameOf(row))' = NameOf(row) /\ calls'[row.obj] = calls[row.obj]
  BY DEF CallsInv, CallsExtend, NameOf
<1> QED
  BY <1>1 DEF RunInv, NameOf

(* The maps against a table that only grows. *)
LEMMA MapsKept ==
  ASSUME MapsInv, faults' = 0 => faults = 0 /\ Grows(view, view'),
         m_bDBUsable' => m_bDBUsable,
         UNCHANGED <<mpc, m_chartsInDb, m_featuresInDb, callVars>>
  PROVE  MapsInv'
<1>1. callName' = callName /\ call.feature' = call.feature
  BY DEF callName, call, callVars
<1>2. MapsCount' => MapsCount /\ Grows(view, view')
  BY DEF MapsCount
<1> QED
  BY <1>1, <1>2 DEF MapsInv, HasChart, HasFeature, Grows, callVars

(* LinkInv looks at variables only.                                        *)
LEMMA LinksStutter ==
  ASSUME LinkInv, UNCHANGED vars
  PROVE  LinkInv'
<1>1. UNCHANGED <<mpc, m_bDBUsable, faults, m_db, view, file, calls, runs, query,
                  query_queue, m_chartLoading, m_chartsInDb, m_featuresInDb,
                  chart_id, feature_id>>
  BY DEF vars, sqliteVars, threadVars, callVars, indexVars
<1>2. UNCHANGED <<call, callName, OnTheWay, Everywhere>>
  BY <1>1 DEF call, callName, OnTheWay, Everywhere
<1>3. CallsInv' /\ RowsInv'
  BY <1>1, <1>2 DEF LinkInv, CallsInv, RowsInv, HasRows, NameOf
<1>4. MapsInv'
  BY <1>1, <1>2 DEF LinkInv, MapsInv, MapsCount, HasChart, HasFeature
<1>5. RunInv'
  BY <1>1, <1>2 DEF LinkInv, RunInv, NameOf
<1> QED
  BY <1>3, <1>4, <1>5 DEF LinkInv

(* The queue without its first statement has no other.                     *)
LEMMA NamesOfTail ==
  ASSUME NEW S, NEW s \in Seq(S), s # <<>>
  PROVE  NamesOf(Tail(s)) \union {Head(s)} \subseteq NamesOf(s)
<1> DEFINE t == Tail(s)
           k == Len(s)
<1>1. /\ k \in Nat /\ k > 0 /\ DOMAIN s = 1 .. k /\ DOMAIN t = 1 .. k - 1
      /\ \A i \in 1 .. k - 1 : t[i] = s[i + 1]
      /\ Head(s) = s[1]
  OBVIOUS
<1>2. \A i \in DOMAIN t : i + 1 \in DOMAIN s /\ t[i] = s[i + 1]
  BY <1>1
<1>3. 1 \in DOMAIN s
  BY <1>1
<1> HIDE DEF t, k
<1> QED
  BY <1>1, <1>2, <1>3 DEF NamesOf, t

(* DbThread moves objects along, and changes no map and no call. *)
LEMMA DbThreadLinks ==
  ASSUME TInv, LinkInv, DbThreadNext
  PROVE  LinkInv'
<1>1. UNCHANGED guiVars
  BY DEF DbThreadNext, ThreadStarts, TestDestroy, Begin, MarkWriting,
     TakeQuery, ExecuteQuery, QueueEmpty, Commit, UnmarkWriting, WakeUp,
     DestroyThread, ThreadGone
<1>2. CallsExtend /\ UNCHANGED <<m_chartLoading, runs, mpc, calls, call>>
  BY <1>1 DEF guiVars, callVars, indexVars, CallsExtend, call
<1>3. ASSUME /\ \A row \in Everywhere' : row.obj \in DOMAIN calls'
             /\ Everywhere' \subseteq Everywhere
             /\ OnTheWay' \subseteq OnTheWay
             /\ faults' = 0 => faults = 0 /\ Grows(view, view')
             /\ m_bDBUsable' => m_bDBUsable
             /\ RowsInv'
      PROVE  LinkInv'
  <2>1. CallsInv'
    BY <1>2, <1>3 DEF LinkInv, CallsInv
  <2>2. MapsInv'
    BY <1>1, <1>3, MapsKept DEF LinkInv, guiVars, indexVars
  <2>3. RunInv'
    BY <1>2, <1>3, RunsKept DEF LinkInv
  <2> QED
    BY <1>3, <2>1, <2>2, <2>3 DEF LinkInv
<1>4. ASSUME CalmRows, OnTheWay' \subseteq OnTheWay, m_db' = m_db,
             faults' = 0 => faults = 0 /\ Grows(view, view'),
             m_bDBUsable' => m_bDBUsable
      PROVE  LinkInv'
  BY <1>2, <1>3, <1>4, RowsKept DEF LinkInv
<1>5. CASE Begin \/ Commit
  <2>1. UNCHANGED OnTheWay
    BY <1>5 DEF Begin, Commit, OnTheWay
  <2> QED
    BY <1>4, <1>5, <2>1, StatementCalm DEF Begin, Commit, QueryDB
<1>6. ASSUME UNCHANGED <<sqliteVars, m_bDBUsable, faults>>,
             OnTheWay' \subseteq OnTheWay
      PROVE  LinkInv'
  <2>1. CalmRows /\ Grows(view, view') /\ m_db' = m_db
    BY <1>6 DEF sqliteVars, CalmRows, Grows
  <2> QED
    BY <1>4, <1>6, <2>1
<1>7. CASE TakeQuery
  <2>1. query_queue \in Seq(Rows)
    BY DEF TInv, TypeOK, ThreadTypes
  <2>2. /\ query_queue # <<>>
        /\ query' = Head(query_queue) /\ query_queue' = Tail(query_queue)
        /\ UNCHANGED <<sqliteVars, m_bDBUsable, faults>>
    BY <1>7 DEF TakeQuery, GetQuery
  <2>3. NamesOf(query_queue') \union {query'} \subseteq NamesOf(query_queue)
    BY <2>1, <2>2, NamesOfTail
  <2>4. OnTheWay' \subseteq OnTheWay
    BY <2>3 DEF OnTheWay
  <2> QED
    BY <1>6, <2>2, <2>4
<1>8. CASE ExecuteQuery
  <2>1. /\ query' = NoQuery /\ query_queue' = query_queue
        /\ QueryDB(InsertObject(query), "object" \in schema)
        /\ tpc = "execute"
    BY <1>8 DEF ExecuteQuery, ThreadAt
  <2>2. OnTheWay' \subseteq OnTheWay
    BY <2>1 DEF OnTheWay
  <2>3. CASE StatementFails("object" \in schema)
    BY <1>4, <2>2, <2>3, StatementCalm
  <2>4. CASE /\ m_db = "open" /\ InsertObject(query)
             /\ UNCHANGED <<m_bDBUsable, faults>>
    <3>1. query \in Rows /\ query \in OnTheWay
      BY <2>1, QueryAssumption DEF TInv, CurrentCall, OnTheWay
    <3>2. view \in AllRows /\ view.object \in Seq(Rows)
      BY DEF TInv, TypeOK, DatabaseTypes, AllRows
    <3>3. /\ view' = [view EXCEPT !.object = Append(view.object, query)]
          /\ file' \in {file, view'} /\ m_db' = m_db
      BY <2>4 DEF InsertObject, Insert
    <3>4. /\ view'.object = Append(view.object, query)
          /\ view'.chart = view.chart /\ view'.feature = view.feature
      BY <3>2, <3>3 DEF AllRows
    <3>5. NamesOf(view'.object) = NamesOf(view.object) \union {query}
      BY <3>2, <3>4, NamesOfAppend
    <3>6. Everywhere' \subseteq Everywhere
      BY <2>2, <3>1, <3>3, <3>5 DEF Everywhere
    <3>7. \A row \in Everywhere' : row.obj \in DOMAIN calls'
      BY <1>2, <3>6 DEF LinkInv, CallsInv
    <3>8. Grows(view, view')
      BY <3>4 DEF Grows
    <3>9. ASSUME faults = 0
           PROVE  /\ \A row \in NamesOf(view'.object) : HasRows(row, view)
                  /\ \A row \in OnTheWay' : HasRows(row, view)
      BY <2>2, <2>4, <3>1, <3>5, <3>9 DEF LinkInv, RowsInv
    <3>10. RowsInv'
      <4> SUFFICES ASSUME faults = 0 PROVE RowsInv'
        BY <2>4 DEF RowsInv
      <4>1. \A row \in NamesOf(view'.object) : HasRows(row, view)'
        BY <1>2, <3>4, <3>9 DEF HasRows, NameOf
      <4>2. \A row \in NamesOf(file'.object) : HasRows(row, file)'
        <5>1. CASE file' = view'
          BY <4>1, <5>1 DEF HasRows
        <5>2. CASE file' = file
          BY <1>2, <5>2 DEF LinkInv, RowsInv, HasRows, NameOf
        <5> QED
          BY <3>3, <5>1, <5>2
      <4>3. \A row \in OnTheWay' : HasRows(row, view)'
        BY <1>2, <3>4, <3>9 DEF HasRows, NameOf
      <4> QED
        BY <4>1, <4>2, <4>3 DEF RowsInv, HasRows
    <3> QED
      BY <1>3, <2>2, <2>4, <3>6, <3>7, <3>8, <3>10
  <2> QED
    BY <2>1, <2>3, <2>4 DEF QueryDB, Accepted
<1>9. CASE \/ ThreadStarts \/ TestDestroy \/ MarkWriting \/ QueueEmpty
           \/ UnmarkWriting \/ WakeUp \/ DestroyThread \/ ThreadGone
  <2>1. UNCHANGED <<sqliteVars, m_bDBUsable, faults, query, query_queue>>
    BY <1>9 DEF ThreadStarts, TestDestroy, MarkWriting, QueueEmpty,
       UnmarkWriting, WakeUp, DestroyThread, ThreadGone
  <2>2. UNCHANGED OnTheWay
    BY <2>1 DEF OnTheWay
  <2> QED
    BY <1>6, <2>1, <2>2
<1> QED
  BY <1>5, <1>7, <1>8, <1>9 DEF DbThreadNext

(* SendVectorChartObjectInfo: a row is inserted before the map has it and  *)
(* before its object is queued, and a chart begins to load when no object  *)
(* of its name is anywhere.                                                *)
LEMMA ChartIndexerLinks ==
  ASSUME TInv, ShutdownInv, ChartsInv, LinkInv, ChartIndexerNext
  PROVE  LinkInv'
<1> USE DEF GuiAt
<1>1. ASSUME UNCHANGED <<calls, runs, query_queue, query, m_chartLoading>>,
             CalmRows, m_db' = m_db,
             faults' = 0 => faults = 0 /\ Grows(view, view'),
             mpc' = "idle" \/ (mpc' \in InSVCOI /\ mpc \in InSVCOI),
             MapsInv'
      PROVE  LinkInv'
  <2>1. CallsExtend /\ UNCHANGED <<OnTheWay, call>>
    BY <1>1 DEF CallsExtend, OnTheWay, call
  <2>2. /\ Everywhere' \subseteq Everywhere
        /\ \A row \in Everywhere' : row.obj \in DOMAIN calls'
        /\ RowsInv'
    BY <1>1, <2>1, RowsKept DEF LinkInv
  <2>3. RunInv'
    BY <1>1, <2>1, <2>2, RunsKept DEF LinkInv
  <2>4. CallsInv'
    BY <1>1, <2>1, <2>2 DEF LinkInv, CallsInv, InInit, InSVCOI
  <2> QED
    BY <1>1, <2>2, <2>3, <2>4 DEF LinkInv
<1>2. ASSUME UNCHANGED <<sqliteVars, faults>>
      PROVE  CalmRows /\ Grows(view, view') /\ m_db' = m_db
  BY <1>2 DEF sqliteVars, CalmRows, Grows
<1>3. CASE ReportCall
  <2>1. PICK p \in Paths, f \in Features, s \in BOOLEAN : Receive(p, f, s)
    BY <1>3 DEF ReportCall
  <2>2. /\ mpc = "idle" /\ mpc' = "lookupChart"
        /\ calls' = Append(calls, [path |-> p, feature |-> f,
                                   storable |-> s, run |-> runs])
        /\ UNCHANGED <<sqliteVars, m_bDBUsable, faults, runs, query_queue, query,
                       m_chartLoading, m_chartsInDb, m_featuresInDb>>
    BY <2>1 DEF Receive, guiOnlyVars, threadVars, indexVars
  <2>3. calls \in Seq(Calls)
    BY DEF TInv, TypeOK, IndexTypes
  <2>4. CallsExtend /\ call'.run = runs'
    BY <2>2, <2>3 DEF CallsExtend, call
  <2>5. CalmRows /\ Grows(view, view') /\ m_db' = m_db
    BY <1>2, <2>2
  <2>6. UNCHANGED OnTheWay
    BY <2>2 DEF OnTheWay
  <2>7. /\ Everywhere' \subseteq Everywhere
        /\ \A row \in Everywhere' : row.obj \in DOMAIN calls'
        /\ RowsInv'
    BY <2>2, <2>4, <2>5, <2>6, RowsKept DEF LinkInv
  <2>8. RunInv'
    BY <2>2, <2>4, <2>7, RunsKept DEF LinkInv
  <2>9. CallsInv'
    BY <2>2, <2>4, <2>7 DEF CallsInv, InInit
  <2>10. MapsInv'
    BY <2>2
      DEF LinkInv, MapsInv, HasChart, HasFeature, MapsCount, sqliteVars, InSVCOI
  <2> QED
    BY <2>7, <2>8, <2>9, <2>10 DEF LinkInv
<1>4. CASE SearchFails
  <2>1. faults' # 0
    BY <1>4, BoundsAssumption DEF SearchFails, TInv, TypeOK, DatabaseTypes
  <2>2. UNCHANGED <<view, file, query, query_queue, calls, runs, mpc>>
    BY <1>4 DEF SearchFails, sqliteVars, guiOnlyVars, threadVars, callVars
  <2>3. UNCHANGED <<OnTheWay, Everywhere, call>>
    BY <2>2 DEF OnTheWay, Everywhere, call
  <2> QED
    BY <2>1, <2>2, <2>3
    DEF LinkInv, CallsInv, RowsInv, MapsInv, HasChart, HasFeature, MapsCount, RunInv
<1>5. CASE LookupChart \/ LookupFeature
  <2>1. /\ UNCHANGED <<sqliteVars, faults, m_bDBUsable, calls, runs, query_queue,
                       query, m_chartLoading, m_chartsInDb, m_featuresInDb>>
        /\ mpc \in InSVCOI /\ mpc' \in InSVCOI
    BY <1>5 DEF LookupChart, LookupFeature, guiOnlyVars, threadVars, indexVars,
       InSVCOI
  <2>2. UNCHANGED <<call, callName, view>>
    BY <2>1 DEF call, callName, sqliteVars
  <2>3. call.feature \in Features /\ callName \in Names
    BY <2>1, CallTypes DEF TInv, CurrentCall, TypeOK, Calls
  <2>4. MapsInv'
    <3>1. CASE LookupChart
      BY <2>1, <2>2, <2>3, <3>1
        DEF LookupChart, LinkInv, MapsInv, HasChart, HasFeature, MapsCount
    <3>2. CASE LookupFeature
      BY <2>1, <2>2, <2>3, <3>2
        DEF LookupFeature, LinkInv, MapsInv, HasChart, HasFeature, MapsCount
    <3> QED
      BY <1>5, <3>1, <3>2
  <2> QED
    BY <1>1, <1>2, <2>1, <2>4
<1>6. CASE NewChart
  <2>1. /\ UNCHANGED <<sqliteVars, faults, m_bDBUsable, calls, runs, query_queue,
                       query, m_featuresInDb, feature_id>>
        /\ mpc = "newChart" /\ mpc' \in InSVCOI
    BY <1>6 DEF NewChart, AfterChart, guiOnlyVars, threadVars, callVars, InSVCOI
  <2>2. UNCHANGED <<call, callName, view, OnTheWay, Everywhere>>
    BY <2>1 DEF call, callName, sqliteVars, OnTheWay, Everywhere
  <2>3. CASE ~ m_bDBUsable
    <3>1. m_chartLoading' = m_chartLoading
      BY <1>6, <2>3 DEF NewChart
    <3>2. MapsInv'
      BY <2>1, <2>3 DEF MapsInv, HasChart, HasFeature, MapsCount
    <3> QED
      BY <1>1, <1>2, <2>1, <3>1, <3>2 DEF InSVCOI
  <2>4. CASE m_bDBUsable
    <3>1. /\ mpc' = "insertChart" /\ m_chartLoading' = call.path
          /\ UNCHANGED m_chartsInDb
      BY <1>6, <2>4 DEF NewChart, ChartIsLoading
    <3>2. MapsInv'
      BY <2>1, <2>2, <3>1
        DEF LinkInv, MapsInv, HasChart, HasFeature, MapsCount, InSVCOI
    <3>3. callName \notin NamesOf(view.chart) /\ callName \notin NamesOf(file.chart)
      BY <2>1 DEF ChartsInv, ChartsCount, ChartKnown, InSVCOI
    <3>4. m_db = "open"
      BY <2>1 DEF ShutdownInv, OpenInv, InSVCOI
    <3>5. ASSUME faults = 0
          PROVE  \A row \in Everywhere : NameOf(row) # callName
      BY <3>3, <3>4, <3>5 DEF LinkInv, RowsInv, Everywhere, HasRows
    <3>6. callName = BaseName[m_chartLoading']
      BY <3>1 DEF callName
    <3>7. RunInv'
      BY <2>1, <2>2, <3>5, <3>6 DEF LinkInv, RunInv, NameOf
    <3>8. RowsInv'
      BY <2>1, <2>2 DEF LinkInv, RowsInv, HasRows, NameOf, sqliteVars
    <3>9. CallsInv'
      BY <2>1, <2>2, <3>1 DEF LinkInv, CallsInv, InInit, InSVCOI
    <3> QED
      BY <3>2, <3>7, <3>8, <3>9 DEF LinkInv
  <2> QED
    BY <2>3, <2>4
<1>7. CASE InsertNewChart \/ InsertNewFeature
  <2>1. /\ UNCHANGED <<calls, runs, query_queue, query, m_chartLoading,
                       m_chartsInDb, m_featuresInDb, chart_id, feature_id>>
        /\ \/ mpc = "insertChart" /\ mpc' = "chartRowId"
           \/ mpc = "insertFeature" /\ mpc' = "featureRowId"
    BY <1>7 DEF InsertNewChart, InsertNewFeature, guiOnlyVars, threadVars,
       indexVars, callVars
  <2>2. UNCHANGED <<call, callName>>
    BY <2>1 DEF call, callName
  <2>3. call.feature \in Features /\ callName \in Names
    BY <2>1, CallTypes DEF TInv, CurrentCall, TypeOK, Calls, InSVCOI
  <2>4. /\ CalmRows /\ m_db' = m_db
        /\ faults' = 0 => faults = 0 /\ Grows(view, view')
        /\ m_bDBUsable' => m_bDBUsable
    <3>1. CASE InsertNewChart
      BY <2>3, <3>1, StatementCalm DEF InsertNewChart, QueryDB
    <3>2. CASE InsertNewFeature
      BY <2>3, <3>2, StatementCalm DEF InsertNewFeature, QueryDB
    <3> QED
      BY <1>7, <3>1, <3>2
  <2>5. view \in AllRows /\ view.chart \in Seq(Names) /\ view.feature \in Seq(Features)
    BY DEF TInv, TypeOK, DatabaseTypes, AllRows
  <2>6. m_bDBUsable' /\ mpc' = "chartRowId" => callName \in NamesOf(view'.chart)
    <3> SUFFICES ASSUME m_bDBUsable', mpc' = "chartRowId"
                 PROVE  callName \in NamesOf(view'.chart)
      OBVIOUS
    <3>1. InsertChart(callName)
      BY <1>7 DEF InsertNewChart, InsertNewFeature, QueryDB, StatementFails
    <3>2. view'.chart = Append(view.chart, callName)
      BY <2>5, <3>1 DEF InsertChart, Insert, AllRows
    <3> QED
      BY <2>5, <3>2, NamesOfAppend
  <2>7. m_bDBUsable' /\ mpc' = "featureRowId"
          => call.feature \in NamesOf(view'.feature)
    <3> SUFFICES ASSUME m_bDBUsable', mpc' = "featureRowId"
                 PROVE  call.feature \in NamesOf(view'.feature)
      OBVIOUS
    <3>1. InsertFeature(call.feature)
      BY <1>7 DEF InsertNewChart, InsertNewFeature, QueryDB, StatementFails
    <3>2. view'.feature = Append(view.feature, call.feature)
      BY <2>5, <3>1 DEF InsertFeature, Insert, AllRows
    <3> QED
      BY <2>5, <3>2, NamesOfAppend
  <2>8. MapsCount' => MapsCount /\ Grows(view, view') /\ m_bDBUsable'
    BY <2>1, <2>4 DEF MapsCount, InSVCOI
  <2>9. MapsInv'
    BY <2>1, <2>2, <2>6, <2>7, <2>8
      DEF LinkInv, MapsInv, HasChart, HasFeature, Grows
  <2> QED
    BY <1>1, <2>1, <2>4, <2>9 DEF InSVCOI
<1>8. CASE ChartRowId \/ NewFeature \/ FeatureRowId
  <2>1. /\ UNCHANGED <<sqliteVars, faults, m_bDBUsable, calls, runs, query_queue,
                       query, m_chartLoading>>
        /\ mpc \in InSVCOI /\ mpc' \in InSVCOI
    BY <1>8 DEF ChartRowId, AfterChart, NewFeature, FeatureRowId, guiOnlyVars,
       threadVars, callVars, InSVCOI
  <2>2. UNCHANGED <<call, callName, view>>
    BY <2>1 DEF call, callName, sqliteVars
  <2>3. call.feature \in Features /\ callName \in Names
    BY <2>1, CallTypes DEF TInv, CurrentCall, TypeOK, Calls
  <2>4. /\ m_chartsInDb \in [Names \union {NoName} -> Int]
        /\ m_featuresInDb \in [Features -> Int]
    BY DEF TInv, TypeOK, IndexTypes
  <2>5. MapsInv'
    <3>1. CASE ChartRowId
      <4>1. /\ mpc = "chartRowId" /\ mpc' = AfterChart
            /\ m_chartsInDb' = [m_chartsInDb EXCEPT ![callName] = lastRow]
            /\ UNCHANGED <<m_featuresInDb, chart_id, feature_id>>
        BY <3>1 DEF ChartRowId, RememberChart, callVars
      <4>2. \A n \in Names : n # callName => m_chartsInDb'[n] = m_chartsInDb[n]
        BY <2>4, <4>1
      <4>3. MapsCount' => MapsCount
        BY <2>1 DEF MapsCount
      <4> QED
        BY <2>1, <2>2, <4>1, <4>2, <4>3
          DEF LinkInv, MapsInv, HasChart, HasFeature, AfterChart
    <3>2. CASE NewFeature
      <4>1. MapsCount' => MapsCount /\ m_bDBUsable
        BY <2>1 DEF MapsCount
      <4>2. m_bDBUsable => /\ mpc = "newFeature" /\ mpc' = "insertFeature"
                           /\ UNCHANGED <<m_featuresInDb, m_chartsInDb>>
        BY <3>2 DEF NewFeature
      <4> QED
        BY <2>1, <2>2, <4>1, <4>2 DEF LinkInv, MapsInv, HasChart, HasFeature
    <3>3. CASE FeatureRowId
      <4>1. /\ mpc = "featureRowId" /\ mpc' = "storeObject"
            /\ m_featuresInDb' = [m_featuresInDb EXCEPT ![call.feature] = lastRow]
            /\ UNCHANGED m_chartsInDb
        BY <3>3 DEF FeatureRowId
      <4>2. \A f \in Features :
              f # call.feature => m_featuresInDb'[f] = m_featuresInDb[f]
        BY <2>4, <4>1
      <4>3. MapsCount' => MapsCount
        BY <2>1 DEF MapsCount
      <4> QED
        BY <2>1, <2>2, <4>1, <4>2, <4>3
          DEF LinkInv, MapsInv, HasChart, HasFeature
    <3> QED
      BY <1>8, <3>1, <3>2, <3>3
  <2> QED
    BY <1>1, <1>2, <2>1, <2>5
<1>9. CASE StoreNewObject
  <2>1. /\ mpc = "storeObject" /\ mpc' = "idle"
        /\ UNCHANGED <<sqliteVars, faults, m_bDBUsable, calls, runs, query,
                       m_chartLoading, m_chartsInDb, m_featuresInDb>>
    BY <1>9 DEF StoreNewObject, guiOnlyVars, threadVars, callVars, indexVars
  <2>2. UNCHANGED <<call, callName, view, file, m_db>>
    BY <2>1 DEF call, callName, sqliteVars
  <2>3. MapsInv'
    BY <2>1, <2>2 DEF LinkInv, MapsInv, HasChart, HasFeature, MapsCount, InSVCOI
  <2>4. CASE ~ Queues
    <3>1. UNCHANGED query_queue
      BY <1>9, <2>4 DEF StoreNewObject
    <3>2. CalmRows /\ Grows(view, view') /\ m_db' = m_db
      BY <1>2, <2>1
    <3>3. /\ UNCHANGED <<calls, runs, query_queue, query, m_chartLoading>>
          /\ faults' = faults /\ mpc' = "idle"
      BY <2>1, <3>1
    <3> QED
      BY <1>1, <2>3, <3>2, <3>3
  <2>5. CASE Queues
    <3> DEFINE new == [chart |-> chart_id, feature |-> feature_id,
                       obj |-> Len(calls)]
    <3>1. query_queue \in Seq(Rows) /\ query_queue' = Append(query_queue, new)
      BY <1>9, <2>5 DEF StoreNewObject, TInv, TypeOK, ThreadTypes
    <3>2. new.obj = Len(calls) /\ Len(calls) \in DOMAIN calls
      BY <2>1 DEF TInv, TypeOK, IndexTypes, CurrentCall, InSVCOI
    <3> HIDE DEF new
    <3>3. /\ OnTheWay' = OnTheWay \union {new}
          /\ Everywhere' = Everywhere \union {new}
      BY <2>1, <2>2, <3>1, NamesOfAppend DEF OnTheWay, Everywhere
    <3>4. calls[new.obj] = call /\ NameOf(new) = callName
      BY <3>2 DEF call, callName, NameOf
    <3>5. CallsInv'
      BY <2>1, <2>2, <3>2, <3>3 DEF LinkInv, CallsInv, InInit, InSVCOI
    <3>6. RowsInv'
      <4>1. faults = 0 => HasRows(new, view)
        BY <2>1, <2>5, <3>4
          DEF LinkInv, MapsInv, HasChart, HasFeature, MapsCount, Queues, HasRows,
           InSVCOI
      <4> QED
        BY <2>1, <2>2, <3>3, <4>1 DEF LinkInv, RowsInv, HasRows, NameOf
    <3>7. RunInv'
      <4>1. /\ m_chartLoading = call.path /\ m_chartLoading # NoPath
            /\ callName = BaseName[m_chartLoading]
            /\ calls[new.obj].run = runs
        <5>1. call \in Calls /\ call.run = runs
          BY <2>1, CallTypes DEF LinkInv, CallsInv, TInv, TypeOK, CurrentCall,
             InSVCOI
        <5> QED
          BY <2>5, <3>4, <5>1, PathsAssumption DEF Queues, callName, Calls
      <4> QED
        BY <2>1, <3>3, <3>4, <4>1 DEF LinkInv, RunInv, NameOf
    <3> QED
      BY <2>3, <3>5, <3>6, <3>7 DEF LinkInv
  <2> QED
    BY <2>4, <2>5
<1> QED
  BY <1>3, <1>4, <1>5, <1>6, <1>7, <1>8, <1>9
  DEF ChartIndexerNext, ChartIndexerStep

(* Init fills the maps from the tables, and a run that ends takes back     *)
(* objects together with their rows: both are in one transaction.          *)
LEMMA LifecycleLinks ==
  ASSUME TInv, ShutdownInv, TxInv, LinkInv, LifecycleNext
  PROVE  LinkInv'
<1> USE DEF InitGoes
<1>1. ASSUME UNCHANGED <<calls, OnTheWay>>, CalmRows,
             UNCHANGED <<m_chartLoading, runs>>,
             faults' = 0 => faults = 0,
             faults' = 0 /\ m_db' = "open" =>
               \/ OnTheWay' = {}
               \/ m_db = "open" /\ Grows(view, view'),
             mpc' \in InInit => mpc \in InInit,
             mpc' # "off" /\ mpc' \notin InSVCOI,
             MapsInv'
      PROVE  LinkInv'
  <2>1. CallsExtend
    BY <1>1 DEF CallsExtend
  <2>2. /\ Everywhere' \subseteq Everywhere
        /\ \A row \in Everywhere' : row.obj \in DOMAIN calls'
        /\ RowsInv'
    BY <1>1, <2>1, RowsKept DEF LinkInv
  <2>3. RunInv'
    BY <1>1, <2>1, <2>2, RunsKept DEF LinkInv
  <2>4. CallsInv'
    BY <1>1, <2>2 DEF LinkInv, CallsInv
  <2> QED
    BY <1>1, <2>2, <2>3, <2>4 DEF LinkInv
<1>2. ASSUME UNCHANGED <<query, query_queue>>
      PROVE  UNCHANGED OnTheWay
  BY <1>2 DEF OnTheWay
<1>3. CASE Load \/ Unload \/ Crash
  <2>1. /\ Constructed /\ UNCHANGED <<calls, faults, file>>
        /\ view' \in {view, file}
        /\ mpc' \in {"off", "open"}
    BY <1>3 DEF Load, Unload, Crash, GoesOff, Disconnect, sqliteVars
  <2>2. m_chartLoading' = NoPath /\ OnTheWay' = {}
    BY <2>1 DEF Constructed, OnTheWay, NamesOf
  <2>3. CallsExtend /\ CalmRows
    BY <2>1 DEF CallsExtend, CalmRows, Grows
  <2>4. /\ Everywhere' \subseteq Everywhere
        /\ \A row \in Everywhere' : row.obj \in DOMAIN calls'
        /\ RowsInv'
    BY <2>1, <2>2, <2>3, RowsKept DEF LinkInv
  <2>5. RunInv'
    BY <2>1, <2>2, <2>3, <2>4, RunsKept DEF LinkInv
  <2>6. CallsInv'
    BY <2>1, <2>2, <2>4 DEF CallsInv, InSVCOI
  <2>7. MapsInv'
    <3>1. /\ \A n \in Names : m_chartsInDb'[n] = 0
          /\ \A f \in Features : m_featuresInDb'[f] = 0
      BY <2>1 DEF Constructed, EmptyChartMap, EmptyFeatureMap
    <3> QED
      BY <2>1, <3>1 DEF MapsInv, HasChart, HasFeature
  <2> QED
    BY <2>4, <2>5, <2>6, <2>7 DEF LinkInv
<1>4. CASE OpenDB
  <2>1. /\ UNCHANGED <<query, query_queue, calls, runs, m_chartLoading,
                       m_chartsInDb, m_featuresInDb>>
        /\ mpc = "open" /\ mpc' \in {"fix", "createChart"}
        /\ view' \in {view, file} /\ file' = file
        /\ m_bDBUsable' => m_bDBUsable
    BY <1>4 DEF OpenDB, OpenDatabase, initUnchanged, threadVars, callVars,
       indexVars, rowVars
  <2>2. faults' = 0 => faults = 0
    BY <1>4, BoundsAssumption DEF OpenDB, TInv, TypeOK, DatabaseTypes
  <2>3. CalmRows
    BY <2>1 DEF CalmRows, Grows
  <2>4. OnTheWay' = {} /\ UNCHANGED OnTheWay
    BY <1>2, <2>1 DEF LinkInv, CallsInv, InInit
  <2>5. MapsInv'
    <3> SUFFICES ASSUME MapsCount' PROVE MapsInv'
      BY DEF MapsInv
    <3>1. MapsCount
      BY <2>1, <2>2 DEF MapsCount, InInit
    <3>2. ~ inTx
      BY <2>1, <3>1
      DEF TxInv, RoundIsTransaction, ShutdownInv, ThreadInv, InInit, MapsCount
    <3>3. view' = view
      BY <2>1, <3>2 DEF TxInv
    <3> QED
      BY <2>1, <3>1, <3>3 DEF LinkInv, MapsInv, HasChart, HasFeature
  <2> QED
    BY <1>1, <2>1, <2>2, <2>3, <2>4, <2>5 DEF InInit, InSVCOI
<1>5. ASSUME NEW table,
             IF m_bDBUsable THEN SelectFromDB(table)
                            ELSE UNCHANGED <<sqliteVars, m_bDBUsable, faults>>
      PROVE  /\ CalmRows
             /\ faults' = 0 => faults = 0 /\ Grows(view, view')
             /\ m_bDBUsable' => m_bDBUsable
             /\ m_db' = m_db
             /\ m_bDBUsable' => view' = view
  <2>1. CASE StatementFails(table \in schema)
    BY <2>1, StatementCalm DEF StatementFails
  <2>2. CASE UNCHANGED <<sqliteVars, m_bDBUsable, faults>>
    BY <2>2, StatementCalm DEF sqliteVars
  <2> QED
    BY <1>5, <2>1, <2>2 DEF SelectFromDB, QueryDB
<1>6. ASSUME CalmRows, m_db' = m_db, m_bDBUsable' => m_bDBUsable,
             faults' = 0 => faults = 0 /\ Grows(view, view'),
             UNCHANGED <<query, query_queue, calls, runs, m_chartLoading>>,
             mpc \in InInit, mpc' \in InInit, MapsInv'
      PROVE  LinkInv'
  <2>1. mpc' # "off" /\ mpc' \notin InSVCOI
    BY <1>6 DEF InInit, InSVCOI
  <2>2. UNCHANGED OnTheWay /\ OnTheWay = {}
    BY <1>2, <1>6 DEF LinkInv, CallsInv
  <2> QED
    BY <1>1, <1>6, <2>1, <2>2
<1>7. CASE CreateTables \/ FixOldObjects
  <2>1. /\ CalmRows /\ m_db' = m_db /\ (m_bDBUsable' => m_bDBUsable)
        /\ faults' = 0 => faults = 0 /\ Grows(view, view')
    BY <1>5, <1>7, StatementCalm
    DEF CreateTables, Create, FixOldObjects, QueryDB
  <2>2. /\ UNCHANGED <<query, query_queue, calls, runs, m_chartLoading,
                       m_chartsInDb, m_featuresInDb>>
        /\ mpc \in InInit /\ mpc' \in InInit
    BY <1>7 DEF CreateTables, Create, FixOldObjects, initUnchanged, threadVars,
       callVars, indexVars, InInit
  <2>3. MapsInv'
    <3>1. MapsCount' => MapsCount /\ Grows(view, view')
      BY <2>1, <2>2 DEF MapsCount
    <3>2. ~ HasChart' /\ ~ HasFeature'
      BY <2>2 DEF InInit, HasChart, HasFeature
    <3> QED
      BY <2>2, <3>1, <3>2 DEF LinkInv, MapsInv, Grows
  <2> QED
    BY <1>6, <2>1, <2>2, <2>3
<1>8. CASE LoadCharts \/ LoadFeatures
  <2>1. /\ CalmRows /\ m_db' = m_db /\ (m_bDBUsable' => m_bDBUsable)
        /\ faults' = 0 => faults = 0 /\ Grows(view, view')
        /\ m_bDBUsable' => view' = view
    BY <1>5, <1>8 DEF LoadCharts, LoadFeatures
  <2>2. /\ UNCHANGED <<query, query_queue, calls, runs, m_chartLoading>>
        /\ mpc \in InInit /\ mpc' \in InInit
    BY <1>8 DEF LoadCharts, LoadFeatures, threadVars, callVars, InInit
  <2>3. ASSUME NEW S, NEW s \in Seq(S), NEW n, IdIn(s, n) # 0
        PROVE  n \in NamesOf(s)
    BY <2>3 DEF IdIn, NamesOf
  <2>4. view.chart \in Seq(Names) /\ view.feature \in Seq(Features)
    BY DEF TInv, TypeOK, DatabaseTypes, AllRows
  <2>5. MapsInv'
    <3> SUFFICES ASSUME MapsCount' PROVE MapsInv'
      BY DEF MapsInv
    <3>1. MapsCount /\ m_bDBUsable' /\ view' = view
      BY <2>1, <2>2 DEF MapsCount
    <3>2. ~ HasChart' /\ ~ HasFeature'
      BY <2>2 DEF InInit, HasChart, HasFeature
    <3>3. CASE LoadCharts
      <4>1. /\ m_chartsInDb' = [n \in Names \union {NoName} |->
                                  IdIn(view.chart, n)]
            /\ UNCHANGED m_featuresInDb
        BY <3>1, <3>3 DEF LoadCharts
      <4>2. \A n \in Names : m_chartsInDb'[n] # 0 => n \in NamesOf(view.chart)
        BY <2>3, <2>4, <4>1
      <4> QED
        BY <3>1, <3>2, <4>1, <4>2 DEF LinkInv, MapsInv
    <3>4. CASE LoadFeatures
      <4>1. /\ m_featuresInDb' = [f \in Features |-> IdIn(view.feature, f)]
            /\ UNCHANGED m_chartsInDb
        BY <3>1, <3>4 DEF LoadFeatures
      <4>2. \A f \in Features :
              m_featuresInDb'[f] # 0 => f \in NamesOf(view.feature)
        BY <2>3, <2>4, <4>1
      <4> QED
        BY <3>1, <3>2, <4>1, <4>2 DEF LinkInv, MapsInv
    <3> QED
      BY <1>8, <3>3, <3>4
  <2> QED
    BY <1>6, <2>1, <2>2, <2>5
<1>9. CASE StartThread
  <2>1. /\ UNCHANGED <<query, query_queue, calls, runs, m_chartLoading,
                       m_chartsInDb, m_featuresInDb, view, file, m_db,
                       m_bDBUsable>>
        /\ mpc = "startThread" /\ mpc' = "idle"
    BY <1>9 DEF StartThread, sqliteVars, callVars, indexVars
  <2>2. faults' = 0 => faults = 0
    BY <1>9, BoundsAssumption DEF StartThread, TInv, TypeOK, DatabaseTypes
  <2>3. CalmRows /\ Grows(view, view')
    BY <2>1 DEF CalmRows, Grows
  <2>4. UNCHANGED OnTheWay
    BY <1>2, <2>1
  <2>5. MapsInv'
    BY <2>1, <2>2 DEF LinkInv, MapsInv, MapsCount, HasChart, HasFeature, InInit
  <2> QED
    BY <1>1, <2>1, <2>2, <2>3, <2>4, <2>5 DEF InInit, InSVCOI
<1>10. CASE \/ DeInit \/ AwaitWrite \/ LockThread \/ DeleteThread
            \/ AwaitGone \/ LastResort
  <2>1. UNCHANGED <<query, query_queue, calls, runs, m_chartLoading, view, file,
                    m_db, faults>>
    BY <1>10 DEF DeInit, AwaitWrite, LockThread, DeleteThread, AwaitGone,
       LastResort, deInitUnchanged, sqliteVars, threadVars, callVars, indexVars
  <2>2. mpc' \in InDeInit
    BY <1>10 DEF DeInit, AwaitWrite, LockThread, DeleteThread, AwaitGone,
       LastResort, InDeInit
  <2>3. CalmRows /\ Grows(view, view')
    BY <2>1 DEF CalmRows, Grows
  <2>4. UNCHANGED OnTheWay
    BY <1>2, <2>1
  <2>5. ~ MapsCount'
    BY <2>2 DEF MapsCount, InInit, InSVCOI, InDeInit
  <2>6. mpc' # "off" /\ mpc' \notin InSVCOI /\ mpc' \notin InInit
    BY <2>2 DEF InInit, InSVCOI, InDeInit
  <2> QED
    BY <1>1, <2>1, <2>3, <2>4, <2>5, <2>6 DEF MapsInv
<1>11. CASE ClearDB
  <2>1. /\ UNCHANGED <<query, query_queue, calls, runs, m_chartLoading, file,
                       faults>>
        /\ view' = file /\ m_db' = "deleted" /\ mpc' = "closed"
    BY <1>11 DEF ClearDB, Disconnect, deInitUnchanged, threadVars, callVars,
       indexVars
  <2>2. CalmRows
    BY <2>1 DEF CalmRows, Grows
  <2>3. UNCHANGED OnTheWay
    BY <1>2, <2>1
  <2>4. ~ MapsCount'
    BY <2>1 DEF MapsCount, InInit, InSVCOI
  <2> QED
    BY <1>1, <2>1, <2>2, <2>3, <2>4 DEF MapsInv, InInit, InSVCOI
<1>12. CASE Stopped
  BY <1>12, LinksStutter DEF Stopped
<1> QED
  BY <1>3, <1>4, <1>7, <1>8, <1>9, <1>10, <1>11, <1>12
  DEF LifecycleNext, InitStep, DeInitStep

(* Objects, rows and maps agree in every reachable state. *)
THEOREM LinkInvariant == Spec => []LinkInv
<1>1. Init => LinkInv
  <2> SUFFICES ASSUME Init PROVE LinkInv
    OBVIOUS
  <2>1. Everywhere = {} /\ OnTheWay = {}
    BY DEF Init, SqliteInit, NoRows, Everywhere, OnTheWay, NamesOf
  <2>2. NamesOf(view.object) = {} /\ NamesOf(file.object) = {} /\ mpc = "off"
    BY DEF Init, SqliteInit, NoRows, NamesOf
  <2> QED
    BY <2>1, <2>2
    DEF LinkInv, CallsInv, RowsInv, MapsInv, MapsCount, RunInv, InSVCOI, InInit
<1>2. TInv /\ ShutdownInv /\ TxInv /\ ChartsInv /\ LinkInv /\ [Next]_vars
        => LinkInv'
  BY ChartIndexerLinks, DbThreadLinks, LifecycleLinks, LinksStutter DEF Next
<1>3. Spec => []ChartsInv
  BY NamesInvariant, PTL
<1> QED
  BY <1>1, <1>2, <1>3, TypeInvariant, ShutdownInvariant, TransactionInvariant,
     PTL DEF Spec

(* Whatever is lost, an object never outlives the rows of its chart and of *)
(* its feature.                                                            *)
THEOREM RowsOutliveObjects == Spec => []ChartRowSurvivesWithObject
<1>1. LinkInv => ChartRowSurvivesWithObject
  BY DEF LinkInv, RowsInv, HasRows, NamesOf, ChartRowSurvivesWithObject
<1> QED
  BY <1>1, LinkInvariant, PTL

(* The objects of a chart name come from one run, for any number of runs,  *)
(* crashes and charts of one name.                                         *)
THEOREM ChartsAreIndexedOnce == Spec => []IndexedInOneRun
<1>1. LinkInv => IndexedInOneRun
  BY DEF LinkInv, RunInv, Everywhere, NamesOf, IndexedInOneRun
<1> QED
  BY <1>1, LinkInvariant, PTL
=============================================================================
