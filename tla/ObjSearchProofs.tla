-------------------------- MODULE ObjSearchProofs --------------------------
(***************************************************************************)
(* Proofs about ObjSearch for every set of charts and features and every   *)
(* number of calls, failing statements and runs.                           *)
(***************************************************************************)
EXTENDS ObjSearch, WellFoundedInduction, TLAPS

-----------------------------------------------------------------------------
(* The type invariant.  The current call exists while it is handled, and   *)
(* DbThread holds a statement when it executes one.                        *)
CurrentCall ==
  /\ mpc \in InSVCOI => Len(calls) > 0
  /\ tpc = "execute" => query \in Rows

TInv == TypeOK /\ CurrentCall

(* A statement that fails, and each statement that succeeds, leave a       *)
(* database of the right type.                                             *)
LEMMA FailureTypes ==
  ASSUME DatabaseTypes, NEW STATE legal, StatementFails(legal)
  PROVE  DatabaseTypes'
<1>1. faults' \in 0 .. MaxFaults
  BY BoundsAssumption DEF StatementFails, DatabaseTypes
<1>2. UNCHANGED sqliteVars \/ Rollback
  BY DEF StatementFails
<1>3. m_bDBUsable' = FALSE
  BY DEF StatementFails
<1>4. CASE UNCHANGED sqliteVars
  BY <1>1, <1>3, <1>4 DEF DatabaseTypes, sqliteVars
<1>5. CASE Rollback
  BY <1>1, <1>3, <1>5 DEF DatabaseTypes, Rollback
<1> QED
  BY <1>2, <1>4, <1>5

(* The last call is a call, of a chart with a name.                        *)
LEMMA CallTypes ==
  ASSUME IndexTypes, Len(calls) > 0
  PROVE  call \in Calls /\ callName \in Names
<1>1. call \in Calls
  BY DEF IndexTypes, call
<1> QED
  BY <1>1, PathsAssumption DEF callName, Calls

(* An INSERT, in or outside a transaction, leaves tables of their type.    *)
LEMMA InsertTypes ==
  ASSUME DatabaseTypes, UNCHANGED m_bDBUsable, UNCHANGED faults,
         NEW rows \in AllRows, NEW rowid \in Nat, Insert(rows, rowid)
  PROVE  DatabaseTypes'
  BY DEF Insert, DatabaseTypes

(* The INSERT of a chart.                                                  *)
LEMMA InsertChartTypes ==
  ASSUME DatabaseTypes, UNCHANGED m_bDBUsable, UNCHANGED faults,
         NEW n \in Names, InsertChart(n)
  PROVE  DatabaseTypes'
<1>1. view.chart \in Seq(Names)
  BY DEF DatabaseTypes, AllRows
<1>2. Append(view.chart, n) \in Seq(Names) /\ Len(view.chart) + 1 \in Nat
  BY <1>1
<1>3. [view EXCEPT !.chart = Append(view.chart, n)] \in AllRows
  BY <1>2 DEF DatabaseTypes, AllRows
<1> QED
  BY <1>2, <1>3, InsertTypes DEF InsertChart

(* The INSERT of a feature.                                                *)
LEMMA InsertFeatureTypes ==
  ASSUME DatabaseTypes, UNCHANGED m_bDBUsable, UNCHANGED faults,
         NEW f \in Features, InsertFeature(f)
  PROVE  DatabaseTypes'
<1>1. view.feature \in Seq(Features)
  BY DEF DatabaseTypes, AllRows
<1>2. Append(view.feature, f) \in Seq(Features) /\ Len(view.feature) + 1 \in Nat
  BY <1>1
<1>3. [view EXCEPT !.feature = Append(view.feature, f)] \in AllRows
  BY <1>2 DEF DatabaseTypes, AllRows
<1> QED
  BY <1>2, <1>3, InsertTypes DEF InsertFeature

(* The INSERT of an object.                                                *)
LEMMA InsertObjectTypes ==
  ASSUME DatabaseTypes, UNCHANGED m_bDBUsable, UNCHANGED faults,
         NEW row \in Rows, InsertObject(row)
  PROVE  DatabaseTypes'
<1>1. view.object \in Seq(Rows)
  BY DEF DatabaseTypes, AllRows
<1>2. Append(view.object, row) \in Seq(Rows) /\ Len(view.object) + 1 \in Nat
  BY <1>1
<1>3. [view EXCEPT !.object = Append(view.object, row)] \in AllRows
  BY <1>2 DEF DatabaseTypes, AllRows
<1> QED
  BY <1>2, <1>3, InsertTypes DEF InsertObject
(* The empty sequence is of every type.                                    *)
LEMMA EmptySequence == \A S : << >> \in Seq(S)
  OBVIOUS

(* A step that sends no statement.                                         *)
LEMMA DatabaseFrame ==
  ASSUME DatabaseTypes,
         UNCHANGED sqliteVars, UNCHANGED m_bDBUsable, UNCHANGED faults
  PROVE  DatabaseTypes'
  BY DEF DatabaseTypes, sqliteVars

(* SendVectorChartObjectInfo and searches keep the types. *)
LEMMA ChartIndexerTypes ==
  ASSUME TInv, ChartIndexerNext
  PROVE  TInv'
<1> USE DEF TInv, TypeOK, IndexTypes, ThreadTypes, CurrentCall, guiOnlyVars,
            indexVars, callVars, threadVars, csVars, InSVCOI, InInit, InDeInit,
            GuiAt
<1>1. CASE ReportCall
  <2>1. PICK p \in Paths, f \in Features, s \in BOOLEAN : Receive(p, f, s)
    BY <1>1 DEF ReportCall
  <2>2. [path |-> p, feature |-> f, storable |-> s, run |-> runs] \in Calls
    BY BoundsAssumption DEF Calls
  <2>3. calls' \in Seq(Calls) /\ Len(calls') > 0
    BY <2>1, <2>2 DEF Receive
  <2>4. DatabaseTypes'
    BY <2>1, DatabaseFrame DEF Receive
  <2> QED
    BY <2>1, <2>3, <2>4 DEF Receive
<1>2. CASE SearchFails
  <2>1. DatabaseTypes'
    <3>1. UNCHANGED sqliteVars /\ m_bDBUsable' = FALSE
      BY <1>2 DEF SearchFails
    <3>2. faults' \in 0 .. MaxFaults
      BY <1>2, BoundsAssumption DEF SearchFails, DatabaseTypes
    <3> QED
      BY <3>1, <3>2 DEF DatabaseTypes, sqliteVars
  <2> QED
    BY <1>2, <2>1 DEF SearchFails
<1>3. CASE LookupChart
  BY <1>3, DatabaseFrame, CallTypes DEF LookupChart
<1>4. CASE LookupFeature
  BY <1>4, DatabaseFrame, CallTypes DEF LookupFeature, Calls
<1>5. CASE NewChart
  <2>1. call.path \in Paths
    BY <1>5, CallTypes DEF NewChart, Calls
  <2>2. [m_chartsInDb EXCEPT ![NoName] = -1] \in [Names \union {NoName} -> Int]
    OBVIOUS
  <2>3. /\ m_chartsInDb' \in [Names \union {NoName} -> Int]
        /\ m_chartLoading' \in Paths \union {NoPath}
        /\ m_bWaitForDB' \in BOOLEAN
        /\ mpc' \in InSVCOI
    BY <1>5, <2>1, <2>2 DEF NewChart, ChartIsLoading, AfterChart
  <2> QED
    BY <1>5, <2>3, DatabaseFrame DEF NewChart
<1>6. CASE InsertNewChart
  <2>1. callName \in Names
    BY <1>6, CallTypes DEF InsertNewChart
  <2>2. DatabaseTypes'
    BY <1>6, <2>1, FailureTypes, InsertChartTypes DEF InsertNewChart, QueryDB
  <2> QED
    BY <1>6, <2>2 DEF InsertNewChart
<1>7. CASE ChartRowId
  <2>1. callName \in Names /\ lastRow \in Int
    BY <1>7, CallTypes DEF ChartRowId, DatabaseTypes
  <2>2. m_chartsInDb' \in [Names \union {NoName} -> Int]
    BY <1>7, <2>1 DEF ChartRowId, RememberChart
  <2>4. DatabaseTypes'
    BY <1>7, DatabaseFrame DEF ChartRowId
  <2>5. IndexTypes'
    BY <1>7, <2>2 DEF ChartRowId, AfterChart
  <2>6. ThreadTypes' /\ CurrentCall'
    BY <1>7 DEF ChartRowId, AfterChart
  <2> QED
    BY <2>4, <2>5, <2>6
<1>8. CASE NewFeature
  <2>1. m_featuresInDb' \in [Features -> Int] /\ feature_id' \in Int
    BY <1>8 DEF NewFeature
  <2>4. DatabaseTypes'
    BY <1>8, DatabaseFrame DEF NewFeature
  <2>5. IndexTypes'
    BY <1>8, <2>1 DEF NewFeature
  <2>6. ThreadTypes' /\ CurrentCall'
    BY <1>8 DEF NewFeature
  <2> QED
    BY <2>4, <2>5, <2>6
<1>9. CASE InsertNewFeature
  <2>1. call.feature \in Features
    BY <1>9, CallTypes DEF InsertNewFeature, Calls
  <2>2. DatabaseTypes'
    BY <1>9, <2>1, FailureTypes, InsertFeatureTypes DEF InsertNewFeature, QueryDB
  <2> QED
    BY <1>9, <2>2 DEF InsertNewFeature
<1>10. CASE FeatureRowId
  <2>1. call.feature \in Features /\ lastRow \in Int
    BY <1>10, CallTypes DEF FeatureRowId, DatabaseTypes, Calls
  <2>2. m_featuresInDb' \in [Features -> Int]
    BY <1>10, <2>1 DEF FeatureRowId
  <2>4. DatabaseTypes'
    BY <1>10, DatabaseFrame DEF FeatureRowId
  <2>5. IndexTypes'
    BY <1>10, <2>1, <2>2 DEF FeatureRowId
  <2>6. ThreadTypes' /\ CurrentCall'
    BY <1>10 DEF FeatureRowId
  <2> QED
    BY <2>4, <2>5, <2>6
<1>11. CASE StoreNewObject
  <2>1. [chart |-> chart_id, feature |-> feature_id, obj |-> Len(calls)] \in Rows
    BY <1>11 DEF StoreNewObject, Rows
  <2>2. query_queue' \in Seq(Rows)
    <3>1. CASE Queues
      <4>1. query_queue' = Append(query_queue,
              [chart |-> chart_id, feature |-> feature_id, obj |-> Len(calls)])
        BY <1>11, <3>1 DEF StoreNewObject
      <4>2. query_queue \in Seq(Rows)
        OBVIOUS
      <4> QED
        BY <2>1, <4>1, <4>2 DEF Rows
    <3>2. CASE ~ Queues
      BY <1>11, <3>2 DEF StoreNewObject
    <3> QED
      BY <3>1, <3>2
  <2> QED
    BY <1>11, <2>2, DatabaseFrame DEF StoreNewObject
<1> QED
  BY <1>1, <1>2, <1>3, <1>4, <1>5, <1>6, <1>7, <1>8, <1>9, <1>10, <1>11
  DEF ChartIndexerNext, ChartIndexerStep

(* DbThread keeps the types. *)
LEMMA DbThreadTypes ==
  ASSUME TInv, DbThreadNext
  PROVE  TInv'
<1> USE DEF TInv, TypeOK, IndexTypes, ThreadTypes, CurrentCall, guiVars,
            indexVars, callVars, InSVCOI, InInit, InDeInit, ThreadAt
<1>1. CASE ThreadStarts
  BY <1>1, DatabaseFrame DEF ThreadStarts
<1>2. CASE TestDestroy
  BY <1>2, DatabaseFrame DEF TestDestroy
<1>3. CASE Begin
  <2>1. DatabaseTypes'
    <3>1. CASE StatementFails(~ inTx)
      BY <3>1, FailureTypes
    <3>2. CASE BeginTransaction /\ UNCHANGED <<m_bDBUsable, faults>>
      BY <3>2 DEF BeginTransaction, DatabaseTypes
    <3> QED
      BY <1>3, <3>1, <3>2 DEF Begin, QueryDB
  <2> QED
    BY <1>3, <2>1 DEF Begin
<1>4. CASE MarkWriting
  BY <1>4, DatabaseFrame DEF MarkWriting
<1>5. CASE TakeQuery
  <2>1. Head(query_queue) \in Rows /\ Tail(query_queue) \in Seq(Rows)
    BY <1>5 DEF TakeQuery
  <2> QED
    BY <1>5, <2>1, DatabaseFrame DEF TakeQuery, GetQuery
<1>6. CASE ExecuteQuery
  <2>1. query \in Rows
    BY <1>6 DEF ExecuteQuery
  <2>2. DatabaseTypes'
    BY <1>6, <2>1, FailureTypes, InsertObjectTypes DEF ExecuteQuery, QueryDB
  <2> QED
    BY <1>6, <2>2 DEF ExecuteQuery
<1>7. CASE QueueEmpty
  BY <1>7, DatabaseFrame DEF QueueEmpty, AfterDrain
<1>8. CASE Commit
  <2>1. DatabaseTypes'
    <3>1. CASE StatementFails(inTx)
      BY <3>1, FailureTypes
    <3>2. CASE CommitTransaction /\ UNCHANGED <<m_bDBUsable, faults>>
      BY <3>2 DEF CommitTransaction, DatabaseTypes
    <3> QED
      BY <1>8, <3>1, <3>2 DEF Commit, QueryDB
  <2> QED
    BY <1>8, <2>1 DEF Commit
<1>9. CASE UnmarkWriting
  <2>1. DatabaseTypes'
    BY <1>9, DatabaseFrame DEF UnmarkWriting
  <2>2. IndexTypes' /\ CurrentCall'
    BY <1>9 DEF UnmarkWriting
  <2>3. ThreadTypes'
    BY <1>9 DEF UnmarkWriting
  <2> QED
    BY <2>1, <2>2, <2>3
<1>10. CASE WakeUp
  BY <1>10, DatabaseFrame DEF WakeUp
<1>11. CASE DestroyThread
  <2>1. DatabaseTypes'
    BY <1>11, DatabaseFrame DEF DestroyThread
  <2>2. IndexTypes' /\ CurrentCall'
    BY <1>11 DEF DestroyThread
  <2>3. ThreadTypes'
    BY <1>11 DEF DestroyThread
  <2> QED
    BY <2>1, <2>2, <2>3
<1>12. CASE ThreadGone
  <2>1. DatabaseTypes'
    BY <1>12, DatabaseFrame DEF ThreadGone
  <2>2. IndexTypes' /\ CurrentCall'
    BY <1>12 DEF ThreadGone
  <2>3. ThreadTypes'
    BY <1>12 DEF ThreadGone
  <2> QED
    BY <2>1, <2>2, <2>3
<1> QED
  BY <1>1, <1>2, <1>3, <1>4, <1>5, <1>6, <1>7, <1>8, <1>9, <1>10, <1>11, <1>12
  DEF DbThreadNext

(* A nonempty set of numbers up to n has a largest element. *)
LEMMA LargestElement ==
  ASSUME NEW n \in Nat, NEW ids \in SUBSET (1 .. n), ids # {}
  PROVE  \E l \in ids : \A j \in ids : j <= l
<1> DEFINE gaps == {k \in Nat : n - k \in ids}
<1>1. PICK i \in ids : TRUE
  OBVIOUS
<1>2. n - i \in gaps
  BY <1>1
<1>3. gaps \subseteq Nat /\ gaps # {}
  BY <1>2
<1>4. PICK k \in gaps : \A m \in gaps : k <= m
  <2> DEFINE less == OpToRel(<, Nat)
  <2> HIDE DEF gaps
  <2>1. \E k \in gaps : \A m \in gaps : ~ (<<m, k>> \in less)
    BY <1>3, WFMin, NatLessThanWellFounded
  <2>2. \A m, k \in Nat : <<m, k>> \in less <=> m < k
    BY DEF OpToRel
  <2> HIDE DEF less
  <2>3. \A m, k \in gaps : ~ (<<m, k>> \in less) => k <= m
    BY <2>2, <1>3
  <2> QED
    BY <2>1, <2>3
<1>5. \A j \in ids : n - j \in gaps
  OBVIOUS
<1> QED
  BY <1>4, <1>5

(* A table gives a number to every name, and 0 only to a name without row. *)
LEMMA IdInType ==
  ASSUME NEW S, NEW rows \in Seq(S), NEW name
  PROVE  /\ IdIn(rows, name) \in Nat
         /\ name \in NamesOf(rows) => IdIn(rows, name) # 0
<1> DEFINE ids == {i \in DOMAIN rows : rows[i] = name}
<1>1. Len(rows) \in Nat /\ ids \in SUBSET (1 .. Len(rows))
  OBVIOUS
<1>2. CASE ids = {}
  BY <1>2 DEF IdIn, NamesOf
<1>3. CASE ids # {}
  <2>1. \E l \in ids : \A j \in ids : j <= l
    BY <1>1, <1>3, LargestElement
  <2>2. (CHOOSE l \in ids : \A j \in ids : j <= l) \in ids
    BY <2>1
  <2>3. IdIn(rows, name) = CHOOSE l \in ids : \A j \in ids : j <= l
    BY <1>3 DEF IdIn
  <2>4. IdIn(rows, name) \in 1 .. Len(rows)
    BY <1>1, <2>2, <2>3
  <2> QED
    BY <1>1, <2>4
<1> QED
  BY <1>2, <1>3

(* A SELECT, or no statement at all, keeps the types. *)
LEMMA SelectTypes ==
  ASSUME DatabaseTypes, NEW table,
         IF m_bDBUsable THEN SelectFromDB(table)
                        ELSE UNCHANGED <<sqliteVars, m_bDBUsable, faults>>
  PROVE  DatabaseTypes'
<1>1. CASE StatementFails(table \in schema)
  BY <1>1, FailureTypes
<1>2. CASE ~ StatementFails(table \in schema)
  <2>1. UNCHANGED sqliteVars /\ UNCHANGED m_bDBUsable /\ UNCHANGED faults
    BY <1>2 DEF SelectFromDB, QueryDB
  <2> QED
    BY <2>1, DatabaseFrame
<1> QED
  BY <1>1, <1>2

(* Closing the connection, by DeInit or the end of the process.            *)
LEMMA DisconnectTypes ==
  ASSUME DatabaseTypes, NEW state \in {"none", "deleted"}, Disconnect(state),
         m_bDBUsable' \in BOOLEAN, UNCHANGED faults
  PROVE  DatabaseTypes'
  BY DEF Disconnect, DatabaseTypes

(* The members of a new plugin.                                            *)
LEMMA ConstructedTypes ==
  ASSUME TInv, Constructed, UNCHANGED calls,
         mpc' \in {"off", "open"}, runs' \in 0 .. MaxRuns
  PROVE  IndexTypes' /\ ThreadTypes' /\ CurrentCall' /\ m_bDBUsable' \in BOOLEAN
<1>1. m_chartsInDb' \in [Names \union {NoName} -> Int]
  BY DEF Constructed, EmptyChartMap
<1>2. m_featuresInDb' \in [Features -> Int]
  BY DEF Constructed, EmptyFeatureMap
<1>3. IndexTypes'
  BY <1>1, <1>2 DEF Constructed, TInv, TypeOK, IndexTypes, InInit
<1>4. ThreadTypes'
  BY EmptySequence DEF Constructed, ThreadTypes
<1>5. CurrentCall'
  BY DEF Constructed, CurrentCall, InSVCOI
<1> QED
  BY <1>3, <1>4, <1>5 DEF Constructed

(* Init, DeInit, the end of a run and a crash keep the types. *)
LEMMA LifecycleTypes ==
  ASSUME TInv, LifecycleNext
  PROVE  TInv'
<1> USE DEF TInv, TypeOK
<1>1. CASE Load
  <2>1. runs' \in 0 .. MaxRuns
    BY <1>1, BoundsAssumption DEF Load, IndexTypes
  <2>2. IndexTypes' /\ ThreadTypes' /\ CurrentCall' /\ m_bDBUsable' \in BOOLEAN
    BY <1>1, <2>1, ConstructedTypes DEF Load, InitGoes
  <2>3. DatabaseTypes'
    BY <1>1, <2>2 DEF Load, DatabaseTypes, sqliteVars
  <2> QED
    BY <2>2, <2>3
<1>2. CASE OpenDB
  <2>1. DatabaseTypes'
    <3>1. CASE OpenDatabase /\ UNCHANGED <<m_bDBUsable, faults>>
      BY <3>1 DEF OpenDatabase, DatabaseTypes
    <3>2. CASE ~ (OpenDatabase /\ UNCHANGED <<m_bDBUsable, faults>>)
      <4>1. /\ m_db' = "unopened"
            /\ m_bDBUsable' = FALSE
            /\ UNCHANGED <<fileExists, schema>>
            /\ UNCHANGED <<file, view, inTx, lastRow>>
        BY <1>2, <3>2 DEF OpenDB, rowVars
      <4>2. faults' \in 0 .. MaxFaults
        BY <1>2, <3>2, BoundsAssumption DEF OpenDB, DatabaseTypes
      <4> QED
        BY <4>1, <4>2 DEF DatabaseTypes
    <3> QED
      BY <3>1, <3>2
  <2>2. IndexTypes' /\ ThreadTypes' /\ CurrentCall'
    BY <1>2 DEF OpenDB, initUnchanged, indexVars, callVars, threadVars, csVars,
       IndexTypes, ThreadTypes, CurrentCall, InSVCOI, InInit
  <2> QED
    BY <2>1, <2>2
<1>3. CASE CreateTables
  <2>1. PICK here \in InInit, table \in Tables, there \in InInit :
          Create(here, table, there)
    BY <1>3 DEF CreateTables, InInit, Tables
  <2>2. DatabaseTypes'
    <3>1. CASE StatementFails(table \notin schema)
      BY <3>1, FailureTypes
    <3>2. CASE CreateTable(table) /\ UNCHANGED <<m_bDBUsable, faults>>
      BY <3>2 DEF CreateTable, DatabaseTypes
    <3> QED
      BY <2>1, <3>1, <3>2 DEF Create, QueryDB
  <2>3. IndexTypes' /\ ThreadTypes' /\ CurrentCall'
    BY <2>1 DEF Create, InitGoes, initUnchanged, indexVars, callVars,
       threadVars, csVars, IndexTypes, ThreadTypes, CurrentCall, InSVCOI, InInit
  <2> QED
    BY <2>2, <2>3
<1>4. CASE FixOldObjects
  <2>1. DatabaseTypes'
    BY <1>4, SelectTypes DEF FixOldObjects
  <2>2. IndexTypes' /\ ThreadTypes' /\ CurrentCall'
    BY <1>4 DEF FixOldObjects, InitGoes, initUnchanged, indexVars, callVars,
       threadVars, csVars, IndexTypes, ThreadTypes, CurrentCall, InSVCOI, InInit
  <2> QED
    BY <2>1, <2>2
<1>5. CASE LoadCharts
  <2>1. DatabaseTypes'
    BY <1>5, SelectTypes DEF LoadCharts
  <2>2. \A n : IdIn(view.chart, n) \in Int
    BY IdInType DEF DatabaseTypes, AllRows
  <2>3. m_chartsInDb' \in [Names \union {NoName} -> Int]
    BY <1>5, <2>2 DEF LoadCharts, IndexTypes
  <2>4. IndexTypes' /\ ThreadTypes' /\ CurrentCall'
    BY <1>5, <2>3 DEF LoadCharts, InitGoes, callVars, threadVars, csVars,
       IndexTypes, ThreadTypes, CurrentCall, InSVCOI, InInit
  <2> QED
    BY <2>1, <2>4
<1>6. CASE LoadFeatures
  <2>1. DatabaseTypes'
    BY <1>6, SelectTypes DEF LoadFeatures
  <2>2. \A n : IdIn(view.feature, n) \in Int
    BY IdInType DEF DatabaseTypes, AllRows
  <2>3. m_featuresInDb' \in [Features -> Int]
    BY <1>6, <2>2 DEF LoadFeatures, IndexTypes
  <2>4. IndexTypes' /\ ThreadTypes' /\ CurrentCall'
    BY <1>6, <2>3 DEF LoadFeatures, InitGoes, callVars, threadVars, csVars,
       IndexTypes, ThreadTypes, CurrentCall, InSVCOI, InInit
  <2> QED
    BY <2>1, <2>4
<1>7. CASE StartThread
  <2>1. faults' \in 0 .. MaxFaults
    BY <1>7, BoundsAssumption DEF StartThread, DatabaseTypes
  <2>2. DatabaseTypes'
    BY <1>7, <2>1 DEF StartThread, DatabaseTypes, sqliteVars
  <2>3. IndexTypes'
    BY <1>7 DEF StartThread, InitGoes, indexVars, callVars, IndexTypes
  <2>4. ThreadTypes'
    BY <1>7 DEF StartThread, csVars, ThreadTypes
  <2>5. CurrentCall'
    BY <1>7 DEF StartThread, InitGoes, CurrentCall, InSVCOI
  <2> QED
    BY <2>2, <2>3, <2>4, <2>5
<1>8. CASE DeInit \/ LockThread \/ AwaitWrite \/ DeleteThread \/ AwaitGone
           \/ LastResort
  <2>1. DatabaseTypes'
    BY <1>8, DatabaseFrame
    DEF DeInit, LockThread, AwaitWrite, DeleteThread, AwaitGone, LastResort,
        deInitUnchanged
  <2>2. IndexTypes' /\ CurrentCall'
    BY <1>8
    DEF DeInit, LockThread, AwaitWrite, DeleteThread, AwaitGone, LastResort,
        deInitUnchanged, InitGoes, indexVars, callVars, threadVars,
        IndexTypes, CurrentCall, InSVCOI, InDeInit
  <2>3. ThreadTypes'
    BY <1>8
    DEF DeInit, LockThread, AwaitWrite, DeleteThread, RequestDelete, AwaitGone,
        LastResort, deInitUnchanged, threadVars, csVars, ThreadTypes
  <2> QED
    BY <2>1, <2>2, <2>3
<1>9. CASE ClearDB
  <2>1. DatabaseTypes'
    BY <1>9, DisconnectTypes DEF ClearDB, deInitUnchanged, DatabaseTypes
  <2>2. IndexTypes' /\ ThreadTypes' /\ CurrentCall'
    BY <1>9 DEF ClearDB, InitGoes, deInitUnchanged, indexVars, callVars,
       threadVars, csVars, IndexTypes, ThreadTypes, CurrentCall, InSVCOI
  <2> QED
    BY <2>1, <2>2
<1>10. CASE Unload \/ Crash
  <2>1. GoesOff
    BY <1>10 DEF Unload, Crash
  <2>2. IndexTypes' /\ ThreadTypes' /\ CurrentCall' /\ m_bDBUsable' \in BOOLEAN
    BY <2>1, ConstructedTypes DEF GoesOff, IndexTypes
  <2>3. DatabaseTypes'
    BY <2>1, <2>2, DisconnectTypes DEF GoesOff
  <2> QED
    BY <2>2, <2>3
<1>11. CASE Stopped
  <2>1. DatabaseTypes'
    BY <1>11, DatabaseFrame DEF Stopped, vars
  <2>2. IndexTypes' /\ ThreadTypes' /\ CurrentCall'
    BY <1>11 DEF Stopped, vars, indexVars, callVars, threadVars, csVars,
       IndexTypes, ThreadTypes, CurrentCall
  <2> QED
    BY <2>1, <2>2
<1> QED
  BY <1>1, <1>2, <1>3, <1>4, <1>5, <1>6, <1>7, <1>8, <1>9, <1>10, <1>11
  DEF LifecycleNext, InitStep, DeInitStep

(* The current call and the statement DbThread holds are there where they  *)
(* are used.                                                               *)
THEOREM TypeInvariant == Spec => []TInv
<1>1. Init => TInv
  <2> SUFFICES ASSUME Init PROVE TInv
    OBVIOUS
  <2>1. DatabaseTypes
    <3>1. NoRows \in AllRows
      BY EmptySequence DEF NoRows, AllRows
    <3>2. faults \in 0 .. MaxFaults
      BY BoundsAssumption DEF Init
    <3>3. schema \in SUBSET Tables
      BY DEF Init, SqliteInit
    <3> QED
      BY <3>1, <3>2, <3>3 DEF Init, SqliteInit, DatabaseTypes
  <2>2. IndexTypes
    BY BoundsAssumption
    DEF Init, IndexTypes, EmptyChartMap, EmptyFeatureMap
  <2>3. ThreadTypes /\ CurrentCall
    BY EmptySequence DEF Init, ThreadTypes, CurrentCall, InSVCOI
  <2> QED
    BY <2>1, <2>2, <2>3 DEF TInv, TypeOK
<1>2. TInv /\ [Next]_vars => TInv'
  <2> SUFFICES ASSUME TInv, [Next]_vars PROVE TInv'
    OBVIOUS
  <2>1. CASE Next
    BY <2>1, ChartIndexerTypes, DbThreadTypes, LifecycleTypes DEF Next
  <2>2. CASE UNCHANGED vars
    <3>1. DatabaseTypes'
      BY <2>2, DatabaseFrame DEF vars, TInv, TypeOK
    <3>2. IndexTypes' /\ ThreadTypes' /\ CurrentCall'
      BY <2>2 DEF vars, indexVars, callVars, threadVars, csVars,
         TInv, TypeOK, IndexTypes, ThreadTypes, CurrentCall
    <3> QED
      BY <3>1, <3>2 DEF TInv, TypeOK
  <2> QED
    BY <2>1, <2>2
<1> QED
  BY <1>1, <1>2, PTL DEF Spec

(* Every variable always has its type. *)
THEOREM TypeCorrect == Spec => []TypeOK
<1>1. TInv => TypeOK
  BY DEF TInv
<1> QED
  BY <1>1, TypeInvariant, PTL
=============================================================================
