----------------------------- MODULE OrderProofs -----------------------------
(***************************************************************************)
(* Proofs about the objects in the pipeline: it implements WriteBehind,    *)
(* and objects are stored in the order in which they were reported.        *)
(***************************************************************************)
EXTENDS ShutdownProofs, SequenceTheorems

-----------------------------------------------------------------------------
(* Sequences of numbers and of rows *)

Increasing(s) == \A i, j \in DOMAIN s : i < j => s[i] < s[j]
AllBelow(s, n) == \A i \in DOMAIN s : s[i] < n
Before(s, t) == \A i \in DOMAIN s, j \in DOMAIN t : s[i] < t[j]

(* s and d are in order, w is in order and behind both, and n behind all. *)
Ordered(s, d, w, n) ==
  /\ \A r \in {s, d} : Increasing(r) /\ AllBelow(r, n) /\ Before(r, w)
  /\ Increasing(w) /\ AllBelow(w, n)

(* The numbers of rows are as many natural numbers.                        *)
LEMMA NumbersType ==
  ASSUME NEW s \in Seq(Rows)
  PROVE  /\ Numbers(s) \in Seq(Nat)
         /\ Len(Numbers(s)) = Len(s)
         /\ \A i \in 1 .. Len(s) : Numbers(s)[i] = s[i].obj
<1>1. Len(s) \in Nat /\ DOMAIN s = 1 .. Len(s)
  OBVIOUS
<1>2. \A i \in 1 .. Len(s) : s[i].obj \in Nat
  <2>1. \A i \in 1 .. Len(s) : s[i] \in Rows
    BY ElementOfSeq
  <2>2. \A r \in Rows : r.obj \in Nat
    BY DEF Rows
  <2> QED
    BY <2>1, <2>2
<1>3. Numbers(s) = [i \in 1 .. Len(s) |-> s[i].obj]
  BY <1>1 DEF Numbers
<1>4. Numbers(s) \in [1 .. Len(s) -> Nat]
  BY <1>2, <1>3
<1>5. Numbers(s) \in Seq(Nat) /\ Len(Numbers(s)) = Len(s)
  BY <1>1, <1>4
<1> QED
  BY <1>3, <1>5

(* The numbers of a queue that a statement is pushed on.                   *)
LEMMA NumbersAppend ==
  ASSUME NEW s \in Seq(Rows), NEW r \in Rows
  PROVE  Numbers(Append(s, r)) = Append(Numbers(s), r.obj)
<1> DEFINE a == Numbers(Append(s, r))
           b == Append(Numbers(s), r.obj)
<1>1. r.obj \in Nat
  BY DEF Rows
<1>2. /\ Append(s, r) \in Seq(Rows)
      /\ Len(Append(s, r)) = Len(s) + 1
      /\ \A i \in 1 .. Len(s) : Append(s, r)[i] = s[i]
      /\ Append(s, r)[Len(s) + 1] = r
      /\ Len(s) \in Nat
  BY AppendProperties, LenProperties
<1>3. /\ a \in Seq(Nat)
      /\ Len(a) = Len(s) + 1
      /\ \A i \in 1 .. Len(s) + 1 : a[i] = Append(s, r)[i].obj
  BY <1>2, NumbersType
<1>4. /\ Numbers(s) \in Seq(Nat)
      /\ Len(Numbers(s)) = Len(s)
      /\ \A i \in 1 .. Len(s) : Numbers(s)[i] = s[i].obj
  BY NumbersType
<1>5. /\ b \in Seq(Nat)
      /\ Len(b) = Len(s) + 1
      /\ \A i \in 1 .. Len(s) : b[i] = s[i].obj
      /\ b[Len(s) + 1] = r.obj
  BY <1>1, <1>4, AppendProperties
<1>6. \A i \in 1 .. Len(s) + 1 : i \in 1 .. Len(s) \/ i = Len(s) + 1
  BY <1>2
<1> HIDE DEF a, b
<1>7. \A i \in 1 .. Len(a) : a[i] = b[i]
  BY <1>2, <1>3, <1>5, <1>6
<1>8. a = b
  BY <1>3, <1>5, <1>7, SeqEqual
<1> QED
  BY <1>8 DEF a, b

(* The numbers of a queue whose first statement is popped.                 *)
LEMMA NumbersHeadTail ==
  ASSUME NEW s \in Seq(Rows), s # <<>>
  PROVE  Numbers(s) = <<Head(s).obj>> \o Numbers(Tail(s))
<1> DEFINE a == Numbers(s)
           t == Numbers(Tail(s))
           h == <<Head(s).obj>>
<1>8. Head(s) = s[1]
  OBVIOUS
<1>1. /\ Len(s) \in Nat \ {0}
      /\ Head(s) \in Rows
      /\ Tail(s) \in Seq(Rows)
      /\ Len(Tail(s)) = Len(s) - 1
      /\ \A i \in 1 .. Len(s) - 1 : Tail(s)[i] = s[i + 1]
  <2>1. Len(s) \in Nat \ {0}
    BY EmptySeq
  <2> QED
    BY <2>1, HeadTailProperties
<1>2. /\ a \in Seq(Nat) /\ Len(a) = Len(s)
      /\ \A i \in 1 .. Len(s) : a[i] = s[i].obj
  BY NumbersType
<1>3. /\ t \in Seq(Nat) /\ Len(t) = Len(s) - 1
      /\ \A i \in 1 .. Len(s) - 1 : t[i] = Tail(s)[i].obj
  BY <1>1, NumbersType
<1>4. h \in Seq(Nat) /\ Len(h) = 1 /\ h[1] = s[1].obj
  BY <1>8, <1>1 DEF Rows
<1> HIDE DEF a, t, h
<1>5. /\ h \o t \in Seq(Nat)
      /\ Len(h \o t) = Len(s)
      /\ \A i \in 1 .. Len(s) : (h \o t)[i] = IF i <= 1 THEN h[i] ELSE t[i - 1]
  <2>1. Len(h) + Len(t) = Len(s)
    BY <1>1, <1>3, <1>4
  <2>2. /\ h \o t \in Seq(Nat)
        /\ Len(h \o t) = Len(h) + Len(t)
        /\ \A i \in 1 .. Len(h) + Len(t) :
             (h \o t)[i] = IF i <= Len(h) THEN h[i] ELSE t[i - Len(h)]
    BY <1>3, <1>4, ConcatProperties
  <2> QED
    BY <1>4, <2>1, <2>2
<1>6. \A i \in 1 .. Len(s) : (h \o t)[i] = a[i]
  <2> SUFFICES ASSUME NEW i \in 1 .. Len(s)
               PROVE  (h \o t)[i] = a[i]
    OBVIOUS
  <2>1. CASE i = 1
    <3>1. (h \o t)[i] = IF i <= 1 THEN h[i] ELSE t[i - 1]
      BY <1>5
    <3>2. i <= 1
      BY <2>1
    <3> QED
      BY <1>2, <1>4, <2>1, <3>1, <3>2
  <2>2. CASE i # 1
    <3>1. i - 1 \in 1 .. Len(s) - 1 /\ (i - 1) + 1 = i /\ ~ (i <= 1)
      BY <1>1, <2>2
    <3>2. t[i - 1] = Tail(s)[i - 1].obj /\ Tail(s)[i - 1] = s[i]
      BY <1>1, <1>3, <3>1
    <3> QED
      BY <1>2, <1>5, <3>1, <3>2
  <2> QED
    BY <2>1, <2>2
<1>7. a = h \o t
  BY <1>2, <1>5, <1>6, SeqEqual
<1> QED
  BY <1>7 DEF a, t, h

(* Appending to the second of two parts.                                   *)
LEMMA ConcatAppend ==
  ASSUME NEW s \in Seq(Nat), NEW t \in Seq(Nat), NEW n \in Nat
  PROVE  s \o Append(t, n) = Append(s \o t, n)
<1>1. <<n>> \in Seq(Nat)
  OBVIOUS
<1>2. Append(t, n) = t \o <<n>>
  BY AppendIsConcat
<1>3. s \o t \in Seq(Nat)
  BY ConcatProperties
<1>4. Append(s \o t, n) = (s \o t) \o <<n>>
  BY <1>3, AppendIsConcat
<1>5. (s \o t) \o <<n>> = s \o (t \o <<n>>)
  BY <1>1, ConcatAssociative
<1> QED
  BY <1>2, <1>4, <1>5

(* One number in front of a sequence *)
LEMMA FirstOfConcat ==
  ASSUME NEW n \in Nat, NEW t \in Seq(Nat)
  PROVE  /\ <<n>> \o t \in Seq(Nat)
         /\ <<n>> \o t # <<>>
         /\ Head(<<n>> \o t) = n
         /\ Tail(<<n>> \o t) = t
<1> DEFINE c == <<n>> \o t
<1>1. /\ <<n>> \in Seq(Nat) /\ Len(<<n>>) = 1 /\ <<n>>[1] = n /\ Len(t) \in Nat
  OBVIOUS
<1>2. /\ c \in Seq(Nat) /\ Len(c) = 1 + Len(t)
      /\ \A i \in 1 .. 1 + Len(t) : c[i] = IF i <= 1 THEN <<n>>[i] ELSE t[i - 1]
  BY <1>1, ConcatProperties
<1>3. c # <<>> /\ c[1] = n
  BY <1>1, <1>2
<1> HIDE DEF c
<1>7. Head(c) = c[1]
  BY <1>2, <1>3
<1>4. /\ Head(c) = n
      /\ Tail(c) \in Seq(Nat) /\ Len(Tail(c)) = Len(t)
      /\ \A i \in 1 .. Len(t) : Tail(c)[i] = c[i + 1]
  <2>1. Len(c) - 1 = Len(t)
    BY <1>1, <1>2
  <2> QED
    BY <1>2, <1>3, <1>7, <2>1, HeadTailProperties
<1>5. \A i \in 1 .. Len(t) : Tail(c)[i] = t[i]
  <2> SUFFICES ASSUME NEW i \in 1 .. Len(t)
               PROVE  Tail(c)[i] = t[i]
    OBVIOUS
  <2>1. i + 1 \in 1 .. 1 + Len(t) /\ ~ (i + 1 <= 1) /\ (i + 1) - 1 = i
    BY <1>1
  <2> QED
    BY <1>2, <1>4, <2>1
<1>6. Tail(c) = t
  BY <1>4, <1>5, SeqEqual
<1> QED
  BY <1>2, <1>3, <1>4, <1>6 DEF c

-----------------------------------------------------------------------------
(* The pipeline as WriteBehind sees it *)
Written == Numbers(view.object)
Durable == Numbers(file.object)
Waiting == Popped \o Numbers(query_queue)

(* No object in the pipeline has this number or a greater one.             *)
Number == IF mpc \in InSVCOI THEN Len(calls) ELSE Len(calls) + 1

OrderInv ==
  /\ query # NoQuery => tpc = "execute"
  /\ Ordered(Written, Durable, Waiting, Number)

(* What the refinement mapping is made of.                                 *)
LEMMA PipelineTypes ==
  ASSUME TInv
  PROVE  /\ view.object \in Seq(Rows) /\ file.object \in Seq(Rows)
         /\ query_queue \in Seq(Rows)
         /\ Written \in Seq(Nat) /\ Durable \in Seq(Nat)
         /\ Numbers(query_queue) \in Seq(Nat)
         /\ Popped \in Seq(Nat) /\ Waiting \in Seq(Nat)
         /\ Len(calls) \in Nat
<1>1. /\ view.object \in Seq(Rows) /\ file.object \in Seq(Rows)
      /\ query_queue \in Seq(Rows)
      /\ query \in Rows \union {NoQuery}
      /\ Len(calls) \in Nat
  BY DEF TInv, TypeOK, DatabaseTypes, IndexTypes, ThreadTypes, AllRows
<1>2. /\ Written \in Seq(Nat) /\ Durable \in Seq(Nat)
      /\ Numbers(query_queue) \in Seq(Nat)
  BY <1>1, NumbersType DEF Written, Durable
<1>3. Popped \in Seq(Nat)
  <2>1. \A r \in Rows : r.obj \in Nat
    BY DEF Rows
  <2> QED
    BY <1>1, <2>1 DEF Popped
<1>4. Waiting \in Seq(Nat)
  BY <1>2, <1>3, ConcatProperties DEF Waiting
<1> QED
  BY <1>1, <1>2, <1>3, <1>4

(* A statement other than the INSERT of an object leaves the objects alone *)
(* or, when it fails, takes them back to what is durable.                  *)
LEMMA StatementKeepsObjects ==
  ASSUME TInv, TxInv, NEW STATE legal,
         \/ StatementFails(legal)
         \/ \E n : InsertChart(n) \/ InsertFeature(n)
         \/ \E table : CreateTable(table)
         \/ BeginTransaction
         \/ UNCHANGED sqliteVars
  PROVE  Written' \in {Written, Durable} /\ Durable' = Durable
<1>1. view \in AllRows
  BY DEF TInv, TypeOK, DatabaseTypes
<1>2. /\ view'.object \in {view.object, file.object}
      /\ file'.object = file.object
  <2>1. CASE StatementFails(legal)
    <3>1. UNCHANGED sqliteVars \/ Rollback
      BY <2>1 DEF StatementFails
    <3> QED
      BY <3>1 DEF Rollback, sqliteVars
  <2>2. CASE \E n : InsertChart(n) \/ InsertFeature(n)
    BY <1>1, <2>2 DEF InsertChart, InsertFeature, Insert, AllRows, TxInv
  <2>3. CASE \/ \E table : CreateTable(table)
             \/ BeginTransaction
             \/ UNCHANGED sqliteVars
    BY <2>3 DEF CreateTable, BeginTransaction, sqliteVars
  <2> QED
    BY <2>1, <2>2, <2>3
<1> QED
  BY <1>2 DEF Written, Durable

(* A step that is none of WriteBehind's, a failing transaction included *)
LEMMA CalmStep ==
  ASSUME UNCHANGED <<Waiting, calls>>,
         Written' \in {Written, Durable}, Durable' = Durable
  PROVE  Abstract!Fail
BY DEF Abstract!Fail, Written, Durable, Waiting

(* A step of SendVectorChartObjectInfo is an offer, an acceptance or, for  *)
(* WriteBehind, nothing but a possible failure.                            *)
LEMMA ChartIndexerSimulates ==
  ASSUME TInv, TxInv, OrderInv, ChartIndexerNext
  PROVE  \/ Abstract!Offer /\ Number' = Number
         \/ Abstract!Accept /\ mpc \in InSVCOI /\ mpc' = "idle"
         \/ Abstract!Fail /\ Number' >= Number /\ UNCHANGED calls
<1> USE DEF GuiAt, InSVCOI
<1>1. UNCHANGED query
  BY ChartIndexerMoves DEF threadVars
<1>2. ASSUME UNCHANGED <<query_queue, calls>>, mpc \in InSVCOI,
             Written' \in {Written, Durable}, Durable' = Durable
      PROVE  Abstract!Fail /\ Number' >= Number /\ UNCHANGED calls
  <2>1. UNCHANGED Waiting
    BY <1>1, <1>2 DEF Waiting, Popped
  <2>2. Number' >= Number
    BY <1>2, PipelineTypes DEF Number
  <2> QED
    BY <1>2, <2>1, <2>2, CalmStep
<1>3. ASSUME UNCHANGED <<sqliteVars, query_queue, calls>>, mpc \in InSVCOI
      PROVE  Abstract!Fail /\ Number' >= Number /\ UNCHANGED calls
  BY <1>2, <1>3 DEF Written, Durable, sqliteVars
<1>4. CASE ReportCall
  <2>1. /\ UNCHANGED <<view, file, query_queue>>
        /\ mpc = "idle" /\ mpc' = "lookupChart"
        /\ \E c \in Calls : calls' = Append(calls, c)
    <3>1. runs \in Nat
      BY BoundsAssumption DEF TInv, TypeOK, IndexTypes
    <3> QED
      BY <1>4, <3>1 DEF ReportCall, Receive, sqliteVars, Calls
  <2>2. Len(calls') = Len(calls) + 1
    BY <2>1 DEF TInv, TypeOK, IndexTypes
  <2>3. Number' = Number
    BY <2>1, <2>2 DEF Number
  <2>4. UNCHANGED <<Written, Durable, Waiting>>
    BY <1>1, <2>1 DEF Written, Durable, Waiting, Popped
  <2>5. Abstract!Offer
    BY <2>2, <2>4 DEF Abstract!Offer, Written, Durable, Waiting
  <2> QED
    BY <2>3, <2>5
<1>5. CASE SearchFails
  <2>1. /\ UNCHANGED <<view, file, query_queue, calls, mpc>>
    BY <1>5 DEF SearchFails, sqliteVars, callVars
  <2>2. UNCHANGED <<Written, Durable, Waiting, Number>>
    BY <1>1, <2>1 DEF Written, Durable, Waiting, Popped, Number
  <2>3. Number \in Nat
    BY PipelineTypes DEF Number
  <2> QED
    BY <2>1, <2>2, <2>3, CalmStep
<1>6. CASE LookupChart \/ LookupFeature \/ NewChart \/ ChartRowId \/ NewFeature
             \/ FeatureRowId
  BY <1>3, <1>6 DEF LookupChart, LookupFeature, NewChart, ChartRowId,
     NewFeature, FeatureRowId, callVars
<1>7. CASE InsertNewChart
  BY <1>2, <1>7, StatementKeepsObjects DEF InsertNewChart, QueryDB, callVars
<1>8. CASE InsertNewFeature
  BY <1>2, <1>8, StatementKeepsObjects DEF InsertNewFeature, QueryDB, callVars
<1>9. CASE StoreNewObject
  <2>1. CASE UNCHANGED query_queue
    BY <1>3, <1>9, <2>1 DEF StoreNewObject, callVars
  <2>2. CASE query_queue' = Append(query_queue,
               [chart |-> chart_id, feature |-> feature_id, obj |-> Len(calls)])
    <3> DEFINE row == [chart |-> chart_id, feature |-> feature_id, obj |-> Len(calls)]
    <3>1. /\ UNCHANGED <<view, file, calls>>
          /\ mpc = "storeObject" /\ mpc' = "idle"
      BY <1>9 DEF StoreNewObject, sqliteVars, callVars
    <3>2. row \in Rows /\ row.obj = Len(calls) /\ Len(calls) \in Nat
      BY <3>1 DEF TInv, TypeOK, IndexTypes, CurrentCall, Rows
    <3>3. query_queue' = Append(query_queue, row)
      BY <2>2
    <3> HIDE DEF row
    <3>4. Numbers(query_queue') = Append(Numbers(query_queue), Len(calls))
      BY <3>2, <3>3, NumbersAppend, PipelineTypes
    <3>5. Waiting' = Append(Waiting, Len(calls))
      <4>1. Waiting' = Popped \o Append(Numbers(query_queue), Len(calls))
        BY <1>1, <3>4 DEF Waiting, Popped, Numbers
      <4> QED
        BY <3>2, <4>1, PipelineTypes, ConcatAppend DEF Waiting
    <3>6. Number = Len(calls)
      BY <3>1 DEF Number
    <3>7. /\ \A i \in 1 .. Len(Waiting) : Waiting[i] < Len(calls)
          /\ \A i \in 1 .. Len(Written) : Written[i] < Len(calls)
      BY <3>6, PipelineTypes, LenProperties DEF OrderInv, Ordered, AllBelow
    <3>8. Abstract!Accept
      BY <3>1, <3>5, <3>7 DEF Abstract!Accept, Written, Durable, Waiting
    <3> QED
      BY <3>1, <3>8
  <2> QED
    BY <1>9, <2>1, <2>2 DEF StoreNewObject
<1> QED
  BY <1>4, <1>5, <1>6, <1>7, <1>8, <1>9 DEF ChartIndexerNext, ChartIndexerStep

(* A step of DbThread writes, commits, or fails at most.                   *)
LEMMA DbThreadSimulates ==
  ASSUME TInv, TxInv, OrderInv, DbThreadNext
  PROVE  /\ UNCHANGED <<calls, mpc>>
         /\ \/ \E commits \in BOOLEAN : Abstract!Write(commits)
            \/ Abstract!CommitAll
            \/ Abstract!Fail
<1> USE DEF ThreadAt
<1>1. UNCHANGED <<calls, mpc>>
  BY DEF DbThreadNext, guiVars, callVars, ThreadStarts, TestDestroy, Begin,
     MarkWriting, TakeQuery, ExecuteQuery, QueueEmpty, Commit, UnmarkWriting,
     WakeUp, DestroyThread, ThreadGone
<1>2. ASSUME UNCHANGED <<query, query_queue>>,
             Written' \in {Written, Durable}, Durable' = Durable
      PROVE  Abstract!Fail
  BY <1>1, <1>2, CalmStep DEF Waiting, Popped
<1>3. ASSUME UNCHANGED <<sqliteVars, query, query_queue>>
      PROVE  Abstract!Fail
  BY <1>2, <1>3 DEF Written, Durable, sqliteVars
<1>4. CASE ThreadStarts \/ TestDestroy \/ MarkWriting \/ QueueEmpty
             \/ UnmarkWriting \/ WakeUp \/ DestroyThread \/ ThreadGone
  BY <1>1, <1>3, <1>4 DEF ThreadStarts, TestDestroy, MarkWriting, QueueEmpty,
     UnmarkWriting, WakeUp, DestroyThread, ThreadGone
<1>5. CASE Begin
  BY <1>1, <1>2, <1>5, StatementKeepsObjects DEF Begin, QueryDB
<1>6. CASE TakeQuery
  <2>1. /\ query = NoQuery /\ query_queue # <<>>
        /\ query' = Head(query_queue) /\ query_queue' = Tail(query_queue)
        /\ UNCHANGED <<view, file>>
    BY <1>6 DEF TakeQuery, GetQuery, OrderInv, sqliteVars
  <2>2. Head(query_queue) \in Rows
    BY <2>1, PipelineTypes, HeadTailProperties
  <2>3. query' # NoQuery
    BY <2>1, <2>2, QueryAssumption
  <2>4. Waiting' = <<Head(query_queue).obj>> \o Numbers(Tail(query_queue))
    BY <2>1, <2>3 DEF Waiting, Popped, Numbers
  <2>5. Waiting = Numbers(query_queue)
    BY <2>1, PipelineTypes, ConcatEmptySeq DEF Waiting, Popped
  <2>6. Waiting' = Waiting
    BY <2>1, <2>4, <2>5, PipelineTypes, NumbersHeadTail
  <2> QED
    BY <1>1, <2>1, <2>6, CalmStep DEF Written, Durable
<1>7. CASE ExecuteQuery
  <2>1. /\ tpc = "execute" /\ query' = NoQuery
        /\ UNCHANGED query_queue
    BY <1>7 DEF ExecuteQuery
  <2>2. /\ query \in Rows /\ query # NoQuery /\ query.obj \in Nat
    BY <2>1, QueryAssumption DEF TInv, CurrentCall, Rows
  <2>3. Waiting = <<query.obj>> \o Numbers(query_queue)
    BY <2>2 DEF Waiting, Popped
  <2>4. Waiting' = Numbers(query_queue)
    <3>1. Waiting' = <<>> \o Numbers(query_queue)
      BY <2>1 DEF Waiting, Popped, Numbers
    <3> QED
      BY <3>1, PipelineTypes, ConcatEmptySeq
  <2>5. /\ Waiting # <<>>
        /\ Head(Waiting) = query.obj /\ Tail(Waiting) = Waiting'
    BY <2>2, <2>3, <2>4, PipelineTypes, FirstOfConcat
  <2>6. CASE StatementFails("object" \in schema)
    <3>1. Written' \in {Written, Durable} /\ Durable' = Durable
      BY <2>6, StatementKeepsObjects
    <3> QED
      BY <1>1, <2>5, <3>1 DEF Abstract!Fail, Written, Durable, Waiting
  <2>7. CASE InsertObject(query)
    <3>1. /\ view \in AllRows /\ view.object \in Seq(Rows)
      BY DEF TInv, TypeOK, DatabaseTypes, AllRows
    <3>2. /\ view'.object = Append(view.object, query)
          /\ file' = IF inTx THEN file ELSE view'
      BY <2>7, <3>1 DEF InsertObject, Insert, AllRows
    <3>3. Written' = Append(Written, query.obj)
      <4>1. Written' = Numbers(Append(view.object, query))
        BY <3>2 DEF Written, Numbers
      <4> QED
        BY <2>2, <3>1, <4>1, NumbersAppend DEF Written
    <3>4. Durable' = IF inTx THEN Durable ELSE Written'
      BY <3>2 DEF Written, Durable
    <3>5. Abstract!Write(~ inTx)
      BY <1>1, <2>5, <3>3, <3>4 DEF Abstract!Write, Written, Durable, Waiting
    <3> QED
      BY <1>1, <3>5
  <2> QED
    BY <1>7, <2>6, <2>7 DEF ExecuteQuery, QueryDB
<1>8. CASE Commit
  <2>1. UNCHANGED <<query, query_queue>>
    BY <1>8 DEF Commit
  <2>2. CASE StatementFails(inTx)
    BY <1>1, <1>2, <2>1, <2>2, StatementKeepsObjects
  <2>3. CASE CommitTransaction
    <3>1. Durable' = Written /\ Written' = Written /\ Waiting' = Waiting
      BY <2>1, <2>3 DEF CommitTransaction, Written, Durable, Waiting, Popped
    <3> QED
      BY <1>1, <3>1 DEF Abstract!CommitAll, Written, Durable, Waiting
  <2> QED
    BY <1>8, <2>2, <2>3 DEF Commit, QueryDB
<1> QED
  BY <1>1, <1>4, <1>5, <1>6, <1>7, <1>8 DEF DbThreadNext

(* A start, an end or a crash of the plugin never adds an object. *)
LEMMA LifecycleSimulates ==
  ASSUME TInv, TxInv, OrderInv, LifecycleNext
  PROVE  /\ UNCHANGED calls /\ mpc' \notin InSVCOI
         /\ Abstract!Fail \/ Abstract!EndOfRun
<1> USE DEF InitGoes, InSVCOI
<1>1. ASSUME UNCHANGED <<query, query_queue, calls>>,
             Written' \in {Written, Durable}, Durable' = Durable
      PROVE  Abstract!Fail
  BY <1>1, CalmStep DEF Waiting, Popped
<1>2. ASSUME query' = NoQuery, query_queue' = <<>>, UNCHANGED calls,
             Written' = Durable, Durable' = Durable
      PROVE  Abstract!EndOfRun
  <2>1. Waiting' = <<>>
    BY <1>2 DEF Waiting, Popped, Numbers
  <2> QED
    BY <1>2, <2>1 DEF Abstract!EndOfRun, Written, Durable, Waiting
<1>3. CASE Load
  <2>1. view' = file /\ file' = file
    BY <1>3 DEF Load, sqliteVars, TxInv
  <2> QED
    BY <1>2, <1>3, <2>1 DEF Load, Constructed, Written, Durable
<1>4. CASE OpenDB
  <2>1. view' \in {view, file} /\ file' = file
    BY <1>4 DEF OpenDB, OpenDatabase, rowVars
  <2>2. UNCHANGED <<query, query_queue, calls>> /\ mpc' \in {"fix", "createChart"}
    BY <1>4 DEF OpenDB, initUnchanged, threadVars, callVars
  <2> QED
    BY <1>1, <2>1, <2>2 DEF Written, Durable
<1>5. CASE CreateTables
  <2>1. PICK here, table, there : Create(here, table, there)
              /\ there \in {"createFeature", "createObject", "fix"}
    BY <1>5 DEF CreateTables
  <2>2. Written' \in {Written, Durable} /\ Durable' = Durable
    BY <2>1, StatementKeepsObjects DEF Create, QueryDB
  <2> QED
    BY <1>1, <2>1, <2>2 DEF Create, initUnchanged, threadVars, callVars
<1>6. ASSUME NEW table,
             IF m_bDBUsable THEN SelectFromDB(table)
                            ELSE UNCHANGED <<sqliteVars, m_bDBUsable, faults>>
      PROVE  Written' \in {Written, Durable} /\ Durable' = Durable
  BY <1>6, StatementKeepsObjects DEF SelectFromDB, QueryDB
<1>7. CASE FixOldObjects
  BY <1>1, <1>6, <1>7 DEF FixOldObjects, initUnchanged, threadVars, callVars
<1>8. CASE LoadCharts
  BY <1>1, <1>6, <1>8 DEF LoadCharts, threadVars, callVars
<1>9. CASE LoadFeatures
  BY <1>1, <1>6, <1>9 DEF LoadFeatures, threadVars, callVars
<1>10. CASE StartThread
  BY <1>1, <1>10 DEF StartThread, callVars, sqliteVars, Written, Durable
<1>11. CASE DeInit \/ AwaitWrite \/ LockThread \/ DeleteThread \/ AwaitGone
              \/ LastResort
  BY <1>1, <1>11 DEF DeInit, AwaitWrite, LockThread, DeleteThread, AwaitGone,
     LastResort, deInitUnchanged, threadVars, callVars, sqliteVars, Written,
     Durable
<1>12. CASE ClearDB
  BY <1>1, <1>12 DEF ClearDB, Disconnect, deInitUnchanged, threadVars,
     callVars, Written, Durable
<1>13. CASE Unload \/ Crash
  BY <1>2, <1>13 DEF Unload, Crash, GoesOff, Constructed, Disconnect, Written,
     Durable
<1>14. CASE Stopped
  BY <1>1, <1>14 DEF Stopped, vars, threadVars, callVars, sqliteVars, Written,
     Durable
<1> QED
  BY <1>3, <1>4, <1>5, <1>7, <1>8, <1>9, <1>10, <1>11, <1>12, <1>13,
    <1>14 DEF LifecycleNext, InitStep, DeInitStep

-----------------------------------------------------------------------------
(* What each step of WriteBehind does to the order *)

(* What appending a number above all others keeps.                         *)
LEMMA AppendOrder ==
  ASSUME NEW s \in Seq(Nat), NEW n \in Nat, Increasing(s), AllBelow(s, n)
  PROVE  /\ Increasing(Append(s, n))
         /\ \A m \in Nat : n < m => AllBelow(Append(s, n), m)
         /\ \A t \in Seq(Nat) :
              Before(s, t) /\ (\A j \in DOMAIN t : n < t[j])
                => Before(Append(s, n), t)
         /\ \A r \in Seq(Nat) :
              Before(r, s) /\ AllBelow(r, n) => Before(r, Append(s, n))
<1> DEFINE a == Append(s, n)
           k == Len(s)
<1>1. /\ k \in Nat /\ DOMAIN s = 1 .. k /\ DOMAIN a = 1 .. k + 1
      /\ \A i \in 1 .. k : a[i] = s[i]
      /\ a[k + 1] = n
      /\ \A i \in 1 .. k : s[i] \in Nat
  OBVIOUS
<1>2. \A i \in DOMAIN a : \/ i \in DOMAIN s /\ a[i] = s[i] /\ i <= k
                          \/ i = k + 1 /\ a[i] = n
  BY <1>1
<1> HIDE DEF a, k
<1>3. Increasing(a)
  <2> SUFFICES ASSUME NEW i \in DOMAIN a, NEW j \in DOMAIN a, i < j
               PROVE  a[i] < a[j]
    BY DEF Increasing
  <2>1. i \in DOMAIN s /\ a[i] = s[i]
    BY <1>1, <1>2
  <2>2. CASE j \in DOMAIN s /\ a[j] = s[j]
    BY <2>1, <2>2 DEF Increasing
  <2>3. CASE a[j] = n
    BY <2>1, <2>3 DEF AllBelow
  <2> QED
    BY <1>2, <2>2, <2>3
<1>4. ASSUME NEW m \in Nat, n < m
      PROVE  AllBelow(a, m)
  <2> SUFFICES ASSUME NEW i \in DOMAIN a
               PROVE  a[i] < m
    BY DEF AllBelow
  <2>1. CASE i \in DOMAIN s /\ a[i] = s[i]
    <3>1. s[i] < n /\ s[i] \in Nat
      BY <1>1, <2>1 DEF AllBelow
    <3> QED
      BY <1>4, <2>1, <3>1
  <2>2. CASE a[i] = n
    BY <1>4, <2>2
  <2> QED
    BY <1>2, <2>1, <2>2
<1>5. ASSUME NEW t \in Seq(Nat), Before(s, t), \A j \in DOMAIN t : n < t[j]
      PROVE  Before(a, t)
  BY <1>2, <1>5 DEF Before
<1>6. ASSUME NEW r \in Seq(Nat), Before(r, s), AllBelow(r, n)
      PROVE  Before(r, a)
  BY <1>2, <1>6 DEF Before, AllBelow
<1> QED
  BY <1>3, <1>4, <1>5, <1>6 DEF a

(* What taking the first of an increasing sequence away keeps.             *)
LEMMA TailOrder ==
  ASSUME NEW w \in Seq(Nat), w # <<>>, Increasing(w)
  PROVE  /\ Head(w) \in Nat /\ Tail(w) \in Seq(Nat)
         /\ Increasing(Tail(w))
         /\ \A j \in DOMAIN Tail(w) : Head(w) < Tail(w)[j]
         /\ \A n : AllBelow(w, n) => AllBelow(Tail(w), n) /\ Head(w) < n
         /\ \A s : Before(s, w) => Before(s, Tail(w)) /\ AllBelow(s, Head(w))
<1> DEFINE t == Tail(w)
           h == Head(w)
<1>1. h = w[1]
  OBVIOUS
<1>2. /\ Len(w) \in Nat \ {0}
      /\ DOMAIN w = 1 .. Len(w)
      /\ h \in Nat /\ t \in Seq(Nat)
      /\ Len(t) = Len(w) - 1
      /\ \A i \in 1 .. Len(t) : t[i] = w[i + 1]
  BY EmptySeq, LenProperties, HeadTailProperties
<1>3. DOMAIN t = 1 .. Len(t)
  BY <1>2, LenProperties
<1>4. \A i \in DOMAIN t : i + 1 \in DOMAIN w /\ t[i] = w[i + 1] /\ 1 < i + 1
                          /\ i \in Nat
  BY <1>2, <1>3
<1>5. 1 \in DOMAIN w
  BY <1>2
<1> HIDE DEF t, h
<1>6. Increasing(t)
  <2> SUFFICES ASSUME NEW i \in DOMAIN t, NEW j \in DOMAIN t, i < j
               PROVE  t[i] < t[j]
    BY DEF Increasing
  <2>1. i + 1 < j + 1
    BY <1>4
  <2> QED
    BY <1>4, <2>1 DEF Increasing
<1>7. \A j \in DOMAIN t : h < t[j]
  BY <1>1, <1>4, <1>5 DEF Increasing
<1>8. ASSUME NEW n, AllBelow(w, n)
      PROVE  AllBelow(t, n) /\ h < n
  BY <1>1, <1>4, <1>5, <1>8 DEF AllBelow
<1>9. ASSUME NEW s, Before(s, w)
      PROVE  Before(s, t) /\ AllBelow(s, h)
  BY <1>1, <1>4, <1>5, <1>9 DEF Before, AllBelow
<1> QED
  BY <1>2, <1>6, <1>7, <1>8, <1>9 DEF t, h

(* The object of the current call is behind all others.                    *)
LEMMA AcceptOrder ==
  ASSUME NEW s \in Seq(Nat), NEW d \in Seq(Nat), NEW w \in Seq(Nat),
         NEW n \in Nat, Ordered(s, d, w, n)
  PROVE  Ordered(s, d, Append(w, n), n + 1)
<1>1. ASSUME NEW r \in {s, d}
      PROVE  /\ Increasing(r) /\ AllBelow(r, n + 1)
             /\ Before(r, Append(w, n))
  <2>1. Increasing(r) /\ AllBelow(r, n) /\ Before(r, w)
    BY DEF Ordered
  <2>2. AllBelow(r, n + 1)
    <3>1. \A i \in DOMAIN r : r[i] \in Nat
      OBVIOUS
    <3> QED
      BY <2>1, <3>1 DEF AllBelow
  <2> QED
    BY <2>1, <2>2, AppendOrder DEF Ordered
<1>2. Increasing(Append(w, n)) /\ AllBelow(Append(w, n), n + 1)
  BY AppendOrder DEF Ordered
<1> QED
  BY <1>1, <1>2 DEF Ordered

(* The object that is written is behind what is stored and before what     *)
(* waits.                                                                  *)
LEMMA WriteOrder ==
  ASSUME NEW s \in Seq(Nat), NEW d \in Seq(Nat), NEW w \in Seq(Nat),
         NEW n \in Nat, Ordered(s, d, w, n), w # <<>>,
         NEW d2 \in {Append(s, Head(w)), d}
  PROVE  Ordered(Append(s, Head(w)), d2, Tail(w), n)
<1>1. Increasing(w) /\ AllBelow(w, n) /\ Before(s, w) /\ Before(d, w)
      /\ Increasing(s) /\ Increasing(d) /\ AllBelow(d, n)
  BY DEF Ordered
<1>2. /\ Head(w) \in Nat /\ Tail(w) \in Seq(Nat)
      /\ Increasing(Tail(w)) /\ AllBelow(Tail(w), n) /\ Head(w) < n
      /\ \A j \in DOMAIN Tail(w) : Head(w) < Tail(w)[j]
      /\ Before(s, Tail(w)) /\ AllBelow(s, Head(w)) /\ Before(d, Tail(w))
  BY <1>1, TailOrder
<1>3. /\ Increasing(Append(s, Head(w)))
      /\ AllBelow(Append(s, Head(w)), n)
      /\ Before(Append(s, Head(w)), Tail(w))
  BY <1>1, <1>2, AppendOrder
<1> QED
  BY <1>1, <1>2, <1>3 DEF Ordered

(* A rollback, a crash, a statement that is dropped: what is left is in    *)
(* order.                                                                  *)
LEMMA LossOrder ==
  ASSUME NEW s \in Seq(Nat), NEW d \in Seq(Nat), NEW w \in Seq(Nat),
         NEW n \in Nat, NEW m \in Nat, n <= m, Ordered(s, d, w, n),
         NEW s2 \in {s, d}, NEW d2 \in {s, d}, NEW w2,
         w2 = w \/ w2 = <<>> \/ (w # <<>> /\ w2 = Tail(w))
  PROVE  Ordered(s2, d2, w2, m)
<1>1. ASSUME NEW r \in Seq(Nat), AllBelow(r, n)
      PROVE  AllBelow(r, m)
  <2>1. \A i \in DOMAIN r : r[i] \in Nat
    OBVIOUS
  <2> QED
    BY <1>1, <2>1 DEF AllBelow
<1>2. /\ w2 \in Seq(Nat) /\ Increasing(w2) /\ AllBelow(w2, n)
      /\ Before(s, w2) /\ Before(d, w2)
  <2>1. CASE w2 = w
    BY <2>1 DEF Ordered
  <2>2. CASE w2 = <<>>
    BY <2>2 DEF Increasing, AllBelow, Before
  <2>3. CASE w # <<>> /\ w2 = Tail(w)
    BY <2>3, TailOrder DEF Ordered
  <2> QED
    BY <2>1, <2>2, <2>3
<1> QED
  BY <1>1, <1>2 DEF Ordered

(* Two increasing sequences, one before the other.                         *)
LEMMA ConcatOrder ==
  ASSUME NEW s \in Seq(Nat), NEW t \in Seq(Nat),
         Increasing(s), Increasing(t), Before(s, t)
  PROVE  Increasing(s \o t)
<1> DEFINE c == s \o t
           k == Len(s)
<1>1. /\ k \in Nat /\ Len(t) \in Nat
      /\ DOMAIN s = 1 .. k /\ DOMAIN t = 1 .. Len(t)
  BY LenProperties
<1>2. /\ DOMAIN c = 1 .. k + Len(t)
      /\ \A i \in 1 .. k + Len(t) : c[i] = IF i <= k THEN s[i] ELSE t[i - k]
  BY ConcatProperties, LenProperties
<1> HIDE DEF c, k
<1>3. \A i \in DOMAIN c : \/ i \in DOMAIN s /\ c[i] = s[i] /\ i <= k
                          \/ i - k \in DOMAIN t /\ c[i] = t[i - k] /\ k < i
  BY <1>1, <1>2
<1> SUFFICES ASSUME NEW i \in DOMAIN c, NEW j \in DOMAIN c, i < j
             PROVE  c[i] < c[j]
  BY DEF Increasing, c
<1>4. i \in Int /\ j \in Int
  BY <1>1, <1>2
<1>5. CASE i <= k /\ j <= k
  <2>1. /\ i \in DOMAIN s /\ c[i] = s[i]
        /\ j \in DOMAIN s /\ c[j] = s[j]
    BY <1>1, <1>3, <1>4, <1>5
  <2> QED
    BY <2>1 DEF Increasing
<1>6. CASE i <= k /\ k < j
  <2>1. /\ i \in DOMAIN s /\ c[i] = s[i]
        /\ j - k \in DOMAIN t /\ c[j] = t[j - k]
    BY <1>1, <1>3, <1>4, <1>6
  <2> QED
    BY <2>1 DEF Before
<1>7. CASE k < i /\ k < j
  <2>1. /\ i - k \in DOMAIN t /\ c[i] = t[i - k]
        /\ j - k \in DOMAIN t /\ c[j] = t[j - k]
        /\ i - k < j - k
    BY <1>1, <1>3, <1>4, <1>7
  <2> QED
    BY <2>1 DEF Increasing
<1> QED
  BY <1>1, <1>4, <1>5, <1>6, <1>7

-----------------------------------------------------------------------------
(* A step of the program is a step of WriteBehind or changes nothing there. *)
LEMMA StepSimulates ==
  ASSUME TInv, TxInv, OrderInv, [Next]_vars
  PROVE  [Abstract!WBNext]_(Abstract!wbVars)
<1>1. CASE ChartIndexerNext
  BY <1>1, ChartIndexerSimulates DEF Abstract!WBNext
<1>2. CASE DbThreadNext
  BY <1>2, DbThreadSimulates DEF Abstract!WBNext
<1>3. CASE LifecycleNext
  BY <1>3, LifecycleSimulates DEF Abstract!WBNext
<1>4. CASE UNCHANGED vars
  BY <1>4 DEF vars, sqliteVars, threadVars, callVars, Abstract!wbVars, Popped
<1> QED
  BY <1>1, <1>2, <1>3, <1>4 DEF Next

(* DbThread holds a statement only between TakeQuery and ExecuteQuery. *)
LEMMA HeldWhileExecuting ==
  ASSUME query # NoQuery => tpc = "execute", ShutdownInv, [Next]_vars
  PROVE  query' # NoQuery => tpc' = "execute"
<1>1. CASE ChartIndexerNext
  BY <1>1, ChartIndexerMoves DEF threadVars
<1>2. CASE DbThreadNext
  BY <1>2 DEF DbThreadNext, ThreadAt, ThreadStarts, TestDestroy, Begin,
     MarkWriting, TakeQuery, ExecuteQuery, QueueEmpty, Commit, UnmarkWriting,
     WakeUp, DestroyThread, ThreadGone
<1>3. CASE LifecycleNext
  <2>1. CASE query' = NoQuery
    BY <2>1
  <2>2. CASE UNCHANGED threadVars
    BY <2>2 DEF threadVars
  <2>3. CASE StartThread
    BY <2>3 DEF StartThread, InitGoes, ShutdownInv, ThreadInv, InInit
  <2> QED
    BY <1>3, <2>1, <2>2, <2>3
    DEF LifecycleNext, InitStep, DeInitStep, Load, OpenDB, CreateTables,
        Create, FixOldObjects, LoadCharts, LoadFeatures, DeInit, AwaitWrite,
        LockThread, DeleteThread, AwaitGone, LastResort, ClearDB, Unload,
        Crash, GoesOff, Constructed, Stopped, initUnchanged, deInitUnchanged,
        vars
<1>4. CASE UNCHANGED vars
  BY <1>4 DEF vars, threadVars
<1> QED
  BY <1>1, <1>2, <1>3, <1>4 DEF Next

(* Every step is one of the kinds above.                                   *)
LEMMA OrderInvNext ==
  ASSUME TInv, TInv', ShutdownInv, TxInv, OrderInv, [Next]_vars
  PROVE  OrderInv'
<1>1. query' # NoQuery => tpc' = "execute"
  BY HeldWhileExecuting DEF OrderInv
<1>2. /\ Written \in Seq(Nat) /\ Durable \in Seq(Nat) /\ Waiting \in Seq(Nat)
      /\ Number \in Nat /\ Number' \in Nat /\ Len(calls) \in Nat
  BY PipelineTypes DEF Number
<1>3. Ordered(Written, Durable, Waiting, Number)
  BY DEF OrderInv
<1> SUFFICES Ordered(Written, Durable, Waiting, Number)'
  BY <1>1 DEF OrderInv
<1>4. ASSUME Abstract!Fail \/ Abstract!EndOfRun, Number <= Number'
      PROVE  Ordered(Written, Durable, Waiting, Number)'
  <2>1. /\ Written' \in {Written, Durable} /\ Durable' \in {Written, Durable}
        /\ \/ Waiting' = Waiting \/ Waiting' = <<>>
           \/ Waiting # <<>> /\ Waiting' = Tail(Waiting)
    BY <1>4 DEF Abstract!Fail, Abstract!EndOfRun, Written, Durable, Waiting
  <2> QED
    BY <1>2, <1>3, <1>4, <2>1, LossOrder
<1>5. ASSUME UNCHANGED <<Written, Durable, Waiting, Number>>
      PROVE  Ordered(Written, Durable, Waiting, Number)'
  BY <1>3, <1>5
<1>6. CASE ChartIndexerNext
  <2>1. CASE Abstract!Offer /\ Number' = Number
    BY <1>5, <2>1 DEF Abstract!Offer, Written, Durable, Waiting
  <2>2. CASE Abstract!Accept /\ mpc \in InSVCOI /\ mpc' = "idle"
    <3>1. /\ Written' = Written /\ Durable' = Durable
          /\ Waiting' = Append(Waiting, Number)
          /\ Number' = Number + 1
      BY <2>2 DEF Abstract!Accept, Written, Durable, Waiting, Number, InSVCOI
    <3> QED
      BY <1>2, <1>3, <3>1, AcceptOrder
  <2>3. CASE Abstract!Fail /\ Number' >= Number /\ UNCHANGED calls
    BY <1>2, <1>4, <2>3
  <2> QED
    BY <1>6, <2>1, <2>2, <2>3, ChartIndexerSimulates
<1>7. CASE DbThreadNext
  <2>1. Number' = Number
    BY <1>7, DbThreadSimulates DEF Number
  <2>2. CASE \E commits \in BOOLEAN : Abstract!Write(commits)
    <3>1. /\ Waiting # <<>> /\ Waiting' = Tail(Waiting)
          /\ Written' = Append(Written, Head(Waiting))
          /\ Durable' \in {Append(Written, Head(Waiting)), Durable}
      BY <2>2 DEF Abstract!Write, Written, Durable, Waiting
    <3> QED
      BY <1>2, <1>3, <2>1, <3>1, WriteOrder
  <2>3. CASE Abstract!CommitAll
    <3>1. Written' = Written /\ Durable' = Written /\ Waiting' = Waiting
      BY <2>3 DEF Abstract!CommitAll, Written, Durable, Waiting
    <3> QED
      BY <1>2, <1>3, <2>1, <3>1, LossOrder
  <2>4. CASE Abstract!Fail
    BY <1>2, <1>4, <2>1, <2>4
  <2> QED
    BY <1>7, <2>2, <2>3, <2>4, DbThreadSimulates
<1>8. CASE LifecycleNext
  <2>1. UNCHANGED calls /\ mpc' \notin InSVCOI
    BY <1>8, LifecycleSimulates
  <2>2. Number <= Number'
    BY <1>2, <2>1 DEF Number
  <2> QED
    BY <1>4, <1>8, <2>2, LifecycleSimulates
<1>9. CASE UNCHANGED vars
  <2>1. UNCHANGED <<Written, Durable, Waiting, Number>>
    BY <1>9 DEF vars, sqliteVars, threadVars, callVars, Written, Durable,
       Waiting, Popped, Number
  <2> QED
    BY <1>5, <2>1
<1> QED
  BY <1>6, <1>7, <1>8, <1>9 DEF Next

(* At first nothing is offered, waiting or stored.                         *)
LEMMA OrderInvInit ==
  ASSUME Init
  PROVE  /\ OrderInv
         /\ Abstract!WBInit
<1>1. /\ view.object = <<>> /\ file.object = <<>> /\ query_queue = <<>>
      /\ query = NoQuery /\ calls = <<>>
  BY DEF Init, SqliteInit, NoRows
<1>2. Written = <<>> /\ Durable = <<>> /\ Waiting = <<>> /\ Len(calls) = 0
  BY <1>1 DEF Written, Durable, Waiting, Popped, Numbers
<1>3. OrderInv
  BY <1>1, <1>2 DEF OrderInv, Ordered, Increasing, AllBelow, Before
<1> QED
  BY <1>2, <1>3 DEF Abstract!WBInit, Written, Durable, Waiting

(* The order of what is stored, durable and waiting, and a number above    *)
(* them all, hold in every reachable state.                                *)
THEOREM OrderInvariant == Spec => []OrderInv
BY OrderInvInit, OrderInvNext, TypeInvariant, ShutdownInvariant,
   TransactionInvariant, PTL DEF Spec

(* Objects are stored in the order in which they were reported and none    *)
(* twice, whatever fails, crashes and restarts, for any number of each.    *)
THEOREM ObjectsStayInOrder == Spec => []IndexedInOrder
<1>1. TInv /\ OrderInv => IndexedInOrder
  <2> SUFFICES ASSUME TInv, OrderInv
               PROVE  IndexedInOrder
    OBVIOUS
  <2>1. Pipeline = Written \o Waiting
    <3>1. \A s, t, u \in Seq(Nat) : (s \o t) \o u = s \o (t \o u)
      BY ConcatAssociative
    <3>2. /\ Written \in Seq(Nat) /\ Popped \in Seq(Nat)
          /\ Numbers(query_queue) \in Seq(Nat)
      BY PipelineTypes
    <3>3. (Written \o Popped) \o Numbers(query_queue)
            = Written \o (Popped \o Numbers(query_queue))
      BY <3>1, <3>2
    <3> QED
      BY <3>3 DEF Pipeline, Written, Waiting
  <2>2. Increasing(Pipeline)
    BY <2>1, PipelineTypes, ConcatOrder DEF OrderInv, Ordered
  <2> QED
    BY <2>2 DEF Increasing, IndexedInOrder
<1> QED
  BY <1>1, TypeInvariant, OrderInvariant, PTL

(* The pipeline implements WriteBehind: a queued object is written after   *)
(* those accepted before it, at most once, and lost only with a failure or *)
(* with the end of the run.                                                *)
THEOREM PipelineIsWriteBehind == Spec => ImplementsWriteBehind
BY OrderInvInit, StepSimulates, TypeInvariant, TransactionInvariant,
   OrderInvariant, PTL DEF Spec, ImplementsWriteBehind, Abstract!WBSpec
=============================================================================
