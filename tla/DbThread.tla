------------------------------ MODULE DbThread ------------------------------
(***************************************************************************)
(* DbThread: the detached thread that writes the queued objects, one       *)
(* transaction per round, and leaves when Delete has been requested.       *)
(* Every shared access is a step of its own.                               *)
(***************************************************************************)
EXTENDS Plugin

(* What only the GUI thread writes. *)
guiVars == <<mpc, callVars, indexVars, m_bWaitForDB, deleteRequested, runs>>

ThreadAt(here, there) ==
  /\ tpc = here
  /\ tpc' = there

ThreadStarts ==
  /\ ThreadAt("starting", "test")
  /\ m_db_thread_running' = TRUE
  /\ UNCHANGED <<sqliteVars, guiVars, m_bDBUsable, faults, query_queue, cs,
                 m_pThread, m_bIsWriting, query>>

(* while (!TestDestroy()): what is still queued when Delete was requested  *)
(* is not looked at again.                                                 *)
TestDestroy ==
  /\ ThreadAt("test", IF deleteRequested THEN "destroy" ELSE "begin")
  /\ UNCHANGED <<sqliteVars, guiVars, m_bDBUsable, faults, query_queue, cs,
                 m_db_thread_running, m_pThread, m_bIsWriting, query>>

Begin ==
  /\ ThreadAt("begin", "mark")
  /\ QueryDB(BeginTransaction, ~ inTx)
  /\ UNCHANGED <<guiVars, query_queue, cs, m_db_thread_running, m_pThread,
                 m_bIsWriting, query>>

(* m_bIsWriting = true comes after the BEGIN. *)
MarkWriting ==
  /\ ThreadAt("mark", "drain")
  /\ m_bIsWriting' = TRUE
  /\ UNCHANGED <<sqliteVars, guiVars, m_bDBUsable, faults, query_queue, cs,
                 m_db_thread_running, m_pThread, query>>

TakeNewest ==
  LET last == Len(query_queue)
  IN  /\ query' = query_queue[last]
      /\ query_queue' = SubSeq(query_queue, 1, last - 1)
TakeWithoutPop == query' = Head(query_queue) /\ UNCHANGED query_queue
TakeAndClear == query' = Head(query_queue) /\ query_queue' = <<>>
GetQuery == query' = Head(query_queue) /\ query_queue' = Tail(query_queue)

(* HasQueries and GetQuery.  The queue has no lock: when a push and a pop  *)
(* collide the build either orders them or the process dies (Crash).       *)
TakeQuery ==
  /\ ThreadAt("drain", "execute")
  /\ query_queue # <<>>
  /\ GetQuery
  /\ UNCHANGED <<sqliteVars, guiVars, m_bDBUsable, faults, cs,
                 m_db_thread_running, m_pThread, m_bIsWriting>>

ExecuteQuery ==
  /\ ThreadAt("execute", "drain")
  /\ QueryDB(InsertObject(query), "object" \in schema)
  /\ query' = NoQuery
  /\ UNCHANGED <<guiVars, query_queue, cs, m_db_thread_running, m_pThread,
                 m_bIsWriting>>

SkipCommit == "unmark"
StopInsteadOfCommit == IF deleteRequested THEN "destroy" ELSE "commit"
AfterDrain == "commit"

QueueEmpty ==
  /\ ThreadAt("drain", AfterDrain)
  /\ query_queue = <<>>
  /\ UNCHANGED <<sqliteVars, guiVars, m_bDBUsable, faults, query_queue, cs,
                 m_db_thread_running, m_pThread, m_bIsWriting, query>>

Commit ==
  /\ ThreadAt("commit", "unmark")
  /\ QueryDB(CommitTransaction, inTx)
  /\ UNCHANGED <<guiVars, query_queue, cs, m_db_thread_running, m_pThread,
                 m_bIsWriting, query>>

UnmarkWriting ==
  /\ ThreadAt("unmark", "sleep")
  /\ m_bIsWriting' = FALSE
  /\ UNCHANGED <<sqliteVars, guiVars, m_bDBUsable, faults, query_queue, cs,
                 m_db_thread_running, m_pThread, query>>

(* Sleep(500) *)
WakeUp ==
  /\ ThreadAt("sleep", "test")
  /\ UNCHANGED <<sqliteVars, guiVars, m_bDBUsable, faults, query_queue, cs,
                 m_db_thread_running, m_pThread, m_bIsWriting, query>>

(* ~DbThread: enter m_pThreadCS and clear the pointer; then, still inside, *)
(* clear the running flag and leave.                                       *)
DestroyThread ==
  /\ ThreadAt("destroy", "destroyed")
  /\ cs = "free"
  /\ cs' = "thread"
  /\ m_pThread' = FALSE
  /\ UNCHANGED <<sqliteVars, guiVars, m_bDBUsable, faults, query_queue,
                 m_db_thread_running, m_bIsWriting, query>>

ThreadGone ==
  /\ ThreadAt("destroyed", "absent")
  /\ m_db_thread_running' = FALSE
  /\ cs' = "free"
  /\ UNCHANGED <<sqliteVars, guiVars, m_bDBUsable, faults, query_queue,
                 m_pThread, m_bIsWriting, query>>

DbThreadNext ==
  \/ ThreadStarts \/ TestDestroy \/ Begin \/ MarkWriting
  \/ TakeQuery \/ ExecuteQuery \/ QueueEmpty
  \/ Commit \/ UnmarkWriting \/ WakeUp
  \/ DestroyThread \/ ThreadGone
=============================================================================
