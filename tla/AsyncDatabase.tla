---------------------------- MODULE AsyncDatabase ----------------------------
(***************************************************************************)
(* AsyncWAFDatabase (async_database.py): request logs are queued and a       *)
(* background task, the batch writer, inserts them through the connection   *)
(* pool, next to the clients' own transactions; close() cancels the writer, *)
(* awaits it and closes the pool.                                           *)
(*                                                                          *)
(* initialize() runs once, from the lifespan handler (Main). It opens the   *)
(* pool and creates the tables, which to the pool is an acquire() before    *)
(* initialization, with a transaction that inserts nothing. The web server  *)
(* calls close() after the last request is answered. The queue is a set:    *)
(* the writer always takes all there is, in one transaction.                *)
(***************************************************************************)
EXTENDS ConnectionPool

CONSTANTS
    Logs,       \* arguments of log_request(), each used once
    Clients,    \* other callers, each with one transaction of its own
    Main,       \* the task of the lifespan handler
    Writer,     \* _batch_task
    MaxFaults   \* bound: transactions that SQLite makes fail

ASSUME DatabaseAssumption ==
    /\ Tasks = Clients \cup {Main, Writer}
    /\ Rows = Logs \cup Clients
    /\ Main \notin Clients /\ Writer \notin Clients /\ Main # Writer
    /\ Logs \cap Clients = {}
    /\ MaxFaults \in Nat

VARIABLES
    queue,      \* _batch_queue
    batch,      \* batch, the writer's local variable
    running,    \* _running
    loop,       \* where the batch writer is
    main,       \* where the lifespan handler is
    produced,   \* history: logs queued
    lost,       \* history: logs of the batch that went with the writer
    faults      \* failures so far

writerVars == <<queue, batch, loop, lost>>
vars == <<poolVars, writerVars, running, main, produced, faults>>

-----------------------------------------------------------------------------
Loops == {"none", "waiting", "flushing", "last_flush", "finished", "failed"}
Mains == {"starting", "serving", "awaiting", "closing", "closed", "raised"}

Init ==
    /\ PoolInit
    /\ queue = {} /\ batch = {}
    /\ running = FALSE
    /\ loop = "none"
    /\ main = "starting"
    /\ produced = {}
    /\ lost = {}
    /\ faults = 0

-----------------------------------------------------------------------------
\* A transaction fails: SQLite raises, or the statement waits 5 s in vain for
\* a write lock that sits on a connection in the pool.
Fails(t, rows) ==
    /\ Fail(t)
    /\ \/ faults < MaxFaults /\ faults' = faults + 1
       \/ /\ task[t].phase = "executing"
          /\ rows # {}
          /\ \E c \in Pooled : Locked(c)
          /\ UNCHANGED faults

\* What lies between acquire() and its end.
Works(t, rows) ==
    \/ /\ \/ Connect(t) \/ PutNew(t)
          \/ Take(t)
          \/ Execute(t, rows)
          \/ Commit(t)
       /\ UNCHANGED faults
    \/ Fails(t, rows)

\* initialize()
MainStarts ==
    /\ main = "starting"
    /\ \/ /\ task[Main].outcome = "none"
          /\ \/ Acquire(Main) \/ Connect(Main) \/ PutNew(Main)
             \/ Take(Main) \/ Execute(Main, {}) \/ Commit(Main)
       \/ Return(Main)
    /\ UNCHANGED <<writerVars, running, main, produced, faults>>

StartWriter ==
    /\ main = "starting"
    /\ task[Main].phase = "idle" /\ task[Main].outcome = "ok"
    /\ running' = TRUE
    /\ loop' = "waiting"
    /\ main' = "serving"
    /\ UNCHANGED <<poolVars, queue, batch, lost, produced, faults>>

\* log_request(): the queue is unbounded, so put() does not suspend.
QueueLog(log) ==
    /\ main = "serving"
    /\ log \notin produced
    /\ queue' = queue \cup {log}
    /\ produced' = produced \cup {log}
    /\ UNCHANGED <<poolVars, batch, loop, lost, running, main, faults>>

\* A method of the blacklist, statistics, ...: one transaction.
ClientStep(k) ==
    /\ \/ /\ main = "serving"
          /\ task[k].outcome = "none"
          /\ Acquire(k)
          /\ UNCHANGED faults
       \/ Works(k, {k})
       \/ Return(k) /\ UNCHANGED faults
    /\ UNCHANGED <<writerVars, running, main, produced>>

-----------------------------------------------------------------------------
\* _batch_writer(): the first item wakes it, the others are drained, and the
\* flush begins at once, not after the interval.
WriterWakes ==
    /\ loop = "waiting"
    /\ queue # {}
    /\ batch' = batch \cup queue
    /\ queue' = {}
    /\ loop' = "flushing"
    /\ Acquire(Writer)
    /\ UNCHANGED <<lost, running, main, produced, faults>>

WriterFlushes ==
    /\ loop \in {"flushing", "last_flush"}
    /\ Works(Writer, batch)
    /\ UNCHANGED <<writerVars, running, main, produced>>

\* Mutant: the queue is cleared with the batch, and with it what came meanwhile.
WriterFlushed_ClearsQueue ==
    /\ loop \in {"flushing", "last_flush"}
    /\ task[Writer].outcome = "ok"
    /\ Return(Writer)
    /\ batch' = {}
    /\ queue' = {}
    /\ loop' = IF running THEN "waiting" ELSE "finished"
    /\ UNCHANGED <<lost, running, main, produced, faults>>

\* Mutant: the loop ends after its first flush.
WriterFlushed_Ends ==
    /\ loop \in {"flushing", "last_flush"}
    /\ task[Writer].outcome = "ok"
    /\ Return(Writer)
    /\ batch' = {}
    /\ loop' = "finished"
    /\ UNCHANGED <<queue, lost, running, main, produced, faults>>

\* The flush has succeeded: back to waiting, unless told to stop.
WriterFlushed ==
    /\ loop \in {"flushing", "last_flush"}
    /\ task[Writer].outcome = "ok"
    /\ Return(Writer)
    /\ batch' = {}
    /\ loop' = IF running THEN "waiting" ELSE "finished"
    /\ UNCHANGED <<queue, lost, running, main, produced, faults>>

\* The flush has raised: only timeout and cancellation are caught, so the
\* exception ends the task, and the batch, a local variable, is gone with it.
WriterDies ==
    /\ loop \in {"flushing", "last_flush"}
    /\ task[Writer].outcome = "error"
    /\ Return(Writer)
    /\ batch' = {}
    /\ lost' = batch
    /\ loop' = "failed"
    /\ UNCHANGED <<queue, running, main, produced, faults>>

\* Mutant: the cancelled batch is given up.
WriterFlushesAgain_GivesUp ==
    /\ loop = "flushing"
    /\ task[Writer].outcome = "cancelled"
    /\ Return(Writer)
    /\ loop' = "finished"
    /\ UNCHANGED <<queue, batch, lost, running, main, produced, faults>>

\* The flush has been cancelled; the handler of CancelledError flushes the
\* same batch again.
WriterFlushesAgain ==
    /\ loop = "flushing"
    /\ task[Writer].outcome = "cancelled"
    /\ \/ Return(Writer) /\ UNCHANGED loop
       \/ Acquire(Writer) /\ loop' = "last_flush"
    /\ UNCHANGED <<queue, batch, lost, running, main, produced, faults>>

-----------------------------------------------------------------------------
\* close(): stop the loop and cancel the task. A task that waits for an item
\* has no batch and is done; nobody looks at the queue any more. (To give a
\* connection back is not a place where the writer could be interrupted.)
Close ==
    /\ main = "serving"
    /\ \A k \in Clients : task[k].phase = "idle"
    /\ task[Writer].phase # "returning"
    /\ running' = FALSE
    /\ main' = "awaiting"
    /\ IF loop = "flushing"
       THEN Cancel(Writer, batch) /\ UNCHANGED loop
       ELSE /\ loop' = IF loop = "waiting" THEN "finished" ELSE loop
            /\ UNCHANGED poolVars
    /\ UNCHANGED <<queue, batch, lost, produced, faults>>

\* Mutant: the cancelled task is not awaited.
CloseAwaits_Nothing ==
    /\ main = "awaiting"
    /\ main' = "closing"
    /\ task' = [task EXCEPT ![Main].phase = "closing"]
    /\ UNCHANGED <<connVars, dataVars, writerVars, running, produced, faults>>

\* Mutant: close() waits for a regular end of the task only.
CloseAwaits_OnlySuccess ==
    /\ main = "awaiting"
    /\ loop = "finished"
    /\ main' = "closing"
    /\ task' = [task EXCEPT ![Main].phase = "closing"]
    /\ UNCHANGED <<connVars, dataVars, writerVars, running, produced, faults>>

\* The task has ended. If it failed, awaiting it raises the same exception
\* once more, and the pool is not closed.
CloseAwaits ==
    /\ main = "awaiting"
    /\ loop \in {"finished", "failed"}
    /\ IF loop = "finished"
       THEN main' = "closing" /\ task' = [task EXCEPT ![Main].phase = "closing"]
       ELSE main' = "raised" /\ UNCHANGED task
    /\ UNCHANGED <<connVars, dataVars, writerVars, running, produced, faults>>

ClosePool ==
    /\ main = "closing"
    /\ \/ CloseNext(Main) /\ UNCHANGED main
       \/ CloseEnds(Main) /\ main' = "closed"
    /\ UNCHANGED <<writerVars, running, produced, faults>>

-----------------------------------------------------------------------------
WriterStep ==
    WriterWakes \/ WriterFlushes \/ WriterFlushed \/ WriterDies \/ WriterFlushesAgain

MainStep == MainStarts \/ StartWriter \/ CloseAwaits \/ ClosePool

Next ==
    \/ MainStep
    \/ WriterStep
    \/ \E k \in Clients : ClientStep(k)
    \/ \E log \in Logs : QueueLog(log)
    \/ Close

Spec == Init /\ [][Next]_vars

\* Statements end and waiters are woken in turn (as for the pool); a task that
\* waits for the write lock gets it once it is free long enough.
Fairness ==
    /\ WF_vars(MainStep)
    /\ WF_vars(WriterStep)
    /\ SF_vars(WriterStep /\ (Take(Writer) \/ Execute(Writer, batch)))
    /\ \A k \in Clients :
        /\ WF_vars(ClientStep(k) /\ task[k].phase # "idle")
        /\ SF_vars(ClientStep(k) /\ (Take(k) \/ Execute(k, {k})))

FairSpec == Spec /\ Fairness

-----------------------------------------------------------------------------
TypeOK ==
    /\ PoolTypeOK
    /\ queue \subseteq Logs /\ batch \subseteq Logs
    /\ produced \subseteq Logs /\ lost \subseteq Logs
    /\ running \in BOOLEAN
    /\ loop \in Loops
    /\ main \in Mains
    /\ faults \in 0..MaxFaults

\* The writer's batch is not yet (or not again) in the table.
Unwritten == IF task[Writer].phase = "returning" /\ task[Writer].outcome = "ok"
             THEN {} ELSE batch

One(b) == IF b THEN 1 ELSE 0

\* While the database is in service, each log queued is in exactly one place: the
\* queue, the batch of the writer, once the table, or lost with the writer, which
\* takes a flush that SQLite made fail. When close() has returned, only logs no
\* iteration of the writer had fetched are missing: those of a batch whose flush was
\* cancelled, wherever it was, are in the table, at most twice. When close() has
\* raised, the batch of the flush that raised is missing as well, and nothing else.
LogsAccountedFor ==
    /\ main = "serving" /\ lost # {} => faults > 0
    /\ \A log \in produced :
        /\ main = "serving" =>
              One(log \in queue) + One(log \in Unwritten) + One(log \in lost) + table[log] = 1
        /\ main = "closed" => log \in queue \/ table[log] \in {1, 2}
        /\ main = "raised" => log \in queue \cup lost \/ table[log] \in {1, 2}

\* While the database is in service, no task leaves an open transaction behind
\* on a connection it gives back, whichever statement failed.
CleanWhileServing == main = "serving" => IdleIsClean

\* Every connection opened is in exactly one place, whoever fails or is cancelled:
\* held by one task, once in the queue, or closed. When close() has returned, all
\* are closed: no flush, cancelled or not, still holds one.
ConnectionsInOnePlace ==
    /\ NoSharing
    /\ NothingLost
    /\ main = "closed" => closed = 1..opened

\* A log queued reaches the table, as long as the database is in service and
\* no statement fails.
QuietLogsReachTheTable ==
    \A log \in Logs : log \in queue ~> (table[log] > 0 \/ main # "serving" \/ faults > 0)

\* Whoever waits for a connection gets one and is done with it in the end,
\* failing transactions and a dead writer notwithstanding.
ClientsServed ==
    \A k \in Clients : task[k].phase = "waiting" ~> task[k].phase = "idle"

\* close() comes to an end, with or without an exception.
CloseComesToAnEnd == main = "awaiting" ~> main \in {"closed", "raised"}

-----------------------------------------------------------------------------
\* What the documents and tests say and the code does not do.

\* A log queued is in the table after a while, whatever happened before.
LogsReachTheTable ==
    \A log \in Logs : log \in queue ~> (table[log] > 0 \/ main # "serving")

=============================================================================
