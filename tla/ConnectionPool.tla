--------------------------- MODULE ConnectionPool ---------------------------
(***************************************************************************)
(* The pool of SQLite connections (ConnectionPool, async_database.py), an    *)
(* asyncio.Queue of connections, as the tasks of one event loop use it.     *)
(* Every await is a place where another task may run: opening a connection, *)
(* waiting for one, the statement, the commit. A put into a queue with room *)
(* does not suspend, and there is room: no more connections exist than the  *)
(* queue has places, because initialize() is over before any other call.    *)
(*                                                                          *)
(* SQLite (WAL mode) lets one connection write at a time. What a connection *)
(* has written and not committed is dirty, a bag of rows; committed rows    *)
(* are in table.                                                            *)
(***************************************************************************)
EXTENDS Naturals, Sequences, FiniteSets

CONSTANTS
    Tasks,      \* the tasks that use the pool
    Rows,       \* rows they may insert
    MaxSize     \* max_size, 10 in the program

ASSUME PoolAssumption ==
    /\ IsFiniteSet(Tasks)
    /\ MaxSize \in Nat \ {0}

VARIABLES
    pool,           \* _pool
    initialized,    \* _initialized
    opened,         \* connections 1..opened have been opened
    closed,         \* ... and these were closed again
    dirty,          \* uncommitted rows of each connection
    table,          \* committed rows
    task            \* where each task is

connVars == <<pool, initialized, opened, closed>>
dataVars == <<dirty, table>>
poolVars == <<connVars, dataVars, task>>

-----------------------------------------------------------------------------
Conns == 1..MaxSize
NoConn == 0
NoRows == [row \in Rows |-> 0]
Plus(bag, rows) == [row \in Rows |-> IF row \in rows THEN bag[row] + 1 ELSE bag[row]]

\* A connection with an open write transaction holds the write lock.
Locked(c) == dirty[c] # NoRows
Pooled == {pool[i] : i \in 1..Len(pool)}

\* left: connections this task still has to open; outcome: how its last
\* transaction ended.
Phases == {"idle", "opening", "putting", "waiting", "executing", "committing",
           "returning", "closing"}
Outcomes == {"none", "ok", "error", "cancelled"}
IdleTask == [phase |-> "idle", conn |-> NoConn, left |-> 0, outcome |-> "none"]

PoolInit ==
    /\ pool = <<>>
    /\ initialized = FALSE
    /\ opened = 0
    /\ closed = {}
    /\ dirty = [c \in Conns |-> NoRows]
    /\ table = NoRows
    /\ task = [t \in Tasks |-> IdleTask]

-----------------------------------------------------------------------------
Goes(t, phase) == task' = [task EXCEPT ![t].phase = phase]

\* acquire() is called: the first to come opens the connections.
Acquire(t) ==
    /\ task[t].phase = "idle"
    /\ task' = [task EXCEPT ![t] =
                  [phase |-> IF initialized THEN "waiting" ELSE "opening",
                   conn |-> NoConn,
                   left |-> IF initialized THEN 0 ELSE MaxSize,
                   outcome |-> "none"]]
    /\ UNCHANGED <<connVars, dataVars>>

\* initialize(): one more connection is open and configured ...
Connect(t) ==
    /\ task[t].phase = "opening"
    /\ opened < MaxSize
    /\ opened' = opened + 1
    /\ task' = [task EXCEPT ![t].phase = "putting", ![t].conn = opened + 1]
    /\ UNCHANGED <<pool, initialized, closed, dataVars>>

\* ... and put into the queue; after the last one, on with acquire().
PutNew(t) ==
    /\ task[t].phase = "putting"
    /\ Len(pool) < MaxSize
    /\ pool' = Append(pool, task[t].conn)
    /\ initialized' = (initialized \/ task[t].left = 1)
    /\ task' = [task EXCEPT ![t].phase = IF task[t].left = 1 THEN "waiting" ELSE "opening",
                            ![t].conn = NoConn,
                            ![t].left = @ - 1]
    /\ UNCHANGED <<opened, closed, dataVars>>

\* acquire() gets a connection, and its user awaits a statement.
Take(t) ==
    /\ task[t].phase = "waiting"
    /\ pool # <<>>
    /\ pool' = Tail(pool)
    /\ task' = [task EXCEPT ![t].phase = "executing", ![t].conn = Head(pool)]
    /\ UNCHANGED <<initialized, opened, closed, dataVars>>

\* No other connection holds the write lock.
CanWrite(c) == \A other \in Conns \ {c} : ~Locked(other)

\* The statement is done; acquire() awaits the commit.
Execute(t, rows) ==
    /\ task[t].phase = "executing"
    /\ rows # {} => CanWrite(task[t].conn)
    /\ dirty' = [dirty EXCEPT ![task[t].conn] = Plus(@, rows)]
    /\ Goes(t, "committing")
    /\ UNCHANGED <<connVars, table>>

\* The commit is done, and the connection goes back.
Commit(t) ==
    /\ task[t].phase = "committing"
    /\ table' = [row \in Rows |-> table[row] + dirty[task[t].conn][row]]
    /\ dirty' = [dirty EXCEPT ![task[t].conn] = NoRows]
    /\ task' = [task EXCEPT ![t].phase = "returning", ![t].outcome = "ok"]
    /\ UNCHANGED connVars

\* Mutant: the rollback is forgotten.
Fail_NoRollback(t) ==
    /\ task[t].phase \in {"executing", "committing"}
    /\ task' = [task EXCEPT ![t].phase = "returning", ![t].outcome = "error"]
    /\ UNCHANGED <<connVars, dataVars>>

\* The statement or the commit raises: rollback, and the exception goes on.
Fail(t) ==
    /\ task[t].phase \in {"executing", "committing"}
    /\ dirty' = [dirty EXCEPT ![task[t].conn] = NoRows]
    /\ task' = [task EXCEPT ![t].phase = "returning", ![t].outcome = "error"]
    /\ UNCHANGED <<connVars, table>>

\* Mutant: a failed transaction's connection is not given back.
Return_OnlyOnSuccess(t) ==
    /\ task[t].phase = "returning"
    /\ Len(pool) < MaxSize
    /\ pool' = IF task[t].outcome = "ok" THEN Append(pool, task[t].conn) ELSE pool
    /\ task' = [task EXCEPT ![t].phase = "idle", ![t].conn = NoConn]
    /\ UNCHANGED <<initialized, opened, closed, dataVars>>

\* Mutant: the connection goes back twice after a failure.
Return_Twice(t) ==
    /\ task[t].phase = "returning"
    /\ Len(pool) < MaxSize
    /\ pool' = IF task[t].outcome = "ok" THEN Append(pool, task[t].conn)
               ELSE Append(Append(pool, task[t].conn), task[t].conn)
    /\ task' = [task EXCEPT ![t].phase = "idle", ![t].conn = NoConn]
    /\ UNCHANGED <<initialized, opened, closed, dataVars>>

\* "finally": the connection goes back into the queue.
Return(t) ==
    /\ task[t].phase = "returning"
    /\ Len(pool) < MaxSize
    /\ pool' = Append(pool, task[t].conn)
    /\ task' = [task EXCEPT ![t].phase = "idle", ![t].conn = NoConn]
    /\ UNCHANGED <<initialized, opened, closed, dataVars>>

\* The task is cancelled while it awaits the rollback of a statement or commit
\* that has just raised; the rollback has been submitted and is done all the same.
CancelRollback(t) ==
    /\ task[t].phase \in {"executing", "committing"}
    /\ dirty' = [dirty EXCEPT ![task[t].conn] = NoRows]
    /\ task' = [task EXCEPT ![t].phase = "returning", ![t].outcome = "cancelled"]
    /\ UNCHANGED <<connVars, table>>

\* The task is cancelled while it awaits the pool, the statement, the commit or
\* the rollback. CancelledError is not an Exception, so there is NO rollback
\* unless one was under way; what has been submitted to the connection's thread
\* is done all the same.
Cancel(t, rows) ==
    \/ /\ task[t].phase = "waiting"
       /\ task' = [task EXCEPT ![t].phase = "idle", ![t].outcome = "cancelled"]
       /\ UNCHANGED <<connVars, dataVars>>
    \/ /\ task[t].phase = "executing"
       /\ dirty' = [dirty EXCEPT ![task[t].conn] =
                      IF CanWrite(task[t].conn) THEN Plus(@, rows) ELSE @]
       /\ task' = [task EXCEPT ![t].phase = "returning", ![t].outcome = "cancelled"]
       /\ UNCHANGED <<connVars, table>>
    \/ /\ task[t].phase = "committing"
       /\ table' = [row \in Rows |-> table[row] + dirty[task[t].conn][row]]
       /\ dirty' = [dirty EXCEPT ![task[t].conn] = NoRows]
       /\ task' = [task EXCEPT ![t].phase = "returning", ![t].outcome = "cancelled"]
       /\ UNCHANGED connVars
    \/ CancelRollback(t)

\* close_all(): one connection after the other, as long as the queue has any;
\* SQLite rolls back what a closed connection has not committed.
CloseNext(t) ==
    /\ task[t].phase = "closing"
    /\ pool # <<>>
    /\ pool' = Tail(pool)
    /\ closed' = closed \cup {Head(pool)}
    /\ dirty' = [dirty EXCEPT ![Head(pool)] = NoRows]
    /\ UNCHANGED <<initialized, opened, table, task>>

CloseEnds(t) ==
    /\ task[t].phase = "closing"
    /\ pool = <<>>
    /\ initialized' = FALSE
    /\ Goes(t, "idle")
    /\ UNCHANGED <<pool, opened, closed, dataVars>>

-----------------------------------------------------------------------------
Task == [phase : Phases, conn : 0..MaxSize, left : 0..MaxSize, outcome : Outcomes]

PoolTypeOK ==
    /\ pool \in Seq(Conns)
    /\ Len(pool) <= MaxSize
    /\ initialized \in BOOLEAN
    /\ opened \in 0..MaxSize
    /\ closed \subseteq Conns
    /\ dirty \in [Conns -> [Rows -> Nat]]
    /\ table \in [Rows -> Nat]
    /\ task \in [Tasks -> Task]

\* A connection is in one place: held by one task, or once in the queue, or
\* closed. Two tasks on one connection would commit and roll back each other's
\* work.
Holds(t) == task[t].conn # NoConn

NoSharing ==
    /\ \A i, j \in 1..Len(pool) : pool[i] = pool[j] => i = j
    /\ \A t \in Tasks : Holds(t) => task[t].conn \notin Pooled \cup closed
    /\ \A t, u \in Tasks : Holds(t) /\ task[t].conn = task[u].conn => t = u
    /\ Pooled \cap closed = {}

\* No connection is lost: each one opened and not closed is in the queue or held
\* by a task that will give it back.
NothingLost ==
    \A c \in 1..opened : c \in Pooled \cup closed \/ \E t \in Tasks : task[t].conn = c

\* A connection waits for its next user without an open transaction: nobody
\* commits what another task left behind, and nobody is locked out.
IdleIsClean == \A c \in Pooled : ~Locked(c)

=============================================================================
