----------------------- MODULE AsyncDatabase_proofs -----------------------
(***************************************************************************)
(* What the asynchronous database guarantees for any number of clients,     *)
(* logs and connections, and wherever transactions fail or are cancelled.   *)
(***************************************************************************)
EXTENDS AsyncDatabase, TLAPS

-----------------------------------------------------------------------------
(* The pool, whatever its tasks do in whatever order. *)

\* A task holds a connection in these phases, and in no other.
Holding == {"putting", "executing", "committing", "returning"}
HoldsInPhase == \A t \in Tasks : Holds(t) <=> task[t].phase \in Holding

\* A task that opens connections has some left to open.
LeftToOpen == \A t \in Tasks : task[t].phase \in {"opening", "putting"} => task[t].left > 0

\* What has not been opened is nowhere.
OnlyOpened ==
    /\ Pooled \cup closed \subseteq 1..opened
    /\ \A t \in Tasks : task[t].conn <= opened

PoolInv ==
    /\ PoolTypeOK
    /\ HoldsInPhase
    /\ LeftToOpen
    /\ OnlyOpened
    /\ NoSharing
    /\ NothingLost

LEMMA Numbers == MaxSize \in Nat \ {0} /\ 0 \notin Conns /\ NoConn = 0 /\ Conns = 1..MaxSize
BY PoolAssumption DEF Conns, NoConn

LEMMA Bags ==
    /\ NoRows \in [Rows -> Nat]
    /\ \A bag \in [Rows -> Nat] : \A rows : Plus(bag, rows) \in [Rows -> Nat]
BY DEF NoRows, Plus

\* The data is of the right type after every statement.
LEMMA DataTypes ==
    ASSUME PoolTypeOK, NEW c, NEW rows
    PROVE  /\ [dirty EXCEPT ![c] = Plus(@, rows)] \in [Conns -> [Rows -> Nat]]
           /\ [dirty EXCEPT ![c] = NoRows] \in [Conns -> [Rows -> Nat]]
           /\ c \in Conns => [row \in Rows |-> table[row] + dirty[c][row]] \in [Rows -> Nat]
<1> USE DEF PoolTypeOK
<1>1. c \in Conns => Plus(dirty[c], rows) \in [Rows -> Nat]
  BY Bags
<1>2. [dirty EXCEPT ![c] = Plus(@, rows)] \in [Conns -> [Rows -> Nat]]
  BY <1>1
<1>3. [dirty EXCEPT ![c] = NoRows] \in [Conns -> [Rows -> Nat]]
  BY Bags
<1>4. c \in Conns => [row \in Rows |-> table[row] + dirty[c][row]] \in [Rows -> Nat]
  OBVIOUS
<1>5. QED
  BY <1>2, <1>3, <1>4

\* Every step of a task moves connections in one of five ways.
Moves(t) ==
    \/ UNCHANGED <<pool, opened, closed>> /\ task'[t].conn = task[t].conn
    \/ /\ opened' = opened + 1 /\ task'[t].conn = opened' /\ task[t].conn = NoConn
       /\ UNCHANGED <<pool, closed>>
    \/ /\ pool' = Append(pool, task[t].conn) /\ task'[t].conn = NoConn /\ task[t].conn # NoConn
       /\ UNCHANGED <<opened, closed>>
    \/ /\ pool # <<>> /\ pool' = Tail(pool) /\ task'[t].conn = Head(pool) /\ task[t].conn = NoConn
       /\ UNCHANGED <<opened, closed>>
    \/ /\ pool # <<>> /\ pool' = Tail(pool) /\ closed' = closed \cup {Head(pool)}
       /\ task'[t].conn = task[t].conn
       /\ UNCHANGED opened

\* What the queue holds before and after.
LEMMA PoolContents ==
    ASSUME PoolTypeOK
    PROVE  /\ \A c \in Conns :
                 {Append(pool, c)[i] : i \in 1..Len(Append(pool, c))} = Pooled \cup {c}
           /\ pool # <<>> => /\ Head(pool) \in Pooled
                             /\ Pooled = {Tail(pool)[i] : i \in 1..Len(Tail(pool))} \cup {Head(pool)}
           /\ Pooled \subseteq Conns
<1> USE DEF PoolTypeOK
<1>1. ASSUME NEW c \in Conns
      PROVE  {Append(pool, c)[i] : i \in 1..Len(Append(pool, c))} = Pooled \cup {c}
  <2>1. /\ Len(Append(pool, c)) = Len(pool) + 1 /\ Append(pool, c)[Len(pool) + 1] = c
        /\ \A i \in 1..Len(pool) : Append(pool, c)[i] = pool[i]
        /\ Len(pool) \in Nat
    BY <1>1
  <2>2. 1..Len(pool) + 1 = 1..Len(pool) \cup {Len(pool) + 1}
    BY <2>1
  <2>3. QED
    BY <2>1, <2>2 DEF Pooled
<1>2. ASSUME pool # <<>>
      PROVE  Pooled = {Tail(pool)[i] : i \in 1..Len(Tail(pool))} \cup {Head(pool)}
  <2>1. \A i \in 1..Len(pool) : i = 1 \/ (i - 1 \in 1..Len(Tail(pool)) /\ pool[i] = Tail(pool)[i - 1])
    BY <1>2
  <2>2. \A i \in 1..Len(Tail(pool)) : i + 1 \in 1..Len(pool) /\ Tail(pool)[i] = pool[i + 1]
    BY <1>2
  <2>3. Head(pool) = pool[1] /\ 1 \in 1..Len(pool)
    BY <1>2
  <2> DEFINE rest == {Tail(pool)[i] : i \in 1..Len(Tail(pool))}
  <2>4. \A i \in 1..Len(pool) : pool[i] \in rest \cup {Head(pool)}
    BY <2>1, <2>3
  <2>5. \A x \in rest \cup {Head(pool)} : \E i \in 1..Len(pool) : x = pool[i]
    BY <2>2, <2>3
  <2>6. QED
    BY <2>4, <2>5 DEF Pooled
<1>3. Pooled \subseteq Conns
  BY DEF Pooled
<1>4. QED
  BY <1>1, <1>2, <1>3

LEMMA MovesKeepPlaces ==
    ASSUME PoolInv, PoolTypeOK', NEW t \in Tasks, Moves(t),
           \A u \in Tasks \ {t} : task'[u].conn = task[u].conn
    PROVE  (OnlyOpened /\ NoSharing /\ NothingLost)'
<1> USE DEF PoolInv
<1>1. /\ opened \in 0..MaxSize /\ opened' \in 0..MaxSize /\ closed \subseteq Conns
      /\ pool \in Seq(Conns) /\ pool' \in Seq(Conns)
      /\ \A u \in Tasks : task[u].conn \in 0..MaxSize /\ task'[u].conn \in 0..MaxSize
  BY DEF PoolTypeOK, Task
<1>2. CASE UNCHANGED <<pool, opened, closed>> /\ task'[t].conn = task[t].conn
  <2>1. \A u \in Tasks : task'[u].conn = task[u].conn
    BY <1>2
  <2>2. Pooled' = Pooled
    BY <1>2 DEF Pooled
  <2>3. QED
    BY <1>2, <2>1, <2>2 DEF OnlyOpened, NoSharing, NothingLost, Holds
<1>3. CASE /\ opened' = opened + 1 /\ task'[t].conn = opened' /\ task[t].conn = NoConn
           /\ UNCHANGED <<pool, closed>>
  <2>1. Pooled' = Pooled
    BY <1>3 DEF Pooled
  <2>2. OnlyOpened'
    <3>1. 1..opened \subseteq 1..opened'
      BY <1>1, <1>3
    <3>2. ASSUME NEW u \in Tasks
          PROVE  task'[u].conn <= opened'
      <4>1. task[u].conn <= opened /\ task[u].conn \in 0..MaxSize
        BY <1>1 DEF OnlyOpened
      <4>2. task'[u].conn = opened' \/ task'[u].conn = task[u].conn
        BY <1>3
      <4>3. QED
        BY <1>1, <1>3, <4>1, <4>2, Numbers
    <3>3. QED
      BY <1>3, <2>1, <3>1, <3>2 DEF OnlyOpened
  <2>3. NoSharing'
    <3>1. opened' \notin Pooled \cup closed /\ \A u \in Tasks : task[u].conn # opened'
      BY <1>1, <1>3 DEF OnlyOpened
    <3>2. \A u \in Tasks : u # t => task'[u].conn = task[u].conn /\ (Holds(u)' <=> Holds(u))
      BY <1>3 DEF Holds
    <3>3. pool' = pool /\ closed' = closed /\ task'[t].conn = opened'
      BY <1>3
    <3>4. QED
      BY <2>1, <3>1, <3>2, <3>3 DEF NoSharing, Holds
  <2>4. NothingLost'
    <3>1. \A c \in 1..opened' : c = opened' \/ c \in 1..opened
      BY <1>1, <1>3
    <3>2. \A c \in 1..opened : c # NoConn
      BY <1>1, Numbers
    <3>3. \A c \in 1..opened : c \in Pooled \cup closed \/ \E u \in Tasks \ {t} : task[u].conn = c
      BY <1>3, <3>2 DEF NothingLost
    <3>4. QED
      BY <1>3, <2>1, <3>1, <3>3 DEF NothingLost
  <2>5. QED
    BY <2>2, <2>3, <2>4
<1>4. CASE /\ pool' = Append(pool, task[t].conn) /\ task'[t].conn = NoConn /\ task[t].conn # NoConn
           /\ UNCHANGED <<opened, closed>>
  <2>1. task[t].conn \in Conns
    BY <1>1, <1>4, Numbers
  <2>2. Pooled' = Pooled \cup {task[t].conn}
    BY <1>4, <2>1, PoolContents DEF Pooled
  <2>3. OnlyOpened'
    <3>1. ASSUME NEW u \in Tasks
          PROVE  task'[u].conn <= opened
      <4>1. task[u].conn <= opened
        BY DEF OnlyOpened
      <4>2. task'[u].conn = NoConn \/ task'[u].conn = task[u].conn
        BY <1>4
      <4>3. QED
        BY <1>1, <4>1, <4>2, Numbers
    <3>2. task[t].conn \in 1..opened
      BY <1>1, <1>4, <2>1, Numbers DEF OnlyOpened
    <3>3. QED
      BY <1>4, <2>2, <3>1, <3>2 DEF OnlyOpened
  <2>4. NoSharing'
    <3>1. task[t].conn \notin Pooled \cup closed
      BY <1>4 DEF NoSharing, Holds
    <3>2. \A i, j \in 1..Len(pool') : pool'[i] = pool'[j] => i = j
      BY <1>1, <1>4, <2>1, <3>1 DEF NoSharing, Pooled
    <3>3. \A u \in Tasks : Holds(u)' => Holds(u) /\ u # t /\ task'[u].conn = task[u].conn
      BY <1>4 DEF Holds
    <3>4. QED
      BY <1>4, <2>2, <3>1, <3>2, <3>3 DEF NoSharing, Holds
  <2>5. NothingLost'
    <3>1. \A c \in 1..opened : c = task[t].conn \/ c \in Pooled \cup closed
                                  \/ \E u \in Tasks \ {t} : task[u].conn = c
      BY DEF NothingLost
    <3>2. QED
      BY <1>4, <2>2, <3>1 DEF NothingLost
  <2>6. QED
    BY <2>3, <2>4, <2>5
\* The first of the queue goes to a place of its own.
<1>5. ASSUME pool # <<>>, pool' = Tail(pool)
      PROVE  /\ Head(pool) \in Conns /\ Head(pool) \in Pooled
             /\ Pooled = Pooled' \cup {Head(pool)} /\ Head(pool) \notin Pooled'
             /\ \A i, j \in 1..Len(pool') : pool'[i] = pool'[j] => i = j
             /\ Head(pool) \notin closed
             /\ \A u \in Tasks : task[u].conn # Head(pool)
  <2>1. Head(pool) \in Pooled /\ Pooled = Pooled' \cup {Head(pool)} /\ Pooled \subseteq Conns
    <3>1. Pooled' = {Tail(pool)[i] : i \in 1..Len(Tail(pool))}
      BY <1>5 DEF Pooled
    <3>2. /\ Head(pool) \in Pooled
          /\ Pooled = {Tail(pool)[i] : i \in 1..Len(Tail(pool))} \cup {Head(pool)}
          /\ Pooled \subseteq Conns
      BY <1>5, PoolContents
    <3>3. QED
      BY <3>1, <3>2
  <2>2. \A i \in 1..Len(pool') : pool'[i] = pool[i + 1] /\ i + 1 \in 1..Len(pool)
    BY <1>1, <1>5
  <2>3. Head(pool) = pool[1] /\ 1 \in 1..Len(pool)
    BY <1>1, <1>5
  <2>4. Head(pool) \notin Pooled'
    BY <2>2, <2>3 DEF NoSharing, Pooled
  <2>5. \A i, j \in 1..Len(pool') : pool'[i] = pool'[j] => i = j
    BY <2>2 DEF NoSharing
  <2>6. QED
    BY <1>1, <2>1, <2>4, <2>5, Numbers DEF NoSharing, Holds
<1>6. CASE /\ pool # <<>> /\ pool' = Tail(pool) /\ task'[t].conn = Head(pool) /\ task[t].conn = NoConn
           /\ UNCHANGED <<opened, closed>>
  <2>1. OnlyOpened'
    BY <1>1, <1>5, <1>6 DEF OnlyOpened
  <2>2. NoSharing'
    BY <1>5, <1>6 DEF NoSharing, Holds
  <2>3. NothingLost'
    <3>1. \A c \in 1..opened : c # NoConn
      BY <1>1, Numbers
    <3>2. Pooled = Pooled' \cup {Head(pool)}
      BY <1>5, <1>6
    <3>3. \A c \in 1..opened : c = Head(pool) \/ c \in Pooled' \cup closed
                                  \/ \E u \in Tasks \ {t} : task[u].conn = c
      BY <1>6, <3>1, <3>2 DEF NothingLost
    <3>4. QED
      BY <1>6, <3>3 DEF NothingLost
  <2>4. QED
    BY <2>1, <2>2, <2>3
<1>7. CASE /\ pool # <<>> /\ pool' = Tail(pool) /\ closed' = closed \cup {Head(pool)}
           /\ task'[t].conn = task[t].conn
           /\ UNCHANGED opened
  <2>1. \A u \in Tasks : task'[u].conn = task[u].conn
    BY <1>7
  <2>2. OnlyOpened'
    BY <1>1, <1>5, <1>7, <2>1 DEF OnlyOpened
  <2>3. NoSharing'
    BY <1>5, <1>7, <2>1 DEF NoSharing, Holds
  <2>4. NothingLost'
    BY <1>1, <1>5, <1>7, <2>1 DEF NothingLost
  <2>5. QED
    BY <2>2, <2>3, <2>4
<1>8. QED
  BY <1>2, <1>3, <1>4, <1>6, <1>7 DEF Moves

PoolStep(t, rows) ==
    \/ Acquire(t) \/ Connect(t) \/ PutNew(t) \/ Take(t)
    \/ Execute(t, rows) \/ Commit(t) \/ Fail(t) \/ Cancel(t, rows)
    \/ Return(t) \/ CloseNext(t) \/ CloseEnds(t)

\* What a task is after its step, on its own.
Becomes(t) ==
    /\ task'[t] \in Task
    /\ task' = [task EXCEPT ![t] = task'[t]]
    /\ task'[t].conn # NoConn <=> task'[t].phase \in Holding
    /\ task'[t].phase \in {"opening", "putting"} => task'[t].left > 0
    /\ Moves(t)

LEMMA TasksStep ==
    ASSUME PoolInv, NEW t \in Tasks, NEW rows, PoolStep(t, rows)
    PROVE  Becomes(t)
<1> USE Numbers DEF PoolInv
<1>1. /\ task \in [Tasks -> Task] /\ task[t] \in Task
      /\ opened \in 0..MaxSize /\ pool \in Seq(Conns)
      /\ task[t].conn # NoConn <=> task[t].phase \in Holding
      /\ task[t].phase \in {"opening", "putting"} => task[t].left > 0
  BY DEF PoolTypeOK, HoldsInPhase, Holds, LeftToOpen
<1>2. CASE Acquire(t)
  BY <1>1, <1>2 DEF Acquire, Becomes, Moves, connVars, Task, Phases, Outcomes, Holding
<1>3. CASE Connect(t)
  BY <1>1, <1>3 DEF Connect, Becomes, Moves, Task, Phases, Outcomes, Holding
<1>4. CASE PutNew(t)
  <2>1. task'[t] = [phase |-> IF task[t].left = 1 THEN "waiting" ELSE "opening", conn |-> NoConn,
                    left |-> task[t].left - 1, outcome |-> task[t].outcome]
    BY <1>1, <1>4 DEF PutNew, Task
  <2>2. task' = [task EXCEPT ![t] = task'[t]]
    BY <1>1, <1>4 DEF PutNew
  <2>3. task'[t] \in Task /\ task[t].left - 1 \in 0..MaxSize /\ (task[t].left # 1 => task[t].left - 1 > 0)
    BY <1>1, <1>4, <2>1 DEF PutNew, Task, Phases
  <2>4. Moves(t)
    BY <1>1, <1>4, <2>1 DEF PutNew, Moves, Holding
  <2>5. QED
    BY <2>1, <2>2, <2>3, <2>4 DEF Becomes, Holding
<1>5. CASE Take(t)
  <2>1. Head(pool) \in Conns
    BY <1>1, <1>5 DEF Take
  <2>2. task[t].conn = NoConn
    BY <1>1, <1>5 DEF Take, Holding
  <2>3. QED
    BY <1>1, <1>5, <2>1, <2>2 DEF Take, Becomes, Moves, Task, Phases, Outcomes, Holding
<1>6. CASE Execute(t, rows)
  BY <1>1, <1>6 DEF Execute, Goes, Becomes, Moves, connVars, Task, Phases, Outcomes, Holding
<1>7. CASE Commit(t)
  BY <1>1, <1>7 DEF Commit, Becomes, Moves, connVars, Task, Phases, Outcomes, Holding
<1>8. CASE Fail(t)
  BY <1>1, <1>8 DEF Fail, Becomes, Moves, connVars, Task, Phases, Outcomes, Holding
<1>9. CASE Cancel(t, rows)
  <2>1. \E phase \in {"idle", "returning"} :
          /\ task' = [task EXCEPT ![t].phase = phase, ![t].outcome = "cancelled"]
          /\ task[t].phase \in Holding <=> phase \in Holding
    BY <1>9 DEF Cancel, CancelRollback, Holding
  <2>2. UNCHANGED connVars
    BY <1>9 DEF Cancel, CancelRollback
  <2>3. PICK phase \in {"idle", "returning"} :
          /\ task' = [task EXCEPT ![t].phase = phase, ![t].outcome = "cancelled"]
          /\ task[t].phase \in Holding <=> phase \in Holding
    BY <2>1
  <2>4. task'[t] = [task[t] EXCEPT !.phase = phase, !.outcome = "cancelled"]
    BY <1>1, <2>3
  <2>5. task'[t] \in Task /\ task'[t].conn = task[t].conn /\ task'[t].phase = phase
    BY <1>1, <2>4 DEF Task, Phases, Outcomes
  <2>6. task' = [task EXCEPT ![t] = task'[t]]
    BY <1>1, <2>3, <2>4
  <2>7. phase \notin {"opening", "putting"}
    OBVIOUS
  <2>8. QED
    BY <1>1, <2>2, <2>3, <2>5, <2>6, <2>7 DEF Becomes, Moves, connVars
<1>10. CASE Return(t)
  BY <1>1, <1>10 DEF Return, Becomes, Moves, Task, Phases, Outcomes, Holding
<1>11. CASE CloseNext(t)
  BY <1>1, <1>11 DEF CloseNext, Becomes, Moves
<1>12. CASE CloseEnds(t)
  BY <1>1, <1>12 DEF CloseEnds, Goes, Becomes, Moves, Task, Phases, Holding
<1>13. QED
  BY <1>2, <1>3, <1>4, <1>5, <1>6, <1>7, <1>8, <1>9, <1>10, <1>11, <1>12 DEF PoolStep

LEMMA PoolStepType ==
    ASSUME PoolInv, NEW t \in Tasks, NEW rows, PoolStep(t, rows)
    PROVE  PoolTypeOK'
<1> USE Numbers DEF PoolInv
<1>1. /\ PoolTypeOK /\ task[t] \in Task /\ task[t].conn \in 0..MaxSize
      /\ task[t].conn # NoConn <=> task[t].phase \in Holding
  BY DEF PoolTypeOK, HoldsInPhase, Holds, Task
<1>2. task' \in [Tasks -> Task]
  BY <1>1, TasksStep DEF Becomes, PoolTypeOK
<1>3. /\ pool' \in Seq(Conns) /\ Len(pool') <= MaxSize
      /\ initialized' \in BOOLEAN
      /\ opened' \in 0..MaxSize
      /\ closed' \subseteq Conns
      /\ dirty' \in [Conns -> [Rows -> Nat]]
      /\ table' \in [Rows -> Nat]
  <2>1. CASE UNCHANGED connVars
    <3>1. /\ dirty' \in [Conns -> [Rows -> Nat]]
          /\ table' \in [Rows -> Nat]
      <4>1. CASE Acquire(t)
        BY <1>1, <4>1 DEF Acquire, dataVars, PoolTypeOK
      <4>2. CASE Execute(t, rows)
        BY <1>1, <4>2, DataTypes DEF Execute, PoolTypeOK
      <4>3. CASE Commit(t)
        <5>1. task[t].conn \in Conns
          BY <1>1, <4>3 DEF Commit, Holding
        <5>2. QED
          BY <1>1, <4>3, <5>1, DataTypes DEF Commit, PoolTypeOK
      <4>4. CASE Fail(t)
        BY <1>1, <4>4, DataTypes DEF Fail, PoolTypeOK
      <4>5. CASE Cancel(t, rows)
        <5>1. CASE UNCHANGED dataVars
          BY <1>1, <5>1 DEF dataVars, PoolTypeOK
        <5>2. CASE task[t].phase = "executing" /\ ~CancelRollback(t)
          <6>1. /\ table' = table
                /\ \/ dirty' = [dirty EXCEPT ![task[t].conn] = Plus(@, rows)]
                   \/ dirty' = [dirty EXCEPT ![task[t].conn] = @]
            BY <4>5, <5>2 DEF Cancel
          <6>2. [dirty EXCEPT ![task[t].conn] = @] \in [Conns -> [Rows -> Nat]]
            BY <1>1 DEF PoolTypeOK
          <6>3. [dirty EXCEPT ![task[t].conn] = Plus(@, rows)] \in [Conns -> [Rows -> Nat]]
            BY <1>1, DataTypes
          <6>4. table \in [Rows -> Nat]
            BY <1>1 DEF PoolTypeOK
          <6>5. QED
            BY <6>1, <6>2, <6>3, <6>4
        <5>3. CASE task[t].phase = "committing" /\ ~CancelRollback(t)
          <6>1. task[t].conn \in Conns
            BY <1>1, <5>3 DEF Holding
          <6>2. /\ table' = [row \in Rows |-> table[row] + dirty[task[t].conn][row]]
                /\ dirty' = [dirty EXCEPT ![task[t].conn] = NoRows]
            BY <4>5, <5>3 DEF Cancel
          <6>3. QED
            BY <1>1, <6>1, <6>2, DataTypes
        <5>4. CASE CancelRollback(t)
          BY <1>1, <5>4, DataTypes DEF CancelRollback, PoolTypeOK
        <5>5. QED
          BY <4>5, <5>1, <5>2, <5>3, <5>4 DEF Cancel
      <4>6. CASE Connect(t) \/ PutNew(t) \/ Take(t) \/ Return(t) \/ CloseEnds(t)
        BY <1>1, <4>6 DEF Connect, PutNew, Take, Return, CloseEnds, dataVars, PoolTypeOK
      <4>7. CASE CloseNext(t)
        BY <1>1, <4>7, DataTypes DEF CloseNext, PoolTypeOK
      <4>8. QED
        BY <4>1, <4>2, <4>3, <4>4, <4>5, <4>6, <4>7 DEF PoolStep
    <3>2. QED
      BY <1>1, <2>1, <3>1 DEF connVars, PoolTypeOK
  <2>2. CASE Connect(t)
    BY <1>1, <2>2 DEF Connect, dataVars, PoolTypeOK
  <2>3. CASE PutNew(t)
    <3>1. task[t].conn \in Conns
      BY <1>1, <2>3 DEF PutNew, Holding
    <3>2. pool' \in Seq(Conns) /\ Len(pool') <= MaxSize
      BY <1>1, <2>3, <3>1 DEF PutNew, PoolTypeOK
    <3>3. initialized' \in BOOLEAN
      BY <2>3, Zenon DEF PutNew
    <3>4. QED
      BY <1>1, <2>3, <3>2, <3>3 DEF PutNew, dataVars, PoolTypeOK
  <2>4. CASE Take(t)
    <3>1. pool' \in Seq(Conns) /\ Len(pool') <= MaxSize
      BY <1>1, <2>4 DEF Take, PoolTypeOK
    <3>2. QED
      BY <1>1, <2>4, <3>1 DEF Take, dataVars, PoolTypeOK
  <2>5. CASE Return(t)
    <3>1. task[t].conn \in Conns
      BY <1>1, <2>5 DEF Return, Holding
    <3>2. pool' \in Seq(Conns) /\ Len(pool') <= MaxSize
      BY <1>1, <2>5, <3>1 DEF Return, PoolTypeOK
    <3>3. QED
      BY <1>1, <2>5, <3>2 DEF Return, dataVars, PoolTypeOK
  <2>6. CASE CloseNext(t)
    <3>1. pool' \in Seq(Conns) /\ Len(pool') <= MaxSize /\ Head(pool) \in Conns
      BY <1>1, <2>6 DEF CloseNext, PoolTypeOK
    <3>2. QED
      BY <1>1, <2>6, <3>1, DataTypes DEF CloseNext, PoolTypeOK
  <2>7. CASE CloseEnds(t)
    BY <1>1, <2>7 DEF CloseEnds, dataVars, PoolTypeOK
  <2>8. QED
    BY <2>1, <2>2, <2>3, <2>4, <2>5, <2>6, <2>7
       DEF PoolStep, Acquire, Execute, Commit, Fail, Cancel, CancelRollback, connVars
<1>4. QED
  BY <1>2, <1>3 DEF PoolTypeOK

\* The pool keeps its order, whichever task makes a step.
LEMMA PoolStepKeepsInv ==
    ASSUME PoolInv, NEW t \in Tasks, NEW rows, PoolStep(t, rows)
    PROVE  PoolInv'
<1>1. PoolTypeOK' /\ Becomes(t) /\ task \in [Tasks -> Task]
  BY PoolStepType, TasksStep DEF PoolInv, PoolTypeOK
<1>2. \A u \in Tasks \ {t} : task'[u] = task[u]
  BY <1>1 DEF Becomes
<1>3. (OnlyOpened /\ NoSharing /\ NothingLost)'
  BY <1>1, <1>2, MovesKeepPlaces DEF Becomes
<1>4. HoldsInPhase' /\ LeftToOpen'
  BY <1>1, <1>2 DEF PoolInv, HoldsInPhase, LeftToOpen, Holds, Becomes
<1>5. QED
  BY <1>1, <1>3, <1>4 DEF PoolInv

-----------------------------------------------------------------------------
(* Where handler, writer and clients can be at the same time. *)

\* While the pool is being opened.
MainOpens ==
    LET me == task[Main]
    IN  /\ me.phase \in {"opening", "putting"} => main = "starting"
        /\ main = "starting" /\ me.phase = "idle" /\ me.outcome = "none" => opened = 0 /\ ~initialized
        /\ me.phase = "opening" => ~initialized /\ me.left + opened = MaxSize
        /\ me.phase = "putting" => ~initialized /\ me.left + opened = MaxSize + 1
        /\ main = "starting" /\ (me.phase \notin {"idle", "opening", "putting"} \/ me.outcome # "none")
              => initialized
        /\ main \in {"serving", "awaiting", "closing"} => initialized

MainFits ==
    /\ main \notin {"starting", "closing"} => task[Main].phase = "idle"
    /\ main = "closing" => task[Main].phase = "closing"
    /\ main = "starting" => /\ task[Main].phase # "closing" /\ task[Main].outcome \in {"none", "ok"}
                            /\ task[Main].phase = "returning" => task[Main].outcome = "ok"
    /\ main = "closed" => pool = <<>>

ClientsFit ==
    \A k \in Clients :
        /\ task[k].phase \notin {"opening", "putting", "closing"}
        /\ main # "serving" => task[k].phase = "idle"

WriterFits ==
    LET me == task[Writer]
    IN  /\ me.phase \notin {"opening", "putting", "closing"}
        /\ loop \notin {"flushing", "last_flush"} => me.phase = "idle"
        /\ me.phase \in {"waiting", "executing", "committing"} => me.outcome = "none"
        /\ me.phase = "returning" => me.outcome # "none"
        /\ loop \in {"flushing", "last_flush"} /\ me.phase = "idle" => me.outcome = "cancelled"
        /\ me.outcome = "cancelled" => main \notin {"starting", "serving"} /\ loop # "last_flush"
        /\ main = "awaiting" /\ loop = "flushing" => me.outcome = "cancelled"

LoopFits ==
    /\ running <=> main = "serving"
    /\ loop = "none" <=> main = "starting"
    /\ main = "serving" => loop \in {"waiting", "flushing", "failed"}
    /\ main = "awaiting" => loop # "waiting"
    /\ main \in {"closing", "closed"} => loop = "finished"
    /\ main = "raised" => loop = "failed"
    /\ loop \in {"none", "waiting", "failed"} => batch = {}
    /\ loop # "failed" => lost = {}
    /\ loop \in {"flushing", "last_flush"} => batch # {}

Control == MainOpens /\ MainFits /\ ClientsFit /\ WriterFits /\ LoopFits

-----------------------------------------------------------------------------
(* What is written and what is not. *)

\* The rows of a task's transaction.
RowsOf(t) == IF t = Writer THEN batch ELSE IF t = Main THEN {} ELSE {t}

\* What is not committed belongs to a task that is about to.
Uncommitted ==
    /\ \A c \in Conns : Locked(c) => \E t \in Tasks : task[t].conn = c /\ task[t].phase = "committing"
    /\ \A t \in Tasks : task[t].phase = "committing" =>
           dirty[task[t].conn] = Plus(NoRows, RowsOf(t))

\* It is so before close(), when no task is cancelled.
DirtyFits == main \in {"starting", "serving"} => Uncommitted

\* Before close() no flush fails but by SQLite: no connection in the pool is locked.
Blamed ==
    LET me == task[Writer]
    IN  main \in {"starting", "serving"} /\ faults = 0 =>
            lost = {} /\ ~(me.phase = "returning" /\ me.outcome = "error")

Known == queue \subseteq produced /\ batch \subseteq produced /\ lost \subseteq produced

\* Before close(), each log is in one place.
InPlace(log) ==
    IF log \in produced
    THEN One(log \in queue) + One(log \in Unwritten) + One(log \in lost) + table[log] = 1
    ELSE table[log] = 0

LogsInOnePlace == main \in {"starting", "serving"} => \A log \in Logs : InPlace(log)

\* At most one connection holds the write lock, the writer's if it is about to commit.
Locks ==
    /\ \A c, d \in Conns : Locked(c) /\ Locked(d) => c = d
    /\ task[Writer].phase = "committing" => \A c \in Conns \ {task[Writer].conn} : ~Locked(c)

\* The writer has committed and is about to say so.
Done == task[Writer].phase = "returning" /\ task[Writer].outcome = "ok"

\* A cancelled flush is repeated. What it has left on some connection, or in
\* the table, is there once; the second flush adds one.
AtMostTwice(log) ==
    IF log \notin batch
    THEN table[log] = 1 /\ \A c \in Conns : dirty[c][log] = 0
    ELSE IF Done THEN table[log] \in {1, 2}
    ELSE /\ table[log] \in {0, 1}
         /\ IF task[Writer].phase = "committing"
            THEN table[log] + dirty[task[Writer].conn][log] \in {1, 2}
            ELSE \A c \in Conns : table[log] + dirty[c][log] <= 1

Again ==
    main = "awaiting" /\ loop \in {"flushing", "last_flush"} =>
        Locks /\ \A log \in produced \ queue : AtMostTwice(log)

\* When the writer has ended, one way or the other, and close() knows.
LogsWritten ==
    main \notin {"starting", "serving"} /\ loop \in {"finished", "failed"} =>
        \A log \in produced \ (queue \cup lost) : table[log] \in {1, 2}

DatabaseInv ==
    /\ TypeOK
    /\ PoolInv
    /\ Control
    /\ DirtyFits
    /\ Blamed
    /\ Known
    /\ LogsInOnePlace
    /\ Again
    /\ LogsWritten

-----------------------------------------------------------------------------
(* The steps, one after the other. *)

\* A step of a task leaves the others where they are.
LEMMA OnlyOneMoves ==
    ASSUME PoolInv, NEW t \in Tasks, NEW rows, PoolStep(t, rows)
    PROVE  \A u \in Tasks \ {t} : task'[u] = task[u]
BY TasksStep DEF Becomes, PoolInv, PoolTypeOK

LEMMA Callers ==
    /\ Main \in Tasks /\ Writer \in Tasks /\ Clients \subseteq Tasks
    /\ Main # Writer /\ Main \notin Clients /\ Writer \notin Clients
    /\ \A t \in Tasks : t = Main \/ t = Writer \/ t \in Clients
    /\ \A t \in Clients : t \in Rows /\ t \notin Logs
    /\ Logs \subseteq Rows
BY DatabaseAssumption

LEMMA InitControl == Init => PoolInv /\ Control
<1> SUFFICES ASSUME Init PROVE PoolInv /\ Control
  OBVIOUS
<1> USE DEF Init, PoolInit
<1>1. \A t \in Tasks : task[t] = IdleTask
  OBVIOUS
<1>2. PoolTypeOK
  <2>1. IdleTask \in Task
    BY Numbers DEF IdleTask, Task, Phases, Outcomes
  <2>2. pool \in Seq(Conns) /\ Len(pool) = 0 /\ Len(pool) <= MaxSize /\ opened \in 0..MaxSize
    <3>1. 0 <= MaxSize /\ 0 \in 0..MaxSize
      BY Numbers
    <3>2. <<>> \in Seq(Conns) /\ Len(<<>>) = 0
      OBVIOUS
    <3>3. QED
      BY <3>1, <3>2
  <2>3. dirty \in [Conns -> [Rows -> Nat]] /\ table \in [Rows -> Nat]
    BY Bags
  <2>4. task \in [Tasks -> Task]
    BY <2>1
  <2>5. QED
    BY <2>2, <2>3, <2>4, closed = {}, initialized = FALSE DEF PoolTypeOK
<1>3. Pooled = {}
  BY DEF Pooled
<1>4. PoolInv
  BY <1>1, <1>2, <1>3, Numbers
     DEF PoolInv, HoldsInPhase, LeftToOpen, OnlyOpened, NoSharing, NothingLost, IdleTask, Holds, Holding
<1>5. Control
  BY <1>1, Callers, Numbers
     DEF Control, MainOpens, MainFits, ClientsFit, WriterFits, LoopFits, IdleTask
<1>6. QED
  BY <1>4, <1>5

\* Who makes which step of the pool.
LEMMA StepsOfThePool ==
    ASSUME Next
    PROVE  \/ \E t \in Tasks : PoolStep(t, RowsOf(t))
           \/ /\ UNCHANGED <<connVars, dataVars>>
              /\ \/ UNCHANGED task
                 \/ CloseAwaits /\ task' = [task EXCEPT ![Main].phase = "closing"]
<1> USE DEF PoolStep
<1>1. CASE MainStarts
  BY <1>1, Callers DEF MainStarts, RowsOf
<1>2. CASE StartWriter \/ \E log \in Logs : QueueLog(log)
  BY <1>2 DEF StartWriter, QueueLog, poolVars
<1>3. CASE CloseAwaits
  BY <1>3 DEF CloseAwaits
<1>4. CASE ClosePool
  BY <1>4, Callers DEF ClosePool
<1>5. CASE WriterWakes \/ WriterFlushed \/ WriterDies \/ WriterFlushesAgain
  BY <1>5, Callers DEF WriterWakes, WriterFlushed, WriterDies, WriterFlushesAgain
<1>6. CASE WriterFlushes
  BY <1>6, Callers DEF WriterFlushes, Works, Fails, RowsOf
<1>7. CASE \E k \in Clients : ClientStep(k)
  <2>1. PICK k \in Clients : ClientStep(k)
    BY <1>7
  <2>2. k \in Tasks /\ RowsOf(k) = {k}
    BY Callers DEF RowsOf
  <2>3. PoolStep(k, {k})
    BY <2>1 DEF ClientStep, Works, Fails
  <2>4. QED
    BY <2>2, <2>3
<1>8. CASE Close
  BY <1>8, Callers DEF Close, poolVars, RowsOf
<1>9. QED
  BY <1>1, <1>2, <1>3, <1>4, <1>5, <1>6, <1>7, <1>8 DEF Next, MainStep, WriterStep

LEMMA PoolAlways ==
    ASSUME PoolInv, Control, [Next]_vars
    PROVE  PoolInv'
<1>1. CASE \E t \in Tasks : PoolStep(t, RowsOf(t))
  BY <1>1, PoolStepKeepsInv
<1>2. CASE UNCHANGED <<connVars, dataVars, task>>
  <2>1. Pooled' = Pooled /\ \A t : Holds(t)' <=> Holds(t)
    BY <1>2 DEF Pooled, Holds, connVars
  <2>2. PoolTypeOK' /\ HoldsInPhase' /\ LeftToOpen'
    BY <1>2, <2>1 DEF PoolInv, PoolTypeOK, HoldsInPhase, LeftToOpen, connVars, dataVars
  <2>3. OnlyOpened' /\ NoSharing' /\ NothingLost'
    BY <1>2, <2>1 DEF PoolInv, OnlyOpened, NoSharing, NothingLost, connVars
  <2>4. QED
    BY <2>2, <2>3 DEF PoolInv
<1>3. CASE /\ UNCHANGED <<connVars, dataVars>>
           /\ CloseAwaits /\ task' = [task EXCEPT ![Main].phase = "closing"]
  <2>1. task[Main].phase = "idle" /\ Main \in Tasks
    BY <1>3, Callers DEF Control, MainFits, CloseAwaits
  <2>2. /\ \A t \in Tasks : task'[t].conn = task[t].conn /\ task'[t].left = task[t].left
        /\ \A t \in Tasks \ {Main} : task'[t] = task[t]
        /\ task'[Main].phase = "closing" /\ task' \in [Tasks -> Task]
    BY <1>3, <2>1 DEF PoolInv, PoolTypeOK, Task, Phases
  <2>3. PoolTypeOK'
    BY <1>3, <2>2 DEF PoolInv, PoolTypeOK, connVars, dataVars
  <2>4. Pooled' = Pooled
    BY <1>3 DEF Pooled, connVars
  <2>5. HoldsInPhase' /\ LeftToOpen'
    BY <2>1, <2>2 DEF PoolInv, HoldsInPhase, LeftToOpen, Holds, Holding
  <2>6. OnlyOpened' /\ NoSharing' /\ NothingLost'
    BY <1>3, <2>2, <2>4 DEF PoolInv, OnlyOpened, NoSharing, NothingLost, Holds, connVars
  <2>7. QED
    BY <2>3, <2>5, <2>6 DEF PoolInv
<1>4. QED
  BY <1>1, <1>2, <1>3, StepsOfThePool DEF vars, poolVars

LEMMA TypesAlways ==
    ASSUME TypeOK, PoolTypeOK', [Next]_vars
    PROVE  TypeOK'
<1>1. CASE UNCHANGED vars
  BY <1>1 DEF TypeOK, vars, writerVars
<1>2. CASE MainStep
  BY <1>2 DEF MainStep, MainStarts, StartWriter, CloseAwaits, ClosePool, TypeOK, writerVars, Loops, Mains
<1>3. CASE WriterWakes \/ WriterFlushed \/ WriterDies \/ WriterFlushesAgain
  BY <1>3 DEF WriterWakes, WriterFlushed, WriterDies, WriterFlushesAgain, TypeOK, Loops
<1>4. ASSUME NEW t, NEW rows, Works(t, rows)
      PROVE  faults' \in 0..MaxFaults
  BY <1>4, DatabaseAssumption DEF Works, Fails, TypeOK
<1>5. CASE WriterFlushes
  BY <1>4, <1>5 DEF WriterFlushes, TypeOK, writerVars
<1>6. CASE \E k \in Clients : ClientStep(k)
  <2>1. faults' \in 0..MaxFaults
    BY <1>4, <1>6 DEF ClientStep, TypeOK
  <2>2. QED
    BY <1>6, <2>1 DEF ClientStep, TypeOK, writerVars
<1>7. CASE \E log \in Logs : QueueLog(log)
  BY <1>7 DEF QueueLog, TypeOK
<1>8. CASE Close
  BY <1>8 DEF Close, TypeOK, Loops, Mains
<1>9. QED
  BY <1>1, <1>2, <1>3, <1>5, <1>6, <1>7, <1>8 DEF Next, WriterStep

\* What the steps of the pool do to the task that makes them.
LEMMA NewPlaces ==
    ASSUME PoolInv, NEW t \in Tasks, NEW rows
    PROVE  /\ Acquire(t) => /\ task'[t].phase = IF initialized THEN "waiting" ELSE "opening"
                            /\ task'[t].left = IF initialized THEN 0 ELSE MaxSize
                            /\ task'[t].conn = NoConn /\ task'[t].outcome = "none"
           /\ Connect(t) => /\ task'[t].phase = "putting" /\ task'[t].left = task[t].left
                            /\ task'[t].outcome = task[t].outcome
           /\ PutNew(t) => /\ task'[t].phase = IF task[t].left = 1 THEN "waiting" ELSE "opening"
                           /\ task'[t].left = task[t].left - 1
                           /\ task'[t].outcome = task[t].outcome
           /\ Take(t) => /\ task'[t].phase = "executing" /\ task'[t].conn = Head(pool)
                         /\ task'[t].outcome = task[t].outcome
           /\ Execute(t, rows) => /\ task'[t].phase = "committing" /\ task'[t].conn = task[t].conn
                                  /\ task'[t].outcome = task[t].outcome
           /\ Commit(t) => /\ task'[t].phase = "returning" /\ task'[t].conn = task[t].conn
                           /\ task'[t].outcome = "ok"
           /\ Fail(t) => /\ task'[t].phase = "returning" /\ task'[t].conn = task[t].conn
                         /\ task'[t].outcome = "error"
           /\ Return(t) => /\ task'[t].phase = "idle" /\ task'[t].conn = NoConn
                           /\ task'[t].outcome = task[t].outcome
           /\ CloseEnds(t) => task'[t].phase = "idle"
<1>1. task \in [Tasks -> Task]
  BY DEF PoolInv, PoolTypeOK
<1>2. QED
  BY <1>1 DEF Acquire, Connect, PutNew, Take, Execute, Goes, Commit, Fail, Return, CloseEnds, Task

LEMMA ControlAlways ==
    ASSUME TypeOK, PoolInv, Control, [Next]_vars
    PROVE  Control'
<1> USE Callers DEF Control
<1>1. CASE MainStarts
  <2>1. /\ main = "starting" /\ UNCHANGED <<batch, loop, lost, running, main>>
        /\ \A u \in Tasks \ {Main} : task'[u] = task[u]
    BY <1>1, OnlyOneMoves DEF MainStarts, writerVars, PoolStep
  <2>2. ClientsFit' /\ WriterFits' /\ LoopFits'
    BY <2>1 DEF ClientsFit, WriterFits, LoopFits
  <2>3. /\ opened \in 0..MaxSize /\ MaxSize \in Nat \ {0} /\ task[Main].left \in 0..MaxSize
        /\ task[Main].phase = "putting" => task[Main].left > 0
    BY Numbers DEF PoolInv, PoolTypeOK, Task, LeftToOpen
  <2>4. MainFits'
    BY <1>1, <2>1, NewPlaces DEF MainStarts, MainFits
  <2>5. MainOpens'
    <3>1. CASE Acquire(Main) /\ task[Main].outcome = "none"
      BY <2>1, <2>3, <3>1, NewPlaces DEF MainOpens, Acquire, connVars
    <3>2. CASE Connect(Main)
      <4>1. /\ task[Main].phase = "opening" /\ task'[Main].phase = "putting"
            /\ task'[Main].left = task[Main].left /\ opened' = opened + 1
            /\ task'[Main].outcome = task[Main].outcome /\ UNCHANGED initialized
        BY <3>2, NewPlaces DEF Connect
      <4>2. ~initialized /\ task[Main].left + opened = MaxSize
        BY <4>1 DEF MainOpens
      <4>3. task'[Main].left + opened' = MaxSize + 1
        BY <2>3, <4>1, <4>2
      <4>4. task[Main].outcome = "none"
        BY <2>1, <4>1, <4>2 DEF MainOpens
      <4>5. QED
        BY <2>1, <4>1, <4>2, <4>3, <4>4 DEF MainOpens
    <3>3. CASE PutNew(Main)
      <4>1. /\ task[Main].phase = "putting"
            /\ task'[Main].phase = IF task[Main].left = 1 THEN "waiting" ELSE "opening"
            /\ task'[Main].left = task[Main].left - 1 /\ opened' = opened
            /\ task'[Main].outcome = task[Main].outcome
        BY <3>3, NewPlaces DEF PutNew
      <4>2. ~initialized /\ task[Main].left + opened = MaxSize + 1
        BY <4>1 DEF MainOpens
      <4>3. task'[Main].left + opened' = MaxSize
        BY <2>3, <4>1, <4>2
      <4>4. initialized' <=> task[Main].left = 1
        BY <3>3, <4>2, Zenon DEF PutNew
      <4>5. \/ task'[Main].phase = "opening" /\ ~initialized'
            \/ task'[Main].phase = "waiting" /\ initialized'
        <5>1. CASE task[Main].left = 1
          BY <4>1, <4>4, <5>1, Zenon
        <5>2. CASE task[Main].left # 1
          BY <4>1, <4>4, <5>2, Zenon
        <5>3. QED
          BY <5>1, <5>2
      <4>6. task[Main].outcome = "none"
        BY <2>1, <4>1, <4>2 DEF MainOpens
      <4>7. CASE task'[Main].phase = "opening"
        <5>1. ~initialized'
          BY <4>5, <4>7
        <5>2. task'[Main].left + opened' = MaxSize /\ task'[Main].outcome = "none"
          BY <4>1, <4>3, <4>6
        <5>3. QED
          BY <2>1, <4>7, <5>1, <5>2 DEF MainOpens
      <4>8. CASE task'[Main].phase = "waiting" /\ initialized'
        BY <2>1, <4>8 DEF MainOpens
      <4>9. QED
        BY <4>5, <4>7, <4>8
    <3>4. CASE Take(Main)
      BY <2>1, <2>3, <3>4, NewPlaces DEF MainOpens, Take
    <3>5. CASE Execute(Main, {}) \/ Commit(Main)
      BY <2>1, <2>3, <3>5, NewPlaces DEF MainOpens, Execute, Commit, connVars
    <3>6. CASE Return(Main)
      BY <2>1, <2>3, <3>6, NewPlaces DEF MainOpens, MainFits, Return
    <3>7. QED
      BY <1>1, <3>1, <3>2, <3>3, <3>4, <3>5, <3>6 DEF MainStarts
  <2>6. QED
    BY <2>2, <2>4, <2>5
<1>2. CASE StartWriter
  BY <1>2 DEF StartWriter, poolVars, connVars, MainOpens, MainFits, ClientsFit, WriterFits, LoopFits
<1>3. CASE CloseAwaits
  <2>1. CASE loop = "failed"
    BY <1>3, <2>1 DEF CloseAwaits, connVars, writerVars, MainOpens, MainFits, ClientsFit, WriterFits, LoopFits
  <2>2. CASE loop = "finished"
    <3>1. /\ task'[Main].phase = "closing"
          /\ \A u \in Tasks \ {Main} : task'[u] = task[u]
          /\ main = "awaiting" /\ main' = "closing" /\ UNCHANGED <<initialized, loop, batch, lost, running>>
      BY <1>3, <2>2 DEF CloseAwaits, PoolInv, PoolTypeOK, Task, connVars, writerVars
    <3>2. QED
      BY <2>2, <3>1 DEF MainOpens, MainFits, ClientsFit, WriterFits, LoopFits
  <2>3. QED
    BY <1>3, <2>1, <2>2 DEF CloseAwaits
<1>4. CASE ClosePool
  <2>1. CASE CloseNext(Main) /\ UNCHANGED main
    BY <1>4, <2>1 DEF ClosePool, CloseNext, writerVars, MainOpens, MainFits, ClientsFit, WriterFits, LoopFits
  <2>2. CASE CloseEnds(Main) /\ main' = "closed"
    <3>1. /\ task'[Main].phase = "idle" /\ UNCHANGED <<pool, loop, batch, lost, running>>
          /\ \A u \in Tasks \ {Main} : task'[u] = task[u]
          /\ main = "closing" /\ pool = <<>>
      BY <1>4, <2>2, NewPlaces, OnlyOneMoves DEF ClosePool, CloseEnds, PoolStep, writerVars
    <3>2. QED
      BY <2>2, <3>1 DEF MainOpens, MainFits, ClientsFit, WriterFits, LoopFits
  <2>3. QED
    BY <1>4, <2>1, <2>2 DEF ClosePool
<1>5. CASE WriterStep
  <2>1. \A u \in Tasks \ {Writer} : task'[u] = task[u]
    BY <1>5, OnlyOneMoves DEF WriterStep, WriterWakes, WriterFlushes, Works, Fails, WriterFlushed, WriterDies,
                              WriterFlushesAgain, PoolStep
  <2>2. /\ loop \in {"waiting", "flushing", "last_flush"} /\ UNCHANGED <<running, main>>
        /\ main \in {"serving", "awaiting"} /\ initialized
    BY <1>5 DEF WriterStep, WriterWakes, WriterFlushes, WriterFlushed, WriterDies,
                WriterFlushesAgain, LoopFits, MainOpens, TypeOK, Mains
  <2>3. ~Connect(Writer) /\ ~PutNew(Writer)
    BY DEF Connect, PutNew, WriterFits
  <2>4. UNCHANGED initialized /\ opened' = opened
    BY <1>5, <2>3 DEF WriterStep, WriterWakes, WriterFlushes, Works, Fails, WriterFlushed, WriterDies,
                      WriterFlushesAgain, Acquire, Take, Execute, Commit, Fail, Return, connVars
  <2>5. MainOpens' /\ ClientsFit'
    BY <2>1, <2>2, <2>4 DEF MainOpens, ClientsFit
  <2>6. MainFits'
    BY <2>1, <2>2 DEF MainFits
  <2>7. WriterFits' /\ LoopFits'
    <3>1. CASE WriterWakes
      BY <2>2, <3>1, NewPlaces DEF WriterWakes, WriterFits, LoopFits
    <3>2. CASE WriterFlushes
      <4>1. UNCHANGED <<loop, main, running, batch, lost>> /\ loop \in {"flushing", "last_flush"}
        BY <3>2 DEF WriterFlushes, writerVars
      <4>2. CASE Take(Writer) \/ Execute(Writer, batch)
        <5>1. /\ task[Writer].phase \in {"waiting", "executing"}
              /\ task'[Writer].phase \in {"executing", "committing"}
              /\ task'[Writer].outcome = task[Writer].outcome
          BY <4>2, NewPlaces DEF Take, Execute
        <5>2. QED
          BY <2>2, <4>1, <5>1 DEF WriterFits, LoopFits
      <4>3. CASE Commit(Writer) \/ Fail(Writer)
        <5>1. /\ task'[Writer].phase = "returning"
              /\ task'[Writer].outcome \in {"ok", "error"}
              /\ task[Writer].phase \in {"executing", "committing"}
          BY <4>3, NewPlaces DEF Commit, Fail
        <5>2. QED
          BY <2>2, <4>1, <5>1 DEF WriterFits, LoopFits
      <4>4. QED
        BY <3>2, <2>3, <4>2, <4>3 DEF WriterFlushes, Works, Fails
    <3>3. CASE WriterFlushed
      BY <2>2, <3>3, NewPlaces DEF WriterFlushed, WriterFits, LoopFits
    <3>4. CASE WriterDies
      BY <2>2, <3>4, NewPlaces DEF WriterDies, WriterFits, LoopFits
    <3>5. CASE WriterFlushesAgain
      BY <2>2, <3>5, NewPlaces DEF WriterFlushesAgain, WriterFits, LoopFits
    <3>6. QED
      BY <1>5, <3>1, <3>2, <3>3, <3>4, <3>5 DEF WriterStep
  <2>8. QED
    BY <2>5, <2>6, <2>7
<1>6. ASSUME NEW k \in Clients, ClientStep(k)
      PROVE  Control'
  <2>1. /\ \A u \in Tasks \ {k} : task'[u] = task[u]
        /\ UNCHANGED <<batch, loop, lost, running, main>>
    BY <1>6, OnlyOneMoves DEF ClientStep, Works, Fails, PoolStep, writerVars
  <2>2. main = "serving" /\ initialized
    <3>1. main = "serving"
      BY <1>6 DEF ClientStep, Works, Fails, Fail, Connect, PutNew, Take, Execute, Commit, Return, ClientsFit
    <3>2. QED
      BY <3>1 DEF MainOpens
  <2>3. CASE Acquire(k) \/ Take(k) \/ Execute(k, {k}) \/ Commit(k) \/ Fail(k) \/ Return(k)
    <3>1. task'[k].phase \notin {"opening", "putting", "closing"}
      BY <2>2, <2>3, NewPlaces
    <3>2. initialized' /\ opened' = opened
      BY <2>2, <2>3 DEF Acquire, Take, Execute, Commit, Fail, Return, connVars
    <3>3. QED
      BY <2>1, <2>2, <3>1, <3>2 DEF MainOpens, MainFits, ClientsFit, WriterFits, LoopFits
  <2>4. ~Connect(k) /\ ~PutNew(k)
    BY DEF Connect, PutNew, ClientsFit
  <2>5. QED
    BY <1>6, <2>3, <2>4 DEF ClientStep, Works, Fails
<1>7. CASE \E log \in Logs : QueueLog(log)
  BY <1>7 DEF QueueLog, poolVars, connVars, MainOpens, MainFits, ClientsFit, WriterFits, LoopFits
<1>8. CASE Close
  <2>1. /\ main = "serving" /\ main' = "awaiting" /\ ~running' /\ UNCHANGED <<batch, lost>>
        /\ \A k \in Clients : task[k].phase = "idle"
        /\ initialized' = initialized
    BY <1>8 DEF Close, Cancel, CancelRollback, poolVars, connVars
  <2>2. CASE loop = "flushing"
    <3>1. loop' = loop /\ Cancel(Writer, batch)
      BY <1>8, <2>2 DEF Close
    <3>2. \A u \in Tasks \ {Writer} : task'[u] = task[u]
      BY <3>1, OnlyOneMoves DEF PoolStep
    <3>3. task'[Writer].phase \in {"idle", "returning"} /\ task'[Writer].outcome = "cancelled"
      BY <3>1 DEF Cancel, CancelRollback, PoolInv, PoolTypeOK, Task
    <3>4. initialized
      BY <2>1 DEF MainOpens
    <3>5. MainOpens' /\ MainFits' /\ ClientsFit'
      BY <2>1, <3>2, <3>4 DEF MainOpens, MainFits, ClientsFit
    <3>6. WriterFits' /\ LoopFits'
      BY <2>1, <2>2, <3>1, <3>3 DEF WriterFits, LoopFits
    <3>7. QED
      BY <3>5, <3>6
  <2>3. CASE loop # "flushing"
    <3>1. task' = task /\ loop \in {"waiting", "failed"} /\ loop' = IF loop = "waiting" THEN "finished" ELSE loop
      BY <1>8, <2>1, <2>3 DEF Close, poolVars, LoopFits
    <3>2. QED
      BY <2>1, <3>1 DEF MainOpens, MainFits, ClientsFit, WriterFits, LoopFits
  <2>4. QED
    BY <2>2, <2>3
<1>9. CASE UNCHANGED vars
  BY <1>9 DEF vars, writerVars, poolVars, connVars, MainOpens, MainFits, ClientsFit, WriterFits, LoopFits
<1>10. QED
  BY <1>1, <1>2, <1>3, <1>4, <1>5, <1>6, <1>7, <1>8, <1>9 DEF Next, MainStep

\* What a task leaves uncommitted, as long as none is cancelled.
LEMMA TransactionStep ==
    ASSUME PoolInv, Uncommitted, NEW t \in Tasks,
           \/ Acquire(t) \/ Connect(t) \/ PutNew(t) \/ Take(t) \/ Return(t)
           \/ Execute(t, RowsOf(t)) \/ Commit(t) \/ Fail(t),
           \A u \in Tasks : task'[u].phase = "committing" => RowsOf(u)' = RowsOf(u)
    PROVE  Uncommitted'
<1> USE Numbers
<1>1. /\ \A u \in Tasks \ {t} : task'[u] = task[u]
      /\ dirty \in [Conns -> [Rows -> Nat]]
      /\ \A u \in Tasks : task[u].phase \in Holding => task[u].conn \in Conns
      /\ \A u, v \in Tasks : task[u].conn \in Conns /\ task[u].conn = task[v].conn => u = v
  <2>1. \A u \in Tasks \ {t} : task'[u] = task[u]
    BY OnlyOneMoves DEF PoolStep
  <2>2. \A u \in Tasks : task[u].phase \in Holding => task[u].conn \in Conns
    BY DEF PoolInv, PoolTypeOK, HoldsInPhase, Holds, Task
  <2>3. \A u, v \in Tasks : task[u].conn \in Conns /\ task[u].conn = task[v].conn => u = v
    BY DEF PoolInv, NoSharing, Holds
  <2>4. QED
    BY <2>1, <2>2, <2>3 DEF PoolInv, PoolTypeOK
<1>2. \A u \in Tasks : task[u].phase = "committing" => task[u].conn \in Conns
  BY <1>1 DEF Holding
<1>3. CASE Acquire(t) \/ Connect(t) \/ PutNew(t) \/ Take(t) \/ Return(t)
  <2>1. dirty' = dirty /\ task[t].phase # "committing"
    BY <1>3 DEF Acquire, Connect, PutNew, Take, Return, dataVars
  <2>2. task'[t].phase # "committing"
    BY <1>3, NewPlaces
  <2>3. ASSUME NEW d \in Conns, Locked(d)'
        PROVE  \E u \in Tasks : task'[u].conn = d /\ task'[u].phase = "committing"
    <3>1. Locked(d)
      BY <2>1, <2>3 DEF Locked
    <3>2. PICK u \in Tasks : task[u].conn = d /\ task[u].phase = "committing"
      BY <3>1 DEF Uncommitted
    <3>3. QED
      BY <1>1, <2>1, <3>2
  <2>4. ASSUME NEW u \in Tasks, task'[u].phase = "committing"
        PROVE  dirty'[task'[u].conn] = Plus(NoRows, RowsOf(u)')
    BY <1>1, <2>1, <2>2, <2>4 DEF Uncommitted
  <2>5. QED
    BY <2>3, <2>4 DEF Uncommitted
<1>4. CASE Execute(t, RowsOf(t))
  <2> DEFINE c == task[t].conn
  <2>1. /\ c \in Conns /\ task[t].phase = "executing"
        /\ dirty' = [dirty EXCEPT ![c] = Plus(@, RowsOf(t))]
        /\ task'[t].conn = c /\ task'[t].phase = "committing"
    BY <1>1, <1>4, NewPlaces DEF Execute, Holding
  <2>2. ~Locked(c)
    BY <1>1, <2>1 DEF Uncommitted
  <2>3. dirty'[c] = Plus(NoRows, RowsOf(t))
    BY <1>1, <2>1, <2>2 DEF Locked
  <2>4. \A d \in Conns \ {c} : dirty'[d] = dirty[d]
    BY <1>1, <2>1
  <2>5. ASSUME NEW d \in Conns, Locked(d)'
        PROVE  \E u \in Tasks : task'[u].conn = d /\ task'[u].phase = "committing"
    <3>1. CASE d = c
      BY <2>1, <3>1
    <3>2. CASE d # c
      <4>1. Locked(d)
        BY <2>4, <2>5, <3>2 DEF Locked
      <4>2. PICK u \in Tasks : task[u].conn = d /\ task[u].phase = "committing"
        BY <4>1 DEF Uncommitted
      <4>3. QED
        BY <1>1, <2>1, <4>2
    <3>3. QED
      BY <3>1, <3>2
  <2>6. ASSUME NEW u \in Tasks, task'[u].phase = "committing"
        PROVE  dirty'[task'[u].conn] = Plus(NoRows, RowsOf(u)')
    <3>1. CASE u = t
      BY <2>1, <2>3, <2>6, <3>1
    <3>2. CASE u # t
      <4>1. task'[u] = task[u] /\ task[u].conn \in Conns \ {c}
        BY <1>1, <1>2, <2>1, <2>6, <3>2
      <4>2. QED
        BY <2>4, <2>6, <4>1 DEF Uncommitted
    <3>3. QED
      BY <3>1, <3>2
  <2>7. QED
    BY <2>5, <2>6 DEF Uncommitted
<1>5. CASE Commit(t) \/ Fail(t)
  <2> DEFINE c == task[t].conn
  <2>1. /\ c \in Conns
        /\ dirty' = [dirty EXCEPT ![c] = NoRows]
        /\ task'[t].phase # "committing"
    BY <1>1, <1>5, NewPlaces DEF Commit, Fail, Holding
  <2>2. dirty'[c] = NoRows /\ \A d \in Conns \ {c} : dirty'[d] = dirty[d]
    BY <1>1, <2>1
  <2>3. \A d \in Conns : Locked(d)' => d # c /\ Locked(d)
    BY <2>2 DEF Locked
  <2>4. ASSUME NEW u \in Tasks, task'[u].phase = "committing"
        PROVE  dirty'[task'[u].conn] = Plus(NoRows, RowsOf(u)')
    <3>1. u # t /\ task'[u] = task[u]
      BY <1>1, <2>1, <2>4
    <3>2. task[u].conn \in Conns \ {c}
      BY <1>1, <1>2, <2>1, <2>4, <3>1
    <3>3. QED
      BY <2>2, <2>4, <3>1, <3>2 DEF Uncommitted
  <2>5. ASSUME NEW d \in Conns, Locked(d)'
        PROVE  \E u \in Tasks : task'[u].conn = d /\ task'[u].phase = "committing"
    <3>1. PICK u \in Tasks : task[u].conn = d /\ task[u].phase = "committing"
      BY <2>3, <2>5 DEF Uncommitted
    <3>2. QED
      BY <1>1, <2>3, <2>5, <3>1
  <2>6. QED
    BY <2>4, <2>5 DEF Uncommitted
<1>6. QED
  BY <1>3, <1>4, <1>5

\* Before close() the writer is not cancelled, so it has nothing to flush again.
LEMMA BeforeClose ==
    ASSUME PoolInv, Control, [Next]_vars, main' \in {"starting", "serving"}
    PROVE  /\ main \in {"starting", "serving"}
           /\ ~Close /\ ~CloseAwaits /\ ~ClosePool /\ ~WriterFlushesAgain
<1>1. main \in {"starting", "serving"}
  BY DEF Next, MainStep, MainStarts, StartWriter, CloseAwaits, ClosePool, WriterStep, WriterWakes,
         WriterFlushes, WriterFlushed, WriterDies, WriterFlushesAgain, ClientStep, QueueLog, Close, vars
<1>2. ~Close /\ ~CloseAwaits /\ ~ClosePool
  BY <1>1 DEF Close, CloseAwaits, ClosePool
<1>3. ~WriterFlushesAgain
  BY <1>1 DEF WriterFlushesAgain, Control, WriterFits
<1>4. QED
  BY <1>1, <1>2, <1>3

LEMMA DirtyAlways ==
    ASSUME TypeOK, PoolInv, Control, DirtyFits, [Next]_vars
    PROVE  DirtyFits'
<1> SUFFICES ASSUME main' \in {"starting", "serving"}
             PROVE  Uncommitted'
  BY DEF DirtyFits
<1> USE Callers
<1>1. /\ main \in {"starting", "serving"} /\ Uncommitted
      /\ ~Close /\ ~CloseAwaits /\ ~ClosePool /\ ~WriterFlushesAgain
  BY BeforeClose DEF DirtyFits
<1>2. batch' = batch => \A u \in Tasks : RowsOf(u)' = RowsOf(u)
  BY DEF RowsOf
<1>3. CASE MainStarts
  <2>1. batch' = batch /\ RowsOf(Main) = {}
    BY <1>3 DEF MainStarts, writerVars, RowsOf
  <2>2. \/ Acquire(Main) \/ Connect(Main) \/ PutNew(Main) \/ Take(Main) \/ Return(Main)
        \/ Execute(Main, RowsOf(Main)) \/ Commit(Main)
    BY <1>3, <2>1 DEF MainStarts
  <2>3. QED
    BY <1>1, <1>2, <2>1, <2>2, TransactionStep
<1>4. CASE UNCHANGED poolVars /\ batch' = batch
  BY <1>1, <1>2, <1>4 DEF Uncommitted, Locked, poolVars, dataVars
<1>5. CASE StartWriter \/ (\E log \in Logs : QueueLog(log)) \/ UNCHANGED vars
  BY <1>4, <1>5 DEF StartWriter, QueueLog, vars, poolVars, writerVars
<1>6. CASE WriterWakes \/ WriterFlushed \/ WriterDies
  <2>1. Acquire(Writer) \/ Return(Writer)
    BY <1>6 DEF WriterWakes, WriterFlushed, WriterDies
  <2>2. task'[Writer].phase # "committing"
    BY <2>1, NewPlaces
  <2>3. \A u \in Tasks : task'[u].phase = "committing" => RowsOf(u)' = RowsOf(u)
    BY <2>2 DEF RowsOf
  <2>4. QED
    BY <1>1, <2>1, <2>3, TransactionStep
<1>7. CASE WriterFlushes
  <2>1. batch' = batch /\ RowsOf(Writer) = batch
    BY <1>7 DEF WriterFlushes, writerVars, RowsOf
  <2>2. \/ Connect(Writer) \/ PutNew(Writer) \/ Take(Writer)
        \/ Execute(Writer, RowsOf(Writer)) \/ Commit(Writer) \/ Fail(Writer)
    BY <1>7, <2>1 DEF WriterFlushes, Works, Fails
  <2>3. QED
    BY <1>1, <1>2, <2>1, <2>2, TransactionStep
<1>8. ASSUME NEW k \in Clients, ClientStep(k)
      PROVE  Uncommitted'
  <2>1. batch' = batch /\ RowsOf(k) = {k} /\ k \in Tasks
    BY <1>8 DEF ClientStep, writerVars, RowsOf
  <2>2. \/ Acquire(k) \/ Connect(k) \/ PutNew(k) \/ Take(k) \/ Return(k)
        \/ Execute(k, RowsOf(k)) \/ Commit(k) \/ Fail(k)
    BY <1>8, <2>1 DEF ClientStep, Works, Fails
  <2>3. QED
    BY <1>1, <1>2, <2>1, <2>2, TransactionStep
<1>9. QED
  BY <1>1, <1>3, <1>5, <1>6, <1>7, <1>8 DEF Next, MainStep, WriterStep

\* Before close() it takes a failure of SQLite's own to end the writer: a pooled
\* connection holds no lock a statement could wait for.
LEMMA BlamedAlways ==
    ASSUME TypeOK, PoolInv, Control, DirtyFits, Blamed, [Next]_vars
    PROVE  Blamed'
<1> SUFFICES ASSUME main' \in {"starting", "serving"}, faults' = 0
             PROVE  lost' = {} /\ ~(task'[Writer].phase = "returning" /\ task'[Writer].outcome = "error")
  BY DEF Blamed
<1> USE Callers
<1>1. /\ main \in {"starting", "serving"} /\ Uncommitted
      /\ ~Close /\ ~CloseAwaits /\ ~ClosePool /\ ~WriterFlushesAgain
  BY BeforeClose DEF DirtyFits
<1>2. \A c \in Pooled : ~Locked(c)
  <2>1. \A c \in Pooled : c \in Conns /\ \A t \in Tasks : task[t].conn # c
    BY PoolContents, Numbers DEF PoolInv, NoSharing, Holds
  <2>2. QED
    BY <1>1, <2>1 DEF Uncommitted
<1>3. \A t, rows : Fails(t, rows) => faults' = faults + 1
  BY <1>2 DEF Fails
<1>4. \A t, rows : Works(t, rows) => ~Fails(t, rows)
  BY <1>3 DEF TypeOK
<1>5. faults = 0 /\ lost = {} /\ ~(task[Writer].phase = "returning" /\ task[Writer].outcome = "error")
  <2>1. faults = 0
    BY <1>3, <1>4, <1>1 DEF Next, MainStep, MainStarts, StartWriter, WriterStep, WriterWakes, WriterFlushes,
       WriterFlushed, WriterDies, ClientStep, Works, QueueLog, vars
  <2>2. QED
    BY <1>1, <2>1 DEF Blamed
<1>6. CASE task'[Writer] = task[Writer] /\ lost' = lost
  BY <1>5, <1>6
<1>7. CASE MainStarts
  BY <1>6, <1>7, OnlyOneMoves DEF MainStarts, PoolStep, writerVars
<1>8. CASE StartWriter \/ (\E log \in Logs : QueueLog(log)) \/ UNCHANGED vars
  BY <1>6, <1>8 DEF StartWriter, QueueLog, vars, poolVars, writerVars
<1>9. ASSUME NEW k \in Clients, ClientStep(k)
      PROVE  task'[Writer] = task[Writer] /\ lost' = lost
  BY <1>9, OnlyOneMoves DEF ClientStep, Works, Fails, PoolStep, writerVars
<1>10. CASE WriterWakes \/ WriterFlushed
  <2>1. task'[Writer].phase # "returning"
    BY <1>10, NewPlaces DEF WriterWakes, WriterFlushed
  <2>2. QED
    BY <1>5, <1>10, <2>1 DEF WriterWakes, WriterFlushed
<1>11. CASE WriterFlushes
  <2>1. lost' = lost /\ ~Fails(Writer, batch)
    BY <1>4, <1>11 DEF WriterFlushes, writerVars
  <2>2. task'[Writer].phase # "returning" \/ task'[Writer].outcome = "ok"
    BY <1>11, <2>1, NewPlaces DEF WriterFlushes, Works
  <2>3. QED
    BY <1>5, <2>1, <2>2
<1>12. ~WriterDies
  BY <1>5 DEF WriterDies, Return
<1>13. QED
  BY <1>1, <1>6, <1>7, <1>8, <1>9, <1>10, <1>11, <1>12 DEF Next, MainStep, WriterStep

LEMMA KnownAlways ==
    ASSUME Known, [Next]_vars
    PROVE  Known'
<1> USE DEF Known
<1>1. CASE UNCHANGED <<queue, batch, lost, produced>>
  BY <1>1
<1>2. CASE WriterWakes \/ WriterFlushed \/ WriterDies
  BY <1>2 DEF WriterWakes, WriterFlushed, WriterDies
<1>3. CASE \E log \in Logs : QueueLog(log)
  BY <1>3 DEF QueueLog
<1>4. QED
  BY <1>1, <1>2, <1>3 DEF Next, MainStep, MainStarts, StartWriter, CloseAwaits, ClosePool, WriterStep,
     WriterFlushes, WriterFlushesAgain, ClientStep, Close, vars, writerVars

\* A commit adds the rows of its transaction, each once.
LEMMA CommitAdds ==
    ASSUME PoolInv, Uncommitted, NEW t \in Tasks, Commit(t)
    PROVE  \A row \in Rows : table'[row] = table[row] + One(row \in RowsOf(t))
<1>1. /\ dirty[task[t].conn] = Plus(NoRows, RowsOf(t))
      /\ table' = [row \in Rows |-> table[row] + dirty[task[t].conn][row]]
  BY DEF Commit, Uncommitted
<1>2. \A row \in Rows : dirty[task[t].conn][row] = One(row \in RowsOf(t))
  BY <1>1 DEF Plus, NoRows, One
<1>3. QED
  BY <1>1, <1>2

LEMMA OnePlaceAlways ==
    ASSUME TypeOK, PoolInv, Control, DirtyFits, Known, LogsInOnePlace, [Next]_vars
    PROVE  LogsInOnePlace'
<1> SUFFICES ASSUME main' \in {"starting", "serving"}, NEW log \in Logs
             PROVE  InPlace(log)'
  BY DEF LogsInOnePlace
<1> USE Callers
<1>1. /\ main \in {"starting", "serving"} /\ Uncommitted /\ InPlace(log)
      /\ ~Close /\ ~CloseAwaits /\ ~ClosePool /\ ~WriterFlushesAgain
  BY BeforeClose DEF DirtyFits, LogsInOnePlace
<1>2. ASSUME UNCHANGED <<queue, batch, lost, produced>>, task'[Writer] = task[Writer], table'[log] = table[log]
      PROVE  InPlace(log)'
  <2>1. Unwritten' = Unwritten
    BY <1>2 DEF Unwritten
  <2>2. QED
    BY <1>1, <1>2, <2>1 DEF InPlace
<1>3. table[log] \in Nat
  BY DEF PoolInv, PoolTypeOK
<1>4. CASE MainStarts
  <2>1. task'[Writer] = task[Writer] /\ UNCHANGED <<queue, batch, lost, produced>>
    BY <1>4, OnlyOneMoves DEF MainStarts, PoolStep, writerVars
  <2>2. CASE Commit(Main)
    <3>1. table'[log] = table[log] + One(log \in {})
      BY <1>1, <2>2, CommitAdds DEF RowsOf
    <3>2. QED
      BY <1>2, <1>3, <2>1, <3>1 DEF One
  <2>3. CASE ~Commit(Main)
    BY <1>2, <1>4, <2>1, <2>3
       DEF MainStarts, Acquire, Connect, PutNew, Take, Execute, Return, dataVars
  <2>4. QED
    BY <2>2, <2>3
<1>5. CASE StartWriter \/ UNCHANGED vars
  BY <1>2, <1>5 DEF StartWriter, vars, poolVars, dataVars, writerVars
<1>6. ASSUME NEW new \in Logs, QueueLog(new)
      PROVE  InPlace(log)'
  <2>1. Unwritten' = Unwritten /\ Unwritten \subseteq produced /\ UNCHANGED <<lost, table>>
    BY <1>6 DEF QueueLog, Unwritten, Known, poolVars, dataVars
  <2>2. CASE log = new
    BY <1>1, <1>3, <1>6, <2>1, <2>2 DEF InPlace, QueueLog, Known, One
  <2>3. CASE log # new
    BY <1>1, <1>6, <2>1, <2>3 DEF InPlace, QueueLog
  <2>4. QED
    BY <2>2, <2>3
<1>7. ASSUME NEW k \in Clients, ClientStep(k)
      PROVE  InPlace(log)'
  <2>1. task'[Writer] = task[Writer] /\ UNCHANGED <<queue, batch, lost, produced>>
    BY <1>7, OnlyOneMoves DEF ClientStep, Works, Fails, PoolStep, writerVars
  <2>2. CASE Commit(k)
    <3>1. table'[log] = table[log] + One(log \in {k})
      BY <1>1, <2>2, CommitAdds DEF RowsOf
    <3>2. QED
      BY <1>2, <1>3, <2>1, <3>1 DEF One
  <2>3. CASE ~Commit(k)
    BY <1>2, <1>7, <2>1, <2>3
       DEF ClientStep, Works, Fails, Fail, Acquire, Connect, PutNew, Take, Execute, Return, dataVars
  <2>4. QED
    BY <2>2, <2>3
<1>8. CASE WriterWakes
  <2>1. /\ batch = {} /\ batch' = queue /\ queue' = {} /\ UNCHANGED <<lost, produced, table>>
        /\ task'[Writer].phase # "returning"
    BY <1>8, NewPlaces DEF WriterWakes, Control, LoopFits, Acquire, dataVars
  <2>2. Unwritten = {} /\ Unwritten' = queue
    BY <2>1 DEF Unwritten
  <2>3. QED
    BY <1>1, <1>3, <2>1, <2>2 DEF InPlace, One
<1>9. CASE WriterFlushes
  <2>1. UNCHANGED <<queue, batch, lost, produced>>
    BY <1>9 DEF WriterFlushes, writerVars
  <2>2. CASE Commit(Writer)
    <3>1. table'[log] = table[log] + One(log \in batch)
      BY <1>1, <2>2, CommitAdds DEF RowsOf
    <3>2. Unwritten = batch /\ Unwritten' = {}
      BY <2>2, NewPlaces DEF Commit, Unwritten
    <3>3. CASE log \in produced
      <4>1. One(log \in queue) + One(log \in batch) + One(log \in lost) + table[log] = 1
        BY <1>1, <3>2, <3>3 DEF InPlace
      <4>2. /\ One(log \in Unwritten') = 0 /\ One(log \in queue) \in Nat
            /\ One(log \in batch) \in Nat /\ One(log \in lost) \in Nat
        BY <3>2 DEF One
      <4>3. One(log \in queue) + One(log \in Unwritten') + One(log \in lost) + table'[log] = 1
        BY <1>3, <3>1, <4>1, <4>2
      <4>4. QED
        BY <2>1, <3>3, <4>3 DEF InPlace
    <3>4. CASE log \notin produced
      BY <1>1, <2>1, <3>1, <3>4 DEF InPlace, Known, One
    <3>5. QED
      BY <3>3, <3>4
  <2>3. CASE ~Commit(Writer)
    <3>1. table' = table /\ task[Writer].phase # "returning"
      BY <1>9, <2>3 DEF WriterFlushes, Works, Fails, Connect, PutNew, Take, Execute, Fail, dataVars
    <3>2. task'[Writer].phase # "returning" \/ task'[Writer].outcome = "error"
      <4>1. CASE Execute(Writer, batch)
        BY <4>1, NewPlaces
      <4>2. CASE Connect(Writer) \/ PutNew(Writer) \/ Take(Writer) \/ Fail(Writer)
        BY <4>2, NewPlaces
      <4>3. QED
        BY <1>9, <2>3, <4>1, <4>2 DEF WriterFlushes, Works, Fails
    <3>3. Unwritten' = Unwritten
      BY <2>1, <3>1, <3>2 DEF Unwritten
    <3>4. QED
      BY <1>1, <2>1, <3>1, <3>3 DEF InPlace
  <2>4. QED
    BY <2>2, <2>3
<1>10. CASE WriterFlushed
  <2>1. /\ UNCHANGED <<queue, lost, produced, table>> /\ batch' = {}
        /\ task[Writer].phase = "returning" /\ task[Writer].outcome = "ok"
    BY <1>10 DEF WriterFlushed, Return, dataVars
  <2>2. Unwritten = {} /\ Unwritten' = {}
    BY <2>1 DEF Unwritten
  <2>3. QED
    BY <1>1, <2>1, <2>2 DEF InPlace
<1>11. CASE WriterDies
  <2>1. /\ UNCHANGED <<queue, produced, table>> /\ task[Writer].outcome = "error"
        /\ batch' = {} /\ lost' = batch /\ lost = {}
    BY <1>11 DEF WriterDies, Return, dataVars, Control, LoopFits
  <2>2. Unwritten = batch /\ Unwritten' = {}
    BY <2>1 DEF Unwritten
  <2>3. QED
    BY <1>1, <2>1, <2>2 DEF InPlace, One
<1>12. QED
  BY <1>1, <1>4, <1>5, <1>6, <1>7, <1>8, <1>9, <1>10, <1>11 DEF Next, MainStep, WriterStep

\* What one connection has not committed, of one row.
LEMMA CleanRows ==
    ASSUME PoolInv, NEW c \in Conns
    PROVE  /\ ~Locked(c) => \A row \in Rows : dirty[c][row] = 0
           /\ \A row \in Rows : dirty[c][row] \in Nat /\ table[row] \in Nat
BY DEF Locked, NoRows, PoolInv, PoolTypeOK

\* The cancellation of the writer in close().
LEMMA CancelledFlush ==
    ASSUME TypeOK, PoolInv, Control, DirtyFits, LogsInOnePlace, Close, loop = "flushing"
    PROVE  (Locks /\ \A log \in produced \ queue : AtMostTwice(log))'
<1> USE Callers
<1> DEFINE c == task[Writer].conn
<1>1. /\ Uncommitted /\ \A log \in Logs : InPlace(log)
      /\ Cancel(Writer, batch) /\ task[Writer].phase # "returning"
      /\ UNCHANGED <<queue, batch, produced>>
      /\ main = "serving"
  BY DEF Close, DirtyFits, LogsInOnePlace
<1>2. \A t \in Tasks \ {Writer} : task[t].phase = "idle"
  BY <1>1 DEF Close, Control, MainFits
<1>3. \A d \in Conns : Locked(d) => d = c /\ task[Writer].phase = "committing"
  BY <1>1, <1>2 DEF Uncommitted
<1>4. \A log \in produced \ queue : table[log] = IF log \in batch THEN 0 ELSE 1
  <2>1. Unwritten = batch
    BY <1>1 DEF Unwritten
  <2>2. SUFFICES ASSUME NEW log \in produced \ queue
                 PROVE  table[log] = IF log \in batch THEN 0 ELSE 1
    OBVIOUS
  <2>3. log \in Logs /\ InPlace(log)
    BY <1>1 DEF TypeOK
  <2>4. One(log \in queue) + One(log \in batch) + One(log \in lost) + table[log] = 1
    BY <2>1, <2>3 DEF InPlace
  <2>5. table[log] \in Nat /\ One(log \in queue) = 0 /\ One(log \in lost) = 0
    BY <2>3 DEF PoolInv, PoolTypeOK, One, Control, LoopFits
  <2>6. QED
    BY <2>4, <2>5 DEF One
<1>5. produced' \ queue' = produced \ queue /\ \A log \in produced : log \in Rows
  BY <1>1 DEF TypeOK
<1>0. task \in [Tasks -> [phase : Phases, conn : 0..MaxSize, left : 0..MaxSize, outcome : Outcomes]]
  BY DEF PoolInv, PoolTypeOK, Task
<1>6. CASE task[Writer].phase = "waiting"
  <2>1. UNCHANGED <<dirty, table>> /\ task'[Writer].phase = "idle"
    BY <1>1, <1>6, <1>0 DEF Cancel, CancelRollback, dataVars
  <2>2. \A d \in Conns : ~Locked(d) /\ ~Locked(d)'
    BY <1>3, <1>6, <2>1 DEF Locked
  <2>3. \A d \in Conns : \A row \in Rows : dirty'[d][row] = 0
    BY <2>1, <2>2, CleanRows
  <2>4. Locks'
    BY <2>2 DEF Locks
  <2>5. ASSUME NEW log \in produced \ queue
        PROVE  AtMostTwice(log)'
    BY <1>1, <1>4, <1>5, <2>1, <2>3 DEF AtMostTwice, Done
  <2>6. QED
    BY <1>5, <2>4, <2>5
<1>7. CASE task[Writer].phase = "executing" /\ ~CancelRollback(Writer)
  <2>1. c \in Conns
    BY <1>7, Numbers DEF PoolInv, PoolTypeOK, HoldsInPhase, Holds, Holding, Task
  <2>2. CanWrite(c) /\ dirty[c] = NoRows
    BY <1>3, <1>7, <2>1 DEF CanWrite, Locked
  <2>3. /\ dirty' = [dirty EXCEPT ![c] = Plus(@, batch)] /\ table' = table
        /\ task'[Writer].phase = "returning" /\ task'[Writer].outcome = "cancelled"
    <3>1. /\ dirty' = [dirty EXCEPT ![c] = IF CanWrite(c) THEN Plus(@, batch) ELSE @]
          /\ table' = table
          /\ task' = [task EXCEPT ![Writer].phase = "returning", ![Writer].outcome = "cancelled"]
      BY <1>1, <1>7 DEF Cancel
    <3>2. QED
      BY <1>0, <2>2, <3>1
  <2>4. dirty'[c] = Plus(NoRows, batch) /\ \A d \in Conns \ {c} : dirty'[d] = dirty[d] /\ ~Locked(d)
    BY <1>3, <1>7, <2>1, <2>2, <2>3 DEF PoolInv, PoolTypeOK
  <2>5. \A d \in Conns \ {c} : ~Locked(d)'
    BY <2>4 DEF Locked
  <2>6. \A d \in Conns \ {c} : \A row \in Rows : dirty'[d][row] = 0
    BY <2>4, CleanRows
  <2>7. \A row \in Rows : dirty'[c][row] = One(row \in batch)
    BY <2>4 DEF Plus, NoRows, One
  <2>8. Locks'
    BY <2>3, <2>5 DEF Locks
  <2>9. ASSUME NEW log \in produced \ queue
        PROVE  AtMostTwice(log)'
    <3>1. \A d \in Conns : dirty'[d][log] = 0 \/ dirty'[d][log] = One(log \in batch)
      BY <1>5, <2>6, <2>7
    <3>2. CASE log \in batch
      BY <1>1, <1>4, <2>3, <3>1, <3>2 DEF AtMostTwice, Done, One
    <3>3. CASE log \notin batch
      BY <1>1, <1>4, <2>3, <3>1, <3>3 DEF AtMostTwice, One
    <3>4. QED
      BY <3>2, <3>3
  <2>10. QED
    BY <1>5, <2>8, <2>9
<1>8. CASE task[Writer].phase = "committing" /\ ~CancelRollback(Writer)
  <2>1. c \in Conns
    BY <1>8, Numbers DEF PoolInv, PoolTypeOK, HoldsInPhase, Holds, Holding, Task
  <2>2. /\ table' = [row \in Rows |-> table[row] + dirty[c][row]]
        /\ dirty' = [dirty EXCEPT ![c] = NoRows]
        /\ task'[Writer].phase = "returning" /\ task'[Writer].outcome = "cancelled"
    BY <1>1, <1>8, <1>0 DEF Cancel
  <2>3. \A d \in Conns : dirty'[d] = NoRows
    BY <1>3, <2>2 DEF Locked, PoolInv, PoolTypeOK
  <2>4. Locks'
    BY <2>3 DEF Locks, Locked
  <2>5. \A row \in Rows : dirty[c][row] = One(row \in batch)
    <3>1. dirty[c] = Plus(NoRows, batch)
      BY <1>1, <1>8 DEF Uncommitted, RowsOf
    <3>2. QED
      BY <3>1 DEF Plus, NoRows, One
  <2>6. ASSUME NEW log \in produced \ queue
        PROVE  AtMostTwice(log)'
    <3>1. table'[log] = 1 /\ \A d \in Conns : dirty'[d][log] = 0
      BY <1>4, <1>5, <2>2, <2>3, <2>5 DEF NoRows, One
    <3>2. QED
      BY <2>2, <3>1 DEF AtMostTwice, Done
  <2>7. QED
    BY <1>5, <2>4, <2>6
<1>9. CASE CancelRollback(Writer)
  <2>1. /\ dirty' = [dirty EXCEPT ![c] = NoRows] /\ table' = table
        /\ task'[Writer].phase = "returning" /\ task'[Writer].outcome = "cancelled"
    BY <1>9, <1>0 DEF CancelRollback
  <2>2. \A d \in Conns : dirty'[d] = NoRows
    BY <1>3, <2>1 DEF Locked, PoolInv, PoolTypeOK
  <2>3. Locks'
    BY <2>2 DEF Locks, Locked
  <2>4. ASSUME NEW log \in produced \ queue
        PROVE  AtMostTwice(log)'
    <3>1. \A d \in Conns : dirty'[d][log] = 0
      BY <1>5, <2>2 DEF NoRows
    <3>2. QED
      BY <1>1, <1>4, <2>1, <3>1 DEF AtMostTwice, Done
  <2>5. QED
    BY <1>5, <2>3, <2>4
<1>10. QED
  BY <1>1, <1>6, <1>7, <1>8, <1>9 DEF Cancel

\* The steps of the flush that follows.
LEMMA FlushAgain ==
    ASSUME TypeOK, PoolInv, Control, Locks, batch # {},
           \A log \in produced \ queue : AtMostTwice(log),
           \/ Acquire(Writer) \/ (Return(Writer) /\ task[Writer].outcome # "ok")
           \/ Take(Writer) \/ Execute(Writer, batch) \/ Commit(Writer) \/ Fail(Writer),
           UNCHANGED <<queue, batch, produced>>
    PROVE  (Locks /\ \A log \in produced \ queue : AtMostTwice(log))'
<1> USE Callers
<1> DEFINE c == task[Writer].conn
<1>1. produced' \ queue' = produced \ queue /\ \A log \in produced : log \in Rows
  BY DEF TypeOK
<1>2. \A d \in Conns, row \in Rows : dirty[d][row] \in Nat /\ table[row] \in Nat
  BY CleanRows
<1>3. task[Writer].phase \in Holding => c \in Conns
  BY Numbers DEF PoolInv, PoolTypeOK, HoldsInPhase, Holds, Task
<1>4. task[Writer].phase \in {"waiting", "executing", "committing"} => task[Writer].outcome = "none"
  BY DEF Control, WriterFits
<1>5. CASE Acquire(Writer) \/ Take(Writer) \/ (Return(Writer) /\ task[Writer].outcome # "ok")
  <2>1. UNCHANGED <<dirty, table>> /\ task[Writer].phase # "committing" /\ ~Done
    BY <1>5 DEF Acquire, Take, Return, dataVars, Done
  <2>2. task'[Writer].phase \notin {"committing", "returning"}
    BY <1>5, NewPlaces
  <2>3. Locks'
    BY <2>1, <2>2 DEF Locks, Locked
  <2>4. ASSUME NEW log \in produced \ queue
        PROVE  AtMostTwice(log)'
    BY <2>1, <2>2 DEF AtMostTwice, Done
  <2>5. QED
    BY <1>1, <2>3, <2>4
<1>6. CASE Execute(Writer, batch)
  <2>1. /\ c \in Conns /\ CanWrite(c) /\ table' = table
        /\ dirty' = [dirty EXCEPT ![c] = Plus(@, batch)] /\ task[Writer].phase = "executing"
    BY <1>3, <1>6 DEF Execute, Holding
  <2>2. task'[Writer].phase = "committing" /\ task'[Writer].conn = c
    BY <1>6, NewPlaces
  <2>3. \A d \in Conns \ {c} : dirty'[d] = dirty[d] /\ ~Locked(d)
    BY <2>1 DEF CanWrite, PoolInv, PoolTypeOK
  <2>4. \A d \in Conns \ {c} : ~Locked(d)'
    BY <2>3 DEF Locked
  <2>5. Locks'
    BY <2>2, <2>4 DEF Locks
  <2>6. \A row \in Rows : dirty'[c][row] = IF row \in batch THEN dirty[c][row] + 1 ELSE dirty[c][row]
    BY <2>1 DEF Plus, PoolInv, PoolTypeOK
  <2>7. ASSUME NEW log \in produced \ queue
        PROVE  AtMostTwice(log)'
    <3>1. CASE log \in batch
      <4>1. table[log] \in {0, 1} /\ table[log] + dirty[c][log] <= 1
        BY <2>1, <3>1 DEF AtMostTwice, Done
      <4>2. table'[log] + dirty'[c][log] \in {1, 2}
        BY <1>1, <1>2, <2>1, <2>6, <3>1, <4>1
      <4>3. QED
        BY <2>1, <2>2, <3>1, <4>1, <4>2 DEF AtMostTwice, Done
    <3>2. CASE log \notin batch
      <4>1. table[log] = 1 /\ \A d \in Conns : dirty[d][log] = 0
        BY <3>2 DEF AtMostTwice
      <4>2. \A d \in Conns : dirty'[d][log] = 0
        BY <1>1, <2>3, <2>6, <3>2, <4>1
      <4>3. QED
        BY <2>1, <3>2, <4>1, <4>2 DEF AtMostTwice
    <3>3. QED
      BY <3>1, <3>2
  <2>8. QED
    BY <1>1, <2>5, <2>7
<1>7. CASE Commit(Writer)
  <2>1. /\ c \in Conns /\ table' = [row \in Rows |-> table[row] + dirty[c][row]]
        /\ dirty' = [dirty EXCEPT ![c] = NoRows] /\ task[Writer].phase = "committing"
    BY <1>3, <1>7 DEF Commit, Holding
  <2>2. task'[Writer].phase = "returning" /\ task'[Writer].outcome = "ok"
    BY <1>7, NewPlaces
  <2>3. \A d \in Conns : dirty'[d] = NoRows
    BY <2>1 DEF Locks, Locked, PoolInv, PoolTypeOK
  <2>4. Locks'
    BY <2>3 DEF Locks, Locked
  <2>5. ASSUME NEW log \in produced \ queue
        PROVE  AtMostTwice(log)'
    <3>1. table'[log] = table[log] + dirty[c][log] /\ \A d \in Conns : dirty'[d][log] = 0
      BY <1>1, <2>1, <2>3 DEF NoRows
    <3>2. CASE log \in batch
      BY <2>1, <2>2, <3>1, <3>2 DEF AtMostTwice, Done
    <3>3. CASE log \notin batch
      <4>1. table[log] = 1 /\ dirty[c][log] = 0
        BY <2>1, <3>3 DEF AtMostTwice
      <4>2. table'[log] = 1
        BY <3>1, <4>1
      <4>3. QED
        BY <3>1, <3>3, <4>2 DEF AtMostTwice
    <3>4. QED
      BY <3>2, <3>3
  <2>6. QED
    BY <1>1, <2>4, <2>5
<1>8. CASE Fail(Writer)
  <2>1. /\ c \in Conns /\ table' = table
        /\ dirty' = [dirty EXCEPT ![c] = NoRows] /\ task[Writer].phase \in {"executing", "committing"}
    BY <1>3, <1>8 DEF Fail, Holding
  <2>2. task'[Writer].phase = "returning" /\ task'[Writer].outcome = "error"
    BY <1>8, NewPlaces
  <2>3. dirty'[c] = NoRows /\ \A d \in Conns \ {c} : dirty'[d] = dirty[d]
    BY <2>1 DEF PoolInv, PoolTypeOK
  <2>4. \A d \in Conns : Locked(d)' => Locked(d)
    BY <2>3 DEF Locked
  <2>5. Locks'
    BY <2>2, <2>4 DEF Locks
  <2>6. \A row \in Rows : dirty'[c][row] = 0
    BY <2>3 DEF NoRows
  <2>7. ASSUME NEW log \in produced \ queue
        PROVE  AtMostTwice(log)'
    <3>1. CASE log \in batch
      <4>1. table[log] \in {0, 1} /\ ~Done
        BY <2>1, <3>1 DEF AtMostTwice, Done
      <4>2. \A d \in Conns \ {c} : table[log] + dirty[d][log] <= 1
        <5>1. CASE task[Writer].phase = "executing"
          BY <3>1, <4>1, <5>1 DEF AtMostTwice
        <5>2. CASE task[Writer].phase = "committing"
          <6>1. \A d \in Conns \ {c} : dirty[d][log] = 0
            BY <1>1, <5>2, CleanRows DEF Locks
          <6>2. QED
            BY <4>1, <6>1
        <5>3. QED
          BY <2>1, <5>1, <5>2
      <4>3. \A d \in Conns : table'[log] + dirty'[d][log] <= 1
        BY <1>1, <2>1, <2>3, <2>6, <4>1, <4>2
      <4>4. QED
        BY <2>1, <2>2, <3>1, <4>1, <4>3 DEF AtMostTwice, Done
    <3>2. CASE log \notin batch
      BY <1>1, <2>1, <2>3, <2>6, <3>2 DEF AtMostTwice
    <3>3. QED
      BY <3>1, <3>2
  <2>8. QED
    BY <1>1, <2>5, <2>7
<1>9. QED
  BY <1>5, <1>6, <1>7, <1>8

\* After close() has begun, only the writer does anything.
LEMMA AfterClose ==
    ASSUME Control, [Next]_vars, main \notin {"starting", "serving"}
    PROVE  UNCHANGED vars \/ WriterStep \/ CloseAwaits \/ ClosePool
<1>1. \A k \in Clients : ~ClientStep(k)
  BY DEF ClientStep, Works, Fails, Fail, Connect, PutNew, Take, Execute, Commit, Return, Control, ClientsFit
<1>2. ~MainStarts /\ ~StartWriter /\ ~Close /\ \A log \in Logs : ~QueueLog(log)
  BY DEF MainStarts, StartWriter, Close, QueueLog
<1>3. QED
  BY <1>1, <1>2 DEF Next, MainStep

LEMMA AgainAlways ==
    ASSUME TypeOK, PoolInv, Control, DirtyFits, Known, LogsInOnePlace, Again, [Next]_vars
    PROVE  Again'
<1> SUFFICES ASSUME main' = "awaiting", loop' \in {"flushing", "last_flush"}
             PROVE  (Locks /\ \A log \in produced \ queue : AtMostTwice(log))'
  BY DEF Again
<1>1. CASE Close
  <2>1. loop = "flushing"
    BY <1>1 DEF Close, Control, LoopFits
  <2>2. QED
    BY <1>1, <2>1, CancelledFlush
<1>2. CASE ~Close
  <2>1. main = "awaiting"
    BY <1>2 DEF Next, MainStep, MainStarts, StartWriter, CloseAwaits, ClosePool, WriterStep, WriterWakes,
       WriterFlushes, WriterFlushed, WriterDies, WriterFlushesAgain, ClientStep, QueueLog, vars
  <2>2. UNCHANGED vars \/ WriterStep
    BY <2>1, AfterClose DEF CloseAwaits, ClosePool
  <2>3. CASE UNCHANGED vars
    <3>1. Again'
      BY <2>3 DEF vars, poolVars, dataVars, writerVars, Again, Locks, Locked, AtMostTwice, Done
    <3>2. QED
      BY <3>1 DEF Again
  <2>4. ~WriterWakes /\ ~WriterFlushed /\ ~WriterDies
    BY <2>1 DEF WriterWakes, WriterFlushed, WriterDies, Control, LoopFits
  <2>5. CASE WriterFlushes \/ WriterFlushesAgain
    <3>1. loop \in {"flushing", "last_flush"} /\ UNCHANGED <<queue, batch, produced>> /\ batch # {}
      BY <2>5 DEF WriterFlushes, WriterFlushesAgain, writerVars, Control, LoopFits
    <3>2. Locks /\ \A log \in produced \ queue : AtMostTwice(log)
      BY <2>1, <3>1 DEF Again
    <3>3. ~Connect(Writer) /\ ~PutNew(Writer)
      BY DEF Connect, PutNew, Control, WriterFits
    <3>4. \/ Acquire(Writer) \/ (Return(Writer) /\ task[Writer].outcome # "ok")
          \/ Take(Writer) \/ Execute(Writer, batch) \/ Commit(Writer) \/ Fail(Writer)
      BY <2>5, <3>3 DEF WriterFlushes, WriterFlushesAgain, Works, Fails
    <3>5. QED
      BY <3>1, <3>2, <3>4, FlushAgain
  <2>6. QED
    BY <2>2, <2>3, <2>4, <2>5 DEF WriterStep
<1>3. QED
  BY <1>1, <1>2

LEMMA WrittenAlways ==
    ASSUME TypeOK, PoolInv, Control, DirtyFits, Known, LogsInOnePlace, Again, LogsWritten, [Next]_vars
    PROVE  LogsWritten'
<1> USE Callers
<1> SUFFICES ASSUME main' \notin {"starting", "serving"}, loop' \in {"finished", "failed"},
                    NEW log \in produced' \ (queue' \cup lost')
             PROVE  table'[log] \in {1, 2}
  BY DEF LogsWritten
<1>1. CASE Close
  <2>1. /\ loop \in {"waiting", "failed"} /\ main = "serving" /\ batch = {}
        /\ UNCHANGED <<queue, produced, table, lost>>
    BY <1>1 DEF Close, Control, LoopFits, poolVars, dataVars
  <2>2. InPlace(log) /\ Unwritten = {} /\ log \in produced \ (queue \cup lost)
    BY <2>1 DEF LogsInOnePlace, Unwritten, TypeOK
  <2>3. table[log] = 1
    BY <2>2 DEF InPlace, One, TypeOK, PoolTypeOK, PoolInv
  <2>4. QED
    BY <2>1, <2>3
<1>2. CASE WriterFlushed
  <2>1. main = "awaiting" /\ loop \in {"flushing", "last_flush"} /\ Done
        /\ UNCHANGED <<queue, produced, table>>
    BY <1>2 DEF WriterFlushed, Control, LoopFits, MainFits, Return, dataVars, Done, TypeOK, Mains
  <2>2. AtMostTwice(log)
    BY <2>1 DEF Again
  <2>3. QED
    BY <2>1, <2>2 DEF AtMostTwice
\* The flush that was to repeat the cancelled one raises.
<1>3. CASE WriterDies
  <2>1. main = "awaiting" /\ loop \in {"flushing", "last_flush"}
        /\ UNCHANGED <<queue, produced, table>> /\ lost' = batch
    BY <1>3 DEF WriterDies, Control, LoopFits, MainFits, Return, dataVars, TypeOK, Mains
  <2>2. AtMostTwice(log) /\ log \notin batch
    BY <2>1 DEF Again
  <2>3. QED
    BY <2>1, <2>2 DEF AtMostTwice
<1>4. CASE ~Close /\ ~WriterFlushed /\ ~WriterDies
  <2>1. main \notin {"starting", "serving"} /\ loop \in {"finished", "failed"}
    BY <1>4 DEF Next, MainStep, MainStarts, StartWriter, CloseAwaits, ClosePool, WriterStep, WriterWakes,
       WriterFlushes, WriterFlushesAgain, ClientStep, QueueLog, vars, writerVars
  <2>2. UNCHANGED vars \/ CloseAwaits \/ ClosePool
    BY <1>4, <2>1, AfterClose DEF WriterStep, WriterWakes, WriterFlushes, WriterFlushesAgain
  <2>3. UNCHANGED <<queue, produced, table, lost>>
    BY <2>2 DEF vars, poolVars, dataVars, writerVars, CloseAwaits, ClosePool, CloseNext, CloseEnds
  <2>4. QED
    BY <2>1, <2>3 DEF LogsWritten
<1>5. QED
  BY <1>1, <1>2, <1>3, <1>4

-----------------------------------------------------------------------------
(* The theorems. *)

LEMMA InitDatabase == Init => DatabaseInv
<1> SUFFICES ASSUME Init PROVE DatabaseInv
  OBVIOUS
<1>1. PoolInv /\ Control
  BY InitControl
<1>2. TypeOK
  <2>1. 0 \in 0..MaxFaults
    BY DatabaseAssumption
  <2>2. running \in BOOLEAN
    BY Zenon DEF Init
  <2>3. QED
    BY <1>1, <2>1, <2>2 DEF Init, PoolInv, TypeOK, Loops, Mains
<1>3. DirtyFits /\ Blamed
  <2>1. \A c \in Conns : ~Locked(c)
    BY DEF Init, PoolInit, Locked
  <2>2. \A t \in Tasks : task[t].phase = "idle"
    BY DEF Init, PoolInit, IdleTask
  <2>3. QED
    BY <2>1, <2>2, Callers DEF DirtyFits, Uncommitted, Blamed, Init
<1>4. Known /\ LogsInOnePlace /\ Again /\ LogsWritten
  <2>1. \A log \in Logs : InPlace(log)
    BY Callers DEF Init, PoolInit, InPlace, NoRows
  <2>2. QED
    BY <2>1 DEF Init, Known, LogsInOnePlace, Again, LogsWritten
<1>5. QED
  BY <1>1, <1>2, <1>3, <1>4 DEF DatabaseInv

LEMMA DatabaseAlways ==
    ASSUME DatabaseInv, [Next]_vars
    PROVE  DatabaseInv'
<1>1. PoolInv' /\ Control'
  BY PoolAlways, ControlAlways DEF DatabaseInv
<1>2. TypeOK'
  BY <1>1, TypesAlways DEF DatabaseInv, PoolInv
<1>3. DirtyFits' /\ Blamed' /\ Known' /\ LogsInOnePlace' /\ Again' /\ LogsWritten'
  BY DirtyAlways, BlamedAlways, KnownAlways, OnePlaceAlways, AgainAlways, WrittenAlways DEF DatabaseInv
<1>4. QED
  BY <1>1, <1>2, <1>3 DEF DatabaseInv

LEMMA DatabaseInvariant == Spec => []DatabaseInv
BY InitDatabase, DatabaseAlways, PTL DEF Spec

\* Queue, batch, table, connections and tasks keep their types: no more
\* connections exist than the queue has places, and no count goes below zero.
THEOREM DatabaseTypeCorrect == Spec => []TypeOK
<1>1. DatabaseInv => TypeOK
  BY DEF DatabaseInv
<1>2. QED
  BY <1>1, DatabaseInvariant, PTL

\* Each connection opened is held by one task, waits once in the queue or is
\* closed, whichever statement fails and wherever close() cancels the writer;
\* and close() closes them all (acquire(), close_all()).
THEOREM ConnectionsStayInOnePlace == Spec => []ConnectionsInOnePlace
<1>1. ASSUME DatabaseInv
      PROVE  ConnectionsInOnePlace
  <2> USE <1>1, Callers DEF DatabaseInv
  <2>1. NoSharing /\ NothingLost
    BY DEF PoolInv
  <2>2. ASSUME main = "closed"
        PROVE  closed = 1..opened
    <3>1. \A t \in Tasks : task[t].phase = "idle"
      BY <2>2 DEF Control, MainFits, ClientsFit, WriterFits, LoopFits
    <3>2. \A t \in Tasks : task[t].conn = 0
      BY <3>1, Numbers DEF PoolInv, HoldsInPhase, Holds, Holding
    <3>3. Pooled = {}
      BY <2>2 DEF Control, MainFits, Pooled
    <3>4. closed \subseteq 1..opened
      BY DEF PoolInv, OnlyOpened
    <3>5. \A c \in 1..opened : c # 0
      BY DEF PoolInv, PoolTypeOK
    <3>6. QED
      BY <2>1, <3>2, <3>3, <3>4, <3>5 DEF NothingLost
  <2>3. QED
    BY <2>1, <2>2 DEF ConnectionsInOnePlace
<1>2. QED
  BY <1>1, DatabaseInvariant, PTL

\* While the database is in service, a connection waits in the queue without an
\* open transaction: each exit of acquire() commits or rolls back.
THEOREM ServingIsClean == Spec => []CleanWhileServing
<1>1. ASSUME DatabaseInv, main = "serving", NEW c \in Pooled
      PROVE  ~Locked(c)
  <2>1. c \in Conns
    BY <1>1, PoolContents DEF DatabaseInv, PoolInv
  <2>2. \A t \in Tasks : task[t].conn # c
    BY <1>1, <2>1, Numbers DEF DatabaseInv, PoolInv, NoSharing, Holds
  <2>3. QED
    BY <1>1, <2>1, <2>2 DEF DatabaseInv, DirtyFits, Uncommitted
<1>2. DatabaseInv => CleanWhileServing
  BY <1>1 DEF CleanWhileServing, IdleIsClean
<1>3. QED
  BY <1>2, DatabaseInvariant, PTL

\* While the database is in service no log is written twice, and none is lost but
\* with the batch of a flush that SQLite made fail. When close() returns, the batch
\* whose flush it cancelled is in the table, at most twice; when close() raises,
\* all but the batch that was lost is there (_batch_writer(), _flush_batch(), close()).
THEOREM LogsStayAccounted == Spec => []LogsAccountedFor
<1>1. ASSUME DatabaseInv, main = "serving"
      PROVE  /\ lost # {} => faults > 0
             /\ \A log \in produced :
                  One(log \in queue) + One(log \in Unwritten) + One(log \in lost) + table[log] = 1
  BY <1>1 DEF DatabaseInv, TypeOK, Blamed, LogsInOnePlace, InPlace
<1>2. ASSUME DatabaseInv, NEW log \in produced, main \in {"closed", "raised"}
      PROVE  /\ log \in queue \cup lost \/ table[log] \in {1, 2}
             /\ main = "closed" => lost = {}
  BY <1>2 DEF DatabaseInv, Control, LoopFits, LogsWritten
<1>3. DatabaseInv => LogsAccountedFor
  BY <1>1, <1>2 DEF LogsAccountedFor
<1>4. QED
  BY <1>3, DatabaseInvariant, PTL

=============================================================================
