-------------------------- MODULE MCAsyncDatabase --------------------------
(***************************************************************************)
(* Instances of the asynchronous database for TLC.                          *)
(***************************************************************************)
EXTENDS AsyncDatabase, TLC

CONSTANTS client1, client2, log1, log2, MainTask, WriterTask

OneClient == {client1}
TwoClients == {client1, client2}
TwoLogs == {log1, log2}

TasksOf(clients) == clients \cup {MainTask, WriterTask}
TasksWithOne == TasksOf(OneClient)
TasksWithTwo == TasksOf(TwoClients)
RowsOfOne == OneClient \cup TwoLogs
RowsOfTwo == TwoClients \cup TwoLogs

=============================================================================
