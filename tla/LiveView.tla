------------------------------ MODULE LiveView ------------------------------
(***************************************************************************)
(* The log of analysed requests and the dashboard page that follows it:     *)
(* RequestLogger (request_log.py) with its deque, the table request_logs,   *)
(* the broadcast to the page's websocket (main.py), and the page's script   *)
(* (static/dashboard.html), which pages through the table by offset while   *)
(* new entries are pushed to it.                                            *)
(*                                                                          *)
(* The server's handlers are single steps of one event loop, and so are the *)
(* page's; between them lie the network and the table. A fetch is sent,     *)
(* answered and handled in three steps, and two of them may overtake each   *)
(* other. The socket is first in, first out until it breaks.                *)
(***************************************************************************)
EXTENDS Lists, SequencesExt

CONSTANTS
    Batch,          \* LOG_BATCH
    MaxLogSize,     \* MAX_LOG_SIZE
    SampleAttacks,  \* the number of SAMPLE_ATTACKS
    OldRows,        \* how many rows the file may hold at the start
    Slots,          \* bound: fetches under way at a time
    MaxCalls,       \* bound: requests logged and attempts to load the samples
    MaxFaults       \* bound: failures of the file, the network or the server

ASSUME LiveAssumption ==
    /\ {Batch, MaxLogSize, SampleAttacks, MaxCalls, MaxFaults} \subseteq Nat \ {0}
    /\ OldRows \subseteq Nat
    /\ IsFiniteSet(Slots)

VARIABLES
    table,          \* request_logs, in the order of its timestamps
    deque,          \* RequestLogger._logs
    data_loaded,    \* RequestLogger._data_loaded
    registered,     \* the page's socket is in active_websockets
    wire,           \* entries on their way to the page
    allLogs,        \* the page's list
    logOffset,      \* the page's offset
    more,           \* whether the page shows its button "Load More"
    fetches,        \* the page's requests for logs
    calls,          \* requests logged and attempts to load the samples so far
    faults,         \* failures so far
    unsaved,        \* history: entries whose INSERT failed
    mark,           \* history: rows there were when the last reset was answered
    disturbed       \* history: what came in between since the last reset began

serverVars == <<table, deque, data_loaded, calls, unsaved>>
socketVars == <<registered, wire>>
pageVars == <<allLogs, logOffset, more>>
vars == <<serverVars, socketVars, pageVars, fetches, faults, mark, disturbed>>

-----------------------------------------------------------------------------
\* An entry: its number, and which sample it is (0: a real request).
Made == Len(table) + Cardinality(unsaved)
Entry(no, sample) == [no |-> no, sample |-> sample]

\* Mutants: nothing is dropped; what is new is dropped.
Trim_Never(log) == log
Trim_KeepsOldest(log) == IF Len(log) <= MaxLogSize THEN log ELSE SubSeq(log, 1, MaxLogSize)

\* deque(maxlen=MAX_LOG_SIZE) with what was appended.
Trim(log) == Latest(log, MaxLogSize)

Idle == [phase |-> "idle", reset |-> FALSE, offset |-> 0, rows |-> <<>>]
Free == {s \in Slots : fetches[s].phase = "idle"}

Causes == {"overlap", "loss", "live"}
Note(causes) == IF "overlap" \in disturbed THEN disturbed ELSE disturbed \cup causes

Init ==
    /\ \E n \in OldRows : table = [i \in 1..n |-> Entry(i, 0)] /\ mark = n
    /\ calls = 0
    /\ deque = <<>>
    /\ data_loaded = FALSE
    /\ registered = FALSE
    /\ wire = <<>>
    /\ allLogs = <<>>
    /\ logOffset = 0
    /\ more = FALSE
    /\ fetches = [s \in Slots |-> Idle]
    /\ faults = 0
    /\ unsaved = {}
    /\ disturbed = {"loss"}

Fault == faults < MaxFaults /\ faults' = faults + 1

-----------------------------------------------------------------------------
\* The server.

\* RequestLogger.log: into the deque, to the socket, and only then into the
\* table, which may raise: the entry was shown but is not kept.
Log ==
    LET entry == Entry(Made + 1, 0)
    IN  /\ calls < MaxCalls
        /\ deque' = Trim(Append(deque, entry))
        /\ wire' = IF registered THEN Append(wire, entry) ELSE wire
        /\ calls' = calls + 1
        /\ \/ table' = Append(table, entry) /\ UNCHANGED <<unsaved, faults>>
           \/ Fault /\ unsaved' = unsaved \cup {entry.no} /\ UNCHANGED table
        /\ UNCHANGED <<data_loaded, registered, pageVars, fetches, mark, disturbed>>

\* The first k samples as entries. No socket is told of them.
SampleRows(k) == [i \in 1..k |-> Entry(Made + i, i)]

SeedCall ==
    /\ ~data_loaded
    /\ calls < MaxCalls
    /\ calls' = calls + 1
    /\ UNCHANGED <<socketVars, pageVars, fetches, mark, disturbed>>

\* seed_sample_data
Seed ==
    /\ SeedCall
    /\ deque' = Trim(deque \o SampleRows(SampleAttacks))
    /\ table' = table \o SampleRows(SampleAttacks)
    /\ data_loaded' = TRUE
    /\ UNCHANGED <<unsaved, faults>>

\* The INSERT of sample k raises: those before it stay, and data_loaded FALSE.
SeedRaises(k) ==
    /\ SeedCall
    /\ Fault
    /\ deque' = Trim(deque \o SampleRows(k))
    /\ table' = table \o SampleRows(k - 1)
    /\ unsaved' = unsaved \cup {Made + k}
    /\ UNCHANGED data_loaded

\* GET /dashboard/logs: SELECT ... ORDER BY timestamp DESC LIMIT ? OFFSET ?
Page(offset) == SubSeq(Reverse(table), offset + 1, Min({offset + Batch, Len(table)}))

Serve(s) ==
    /\ fetches[s].phase = "sent"
    /\ fetches' = [fetches EXCEPT ![s].phase = "answered",
                                  ![s].rows = Page(fetches[s].offset)]
    /\ mark' = IF fetches[s].reset /\ "overlap" \notin disturbed THEN Len(table) ELSE mark
    /\ UNCHANGED <<serverVars, socketVars, pageVars, faults, disturbed>>

-----------------------------------------------------------------------------
\* The page.

Send(reset, offset) ==
    /\ Free # {}
    /\ fetches' = [fetches EXCEPT ![CHOOSE s \in Free : TRUE] =
                       [phase |-> "sent", reset |-> reset, offset |-> offset, rows |-> <<>>]]

\* Mutant: the timer polls only while there is no socket.
StartReset_OnlyWhenDown ==
    /\ ~registered
    /\ Send(TRUE, 0)
    /\ allLogs' = <<>>
    /\ logOffset' = 0
    /\ disturbed' = IF Free # Slots THEN {"overlap"} ELSE {"loss"}
    /\ UNCHANGED <<serverVars, socketVars, more, faults, mark>>

\* loadLogs(), from the timer or after seeding: the list is emptied before the
\* answer is there.
StartReset ==
    /\ Send(TRUE, 0)
    /\ allLogs' = <<>>
    /\ logOffset' = 0
    /\ disturbed' = IF Free # Slots THEN {"overlap"} ELSE IF registered THEN {} ELSE {"loss"}
    /\ UNCHANGED <<serverVars, socketVars, more, faults, mark>>

\* loadMoreLogs()
LoadMore ==
    /\ more
    /\ Send(FALSE, logOffset)
    /\ disturbed' = IF Free # Slots THEN {"overlap"} ELSE disturbed
    /\ UNCHANGED <<serverVars, socketVars, pageVars, faults, mark>>

\* Mutant: the button goes with the first full batch.
Arrive_HidesTooSoon(s) ==
    LET rows == fetches[s].rows
    IN  /\ fetches[s].phase = "answered"
        /\ fetches' = [fetches EXCEPT ![s] = Idle]
        /\ IF rows = <<>>
           THEN more' = FALSE /\ UNCHANGED <<allLogs, logOffset>>
           ELSE /\ allLogs' = IF fetches[s].reset THEN rows ELSE allLogs \o rows
                /\ logOffset' = logOffset + Len(rows)
                /\ more' = (Len(rows) > Batch)
        /\ UNCHANGED <<serverVars, socketVars, faults, mark, disturbed>>

\* The rest of loadLogs. An empty answer only hides the button.
Arrive(s) ==
    LET rows == fetches[s].rows
    IN  /\ fetches[s].phase = "answered"
        /\ fetches' = [fetches EXCEPT ![s] = Idle]
        /\ IF rows = <<>>
           THEN more' = FALSE /\ UNCHANGED <<allLogs, logOffset>>
           ELSE /\ allLogs' = IF fetches[s].reset THEN rows ELSE allLogs \o rows
                /\ logOffset' = logOffset + Len(rows)
                /\ more' = (Len(rows) >= Batch)
        /\ UNCHANGED <<serverVars, socketVars, faults, mark, disturbed>>

\* A fetch that fails is only written to the console.
FetchFails(s) ==
    /\ fetches[s].phase # "idle"
    /\ Fault
    /\ fetches' = [fetches EXCEPT ![s] = Idle]
    /\ disturbed' = IF fetches[s].reset THEN Note({"loss"}) ELSE disturbed
    /\ UNCHANGED <<serverVars, socketVars, pageVars, mark>>

\* What comes while a reset is under way will be overwritten.
Received ==
    /\ wire # <<>>
    /\ wire' = Tail(wire)
    /\ disturbed' = Note({"live"} \cup
           (IF \E s \in Slots : fetches[s].reset THEN {"loss"} ELSE {}))
    /\ UNCHANGED <<serverVars, registered, more, fetches, faults, mark>>

\* Mutants: a new entry moves the offset on; it is dropped while the page loads.
Receive_MovesOffset ==
    /\ Received
    /\ allLogs' = <<Head(wire)>> \o allLogs
    /\ logOffset' = logOffset + 1
Receive_NotWhileLoading ==
    /\ Received
    /\ allLogs' = IF Free = Slots THEN <<Head(wire)>> \o allLogs ELSE allLogs
    /\ UNCHANGED logOffset

\* addLiveEntry
Receive ==
    /\ Received
    /\ allLogs' = <<Head(wire)>> \o allLogs
    /\ UNCHANGED logOffset

\* clearLogs()
Clear ==
    /\ allLogs' = <<>>
    /\ logOffset' = 0
    /\ more' = FALSE
    /\ disturbed' = IF Free # Slots THEN {"overlap"} ELSE Note({"loss"})
    /\ UNCHANGED <<serverVars, socketVars, fetches, faults, mark>>

-----------------------------------------------------------------------------
\* connectWebSocket and websocket_endpoint; the page tries again for ever.
Connect ==
    /\ ~registered
    /\ registered' = TRUE
    /\ UNCHANGED <<serverVars, wire, pageVars, fetches, faults, mark, disturbed>>

Disconnect ==
    /\ registered
    /\ Fault
    /\ registered' = FALSE
    /\ wire' = <<>>
    /\ disturbed' = Note({"loss"})
    /\ UNCHANGED <<serverVars, pageVars, fetches, mark>>

\* The server starts anew: the file stays, and the page.
Restart ==
    /\ Fault
    /\ deque' = <<>>
    /\ data_loaded' = FALSE
    /\ registered' = FALSE
    /\ wire' = <<>>
    /\ fetches' = [s \in Slots |-> IF fetches[s].phase = "sent" THEN Idle ELSE fetches[s]]
    /\ disturbed' = Note({"loss"})
    /\ UNCHANGED <<table, calls, unsaved, pageVars, mark>>

-----------------------------------------------------------------------------
Next ==
    \/ Log
    \/ Seed
    \/ \E k \in 1..SampleAttacks : SeedRaises(k)
    \/ StartReset
    \/ LoadMore
    \/ Receive
    \/ Clear
    \/ Connect
    \/ Disconnect
    \/ Restart
    \/ \E s \in Slots : Serve(s) \/ Arrive(s) \/ FetchFails(s)

\* The timer goes on, requests are answered and messages delivered.
Fairness ==
    /\ SF_vars(StartReset)
    /\ WF_vars(Receive)
    /\ WF_vars(Connect)
    /\ \A s \in Slots : WF_vars(Serve(s)) /\ WF_vars(Arrive(s))

Spec == Init /\ [][Next]_vars /\ Fairness

-----------------------------------------------------------------------------
Entries == [no : Nat, sample : 0..SampleAttacks]

TypeOK ==
    /\ table \in Seq(Entries)
    /\ deque \in Seq(Entries) /\ Len(deque) <= MaxLogSize
    /\ data_loaded \in BOOLEAN
    /\ registered \in BOOLEAN
    /\ wire \in Seq(Entries)
    /\ allLogs \in Seq(Entries)
    /\ logOffset \in Nat
    /\ more \in BOOLEAN
    /\ fetches \in [Slots -> [phase : {"idle", "sent", "answered"}, reset : BOOLEAN,
                              offset : Nat, rows : Seq(Entries)]]
    /\ calls \in 0..MaxCalls
    /\ faults \in 0..MaxFaults
    /\ unsaved \subseteq 1..Made
    /\ mark \in 0..Len(table)
    /\ disturbed \subseteq Causes

\* Quiet: no fetch is under way, and what came in between is none of these.
Quiet(causes) == Free = Slots /\ disturbed \cap causes = {}
Shown == {allLogs[i].no : i \in 1..Len(allLogs)}
IsShown(i) == table[i].no \in Shown

Saved == {e \in Entries : e.no \notin unsaved}

\* Memory and file tell the same story: the deque, without the entries whose
\* INSERT failed, is the end of the table.
DequeIsTheTail == IsSuffix(Kept(deque, Saved), table)

\* Paging by offset skips nothing although rows are added meanwhile: of the rows
\* there were at the last reset, those before the offset, where "Load More" will
\* go on, are all on the page.
NothingSkipped ==
    Quiet({"overlap"}) =>
        \A i \in 1..mark : i > Len(table) - logOffset => IsShown(i)

\* If nothing was added, the page shows each row once and in order, goes on
\* where it stopped, and hides its button only when there is nothing left.
PageIsExact ==
    Quiet({"overlap", "live"}) /\ Len(table) = mark =>
        /\ IsPrefix(allLogs, Reverse(table))
        /\ logOffset = Len(allLogs)
        /\ allLogs # <<>> /\ ~more => Len(allLogs) = Len(table)

\* A request logged since the last reset was answered is on the page or on its
\* way. Left out is what loses entries: since that reset began, the socket was
\* down or broke, two fetches overlapped, the reset failed, the list was cleared,
\* or an entry came while the reset was under way and its answer overwrote it.
NothingMissed ==
    Quiet({"overlap", "loss"}) =>
        \A i \in mark + 1..Len(table) :
            table[i].sample = 0 => IsShown(i) \/ \E k \in 1..Len(wire) : wire[k] = table[i]

\* However the page came to differ (lost, doubled or never kept entries, fetches
\* that overtook each other), the timer brings it back: again and again it shows
\* exactly the newest rows.
PageCatchesUp == []<>(allLogs = Page(0))

=============================================================================
