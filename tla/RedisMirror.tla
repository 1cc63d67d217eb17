----------------------------- MODULE RedisMirror -----------------------------
(***************************************************************************)
(* The copy of the blacklist that RedisCache keeps next to the table        *)
(* (redis_cache.py; ban_ip and unban_ip in main.py, with USE_REDIS on).     *)
(*                                                                          *)
(* An endpoint awaits one or two Redis commands and then writes table and   *)
(* in-memory object in one go, so calls interleave between the commands.    *)
(* Requests ask only the table, and bans for violations reach only the      *)
(* table; the pages show only Redis. The in-memory object changes in the    *)
(* same step as the table; WAFProxy has it. The process may die between two  *)
(* commands; Redis and the table live on, and the next one may find Redis    *)
(* or not.                                                                  *)
(***************************************************************************)
EXTENDS BlacklistTable, FiniteSets

CONSTANTS
    Calls,          \* calls of the endpoints, each made once
    IPs,            \* client addresses
    BanDuration,    \* duration_hours=1 of a ban by the endpoint
    AutoThreshold,  \* auto_ban_threshold
    AutoDuration,   \* ban_duration_minutes
    MaxTime,        \* bound: the clock
    MaxCount,       \* bound: violations of a client
    MaxFailures,    \* bound: Redis commands that raise
    MaxRestarts     \* bound: restarts of the process

ASSUME MirrorAssumption ==
    /\ IPs # {}
    /\ BanDuration \in Nat \ {0}
    /\ AutoThreshold \in Nat
    /\ AutoDuration \in Nat
    /\ MaxTime \in Nat
    /\ MaxCount \in Nat
    /\ MaxFailures \in Nat
    /\ MaxRestarts \in Nat

VARIABLES
    now,
    connected,      \* RedisCache._connected
    hash,           \* the Redis hash bl:<ip>
    rows,           \* the table ip_blacklist
    locked,         \* an abandoned connection holds SQLite's write lock
    calls,          \* where each call is
    failures,       \* Redis commands that raised so far
    restarts,       \* restarts so far
    apart           \* history: what may have set the copies apart

vars == <<now, connected, hash, rows, locked, calls, failures, restarts, apart>>
callVars == <<calls, failures, restarts, apart>>

Kinds == {"ban", "permanent", "unban"}

\* What may leave Redis listing a client the table does not refuse, and what may
\* leave the table refusing one that Redis does not list.
Overstates == {"ban failed", "crossed", "unseen", "shortened"}
Understates == {"unban failed", "crossed", "unseen", "penalty"}

-----------------------------------------------------------------------------
\* Redis: a key that has outlived its TTL is not there.
NoTTL == -1
NoHash == [present |-> FALSE, permanent |-> FALSE, ttl |-> NoTTL]

Visible(h, t) == h.present /\ (h.ttl = NoTTL \/ h.ttl > t)

\* HSET keeps the TTL of a key that is there, and makes one without otherwise.
HSet(h, permanent, t) ==
    [IF Visible(h, t) THEN h ELSE NoHash EXCEPT !.present = TRUE, !.permanent = permanent]

\* Mutant: EXPIRE revives a key that is gone.
Expire_Revives(h, t) == [h EXCEPT !.ttl = t + BanDuration]

\* Mutant: the TTL is rounded down to 0, and EXPIRE deletes the key.
Expire_RoundsToZero(h, t) == NoHash

\* EXPIRE does nothing to a key that is not there, deleted or run out.
Expire(h, t) == IF Visible(h, t) THEN [h EXCEPT !.ttl = t + BanDuration] ELSE h

\* Mutant: an unban deletes only the list of violations.
Del_WrongKey(h) == h

\* DEL bl:<ip>, then DEL blv:<ip>, a list that nobody fills.
Del(h) == NoHash

-----------------------------------------------------------------------------
\* phase: what a call awaits next ("table" is its last stretch, without await).
\* alone: no other call for the same client was under way at the same time.
Idle == [phase |-> "idle", kind |-> "ban", ip |-> CHOOSE ip \in IPs : TRUE, alone |-> TRUE]

\* connect() succeeded at startup or it did not; nothing resets it afterwards.
Init ==
    /\ now = 0
    /\ connected \in BOOLEAN
    /\ hash = [ip \in IPs |-> NoHash]
    /\ rows = [ip \in IPs |-> NoRow]
    /\ locked = FALSE
    /\ calls = [c \in Calls |-> Idle]
    /\ failures = 0
    /\ restarts = 0
    /\ apart = [ip \in IPs |-> {}]

UnderWay(ip) == {c \in Calls : calls[c].ip = ip /\ calls[c].phase \notin {"idle", "done"}}

\* A call arrives and sends its first command, or goes straight to the table.
Begin(c, kind, ip) ==
    /\ calls[c].phase = "idle"
    /\ calls' = [d \in Calls |->
           IF d = c
           THEN [phase |-> IF ~connected THEN "table" ELSE IF kind = "unban" THEN "del" ELSE "hset",
                 kind |-> kind, ip |-> ip, alone |-> UnderWay(ip) = {}]
           ELSE IF d \in UnderWay(ip) THEN [calls[d] EXCEPT !.alone = FALSE]
           ELSE calls[d]]
    /\ apart' = IF \E d \in UnderWay(ip) : calls[d].kind # kind
                THEN [apart EXCEPT ![ip] = @ \cup {"crossed"}]
                ELSE apart
    /\ UNCHANGED <<now, connected, hash, rows, locked, failures, restarts>>

Failure(call) == IF call.kind = "unban" THEN "unban failed" ELSE "ban failed"

\* The command a call waits for, as Redis executes it.
Executed(c) ==
    LET ip == calls[c].ip
    IN  CASE calls[c].phase = "hset" ->
                [hash EXCEPT ![ip] = HSet(@, calls[c].kind = "permanent", now)]
          [] calls[c].phase = "expire" -> [hash EXCEPT ![ip] = Expire(@, now)]
          [] calls[c].phase = "del" -> [hash EXCEPT ![ip] = Del(@)]

\* Mutant: a temporary ban is not given a TTL.
NextPhase_NoExpire(call) == "table"

\* Only a temporary ban has a second command: the second DEL of an unban changes
\* nothing and is taken with the first.
NextPhase(call) ==
    IF call.phase = "hset" /\ call.kind = "ban" THEN "expire" ELSE "table"

RedisAnswers(c) ==
    /\ calls[c].phase \in {"hset", "expire", "del"}
    /\ hash' = Executed(c)
    /\ calls' = [calls EXCEPT ![c].phase = NextPhase(calls[c])]
    /\ UNCHANGED <<now, connected, rows, locked, failures, restarts, apart>>

\* The command raises, executed or not: the call ends in a 500 before the table.
RedisRaises(c) ==
    /\ calls[c].phase \in {"hset", "expire", "del"}
    /\ failures < MaxFailures
    /\ failures' = failures + 1
    /\ hash' \in {hash, Executed(c)}
    /\ calls' = [calls EXCEPT ![c].phase = "done"]
    /\ apart' = [apart EXCEPT ![calls[c].ip] = @ \cup {Failure(calls[c])}]
    /\ UNCHANGED <<now, connected, rows, locked, restarts>>

\* A call that was alone from its first command to here leaves equal copies, one
\* of a process without Redis does not.
Settled(c) ==
    [apart EXCEPT ![calls[c].ip] = IF ~connected THEN @ \cup {"unseen"}
                                   ELSE IF calls[c].alone THEN {}
                                   ELSE @]

\* waf_db.blacklist_ban or blacklist_unban, and the response.
TableWritten(c) ==
    LET ip == calls[c].ip
    IN  /\ calls[c].phase = "table"
        /\ ~locked
        /\ \/ /\ calls[c].kind # "unban"
              /\ rows' = [rows EXCEPT ![ip] =
                              Banned(@, calls[c].kind = "permanent", now + BanDuration)]
           \/ /\ calls[c].kind = "unban"
              /\ Deletable(rows[ip])
              /\ rows' = [rows EXCEPT ![ip] = NoRow]
        /\ calls' = [calls EXCEPT ![c].phase = "done"]
        /\ apart' = Settled(c)
        /\ UNCHANGED <<now, connected, hash, locked, failures, restarts>>

\* The statement raises: the lock is held, or violations refer to the row.
TableRaises(c) ==
    /\ calls[c].phase = "table"
    /\ locked \/ (calls[c].kind = "unban" /\ ~Deletable(rows[calls[c].ip]))
    /\ locked' = TRUE
    /\ calls' = [calls EXCEPT ![c].phase = "done"]
    /\ apart' = [apart EXCEPT ![calls[c].ip] = @ \cup {Failure(calls[c])}]
    /\ UNCHANGED <<now, connected, hash, rows, failures, restarts>>

-----------------------------------------------------------------------------
\* What requests do to the table meanwhile (see WAFProxy).

\* The ban on record would have ended later.
Outlasts(row, until) == IsBlocked(row, now) /\ (row.permanent \/ row.expires > until)

\* A violation is counted, of a request that may have passed its lookup before the
\* client was banned: at or above the threshold the row is banned, once more if it
\* is banned already, and perhaps for a shorter time. Redis is not told.
Penalise(ip) ==
    LET row   == Violated(rows[ip])
        over  == row.count >= AutoThreshold
        until == now + AutoDuration
    IN  /\ ~locked
        /\ rows[ip].count < MaxCount
        /\ rows' = [rows EXCEPT ![ip] = IF over THEN Banned(row, FALSE, until) ELSE row]
        /\ apart' = [apart EXCEPT ![ip] =
               @ \cup IF ~over THEN {}
                      ELSE IF Outlasts(row, until) THEN {"penalty", "shortened"}
                      ELSE {"penalty"}]
        /\ UNCHANGED <<now, connected, hash, locked, calls, failures, restarts>>

\* The lookup of a lapsed row deletes it, or raises.
LookUp(ip) ==
    /\ Lapsed(rows[ip], now)
    /\ \/ /\ ~locked
          /\ rows' \in {[rows EXCEPT ![ip] = row] : row \in AfterLookup(rows[ip], now)}
          /\ UNCHANGED locked
       \/ /\ ~Deletable(rows[ip])
          /\ locked' = TRUE
          /\ UNCHANGED rows
    /\ UNCHANGED <<now, connected, hash, callVars>>

CollectGarbage ==
    /\ locked
    /\ locked' = FALSE
    /\ UNCHANGED <<now, connected, hash, rows, callVars>>

\* The process dies, and with it the calls under way, wherever they are; the
\* next one connects to Redis, or does not.
Restart ==
    /\ restarts < MaxRestarts
    /\ restarts' = restarts + 1
    /\ connected' \in BOOLEAN
    /\ locked' = FALSE
    /\ calls' = [c \in Calls |-> IF calls[c].phase = "idle" THEN calls[c]
                                ELSE [calls[c] EXCEPT !.phase = "done"]]
    /\ apart' = [ip \in IPs |-> apart[ip] \cup {Failure(calls[c]) : c \in UnderWay(ip)}]
    /\ UNCHANGED <<now, hash, rows, failures>>

TimePasses ==
    /\ now < MaxTime
    /\ now' = now + 1
    /\ UNCHANGED <<connected, hash, rows, locked, callVars>>

-----------------------------------------------------------------------------
Next ==
    \/ \E c \in Calls :
        \/ \E kind \in Kinds, ip \in IPs : Begin(c, kind, ip)
        \/ RedisAnswers(c)
        \/ RedisRaises(c)
        \/ TableWritten(c)
        \/ TableRaises(c)
    \/ \E ip \in IPs : Penalise(ip) \/ LookUp(ip)
    \/ CollectGarbage
    \/ Restart
    \/ TimePasses

Spec == Init /\ [][Next]_vars

-----------------------------------------------------------------------------
Call == [phase : {"idle", "hset", "expire", "del", "table", "done"},
         kind : Kinds, ip : IPs, alone : BOOLEAN]

\* A hash that is gone has no fields and no TTL.
TypeOK ==
    /\ now \in 0..MaxTime
    /\ connected \in BOOLEAN
    /\ hash \in [IPs -> [present : BOOLEAN, permanent : BOOLEAN, ttl : Nat \cup {NoTTL}]]
    /\ \A ip \in IPs : ~hash[ip].present => hash[ip] = NoHash
    /\ rows \in [IPs -> Row]
    /\ locked \in BOOLEAN
    /\ calls \in [Calls -> Call]
    /\ failures \in 0..MaxFailures
    /\ restarts \in 0..MaxRestarts
    /\ apart \in [IPs -> SUBSET (Overstates \cup Understates)]

\* Ban and TTL are two commands, yet however calls interleave between them, a
\* temporary ban that Redis shows will fade: it has a TTL no longer than the ban,
\* or a call is about to set it, or a ban failed half way.
TemporaryBansFade ==
    \A ip \in IPs : Visible(hash[ip], now) /\ ~hash[ip].permanent =>
        \/ hash[ip].ttl # NoTTL /\ hash[ip].ttl <= now + BanDuration
        \/ \E c \in UnderWay(ip) : calls[c].phase = "expire"
        \/ "ban failed" \in apart[ip]

\* Whatever went wrong before, the next call for a client that runs undisturbed,
\* with Redis, brings the copies together again, and between calls they then agree
\* at every instant, in both directions. Redis lists no client that the table does
\* not refuse, unless since then a ban failed half way, calls of different kinds
\* crossed, a call was made without Redis, or violations shortened the ban. The
\* table refuses no client whose entry is gone, unless an unban failed half way,
\* calls crossed, a call was made without Redis, or violations banned the client. (An
\* entry may run out by itself before the ban does: HSET keeps an older TTL, even
\* for a permanent ban, and the TTL is set before the table is written.)
CopiesAgree ==
    \A ip \in IPs : UnderWay(ip) = {} =>
        /\ apart[ip] \cap Overstates = {} /\ Visible(hash[ip], now) => IsBlocked(rows[ip], now)
        /\ apart[ip] \cap Understates = {} /\ IsBlocked(rows[ip], now) => hash[ip].present

=============================================================================
