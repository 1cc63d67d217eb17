-------------------------- MODULE WAFProxy_proofs --------------------------
(***************************************************************************)
(* The pipeline's invariants, for every set of requests, clients, settings  *)
(* and bounds. The steps are first sorted by what they do to the blacklist  *)
(* stores; each invariant is then proved once per kind of store step.       *)
(***************************************************************************)
EXTENDS WAFProxy, RateLimiter_proofs

-----------------------------------------------------------------------------
(* What the operators on a row and on a memory entry return. *)

LEMMA RowTypes ==
    ASSUME NEW row \in Row
    PROVE  /\ NoRow \in Row
           /\ Violated(row) \in Row
           /\ \A permanent \in BOOLEAN, until \in Nat : Banned(row, permanent, until) \in Row
           /\ \A t \in Nat : AfterLookup(row, t) \subseteq {row, NoRow}
<1>1. NoRow \in Row
  BY DEF Row, NoRow
<1>2. Violated(row) \in Row
  <2>1. row.count + 1 \in Nat
    BY DEF Row
  <2>2. QED
    BY <2>1 DEF Row, Violated
<1>3. \A permanent \in BOOLEAN, until \in Nat : Banned(row, permanent, until) \in Row
  BY DEF Row, Banned
<1>4. \A t \in Nat : AfterLookup(row, t) \subseteq {row, NoRow}
  BY DEF AfterLookup
<1>5. QED
  BY <1>1, <1>2, <1>3, <1>4

LEMMA MemoryTypes ==
    ASSUME NEW m \in Memory, NEW t \in Nat
    PROVE  /\ EmptyMemory \in Memory
           /\ MemViolated(m, t) \in Memory
           /\ \A permanent \in BOOLEAN : MemBanned(m, permanent, t) \in Memory
           /\ MemUnbanned(m) \in Memory
           /\ MemWhitelisted(m) \in Memory
           /\ MemAfterLookup(m, t) \in Memory
<1> USE IPBlacklistAssumption DEF Memory
<1>1. EmptyMemory \in Memory
  BY DEF EmptyMemory
<1>2. MemViolated(m, t) \in Memory
  <2> DEFINE kept == IF m.violations < MemHistory THEN m.violations + 1 ELSE MemHistory
  <2>1. kept \in 0..MemHistory
    OBVIOUS
  <2> HIDE DEF kept
  <2>2. [m EXCEPT !.violations = kept] \in Memory
    BY <2>1
  <2>3. [m EXCEPT !.violations = kept, !.entry = "temporary", !.since = t] \in Memory
    BY <2>1
  <2>4. MemViolated(m, t) \in {m, [m EXCEPT !.violations = kept],
                [m EXCEPT !.violations = kept, !.entry = "temporary", !.since = t]}
    BY DEF MemViolated, kept
  <2>5. QED
    BY <2>2, <2>3, <2>4
<1>3. \A permanent \in BOOLEAN : MemBanned(m, permanent, t) \in Memory
  BY DEF MemBanned
<1>4. MemUnbanned(m) \in Memory
  BY DEF MemUnbanned, EmptyMemory
<1>5. MemWhitelisted(m) \in Memory
  BY DEF MemWhitelisted
<1>6. MemAfterLookup(m, t) \in Memory
  BY DEF MemAfterLookup
<1>7. QED
  BY <1>1, <1>2, <1>3, <1>4, <1>5, <1>6

-----------------------------------------------------------------------------
(* Sorting the steps. *)

\* A step of the pipeline is a step of the rate limiter, or leaves it alone.
LEMMA NextIsLimiterStep ==
    ASSUME TypeOK, [Next]_vars
    PROVE  [RLStep]_rlVars
<1>1. config.rate.limit \in Limits /\ \A r \in Requests : req[r].ip \in IPs
  BY ProxyAssumption DEF TypeOK, Config, Request
<1>2. ASSUME NEW r \in Requests, Arrive(r)
      PROVE  [RLStep]_rlVars
  BY <1>1, <1>2 DEF Arrive, PassThrough, RefuseBlacklisted, RefuseRateLimited,
                    StartAnalysis, LookupRaises, LookupFault, RLStep, rlVars
<1>3. ASSUME NEW r \in Requests, Analyze(r) \/ Forward(r)
      PROVE  UNCHANGED rlVars
  BY <1>3 DEF Analyze, AnalyzeAllow, AnalyzeBlock, LogFault,
              PenaltyFault, Disconnect, Forward, UpstreamReturns
<1>4. ASSUME Admin
      PROVE  UNCHANGED rlVars
  BY <1>4 DEF Admin, BanIP, BanRaises, UnbanIP, UnbanRaises, WhitelistInMemory,
              SetWhitelistedIP, SetWhitelistedPath, UpdateConfig, Administer
<1>5. ASSUME Pages
      PROVE  [RLStep]_rlVars
  BY <1>5 DEF Pages, HistoryPage, RateInfoPage, RLStep
<1>6. ASSUME TimePasses \/ CollectGarbage
      PROVE  [RLStep]_rlVars
  BY <1>6 DEF TimePasses, CollectGarbage, RLStep
<1>7. QED
  BY <1>2, <1>3, <1>4, <1>5, <1>6 DEF Next, vars

\* What a step may do to the blacklist stores.
StoreStep ==
    \/ UNCHANGED storeVars
    \/ \E ip \in IPs : LookupPasses(ip)
    \/ \E r \in Requests : AnalyzeBlock(r) \/ PenaltyFault(r)
    \/ \E ip \in IPs :
        \/ \E permanent \in BOOLEAN : BanIP(ip, permanent)
        \/ UnbanIP(ip)
        \/ WhitelistInMemory(ip)
        \/ HistoryPage(ip)

LEMMA NextIsStoreStep ==
    ASSUME TypeOK, [Next]_vars
    PROVE  StoreStep
<1>1. \A r \in Requests : req[r].ip \in IPs
  BY DEF TypeOK, Request
<1>2. ASSUME NEW r \in Requests, Arrive(r)
      PROVE  StoreStep
  BY <1>1, <1>2 DEF Arrive, PassThrough, RefuseBlacklisted, RefuseRateLimited,
                    StartAnalysis, LookupRaises, LookupFault, StoreStep
<1>3. ASSUME NEW r \in Requests, Analyze(r) \/ Forward(r)
      PROVE  StoreStep
  BY <1>3 DEF Analyze, AnalyzeAllow, LogFault,
              Disconnect, Forward, UpstreamReturns, StoreStep
<1>4. ASSUME Admin
      PROVE  StoreStep
  BY <1>4 DEF Admin, BanRaises, UnbanRaises, SetWhitelistedIP, SetWhitelistedPath,
              UpdateConfig, StoreStep
<1>5. ASSUME Pages \/ TimePasses \/ CollectGarbage
      PROVE  StoreStep
  BY <1>5 DEF Pages, RateInfoPage, TimePasses, CollectGarbage, StoreStep
<1>6. QED
  BY <1>2, <1>3, <1>4, <1>5 DEF Next, vars, StoreStep

-----------------------------------------------------------------------------
(* Types. *)

\* The part of TypeOK about the blacklist stores.
StoreTypeOK ==
    /\ rows \in [IPs -> Row]
    /\ memory \in [IPs -> Memory]
    /\ admin_banned \subseteq IPs
    /\ ban_missed \subseteq IPs
    /\ muted \subseteq IPs
    /\ struck \in [IPs -> Nat \cup {NULL}]
    /\ inherited \in [IPs -> Nat]

\* A temporary ban's end, and a request's client, have the right types.
LEMMA Ends ==
    ASSUME TypeOK
    PROVE  /\ now \in Nat
           /\ now + AdminDuration \in Nat
           /\ config.blacklist.threshold \in Nat
           /\ now + config.blacklist.duration \in Nat
           /\ \A r \in Requests : req[r].ip \in IPs
BY ProxyAssumption DEF TypeOK, RLTypeOK, Config, Request

LEMMA LookupKeepsType ==
    ASSUME TypeOK, NEW ip \in IPs, LookupPasses(ip)
    PROVE  StoreTypeOK'
<1>1. rows[ip] \in Row /\ now \in Nat
  BY Ends DEF TypeOK
<1>2. \A row \in AfterLookup(rows[ip], now) : row \in Row
  BY <1>1, RowTypes
<1>3. QED
  BY <1>2 DEF LookupPasses, TypeOK, StoreTypeOK

LEMMA PenaltyKeepsType ==
    ASSUME TypeOK, NEW r \in Requests, AnalyzeBlock(r) \/ PenaltyFault(r)
    PROVE  StoreTypeOK'
<1> DEFINE ip == req[r].ip
<1>1. ip \in IPs /\ rows[ip] \in Row /\ memory[ip] \in Memory
  BY Ends DEF TypeOK
<1>2. /\ Violated(rows[ip]) \in Row
      /\ Banned(Violated(rows[ip]), FALSE, now + config.blacklist.duration) \in Row
      /\ MemViolated(memory[ip], now) \in Memory
  BY <1>1, Ends, RowTypes, MemoryTypes
<1>3. ASSUME AnalyzeBlock(r)
      PROVE  StoreTypeOK'
  BY <1>1, <1>2, <1>3, Ends DEF AnalyzeBlock, TypeOK, StoreTypeOK
<1>4. ASSUME PenaltyFault(r)
      PROVE  StoreTypeOK'
  BY <1>1, <1>2, <1>4 DEF PenaltyFault, TypeOK, StoreTypeOK
<1>5. QED
  BY <1>3, <1>4

LEMMA EndpointKeepsType ==
    ASSUME TypeOK, NEW ip \in IPs,
           \/ \E permanent \in BOOLEAN : BanIP(ip, permanent)
           \/ UnbanIP(ip)
           \/ WhitelistInMemory(ip)
           \/ HistoryPage(ip)
    PROVE  StoreTypeOK'
<1>1. rows[ip] \in Row /\ memory[ip] \in Memory
  BY DEF TypeOK
<1>2. ASSUME NEW permanent \in BOOLEAN, BanIP(ip, permanent)
      PROVE  StoreTypeOK'
  <2>1. /\ Banned(rows[ip], permanent, now + AdminDuration) \in Row
        /\ MemBanned(memory[ip], permanent, now) \in Memory
    BY <1>1, Ends, RowTypes, MemoryTypes
  <2>2. QED
    BY <1>2, <2>1 DEF BanIP, TypeOK, StoreTypeOK
<1>3. ASSUME UnbanIP(ip)
      PROVE  StoreTypeOK'
  <2>1. NoRow \in Row /\ MemUnbanned(memory[ip]) \in Memory
    BY <1>1, Ends, RowTypes, MemoryTypes
  <2>2. QED
    BY <1>3, <2>1 DEF UnbanIP, TypeOK, StoreTypeOK
<1>4. ASSUME WhitelistInMemory(ip)
      PROVE  StoreTypeOK'
  <2>1. MemWhitelisted(memory[ip]) \in Memory
    BY <1>1, Ends, MemoryTypes
  <2>2. QED
    BY <1>4, <2>1 DEF WhitelistInMemory, TypeOK, StoreTypeOK
<1>5. ASSUME HistoryPage(ip)
      PROVE  StoreTypeOK'
  <2>1. MemAfterLookup(memory[ip], now) \in Memory
    BY <1>1, Ends, MemoryTypes
  <2>2. QED
    BY <1>5, <2>1 DEF HistoryPage, history, TypeOK, StoreTypeOK
<1>6. QED
  BY <1>2, <1>3, <1>4, <1>5

LEMMA StoreType == ASSUME TypeOK, [Next]_vars PROVE StoreTypeOK'
<1>1. StoreStep
  BY NextIsStoreStep
<1>2. CASE UNCHANGED storeVars
  BY <1>2 DEF storeVars, history, TypeOK, StoreTypeOK
<1>3. QED
  BY <1>1, <1>2, LookupKeepsType, PenaltyKeepsType, EndpointKeepsType DEF StoreStep

\* The part of TypeOK about the lock, requests, configuration and accounts.
OtherTypeOK ==
    /\ locked \in BOOLEAN
    /\ config \in Config
    /\ req \in [Requests -> Request]
    /\ metrics \in Metrics
    /\ logged \subseteq Requests
    /\ persisted \subseteq Requests
    /\ adminOps \in Nat
    /\ faults \in Nat

LEMMA AtType ==
    ASSUME TypeOK, NEW r \in Requests, NEW phase \in Phases, NEW verdict \in Verdicts,
           NEW outcome \in Outcomes, At(r, phase, verdict, outcome)
    PROVE  req' \in [Requests -> Request]
BY DEF TypeOK, At, Request

LEMMA FinishType ==
    ASSUME TypeOK, NEW r \in Requests, NEW outcome \in Outcomes, Finish(r, outcome)
    PROVE  req' \in [Requests -> Request]
BY AtType DEF TypeOK, Finish, Request, Phases

LEMMA CountedType == ASSUME TypeOK, NEW verdict PROVE Counted(verdict) \in Metrics
<1>1. metrics \in Metrics /\ metrics.total + 1 \in Nat
                         /\ metrics.blocked + 1 \in Nat /\ metrics.allowed + 1 \in Nat
  BY DEF TypeOK, Metrics
<1>2. QED
  BY <1>1 DEF Counted, Metrics

LEMMA OtherType == ASSUME TypeOK, [Next]_vars PROVE OtherTypeOK'
<1> USE DEF TypeOK, OtherTypeOK
<1>1. ASSUME NEW r \in Requests, Arrive(r)
      PROVE  OtherTypeOK'
  <2> USE AtType, FinishType DEF Phases, Verdicts, Outcomes
  <2>1. PICK path \in Paths : \/ PassThrough(r, path)
                              \/ RefuseBlacklisted(r, path)
                              \/ RefuseRateLimited(r, path)
                              \/ StartAnalysis(r, path)
                              \/ LookupRaises(r, path)
                              \/ LookupFault(r, path)
    BY <1>1 DEF Arrive
  <2>2. CASE PassThrough(r, path)
    BY <2>2 DEF PassThrough, logVars
  <2>3. CASE RefuseBlacklisted(r, path)
    <3>1. metrics' \in Metrics
      BY <2>3 DEF RefuseBlacklisted, Metrics
    <3>2. QED
      BY <2>3, <3>1 DEF RefuseBlacklisted
  <2>4. CASE RefuseRateLimited(r, path)
    <3>1. metrics' \in Metrics
      BY <2>4 DEF RefuseRateLimited, Metrics
    <3>2. QED
      BY <2>4, <3>1 DEF RefuseRateLimited, LookupPasses
  <2>5. CASE StartAnalysis(r, path)
    BY <2>5 DEF StartAnalysis, LookupPasses, logVars
  <2>6. CASE LookupRaises(r, path)
    BY <2>6 DEF LookupRaises, logVars
  <2>7. CASE LookupFault(r, path)
    BY <2>7 DEF LookupFault, logVars
  <2>8. QED
    BY <2>1, <2>2, <2>3, <2>4, <2>5, <2>6, <2>7
<1>2. ASSUME NEW r \in Requests, Analyze(r)
      PROVE  OtherTypeOK'
  <2> USE AtType, FinishType DEF Phases, Verdicts, Outcomes
  <2>1. \A verdict : Counted(verdict) \in Metrics
    BY CountedType
  <2>2. CASE AnalyzeAllow(r)
    BY <2>1, <2>2 DEF AnalyzeAllow, Record
  <2>3. CASE AnalyzeBlock(r)
    BY <2>1, <2>3 DEF AnalyzeBlock, Record
  <2>5. ASSUME NEW verdict \in {"allow", "block"}, LogFault(r, verdict)
        PROVE  OtherTypeOK'
    BY <2>1, <2>5 DEF LogFault
  <2>6. CASE PenaltyFault(r)
    BY <2>1, <2>6 DEF PenaltyFault, Record
  <2>7. CASE Disconnect(r)
    BY <2>7 DEF Disconnect, logVars
  <2>8. QED
    BY <1>2, <2>2, <2>3, <2>5, <2>6, <2>7 DEF Analyze
<1>3. ASSUME NEW r \in Requests, Forward(r)
      PROVE  OtherTypeOK'
  BY <1>3, FinishType DEF Forward, UpstreamReturns, logVars, Outcomes
<1>4. ASSUME Admin
      PROVE  OtherTypeOK'
  <2> USE <1>4 DEF Administer, logVars, Config
  <2>1. ASSUME NEW ip \in IPs, NEW permanent \in BOOLEAN, BanIP(ip, permanent)
        PROVE  OtherTypeOK'
    BY <2>1 DEF BanIP
  <2>2. ASSUME NEW ip \in IPs, UnbanIP(ip) \/ WhitelistInMemory(ip)
        PROVE  OtherTypeOK'
    BY <2>2 DEF UnbanIP, WhitelistInMemory
  <2>3. ASSUME NEW ip \in IPs, NEW listed \in BOOLEAN, SetWhitelistedIP(ip, listed)
        PROVE  OtherTypeOK'
    BY <2>3 DEF SetWhitelistedIP
  <2>4. ASSUME NEW path \in Paths, NEW listed \in BOOLEAN, SetWhitelistedPath(path, listed)
        PROVE  OtherTypeOK'
    BY <2>4 DEF SetWhitelistedPath
  <2>5. ASSUME NEW b \in BlacklistConfigs, NEW rate \in RateConfigs, UpdateConfig(b, rate)
        PROVE  OtherTypeOK'
    <3>1. config' \in Config
      BY <2>5, Zenon DEF UpdateConfig
    <3>2. QED
      BY <2>5, <3>1 DEF UpdateConfig
  <2>6. ASSUME BanRaises
        PROVE  OtherTypeOK'
    BY <2>6 DEF BanRaises
  <2>7. ASSUME NEW ip \in IPs, UnbanRaises(ip)
        PROVE  OtherTypeOK'
    BY <2>7 DEF UnbanRaises
  <2>8. QED
    BY <1>4, <2>1, <2>2, <2>3, <2>4, <2>5, <2>6, <2>7 DEF Admin
<1>5. ASSUME Pages \/ TimePasses \/ CollectGarbage \/ UNCHANGED vars
      PROVE  OtherTypeOK'
  BY <1>5 DEF Pages, HistoryPage, RateInfoPage, TimePasses, CollectGarbage, vars, logVars
<1>6. QED
  BY <1>1, <1>2, <1>3, <1>4, <1>5 DEF Next

LEMMA ProxyInitType == ASSUME Init PROVE TypeOK
<1>1. RLTypeOK
  BY InitType DEF Init, RLInit
<1>2. NoRow \in Row /\ EmptyMemory \in Memory
  BY IPBlacklistAssumption DEF NoRow, Row, EmptyMemory, Memory
<1>6. /\ rows \in [IPs -> Row]
      /\ admin_banned \subseteq IPs /\ ban_missed \subseteq IPs /\ muted \subseteq IPs
  BY <1>2, ProxyAssumption DEF Init
<1>7. /\ inherited \in [IPs -> Nat]
      /\ struck \in [IPs -> Nat \cup {NULL}]
  BY <1>6 DEF Init, Row
<1>3. config \in Config
  BY ProxyAssumption DEF Init, Config
<1>4. req \in [Requests -> Request]
  BY DEF Init, NewRequest, Request, Phases, Verdicts, Outcomes
<1>5. QED
  BY <1>1, <1>2, <1>3, <1>4, <1>6, <1>7 DEF Init, TypeOK, Metrics

LEMMA ProxyStepType == ASSUME TypeOK, [Next]_vars PROVE TypeOK'
<1>1. RLTypeOK'
  BY NextIsLimiterStep, StepType DEF TypeOK
<1>2. StoreTypeOK' /\ OtherTypeOK'
  BY StoreType, OtherType
<1>3. QED
  BY <1>1, <1>2 DEF TypeOK, StoreTypeOK, OtherTypeOK

\* Every variable of the pipeline keeps its type, for all parameters.
THEOREM ProxyTypeCorrect == Spec => []TypeOK
<1>1. TypeOK /\ [Next]_vars => TypeOK'
  BY ProxyStepType
<1>2. QED
  BY ProxyInitType, <1>1, PTL DEF Spec

-----------------------------------------------------------------------------
(* What a step does to the stores, seen by one client. *)

FlagsKept(ip) == /\ ip \in admin_banned' <=> ip \in admin_banned
                 /\ ip \in ban_missed' <=> ip \in ban_missed

StruckKept(ip) == struck'[ip] = struck[ip]

\* The row stays; an expired entry may leave memory.
Kept(ip) ==
    /\ rows'[ip] = rows[ip]
    /\ memory'[ip] \in {memory[ip], MemAfterLookup(memory[ip], now)}
    /\ FlagsKept(ip) \/ (~rows[ip].present /\ ip \notin admin_banned')
    /\ StruckKept(ip)

\* The row goes: it has lapsed, or an administrator unbans the client. No
\* violation refers to it, or SQLite would have refused.
Dropped(ip) ==
    /\ ~Referenced(rows[ip])
    /\ rows'[ip] = NoRow
    /\ memory'[ip] \in {memory[ip], MemUnbanned(memory[ip])}
    /\ ip \notin admin_banned'
    /\ (Lapsed(rows[ip], now) /\ StruckKept(ip)) \/ struck'[ip] = NULL

\* A violation is counted, and the threshold c.threshold enforced (or not:
\* the write of the ban failed). In any case memory counted it first.
Penalised(ip) ==
    \E c \in BlacklistConfigs :
        LET row == Violated(rows[ip])
            over == row.count >= c.threshold
        IN  /\ memory'[ip] = MemViolated(memory[ip], now)
            /\ ip \in admin_banned' <=> ip \in admin_banned
            /\ \/ rows'[ip] = rows[ip] /\ FlagsKept(ip) /\ StruckKept(ip)
               \/ rows'[ip] = row /\ (over => ip \in ban_missed') /\ StruckKept(ip)
               \/ /\ over
                  /\ rows'[ip] = Banned(row, FALSE, now + c.duration)
                  /\ struck'[ip] = now

\* An administrator bans the client.
BannedByAdmin(ip) ==
    \E permanent \in BOOLEAN :
        /\ rows'[ip] = Banned(rows[ip], permanent, now + AdminDuration)
        /\ memory'[ip] = MemBanned(memory[ip], permanent, now)
        /\ ip \in admin_banned'
        /\ StruckKept(ip)

\* An administrator whitelists the client in memory.
WhitelistedByAdmin(ip) ==
    /\ rows'[ip] = rows[ip]
    /\ memory'[ip] = MemWhitelisted(memory[ip])
    /\ ip \in muted'
    /\ FlagsKept(ip)
    /\ StruckKept(ip)

StoreChange(ip) ==
    /\ ip \in muted => ip \in muted'
    /\ inherited'[ip] = inherited[ip]
    /\ \/ Kept(ip)
       \/ Dropped(ip)
       \/ Penalised(ip)
       \/ BannedByAdmin(ip)
       \/ WhitelistedByAdmin(ip)

LEMMA LookupChange ==
    ASSUME TypeOK, NEW ip \in IPs, NEW client \in IPs, LookupPasses(client)
    PROVE  StoreChange(ip)
<1>1. \A row \in AfterLookup(rows[client], now) :
        \/ row = rows[client]
        \/ row = NoRow /\ ~Referenced(rows[client]) /\ Lapsed(rows[client], now)
  BY DEF AfterLookup, Deletable
<1>2. CASE ip = client
  <2>1. /\ \/ rows'[ip] = rows[ip]
           \/ rows'[ip] = NoRow /\ ~Referenced(rows[ip]) /\ Lapsed(rows[ip], now)
        /\ \/ admin_banned' = admin_banned /\ (rows'[ip].present \/ UNCHANGED rows)
           \/ admin_banned' = admin_banned \ {ip} /\ ~rows'[ip].present
        /\ UNCHANGED <<memory, ban_missed, muted, struck, inherited>>
    BY <1>1, <1>2 DEF LookupPasses, TypeOK
  <2>2. CASE rows'[ip] = rows[ip]
    BY <1>2, <2>1, <2>2 DEF TypeOK, StoreChange, Kept, FlagsKept, StruckKept
  <2>3. CASE rows'[ip] # rows[ip]
    <3>1. rows'[ip] = NoRow /\ ~rows'[ip].present
      BY <2>1, <2>3 DEF NoRow
    <3>2. ip \notin admin_banned'
      BY <2>1, <2>3, <3>1
    <3>3. QED
      BY <2>1, <2>3, <3>1, <3>2 DEF StoreChange, Dropped, StruckKept
  <2>4. QED
    BY <2>2, <2>3
<1>3. CASE ip # client
  BY <1>3 DEF LookupPasses, TypeOK, StoreChange, Kept, FlagsKept, StruckKept
<1>4. QED
  BY <1>2, <1>3

LEMMA PenaltyChange ==
    ASSUME TypeOK, NEW ip \in IPs, NEW r \in Requests, AnalyzeBlock(r) \/ PenaltyFault(r)
    PROVE  StoreChange(ip)
<1>1. config.blacklist \in BlacklistConfigs /\ req[r].ip \in IPs
  BY DEF TypeOK, Config, Request
<1>2. CASE ip = req[r].ip
  <2>1. memory'[ip] = MemViolated(memory[ip], now) /\ muted' = muted
        /\ admin_banned' = admin_banned /\ inherited' = inherited
    BY <1>2 DEF AnalyzeBlock, PenaltyFault, TypeOK
  <2>2. CASE AnalyzeBlock(r)
    BY <1>1, <1>2, <2>1, <2>2 DEF AnalyzeBlock, TypeOK, StoreChange, Penalised, FlagsKept, StruckKept
  <2>3. CASE PenaltyFault(r)
    BY <1>1, <1>2, <2>1, <2>3 DEF PenaltyFault, TypeOK, StoreChange, Penalised, FlagsKept, StruckKept
  <2>4. QED
    BY <2>2, <2>3
<1>3. CASE ip # req[r].ip
  BY <1>1, <1>3 DEF AnalyzeBlock, PenaltyFault, TypeOK, StoreChange, Kept, FlagsKept, StruckKept
<1>4. QED
  BY <1>2, <1>3

LEMMA EndpointChange ==
    ASSUME TypeOK, NEW ip \in IPs, NEW client \in IPs,
           \/ \E permanent \in BOOLEAN : BanIP(client, permanent)
           \/ UnbanIP(client)
           \/ WhitelistInMemory(client)
           \/ HistoryPage(client)
    PROVE  StoreChange(ip)
<1> USE DEF TypeOK, StoreChange, FlagsKept, StruckKept
<1>1. ASSUME NEW permanent \in BOOLEAN, BanIP(client, permanent)
      PROVE  StoreChange(ip)
  <2>1. CASE ip = client
    BY <1>1, <2>1 DEF BanIP, BannedByAdmin
  <2>2. CASE ip # client
    BY <1>1, <2>2 DEF BanIP, Kept
  <2>3. QED
    BY <2>1, <2>2
<1>2. ASSUME UnbanIP(client)
      PROVE  StoreChange(ip)
  BY <1>2 DEF UnbanIP, Deletable, Kept, Dropped
<1>3. ASSUME WhitelistInMemory(client)
      PROVE  StoreChange(ip)
  BY <1>3 DEF WhitelistInMemory, Kept, WhitelistedByAdmin
<1>4. ASSUME HistoryPage(client)
      PROVE  StoreChange(ip)
  BY <1>4 DEF HistoryPage, history, Kept
<1>5. QED
  BY <1>1, <1>2, <1>3, <1>4

LEMMA NextIsStoreChange ==
    ASSUME TypeOK, [Next]_vars, NEW ip \in IPs
    PROVE  StoreChange(ip)
<1>1. StoreStep
  BY NextIsStoreStep
<1>2. CASE UNCHANGED storeVars
  BY <1>2 DEF storeVars, history, StoreChange, Kept, FlagsKept, StruckKept
<1>3. QED
  BY <1>1, <1>2, LookupChange, PenaltyChange, EndpointChange DEF StoreStep

LEMMA TimeGrows == ASSUME TypeOK, [Next]_vars PROVE now' \in Nat /\ now' >= now
BY NextIsLimiterStep DEF TypeOK, RLTypeOK, RLStep, Tick, rlVars

-----------------------------------------------------------------------------
(* The invariants of the stores. *)

LEMMA BannedKeeps ==
    ASSUME NEW row \in Row, NEW permanent \in BOOLEAN, NEW until \in Nat
    PROVE  /\ HasBan(Banned(row, permanent, until))
           /\ Banned(row, permanent, until).count = row.count
           /\ Banned(row, permanent, until).expires \in {NULL, until}
           /\ HasBan(Violated(row)) => HasBan(row) \/ row.permanent \/ row.expires # NULL
           /\ HasBan(row) => HasBan(Violated(row))
           /\ Violated(row).count = row.count + 1
           /\ Violated(row).expires = row.expires
BY DEF Row, Banned, Violated, HasBan, NULL


\* The row bans its client, at least until that time.
BansUntil(row, until) == row.present /\ (row.permanent \/ row.expires >= until)

\* A client banned for a violation at struck[ip] stays banned for one of the
\* durations in use at least.
StruckHolds(ip) ==
    struck[ip] # NULL =>
        /\ struck[ip] <= now
        /\ \E d \in Durations : now >= struck[ip] + d \/ BansUntil(rows[ip], struck[ip] + d)

\* The in-memory object has counted what this process counted. Whoever is
\* whitelisted there, and so not counted, is known to be muted.
MemoryCovers(ip) ==
    ip \notin muted =>
        /\ ~memory[ip].whitelisted
        /\ \/ memory[ip].violations >= rows[ip].count - inherited[ip]
           \/ memory[ip].violations = MemHistory

\* What holds of one client's stores. Leavable is more than BanHasCause and
\* BanIsBounded: a ban column set on a missing row, say, would come alive with
\* the next violation.
ClientInv(ip) ==
    /\ OverThreshold(ip) => HasBan(rows[ip]) \/ ip \in ban_missed
    /\ Leavable(ip)
    /\ StruckHolds(ip)
    /\ MemoryCovers(ip)

StoreInv == TypeOK /\ \A ip \in IPs : ClientInv(ip)

LEMMA StoreInvInit == ASSUME Init PROVE StoreInv
<1>1. TypeOK
  BY ProxyInitType
<1>2. ASSUME NEW ip \in IPs
      PROVE  ClientInv(ip)
  <2>1. Leavable(ip) /\ StruckHolds(ip)
    BY DEF Init, StruckHolds
  <2>2. OverThreshold(ip) => HasBan(rows[ip]) \/ ip \in ban_missed
    BY DEF Init
  <2>3. MemoryCovers(ip)
    BY <1>1 DEF Init, MemoryCovers, EmptyMemory, TypeOK, Row
  <2>4. QED
    BY <2>1, <2>2, <2>3 DEF ClientInv
<1>3. QED
  BY <1>1, <1>2 DEF StoreInv

\* The types a store step needs, of one client and before and after it.
Typed(ip) ==
    /\ rows[ip] \in Row /\ rows'[ip] \in Row
    /\ memory[ip] \in Memory /\ memory'[ip] \in Memory
    /\ struck[ip] \in Nat \cup {NULL}
    /\ inherited[ip] \in Nat
    /\ now \in Nat /\ now' \in Nat /\ now' >= now

LEMMA StepTyped ==
    ASSUME TypeOK, TypeOK', [Next]_vars, NEW ip \in IPs
    PROVE  Typed(ip)
BY TimeGrows DEF TypeOK, Typed, RLTypeOK

LEMMA DurationsType ==
    /\ AdminDuration \in Durations
    /\ \A d \in Durations : d \in Nat
    /\ \A c \in BlacklistConfigs : c.threshold \in Nat /\ c.duration \in Durations
BY ProxyAssumption DEF Durations

\* The bound on a ban's end moves on with the clock.
LEMMA BoundKept ==
    ASSUME NEW ip \in IPs, Typed(ip), Leavable(ip), rows'[ip].expires = rows[ip].expires
    PROVE  \E d \in Durations : rows'[ip].expires <= now' + d
<1>1. PICK d \in Durations : rows[ip].expires <= now + d
  BY DEF Leavable
<1>2. rows[ip].expires \in Int /\ d \in Nat
  BY DurationsType DEF Typed, Row, NULL
<1>3. QED
  BY <1>1, <1>2 DEF Typed

\* A ban of length d, written now or gone, is within the bound.
LEMMA BoundNew ==
    ASSUME NEW ip \in IPs, Typed(ip), NEW d \in Durations, rows'[ip].expires \in {NULL, now + d}
    PROVE  rows'[ip].expires <= now' + d
BY DurationsType DEF Typed, NULL

LEMMA LeavableStep ==
    ASSUME NEW ip \in IPs, Typed(ip), Leavable(ip), StoreChange(ip)
    PROVE  Leavable(ip)'
<1>1. CASE rows'[ip] = rows[ip] /\ (FlagsKept(ip) \/ (~rows[ip].present /\ ip \notin admin_banned'))
  <2>1. \E d \in Durations : rows'[ip].expires <= now' + d
    BY <1>1, BoundKept
  <2>2. QED
    BY <1>1, <2>1 DEF Leavable, FlagsKept, HasBan, NoRow, Referenced
<1>2. CASE Dropped(ip)
  <2>1. AdminDuration \in Durations /\ rows'[ip].expires = NULL
    BY <1>2, DurationsType DEF Dropped, NoRow
  <2>2. \E d \in Durations : rows'[ip].expires <= now' + d
    BY <2>1, BoundNew
  <2>3. QED
    BY <1>2, <2>2 DEF Dropped, Leavable, HasBan, NoRow
<1>3. ASSUME rows'[ip] = Violated(rows[ip]), ip \in admin_banned' <=> ip \in admin_banned
      PROVE  Leavable(ip)'
  <2> DEFINE row == Violated(rows[ip])
  <2>1. /\ row.present /\ row.count = rows[ip].count + 1 /\ row.permanent = rows[ip].permanent
        /\ row.expires = rows[ip].expires /\ rows[ip].count \in Nat
    BY DEF Typed, Violated, Row
  <2>2. HasBan(row) <=> HasBan(rows[ip])
    BY <2>1 DEF Leavable, HasBan, NoRow
  <2>3. \E d \in Durations : rows'[ip].expires <= now' + d
    BY <1>3, <2>1, BoundKept
  <2>4. \A c \in BlacklistConfigs : rows[ip].count >= c.threshold => row.count >= c.threshold
    BY <2>1, DurationsType
  <2>5. Referenced(row)
    BY <2>1 DEF Referenced
  <2> HIDE DEF row
  <2>6. rows'[ip] = row
    BY <1>3 DEF row
  <2>7. HasBan(row) => \/ ip \in admin_banned
                       \/ \E c \in BlacklistConfigs : row.count >= c.threshold
    BY <2>2, <2>4 DEF Leavable
  <2>8. /\ row.permanent => ip \in admin_banned
        /\ ip \in admin_banned => HasBan(row)
    BY <2>1, <2>2 DEF Leavable
  <2>9. QED
    BY <1>3, <2>1, <2>3, <2>5, <2>6, <2>7, <2>8 DEF Leavable
<1>4. ASSUME NEW row \in Row, NEW permanent \in BOOLEAN, NEW d \in Durations,
             rows'[ip] = Banned(row, permanent, now + d),
             permanent => ip \in admin_banned',
             ip \in admin_banned' \/ \E c \in BlacklistConfigs : row.count >= c.threshold
      PROVE  Leavable(ip)'
  <2>1. now + d \in Nat
    BY DurationsType DEF Typed
  <2>2. /\ HasBan(rows'[ip]) /\ rows'[ip].count = row.count
        /\ rows'[ip].expires \in {NULL, now + d} /\ rows'[ip].permanent = permanent
    <3> DEFINE banned == Banned(row, permanent, now + d)
    <3>1. /\ HasBan(banned) /\ banned.count = row.count
          /\ banned.expires \in {NULL, now + d}
      BY <2>1, BannedKeeps
    <3>2. banned.permanent = permanent
      BY DEF Banned, Row
    <3> HIDE DEF banned
    <3>3. rows'[ip] = banned
      BY <1>4 DEF banned
    <3>4. QED
      BY <3>1, <3>2, <3>3
  <2>3. rows'[ip].expires <= now' + d
    BY <2>2, BoundNew
  <2>4. rows'[ip].present
    BY <2>2 DEF HasBan
  <2>5. QED
    BY <1>4, <2>2, <2>3, <2>4 DEF Leavable
<1>5. CASE Penalised(ip)
  <2>1. PICK c \in BlacklistConfigs :
          /\ ip \in admin_banned' <=> ip \in admin_banned
          /\ \/ rows'[ip] = rows[ip] /\ FlagsKept(ip)
             \/ rows'[ip] = Violated(rows[ip])
             \/ /\ Violated(rows[ip]).count >= c.threshold
                /\ rows'[ip] = Banned(Violated(rows[ip]), FALSE, now + c.duration)
    BY <1>5 DEF Penalised
  <2>2. Violated(rows[ip]) \in Row /\ c.duration \in Durations
    BY RowTypes, DurationsType DEF Typed
  <2>3. QED
    BY <1>1, <1>3, <1>4, <2>1, <2>2
<1>6. CASE BannedByAdmin(ip)
  <2>1. rows[ip] \in Row /\ AdminDuration \in Durations
    BY DurationsType DEF Typed
  <2>2. QED
    BY <1>4, <1>6, <2>1 DEF BannedByAdmin
<1>7. QED
  BY <1>1, <1>2, <1>5, <1>6 DEF StoreChange, Kept, WhitelistedByAdmin

\* A row that keeps its ban columns bans as long as before.
LEMMA StruckKeptStep ==
    ASSUME NEW ip \in IPs, Typed(ip), StruckHolds(ip), StruckKept(ip),
           rows[ip].present => rows'[ip].present,
           rows'[ip].permanent = rows[ip].permanent, rows'[ip].expires = rows[ip].expires
    PROVE  StruckHolds(ip)'
<1> SUFFICES ASSUME struck'[ip] # NULL
             PROVE  /\ struck'[ip] <= now'
                    /\ \E d \in Durations : \/ now' >= struck'[ip] + d
                                             \/ BansUntil(rows'[ip], struck'[ip] + d)
  BY DEF StruckHolds
<1>1. struck'[ip] = struck[ip] /\ struck[ip] \in Nat /\ struck[ip] <= now
  BY DEF StruckKept, StruckHolds, Typed
<1>2. PICK d \in Durations : now >= struck[ip] + d \/ BansUntil(rows[ip], struck[ip] + d)
  BY <1>1 DEF StruckHolds, StruckKept
<1>3. now >= struck[ip] + d => now' >= struck[ip] + d
  BY <1>1, DurationsType DEF Typed
<1>4. BansUntil(rows[ip], struck[ip] + d) => BansUntil(rows'[ip], struck[ip] + d)
  BY DEF BansUntil
<1>5. QED
  BY <1>1, <1>2, <1>3, <1>4 DEF Typed

\* A new ban takes the place of the old one, and is as long as some duration.
LEMMA StruckNewStep ==
    ASSUME NEW ip \in IPs, Typed(ip), StruckHolds(ip), StruckKept(ip) \/ struck'[ip] = now,
           NEW row \in Row, NEW permanent \in BOOLEAN, NEW d \in Durations,
           rows'[ip] = Banned(row, permanent, now + d)
    PROVE  StruckHolds(ip)'
<1> SUFFICES ASSUME struck'[ip] # NULL
             PROVE  struck'[ip] <= now' /\ BansUntil(rows'[ip], struck'[ip] + d)
  BY DEF StruckHolds
<1>1. struck'[ip] \in Nat /\ struck'[ip] <= now /\ d \in Nat
  BY DurationsType DEF StruckKept, StruckHolds, Typed
<1>2. /\ rows'[ip].present /\ rows'[ip].permanent = permanent
      /\ ~permanent => rows'[ip].expires = now + d
  BY DEF Banned, Row
<1>3. QED
  BY <1>1, <1>2 DEF BansUntil, Typed

LEMMA StruckStep ==
    ASSUME NEW ip \in IPs, Typed(ip), StruckHolds(ip), StoreChange(ip)
    PROVE  StruckHolds(ip)'
<1>1. CASE Kept(ip) \/ WhitelistedByAdmin(ip)
  BY <1>1, StruckKeptStep DEF Kept, WhitelistedByAdmin
<1>2. CASE Dropped(ip)
  <2>1. CASE struck'[ip] = NULL
    BY <2>1 DEF StruckHolds
  <2>2. CASE Lapsed(rows[ip], now) /\ StruckKept(ip) /\ struck[ip] # NULL
    <3>1. PICK d \in Durations : now >= struck[ip] + d \/ BansUntil(rows[ip], struck[ip] + d)
      BY <2>2 DEF StruckHolds
    <3>2. struck[ip] \in Nat /\ struck[ip] <= now /\ d \in Nat
      BY <2>2, DurationsType DEF StruckHolds, Typed
    <3>3. now >= struck[ip] + d
      BY <2>2, <3>1, <3>2 DEF Lapsed, BansUntil, Typed, Row, NULL
    <3>4. now' >= struck'[ip] + d /\ struck'[ip] <= now'
      BY <2>2, <3>2, <3>3 DEF StruckKept, Typed
    <3>5. QED
      BY <3>4 DEF StruckHolds
  <2>3. QED
    BY <1>2, <2>1, <2>2 DEF Dropped, StruckKept
<1>3. CASE Penalised(ip)
  <2>1. PICK c \in BlacklistConfigs :
          \/ rows'[ip] = rows[ip] /\ StruckKept(ip)
          \/ rows'[ip] = Violated(rows[ip]) /\ StruckKept(ip)
          \/ /\ rows'[ip] = Banned(Violated(rows[ip]), FALSE, now + c.duration)
             /\ struck'[ip] = now
    BY <1>3 DEF Penalised
  <2>2. /\ Violated(rows[ip]) \in Row /\ c.duration \in Durations
        /\ Violated(rows[ip]).present /\ Violated(rows[ip]).permanent = rows[ip].permanent
        /\ Violated(rows[ip]).expires = rows[ip].expires
    BY RowTypes, DurationsType DEF Typed, Violated, Row
  <2>3. QED
    BY <2>1, <2>2, StruckKeptStep, StruckNewStep
<1>4. CASE BannedByAdmin(ip)
  <2>1. rows[ip] \in Row /\ AdminDuration \in Durations
    BY DurationsType DEF Typed
  <2>2. QED
    BY <1>4, <2>1, StruckNewStep DEF BannedByAdmin
<1>5. QED
  BY <1>1, <1>2, <1>3, <1>4 DEF StoreChange

\* A violation reaches memory before the table.
LEMMA ViolationCovered ==
    ASSUME NEW ip \in IPs, Typed(ip), MemoryCovers(ip), ip \in muted => ip \in muted',
           inherited'[ip] = inherited[ip], memory'[ip] = MemViolated(memory[ip], now),
           rows'[ip].count \in {rows[ip].count, rows[ip].count + 1}
    PROVE  MemoryCovers(ip)'
<1>1. MemHistory \in Nat /\ MemThreshold \in Nat
  BY IPBlacklistAssumption
<1>2. rows[ip].count \in Nat /\ inherited[ip] \in Nat /\ memory[ip].violations \in 0..MemHistory
  BY DEF Typed, Row, Memory
<1>3. ~memory[ip].whitelisted =>
        /\ ~MemViolated(memory[ip], now).whitelisted
        /\ MemViolated(memory[ip], now).violations =
             IF memory[ip].violations < MemHistory
             THEN memory[ip].violations + 1 ELSE MemHistory
  BY DEF MemViolated, Memory, Typed
<1>4. QED
  BY <1>1, <1>2, <1>3 DEF MemoryCovers

LEMMA MemoryStep ==
    ASSUME NEW ip \in IPs, Typed(ip), MemoryCovers(ip), StoreChange(ip)
    PROVE  MemoryCovers(ip)'
<1>1. CASE Kept(ip)
  <2>1. /\ MemAfterLookup(memory[ip], now).violations = memory[ip].violations
        /\ MemAfterLookup(memory[ip], now).whitelisted = memory[ip].whitelisted
    BY DEF Typed, MemAfterLookup, Memory
  <2>2. QED
    BY <1>1, <2>1 DEF Kept, StoreChange, MemoryCovers
<1>2. CASE Dropped(ip)
  <2>1. /\ memory'[ip].whitelisted = memory[ip].whitelisted
        /\ memory'[ip].violations >= 0 /\ rows'[ip].count = 0
    BY <1>2 DEF Typed, Dropped, MemUnbanned, EmptyMemory, Memory, NoRow
  <2>2. QED
    BY <2>1 DEF Typed, StoreChange, MemoryCovers, Memory
<1>3. CASE Penalised(ip)
  <2>1. Violated(rows[ip]) \in Row /\ Violated(rows[ip]).count = rows[ip].count + 1
    BY RowTypes, BannedKeeps DEF Typed
  <2>2. \A c \in BlacklistConfigs :
          Banned(Violated(rows[ip]), FALSE, now + c.duration).count = rows[ip].count + 1
    BY <2>1 DEF Banned, Row
  <2>3. rows'[ip].count \in {rows[ip].count, rows[ip].count + 1}
    BY <1>3, <2>1, <2>2, Zenon DEF Penalised
  <2>4. memory'[ip] = MemViolated(memory[ip], now)
    BY <1>3, Zenon DEF Penalised
  <2>5. QED
    BY <2>3, <2>4, ViolationCovered DEF StoreChange
<1>4. CASE BannedByAdmin(ip)
  <2>1. PICK permanent \in BOOLEAN :
          /\ rows'[ip] = Banned(rows[ip], permanent, now + AdminDuration)
          /\ memory'[ip] = MemBanned(memory[ip], permanent, now)
    BY <1>4 DEF BannedByAdmin
  <2>2. /\ memory'[ip].violations = memory[ip].violations /\ ~memory'[ip].whitelisted
        /\ rows'[ip].count = rows[ip].count
    BY <2>1 DEF Typed, MemBanned, Memory, Banned, Row
  <2>3. QED
    BY <2>2 DEF StoreChange, MemoryCovers
<1>5. CASE WhitelistedByAdmin(ip)
  BY <1>5 DEF WhitelistedByAdmin, MemoryCovers
<1>6. QED
  BY <1>1, <1>2, <1>3, <1>4, <1>5 DEF StoreChange

LEMMA MissedStep ==
    ASSUME NEW ip \in IPs, Typed(ip), StoreChange(ip), Leavable(ip),
           OverThreshold(ip) => HasBan(rows[ip]) \/ ip \in ban_missed,
           OverThreshold(ip)'
    PROVE  HasBan(rows'[ip]) \/ ip \in ban_missed'
<1>1. rows'[ip].present
  BY DEF OverThreshold
<1>2. CASE rows'[ip] = rows[ip] /\ FlagsKept(ip)
  BY <1>2 DEF OverThreshold, FlagsKept
<1>3. CASE Dropped(ip)
  BY <1>1, <1>3 DEF Dropped, NoRow
<1>4. CASE Penalised(ip)
  <2>1. PICK c \in BlacklistConfigs :
          \/ rows'[ip] = rows[ip] /\ FlagsKept(ip)
          \/ /\ rows'[ip] = Violated(rows[ip])
             /\ Violated(rows[ip]).count >= c.threshold => ip \in ban_missed'
          \/ rows'[ip] = Banned(Violated(rows[ip]), FALSE, now + c.duration)
    BY <1>4 DEF Penalised
  <2>2. Violated(rows[ip]) \in Row /\ now + c.duration \in Nat
    BY RowTypes, DurationsType DEF Typed
  <2>3. HasBan(Banned(Violated(rows[ip]), FALSE, now + c.duration))
    BY <2>2, BannedKeeps
  <2>4. rows'[ip].count >= c.threshold
    BY DEF OverThreshold
  <2>5. QED
    BY <1>2, <2>1, <2>3, <2>4
<1>5. CASE BannedByAdmin(ip)
  <2>1. now + AdminDuration \in Nat /\ rows[ip] \in Row
    BY DurationsType DEF Typed
  <2>2. \A permanent \in BOOLEAN : HasBan(Banned(rows[ip], permanent, now + AdminDuration))
    BY <2>1, BannedKeeps
  <2>3. QED
    BY <1>5, <2>2 DEF BannedByAdmin
<1>6. QED
  BY <1>1, <1>2, <1>3, <1>4, <1>5 DEF StoreChange, Kept, WhitelistedByAdmin

LEMMA StoreInvStep == ASSUME StoreInv, [Next]_vars PROVE StoreInv'
<1>1. TypeOK /\ TypeOK'
  BY ProxyStepType DEF StoreInv
<1>2. ASSUME NEW ip \in IPs
      PROVE  ClientInv(ip)'
  <2>1. Typed(ip) /\ StoreChange(ip) /\ ClientInv(ip)
    BY <1>1, StepTyped, NextIsStoreChange DEF StoreInv
  <2>2. Leavable(ip)' /\ StruckHolds(ip)' /\ MemoryCovers(ip)'
    BY <2>1, LeavableStep, StruckStep, MemoryStep DEF ClientInv
  <2>3. OverThreshold(ip)' => HasBan(rows'[ip]) \/ ip \in ban_missed'
    BY <2>1, MissedStep DEF ClientInv
  <2>4. QED
    BY <2>2, <2>3 DEF ClientInv
<1>3. QED
  BY <1>1, <1>2 DEF StoreInv

LEMMA StoreInvHolds == Spec => []StoreInv
<1>1. StoreInv /\ [Next]_vars => StoreInv'
  BY StoreInvStep
<1>2. QED
  BY StoreInvInit, <1>1, PTL DEF Spec

\* A client over every threshold in use is banned, unless that very write failed.
THEOREM ProxyBansOffenders == Spec => []OverThresholdIsBanned
<1>1. StoreInv => OverThresholdIsBanned
  BY DEF StoreInv, ClientInv, OverThresholdIsBanned
<1>2. QED
  BY StoreInvHolds, <1>1, PTL

\* Every ban on record has its cause on record.
THEOREM ProxyBansWithCause == Spec => []BanHasCause
<1>1. StoreInv => BanHasCause
  BY DEF StoreInv, ClientInv, Leavable, BanHasCause
<1>2. QED
  BY StoreInvHolds, <1>1, PTL

\* No temporary ban outlasts the longest duration in use.
THEOREM ProxyBansEnd == Spec => []BanIsBounded
<1>1. StoreInv => BanIsBounded
  BY DEF StoreInv, ClientInv, Leavable, BanIsBounded
<1>2. QED
  BY StoreInvHolds, <1>1, PTL

\* The in-memory history covers what this process has counted.
THEOREM ProxyHistoryCovers == Spec => []HistoryCoversLife
<1>1. StoreInv => HistoryCoversLife
  BY DEF StoreInv, ClientInv, MemoryCovers, HistoryCoversLife
<1>2. QED
  BY StoreInvHolds, <1>1, PTL

\* Whenever the process stops, it leaves a table that Init provides for: what
\* is proved of one life holds of every life there will be.
THEOREM ProxyLeavesAStart == Spec => [](\A ip \in IPs : Leavable(ip))
<1>1. StoreInv => \A ip \in IPs : Leavable(ip)
  BY DEF StoreInv, ClientInv
<1>2. QED
  BY StoreInvHolds, <1>1, PTL

-----------------------------------------------------------------------------
(* Offenders. *)

\* Only StartAnalysis brings a request from its arrival to its body.
LEMMA ReadingMeansStarted ==
    ASSUME TypeOK, [Next]_vars, NEW r \in Requests,
           req[r].phase = "new", req'[r].phase = "reading"
    PROVE  LookupPasses(req[r].ip) /\ req'[r].ip = req[r].ip
<1>1. ASSUME NEW s \in Requests, Arrive(s)
      PROVE  LookupPasses(req[r].ip) /\ req'[r].ip = req[r].ip
  BY <1>1 DEF Arrive, PassThrough, RefuseBlacklisted, RefuseRateLimited, StartAnalysis,
              LookupRaises, LookupFault, Finish, At, TypeOK
<1>2. ASSUME NEW s \in Requests, Analyze(s) \/ Forward(s)
      PROVE  FALSE
  <2>1. ASSUME NEW verdict \in {"allow", "block"}, LogFault(s, verdict)
        PROVE  FALSE
    BY <2>1 DEF LogFault, At, TypeOK
  <2>2. ASSUME Forward(s) \/ Disconnect(s)
        PROVE  FALSE
    BY <2>2 DEF Forward, UpstreamReturns, Disconnect, Finish, At, TypeOK
  <2>3. ASSUME \/ AnalyzeAllow(s) \/ AnalyzeBlock(s)
               \/ PenaltyFault(s)
        PROVE  FALSE
    BY <2>3 DEF AnalyzeAllow, AnalyzeBlock, PenaltyFault, At, TypeOK
  <2>4. QED
    BY <1>2, <2>1, <2>2, <2>3 DEF Analyze
<1>3. ASSUME Admin \/ Pages \/ TimePasses \/ CollectGarbage \/ UNCHANGED vars
      PROVE  FALSE
  <2>1. UNCHANGED req
    BY <1>3 DEF Admin, BanIP, BanRaises, UnbanIP, UnbanRaises, WhitelistInMemory,
                SetWhitelistedIP, SetWhitelistedPath, UpdateConfig, Administer, Pages,
                HistoryPage, RateInfoPage, TimePasses, CollectGarbage, vars
  <2>2. QED
    BY <2>1
<1>4. QED
  BY <1>1, <1>2, <1>3 DEF Next

\* Once banned for a violation, a client gets no request analysed for the
\* shortest duration in use, unless an administrator unbans it.
THEOREM ProxyStopsOffenders == Spec => OffendersAreStopped
<1> DEFINE Stopped(r) ==
      req[r].phase = "new" /\ req'[r].phase = "reading" /\ BlacklistEnforced(req[r].ip) =>
          LET since == struck[req[r].ip]
          IN  since = NULL \/ \E d \in Durations : now >= since + d
<1>1. ASSUME StoreInv, [Next]_vars, NEW r \in Requests
      PROVE  Stopped(r)
  <2> SUFFICES ASSUME req[r].phase = "new", req'[r].phase = "reading",
                      BlacklistEnforced(req[r].ip), struck[req[r].ip] # NULL
               PROVE  \E d \in Durations : now >= struck[req[r].ip] + d
    OBVIOUS
  <2> DEFINE ip == req[r].ip
  <2>1. /\ ip \in IPs /\ rows[ip] \in Row /\ now \in Nat /\ struck[ip] \in Nat
        /\ StruckHolds(ip)
    BY <1>1, Ends DEF StoreInv, ClientInv, TypeOK
  <2>2. ~IsBlocked(rows[ip], now)
    <3>1. LookupPasses(ip)
      BY <1>1, ReadingMeansStarted DEF StoreInv
    <3>2. QED
      BY <3>1 DEF LookupPasses
  <2>3. PICK d \in Durations : now >= struck[ip] + d \/ BansUntil(rows[ip], struck[ip] + d)
    BY <2>1 DEF StruckHolds
  <2>4. BansUntil(rows[ip], struck[ip] + d) => now >= struck[ip] + d
    BY <2>1, <2>2, DurationsType DEF BansUntil, IsBlocked, Row, NULL
  <2>5. QED
    BY <2>3, <2>4
<1>2. StoreInv /\ [Next]_vars => [\A r \in Requests : Stopped(r)]_vars
  BY <1>1
<1>3. QED
  BY StoreInvHolds, <1>2, PTL DEF Spec, OffendersAreStopped

\* The table never forgets a violation.
THEOREM ProxyKeepsViolations == Spec => ViolationsStay
<1> DEFINE Stay == \A ip \in IPs : rows'[ip].count >= rows[ip].count
<1>1. ASSUME StoreInv, [Next]_vars
      PROVE  Stay
  <2> SUFFICES ASSUME NEW ip \in IPs
               PROVE  rows'[ip].count >= rows[ip].count
    OBVIOUS
  <2>1. rows[ip] \in Row /\ rows[ip].count \in Nat /\ now \in Nat
    BY <1>1 DEF StoreInv, TypeOK, RLTypeOK, Row
  <2>2. StoreChange(ip)
    BY <1>1, NextIsStoreChange DEF StoreInv
  <2>3. CASE Dropped(ip)
    BY <2>1, <2>3 DEF Dropped, Referenced, NoRow
  <2>4. CASE Penalised(ip)
    <3>1. Violated(rows[ip]) \in Row /\ Violated(rows[ip]).count = rows[ip].count + 1
      BY <2>1, RowTypes, BannedKeeps
    <3>2. \A c \in BlacklistConfigs :
            Banned(Violated(rows[ip]), FALSE, now + c.duration).count = rows[ip].count + 1
      BY <3>1 DEF Banned, Row
    <3>3. rows'[ip].count \in {rows[ip].count, rows[ip].count + 1}
      BY <2>4, <3>1, <3>2, Zenon DEF Penalised
    <3>4. QED
      BY <2>1, <3>3
  <2>5. CASE BannedByAdmin(ip)
    BY <2>1, <2>5 DEF BannedByAdmin, Banned, Row
  <2>6. CASE Kept(ip) \/ WhitelistedByAdmin(ip)
    BY <2>1, <2>6 DEF Kept, WhitelistedByAdmin
  <2>7. QED
    BY <2>2, <2>3, <2>4, <2>5, <2>6 DEF StoreChange
<1>2. StoreInv /\ [Next]_vars => [Stay]_vars
  BY <1>1
<1>3. QED
  BY StoreInvHolds, <1>2, PTL DEF Spec, ViolationsStay

-----------------------------------------------------------------------------
(* The limiter inside the pipeline. *)

LEMMA ProxyLimiterInv == Spec => [](TypeOK /\ LimiterInv)
<1>1. ASSUME Init
      PROVE  TypeOK /\ LimiterInv
  BY <1>1, ProxyInitType, LimiterInvInit DEF Init, RLInit
<1>2. TypeOK /\ LimiterInv /\ [Next]_vars => (TypeOK /\ LimiterInv)'
  BY ProxyStepType, NextIsLimiterStep, LimiterInvStep
<1>3. QED
  BY <1>1, <1>2, PTL DEF Spec

\* Whatever the pipeline and the endpoints do, no client gets more than the
\* largest limit past the limiter in any span as short as the shortest window.
THEOREM ProxyWindow == Spec => []WindowGuarantee
<1>1. LimiterInv => WindowGuarantee
  BY InvGivesWindow
<1>2. QED
  BY ProxyLimiterInv, <1>1, PTL

\* A 429 of the pipeline is deserved as well.
THEOREM ProxyRefusal == Spec => RefusalDeserved
<1>1. TypeOK /\ LimiterInv /\ [Next]_vars => [\A ip \in IPs : Deserved(ip)]_rlVars
  BY NextIsLimiterStep, StepIsDeserved
<1>2. QED
  BY ProxyLimiterInv, <1>1, PTL DEF Spec, RefusalDeserved, Deserved

\* With one setting the limiter within the pipeline is the abstract sliding
\* window still: nothing that requests, endpoints, pages or failures do between
\* two checks changes what a check decides, whether the limit is on or off.
THEOREM ProxyIsExact ==
    ASSUME Limits = {DefaultLimit}
    PROVE  Spec => ExactWindow
<1>1. Init => ExactInv /\ AsWindow!Init
  BY ExactInit DEF Init, RLInit
<1>2. TypeOK /\ ExactInv /\ [Next]_vars => ExactInv' /\ [AsWindow!Next]_(AsWindow!vars)
  BY NextIsLimiterStep, ExactStep
<1>3. QED
  BY ProxyTypeCorrect, <1>1, <1>2, PTL DEF Spec, ExactWindow, AsWindow!Spec

-----------------------------------------------------------------------------
(* The books. Of a request that is still under way it is known what it has  *)
(* not been given yet, so that what is counted then is counted only once.   *)

NothingYet ==
    \A r \in Requests :
        /\ req[r].phase \in {"new", "reading"} => req[r].verdict = "none" /\ req[r].outcome = "none"
        /\ req[r].phase = "upstream" => req[r].outcome = "none"

BooksInv == TypeOK /\ NothingYet /\ MetricsBalance

LEMMA CountsAreSizes ==
    ASSUME TypeOK, NEW v
    PROVE  /\ IsFiniteSet(WithVerdict(v)) /\ Cardinality(WithVerdict(v)) \in Nat
           /\ IsFiniteSet(WithOutcome(v)) /\ Cardinality(WithOutcome(v)) \in Nat
<1>1. IsFiniteSet(Requests)
  BY ProxyAssumption
<1>2. WithVerdict(v) \in SUBSET Requests /\ WithOutcome(v) \in SUBSET Requests
  BY DEF WithVerdict, WithOutcome
<1>3. IsFiniteSet(WithVerdict(v)) /\ IsFiniteSet(WithOutcome(v))
  BY <1>1, <1>2, FS_Subset
<1>4. QED
  BY <1>3, FS_CardinalityType

\* What becomes of the sets when a request moves on.
LEMMA MoveOn ==
    ASSUME TypeOK, NEW r \in Requests, NEW phase, NEW verdict, NEW outcome, At(r, phase, verdict, outcome)
    PROVE  /\ \A v : WithVerdict(v)' = IF verdict = v THEN WithVerdict(v) \cup {r} ELSE WithVerdict(v) \ {r}
           /\ \A o : WithOutcome(o)' = IF outcome = o THEN WithOutcome(o) \cup {r} ELSE WithOutcome(o) \ {r}
           /\ req'[r].phase = phase /\ req'[r].verdict = verdict /\ req'[r].outcome = outcome
           /\ \A s \in Requests : s # r => req'[s] = req[s]
<1>1. req'[r] = [phase |-> phase, ip |-> req[r].ip, verdict |-> verdict, outcome |-> outcome]
  BY DEF At, TypeOK
<1>2. \A s \in Requests : s # r => req'[s] = req[s]
  BY DEF At, TypeOK
<1>3. QED
  BY <1>1, <1>2 DEF WithVerdict, WithOutcome

\* A request that did not have this verdict, or this outcome, and gets it.
LEMMA OneMore ==
    ASSUME TypeOK, NEW r \in Requests, NEW v
    PROVE  /\ req[r].verdict # v =>
                  Cardinality(WithVerdict(v) \cup {r}) = Cardinality(WithVerdict(v)) + 1
           /\ req[r].outcome # v =>
                  Cardinality(WithOutcome(v) \cup {r}) = Cardinality(WithOutcome(v)) + 1
<1>1. req[r].verdict # v => r \notin WithVerdict(v)
  BY DEF WithVerdict
<1>2. req[r].outcome # v => r \notin WithOutcome(v)
  BY DEF WithOutcome
<1>3. QED
  BY <1>1, <1>2, CountsAreSizes, FS_AddElement

\* The verdict and the log: the steps that end an analysis.
Concluded(r, verdict, phase, outcome) ==
    /\ req[r].phase = "reading"
    /\ metrics' = Counted(verdict)
    /\ logged' = logged \cup {r}
    /\ persisted' = persisted \cup {r} \/ (persisted' = persisted /\ outcome = "500")
    /\ At(r, phase, verdict, outcome)

\* What a step may do to the books.
BookStep ==
    \/ UNCHANGED <<req, logVars>>
    \/ \E r \in Requests :
        \/ /\ req[r].phase = "new"
           /\ \/ /\ At(r, "done", "none", "403_blacklisted")
                 /\ metrics' = [metrics EXCEPT !.blacklisted_blocks = @ + 1]
              \/ /\ At(r, "done", "none", "429")
                 /\ metrics' = [metrics EXCEPT !.rate_limit_blocks = @ + 1]
           /\ UNCHANGED <<logged, persisted>>
        \/ /\ req[r].phase \in {"new", "reading"}
           /\ \/ At(r, "upstream", "bypass", "none")
              \/ At(r, "reading", "none", "none")
              \/ \E outcome \in {"500", "aborted"} : At(r, "done", "none", outcome)
           /\ UNCHANGED logVars
        \/ Concluded(r, "allow", "upstream", "none")
        \/ Concluded(r, "block", "done", "403_waf")
        \/ \E verdict \in {"allow", "block"} : Concluded(r, verdict, "done", "500")
        \/ /\ req[r].phase = "upstream"
           /\ \E outcome \in {"200", "500"} : At(r, "done", req[r].verdict, outcome)
           /\ UNCHANGED logVars

LEMMA NextIsBookStep ==
    ASSUME TypeOK, NothingYet, [Next]_vars
    PROVE  BookStep
<1>1. ASSUME NEW r \in Requests, Arrive(r)
      PROVE  BookStep
  <2>1. PICK path \in Paths : \/ PassThrough(r, path)
                              \/ RefuseBlacklisted(r, path)
                              \/ RefuseRateLimited(r, path)
                              \/ StartAnalysis(r, path)
                              \/ LookupRaises(r, path)
                              \/ LookupFault(r, path)
    BY <1>1 DEF Arrive
  <2>2. req[r].phase = "new" /\ req[r].verdict = "none"
    BY <2>1 DEF NothingYet, PassThrough, RefuseBlacklisted, RefuseRateLimited, StartAnalysis,
                LookupRaises, LookupFault
  <2>3. CASE PassThrough(r, path)
    BY <2>2, <2>3 DEF PassThrough, BookStep
  <2>4. CASE RefuseBlacklisted(r, path)
    BY <2>2, <2>4 DEF RefuseBlacklisted, Finish, BookStep
  <2>5. CASE RefuseRateLimited(r, path)
    BY <2>2, <2>5 DEF RefuseRateLimited, Finish, BookStep
  <2>6. CASE StartAnalysis(r, path)
    BY <2>2, <2>6 DEF StartAnalysis, BookStep
  <2>7. CASE LookupRaises(r, path) \/ LookupFault(r, path)
    BY <2>2, <2>7 DEF LookupRaises, LookupFault, Finish, BookStep
  <2>8. QED
    BY <2>1, <2>3, <2>4, <2>5, <2>6, <2>7
<1>2. ASSUME NEW r \in Requests, Analyze(r)
      PROVE  BookStep
  <2>1. CASE AnalyzeAllow(r)
    BY <2>1 DEF AnalyzeAllow, Record, Concluded, BookStep
  <2>2. CASE AnalyzeBlock(r)
    BY <2>2 DEF AnalyzeBlock, Record, Concluded, BookStep
  <2>3. ASSUME NEW verdict \in {"allow", "block"}, LogFault(r, verdict)
        PROVE  BookStep
    BY <2>3 DEF LogFault, Concluded, BookStep
  <2>4. CASE PenaltyFault(r)
    BY <2>4 DEF PenaltyFault, Record, Concluded, BookStep
  <2>5. CASE Disconnect(r)
    BY <2>5 DEF Disconnect, Finish, NothingYet, BookStep
  <2>6. QED
    BY <1>2, <2>1, <2>2, <2>3, <2>4, <2>5 DEF Analyze
<1>3. ASSUME NEW r \in Requests, Forward(r)
      PROVE  BookStep
  BY <1>3 DEF Forward, UpstreamReturns, Finish, BookStep
<1>4. ASSUME Admin \/ Pages \/ TimePasses \/ CollectGarbage \/ UNCHANGED vars
      PROVE  UNCHANGED <<req, logVars>>
  BY <1>4 DEF Admin, BanIP, BanRaises, UnbanIP, UnbanRaises, WhitelistInMemory,
              SetWhitelistedIP, SetWhitelistedPath, UpdateConfig, Administer, Pages,
              HistoryPage, RateInfoPage, TimePasses, CollectGarbage, vars
<1>5. QED
  BY <1>1, <1>2, <1>3, <1>4 DEF Next, BookStep

\* A set of requests that one of them, not in it, neither joins nor leaves.
LEMMA Unmoved ==
    ASSUME TypeOK, NEW r \in Requests, NEW phase, NEW verdict, NEW outcome, At(r, phase, verdict, outcome)
    PROVE  /\ \A v : req[r].verdict # v /\ verdict # v => WithVerdict(v)' = WithVerdict(v)
           /\ \A o : req[r].outcome # o /\ outcome # o => WithOutcome(o)' = WithOutcome(o)
           /\ verdict = req[r].verdict => \A v : WithVerdict(v)' = WithVerdict(v)
<1>1. \A v : req[r].verdict # v => r \notin WithVerdict(v)
  BY DEF WithVerdict
<1>2. \A o : req[r].outcome # o => r \notin WithOutcome(o)
  BY DEF WithOutcome
<1>3. \A v : req[r].verdict = v => r \in WithVerdict(v)
  BY DEF WithVerdict
<1>4. ASSUME NEW v, req[r].verdict # v, verdict # v
      PROVE  WithVerdict(v)' = WithVerdict(v)
  <2>1. WithVerdict(v)' = WithVerdict(v) \ {r}
    BY <1>4, MoveOn
  <2>2. QED
    BY <1>1, <1>4, <2>1
<1>5. ASSUME NEW o, req[r].outcome # o, outcome # o
      PROVE  WithOutcome(o)' = WithOutcome(o)
  <2>1. WithOutcome(o)' = WithOutcome(o) \ {r}
    BY <1>5, MoveOn
  <2>2. QED
    BY <1>2, <1>5, <2>1
<1>6. ASSUME verdict = req[r].verdict, NEW v
      PROVE  WithVerdict(v)' = WithVerdict(v)
  <2>1. CASE verdict = v
    <3>1. WithVerdict(v)' = WithVerdict(v) \cup {r}
      BY <2>1, MoveOn
    <3>2. QED
      BY <1>3, <1>6, <2>1, <3>1
  <2>2. CASE verdict # v
    BY <1>4, <1>6, <2>2
  <2>3. QED
    BY <2>1, <2>2
<1>7. QED
  BY <1>4, <1>5, <1>6

LEMMA CountedAdds ==
    ASSUME TypeOK, NEW verdict \in {"allow", "block"}
    PROVE  /\ Counted(verdict).total = metrics.total + 1
           /\ Counted(verdict).blocked = metrics.blocked + (IF verdict = "block" THEN 1 ELSE 0)
           /\ Counted(verdict).allowed = metrics.allowed + (IF verdict = "allow" THEN 1 ELSE 0)
           /\ Counted(verdict).blacklisted_blocks = metrics.blacklisted_blocks
           /\ Counted(verdict).rate_limit_blocks = metrics.rate_limit_blocks
           /\ metrics.total \in Nat /\ metrics.blocked \in Nat /\ metrics.allowed \in Nat
BY DEF Counted, TypeOK, Metrics

\* A request that moves on is told what its new phase promises.
LEMMA NothingYetStays ==
    ASSUME TypeOK, NothingYet, NEW r \in Requests, NEW phase, NEW verdict, NEW outcome,
           At(r, phase, verdict, outcome),
           phase \in {"new", "reading"} => verdict = "none" /\ outcome = "none",
           phase = "upstream" => outcome = "none"
    PROVE  NothingYet'
<1>1. /\ req'[r].phase = phase /\ req'[r].verdict = verdict /\ req'[r].outcome = outcome
      /\ \A s \in Requests : s # r => req'[s] = req[s]
  BY MoveOn
<1>2. QED
  BY <1>1 DEF NothingYet

LEMMA ConcludedBalances ==
    ASSUME BooksInv, NEW r \in Requests, NEW verdict \in {"allow", "block"}, NEW phase, NEW outcome,
           Concluded(r, verdict, phase, outcome),
           outcome \in {"none", "403_waf", "500"}
    PROVE  MetricsBalance'
<1>1. /\ req[r].phase = "reading" /\ req[r].verdict = "none" /\ req[r].outcome = "none"
      /\ TypeOK /\ At(r, phase, verdict, outcome)
  BY DEF BooksInv, NothingYet, Concluded
<1> DEFINE other == IF verdict = "allow" THEN "block" ELSE "allow"
<1>2. /\ WithVerdict(verdict)' = WithVerdict(verdict) \cup {r}
      /\ WithVerdict(other)' = WithVerdict(other)
      /\ r \notin WithVerdict(verdict)
  <2>1. req[r].verdict # other /\ verdict # other
    BY <1>1
  <2>2. WithVerdict(verdict)' = WithVerdict(verdict) \cup {r}
    BY <1>1, MoveOn
  <2>3. WithVerdict(other)' = WithVerdict(other)
    BY <1>1, <2>1, Unmoved
  <2>4. QED
    BY <1>1, <2>2, <2>3 DEF WithVerdict
<1>3. /\ WithOutcome("403_blacklisted")' = WithOutcome("403_blacklisted")
      /\ WithOutcome("429")' = WithOutcome("429")
  BY <1>1, Unmoved
<1>4. /\ WithOutcome("500") \subseteq WithOutcome("500")'
      /\ outcome = "500" => r \in WithOutcome("500")'
  <2>1. r \notin WithOutcome("500")
    BY <1>1 DEF WithOutcome
  <2>2. QED
    BY <1>1, <2>1, MoveOn
<1>5. Cardinality(WithVerdict(verdict)') = Cardinality(WithVerdict(verdict)) + 1
  BY <1>1, <1>2, OneMore
<1>6. /\ metrics'.total = metrics'.blocked + metrics'.allowed
      /\ metrics'.blocked = Cardinality(WithVerdict("block")')
      /\ metrics'.allowed = Cardinality(WithVerdict("allow")')
      /\ metrics'.blacklisted_blocks = metrics.blacklisted_blocks
      /\ metrics'.rate_limit_blocks = metrics.rate_limit_blocks
  <2>1. metrics' = Counted(verdict)
    BY DEF Concluded
  <2>2. /\ metrics.total = metrics.blocked + metrics.allowed
        /\ metrics.blocked = Cardinality(WithVerdict("block"))
        /\ metrics.allowed = Cardinality(WithVerdict("allow"))
    BY DEF BooksInv, MetricsBalance
  <2>3. /\ metrics'.total = metrics.total + 1
        /\ metrics'.blocked = metrics.blocked + (IF verdict = "block" THEN 1 ELSE 0)
        /\ metrics'.allowed = metrics.allowed + (IF verdict = "allow" THEN 1 ELSE 0)
        /\ metrics'.blacklisted_blocks = metrics.blacklisted_blocks
        /\ metrics'.rate_limit_blocks = metrics.rate_limit_blocks
        /\ metrics.total \in Nat /\ metrics.blocked \in Nat /\ metrics.allowed \in Nat
    BY <1>1, <2>1, CountedAdds
  <2> HIDE DEF other
  <2>4. CASE verdict = "block"
    <3>1. other = "allow"
      BY <2>4 DEF other
    <3>2. Cardinality(WithVerdict("block")') = Cardinality(WithVerdict("block")) + 1
      BY <1>5, <2>4
    <3>3. WithVerdict("allow")' = WithVerdict("allow")
      BY <1>2, <3>1
    <3>4. QED
      BY <2>2, <2>3, <2>4, <3>2, <3>3
  <2>5. CASE verdict = "allow"
    <3>1. other = "block"
      BY <2>5 DEF other
    <3>2. Cardinality(WithVerdict("allow")') = Cardinality(WithVerdict("allow")) + 1
      BY <1>5, <2>5
    <3>3. WithVerdict("block")' = WithVerdict("block")
      BY <1>2, <3>1
    <3>4. QED
      BY <2>2, <2>3, <2>5, <3>2, <3>3
  <2>6. QED
    BY <2>4, <2>5
<1>7. /\ logged' = WithVerdict("block")' \cup WithVerdict("allow")'
      /\ persisted' \subseteq logged'
      /\ logged' \ persisted' \subseteq WithOutcome("500")'
  <2>1. /\ logged = WithVerdict("block") \cup WithVerdict("allow")
        /\ persisted \subseteq logged
        /\ logged \ persisted \subseteq WithOutcome("500")
    BY DEF BooksInv, MetricsBalance
  <2>2. logged' = logged \cup {r}
    BY DEF Concluded
  <2>3. persisted' = persisted \cup {r} \/ (persisted' = persisted /\ outcome = "500")
    BY DEF Concluded
  <2>4. logged' = WithVerdict("block")' \cup WithVerdict("allow")'
    BY <1>2, <2>1, <2>2
  <2>5. QED
    BY <1>4, <2>1, <2>2, <2>3, <2>4
<1>8. QED
  <2>1. /\ metrics.blacklisted_blocks = Cardinality(WithOutcome("403_blacklisted"))
        /\ metrics.rate_limit_blocks = Cardinality(WithOutcome("429"))
    BY DEF BooksInv, MetricsBalance
  <2>2. QED
    BY <1>3, <1>6, <1>7, <2>1 DEF MetricsBalance

\* A request that moves on, and the books stay as they are or count a refusal.
LEMMA OthersBalance ==
    ASSUME BooksInv, NEW r \in Requests, NEW phase, NEW verdict, NEW outcome,
           At(r, phase, verdict, outcome), req[r].outcome = "none",
           verdict = req[r].verdict \/ (req[r].verdict = "none" /\ verdict = "bypass"),
           UNCHANGED <<logged, persisted>>,
           \/ UNCHANGED metrics /\ outcome \notin {"403_blacklisted", "429"}
           \/ /\ metrics' = [metrics EXCEPT !.blacklisted_blocks = @ + 1]
              /\ outcome = "403_blacklisted"
           \/ /\ metrics' = [metrics EXCEPT !.rate_limit_blocks = @ + 1]
              /\ outcome = "429"
    PROVE  MetricsBalance'
<1>1. TypeOK /\ MetricsBalance
  BY DEF BooksInv
<1>2. WithVerdict("block")' = WithVerdict("block") /\ WithVerdict("allow")' = WithVerdict("allow")
  BY <1>1, Unmoved
<1>3. /\ \A o : outcome # o /\ o # "none" => WithOutcome(o)' = WithOutcome(o)
      /\ \A o : outcome = o => WithOutcome(o)' = WithOutcome(o) \cup {r}
  BY <1>1, Unmoved, MoveOn
<1>4. \A o : o # "none" => Cardinality(WithOutcome(o) \cup {r}) = Cardinality(WithOutcome(o)) + 1
  BY <1>1, OneMore
<1>5. WithOutcome("500") \subseteq WithOutcome("500")'
  BY <1>3
<1>6. /\ metrics'.total = metrics.total /\ metrics'.blocked = metrics.blocked
      /\ metrics'.allowed = metrics.allowed
      /\ metrics'.blacklisted_blocks = metrics.blacklisted_blocks +
             (IF outcome = "403_blacklisted" THEN 1 ELSE 0)
      /\ metrics'.rate_limit_blocks = metrics.rate_limit_blocks + (IF outcome = "429" THEN 1 ELSE 0)
  <2>1. metrics \in Metrics
    BY <1>1 DEF TypeOK
  <2>2. QED
    BY <2>1 DEF Metrics
<1>7. /\ metrics'.blacklisted_blocks = Cardinality(WithOutcome("403_blacklisted")')
      /\ metrics'.rate_limit_blocks = Cardinality(WithOutcome("429")')
  <2>1. /\ metrics.blacklisted_blocks = Cardinality(WithOutcome("403_blacklisted"))
        /\ metrics.rate_limit_blocks = Cardinality(WithOutcome("429"))
    BY <1>1 DEF MetricsBalance
  <2>2. /\ Cardinality(WithOutcome("403_blacklisted")) \in Nat
        /\ Cardinality(WithOutcome("429")) \in Nat
    BY <1>1, CountsAreSizes
  <2>3. metrics'.blacklisted_blocks = Cardinality(WithOutcome("403_blacklisted")')
    <3>1. CASE outcome = "403_blacklisted"
      BY <1>3, <1>4, <1>6, <2>1, <2>2, <3>1
    <3>2. CASE outcome # "403_blacklisted"
      BY <1>3, <1>6, <2>1, <2>2, <3>2
    <3>3. QED
      BY <3>1, <3>2
  <2>4. metrics'.rate_limit_blocks = Cardinality(WithOutcome("429")')
    <3>1. CASE outcome = "429"
      BY <1>3, <1>4, <1>6, <2>1, <2>2, <3>1
    <3>2. CASE outcome # "429"
      BY <1>3, <1>6, <2>1, <2>2, <3>2
    <3>3. QED
      BY <3>1, <3>2
  <2>5. QED
    BY <2>3, <2>4
<1>8. /\ metrics.total = metrics.blocked + metrics.allowed
      /\ metrics.blocked = Cardinality(WithVerdict("block"))
      /\ metrics.allowed = Cardinality(WithVerdict("allow"))
      /\ logged = WithVerdict("block") \cup WithVerdict("allow")
      /\ persisted \subseteq logged
      /\ logged \ persisted \subseteq WithOutcome("500")
  BY <1>1 DEF MetricsBalance
<1>9. QED
  BY <1>2, <1>5, <1>6, <1>7, <1>8 DEF MetricsBalance

LEMMA BooksStep == ASSUME BooksInv, [Next]_vars PROVE BooksInv'
<1>1. TypeOK /\ NothingYet /\ MetricsBalance /\ TypeOK'
  BY ProxyStepType DEF BooksInv
<1>2. BookStep
  BY <1>1, NextIsBookStep
<1>3. CASE UNCHANGED <<req, logVars>>
  BY <1>1, <1>3 DEF BooksInv, NothingYet, MetricsBalance, WithVerdict, WithOutcome, logVars
<1>4. ASSUME NEW r \in Requests, NEW verdict \in {"allow", "block"}, NEW phase, NEW outcome,
             Concluded(r, verdict, phase, outcome), outcome \in {"none", "403_waf", "500"},
             phase \in {"upstream", "done"}, phase = "upstream" => outcome = "none"
      PROVE  BooksInv'
  <2>1. MetricsBalance'
    BY <1>4, ConcludedBalances
  <2>2. NothingYet'
    BY <1>1, <1>4, NothingYetStays DEF Concluded
  <2>3. QED
    BY <1>1, <2>1, <2>2 DEF BooksInv
<1>5. ASSUME NEW r \in Requests, NEW phase, NEW verdict, NEW outcome,
             At(r, phase, verdict, outcome), req[r].phase \in {"new", "reading", "upstream"},
             verdict = req[r].verdict \/ (req[r].verdict = "none" /\ verdict = "bypass"),
             UNCHANGED <<logged, persisted>>,
             \/ UNCHANGED metrics /\ outcome \notin {"403_blacklisted", "429"}
             \/ /\ metrics' = [metrics EXCEPT !.blacklisted_blocks = @ + 1]
                /\ outcome = "403_blacklisted"
             \/ /\ metrics' = [metrics EXCEPT !.rate_limit_blocks = @ + 1]
                /\ outcome = "429",
             phase \in {"new", "reading"} => verdict = "none" /\ outcome = "none",
             phase = "upstream" => outcome = "none"
      PROVE  BooksInv'
  <2>1. req[r].outcome = "none"
    BY <1>1, <1>5 DEF NothingYet
  <2>2. MetricsBalance'
    BY <1>5, <2>1, OthersBalance
  <2>3. NothingYet'
    BY <1>1, <1>5, NothingYetStays
  <2>4. QED
    BY <1>1, <2>2, <2>3 DEF BooksInv
<1>6. ASSUME NEW r \in Requests, req[r].phase \in {"new", "reading"}
      PROVE  req[r].verdict = "none"
  BY <1>1, <1>6 DEF NothingYet
<1>7. ASSUME NEW r \in Requests, req[r].phase = "new", UNCHANGED <<logged, persisted>>,
             \/ /\ At(r, "done", "none", "403_blacklisted")
                /\ metrics' = [metrics EXCEPT !.blacklisted_blocks = @ + 1]
             \/ /\ At(r, "done", "none", "429")
                /\ metrics' = [metrics EXCEPT !.rate_limit_blocks = @ + 1]
      PROVE  BooksInv'
  BY <1>5, <1>6, <1>7
<1>8. ASSUME NEW r \in Requests, req[r].phase \in {"new", "reading"}, UNCHANGED logVars,
             \/ At(r, "upstream", "bypass", "none")
             \/ At(r, "reading", "none", "none")
             \/ \E outcome \in {"500", "aborted"} : At(r, "done", "none", outcome)
      PROVE  BooksInv'
  BY <1>5, <1>6, <1>8 DEF logVars
<1>9. ASSUME NEW r \in Requests, req[r].phase = "upstream", UNCHANGED logVars,
             NEW outcome \in {"200", "500"}, At(r, "done", req[r].verdict, outcome)
      PROVE  BooksInv'
  BY <1>5, <1>9 DEF logVars
<1>10. QED
  BY <1>2, <1>3, <1>4, <1>7, <1>8, <1>9 DEF BookStep

LEMMA BooksInit == ASSUME Init PROVE BooksInv
<1>1. TypeOK
  BY ProxyInitType
<1>2. NothingYet
  BY DEF Init, NewRequest, NothingYet
<1>3. WithVerdict("block") = {} /\ WithVerdict("allow") = {}
      /\ WithOutcome("403_blacklisted") = {} /\ WithOutcome("429") = {}
  BY DEF Init, NewRequest, WithVerdict, WithOutcome
<1>4. Cardinality({}) = 0
  BY FS_EmptySet
<1>5. MetricsBalance
  <2>1. /\ metrics = [total |-> 0, blocked |-> 0, allowed |-> 0,
                      blacklisted_blocks |-> 0, rate_limit_blocks |-> 0]
        /\ logged = {} /\ persisted = {}
    BY DEF Init
  <2>2. QED
    BY <1>3, <1>4, <2>1 DEF MetricsBalance
<1>6. QED
  BY <1>1, <1>2, <1>5 DEF BooksInv

\* Every verdict and every refusal is counted once, and every analysed request
\* is in the deque, for any number of requests, failures and endpoints' calls.
THEOREM ProxyBooksBalance == Spec => []MetricsBalance
<1>1. BooksInv /\ [Next]_vars => BooksInv'
  BY BooksStep
<1>2. BooksInv => MetricsBalance
  BY DEF BooksInv
<1>3. QED
  BY BooksInit, <1>1, <1>2, PTL DEF Spec

=============================================================================
