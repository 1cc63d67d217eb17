------------------------------ MODULE WAFProxy ------------------------------
(***************************************************************************)
(* The request pipeline: waf_proxy_handler (main.py) and WAFProxy           *)
(* (proxy.py) over the rate limiter, the blacklist table and the in-memory  *)
(* blacklist, with the administrative endpoints that change the same state. *)
(*                                                                          *)
(* One event loop runs everything, so a handler is atomic between two       *)
(* awaits that really suspend. A request has two of them: reading its body  *)
(* (after the checks, before the verdict) and waiting for the upstream.     *)
(* Everything else - the checks on arrival, and verdict, metrics, log,      *)
(* violation and ban together - is a single step, in which other requests   *)
(* and the endpoints cannot interfere.                                      *)
(*                                                                          *)
(* Redis is off (USE_REDIS defaults to False), so the endpoints do not      *)
(* suspend either. A DELETE that the foreign key refuses raises with its    *)
(* transaction open; the connection sits in a reference cycle and keeps the *)
(* write lock until the garbage collector frees it, and every statement     *)
(* that writes in the meantime raises. The verdict of the strategies is     *)
(* nondeterministic; there are no AI agents (see Detection), so a block is  *)
(* always explained by a matched pattern and counts as a violation.         *)
(*                                                                          *)
(* A behaviour is one life of the process. waf.db outlives it, everything   *)
(* else starts anew: the table holds at first whatever an earlier life may  *)
(* have left at any moment, a death in the middle of a penalty included.    *)
(***************************************************************************)
EXTENDS RateLimiter, BlacklistTable, IPBlacklist

CONSTANTS
    Requests,         \* the requests of a behaviour, each handled once
    Paths,            \* request paths
    BlacklistConfigs, \* ip_blacklist settings: [enabled, threshold, duration]
    RateConfigs,      \* rate_limiting settings: [enabled, limit]
    AdminDuration,    \* duration_hours=1 of a ban by the endpoint
    InitialIPs,       \* the whitelist the configuration starts with
    LeftRows,         \* bound: rows an earlier process may have left in waf.db
    MaxAdminOps,      \* bound: administrative changes
    MaxFaults         \* bound: failures of the SQLite file

ASSUME ProxyAssumption ==
    /\ IsFiniteSet(Requests)
    /\ BlacklistConfigs \subseteq [enabled : BOOLEAN, threshold : Nat, duration : Nat]
    /\ RateConfigs \subseteq [enabled : BOOLEAN, limit : Limits]
    /\ AdminDuration \in Nat
    /\ InitialIPs \subseteq IPs
    /\ LeftRows \subseteq Row
    /\ MaxAdminOps \in Nat
    /\ MaxFaults \in Nat

VARIABLES
    rows,           \* the table ip_blacklist
    locked,         \* an abandoned connection holds SQLite's write lock
    memory,         \* ip_blacklist, the in-memory object
    config,         \* waf_config: blacklist and rate sections, whitelists
    req,            \* where each request is
    metrics,        \* WAFProxy.metrics
    logged,         \* requests appended to request_logger's deque
    persisted,      \* requests inserted into request_logs
    adminOps,       \* administrative changes so far
    faults,         \* failures so far
    admin_banned,   \* history: banned by an administrator since the row began
    ban_missed,     \* history: reached the threshold, but the ban was not written
    muted,          \* history: ever whitelisted in the in-memory object
    struck,         \* history: when a violation last had the client banned
    inherited       \* history: the counts found in the table at the start

history == <<admin_banned, ban_missed, muted, struck, inherited>>
storeVars == <<rows, memory, history>>
logVars == <<metrics, logged, persisted>>
vars == <<rlVars, storeVars, logVars, locked, config, req, adminOps, faults>>

-----------------------------------------------------------------------------
Phases == {"new", "reading", "upstream", "done"}
Verdicts == {"none", "bypass", "allow", "block"}
Outcomes == {"none", "403_blacklisted", "429", "403_waf", "200", "500", "aborted"}

\* ip is the client's address: request.client, or the first X-Forwarded-For.
NewRequest(ip) == [phase |-> "new", ip |-> ip, verdict |-> "none", outcome |-> "none"]

\* The durations a ban may be given.
Durations == {AdminDuration} \cup {c.duration : c \in BlacklistConfigs}

\* The count of a client on record stands at every threshold in use.
OverThreshold(ip) ==
    rows[ip].present /\ \A c \in BlacklistConfigs : rows[ip].count >= c.threshold

\* A client's row as a process leaves it whenever it stops: it is there for a
\* violation or a ban, the ban has a cause, and ends within its duration.
Leavable(ip) ==
    LET row == rows[ip]
    IN  /\ IF row.present THEN Referenced(row) \/ HasBan(row) ELSE row = NoRow
        /\ row.permanent => ip \in admin_banned
        /\ ip \in admin_banned => HasBan(row)
        /\ HasBan(row) =>
              \/ ip \in admin_banned
              \/ \E c \in BlacklistConfigs : row.count >= c.threshold
        /\ \E d \in Durations : row.expires <= now + d

\* The start of a process, on an empty table or on a used one.
Init ==
    /\ now = 0
    /\ LimiterInit
    /\ rows \in [IPs -> LeftRows \cup {NoRow}]
    /\ admin_banned \in SUBSET IPs
    /\ \A ip \in IPs : Leavable(ip)
    /\ ban_missed = {ip \in IPs : OverThreshold(ip) /\ ~HasBan(rows[ip])}
    /\ inherited = [ip \in IPs |-> rows[ip].count]
    /\ struck = [ip \in IPs |-> NULL]
    /\ memory = [ip \in IPs |-> EmptyMemory]
    /\ locked = FALSE
    /\ config \in [blacklist : BlacklistConfigs, rate : RateConfigs,
                   ips : {InitialIPs}, paths : {{}}]
    /\ req \in [Requests -> {NewRequest(ip) : ip \in IPs}]
    /\ metrics = [total |-> 0, blocked |-> 0, allowed |-> 0,
                  blacklisted_blocks |-> 0, rate_limit_blocks |-> 0]
    /\ logged = {}
    /\ persisted = {}
    /\ adminOps = 0
    /\ faults = 0
    /\ muted = {}

-----------------------------------------------------------------------------
\* Arrival: everything up to the await on the body.

\* A whitelisted client skips both checks (but not the analysis).
BlacklistEnforced(ip) == ip \notin config.ips /\ config.blacklist.enabled
LimitEnforced(ip) == ip \notin config.ips /\ config.rate.enabled

\* The handler of r is now at this point.
At(r, phase, verdict, outcome) ==
    req' = [req EXCEPT ![r] = [phase |-> phase, ip |-> @.ip,
                               verdict |-> verdict, outcome |-> outcome]]

Finish(r, outcome) == At(r, "done", req[r].verdict, outcome)

\* check_ip_blacklist lets the client through, deleting a lapsed row.
LookupPasses(ip) ==
    /\ IF BlacklistEnforced(ip)
       THEN /\ ~IsBlocked(rows[ip], now)
            /\ Lapsed(rows[ip], now) => ~locked
            /\ \E row \in AfterLookup(rows[ip], now) :
                /\ rows' = [rows EXCEPT ![ip] = row]
                /\ admin_banned' = IF row.present THEN admin_banned ELSE admin_banned \ {ip}
       ELSE UNCHANGED <<rows, admin_banned>>
    /\ UNCHANGED <<memory, ban_missed, muted, struck, inherited, locked>>

\* A whitelisted path is forwarded unseen.
PassThrough(r, path) ==
    /\ req[r].phase = "new"
    /\ path \in config.paths
    /\ At(r, "upstream", "bypass", "none")
    /\ UNCHANGED <<rlVars, storeVars, logVars, locked, config, adminOps, faults>>

RefuseBlacklisted(r, path) ==
    /\ req[r].phase = "new"
    /\ path \notin config.paths
    /\ BlacklistEnforced(req[r].ip)
    /\ IsBlocked(rows[req[r].ip], now)
    /\ Finish(r, "403_blacklisted")
    /\ metrics' = [metrics EXCEPT !.blacklisted_blocks = @ + 1]
    /\ UNCHANGED <<rlVars, storeVars, logged, persisted, locked, config, adminOps, faults>>

RefuseRateLimited(r, path) ==
    /\ req[r].phase = "new"
    /\ path \notin config.paths
    /\ LookupPasses(req[r].ip)
    /\ LimitEnforced(req[r].ip)
    /\ Refuse(req[r].ip, config.rate.limit)
    /\ Finish(r, "429")
    /\ metrics' = [metrics EXCEPT !.rate_limit_blocks = @ + 1]
    /\ UNCHANGED <<now, logged, persisted, config, adminOps, faults>>

StartAnalysis(r, path) ==
    /\ req[r].phase = "new"
    /\ path \notin config.paths
    /\ LookupPasses(req[r].ip)
    /\ IF LimitEnforced(req[r].ip)
       THEN Admit(req[r].ip, config.rate.limit)
       ELSE UNCHANGED limiterVars
    /\ At(r, "reading", "none", "none")
    /\ UNCHANGED <<now, logVars, config, adminOps, faults>>

\* The lookup finds a lapsed row that it cannot delete, because violations refer
\* to it or because the lock is held: the exception becomes a 500. The refused
\* DELETE leaves its own connection behind, with the lock.
LookupRaises(r, path) ==
    /\ req[r].phase = "new"
    /\ path \notin config.paths
    /\ BlacklistEnforced(req[r].ip)
    /\ Lapsed(rows[req[r].ip], now)
    /\ locked \/ ~Deletable(rows[req[r].ip])
    /\ locked' = TRUE
    /\ Finish(r, "500")
    /\ UNCHANGED <<rlVars, storeVars, logVars, config, adminOps, faults>>

\* SQLite fails under the lookup for a reason of its own (a full disk, an I/O
\* error: these roll the transaction back). Also a 500.
LookupFault(r, path) ==
    /\ req[r].phase = "new"
    /\ path \notin config.paths
    /\ BlacklistEnforced(req[r].ip)
    /\ faults < MaxFaults
    /\ faults' = faults + 1
    /\ Finish(r, "500")
    /\ UNCHANGED <<rlVars, storeVars, logVars, locked, config, adminOps>>

-----------------------------------------------------------------------------
\* The body is in: evaluate, aggregate, then everything down to the response
\* (or to the await on the upstream) in one step.

\* Mutant: blocked requests are also counted as allowed.
Counted_BlockIsAllowedToo(verdict) ==
    [metrics EXCEPT !.total = @ + 1,
                    !.blocked = IF verdict = "block" THEN @ + 1 ELSE @,
                    !.allowed = @ + 1]

\* _update_metrics
Counted(verdict) ==
    IF verdict = "block"
    THEN [metrics EXCEPT !.total = @ + 1, !.blocked = @ + 1]
    ELSE [metrics EXCEPT !.total = @ + 1, !.allowed = @ + 1]

\* _update_metrics and request_logger.log
Record(r, verdict) ==
    /\ ~locked
    /\ UNCHANGED locked
    /\ metrics' = Counted(verdict)
    /\ logged' = logged \cup {r}
    /\ persisted' = persisted \cup {r}

AnalyzeAllow(r) ==
    /\ req[r].phase = "reading"
    /\ Record(r, "allow")
    /\ At(r, "upstream", "allow", "none")
    /\ UNCHANGED <<rlVars, storeVars, config, adminOps, faults>>

\* Mutant: only the violation that hits the threshold exactly bans.
AnalyzeBlock_OnlyAtThreshold(r) ==
    LET ip == req[r].ip
        row == Violated(rows[ip])
        over == row.count = config.blacklist.threshold
    IN  /\ req[r].phase = "reading"
        /\ Record(r, "block")
        /\ memory' = [memory EXCEPT ![ip] = MemViolated(@, now)]
        /\ rows' = [rows EXCEPT ![ip] =
                      IF over THEN Banned(row, FALSE, now + config.blacklist.duration) ELSE row]
        /\ ban_missed' = ban_missed \ {ip}
        /\ struck' = IF over THEN [struck EXCEPT ![ip] = now] ELSE struck
        /\ At(r, "done", "block", "403_waf")
        /\ UNCHANGED <<rlVars, admin_banned, muted, inherited, config, adminOps, faults>>

\* Mutant: a new ban is appended to the one still running.
AnalyzeBlock_PilesUp(r) ==
    LET ip == req[r].ip
        row == Violated(rows[ip])
        over == row.count >= config.blacklist.threshold
        from == IF rows[ip].expires > now THEN rows[ip].expires ELSE now
    IN  /\ req[r].phase = "reading"
        /\ Record(r, "block")
        /\ memory' = [memory EXCEPT ![ip] = MemViolated(@, now)]
        /\ rows' = [rows EXCEPT ![ip] =
                      IF over THEN Banned(row, FALSE, from + config.blacklist.duration) ELSE row]
        /\ ban_missed' = ban_missed \ {ip}
        /\ struck' = IF over THEN [struck EXCEPT ![ip] = now] ELSE struck
        /\ At(r, "done", "block", "403_waf")
        /\ UNCHANGED <<rlVars, admin_banned, muted, inherited, config, adminOps, faults>>

\* A block: the violation is added in memory, then in the table, and at the
\* configured threshold the row is (re)banned, for the configured duration.
AnalyzeBlock(r) ==
    LET ip == req[r].ip
        row == Violated(rows[ip])
        over == row.count >= config.blacklist.threshold
    IN  /\ req[r].phase = "reading"
        /\ Record(r, "block")
        /\ memory' = [memory EXCEPT ![ip] = MemViolated(@, now)]
        /\ rows' = [rows EXCEPT ![ip] =
                      IF over THEN Banned(row, FALSE, now + config.blacklist.duration) ELSE row]
        /\ ban_missed' = ban_missed \ {ip}
        /\ struck' = IF over THEN [struck EXCEPT ![ip] = now] ELSE struck
        /\ At(r, "done", "block", "403_waf")
        /\ UNCHANGED <<rlVars, admin_banned, muted, inherited, config, adminOps, faults>>

\* log_request raises, because the lock is held or SQLite fails: counted and in
\* the deque, not in the file, and the rest of the handler does not run.
LogFault(r, verdict) ==
    /\ req[r].phase = "reading"
    /\ \/ locked /\ UNCHANGED faults
       \/ faults < MaxFaults /\ faults' = faults + 1
    /\ metrics' = Counted(verdict)
    /\ logged' = logged \cup {r}
    /\ At(r, "done", verdict, "500")
    /\ UNCHANGED <<rlVars, storeVars, persisted, locked, config, adminOps>>

\* SQLite fails under blacklist_add_violation (before or after its commit) or
\* under blacklist_ban: memory is ahead of the table, or the count of the ban.
PenaltyFault(r) ==
    LET ip == req[r].ip
        row == Violated(rows[ip])
    IN  /\ req[r].phase = "reading"
        /\ faults < MaxFaults
        /\ faults' = faults + 1
        /\ Record(r, "block")
        /\ memory' = [memory EXCEPT ![ip] = MemViolated(@, now)]
        /\ \/ UNCHANGED <<rows, ban_missed>>
           \/ /\ rows' = [rows EXCEPT ![ip] = row]
              /\ ban_missed' = IF row.count >= config.blacklist.threshold
                               THEN ban_missed \cup {ip} ELSE ban_missed
        /\ At(r, "done", "block", "500")
        /\ UNCHANGED <<rlVars, admin_banned, muted, struck, inherited, config, adminOps>>

\* The client goes away before its body is complete.
Disconnect(r) ==
    /\ req[r].phase = "reading"
    /\ Finish(r, "aborted")
    /\ UNCHANGED <<rlVars, storeVars, logVars, locked, config, adminOps, faults>>

\* forward_request: the upstream answers, or the call fails or times out.
UpstreamReturns(r, outcome) ==
    /\ req[r].phase = "upstream"
    /\ Finish(r, outcome)
    /\ UNCHANGED <<rlVars, storeVars, logVars, locked, config, adminOps, faults>>

-----------------------------------------------------------------------------
\* The administrative endpoints.

Administer ==
    /\ adminOps < MaxAdminOps
    /\ adminOps' = adminOps + 1
    /\ UNCHANGED <<rlVars, logVars, req, faults>>

\* POST /security/blacklist
BanIP(ip, permanent) ==
    /\ Administer
    /\ rows' = [rows EXCEPT ![ip] = Banned(@, permanent, now + AdminDuration)]
    /\ memory' = [memory EXCEPT ![ip] = MemBanned(@, permanent, now)]
    /\ admin_banned' = admin_banned \cup {ip}
    /\ ban_missed' = ban_missed \ {ip}
    /\ ~locked
    /\ UNCHANGED <<muted, struck, inherited, config, locked>>

\* Its INSERT raises while the lock is held, before memory is touched.
BanRaises ==
    /\ Administer
    /\ locked
    /\ UNCHANGED <<storeVars, config, locked>>

\* Mutant: the unban clears only the in-memory object.
UnbanIP_OnlyMemory(ip) ==
    /\ Administer
    /\ ~locked
    /\ Deletable(rows[ip])
    /\ memory' = [memory EXCEPT ![ip] = MemUnbanned(@)]
    /\ admin_banned' = admin_banned \ {ip}
    /\ struck' = [struck EXCEPT ![ip] = NULL]
    /\ UNCHANGED <<rows, ban_missed, muted, inherited, config, locked>>

\* DELETE /security/blacklist/{ip}
UnbanIP(ip) ==
    /\ Administer
    /\ ~locked
    /\ Deletable(rows[ip])
    /\ rows' = [rows EXCEPT ![ip] = NoRow]
    /\ memory' = [memory EXCEPT ![ip] = MemUnbanned(@)]
    /\ admin_banned' = admin_banned \ {ip}
    /\ struck' = [struck EXCEPT ![ip] = NULL]
    /\ UNCHANGED <<ban_missed, muted, inherited, config, locked>>

\* The same, where the DELETE raises: neither the table nor memory changes.
UnbanRaises(ip) ==
    /\ Administer
    /\ locked \/ ~Deletable(rows[ip])
    /\ locked' = TRUE
    /\ UNCHANGED <<storeVars, config>>

\* POST /security/blacklist/{ip}/whitelist: only the in-memory object.
WhitelistInMemory(ip) ==
    /\ Administer
    /\ memory' = [memory EXCEPT ![ip] = MemWhitelisted(@)]
    /\ muted' = muted \cup {ip}
    /\ UNCHANGED <<rows, admin_banned, ban_missed, struck, inherited, locked, config>>

\* POST and DELETE /waf/config/whitelist/ip/{ip}
SetWhitelistedIP(ip, listed) ==
    /\ Administer
    /\ config' = [config EXCEPT !.ips = IF listed THEN @ \cup {ip} ELSE @ \ {ip}]
    /\ UNCHANGED <<storeVars, locked>>

\* POST and DELETE /waf/config/whitelist/path
SetWhitelistedPath(path, listed) ==
    /\ Administer
    /\ config' = [config EXCEPT !.paths = IF listed THEN @ \cup {path} ELSE @ \ {path}]
    /\ UNCHANGED <<storeVars, locked>>

\* POST /waf/config, for the two sections the checks read.
UpdateConfig(blacklist, rate) ==
    /\ Administer
    /\ config' = [config EXCEPT !.blacklist = blacklist, !.rate = rate]
    /\ UNCHANGED <<storeVars, locked>>

\* GET /security/blacklist/{ip}
HistoryPage(ip) ==
    /\ memory' = [memory EXCEPT ![ip] = MemAfterLookup(@, now)]
    /\ UNCHANGED <<rlVars, rows, history, logVars, locked, config, req, adminOps, faults>>

\* GET /security/rate-limits/{ip}
RateInfoPage(ip) ==
    /\ QueryCount(ip)
    /\ UNCHANGED <<now, storeVars, logVars, locked, config, req, adminOps, faults>>

TimePasses ==
    /\ Tick
    /\ UNCHANGED <<limiterVars, storeVars, logVars, locked, config, req, adminOps, faults>>

\* The garbage collector frees the abandoned connections.
CollectGarbage ==
    /\ locked
    /\ locked' = FALSE
    /\ UNCHANGED <<rlVars, storeVars, logVars, config, req, adminOps, faults>>

-----------------------------------------------------------------------------
Arrive(r) ==
    \E path \in Paths :
        \/ PassThrough(r, path)
        \/ RefuseBlacklisted(r, path)
        \/ RefuseRateLimited(r, path)
        \/ StartAnalysis(r, path)
        \/ LookupRaises(r, path)
        \/ LookupFault(r, path)

Analyze(r) ==
    \/ AnalyzeAllow(r)
    \/ AnalyzeBlock(r)
    \/ \E verdict \in {"allow", "block"} : LogFault(r, verdict)
    \/ PenaltyFault(r)
    \/ Disconnect(r)

Forward(r) == \E outcome \in {"200", "500"} : UpstreamReturns(r, outcome)

Admin ==
    \/ BanRaises
    \/ \E ip \in IPs :
        \/ \E permanent \in BOOLEAN : BanIP(ip, permanent)
        \/ UnbanIP(ip)
        \/ UnbanRaises(ip)
        \/ WhitelistInMemory(ip)
        \/ \E listed \in BOOLEAN : SetWhitelistedIP(ip, listed)
    \/ \E path \in Paths, listed \in BOOLEAN : SetWhitelistedPath(path, listed)
    \/ \E blacklist \in BlacklistConfigs, rate \in RateConfigs : UpdateConfig(blacklist, rate)

Pages == \E ip \in IPs : HistoryPage(ip) \/ RateInfoPage(ip)

Next ==
    \/ \E r \in Requests : Arrive(r) \/ Analyze(r) \/ Forward(r)
    \/ Admin
    \/ Pages
    \/ TimePasses
    \/ CollectGarbage

Spec == Init /\ [][Next]_vars

-----------------------------------------------------------------------------
Config == [blacklist : BlacklistConfigs, rate : RateConfigs,
           ips : SUBSET IPs, paths : SUBSET Paths]

Request == [phase : Phases, ip : IPs, verdict : Verdicts, outcome : Outcomes]

Metrics == [total : Nat, blocked : Nat, allowed : Nat,
            blacklisted_blocks : Nat, rate_limit_blocks : Nat]

TypeOK ==
    /\ RLTypeOK
    /\ rows \in [IPs -> Row]
    /\ memory \in [IPs -> Memory]
    /\ locked \in BOOLEAN
    /\ config \in Config
    /\ req \in [Requests -> Request]
    /\ metrics \in Metrics
    /\ logged \subseteq Requests
    /\ persisted \subseteq Requests
    /\ adminOps \in Nat
    /\ faults \in Nat
    /\ admin_banned \subseteq IPs
    /\ ban_missed \subseteq IPs
    /\ muted \subseteq IPs
    /\ struck \in [IPs -> Nat \cup {NULL}]
    /\ inherited \in [IPs -> Nat]

\* A client over every threshold has a ban on record, unless the very write of
\* that ban failed, or the process died before it, and no violation has been
\* dealt with since: the next one makes up for it, because the test is ">=".
OverThresholdIsBanned ==
    \A ip \in IPs : OverThreshold(ip) => HasBan(rows[ip]) \/ ip \in ban_missed

\* Nobody is banned without a cause: a ban on record was asked for by an
\* administrator since the row began, or earned by as many counted violations
\* as some threshold in use. An unban that succeeds wipes the slate: a request
\* that was in flight across it cannot bring the old ban back.
BanHasCause ==
    \A ip \in IPs : HasBan(rows[ip]) =>
        \/ ip \in admin_banned
        \/ \E c \in BlacklistConfigs : rows[ip].count >= c.threshold

\* A temporary ban ends: no row promises more than the longest duration in
\* use, so re-banning from requests in flight cannot pile up time.
BanIsBounded ==
    \A ip \in IPs : \E d \in Durations : rows[ip].expires <= now + d

\* The history page misses no violation that enforcement counted in the life
\* of this process (up to its own cap), for clients never whitelisted there:
\* the in-memory object is fed first, and an unban that would make it forget
\* is refused by the table as long as violations are on record there. What an
\* earlier life counted, enforcement remembers and the page does not.
HistoryCoversLife ==
    \A ip \in IPs \ muted :
        \/ memory[ip].violations >= rows[ip].count - inherited[ip]
        \/ memory[ip].violations = MemHistory

\* The books balance: each verdict is counted once and each refusal once,
\* whatever raises; the deque holds every analysed request, and the file all of
\* them but some that were answered 500.
WithVerdict(v) == {r \in Requests : req[r].verdict = v}
WithOutcome(o) == {r \in Requests : req[r].outcome = o}

MetricsBalance ==
    /\ metrics.total = metrics.blocked + metrics.allowed
    /\ metrics.blocked = Cardinality(WithVerdict("block"))
    /\ metrics.allowed = Cardinality(WithVerdict("allow"))
    /\ metrics.blacklisted_blocks = Cardinality(WithOutcome("403_blacklisted"))
    /\ metrics.rate_limit_blocks = Cardinality(WithOutcome("429"))
    /\ logged = WithVerdict("block") \cup WithVerdict("allow")
    /\ persisted \subseteq logged
    /\ logged \ persisted \subseteq WithOutcome("500")

\* Once a violation has had a client banned, and where the blacklist applies,
\* no request it makes afterwards is analysed before the shortest duration in
\* use has passed: neither requests in flight that ban it again, nor changed
\* settings, nor an administrator's own ban on top, nor a ban of before that
\* lapses let it back in early. Only an unban does.
OffendersAreStopped ==
    [][\A r \in Requests :
        req[r].phase = "new" /\ req'[r].phase = "reading" /\ BlacklistEnforced(req[r].ip) =>
            LET since == struck[req[r].ip]
            IN  since = NULL \/ \E d \in Durations : now >= since + d]_vars

\* Nothing makes the table forget a violation: neither the end of a ban nor an
\* unban, in whatever order they meet the requests in flight.
ViolationsStay ==
    [][\A ip \in IPs : rows'[ip].count >= rows[ip].count]_vars

-----------------------------------------------------------------------------
\* What the documents say and the code does not do.

\* "test_expired_ban_returns_false": once a temporary ban is over, and as long
\* as SQLite itself works, its client is not answered with an internal error.
BansEnd ==
    [][\A r \in Requests :
        /\ req[r].phase = "new" /\ req'[r].phase = "done"
        /\ Lapsed(rows[req[r].ip], now)
        /\ faults' = faults
        => req'[r].outcome # "500"]_vars

\* A permanent ban stays until an administrator acts on it.
PermanentBanStays ==
    [][adminOps' = adminOps => \A ip \in IPs : rows[ip].permanent => rows'[ip].permanent]_vars

=============================================================================
