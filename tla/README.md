# A verification development for AI-WAF

`src/` holds a web application firewall: a FastAPI server that inspects every HTTP
request, answers 403 or 429, or forwards it to an upstream server, and keeps blacklists,
rate limits, logs and statistics with a dashboard over them. This directory holds TLA+
modules of its parts, TLC configurations that model-check them, and theorems that TLAPS
checks. Paths below are relative to `src/src/waf/`.

## 1. Inventory

One asyncio event loop runs the program. A handler is atomic between two awaits that
really suspend; the synchronous SQLite calls of `database.py` block the loop and so never
interleave with anything.

| Part | State | Operations | Interacts with |
|---|---|---|---|
| Request pipeline (`main.py` 417-441, `proxy.py`) | metrics; where each request is | arrival checks, analysis, penalty, response or forward | all others |
| Settings (`waf_config.py`) | strategies, blacklist and rate sections, whitelists | get, deep update, reset, toggle, whitelists, custom patterns | read by the pipeline on every check; the strategy list is rebuilt only by a reload |
| Rate limiter (`strategies/rate_limiter.py`) | a log of times per client, two counters, the last limit copied in | check, count, remaining, reset time, statistics | pipeline, rate-limit pages |
| Blacklist table (`database.py`) | one row per client: count, permanent, expiry | violation, ban, unban, lookup (which deletes lapsed rows) | pipeline, ban endpoints |
| In-memory blacklist (`ai_engine/ip_blacklist.py`) | entries, violation lists, whitelist | the same, with its own threshold and duration | fed beside the table, read only by the history page |
| Strategies (`strategies/`) | behaviour profiles, flood windows, lock-outs, statistics baseline; all module-level, they survive a reload | `evaluate` | called in list order by the analysis |
| Threat scorer (`ai_engine/numpy_scorer.py`) | none | weighted score, percentile of levels | aggregation in `proxy.py` |
| Request log (`request_log.py`) | deque of 1000 entries, subscribers | log, summaries, seed | synchronous INSERT, websocket broadcast |
| Log view of the page (`static/dashboard.html` 376-409, 614-642) | list of rows, offset, button, socket | load on a timer, load more, clear, live entries | pages of `GET /dashboard/logs`, `/ws` |
| Asynchronous database (`async_database.py`) | connection pool, queue of logs, batch writer task | initialize, queue, flush, queries, close | lifespan handler, dashboard pages |
| Redis cache (`redis_cache.py`) | blacklist hashes with TTL, violation lists | ban, unban, statistics | ban endpoints write, pages read; off by default |
| Generated signatures (`auto_signatures.py`) | list of rules, JSON file | generate, approve, reject, delete by index | logs of blocked requests |
| AI agents (`ai_engine/openai_agent.py`, `custom_agent.py`) | none | `analyze` | never attached (see section 7) |
| ML model, TLS, data models | weights; files; none | | not part of a verdict |

Hard behaviours, and what makes each part correct:

- *Several requests of one client in flight.* The lookup in the blacklist precedes the
  await on the body, the penalty follows it. Administrators ban, unban, whitelist and
  change settings in between. Correct means: offenders are banned and stay out, nobody is
  banned without a cause, bans end, an administrator's ban is not undone by the machine.
- *Foreign keys and an abandoned lock.* Violations refer to the row of their client, and
  `_get_conn` switches foreign keys on, so a row with violations cannot be deleted - which
  both the end of a temporary ban and an unban try. The exception skips `conn.close()`: the
  connection keeps SQLite's write lock until the garbage collector finds it, and every write
  of the process fails meanwhile.
- *Two copies of the blacklist* (with Redis on), written one after the other with awaits in
  between, one of them with a TTL set by a second command.
- *Rules addressed by their index*, from pages that may be stale, saved in a file that is
  truncated before it is written.
- *Partial failure.* A failing statement aborts a handler after some of its effects.
  Counters, deque, table and in-memory object must stay consistent as far as promised.
- *Windows and thresholds under changing settings.* The limiter cleans its log with
  whatever window was copied in last, status pages clean it too, trackers are trimmed on
  every request. Correct means: trimming never changes a decision.
- *A pool of connections, a background writer and cancellation.* Connections must not be
  shared, lost or given back with an open transaction; logs must be in exactly one place;
  waiting tasks must be served and `close()` must end.
- *A page that follows a growing table.* It pages by offset while rows are added in front,
  appends what a socket pushes, and reloads on a timer; answers overtake each other, the
  socket breaks, entries are pushed that never reach the table. Correct means: undisturbed
  it skips and misses nothing, and it never stays wrong.
- *Settings that share structure* (a shallow copy of the defaults) and a strategy list that
  is a cached function of them.

The hazards, each at its line, with the properties that would catch it, are in
`PROJECT.json` under "hazards".

## 2. Modules

```
SlidingWindow <--refines-- RateLimiter      BlacklistTable   IPBlacklist
                                 \               |              /
                                  +---------- WAFProxy --------+
ConnectionPool --- AsyncDatabase
RedisMirror --- BlacklistTable            AutoSignatures
Lists --- LiveView
Lists --- Traffic, ThreatScorer --- BehaviorTracker, DDoSProtector, ZeroDayDetector --+
                                                 Matchers, WAFConfig -----------------+--- Detection
```

**SlidingWindow** is the abstract rule: a request is admitted exactly when fewer than
`Max` admissions lie in the window that ends now; nothing is ever forgotten.

**RateLimiter** is the limiter with its list of times per client (`requests`), the limit
last copied in (`limit`), the counters, and as history variables every admission ever
made and how often each client was refused (`refusals`, which names the client that
`RefusalDeserved` is about). `Refuse` and `Admit` are the two outcomes of `check_rate_limit` with
`is_rate_limited`; `QueryCount` is the page that also cleans up. A log entry carries a
number so that two requests of one instant stay two.

**BlacklistTable** and **IPBlacklist** define what each statement or method does to one
row or one in-memory entry: pure operators, used by WAFProxy and RedisMirror. `Referenced`
and `Deletable` are the foreign key: a row is referred to exactly when its count is not 0.

**WAFProxy** composes them. A request goes through the phases `new`, `reading` (awaiting
its body), `upstream`, `done`; each action is one stretch between two awaits:

| Action | Code |
|---|---|
| `PassThrough`, `RefuseBlacklisted`, `RefuseRateLimited`, `StartAnalysis`, `LookupFault` | `waf_proxy_handler` up to the await on the body: whitelisted path, `check_ip_blacklist`, `check_rate_limit`, or SQLite failing under the lookup |
| `AnalyzeAllow`, `AnalyzeBlock` | `analyze_request` from the verdict on: metrics, log, violation in memory and in the table, ban at the threshold, response |
| `LogFault`, `PenaltyFault`, `Disconnect` | the same, cut short by SQLite or by the client |
| `LookupRaises`, `UnbanRaises`, `BanRaises` | a DELETE refused by the foreign key, or a write while the lock is abandoned |
| `CollectGarbage` | the abandoned connection is found and closed (`locked` becomes false) |
| `UpstreamReturns` | `forward_request` |
| `BanIP`, `UnbanIP`, `WhitelistInMemory`, `SetWhitelistedIP`, `SetWhitelistedPath`, `UpdateConfig` | the endpoints |
| `HistoryPage`, `RateInfoPage` | the two pages that change state while reading |

The verdict is a choice here; Detection has how it comes about.

A behaviour is one life of the process. `waf.db` outlives it and all else starts anew, so
`Init` takes the table as an earlier life may have left it at any moment: rows from
`LeftRows` (empty, or counted, banned, lapsed, permanent; also at the threshold without a
ban, after a death between the two transactions of a penalty) that satisfy `Leavable`. That
this is what a life leaves is not assumed but proved (`ProxyLeavesAStart`: every reachable
state satisfies `Leavable`), so what holds of one life holds of each. Histories: `inherited`
is the count a life started with, `struck` the time at which a violation last had the client
banned, `admin_banned`, `ban_missed` and `muted` what excuses a ban, its absence, and a gap
in the in-memory history. `HistoryCoversLife` compares memory with what *this* life counted:
the history page does not know more after a restart. `OffendersAreStopped` speaks of the shortest ban
duration from the violation on and says nothing of what comes after a ban.

**LiveView** composes the log with the page that shows it. The server's side is `Log`
(deque, then socket, then the INSERT that may raise), `Seed` and `SeedRaises` (the samples,
complete or cut short), `Serve` (one SELECT by offset), `Connect`, `Disconnect` and
`Restart`; the page's side is `StartReset` (the timer), `LoadMore`, `Arrive`, `FetchFails`,
`Receive` and `Clear`. A fetch is *sent*, *answered* by the server and *arrives*, so two of
them may overtake each other, and anything may happen in between. Histories: `mark` is the
size of the table when the last reset was answered, `disturbed` tells what came in between
since that reset began: fetches that overlapped; a loss (the socket was down or broke, the
server restarted, the reset failed, the list was cleared, or an entry arrived while the
reset was under way and is overwritten by its answer); a live entry. The properties of an
undisturbed page name which of these they exclude; of a disturbed one `PageCatchesUp` alone
speaks. Two facts of the code shape the model: the
`except` in `broadcast_update` is never reached, since `create_task` does not raise, and
seeded samples are not broadcast.

**RedisMirror** has the hash that Redis keeps per client, the table's row, and the calls of
the ban and unban endpoints, each in the phase `hset`, `expire`, `del` or `table` that it
awaits next. HSET keeps a TTL, EXPIRE ignores a missing key, a key past its TTL is gone.
Requests meanwhile penalise, which only the table learns: they count a violation at every
block and ban at *or above* the threshold, again and over whatever ban is there if they
passed their lookup before it. And they look up, which may delete or raise. Two histories
keep apart what the copies may differ for: `alone` (no other call for that client
overlapped) and `apart`, the causes since the last undisturbed call. `CopiesAgree` has two
directions with their own causes. Redis lists a client the table does not refuse only after
one of `Overstates`: a ban that failed half way, calls of different kinds that crossed, a call
of a process without Redis, a ban that violations shortened. The table refuses a client of
which Redis has no entry only after one of `Understates`: an unban that failed half way, crossed calls,
a call without Redis, a ban for violations. None of the eight can be left out: without any
one of them TLC finds the property violated. So a failed unban never leaves Redis listing
too much, a failed ban never too little, calls of one kind never part the copies, and
whatever has parted them, the next undisturbed call brings them together. `Restart` ends the
process wherever its calls are (each then counts as failed): hash and table outlive it, and
the next process may or may not reach Redis.

**AutoSignatures** has the list of rules, the file (missing, torn, or whole), and the list as
each open page shows it. Every handler is one step with three endings: saved, the save
raised (with the old file or a torn one), or the process died after the truncation. A death
in a save or between two (`Stop`) leaves no process and no rules in memory until `Start`
reads the file. Histories: `kept` are the rules as the last change that *ended* left them,
which is what they are compared with; `reviewed` the patterns with a verdict; `cut` says
that the last save was cut short (raised or died in), `lost` that a process has since started
without those rules; `valid` are the pages since whose loading no rule went away. `cut` and
`lost` are the exceptions of `RulesAreSaved` and `ReviewSticks`: after a cut save a start may
lose every rule and review, which is what the code does; nothing else may. Pages send indices.

**ConnectionPool** has the pool's queue of connections, the rows each connection has
written but not committed (`dirty`), the committed rows (`table`) and where each task is.
Opening, taking, executing, committing, failing, cancelling and giving back are single
actions, because each await is a place where others run. The write lock is SQLite's:
one connection at a time. A cancelled task does *not* roll back, since `CancelledError`
is not an `Exception`; one that is cancelled while it awaits the rollback of a statement that
raised has it done all the same (`CancelRollback`).

**AsyncDatabase** adds the batch writer (`loop`, `batch`, `queue`; `lost` is the batch that
went with a writer whose flush raised), the lifespan handler
(`main`: starting, serving, awaiting, closing, closed or raised) and clients with a
transaction each. In the program as it stands only the lifespan handler and reading pages
use this class - `request_log.py` writes through the synchronous one - so the logs and
the writing clients of the model are those of its API, as `tests/test_async_database.py`
uses it.

**Lists** are Python's list idioms: `Kept` is a comprehension with a condition, `Total` is
`sum`, `Latest` the slice `list[-n:]` (and what a `deque(maxlen=n)` holds). They go through
a list element after element, as recursive functions, so that they can be proved about
(section 5).

**ThreatScorer** computes verdict and level from votes in exact integers: confidences in
percent, weights in halves, levels 0..4, the 90th percentile in tenths, rounded half to
even like Python's `round`.

**Matchers** are the two strategies without memory: from what a request meets (a set of
matches `<<kind, number>>`, the kind a category of patterns or a header rule) and the
switches in the settings to the vote. **ZeroDayDetector** keeps the last `BaselineWindow` requests and compares a request
with their mean and standard deviation in three features. The code computes in floating
point; the model squares both sides and stays in exact integers. The three lists of the
code are appended to and cut together, so one list of requests stands for them.

**Traffic** holds the clock and the history of analysed requests; **BehaviorTracker** and
**DDoSProtector** keep what the other two stateful strategies keep, and vote. **WAFConfig**
has the strategies' section, the switches of single checks, the list the proxy runs, and
the three endpoints; one variable `enabled` stands for the section of the settings *and*
of the defaults, because the program shares that object. **Detection** composes them:
`Judge` is the whole evaluation of a request (the strategies' `await`s never suspend),
`Admin` the endpoints. Every vote follows from request, switches and trackers; only
whether a rhythm looks automated is a choice. The `verdict` is what the votes of the last
request aggregate to.

The assumptions on constants are named where the constants are declared. Most say that
a bound is a number. Those with content come from the code: the limiter's windows are no
shorter than `MinWindow` and its limits no larger than `MaxLimit`; the history of the
in-memory blacklist (`MemHistory`, 20) is long enough for its threshold; `Order`, the
strategies in the order of `strategy_map`, names none twice, and the defaults are
among them; a flood window is not empty; the anomaly window (200)
holds the samples that are asked for (20); `Deviation`, in quarters of a standard deviation
(10, for 2.5), is even and at most 18, so that one and a half times as much is a whole number
of quarters and the confidence made of it stays under the code's cap of 0.95.

MCRateLimiter, MCWAFProxy, MCAsyncDatabase, MCRedisMirror, MCAutoSignatures and
MCDetection give the constants small values; LiveView needs no values that a
configuration cannot write down.

Definitions named `X_Something`, marked "Mutant" and placed before `X`, are plausible bugs
of `X`: replacing `X` by one must violate the property it is listed with in
`PROJECT.json`. They play no part in any specification.

## 3. Runs

| Run | Question | Bounds |
|---|---|---|
| `limiter_changing` | Does the window guarantee hold when settings change and pages clean up? Has every client that is refused used its own quota up? | 2 clients, 2 settings, 5 checks, clock 0..5 (two full windows) |
| `proxy_admin` | Do bans, counts, histories and accounts stay consistent when endpoints, refused deletions and a failure hit requests in flight? | 1 client, 3 requests in flight, 2 administrative changes, 1 failure, clock 0..3, longer than both ban durations; thresholds 1 and 2; an empty table or one of 4 rows left by an earlier life |
| `proxy_limits` | Is the composed pipeline still exactly the sliding window, and do the accounts balance? | 2 clients, 3 requests, quota 2 in 2, limit switched off and on once |
| `proxy_permanent` | Does a permanent ban stay until an administrator acts? **No** | 1 client, 1 change |
| `proxy_lapsed` | Is a client served again when its temporary ban is over? **No** | 1 client |
| `async_service` | Are connections and logs neither shared, lost nor doubled, but for the batch of a writer that dies? Is everyone served, does `close()` end, and what may it lose? | 2 clients, 2 logs, 2 connections for 4 tasks, 2 failures, close at any moment |
| `async_dies` | Does a queued log reach the table, whatever failed before? **No** | 1 failure |
| `redis_copies` | Do the two copies of the blacklist agree, in both directions, but for the named causes, and do temporary bans fade, restarts included? | 1 client, 3 calls, clock 0..4 (ban of 2, automatic ban of 1), threshold 2 and 3 violations (one above it), 1 Redis failure, 2 restarts (into a process without Redis and back) |
| `signatures_review` | Are rules unique, saved, finally reviewed, and indices stable until a rule goes away? | 3 patterns, 2 pages, 5 changes, 3 mishaps (a save cut short, a death, and a second of either) |
| `detection` | Do trimmed trackers and the anomaly window judge as the whole history would? Do votes give the right verdict and level? Does the proxy run what the settings enable? | 2 clients, 4 requests, 2 paths, thresholds of one, anomaly window 3, clock 0..2, 2 changes of settings, one switch |
| `detection_reset` | Does a reset bring the default strategies back? **No** | 1 request, 2 changes |
| `live_page` | Does a page that is not disturbed show exactly the log, and does every page recover? Do memory and file agree? | 0 or 2 old rows, batches of 2, deque of 2, 2 samples, 2 fetches at a time, 2 calls, 1 failure |

The bounds are chosen so that each threshold can be met, exceeded and left again: three
requests against thresholds of one or two, clocks that outlast every window and ban, one
more task than connections, two failures against two connections. But for the write lock,
all state in RedisMirror is per client, and its invariant is proved client by client, so one
client is enough there. Elsewhere more of the same (a
third client, a fourth request) only adds copies of interactions that two already have:
state is per client except for the global flood counter, the metrics and the settings.
In `live_page` two calls suffice for a table longer than two batches (one real entry, two
samples, two old rows) and for a deque that drops something; the page itself is unbounded.
`CHECK_DEADLOCK FALSE` appears in all other runs because their instances come to rest when
requests are answered and bounds used up; the real server waits for the next request. In
`live_page` the timer goes on for ever and deadlock is checked.
Symmetry is used over requests and clients in runs without liveness only.

Time is a counter in ticks. In WAFProxy and Detection an action takes no time; the clock
moves between actions. It does not step back (the program uses `time.time()`, which may).

### What the violated runs show

- `proxy_lapsed`: once a client has violations, the lookup after its temporary ban is over
  tries to delete a row that the violations refer to. The DELETE raises, the client is
  answered 500 instead of being served, and it stays that way; an unban fails likewise.
  `tests/test_blacklist_db.py` expires rows without violations only.
- `proxy_permanent`: a request that was past its lookup when an administrator banned its
  client permanently re-bans it when its own verdict is a block at the threshold, and
  `blacklist_ban` overwrites the permanent ban with a temporary one.
- `async_dies`: the batch writer catches only timeout and cancellation, so the first flush
  that raises ends it, its batch is lost with it, and nothing queued later is ever written.
- `detection_reset`: `dict(DEFAULT_CONFIG)` shares the nested sections, so resetting the
  settings restores what is already there.

More differences were met while modelling and have no run of their own: whitelisted
clients skip the blacklist and the limiter but not the analysis (`report/waf_report.md:236`:
"bypass all detection"); `close()` of the asynchronous database during a flush cancels a
statement without rollback, and the flush repeated in the handler then fails on that lock
(the model's `raised` outcome of `main`); README and report promise an automatic fallback
when Redis is unavailable, which exists at startup only - a command that raises later ends
the endpoint before the table is written (`RedisRaises` in RedisMirror); a click on a stale page of generated signatures
hits whatever rule has that index by then.

## 4. Fairness

`AsyncDatabase` and `LiveView` have liveness properties.

*AsyncDatabase.* Weak fairness on the lifespan handler, the
writer and clients *inside* a transaction: a statement that is submitted to SQLite ends, by
success or by the busy timeout of 5 s. Strong fairness on taking a connection and on
getting the write lock: `asyncio.Queue` wakes its waiters in the order in which they came,
and SQLite's busy handler retries until the timeout. Nothing makes a client begin, a log
arrive, or `close()` be called. The web server calls `close()` after it has drained the
requests, so clients are idle then.

*LiveView.* Strong fairness on the timer's `StartReset`: `setInterval` fires whether or not
other fetches are under way; it is only the bound `Slots` that makes it wait. Weak fairness
on the server's answer and its arrival, on delivery and on connecting: the page retries
every three seconds for ever. Nothing makes requests, clicks or failures happen. With
finitely many failures `PageCatchesUp` says that the page shows the newest rows again and
again, not that it stays so between two resets.

The pipeline has no liveness property: no step of a handler is ever disabled by another
one, so that each request is answered says no more than that steps are taken.

## 5. Theorems

Every safety invariant and every action property that a passing run checks is also
proved, for all constants that satisfy the named assumptions: any clients and paths, any
number of requests, logs, connections, calls and failures, any windows and thresholds.
Seven modules hold the theorems, one per specification, and `Lists_proofs` the lemmas on
lists they share.

| Theorem | Property |
|---|---|
| `LimiterTypeCorrect`, `ProxyTypeCorrect`, `MirrorTypeCorrect`, `DatabaseTypeCorrect`, `SignaturesTypeCorrect`, `LiveTypeCorrect`, `DetectionTypes` | type invariants |
| `LimiterWindow`, `ProxyWindow` | no client gets more than the largest limit through in the shortest window |
| `LimiterRefusal`, `ProxyRefusal` | a client answered 429 had a full quota of its own admitted in the window |
| `LimiterIsExact`, `ProxyIsExact` | with one setting the limiter, alone and inside the pipeline, implements `SlidingWindow` |
| `ProxyBansOffenders` | a client over every threshold is banned, unless that write failed |
| `ProxyBansWithCause` | no ban without an administrator or the violations |
| `ProxyBansEnd` | no temporary ban reaches further than the longest duration |
| `ProxyHistoryCovers` | the in-memory history does not fall behind what the table counted in this life of the process |
| `ProxyKeepsViolations` | no step lowers the count of violations of a client |
| `ProxyStopsOffenders` | after a violation that had a client banned, none of its later requests is analysed for the shortest ban duration, where the blacklist applies and unless it is unbanned |
| `ProxyLeavesAStart` | whenever a process dies, its table is one that `Init` provides for |
| `ProxyBooksBalance` | the metrics add up with the outcomes of the requests and with the log |
| `BansFade` | a temporary ban that Redis shows has a TTL, is about to get one, or a command failed |
| `PagesTellTheTruth` | Redis lists only clients that the table refuses, and has an entry of each that it refuses, unless one of the causes named for that direction set the copies apart |
| `ConnectionsStayInOnePlace` | a connection is held by one task, waits in the pool, or is closed |
| `ServingIsClean` | no connection waits in the pool with an open transaction while the database serves |
| `LogsStayAccounted` | before `close()` no log is doubled, and none lost but with the batch of a flush that SQLite made fail; `close()` doubles at most the batch it cancelled |
| `OneRulePerPattern`, `RulesComeBack`, `IndicesNameRules`, `ReviewsAreFinal` | rules are unique; the next process has them all unless a save was cut short; they are rightly addressed while none goes away; and a review holds until its rule is deleted or rules were lost |
| `SettingsTake` | the proxy runs exactly the strategies that are enabled, after a toggle or a reset |
| `VerdictIsDecided` | a request is blocked exactly when some strategy says so, with a level that its votes have earned |
| `FloodersAreOut`, `AlarmsAreRight`, `AnomaliesAreRight` | the trimmed trackers judge as the whole history would |
| `TrackersAgree` | the invariant behind these: what each tracker's list keeps of the history |
| `MemoryIsTheTail` | the deque, without entries whose INSERT raised, is the end of the table |
| `PagingSkipsNothing`, `PageStaysExact` | what a page shows on which no fetches overlapped (and, for the second, nothing was added or pushed) |
| `PageMissesNothing` | every request logged since a reset was answered is on the page or on the wire, if since that reset began the socket was up, no fetches overlapped, no reset failed, the list was not cleared, and no entry arrived while the reset was under way |

*Limiter.* `WindowGuarantee` is not inductive: it speaks of admissions, the code decides
on the log. `LimiterInv` adds that entries are numbered below `allowed_count` (so an
admission is new), that every logged entry is an admission (`LogIsSound`), and that the
log holds every admission younger than the shortest window (`LogIsComplete(MinWindow)`):
whatever window the last cleanup used, it was at least that long. An admission then adds
one to a window that the log bounds below the limit. For the refinement the same
completeness is used with the one window there is, so that the live log and the abstract
count agree.

*Pipeline.* `NextIsLimiterStep` shows that every step of the pipeline is, to the limiter,
a step `RLStep` or a stutter, so the limiter's invariant carries over unchanged, and so
does its refinement of `SlidingWindow` (`ExactStep`).
`NextIsStoreChange` reduces all actions to a few changes of the two stores of a client
(lookup, penalty, endpoint, nothing), and `StoreInvStep` proves the strengthened invariant
for each. Its parts are `Leavable`, which is more than cause and bound of a ban (a ban column
left on a missing row would come alive with the next violation) and which `Init` shares, so
that a life may start wherever another ended; `MemoryCovers`, that the in-memory count is at
least what this life counted or at its cap; and `StruckHolds`, that after a violation that had
a client banned the row bans it until one of the durations in use has passed. A re-ban only starts
the span anew, an administrator's ban and an unban void it. `OffendersAreStopped` follows
from this in the state before a request starts to be read. The books (`BooksInv`) add to `MetricsBalance`
that a request under way has been given nothing yet (`NothingYet`): the step that counts
it then makes a set of requests larger by exactly one.

*Redis copy.* Neither property is inductive: both speak of what calls leave behind, not of
what they are doing. `MirrorInv` adds what the calls under way have achieved so far
(`HashIsTheirs`): a call that reaches the table undisturbed finds in Redis what it put
there, except that a temporary ban may have lost its TTL to another ban whose EXPIRE is
still to come. For that it needs that a call that counts as alone is alone (`AloneIsAlone`),
that overlapping calls are of one kind as long as nothing set the copies apart (`OneKind`),
and that no TTL outlasts a ban given now (`TTLIsBounded`). `CopiesAgree` then says, also
during calls, that the row covers what the hash shows or that a call is about to write the
row; a lookup deletes a row only when the hash has faded with it (`LookUpKeepsInv`), and a
restart marks every client whose call it cuts off. The invariant is one of each client
(`ClientInv`), and a step leaves all clients alone but one (`Untouched`). For the other
direction `HashIsThere` and `BannedIsThere` say that a banned client has an entry, shown or
run out, or a call is about to write or erase the row. `CallEnds` and `OutsideKeepsCalls` hold
what the ending steps and the steps outside calls have in common.

*Asynchronous database.* `PoolInv` is about connections alone: a task holds one in exactly
four phases, what has not been opened is nowhere, and everything opened is in one place.
It holds whatever the tasks do, in any order, so its proof (`PoolStep`) knows nothing of
writer and handler. `Control` ties the phases of handler, writer and clients together:
who can be where when. With both, `DirtyFits` says that before `close()` uncommitted rows
belong to a task that is about to commit them - this is where cancellation matters, since a
cancelled task leaves its rows behind - and `LogsInOnePlace` counts each log exactly once
among queue, the writer's unwritten batch, what was lost with it, and table; `Blamed` that
a batch is lost only after a failure. When `close()` has cancelled a flush and repeats it, `Again`
says what the first attempt may have left: nothing, rows on one connection that keeps the lock, or
committed rows, each at most once; so the second makes at most two (`LogsWritten`).

*Signatures.* Analysis only extends the list (`Continues`), which the loop over the found
patterns needs by induction on their number. `SignaturesInv` speaks of `kept`, the list
as the last change left it: a running process has it in memory, the file has it unless a save
was cut short, pages and reviews fit it. Whatever can be read from the file, old, new or torn, is a list
without duplicate patterns, so a start satisfies the invariant like a change.

*Live view.* `LiveInv` says of a fetch under way what the properties say of its end: the
rows in an answer are those of the table of an earlier, known length (`AnswerFits`), only
one fetch is under way unless an overlap is noted (`OneFetch`), what was on the page when it
was sent still is, and what is logged after a reset was answered is on the wire until the
answer arrives. Each step either leaves the table alone or adds rows at its end
(`TableGrows`), so answers stay true although offsets count from the other end.
`MemoryInv` is about the server only: entries in the deque are numbered below what was made,
so a failing INSERT never disowns an older one, and the deque, filtered, is the end of the
table. A step adds the same entries to both (`EntriesAdded`); that dropping the oldest keeps
this true is `KeptLatest`.

*Detection.* `DetectionInv` relates each tracker to the history of requests. `SettingsInv`:
the running list is a selection of the strategies in their order, and a strategy is in it
exactly when it is enabled, unless the last change to it was an update without a reload.
`CountsInv`: on the window a list is trimmed to, and on every later one, it counts what the
history counts (`Agrees`) - that it must hold for *later* windows too is what makes it
inductive, because the clock moves on before the next trimming. `LockoutsInv`: a client is
locked out exactly as long as one of its floods is no older than the lock-out. `PathsInv`: the lists
of paths are the paths at the last places of the history where that strategy looked, in order. The alarms
then follow by counting, and the anomalies by algebra: the model compares sums of squares
over the kept list, the property squared distances from the mean over the history, and
`TotalSquares` and `SumInOrder` lead from one to the other. `VotesInv` says of every vote that one
which blocks is more than half sure and sees some threat. The weighted mean over such votes
then passes the threshold whatever their weights (`BlockingVotes`), and the percentile of
their levels, rounded, is neither above the worst of them nor, with at most five votes, ever
rounded down to none (`Aggregated`).

*Lists.* What a recursive definition computes for every list needs induction, and the
library's induction theorems take an operator, which the provers cannot instantiate. `Induction` in `Lists_proofs`
is the same fact about a *set* of numbers, from the well-foundedness of < (`WFMin`): a least
counterexample. On it rest `Recursion` (a function with these equations exists), `ListInduction`
(a set of lists closed under `Append` has all lists), and with them the equations of `Kept`
and `Total`, and how filters, sums and slices act on each other.

The theorems need no assumption beyond the named ones, except that `LimiterIsExact` and
`ProxyIsExact` are about a single setting, where alone the abstract rule has a meaning.

## 6. Model-checked only

- *Liveness*: `ClientsServed`, `QuietLogsReachTheTable`, `CloseComesToAnEnd` and
  `PageCatchesUp`. Their proofs would need fairness and ENABLED, which the provers do not
  support.
- *The violated properties*, which are false: `PermanentBanStays`, `BansEnd`,
  `LogsReachTheTable`, `ResetRestoresDefaults`. TLC shows the steps that lead there.

The theorems are about the models. That a model is the code's is argued by reading: every
definition is mapped to its lines in `PROJECT.json`, and mutants of the definitions, each a
plausible bug, are shown to break the properties.

## 7. Not modelled

- *AI agents.* `_setup_agents` (`proxy.py:45`) asks whether a strategy called `ai_engine`
  is enabled; the settings have no such strategy when the proxy is made, and it is not
  called again. So no agent votes, and every block carries a pattern and counts as a
  violation.
- *Regular expressions, entropy and rhythm detection*: text and floating point. Which
  patterns and rules a request meets and whether its entropy is high is part of the
  request; whether a rhythm looks automated is a choice.
- *Custom patterns and approved generated signatures* are stored but read by no strategy.
- *ML model, TLS, data models, the charts and forms of the page*: see `PROJECT.json`, "components".
- *Methods nobody calls*: `reset_ip`, `remove_whitelist`, `cleanup_expired`,
  `rate_limit_update`, `cleanup_old_logs`; in `redis_cache.py` `is_blocked`,
  `add_violation`, the rate limits and `get_all`/`set`/`get_value`.
- *A strategy that raises* (`proxy.py:118-122`): the exception is logged, the strategy casts
  no vote, and the others decide. In Detection every strategy that runs votes, so its
  properties speak of analyses in which none raises. The settings can make one raise:
  the update endpoint stores values of any type, and `header_validation` compares with
  `max_headers`. The limits on headers are not settings in the model.
- *Process crashes* as steps of the pipeline. Its modules follow one life of the process;
  the crash is in `Init`, which starts on any table a life may leave. Limiter, trackers and
  settings are in memory only and start anew, so the limiter's guarantee and the histories
  are of one life too. Where a crash meets steps of a longer protocol (the Redis copy, the signature
  file, the page's socket) it is an action.
- *Clocks that step back* and *Retry-After* in fractions of a second.
- *A second `initialize()`* and calls to the asynchronous database after `close()`.

## 8. Plan

Done: the limiter with its refinement, the pipeline with both blacklists, the asynchronous
database, detection with settings, matchers and the anomaly detector, the Redis copy with
restarts, generated signatures, the log with the page that follows it, and the proofs of
all their safety properties.

1. An abstract specification of the asynchronous database (logs that are accepted and
   become durable), with the refinement proved step by step from `DatabaseInv`.
2. One of the blacklist as a client sees it (served, refused until, refused for good), with
   the lapses of `proxy_lapsed` and `proxy_permanent` as its named exceptions.
3. Shorter proofs where one lemma could serve several modules: `Concat` and `Sizes` in LiveView,
   the induction over found patterns in AutoSignatures by `ListInduction`.
