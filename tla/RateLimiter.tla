---------------------------- MODULE RateLimiter ----------------------------
(***************************************************************************)
(* The in-memory sliding-window rate limiter (strategies/rate_limiter.py)   *)
(* as WAFProxy.check_rate_limit drives it: the configured limit is copied   *)
(* into the limiter on every check, expired entries of the client are       *)
(* dropped, and the request is then either refused, leaving no trace, or    *)
(* admitted and remembered with its time.                                   *)
(*                                                                          *)
(* A log entry is [ip, at, id]. The code keeps a list of times; here id     *)
(* tells apart two requests of the same instant, which a list does by their *)
(* places.                                                                  *)
(***************************************************************************)
EXTENDS Integers, FiniteSets

CONSTANTS
    IPs,            \* client addresses
    Limits,         \* the rate_limiting settings in use, as [max, window]
    DefaultLimit,   \* the arguments of the module-level RateLimiter(...)
    MinWindow,      \* no setting has a shorter window ...
    MaxLimit,       \* ... or allows more requests
    MaxTime,        \* bound: the clock stops here
    MaxChecks       \* bound: checks made when the limiter runs on its own

ASSUME LimitsAssumption ==
    /\ Limits \subseteq [max : Nat, window : Nat]
    /\ DefaultLimit \in Limits
    /\ MinWindow \in Nat
    /\ MaxLimit \in Nat
    /\ \A l \in Limits : MinWindow <= l.window /\ l.max <= MaxLimit

ASSUME BoundsAssumption == MaxTime \in Nat /\ MaxChecks \in Nat

VARIABLES
    now,            \* time.time()
    limit,          \* _max_requests and _window_seconds
    requests,       \* _requests; a missing key is the empty log
    blocked_count,  \* _blocked_count
    allowed_count,  \* _allowed_count
    admitted,       \* history: the entry of every admission ever made
    refusals        \* history: how often each client was refused

limiterVars == <<limit, requests, blocked_count, allowed_count, admitted, refusals>>
rlVars == <<now, limiterVars>>

-----------------------------------------------------------------------------
\* Mutants: plausible bugs, each caught by a property below.
\* The cleanup drops an entry one tick early.
Live_OneTickEarly(ip, window) == {q \in requests[ip] : now - q.at + 1 < window}

\* The entry of a request admitted now.
Entry(ip) == [ip |-> ip, at |-> now, id |-> allowed_count]

\* What _cleanup_old_requests keeps of a client's log.
Live(ip, window) == {q \in requests[ip] : now - q.at < window}

LimiterInit ==
    /\ limit = DefaultLimit
    /\ requests = [ip \in IPs |-> {}]
    /\ blocked_count = 0
    /\ allowed_count = 0
    /\ admitted = {}
    /\ refusals = [ip \in IPs |-> 0]

\* Mutant: the log is not kept by client; somebody else's requests count too.
Refuse_AnyLog(ip, l) ==
    /\ \E client \in IPs : Cardinality(Live(client, l.window)) >= l.max
    /\ limit' = l
    /\ requests' = [requests EXCEPT ![ip] = Live(ip, l.window)]
    /\ blocked_count' = blocked_count + 1
    /\ refusals' = [refusals EXCEPT ![ip] = @ + 1]
    /\ UNCHANGED <<allowed_count, admitted>>

\* Mutant: a refusal takes back an admission from the counters.
Refuse_TakesBack(ip, l) ==
    /\ Cardinality(Live(ip, l.window)) >= l.max
    /\ limit' = l
    /\ requests' = [requests EXCEPT ![ip] = Live(ip, l.window)]
    /\ blocked_count' = blocked_count + 1
    /\ allowed_count' = allowed_count - 2
    /\ refusals' = [refusals EXCEPT ![ip] = @ + 1]
    /\ UNCHANGED admitted

\* is_rate_limited finds the window full: counted, not recorded.
Refuse(ip, l) ==
    /\ Cardinality(Live(ip, l.window)) >= l.max
    /\ limit' = l
    /\ requests' = [requests EXCEPT ![ip] = Live(ip, l.window)]
    /\ blocked_count' = blocked_count + 1
    /\ refusals' = [refusals EXCEPT ![ip] = @ + 1]
    /\ UNCHANGED <<allowed_count, admitted>>

\* is_rate_limited finds room: the request joins the log.
Admit(ip, l) ==
    /\ Cardinality(Live(ip, l.window)) < l.max
    /\ limit' = l
    /\ requests' = [requests EXCEPT ![ip] =
                        Live(ip, l.window) \cup {Entry(ip)}]
    /\ allowed_count' = allowed_count + 1
    /\ admitted' = admitted \cup {Entry(ip)}
    /\ UNCHANGED <<blocked_count, refusals>>

\* GET /security/rate-limits/{ip}: reading the count also cleans up, with the
\* window of the last check, not the configured one.
QueryCount(ip) ==
    /\ requests' = [requests EXCEPT ![ip] = Live(ip, limit.window)]
    /\ UNCHANGED <<limit, blocked_count, allowed_count, admitted, refusals>>

Tick ==
    /\ now < MaxTime
    /\ now' = now + 1

-----------------------------------------------------------------------------
\* What any user of the limiter may do with it.
RLInit == now = 0 /\ LimiterInit

RLStep ==
    \/ \E ip \in IPs :
        /\ UNCHANGED now
        /\ \/ \E l \in Limits : Refuse(ip, l) \/ Admit(ip, l)
           \/ QueryCount(ip)
    \/ Tick /\ UNCHANGED limiterVars

\* The limiter on its own, under any sequence of checks and settings.
RLNext == RLStep /\ blocked_count' + allowed_count' <= MaxChecks

RLSpec == RLInit /\ [][RLNext]_rlVars

-----------------------------------------------------------------------------
Entries == [ip : IPs, at : Nat, id : Nat]

RLTypeOK ==
    /\ now \in Nat
    /\ limit \in Limits
    /\ requests \in [IPs -> SUBSET Entries]
    /\ blocked_count \in Nat
    /\ allowed_count \in Nat
    /\ admitted \subseteq Entries
    /\ refusals \in [IPs -> Nat]

\* The admissions of a client in the window of length w that ends at t.
InWindow(ip, t, w) ==
    {a \in admitted : a.ip = ip /\ a.at <= t /\ t - a.at < w}

\* No client ever gets more than the largest limit through in any span as
\* short as the shortest configured window, whatever changes of setting and
\* dashboard queries (which also clean the log) come between the checks.
WindowGuarantee ==
    \A ip \in IPs : \A t \in 0..now : Cardinality(InWindow(ip, t, MinWindow)) <= MaxLimit

\* A 429 is deserved: whoever is refused had itself the full quota ADMITTED in
\* the window just ended. What other clients did, and its own requests that
\* were refused, do not count against it: a client that keeps trying gets back in.
RefusalDeserved ==
    [][\A ip \in IPs : refusals'[ip] > refusals[ip] =>
        Cardinality(InWindow(ip, now, limit'.window)) >= limit'.max]_rlVars

-----------------------------------------------------------------------------
\* If the setting never changes, the limiter is exactly the abstract window
\* rule: cleaning up loses nothing that a later decision needs.
AsWindow == INSTANCE SlidingWindow
    WITH Max <- DefaultLimit.max, Window <- DefaultLimit.window,
         refused <- blocked_count

ExactWindow == AsWindow!Spec

=============================================================================
