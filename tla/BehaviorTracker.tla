-------------------------- MODULE BehaviorTracker --------------------------
(***************************************************************************)
(* The behavioural strategy (strategies/behavior.py): a profile per client  *)
(* of its last paths and recent request times. The tracker is a module-     *)
(* level object: it outlives the strategy instance that a reload replaces.  *)
(***************************************************************************)
EXTENDS Traffic, ThreatScorer

CONSTANTS
    Suspicious,     \* SUSPICIOUS_PATHS
    Traced,         \* paths that are asked for with the method TRACE
    RateWindow,     \* RATE_WINDOW, 60 s
    RateLimit,      \* RATE_LIMIT_THRESHOLD, 100
    KeepLast,       \* paths remembered per client, 50
    ScanThreshold,  \* SCANNING_PATH_THRESHOLD, 10
    BotMinimum      \* times needed to see a rhythm, 5

ASSUME BehaviorAssumption == {RateWindow, RateLimit, KeepLast, ScanThreshold, BotMinimum} \subseteq Nat

VARIABLES
    visits,         \* _requests: the last paths of each client
    rates,          \* _ip_rates: its request times within the window
    stamps          \* _ip_timestamps: how many times, never trimmed

behaviorVars == <<visits, rates, stamps>>

BehaviorInit ==
    /\ visits = [ip \in IPs |-> <<>>]
    /\ rates = [ip \in IPs |-> <<>>]
    /\ stamps = [ip \in IPs |-> 0]

\* The times that still count.
Fresh == {t \in Int : now - t < RateWindow}

\* Mutant: one path too few is remembered.
Track_ForgetsOne(ip, path) ==
    /\ visits' = [visits EXCEPT ![ip] = Latest(Append(@, path), KeepLast - 1)]
    /\ rates' = [rates EXCEPT ![ip] = Kept(Append(@, now), Fresh)]
    /\ stamps' = [stamps EXCEPT ![ip] = @ + 1]

\* Mutant: the paths are not trimmed.
Track_Untrimmed(ip, path) ==
    /\ visits' = [visits EXCEPT ![ip] = Append(@, path)]
    /\ rates' = [rates EXCEPT ![ip] = Kept(Append(@, now), Fresh)]
    /\ stamps' = [stamps EXCEPT ![ip] = @ + 1]

\* track_request
Track(ip, path) ==
    /\ visits' = [visits EXCEPT ![ip] = Latest(Append(@, path), KeepLast)]
    /\ rates' = [rates EXCEPT ![ip] = Kept(Append(@, now), Fresh)]
    /\ stamps' = [stamps EXCEPT ![ip] = @ + 1]

AlarmLevel(alarm) ==
    CASE alarm = "trace" -> Low
      [] alarm = "path" -> Medium
      [] OTHER -> High

\* What evaluate() finds in the profile, the request included.
FoundAlarms(ip, path, visited, times) ==
    {a \in {"rate", "path", "scan", "trace"} :
        \/ a = "rate" /\ Len(Kept(times, Fresh)) > RateLimit
        \/ a = "path" /\ path \in Suspicious
        \/ a = "scan" /\ Cardinality(ToSet(visited)) > ScanThreshold
        \/ a = "trace" /\ path \in Traced}

\* What it may find besides, from BotMinimum times on: an even rhythm, which is
\* a question of milliseconds.
PossibleAlarms(count) == IF count >= BotMinimum THEN {"bot"} ELSE {}

\* The vote for a set of alarms.
BehaviorVote(alarms) ==
    [block |-> alarms # {},
     level |-> Max({None} \cup {AlarmLevel(a) : a \in alarms}),
     confidence |-> IF alarms = {} THEN 85 ELSE Min({90, 50 + 10 * Cardinality(alarms)}),
     weight |-> 2]

BehaviorTypeOK ==
    /\ visits \in [IPs -> Seq(Paths)]
    /\ \A ip \in IPs : Len(visits[ip]) <= KeepLast
    /\ rates \in [IPs -> Seq(0..MaxTime)]
    /\ stamps \in [IPs -> Nat]

=============================================================================
