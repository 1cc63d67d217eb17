------------------------------ MODULE Traffic ------------------------------
(***************************************************************************)
(* The requests that reach the analysis, as the trackers of the strategies  *)
(* see them: who asked for what, when, and which strategies looked at it.   *)
(* A request is evaluated by one strategy after the other without a real    *)
(* suspension, so to the trackers it is one instant.                        *)
(***************************************************************************)
EXTENDS Lists, SequencesExt

CONSTANTS
    IPs,            \* client addresses
    Paths,          \* request paths
    MaxTime,        \* bound: the clock stops here
    MaxRequests     \* bound: requests analysed

ASSUME TrafficAssumption == MaxTime \in Nat /\ MaxRequests \in Nat

VARIABLES
    now,            \* time.time()
    seen            \* history: every request analysed

Strategies == {"signature", "behavior", "header_validation", "zero_day", "ddos_protection"}

Request == [ip : IPs, path : Paths, at : 0..MaxTime, by : SUBSET Strategies]

\* The requests a strategy looked at: their places in the history.
SeenBy(s) == {i \in 1..Len(seen) : s \in seen[i].by}

\* The requests strategy s saw in the window of length w that ends with the
\* i-th request.
InWindow(s, i, w) ==
    {j \in SeenBy(s) : j <= i /\ seen[i].at - seen[j].at < w}

OfClient(places, ip) == {j \in places : seen[j].ip = ip}

=============================================================================
