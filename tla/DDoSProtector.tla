--------------------------- MODULE DDoSProtector ---------------------------
(***************************************************************************)
(* The flood detector (DDoSProtector, strategies/zero_day_ddos.py): times   *)
(* of all requests and of each client's in a short window, and clients      *)
(* locked out for a while after a flood. Thresholds are counts per window.  *)
(*                                                                          *)
(* Left out: the alert on large payloads, which cannot fire, because        *)
(* body_preview holds at most 500 bytes and the alert wants 50000.          *)
(***************************************************************************)
EXTENDS Traffic, ThreatScorer

CONSTANTS
    FloodWindow,    \* _window_seconds, 10
    GlobalFlood,    \* _global_rps_threshold * window, 5000
    ClientFlood,    \* _ip_flood_threshold * window, 600
    BlockTime,      \* 300 s
    ManyClients     \* a distributed attack has more clients than this, 50

ASSUME DDoSAssumption ==
    /\ {FloodWindow, GlobalFlood, ClientFlood, BlockTime, ManyClients} \subseteq Nat
    /\ FloodWindow > 0

VARIABLES
    times,          \* _request_timestamps
    client_times,   \* _ip_timestamps; a missing key is the empty list
    blocked_until   \* _blocked_ips; a missing key is NotBlocked

ddosVars == <<times, client_times, blocked_until>>

NotBlocked == -1

DDoSInit ==
    /\ times = <<>>
    /\ client_times = [ip \in IPs |-> <<>>]
    /\ blocked_until = [ip \in IPs |-> NotBlocked]

\* _clean_old_entries
Recent(list) == Kept(list, {t \in Int : t > now - FloodWindow})

\* Mutant: the threshold itself is already too much.
Flooded_AtTheThreshold(ip, list, until) ==
    IF Len(list[ip]) >= ClientFlood THEN [until EXCEPT ![ip] = now + BlockTime] ELSE until

\* A client over its threshold is locked out from now on.
Flooded(ip, list, until) ==
    IF Len(list[ip]) > ClientFlood THEN [until EXCEPT ![ip] = now + BlockTime] ELSE until

\* analyze(), its effect: clean up, record, lock out.
Record(ip) ==
    /\ times' = Append(Recent(times), now)
    /\ client_times' = [c \in IPs |-> IF c = ip THEN Append(Recent(client_times[c]), now)
                                      ELSE Recent(client_times[c])]
    /\ blocked_until' = Flooded(ip, client_times',
                                [c \in IPs |-> IF now > blocked_until[c] THEN NotBlocked
                                               ELSE blocked_until[c]])

\* analyze(), its alerts, from the lists after the record.
Alerts(ip, all, list, until) ==
    {a \in {"global", "client", "blocked", "distributed"} :
        \/ a = "global" /\ Len(all) > GlobalFlood
        \/ a = "client" /\ Len(list[ip]) > ClientFlood
        \/ a = "blocked" /\ until[ip] # NotBlocked
        \/ /\ a = "distributed"
           /\ Cardinality({c \in IPs : list[c] # <<>>}) > ManyClients
           /\ 2 * Len(all) > GlobalFlood}

AlertScore(a) == CASE a = "global" -> 90 [] a = "client" -> 85 [] OTHER -> 95

DDoSVote(alerts) ==
    LET score == Max({0} \cup {AlertScore(a) : a \in alerts})
    IN  [block |-> score > 70,
         level |-> IF score > 90 THEN Critical ELSE IF score > 80 THEN High
                   ELSE IF score > 70 THEN Medium ELSE None,
         confidence |-> score,
         weight |-> 2]

DDoSTypeOK ==
    /\ times \in Seq(0..MaxTime)
    /\ client_times \in [IPs -> Seq(0..MaxTime)]
    /\ blocked_until \in [IPs -> Nat \cup {NotBlocked}]

=============================================================================
