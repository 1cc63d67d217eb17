----------------------------- MODULE Detection -----------------------------
(***************************************************************************)
(* The analysis of a request (WAFProxy.analyze_request, proxy.py): every    *)
(* strategy in the list votes, and the votes become one verdict. Meanwhile  *)
(* the settings change. A strategy's vote follows from the request, its     *)
(* switches and what it has tracked; only whether a rhythm looks automated  *)
(* is a choice.                                                             *)
(*                                                                          *)
(* There are no AI agents: _setup_agents asks for a strategy "ai_engine",   *)
(* which the settings do not have when the proxy is made, and is not called *)
(* again.                                                                   *)
(***************************************************************************)
EXTENDS WAFConfig, BehaviorTracker, DDoSProtector, ZeroDayDetector, Matchers

CONSTANT Contents       \* what the signatures and the header rules find in a path's requests

ASSUME DetectionAssumption ==
    /\ Order \in Seq(Strategies)
    /\ UsedSwitches \subseteq Switches
    /\ \A p \in Paths : /\ IsFiniteSet(Contents[p])
                         /\ \A match \in Contents[p] : match[1] \in Categories \cup Findings

VARIABLE last           \* the analysis just done: its votes and alarms

detectionVars == <<configVars, behaviorVars, ddosVars, baseline, now, seen, last>>

-----------------------------------------------------------------------------
Nothing == [votes |-> <<>>, alarms |-> {}]

\* What analyze_request returns in the end: the votes, aggregated.
verdict == Verdict(last.votes)

DetectionInit ==
    /\ ConfigInit
    /\ BehaviorInit
    /\ DDoSInit
    /\ ZeroDayInit
    /\ now = 0
    /\ seen = <<>>
    /\ last = Nothing

Runs(s) == s \in ToSet(running)

\* The vote of each strategy on a request of this client. The trackers have
\* recorded it before they vote.
VoteOf(s, ip, path, alarms) ==
    CASE s = "signature" -> SignatureVote(Contents[path], off)
      [] s = "behavior" -> BehaviorVote(alarms)
      [] s = "header_validation" -> HeaderVote(Contents[path], off)
      [] s = "zero_day" -> ZeroDayVote(baseline', path)
      [] s = "ddos_protection" -> DDoSVote(Alerts(ip, times', client_times', blocked_until'))

Judge(ip, path) ==
    /\ Len(seen) < MaxRequests
    /\ seen' = Append(seen, [ip |-> ip, path |-> path, at |-> now, by |-> ToSet(running)])
    /\ IF Runs("behavior") THEN Track(ip, path) ELSE UNCHANGED behaviorVars
    /\ IF Runs("zero_day") THEN UpdateBaseline(path) ELSE UNCHANGED baseline
    /\ IF Runs("ddos_protection") THEN Record(ip) ELSE UNCHANGED ddosVars
    /\ \E extra \in SUBSET PossibleAlarms(stamps'[ip]) :
        LET alarms == FoundAlarms(ip, path, visits'[ip], rates'[ip]) \cup extra
        IN  /\ ~Runs("behavior") => extra = {}
            /\ last' = [votes |-> [i \in 1..Len(running) |-> VoteOf(running[i], ip, path, alarms)],
                        alarms |-> IF Runs("behavior") THEN alarms ELSE {}]
    /\ UNCHANGED <<configVars, now>>

\* What else happens puts the last analysis behind us. (Bounds: the clock starts
\* with the first request, and nothing happens after the last one.)
TimePasses ==
    /\ Len(seen) \in 1..MaxRequests - 1
    /\ now < MaxTime
    /\ now' = now + 1
    /\ last' = Nothing
    /\ UNCHANGED <<configVars, behaviorVars, ddosVars, baseline, seen>>

Admin ==
    /\ Len(seen) < MaxRequests
    /\ \/ \E s \in ToSet(Order), on \in BOOLEAN : UpdateConfig(s, on) \/ ToggleStrategy(s, on)
       \/ \E check \in UsedSwitches, on \in BOOLEAN : UpdateSwitch(check, on)
       \/ ResetConfig
    /\ last' = Nothing
    /\ UNCHANGED <<behaviorVars, ddosVars, baseline, now, seen>>

DetectionNext ==
    \/ \E ip \in IPs, path \in Paths : Judge(ip, path)
    \/ TimePasses
    \/ Admin

DetectionSpec == DetectionInit /\ [][DetectionNext]_detectionVars

-----------------------------------------------------------------------------
DetectionTypeOK ==
    /\ ConfigTypeOK
    /\ BehaviorTypeOK
    /\ DDoSTypeOK
    /\ ZeroDayTypeOK
    /\ now \in 0..MaxTime
    /\ seen \in Seq(Request)
    /\ last.votes \in Seq(Vote)
    /\ verdict \in [block : BOOLEAN, level : Levels]

\* The vote of a strategy that looked at the last request.
VoteIn(s) ==
    LET ran == Kept(Order, seen[Len(seen)].by)
    IN  last.votes[CHOOSE k \in 1..Len(ran) : ran[k] = s]

\* The values of these requests, added up.
SumOver(places, Value(_)) ==
    Total([i \in 1..Len(seen) |-> IF i \in places THEN Value(i) ELSE 0])

\* The verdict follows from the votes (_aggregate_results): the request is blocked
\* exactly when some strategy says so, however many say otherwise and however
\* sure they are; a blocked request is never reported as harmless, and none as
\* worse than its worst vote.
VerdictFollowsVotes ==
    LET worst == Max({None} \cup {last.votes[i].level : i \in 1..Len(last.votes)})
    IN  /\ verdict.block <=> \E i \in 1..Len(last.votes) : last.votes[i].block
        /\ verdict.level <= worst
        /\ verdict.block => verdict.level > None

\* The profile, trimmed as it is, raises the alarms the whole history would:
\* too fast in the window, too many paths among the client's last requests.
AlarmsMatchHistory ==
    LET n == Len(seen)
        mine == OfClient(SeenBy("behavior"), seen[n].ip)
        latest == {i \in mine : Cardinality({j \in mine : j > i}) < KeepLast}
    IN  last # Nothing /\ n \in SeenBy("behavior") =>
            /\ "rate" \in last.alarms <=>
                 Cardinality(OfClient(InWindow("behavior", n, RateWindow), seen[n].ip)) > RateLimit
            /\ "scan" \in last.alarms <=>
                 Cardinality({seen[i].path : i \in latest}) > ScanThreshold

\* The flood detector locks out a client for BlockTime after each request that
\* was one too many, and nobody else, except while everyone floods.
Floods(i) ==
    Cardinality(OfClient(InWindow("ddos_protection", i, FloodWindow), seen[i].ip)) > ClientFlood

FloodersStayOut ==
    LET n == Len(seen)
        all == InWindow("ddos_protection", n, FloodWindow)
    IN  last # Nothing /\ n \in SeenBy("ddos_protection") =>
            (VoteIn("ddos_protection").block <=>
                \/ \E i \in OfClient(SeenBy("ddos_protection"), seen[n].ip) :
                        Floods(i) /\ seen[n].at - seen[i].at <= BlockTime
                \/ Cardinality(all) > GlobalFlood
                \/ /\ Cardinality({seen[i].ip : i \in all}) > ManyClients
                   /\ 2 * Cardinality(all) > GlobalFlood)

\* The anomaly detector judges a request by the last BaselineWindow requests it
\* has seen, however often it was switched off and on: the sums it keeps give the
\* same as the squared distances from the mean, computed over the history.
ZeroDayMatchesHistory ==
    LET n == Len(seen)
        mine == SeenBy("zero_day")
        window == {i \in mine : Cardinality({j \in mine : j > i}) < BaselineWindow}
        size == Cardinality(window)
        value(i, f) == Features[seen[i].path][f]
        sum(f) == SumOver(window, LAMBDA i : value(i, f))
        far(f, t) ==
            16 * size * (size * value(n, f) - sum(f)) * (size * value(n, f) - sum(f))
                > t * t * SumOver(window, LAMBDA i :
                              (size * value(i, f) - sum(f)) * (size * value(i, f) - sum(f)))
        strange == Cardinality({f \in 1..3 : far(f, Deviation)})
                       + (IF seen[n].path \in HighEntropy THEN 1 ELSE 0)
    IN  last # Nothing /\ n \in mine =>
            (VoteIn("zero_day").block <=>
                /\ size >= MinSamples
                /\ strange >= 2 \/ \E f \in 1..3 : far(f, (3 * Deviation) \div 2))

\* The proxy runs exactly the strategies that are enabled, each once, except for
\* what POST /waf/config changed and no toggle or reset has reloaded since.
SettingsTakeEffect ==
    /\ \A s \in ToSet(Order) :
        last_op[s] # "update" => (Runs(s) <=> IsEnabled(enabled, s))
    /\ IsInjective(running)

-----------------------------------------------------------------------------
\* "Reset all WAF settings to defaults?": after a reset the strategies of the
\* defaults are enabled, and no others.
ResetRestoresDefaults ==
    (\A s \in ToSet(Order) : last_op[s] = "reset") => enabled = Defaults

=============================================================================
