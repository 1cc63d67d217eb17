-------------------------- MODULE ZeroDayDetector --------------------------
(***************************************************************************)
(* The anomaly detector (ZeroDayDetector, strategies/zero_day_ddos.py): a   *)
(* request is compared with the mean and the standard deviation of the last *)
(* requests, itself among them, in three features.                          *)
(*                                                                          *)
(* The three lists of the code hold the features of the same requests and   *)
(* are trimmed alike, so one list of requests stands for them, and the      *)
(* statistics follow from it. A deviation is compared without roots, in     *)
(* exact integers: |v - mean| > (t / 4) * std, both sides squared. (The     *)
(* code adds 1e-8 to std, which only keeps it from dividing by 0.)          *)
(***************************************************************************)
EXTENDS Traffic, ThreatScorer

CONSTANTS
    BaselineWindow,     \* baseline_window, 200
    MinSamples,         \* requests needed before any is judged, 20
    Deviation,          \* deviation_threshold in quarters, 10
    Features,           \* path_length, param_count, special_char_count of a path
    HighEntropy         \* the paths with an entropy over 5.5

ASSUME ZeroDayAssumption ==
    /\ BaselineWindow \in Nat /\ MinSamples \in 1..BaselineWindow
    /\ Features \in [Paths -> Seq(Nat)]
    /\ \A p \in Paths : Len(Features[p]) = 3
    /\ Deviation \in 1..18 /\ Deviation % 2 = 0

VARIABLE baseline       \* _path_lengths, _param_counts, _special_char_counts

ZeroDayInit == baseline = <<>>

\* Mutant: the window keeps the first requests instead of the last.
UpdateBaseline_KeepsFirst(path) ==
    baseline' = IF Len(baseline) < BaselineWindow THEN Append(baseline, path) ELSE baseline

\* _update_baseline
UpdateBaseline(path) ==
    baseline' = Latest(Append(baseline, path), BaselineWindow)

\* Value v of feature f deviates by more than t/4 standard deviations.
Deviates(list, f, v, t) ==
    LET n == Len(list)
        sum == Total([i \in 1..n |-> Features[list[i]][f]])
        squares == Total([i \in 1..n |-> Features[list[i]][f] * Features[list[i]][f]])
        distance == n * v - sum
    IN  16 * distance * distance > t * t * (n * squares - sum * sum)

Anomalies(list, path) ==
    {f \in 1..3 : Deviates(list, f, Features[path][f], Deviation)}
        \cup {f \in {4} : path \in HighEntropy}

\* The largest deviation exceeds t/4. (That of the entropy is below 1.5.)
Exceeds(list, path, t) == \E f \in 1..3 : Deviates(list, f, Features[path][f], t)

\* analyze(), after the update: two anomalies, or one that is half as much again
\* over the threshold.
IsAnomalous(list, path) ==
    /\ Len(list) >= MinSamples
    /\ \/ Cardinality(Anomalies(list, path)) >= 2
       \/ Exceeds(list, path, (3 * Deviation) \div 2)

\* The vote, with the least confidence it can have: it grows with the largest
\* deviation, which the level follows.
ZeroDayVote(list, path) ==
    IF IsAnomalous(list, path)
    THEN [block |-> TRUE,
          level |-> IF Exceeds(list, path, 8) THEN High ELSE Medium,
          confidence |-> 50 + (5 * Deviation) \div 2,
          weight |-> 2]
    ELSE [block |-> FALSE, level |-> None, confidence |-> 0, weight |-> 2]

ZeroDayTypeOK == baseline \in Seq(Paths) /\ Len(baseline) <= BaselineWindow

=============================================================================
