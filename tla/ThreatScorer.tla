---------------------------- MODULE ThreatScorer ----------------------------
(***************************************************************************)
(* How the votes of the strategies become one verdict: ThreatScorer         *)
(* (ai_engine/numpy_scorer.py) and WAFProxy._aggregate_results (proxy.py).  *)
(*                                                                          *)
(* Confidences are percentages and weights are halves (1.0 is 2, 1.5 is 3), *)
(* so that the weighted mean and the percentile are exact integers. The     *)
(* levels none, low, medium, high, critical are 0..4.                       *)
(***************************************************************************)
EXTENDS Lists, SequencesExt

Levels == 0..4
None == 0
Low == 1
Medium == 2
High == 3
Critical == 4

Vote == [block : BOOLEAN, level : Levels, confidence : 0..100, weight : {2, 3}]

Blocking(votes) == Kept(votes, {v \in Vote : v.block})

WeightedSum(votes) == Total([i \in 1..Len(votes) |-> votes[i].confidence * votes[i].weight])
TotalWeight(votes) == Total([i \in 1..Len(votes) |-> votes[i].weight])

\* Mutant: votes to allow count as votes with their own confidence.
ExceedsThreshold_CountsAll(votes) ==
    2 * WeightedSum(Blocking(votes)) > 100 * TotalWeight(votes)

\* The weighted mean of the blocking votes exceeds one half.
ExceedsThreshold(votes) ==
    2 * WeightedSum(Blocking(votes)) > 100 * TotalWeight(Blocking(votes))

\* round(): halves go to the even neighbour.
RoundTenths(v) ==
    LET q == v \div 10
        r == v % 10
    IN  IF r > 5 \/ (r = 5 /\ q % 2 = 1) THEN q + 1 ELSE q

\* The k-th of the levels in order.
Ranked(levels, k) ==
    CHOOSE l \in Levels :
        /\ Cardinality({i \in DOMAIN levels : levels[i] < l}) < k
        /\ Cardinality({i \in DOMAIN levels : levels[i] <= l}) >= k

\* Mutant: int() where the code has round().
AggregateLevels_Truncated(levels) ==
    LET pos == 9 * (Len(levels) - 1)
        k == pos \div 10 + 1
        next == IF k < Len(levels) THEN k + 1 ELSE k
    IN  IF levels = <<>> THEN None
        ELSE (Ranked(levels, k) * (10 - (pos % 10))
                  + Ranked(levels, next) * (pos % 10)) \div 10

\* aggregate_threat_levels: the 90th percentile, interpolated between the two
\* values around position 0.9 (n - 1), and rounded.
AggregateLevels(levels) ==
    LET pos == 9 * (Len(levels) - 1)
        k == pos \div 10 + 1
        next == IF k < Len(levels) THEN k + 1 ELSE k
    IN  IF levels = <<>> THEN None
        ELSE RoundTenths(Ranked(levels, k) * (10 - (pos % 10))
                             + Ranked(levels, next) * (pos % 10))

LevelsOf(votes) == [i \in 1..Len(votes) |-> votes[i].level]

\* _aggregate_results: with no vote at all the request is allowed.
Verdict(votes) ==
    [block |-> votes # <<>> /\ ExceedsThreshold(votes),
     level |-> AggregateLevels(LevelsOf(votes))]

=============================================================================
