----------------------------- MODULE MCWAFProxy -----------------------------
(***************************************************************************)
(* Instances of the pipeline for TLC. The quotas and durations are small,   *)
(* so that the threshold, a lapsing ban and a full window all occur.        *)
(***************************************************************************)
EXTENDS WAFProxy, TLC

Limit2in2 == [max |-> 2, window |-> 2]
OneLimit == {Limit2in2}

Strict == [enabled |-> TRUE, threshold |-> 2, duration |-> 1]
Lenient == [enabled |-> TRUE, threshold |-> 1, duration |-> 2]
Off == [enabled |-> FALSE, threshold |-> 2, duration |-> 1]

OnlyStrict == {Strict}
StrictOrLenient == {Strict, Lenient}
StrictOrOff == {Strict, Off}

RateOn == [enabled |-> TRUE, limit |-> Limit2in2]
RateOff == [enabled |-> FALSE, limit |-> Limit2in2]
OnlyRateOn == {RateOn}
OnlyRateOff == {RateOff}
RateOnOrOff == {RateOn, RateOff}

\* What an earlier process left: a violation counted; a threshold reached and
\* the ban not written, because the process died in between; the same with its
\* ban in force; a permanent ban without violations.
Left(count, permanent, expires) ==
    [present |-> TRUE, count |-> count, permanent |-> permanent, expires |-> expires]
SomeRowsLeft == {Left(1, FALSE, NULL), Left(2, FALSE, NULL), Left(2, FALSE, 1), Left(0, TRUE, NULL)}

RequestSymmetry == Permutations(Requests)

=============================================================================
