--------------------------- MODULE MCRateLimiter ---------------------------
(***************************************************************************)
(* Instances of the rate limiter for TLC.                                   *)
(***************************************************************************)
EXTENDS RateLimiter, TLC

\* A setting that is later tightened, and one with a longer window.
Limit2in2 == [max |-> 2, window |-> 2]
Limit1in3 == [max |-> 1, window |-> 3]
ChangingLimits == {Limit2in2, Limit1in3}

Symmetry == Permutations(IPs)

=============================================================================
