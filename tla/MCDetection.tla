---------------------------- MODULE MCDetection ----------------------------
(***************************************************************************)
(* The analysis in small: two clients, two kinds of requests, thresholds  *)
(* of one, and windows shorter than the clock, so that every alarm can come *)
(* and go. An attack crosses all strategies, an odd request only the header *)
(* rules; of three requests, one of the other kind is an anomaly.           *)
(***************************************************************************)
EXTENDS Detection, TLC

CONSTANTS attack, odd

MapOrder == <<"signature", "behavior", "header_validation", "zero_day", "ddos_protection">>
DefaultThree == {"signature", "behavior", "header_validation"}

ContentsOf == (attack :> {<<"xss", 1>>}) @@ (odd :> {<<"automated_user_agent", 1>>})
FeaturesOf == (attack :> <<1, 0, 3>>) @@ (odd :> <<4, 2, 3>>)

ClientSymmetry == Permutations(IPs)

=============================================================================
