---------------------------- MODULE MCRedisMirror ----------------------------
(***************************************************************************)
(* Instances of the Redis copy for TLC.                                     *)
(***************************************************************************)
EXTENDS RedisMirror, TLC

CallSymmetry == Permutations(Calls)

=============================================================================
