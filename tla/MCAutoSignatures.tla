-------------------------- MODULE MCAutoSignatures --------------------------
(***************************************************************************)
(* Instances of the generated signatures for TLC.                           *)
(***************************************************************************)
EXTENDS AutoSignatures, TLC

Symmetry == Permutations(Patterns) \cup Permutations(Pages)

=============================================================================
