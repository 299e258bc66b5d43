------------------------------ MODULE MCProfiles ------------------------------
(* Instances of Profiles for TLC: a credential of one chunk and one of two. *)
EXTENDS Profiles, TLC

CONSTANTS short, long

TwoSecrets == {short, long}
TwoCounts == [s \in TwoSecrets |-> IF s = short THEN 1 ELSE 2]
ProfileSymmetry == Permutations(ProfileIds)
=============================================================================
