---------------------------- MODULE MCSessionReads ----------------------------
(* Instance of SessionReads for TLC. Identities of one kind are             *)
(* interchangeable, and no liveness is checked, so symmetry is sound.       *)
EXTENDS SessionReads, TLC

Symmetry == Permutations(Attempts) \cup Permutations(ContextTurns)

=============================================================================
