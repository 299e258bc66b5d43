--------------------------- MODULE MCSessionStore ---------------------------
(* Instance of SessionStore for TLC. Identities of one kind are             *)
(* interchangeable, and no liveness is checked, so symmetry is sound.       *)
EXTENDS SessionStore, TLC

Symmetry == Permutations(Attempts) \cup Permutations(ContextTurns)

=============================================================================
