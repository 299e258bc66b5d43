--------------------------- MODULE MCDurableEngine ---------------------------
(* Instance of DurableEngine for TLC: sessions, and the commands of one     *)
(* session, are interchangeable.                                            *)
EXTENDS DurableEngine, TLC

Symmetry == Permutations(Sessions) \cup Permutations(Tags)

=============================================================================
