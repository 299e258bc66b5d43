---------------------------- MODULE MCCoordinator ----------------------------
(* Instances of Coordinator for TLC. Attempts and context turns are         *)
(* interchangeable in the safety runs; a liveness run uses no symmetry.     *)
EXTENDS Coordinator, TLC

TurnSymmetry == Permutations(ContextTurns)
RunSymmetry ==
    Permutations(Attempts) \cup Permutations(Inputs)
        \cup Permutations(Calls) \cup Permutations(ContextTurns)

=============================================================================
