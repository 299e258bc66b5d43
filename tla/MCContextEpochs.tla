------------------------------ MODULE MCContextEpochs ------------------------------
(* Instance of ContextEpochs for TLC. *)
EXTENDS ContextEpochs
=============================================================================
