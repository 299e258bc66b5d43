----------------------------- MODULE MCGuiClient -----------------------------
(* An instance of GuiClient for TLC: a prompt beside a sign-in or a         *)
(* credential.                                                              *)
EXTENDS GuiClient

CONSTANTS k1, k2

TwoCalls == {k1, k2}
TwoKinds == [c \in TwoCalls |->
                IF c = k1 THEN {"prompt"} ELSE {"login", "credential"}]

=============================================================================
