----------------------------- MODULE MCOwnFlags -----------------------------
(* An instance of OwnFlags for TLC, with a pregame before tick zero.        *)
EXTENDS OwnFlags

BeforeZero == -2
=============================================================================
