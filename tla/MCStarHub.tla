----------------------------- MODULE MCStarHub -----------------------------
(* Instances of StarHub for TLC.                                            *)
EXTENDS StarHub

NoLocalPlayer == -1
=============================================================================
