----------------------------- MODULE MCStarGame -----------------------------
(* Instances of StarGame for TLC.                                           *)
EXTENDS StarGame

NoLocalPlayer == -1
=============================================================================
