---------------------------- MODULE MCGathering ----------------------------
(* Instances of Gathering for TLC.                                          *)
EXTENDS Gathering

Red == [color |-> 0, team |-> 0]
Blue == [color |-> 1, team |-> 1]
OtherLook == {Blue}
=============================================================================
