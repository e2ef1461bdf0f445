--------------------------- MODULE MCFairStarGame ---------------------------
(* Instances of FairStarGame for TLC.                                       *)
EXTENDS FairStarGame

AtMostOneCrashes == {{}} \cup {{p} : p \in Player}
=============================================================================
