--------------------------- MODULE MCGameSession ----------------------------
(* An instance of GameSession with StandaloneHub for TLC: two hosts, and a   *)
(* name that resolves to one of them beside one that does not resolve.       *)
EXTENDS StandaloneHub, TLC

CONSTANTS east, west, good, typo

MCAddressOf == good :> east @@ typo :> Nowhere
=============================================================================
