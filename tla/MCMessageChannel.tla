-------------------------- MODULE MCMessageChannel --------------------------
(* An instance of MessageChannel for TLC: a message without a body and one  *)
(* with a body as long as the header, so that the socket cuts both.         *)
EXTENDS MessageChannel, TLC

CONSTANTS empty, full

MCBodyLength == empty :> 0 @@ full :> 2
=============================================================================
