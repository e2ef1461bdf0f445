--------------------------- MODULE StarProtocol ---------------------------
(* What the hub and the spokes of the star game protocol share              *)
(* (src/Source_Files/Network/network_star.h): the players, the game ticks,  *)
(* the parameters of both sides and the packets.                            *)
EXTENDS TickQueue, FiniteSets

CONSTANTS
  NumPlayers,       \* inNumPlayers
  LocalPlayer,      \* sLocalPlayerIndex of the hub; NONE on a standalone hub
  FirstTick,        \* theFirstTick, where the pregame starts
  RealTick,         \* sSmallestRealGameTick = FirstTick + kPregameTicks
  LastTick          \* model bound: no player has flags beyond this tick

Player == 0 .. (NumPlayers - 1)
NONE == -1
Ticks == FirstTick .. LastTick
Standalone == LocalPlayer = NONE    \* A1_NETWORK_STANDALONE_HUB

ASSUME PlayersAssumption ==
  NumPlayers \in Nat \ {0} /\ LocalPlayer \in Player \cup {NONE}
ASSUME TicksAssumption ==
  /\ FirstTick \in Int /\ RealTick \in Int /\ LastTick \in Int
  /\ FirstTick < RealTick /\ RealTick <= LastTick
=============================================================================
