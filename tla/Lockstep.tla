------------------------------ MODULE Lockstep ------------------------------
(* What the star game protocol promises to a networked game, whose worlds   *)
(* are simulated on every machine from the players' action flags alone      *)
(* (network_star_hub.cpp, line 224: "due to the symmetric execution         *)
(* model"): there is one sequence of decisions, a tick's flags of all       *)
(* players, that only grows, in which a dead player stays dead; and every   *)
(* player that has not left plays a beginning of it that only grows.        *)
EXTENDS SequencesExt

CONSTANT Player

VARIABLES
  decided,          \* the decided ticks, from the first of the game
  played,           \* what each player's game has been given
  left              \* the players on their own: they owe the others nothing

DeadStayDead(ticks) ==
  \A i \in DOMAIN ticks : \A q \in Player :
    i > 1 /\ ticks[i - 1][q] = "dead" => ticks[i][q] = "dead"

Init ==
  /\ decided = <<>>
  /\ played = [p \in Player |-> <<>>]
  /\ left \subseteq Player

\* Ticks may be decided and players may go on, some of them at once.
Next ==
  /\ IsPrefix(decided, decided') /\ DeadStayDead(decided')
  /\ left \subseteq left'
  /\ \A p \in Player \ left' :
       IsPrefix(played[p], played'[p]) /\ IsPrefix(played'[p], decided')

Spec == Init /\ [][Next]_<<decided, played, left>>
=============================================================================
