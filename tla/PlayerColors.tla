--------------------------- MODULE PlayerColors ---------------------------
(* Who wears which color (reassign_player_colors, network.cpp): called      *)
(* whenever a player joins or changes colors, with everybody's desired      *)
(* color and team. With _force_unique_teams everybody is one round and gets *)
(* the team of his color; otherwise the teams have their rounds in order.   *)
EXTENDS Integers, Sequences, FiniteSets, SequencesExt

CONSTANTS
  UniqueTeams,      \* game_options & _force_unique_teams
  NumColors         \* NUMBER_OF_TEAM_COLORS

ASSUME ColorsAssumption == UniqueTeams \in BOOLEAN /\ NumColors \in Nat \ {0}

Color == 0 .. (NumColors - 1)

\* The first color nobody has, among as many as there are players: the
\* assertion remap_index < num_players is that there is one.
FirstFree(taken, n) == CHOOSE c \in 0 .. (n - 1) :
                         c \notin taken /\ \A d \in 0 .. (c - 1) : d \in taken

\* One round: of the players in members, whoever comes first gets what he
\* desires if it is not taken, and then the others, one after the other, get
\* what is left. worn maps the players that have a color to it. (Mutant:
\* colors that other teams have taken are granted again.)
WishesOfTeam(worn, members, players) ==
  {i \in members : \A j \in members : j < i => players[j].desired # players[i].desired}
Wishes(worn, members, players) ==
  {i \in members : LET wish == players[i].desired
                   IN wish \notin Range(worn)
                      /\ \A j \in members : j < i => players[j].desired # wish}
Granted(worn, members, players) ==
  [i \in DOMAIN worn \cup Wishes(worn, members, players) |->
     IF i \in DOMAIN worn THEN worn[i] ELSE players[i].desired]
Given(worn, i, players) ==
  [j \in DOMAIN worn \cup {i} |->
     IF j \in DOMAIN worn THEN worn[j] ELSE FirstFree(Range(worn), Len(players))]
Round(worn, members, players) ==
  LET given[i \in 0 .. Len(players)] ==
        IF i = 0 THEN Granted(worn, members, players)
        ELSE IF i \in members \ DOMAIN given[i - 1] THEN Given(given[i - 1], i, players)
        ELSE given[i - 1]
  IN given[Len(players)]

Team(t, players) == {i \in DOMAIN players : players[i].team = t}
Worn(players) ==
  LET worn[t \in 0 .. NumColors] ==
        IF t = 0 THEN <<>> ELSE Round(worn[t - 1], Team(t - 1, players), players)
  IN IF UniqueTeams THEN Round(<<>>, DOMAIN players, players) ELSE worn[NumColors]

Reassigned(players) ==
  LET worn == Worn(players)
  IN [i \in DOMAIN players |->
        IF UniqueTeams
        THEN [players[i] EXCEPT !.color = worn[i], !.team = worn[i]]
        ELSE [players[i] EXCEPT !.color = worn[i]]]
=============================================================================
