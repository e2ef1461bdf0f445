---------------------------- MODULE StandaloneHub ---------------------------
(* The main loop of a standalone hub (Network/StandaloneHub): it waits for a *)
(* gatherer, is sent the game by him, gathers the players that he names,     *)
(* runs the game's levels and begins anew. With it the gatherer's side, that *)
(* asks for the hub and commands it over TCP (Network/network.cpp). What is  *)
(* said to the other players while they are gathered is left out, and the    *)
(* gatherer himself is not declared net-dead.                                *)
EXTENDS GameSession

VARIABLES
  gatherer,         \* "none", "talking" (_gatherer) or "client" (_gatherer_client)
  held,             \* the level of _map_message, 0 when there is none
  ended,            \* _end_game_signal: the level that was ended, 0 for false
  stream,           \* what the gatherer has sent
  remote            \* the gatherer: what he does, on which level

hubVars == <<gatherer, held, ended, stream, remote>>
allVars == <<vars, hubVars>>

Away == [at |-> "away", level |-> 0]

HubInit == Init /\ gatherer = "none" /\ held = 0 /\ ended = 0 /\ stream = <<>> /\ remote = Away

\* Topology, script, physics, map and the mark of their end count as one
\* message: GetGameDataFromGatherer fails unless it has read all of them.
GameData(level) == [type |-> "data", level |-> level]
Command(c, level) == [type |-> c, level |-> level]

\* In all steps below the rest of the machine stands still.
sessionRest == <<boundVars, joinVars, poolVars, taskVars, switchVars, callVars, queueVars>>

----------------------------------------------------------------------------
(* The gatherer.                                                            *)

gathererRest == <<main, sessionRest, gatherer, held, ended>>

\* A gatherer asks while nobody else has the hub; others are refused.
Asks ==
  /\ main = "waiting" /\ remote = Away
  /\ remote' = [at |-> "asking", level |-> game + 1]
  /\ UNCHANGED <<stream, gathererRest>>

Sends(at, next, m) ==
  /\ remote.at = at /\ stream' = Append(stream, m)
  /\ remote' = [remote EXCEPT !.at = next]
  /\ UNCHANGED gathererRest

SendsGame == Sends("accepted", "waits", GameData(remote.level))
StartsGame == Sends("gathers", "starts", Command("start", remote.level))
EndsGame == Sends("plays", "ended", Command("end", remote.level))

\* The gatherer's machine changes the level. It sends this level to the hub,
\* whether or not the hub has noticed yet that the last one has ended.
ChangesLevel ==
  /\ remote.at = "ended" /\ remote.level < MaxGames
  /\ remote' = [at |-> "waits", level |-> remote.level + 1]
  /\ stream' = Append(stream, GameData(remote.level + 1))
  /\ UNCHANGED gathererRest

\* He goes, or is not waited for any longer; the last he sent may be lost.
GoesAway ==
  /\ remote # Away /\ remote' = Away
  /\ \E n \in 0 .. Len(stream) : stream' = SubSeq(stream, 1, n)
  /\ UNCHANGED gathererRest

\* What the hub sends lets a gatherer who waits for it go on.
Hears(next) == IF remote = Away THEN Away ELSE [remote EXCEPT !.at = next]

Gatherer == Asks \/ SendsGame \/ StartsGame \/ EndsGame \/ ChangesLevel \/ GoesAway

----------------------------------------------------------------------------
(* The hub until the game begins.                                           *)

\* The gatherer's version and capabilities may not do.
WaitForGatherer ==
  /\ main = "waiting" /\ remote.at = "asking"
  /\ \/ /\ main' = "fetching" /\ gatherer' = "talking"
        /\ held' = 0 /\ stream' = <<>> /\ remote' = Hears("accepted")
     \/ /\ remote' = Away /\ UNCHANGED <<main, gatherer, held, stream>>
  /\ UNCHANGED <<ended, sessionRest>>

\* receiveMessage, until there is all of the game; what else is found is
\* thrown away.
GetGameDataFromGatherer ==
  /\ main = "fetching" /\ stream # <<>> /\ stream' = Tail(stream)
  /\ IF Head(stream).type = "data"
     THEN /\ held' = Head(stream).level
          /\ main' = IF gatherer = "talking" THEN "setup" ELSE "changing"
     ELSE UNCHANGED <<held, main>>
  /\ UNCHANGED <<gatherer, ended, remote, sessionRest>>

\* The connection has ended, or nothing came in time, or the map is no map;
\* nobody starts the game in time (NetCancelGather).
GivesUp ==
  /\ main \in {"fetching", "gathering"} /\ main' = "reset"
  /\ UNCHANGED <<sessionRest, hubVars>>

\* The gatherer becomes the first client. NetGather.
SetupGathererGame ==
  /\ MainGoes("setup", "gathering")
  /\ gatherer' = "client" /\ remote' = Hears("gathers")
  /\ UNCHANGED <<held, ended, stream, sessionRest>>

\* _start_game_signal, which is of no use once the loop is left. NetStart.
GatherJoiners ==
  /\ MainGoes("gathering", "changing")
  /\ stream # <<>> /\ Head(stream).type = "start" /\ stream' = Tail(stream)
  /\ UNCHANGED <<gatherer, held, ended, remote, sessionRest>>

\* Everybody is sent the level.
NetChangeMap ==
  /\ MainGoes("changing", "ready") /\ held # 0
  /\ remote' = Hears("plays")
  /\ UNCHANGED <<gatherer, held, ended, stream, sessionRest>>

----------------------------------------------------------------------------
(* The game, and the next one.                                              *)

\* SetGameEnded(false).
HubGoesOn ==
  /\ MainGoes("synced", "playing") /\ ended' = 0
  /\ UNCHANGED <<gatherer, held, stream, remote, sessionRest>>

\* Of the messages that have come, those that are dispatched: up to the end of
\* the game. (Mutant: all.)
DispatchedAll(s) == Len(s)
Dispatched(s) ==
  LET ends == {i \in 1 .. Len(s) : s[i].type = "end"}
  IN IF ends = {} THEN Len(s) ELSE CHOOSE i \in ends : \A j \in ends : i <= j

NetProcessMessagesInGame ==
  /\ main = "playing" /\ hubActive /\ ended = 0 /\ stream # <<>>
  /\ \E come \in 1 .. Len(stream) :
       LET n == Dispatched(SubSeq(stream, 1, come))
       IN /\ stream' = SubSeq(stream, n + 1, Len(stream))
          /\ ended' = IF stream[n].type = "end" THEN stream[n].level ELSE 0
  /\ UNCHANGED <<main, gatherer, held, remote, sessionRest>>

\* hub_game_in_progress, when it is over: NetUnSync.
GameIsOver ==
  /\ alone /\ MainGoes("playing", "wind_down")
  /\ ~hubActive \/ ended # 0
  /\ UNCHANGED <<sessionRest, hubVars>>

NextGame ==
  /\ alone /\ MainGoes("down", "fetching") /\ held' = 0
  /\ UNCHANGED <<gatherer, ended, stream, remote, sessionRest>>

\* StandaloneHub::Reset, before NetExit. The gatherer's channel is closed here
\* or with the clients in NetExit; nobody reads from it any more.
Reset ==
  /\ MainGoes("reset", "dropped")
  /\ gatherer' = "none" /\ held' = 0 /\ ended' = 0 /\ stream' = <<>> /\ remote' = Away
  /\ UNCHANGED sessionRest

----------------------------------------------------------------------------
MainLoop ==
  \/ WaitForGatherer \/ GetGameDataFromGatherer \/ GivesUp \/ SetupGathererGame
  \/ GatherJoiners \/ NetChangeMap \/ HubGoesOn \/ NetProcessMessagesInGame
  \/ GameIsOver \/ NextGame \/ Reset

HubNext ==
  \/ Next /\ UNCHANGED hubVars
  \/ main # "crashed" /\ (MainLoop \/ (alone /\ Gatherer))

\* As in GameSession; the standalone hub's main loop goes on, too.
HubFairSpec ==
  /\ HubInit /\ [][HubNext]_allVars
  /\ Fairness /\ WF_allVars(MainLoop) /\ WF_vars(alone /\ StopListening)

----------------------------------------------------------------------------
\* Whenever the gatherer ends a level, and however soon he sends the next one:
\* the hub runs the level it was sent for that game, no end of an earlier level
\* ends it, and the next level, once sent, is not thrown away among the
\* messages of the old one.
LevelsStayApart ==
  alone =>
    /\ main \in {"sync_hub", "synced", "playing"} => held = game
    /\ main = "playing" => ended \in {0, game}
    /\ remote.at = "waits" /\ main \notin {"reset", "dropped"} =>
         held = remote.level \/ GameData(remote.level) \in {stream[i] : i \in 1 .. Len(stream)}
=============================================================================
