----------------------------- MODULE Gathering -----------------------------
(* How a game comes about (Network/network.cpp, network_dialogs.cpp): a     *)
(* gatherer that listens for joiners, the joiners, and a TCP connection,    *)
(* here called stream, for each of them. The gatherer's thread runs the     *)
(* gather dialog, whose idle() polls the clients one after the other, and   *)
(* later the game, which polls them too; a joiner's thread runs the join    *)
(* dialog, whose idle() is NetUpdateJoinState.                              *)
(*                                                                          *)
(* enqueueOutgoingMessage only queues: what is queued leaves with the next  *)
(* pump and is lost when the channel is closed or deleted before that. Down *)
(* a connection the messages keep their order; when it ends, by either side *)
(* or by the network, what is under way may be lost.                        *)
(*                                                                          *)
(* Chat texts, the metaserver, capabilities other than being gatherable,    *)
(* other versions' hellos, resumed games and gathering through a remote hub *)
(* are left out.                                                            *)
EXTENDS PlayerColors

CONSTANTS
  MaxStreams,       \* model bound: joiners that connect
  MaxPlayers,       \* MAXIMUM_NUMBER_OF_PLAYERS
  Looks,            \* the colors and teams people choose
  DefaultLook,      \* what everybody's preferences say at first
  MaxChanges,       \* model bound: changes of color
  MaxMishaps        \* model bound: joiners that leave or are not gatherable,
                    \* connections that the network ends

Stream == 1 .. MaxStreams       \* next_stream_id numbers the clients; 0 is local
Look == [color : Color, team : Color]

ASSUME GatheringAssumption ==
  /\ MaxStreams \in Nat /\ MaxPlayers \in Nat \ {0}
  /\ MaxPlayers <= NumColors
  /\ Looks \subseteq Look /\ DefaultLook \in Look
  /\ MaxChanges \in Nat /\ MaxMishaps \in Nat

VARIABLES
  netState,         \* of the gatherer: "gathering", "active", "uninitialized"
  players,          \* topology->players
  nextIdentifier,   \* topology->nextIdentifier
  ungathered,       \* the dialog's m_ungathered_players
  chatInfo,         \* the streams in client_chat_info
  client,           \* Client::state by stream; "none" where there is no client
  connected,        \* the clients whose channel is connected
  out,              \* their channels' outgoing queues
  failed,           \* the assertion or null pointer that ended his program, or "none"
  link,             \* the TCP connection of a stream: "none", "up" or "down"
  up, down,         \* what is under way to the gatherer, to the joiner
  joiner,           \* the program at the other end
  changes, mishaps   \* what the bounds count

gathererVars == <<netState, players, nextIdentifier, ungathered, chatInfo, client,
                  connected, out, failed>>
vars == <<gathererVars, link, up, down, joiner, changes, mishaps>>

----------------------------------------------------------------------------
(* Messages.                                                                *)

Hello == [type |-> "hello"]
JoinerInfo == [type |-> "joinerInfo"]
Capabilities(gatherable) == [type |-> "capabilities", gatherable |-> gatherable]
ClientInfo(action, s) == [type |-> "clientInfo", action |-> action, stream |-> s]
\* (Mutants: the identifier is incremented before it is used; players are
\* numbered as they are counted.)
JoinPlayerPreincremented(id) == [type |-> "joinPlayer", id |-> id + 1]
JoinPlayerCounted(id) == [type |-> "joinPlayer", id |-> Len(players)]
JoinPlayer(id) == [type |-> "joinPlayer", id |-> id]
AcceptJoin(id, look) == [type |-> "acceptJoin", id |-> id, look |-> look]
ChangeColors(look) == [type |-> "changeColors", look |-> look]
Topology(tag, ps) == [type |-> "topology", tag |-> tag, players |-> ps]
GameSession == [type |-> "gameSession"]
EndGameData == [type |-> "endGameData"]

NetPlayer(s, id, look) ==
  [stream |-> s, id |-> id, desired |-> look.color, color |-> look.color, team |-> look.team]

\* The joiner's program before it is connected.
NoJoiner == [net |-> "none", handler |-> "awaitingHello", id |-> 0, players |-> <<>>,
             session |-> FALSE, chat |-> {}, out |-> <<>>, gathered |-> FALSE,
             anomalies |-> {}]

Init ==
  /\ netState = "gathering"
  /\ players = Reassigned(<<NetPlayer(0, 0, DefaultLook)>>)
  /\ nextIdentifier = 1
  /\ ungathered = {} /\ chatInfo = {0} /\ connected = {}
  /\ client = [s \in Stream |-> "none"]
  /\ out = [s \in Stream |-> <<>>]
  /\ failed = "none"
  /\ link = [s \in Stream |-> "none"]
  /\ up = [s \in Stream |-> <<>>] /\ down = [s \in Stream |-> <<>>]
  /\ joiner = [s \in Stream |-> NoJoiner]
  /\ changes = 0 /\ mishaps = 0

----------------------------------------------------------------------------
(* What the gatherer enqueues. queues are the outgoing queues so far; a     *)
(* channel that is not connected takes nothing.                             *)

Enqueue(queues, to, messages) ==
  [s \in Stream |-> IF s \in to \cap connected THEN queues[s] \o messages ELSE queues[s]]

\* (Mutant: as soon as the joiner has sent his name.)
CanChatEarly(state) ==
  state \in {"awaitingCapabilities", "connected", "notYetShown", "ungatherable",
             "awaitingAcceptJoin", "awaitingMap"}
CanPregameChat(state) ==
  state \in {"connected", "notYetShown", "ungatherable", "awaitingAcceptJoin", "awaitingMap"}
Chatting(c) == {s \in Stream : CanPregameChat(c[s])}

\* NetDistributeTopology to everybody in ps but the gatherer. (Mutant: the
\* message is made before the topology is changed.)
Streams(ps) == {ps[i].stream : i \in DOMAIN ps \ {1}}
DistributeOld(queues, tag, ps) == Enqueue(queues, Streams(ps), <<Topology(tag, players)>>)
Distribute(queues, tag, ps) == Enqueue(queues, Streams(ps), <<Topology(tag, ps)>>)

\* The assertions on the way to distributing ps: reassign_player_colors
\* counts the players, NetDistributeTopology looks at netState.
FailedAssertion(ps) == IF Len(ps) > MaxPlayers THEN "num_players"
                       ELSE IF netState # "gathering" THEN "netState"
                       ELSE "none"

Running == failed = "none" /\ netState # "uninitialized"

\* The connections once the gatherer's program has ended.
AllEnded == [s \in Stream |-> IF link[s] = "none" THEN "none" ELSE "down"]

----------------------------------------------------------------------------
(* The gatherer's handlers, for a message m of client s. queues are its     *)
(* outgoing queues after the pump.                                          *)

HandleJoinerInfo(s, queues) ==
  /\ IF netState = "gathering"
     THEN /\ chatInfo' = chatInfo \cup {s}
          /\ out' = Enqueue(Enqueue(queues, Chatting(client), <<ClientInfo("add", s)>>),
                            {s}, <<Capabilities(TRUE)>>)
          /\ client' = [client EXCEPT ![s] = "awaitingCapabilities"]
     ELSE out' = queues /\ UNCHANGED <<chatInfo, client>>
  /\ UNCHANGED <<players, failed>>

\* Everybody's chat info. (Its order, that of the streams, makes no difference.)
AllInfo == LET ids == SetToSeq(chatInfo)
           IN [i \in DOMAIN ids |-> ClientInfo("add", ids[i])]

HandleCapabilities(s, m, queues) ==
  /\ IF client[s] = "awaitingCapabilities"
     THEN /\ client' = [client EXCEPT ![s] = IF m.gatherable THEN "notYetShown" ELSE "ungatherable"]
          /\ out' = Enqueue(queues, {s}, AllInfo)
     ELSE out' = queues /\ UNCHANGED client
  /\ UNCHANGED <<players, chatInfo, failed>>

HandleAcceptJoin(s, m, queues) ==
  LET joined == Append(players, NetPlayer(s, m.id, m.look))
      ps     == Reassigned(joined)
  IN /\ IF client[s] # "awaitingAcceptJoin"
        THEN out' = queues /\ UNCHANGED <<players, client, failed>>
        ELSE IF FailedAssertion(joined) # "none"
        THEN /\ failed' = FailedAssertion(joined)
             /\ players' = joined
             /\ out' = queues /\ UNCHANGED client
        ELSE /\ players' = ps
             /\ out' = Distribute(Enqueue(queues, {s}, <<GameSession>>), "newPlayer", ps)
             /\ client' = [client EXCEPT ![s] = "awaitingMap"]
             /\ UNCHANGED failed
     /\ UNCHANGED chatInfo

IndexOf(s) == CHOOSE i \in DOMAIN players : players[i].stream = s
Wanting(i, look) == [players EXCEPT ![i].desired = look.color, ![i].team = look.team]
Wants(i, look) == players[i].desired # look.color \/ players[i].team # look.team

HandleChangeColors(s, m, queues) ==
  LET told    == IF CanPregameChat(client[s]) /\ s \in chatInfo
                 THEN Enqueue(queues, Chatting(client), <<ClientInfo("update", s)>>)
                 ELSE queues
      changed == Reassigned(Wanting(IndexOf(s), m.look))
  IN /\ IF client[s] = "awaitingMap" /\ s \in Streams(players) /\ Wants(IndexOf(s), m.look)
        THEN players' = changed /\ out' = Distribute(told, "changedPlayer", changed)
        ELSE out' = told /\ UNCHANGED players
     /\ UNCHANGED <<chatInfo, client, failed>>

Handle(s, m, queues) ==
  CASE m.type = "joinerInfo"   -> HandleJoinerInfo(s, queues)
    [] m.type = "capabilities" -> HandleCapabilities(s, m, queues)
    [] m.type = "acceptJoin"   -> HandleAcceptJoin(s, m, queues)
    [] m.type = "changeColors" -> HandleChangeColors(s, m, queues)

----------------------------------------------------------------------------
(* The gatherer's thread.                                                   *)

\* NetProcessNewJoiner: a connection is accepted.
AcceptConnection(s) ==
  /\ Running /\ netState = "gathering"
  /\ link[s] = "none" /\ \A t \in 1 .. (s - 1) : link[t] # "none"
  /\ client' = [client EXCEPT ![s] = "connecting"]
  /\ connected' = connected \cup {s}
  /\ out' = [out EXCEPT ![s] = <<Hello>>]
  /\ link' = [link EXCEPT ![s] = "up"]
  /\ joiner' = [joiner EXCEPT ![s].net = "joining"]
  /\ UNCHANGED <<netState, players, nextIdentifier, ungathered, chatInfo, failed,
                 up, down, changes, mishaps>>

\* pump and dispatchIncomingMessages for a client, in the dialog
\* (NetCheckForNewJoiner) and in the game (NetProcessMessagesInGame): what is
\* queued leaves, and a message that has arrived, if any, is handled. More
\* messages at once are several such steps.
PollClient(s) ==
  /\ Running /\ client[s] # "none" /\ s \in connected
  /\ out[s] # <<>> \/ up[s] # <<>>
  /\ down' = [down EXCEPT ![s] = IF link[s] = "up" THEN @ \o out[s] ELSE @]
  /\ IF up[s] = <<>>
     THEN out' = [out EXCEPT ![s] = <<>>] /\ UNCHANGED <<up, players, chatInfo, client, failed>>
     ELSE /\ up' = [up EXCEPT ![s] = Tail(@)]
          /\ Handle(s, Head(up[s]), [out EXCEPT ![s] = <<>>])
  /\ link' = IF failed' = "none" THEN link ELSE AllEnded
  /\ UNCHANGED <<netState, nextIdentifier, ungathered, connected, joiner, changes, mishaps>>

\* The same when the pump has read the acceptance and then the end of the
\* connection: handleAcceptJoinMessage asks a channel without a socket for its
\* peer's address.
AcceptFromClosed(s) ==
  /\ Running /\ s \in connected /\ link[s] = "down"
  /\ client[s] = "awaitingAcceptJoin"
  /\ up[s] # <<>> /\ Head(up[s]).type = "acceptJoin"
  /\ failed' = "peerAddress" /\ link' = AllEnded
  /\ UNCHANGED <<netState, players, nextIdentifier, ungathered, chatInfo, client, connected,
                 out, up, down, joiner, changes, mishaps>>

\* A pump fails: the channel disconnects.
LoseClient(s) ==
  /\ Running /\ link[s] = "down" /\ s \in connected
  /\ connected' = connected \ {s}
  /\ out' = [out EXCEPT ![s] = <<>>]
  /\ up' = [up EXCEPT ![s] = <<>>]
  /\ UNCHANGED <<netState, players, nextIdentifier, ungathered, chatInfo, client, failed,
                 link, down, joiner, changes, mishaps>>

\* Client::drop, by NetCheckForNewJoiner, of a client that is not connected
\* any more: those behind his player move up. (Mutant: the topology keeps the
\* player.)
Leaves(s) == client[s] = "awaitingMap" /\ s \in Streams(players)
Without(i) == [k \in 1 .. (Len(players) - 1) |-> IF k < i THEN players[k] ELSE players[k + 1]]
RemainingAll(s) == players
Remaining(s) == IF Leaves(s) THEN Without(IndexOf(s)) ELSE players
DropClient(s) ==
  /\ Running /\ netState = "gathering" /\ client[s] # "none" /\ s \notin connected
  /\ LET dropped == [client EXCEPT ![s] = "none"]
         told    == IF Leaves(s) THEN Distribute(out, "droppedPlayer", Remaining(s)) ELSE out
     IN /\ players' = Remaining(s)
        /\ out' = IF s \in chatInfo
                  THEN Enqueue(told, Chatting(client), <<ClientInfo("remove", s)>>) ELSE told
        /\ client' = dropped
  /\ ungathered' = IF client[s] = "connected" THEN ungathered \ {s} ELSE ungathered
  /\ chatInfo' = chatInfo \ {s}
  /\ UNCHANGED <<netState, nextIdentifier, connected, failed, link, up, down, joiner, changes, mishaps>>

\* NetCheckForNewJoiner reports the first client that is gatherable now and
\* the dialog lists him.
ShowClient(s) ==
  /\ Running /\ netState = "gathering"
  /\ client[s] = "notYetShown" /\ \A t \in 1 .. (s - 1) : client[t] # "notYetShown"
  /\ client' = [client EXCEPT ![s] = "connected"]
  /\ ungathered' = ungathered \cup {s}
  /\ UNCHANGED <<netState, players, nextIdentifier, chatInfo, connected, out, failed,
                 link, up, down, joiner, changes, mishaps>>

\* gathered_player, by a click or by autogathering, and NetGatherPlayer.
GatherPlayer(s) ==
  /\ Running /\ netState = "gathering"
  /\ s \in ungathered /\ Len(players) < MaxPlayers
  /\ out' = Enqueue(out, {s}, <<JoinPlayer(nextIdentifier)>>)
  /\ nextIdentifier' = nextIdentifier + 1
  /\ client' = [client EXCEPT ![s] = "awaitingAcceptJoin"]
  /\ ungathered' = ungathered \ {s}
  /\ UNCHANGED <<netState, players, chatInfo, connected, failed, link, up, down, joiner, changes, mishaps>>

\* NetChangeColors on the gatherer.
ChangeOwnColors(look) ==
  /\ Running /\ netState = "gathering" /\ changes < MaxChanges
  /\ Wants(1, look)
  /\ LET changed == Reassigned(Wanting(1, look))
     IN players' = changed /\ out' = Distribute(out, "changedPlayer", changed)
  /\ changes' = changes + 1
  /\ UNCHANGED <<netState, nextIdentifier, ungathered, chatInfo, client, connected, failed,
                 link, up, down, joiner, mishaps>>

\* StartGameHit, NetDoneGathering, NetStart, NetChangeMap and NetSync: those
\* the dialog still lists are dropped, the others get the final topology and
\* then the game data, and the queues are flushed.
FinalTopology(queues) == Distribute(queues, "startGame", players)
GameData(queues) == Enqueue(queues, Streams(players), <<EndGameData>>)
Flushed(s) == s \in Streams(players) /\ link[s] = "up"
StartGame ==
  /\ Running /\ netState = "gathering" /\ Len(players) > 1
  /\ LET queues == GameData(FinalTopology(out))
     IN /\ down' = [s \in Stream |-> IF Flushed(s) THEN down[s] \o queues[s] ELSE down[s]]
        /\ out' = [s \in Stream |-> IF s \in Streams(players) \cup ungathered THEN <<>>
                                   ELSE queues[s]]
  /\ client' = [s \in Stream |-> IF s \in Streams(players) THEN "ingame"
                                ELSE IF s \in ungathered THEN "none" ELSE client[s]]
  /\ connected' = connected \ ungathered
  /\ link' = [s \in Stream |-> IF s \in ungathered THEN "down" ELSE link[s]]
  /\ up' = [s \in Stream |-> IF s \in ungathered THEN <<>> ELSE up[s]]
  /\ ungathered' = {}
  /\ netState' = "active"
  /\ UNCHANGED <<players, nextIdentifier, chatInfo, failed, joiner, changes, mishaps>>

\* The dialog is cancelled: NetCancelGather and NetExit. What the former
\* queues is deleted with the clients by the latter.
CancelGather ==
  /\ Running /\ netState = "gathering"
  /\ netState' = "uninitialized"
  /\ players' = <<>> /\ ungathered' = {} /\ chatInfo' = {} /\ connected' = {}
  /\ client' = [s \in Stream |-> "none"]
  /\ out' = [s \in Stream |-> <<>>] /\ up' = [s \in Stream |-> <<>>]
  /\ link' = [s \in Stream |-> IF client[s] # "none" THEN "down" ELSE link[s]]
  /\ UNCHANGED <<nextIdentifier, failed, down, joiner, changes, mishaps>>

----------------------------------------------------------------------------
(* A joiner's handlers: the joiner j after message m.                       *)

Replies(j, m) == [j EXCEPT !.out = Append(@, m)]
Anomaly(j, what) == [j EXCEPT !.anomalies = @ \cup {what}]

\* Only waiting does a joiner look at the topology. (Mutant: the case of
\* tagSTART_GAME is missing.)
NewStateWithoutStart(tag) == IF tag = "cancelGame" THEN "cancelled" ELSE "waiting"
NewState(tag) == IF tag = "startGame" THEN "startingUp"
                 ELSE IF tag = "cancelGame" THEN "cancelled" ELSE "waiting"
TopologyHeard(j, m) ==
  IF j.net = "waiting"
  THEN [j EXCEPT !.players = m.players, !.handler = NewState(m.tag), !.gathered = TRUE]
  ELSE Anomaly(j, "unexpectedTopology")

ClientInfoHeard(j, m) ==
  IF m.action = "add"
  THEN [(IF m.stream \in j.chat THEN Anomaly(j, "clientExists") ELSE j)
          EXCEPT !.chat = @ \cup {m.stream}]
  ELSE IF m.action = "remove" THEN [j EXCEPT !.chat = @ \ {m.stream}]
  ELSE IF m.stream \notin j.chat THEN Anomaly(j, "nullChatInfo") ELSE j

HelloHeard(j) ==
  IF j.handler = "awaitingHello"
  THEN [Replies(j, JoinerInfo) EXCEPT !.handler = "joining"] ELSE j
CapabilitiesHeard(j, gatherable) ==
  IF j.handler = "joining" THEN Replies(j, Capabilities(gatherable)) ELSE j
JoinPlayerHeard(j, m) ==
  IF j.handler = "joining"
  THEN [Replies(j, AcceptJoin(m.id, DefaultLook)) EXCEPT !.id = m.id, !.handler = "waiting"]
  ELSE j
GameSessionHeard(j) ==
  IF j.handler = "waiting" THEN [j EXCEPT !.session = TRUE]
  ELSE Anomaly(j, "unexpectedSession")

Heard(j, m, gatherable) ==
  CASE m.type = "hello"        -> HelloHeard(j)
    [] m.type = "capabilities" -> CapabilitiesHeard(j, gatherable)
    [] m.type = "joinPlayer"   -> JoinPlayerHeard(j, m)
    [] m.type = "topology"     -> TopologyHeard(j, m)
    [] m.type = "clientInfo"   -> ClientInfoHeard(j, m)
    [] m.type = "gameSession"  -> GameSessionHeard(j)
    [] m.type = "endGameData"  -> [j EXCEPT !.net = "active"]

\* The joiner j after the messages ms.
HeardAll(j, ms, gatherable) ==
  LET heard[i \in 0 .. Len(ms)] ==
        IF i = 0 THEN j ELSE Heard(heard[i - 1], ms[i], gatherable)
  IN heard[Len(ms)]

\* The joiner's pump: his channel's queue leaves.
Pumped(s) == /\ up' = [up EXCEPT ![s] = IF link[s] = "up" THEN @ \o joiner[s].out ELSE @]
             /\ UNCHANGED <<gathererVars, link, changes>>

\* NetUpdateJoinState while joining: everything that has arrived, the first n
\* messages, is dispatched, and netState follows only then.
UpdateJoining(s) ==
  /\ joiner[s].net = "joining"
  /\ \E n \in 0 .. Len(down[s]), gatherable \in BOOLEAN :
       LET j0 == [joiner[s] EXCEPT !.out = <<>>]
           j  == HeardAll(j0, SubSeq(down[s], 1, n), gatherable)
       IN /\ n > 0 \/ joiner[s].out # <<>>
          /\ gatherable \/ (mishaps < MaxMishaps /\ Capabilities(FALSE) \in Range(j.out))
          /\ mishaps' = IF gatherable THEN mishaps ELSE mishaps + 1
          /\ joiner' = [joiner EXCEPT ![s] =
                          IF j.handler = "waiting" THEN [j EXCEPT !.net = "waiting"] ELSE j]
          /\ down' = [down EXCEPT ![s] = SubSeq(@, n + 1, Len(@))]
  /\ Pumped(s)

\* NetUpdateJoinState while waiting: one message is dispatched, and its
\* handler may say where netState goes.
UpdateWaiting(s) ==
  /\ joiner[s].net = "waiting"
  /\ joiner[s].out # <<>> \/ down[s] # <<>>
  /\ LET j0 == [joiner[s] EXCEPT !.out = <<>>, !.handler = "waiting"]
         j  == IF down[s] = <<>> THEN j0 ELSE Heard(j0, Head(down[s]), TRUE)
     IN /\ joiner' = [joiner EXCEPT ![s] = [j EXCEPT !.net = j.handler]]
        /\ down' = [down EXCEPT ![s] = IF @ = <<>> THEN @ ELSE Tail(@)]
  /\ Pumped(s) /\ UNCHANGED mishaps

\* The same when the pump has read a topology and then the end of the
\* connection: handleTopologyMessage asks a channel without a socket for the
\* gatherer's address.
TopologyFromClosed(s) ==
  /\ joiner[s].net = "waiting" /\ link[s] = "down"
  /\ down[s] # <<>> /\ Head(down[s]).type = "topology"
  /\ joiner' = [joiner EXCEPT ![s].net = "crashed", ![s].out = <<>>]
  /\ down' = [down EXCEPT ![s] = <<>>]
  /\ UNCHANGED <<gathererVars, link, up, changes, mishaps>>

\* NetReceiveGameData, and in the game NetProcessMessagesInGame.
ReceiveStarted(s) ==
  /\ joiner[s].net \in {"startingUp", "active"} /\ down[s] # <<>>
  /\ joiner' = [joiner EXCEPT ![s] = Heard([@ EXCEPT !.out = <<>>], Head(down[s]), TRUE)]
  /\ down' = [down EXCEPT ![s] = Tail(@)]
  /\ Pumped(s) /\ UNCHANGED mishaps

\* JoinDialog::changeColours, possible once he knows he has been gathered.
RequestColors(s, look) ==
  /\ joiner[s].net = "waiting" /\ joiner[s].gathered /\ changes < MaxChanges
  /\ joiner' = [joiner EXCEPT ![s] = Replies(@, ChangeColors(look))]
  /\ changes' = changes + 1
  /\ UNCHANGED <<gathererVars, link, up, down, mishaps>>

\* The connection is found to be lost: the join, or the receiving of the game
\* data, fails.
LoseServer(s) ==
  /\ link[s] = "down" /\ joiner[s].net \in {"joining", "waiting", "startingUp"}
  /\ joiner' = [joiner EXCEPT ![s].net = "joinError", ![s].out = <<>>]
  /\ down' = [down EXCEPT ![s] = <<>>]
  /\ UNCHANGED <<gathererVars, link, up, changes, mishaps>>

\* The joiner cancels, or times out waiting for the game data, or his program
\* ends; or the network breaks the connection.
Leave(s) ==
  /\ link[s] = "up" /\ joiner[s].net \in {"joining", "waiting", "startingUp"}
  /\ mishaps < MaxMishaps /\ mishaps' = mishaps + 1
  /\ link' = [link EXCEPT ![s] = "down"]
  /\ \/ joiner' = [joiner EXCEPT ![s].net = "left", ![s].out = <<>>]
        /\ down' = [down EXCEPT ![s] = <<>>]
     \/ UNCHANGED <<joiner, down>>
  /\ UNCHANGED <<gathererVars, up, changes>>

----------------------------------------------------------------------------
GathererPolls(s) ==
  PollClient(s) \/ AcceptFromClosed(s) \/ LoseClient(s) \/ DropClient(s) \/ ShowClient(s)
JoinerUpdates(s) ==
  \/ UpdateJoining(s) \/ UpdateWaiting(s) \/ TopologyFromClosed(s)
  \/ ReceiveStarted(s) \/ LoseServer(s)

Next ==
  \/ \E s \in Stream : \/ AcceptConnection(s) \/ GathererPolls(s) \/ GatherPlayer(s)
                       \/ JoinerUpdates(s) \/ Leave(s)
  \/ \E look \in Looks : ChangeOwnColors(look) \/ \E s \in Stream : RequestColors(s, look)
  \/ StartGame \/ CancelGather

Spec == Init /\ [][Next]_vars

----------------------------------------------------------------------------
(* Properties.                                                              *)

ClientState == {"none", "connecting", "awaitingCapabilities", "ungatherable", "notYetShown",
                "connected", "awaitingAcceptJoin", "awaitingMap", "ingame"}
JoinerState == {"none", "joining", "waiting", "startingUp", "cancelled", "active",
                "joinError", "crashed", "left"}

\* The types of the gatherer's and the joiners' variables.
TypeOK ==
  /\ netState \in {"gathering", "active", "uninitialized"}
  /\ \A i \in DOMAIN players : players[i].stream \in Stream \cup {0}
                               /\ players[i].id \in 0 .. (nextIdentifier - 1)
  /\ ungathered \subseteq Stream /\ connected \subseteq Stream
  /\ chatInfo \subseteq Stream \cup {0}
  /\ client \in [Stream -> ClientState]
  /\ failed \in {"none", "num_players", "netState", "peerAddress"}
  /\ link \in [Stream -> {"none", "up", "down"}]
  /\ \A s \in Stream : joiner[s].net \in JoinerState

\* The dialog lists exactly the clients that wait to be gathered, and the
\* topology has exactly the clients that have accepted, each once: there is
\* always a channel to send to for a player, and a player for a channel whose
\* joiner believes he is in (Client::drop, gathered_player, StartGameHit).
ListsMatchClients ==
  Running =>
    /\ netState = "gathering" => ungathered = {s \in Stream : client[s] = "connected"}
    /\ Streams(players) = {s \in Stream : client[s] \in {"awaitingMap", "ingame"}}
    /\ Cardinality(Streams(players)) = Len(players) - 1

\* What a joiner has of the topology once everything sent to him has arrived.
Pending(s) == down[s] \o out[s]
Topologies(ms) == {k \in DOMAIN ms : ms[k].type = "topology"}
Eventually(s) == IF Topologies(Pending(s)) = {} THEN joiner[s].players
                 ELSE Pending(s)[Max(Topologies(Pending(s)))].players

\* Whoever joins, drops out or changes colors: everybody who is in the
\* topology has it, or it is on its way to him and he will look at it; and no
\* topology or session message meets a joiner that ignores it, which is what
\* the warning in handleTopologyMessage fears.
TopologyConverges ==
  /\ Running => \A s \in Streams(players) \cap connected :
       link[s] = "up" => Eventually(s) = players
  /\ \A s \in Stream :
       joiner[s].anomalies \cap {"unexpectedTopology", "unexpectedSession"} = {}

\* Whose chat info is known to who knows that of chat, once ms has arrived:
\* whoever is not removed after he was added last.
Knowing(chat, ms) ==
  {t \in Stream \cup {0} :
     \E k \in 0 .. Len(ms) :
       /\ IF k = 0 THEN t \in chat ELSE ms[k] = ClientInfo("add", t)
       /\ \A l \in (k + 1) .. Len(ms) : ms[l] # ClientInfo("remove", t)}

\* Those who may chat have, or will have, the chat info of exactly the
\* clients the gatherer knows, and a joiner is told of the change or of the
\* removal of nobody he has no info of: handleClientInfoMessage would assign
\* through a null pointer.
ChatInfoConverges ==
  /\ Running /\ netState = "gathering" =>
       \A s \in Chatting(client) \cap connected :
         link[s] = "up" => Knowing(joiner[s].chat, Pending(s)) = chatInfo
  /\ \A s \in Stream : joiner[s].anomalies \cap {"clientExists", "nullChatInfo"} = {}

\* Everybody who starts the game starts it with the gatherer's topology, in
\* which he finds himself once, and with the session identifier.
SameTopologyAtStart ==
  failed = "none" =>
    \A s \in Stream : joiner[s].net \in {"startingUp", "active"} =>
      /\ netState = "active" /\ joiner[s].players = players
      /\ joiner[s].session
      /\ Cardinality({i \in DOMAIN players : players[i].id = joiner[s].id}) = 1

\* No two players of the topology wear the same color, however they choose.
ColorsDistinct ==
  failed = "none" =>
    \A i, j \in DOMAIN players : i # j => players[i].color # players[j].color

\* Nobody waits for somebody who waits as well: when all that the gatherer's
\* and the joiners' programs do by themselves is done, whoever was asked to
\* join is in the topology or gone, who was in it when the game started is in
\* the game unless his connection ended, and nobody waits for a gatherer that
\* has cancelled or crashed. (As the programs cannot go on for ever by themselves, this
\* is what fairness to all of them would bring about.)
Busy(s) ==
  \/ Running /\ s \in connected /\ (out[s] # <<>> \/ up[s] # <<>> \/ link[s] = "down")
  \/ Running /\ netState = "gathering"
     /\ client[s] # "none" /\ (s \notin connected \/ client[s] = "notYetShown")
  \/ joiner[s].net \in {"joining", "waiting", "startingUp", "active"} /\ down[s] # <<>>
  \/ joiner[s].net \in {"joining", "waiting"} /\ joiner[s].out # <<>>
  \/ joiner[s].net \in {"joining", "waiting", "startingUp"} /\ link[s] = "down"
Settled ==
  \A s \in Stream :
    /\ client[s] = "awaitingAcceptJoin" => netState # "gathering" \/ failed # "none"
    /\ netState = "active" /\ client[s] = "ingame" =>
         joiner[s].net \in {"active", "joinError", "crashed", "left"}
    /\ ~Running => joiner[s].net \notin {"joining", "waiting", "startingUp"}
NobodyWaitsInVain == Settled \/ \E s \in Stream : Busy(s)

\* The assertions num_players <= MAXIMUM_NUMBER_OF_PLAYERS of
\* reassign_player_colors and netState==netGathering of NetDistributeTopology.
\* (Violated: README, section 5.)
AssertionsHold == failed \notin {"num_players", "netState"}
=============================================================================
