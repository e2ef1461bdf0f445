---------------------------- MODULE GameSession -----------------------------
(* The threads of one machine from NetEnter to NetExit: the main thread,     *)
(* which looks for a gatherer, sets the game up, plays and tears down        *)
(* (Network/network.cpp, Network/StarGameProtocol.cpp, spoke_initialize,     *)
(* spoke_cleanup, hub_initialize and hub_cleanup); the connecting threads of *)
(* the pool; the thread that receives packets (Network/network_udp.cpp); and *)
(* the ticks of the spoke and, on the machine of the gatherer, of the hub.   *)
(* A standalone hub is the same program without a player                     *)
(* (A1_NETWORK_STANDALONE_HUB); its main loop is in StandaloneHub.           *)
(*                                                                           *)
(* What is in the packets is left to StarGame and what is said while players *)
(* are gathered to Gathering: here a packet or tick may bring the player's   *)
(* queue one more action flag. Followed is one player's queue.               *)
EXTENDS ConnectPool, TimerTasks, ActionQueues, Sequences

CONSTANTS
  MaxSessions,      \* model bound: NetEnter
  MaxGames,         \* model bound: levels played
  MaxTicks          \* model bound: ticks of a level

ASSUME SessionAssumption ==
  /\ MaxSessions \in Nat /\ MaxGames \in Nat /\ MaxTicks \in Nat
  /\ Task = {"spoke", "hub"}

VARIABLES
  alone,            \* built as a standalone hub
  main,             \* where the main thread is
  sessions, game,   \* what the bounds count
  \* joining
  server_nbc,       \* the slot of the try, or NoSlot
  host,             \* what is known of the host that is asked for
  joined,           \* the address connection_to_server goes to
  \* the game
  isServer,         \* local_is_server
  hubIsLocal,       \* sHubIsLocal
  spokeActive,      \* sSpokeActive
  connected,        \* sConnected of the spoke
  hubActive,        \* sHubActive
  there,            \* what exists of what the callbacks use
  receiver,         \* the receiving thread
  keepListening,    \* sKeepListening
  touches, stage,   \* what the callback uses that runs, and how far it is
  queue,            \* the player's queue of action flags
  given, taken,     \* flags put into it, and taken out, in this game
  inHand            \* flags the main thread is taking out

joinVars == <<server_nbc, host, joined>>
poolVars == <<pool, networkInterface, listening>>
taskVars == <<task, outstanding, mutex>>
switchVars == <<isServer, hubIsLocal, spokeActive, connected, hubActive, there>>
callVars == <<receiver, keepListening, touches, stage>>
queueVars == <<queue, given, taken, inHand>>
boundVars == <<alone, sessions, game>>
vars == <<main, boundVars, joinVars, poolVars, taskVars, switchVars, callVars, queueVars>>

\* byName and asked are not of the program: whether the player typed a name,
\* and which addresses were asked for since.
NoHost == [specified |-> FALSE, address |-> Nowhere, resolving |-> FALSE, byName |-> FALSE,
           asked |-> {}]

Init ==
  /\ alone \in BOOLEAN /\ main = "out" /\ sessions = 0 /\ game = 0
  /\ server_nbc = NoSlot /\ host = NoHost /\ joined = Nowhere
  /\ pool = EmptyPool /\ networkInterface = FALSE /\ listening = {}
  /\ TasksInit
  /\ isServer = FALSE /\ hubIsLocal = alone
  /\ spokeActive = FALSE /\ connected = FALSE /\ hubActive = FALSE
  /\ there = {}
  /\ receiver = "none" /\ keepListening = FALSE /\ touches = {} /\ stage = "none"
  /\ queue = EmptyRing /\ given = 0 /\ taken = <<>> /\ inHand = NoFlags

----------------------------------------------------------------------------
(* NetEnter, and joining: NetGameJoin, NetRetargetJoinAttempts and what      *)
(* NetUpdateJoinState does while it is connecting.                           *)

Enter(next, server) ==
  /\ main = "out" /\ main' = next
  /\ sessions < MaxSessions /\ sessions' = sessions + 1
  /\ networkInterface' = TRUE
  /\ there' = {"socket"} /\ receiver' = "listening" /\ keepListening' = TRUE
  /\ isServer' = server /\ hubIsLocal' = alone
  /\ UNCHANGED <<alone, game, listening, joined, taskVars, spokeActive, connected, hubActive,
                 touches, stage, queueVars>>

Gather == Enter(IF alone THEN "waiting" ELSE "ready", TRUE) /\ UNCHANGED <<pool, server_nbc, host>>

\* host_address keeps what it was in an earlier session.
JoinByName(n) ==
  /\ ~alone /\ Enter("connecting", FALSE)
  /\ LET try == Connecting(Abandoned(pool, server_nbc), TryName(n))
     IN pool' = try.pool /\ server_nbc' = try.slot
  /\ host' = [specified |-> TRUE, address |-> host.address, resolving |-> TRUE,
              byName |-> TRUE, asked |-> {AddressOf[n]}]

JoinBySearch ==
  /\ ~alone /\ Enter("connecting", FALSE)
  /\ pool' = Abandoned(pool, server_nbc) /\ server_nbc' = NoSlot
  /\ host' = [host EXCEPT !.specified = FALSE, !.byName = FALSE, !.asked = {}]

joinRest == <<boundVars, networkInterface, listening, taskVars, switchVars, callVars, queueVars>>

\* The search, which is on when no name was typed, finds a gatherer or loses it.
Retarget ==
  /\ main = "connecting" /\ ~host.byName
  /\ \/ \E ip \in Address :
          host' = [host EXCEPT !.specified = TRUE, !.address = ip, !.asked = @ \cup {ip}]
     \/ host.specified /\ host' = [host EXCEPT !.specified = FALSE]
  /\ UNCHANGED <<main, server_nbc, joined, pool, joinRest>>

TryHost ==
  /\ main = "connecting" /\ host.specified /\ server_nbc = NoSlot
  /\ LET try == Connecting(pool, TryAddress(host.address))
     IN pool' = try.pool /\ server_nbc' = try.slot
  /\ UNCHANGED <<main, host, joined, joinRest>>

Status == pool[server_nbc].try.status

\* The channel is released, and may have been closed at the other end since.
HostConnected ==
  /\ main = "connecting" /\ server_nbc # NoSlot /\ Status = "Connected"
  /\ main' \in {"joined", "failed"}
  /\ joined' = pool[server_nbc].try.ip
  /\ pool' = Abandoned([pool EXCEPT ![server_nbc].try.channel = FALSE], server_nbc)
  /\ server_nbc' = NoSlot
  /\ UNCHANGED <<host, joinRest>>

\* The address a name resolved to is tried from then on. (Mutant: it is not.)
HostKept(h, ip) == [h EXCEPT !.resolving = FALSE]
HostTried(h, ip) ==
  [h EXCEPT !.address = IF h.resolving THEN ip ELSE @, !.resolving = FALSE]

\* The next try. (Mutant: there is none.)
TryLast(p, h) == [pool |-> p, slot |-> server_nbc]
TryNext(p, h) ==
  IF h.specified THEN Connecting(p, TryAddress(h.address)) ELSE [pool |-> p, slot |-> NoSlot]

HostRefused ==
  /\ main = "connecting" /\ server_nbc # NoSlot /\ Status = "ConnectFailed"
  /\ host' = HostTried(host, pool[server_nbc].try.ip)
  /\ LET try == TryNext(Abandoned(pool, server_nbc), host')
     IN pool' = try.pool /\ server_nbc' = try.slot
  /\ UNCHANGED <<main, joined, joinRest>>

NetUpdateJoinState == TryHost \/ HostConnected \/ HostRefused

\* Gatherers come and go.
ListeningChanges ==
  /\ main = "connecting"
  /\ listening' \in SUBSET Address
  /\ UNCHANGED <<main, boundVars, joinVars, pool, networkInterface, taskVars, switchVars,
                 callVars, queueVars>>

\* The joiner is gathered, and the gatherer starts the game (Gathering). What
\* was asked for, and who listens, plays no part from here on.
Gathered ==
  /\ main = "joined" /\ main' = "ready"
  /\ host' = [host EXCEPT !.specified = FALSE, !.asked = {}]
  /\ joined' = Nowhere /\ listening' = {}
  /\ UNCHANGED <<server_nbc, pool, boundVars, networkInterface, taskVars, switchVars, callVars,
                 queueVars>>

----------------------------------------------------------------------------
(* The game begins: StarGameProtocol::Sync.                                  *)

MainGoes(from, to) == main = from /\ main' = to

\* New queues, which reset the player's action flags. (Model bound: games are
\* played in the first session only; the second one is there to join again.)
SyncQueues ==
  /\ main = "ready" \/ (main = "down" /\ ~alone)
  /\ main' = "sync_hub"
  /\ sessions = 1 \/ alone
  /\ game < MaxGames /\ game' = game + 1
  /\ there' = there \cup {"queues"}
  /\ queue' = ResetQueue(queue) /\ given' = 0 /\ taken' = <<>> /\ inHand' = NoFlags
  /\ UNCHANGED <<alone, sessions, joinVars, poolVars, taskVars, isServer, hubIsLocal, spokeActive,
                 connected, hubActive, callVars>>

gameRest == <<boundVars, joinVars, poolVars, mutex, isServer, callVars, queueVars>>

\* hub_initialize
SyncHub ==
  /\ MainGoes("sync_hub", IF alone THEN "synced" ELSE "sync_spoke")
  /\ hubIsLocal' = isServer
  /\ IF isServer
     THEN there' = there \cup {"hub"} /\ hubActive' = TRUE /\ SetUp("hub")
     ELSE UNCHANGED <<there, hubActive, task, outstanding>>
  /\ UNCHANGED <<spokeActive, connected, gameRest>>

\* spoke_initialize, up to sSpokeActive, and from there.
SyncSpoke ==
  /\ MainGoes("sync_spoke", "sync_active")
  /\ there' = there \cup {"spoke"} /\ connected' = TRUE
  /\ UNCHANGED <<hubIsLocal, spokeActive, hubActive, task, outstanding, gameRest>>

SyncActive ==
  /\ MainGoes("sync_active", "playing")
  /\ spokeActive' = TRUE /\ SetUp("spoke")
  /\ UNCHANGED <<hubIsLocal, connected, hubActive, there, gameRest>>

----------------------------------------------------------------------------
(* The callbacks, all with the mutex taken: ticks of the hub and the spoke,  *)
(* and packets. Stages: "in", then "packet" when the spoke has taken a       *)
(* packet of the hub and "tick" otherwise, then "stored".                    *)

callRest == <<main, boundVars, joinVars, poolVars, isServer, hubIsLocal, spokeActive, there,
              keepListening, taken, inHand>>

\* While the main thread joins, or waits for its gatherer, packets would change
\* nothing.
PacketArrives ==
  /\ receiver = "listening" /\ receiver' = "due"
  /\ main \notin {"connecting", "joined", "failed", "waiting", "fetching", "setup", "gathering",
                  "changing"}
  /\ UNCHANGED <<taskVars, connected, hubActive, touches, stage, queue, given, callRest>>

\* receive_async has timed out.
ReceiverEnds ==
  /\ receiver = "listening" /\ ~keepListening /\ receiver' = "ended"
  /\ UNCHANGED <<taskVars, connected, hubActive, touches, stage, queue, given, callRest>>

TaskWakesUp(t) ==
  /\ WakesUp(t)
  /\ UNCHANGED <<connected, hubActive, receiver, touches, stage, queue, given, callRest>>

OfSpoke == {"spoke", "queues"}

TickBegins(t) ==
  /\ Calls(t)
  /\ touches' = {"socket"} \cup (IF t = "hub" THEN {"hub"} ELSE OfSpoke)
  /\ stage' = "in"
  /\ UNCHANGED <<connected, hubActive, receiver, queue, given, callRest>>

PacketBegins ==
  /\ receiver = "due" /\ receiver' = "calling"
  /\ Takes("receiver")
  /\ touches' = {"socket"} /\ stage' = "in"
  /\ UNCHANGED <<task, outstanding, connected, hubActive, queue, given, callRest>>

\* spoke_received_network_packet and hub_received_network_packet return at
\* once when they are not active.
SpokeReceives(active, online) == active /\ online

\* PacketHandler hands a packet to the hub or to the spoke; a spoke's tick
\* sends to the hub; the local hub sends to the spoke.
Deliver ==
  /\ stage = "in"
  /\ LET toHub   == mutex # "hub" /\ hubIsLocal /\ hubActive
         toSpoke == /\ SpokeReceives(spokeActive, connected)
                    /\ toHub \/ mutex = "hub" \/ (mutex = "receiver" /\ ~hubIsLocal)
     IN /\ touches' = touches \cup (IF toHub THEN {"hub"} ELSE {})
                              \cup (IF toSpoke THEN OfSpoke ELSE {})
        /\ stage' = IF toSpoke THEN "packet" ELSE "tick"
  /\ UNCHANGED <<taskVars, connected, hubActive, receiver, queue, given, callRest>>

\* A spoke without a hub provides its player's flags itself.
Store ==
  /\ stage = "packet" \/ (stage = "tick" /\ mutex = "spoke" /\ ~connected)
  /\ given < MaxTicks /\ AvailableCapacity(queue) > 0
  /\ queue' = Stored(queue, <<game, given + 1>>) /\ stage' = "stored"
  /\ UNCHANGED <<taskVars, connected, hubActive, receiver, touches, given, callRest>>

Returns ==
  /\ touches' = {} /\ stage' = "none"
  /\ \/ \E t \in Task : ReturnsFrom(t) /\ UNCHANGED receiver
     \/ /\ Releases("receiver") /\ UNCHANGED <<task, outstanding>>
        /\ receiver' = IF keepListening THEN "listening" ELSE "ended"
  /\ UNCHANGED <<hubActive, callRest>>

Finish ==
  /\ stage \in {"packet", "tick", "stored"}
  /\ IF stage = "stored" THEN queue' = Enqueued(queue) /\ given' = given + 1
     ELSE UNCHANGED <<queue, given>>
  /\ Returns /\ UNCHANGED connected

\* spoke_became_disconnected
GiveUpHub ==
  /\ stage = "in" /\ mutex = "spoke" /\ connected /\ connected' = FALSE
  /\ Returns /\ UNCHANGED <<queue, given>>

\* hub_check_for_completion, when everybody has acknowledged the last tick
\* or is given up; in a game, when no player of a standalone hub is left.
HubCompletes ==
  /\ hubActive /\ hubActive' = FALSE
  /\ \/ main = "wind_down" /\ (mutex = Nobody \/ "hub" \in touches)
     \/ alone /\ main = "playing" /\ "hub" \in touches
  /\ UNCHANGED <<taskVars, connected, receiver, touches, stage, queue, given, callRest>>

----------------------------------------------------------------------------
(* Playing: update_world takes the flags from the queue.                     *)

playRest == <<boundVars, joinVars, poolVars, taskVars, switchVars, callVars, given>>

ReadFlags ==
  /\ MainGoes("playing", "taking")
  /\ CountActionFlags(queue) > 0
  /\ inHand' = Front(queue)
  /\ UNCHANGED <<queue, taken, playRest>>

TakeFlags ==
  /\ MainGoes("taking", "playing")
  /\ queue' = Dequeued(queue) /\ taken' = Append(taken, inHand) /\ inHand' = NoFlags
  /\ UNCHANGED playRest

----------------------------------------------------------------------------
(* The game ends: UnSync, with spoke_cleanup and hub_cleanup.                *)

endRest == <<boundVars, joinVars, poolVars, isServer, hubIsLocal, connected, hubActive, callVars,
             queueVars>>

\* The mutex is released before the task is waited for. (Mutant: after it.)
\* What spoke_cleanup sends last is left out, like all that is sent here.
StillHeld(m) == "main"
LetGo(m) == Nobody

StopSpoke ==
  /\ ~alone /\ MainGoes("playing", "join_spoke")
  /\ mutex = Nobody /\ mutex' = LetGo(mutex)
  /\ Remove("spoke") /\ spokeActive' = FALSE
  /\ UNCHANGED <<there, endRest>>

JoinTask(from, to) ==
  /\ MainGoes(from, to) /\ CleanUp
  /\ UNCHANGED <<mutex, spokeActive, there, endRest>>

Clear(from, what, to) ==
  /\ MainGoes(from, to) /\ there' = there \ {what}
  /\ UNCHANGED <<taskVars, spokeActive, endRest>>

StopHub ==
  /\ MainGoes("wind_down", "join_hub")
  /\ ~hubActive /\ Remove("hub")
  /\ UNCHANGED <<mutex, spokeActive, there, endRest>>

UnSync ==
  \/ JoinTask("join_spoke", "clear_spoke")
  \/ Clear("clear_spoke", "spoke", IF hubIsLocal THEN "wind_down" ELSE "delete")
  \/ StopHub
  \/ JoinTask("join_hub", "clear_hub")
  \/ Clear("clear_hub", "hub", "delete")
  \/ Clear("delete", "queues", "down")

----------------------------------------------------------------------------
(* NetExit, from the dialogs or after a game.                                *)

exitRest == <<boundVars, mutex, isServer, hubIsLocal, spokeActive,
              connected, hubActive, touches, stage, queueVars>>

StopListening ==
  /\ main \in IF alone THEN {"dropped"}
              ELSE {"connecting", "joined", "failed", "ready", "down"}
  /\ main' = "exit"
  /\ CleanUp /\ keepListening' = FALSE
  /\ host' = [host EXCEPT !.specified = FALSE, !.asked = {}]
  /\ joined' = Nowhere /\ listening' = {}
  /\ UNCHANGED <<server_nbc, pool, networkInterface, there, receiver, task, exitRest>>

CloseSocket ==
  /\ MainGoes("exit", "closed")
  /\ receiver = "ended" /\ receiver' = "none" /\ there' = there \ {"socket"}
  /\ UNCHANGED <<host, joined, listening, server_nbc, pool, networkInterface, keepListening,
                 task, outstanding, exitRest>>

ResetInterface ==
  /\ MainGoes("closed", "out")
  /\ pool' = Abandoned(pool, server_nbc) /\ server_nbc' = NoSlot
  /\ networkInterface' = FALSE
  /\ UNCHANGED <<host, joined, listening, there, receiver, keepListening, task, outstanding,
                 exitRest>>

NetExit == CloseSocket \/ ResetInterface

\* A thread of an abandoned try uses the interface that NetExit has reset. A
\* packet that completes the hub goes on using the hub's players; main waits
\* for sHubActive without the mutex, and may have cleared them.
Crash ==
  /\ \/ ~networkInterface /\ \E s \in Slot : UsesInterface(s)
     \/ "hub" \in touches \ there
  /\ main' = "crashed"
  /\ UNCHANGED <<boundVars, joinVars, poolVars, taskVars, switchVars, callVars, queueVars>>

PoolThread(s) ==
  /\ ThreadStep(s)
  /\ UNCHANGED <<main, boundVars, joinVars, taskVars, switchVars, callVars, queueVars>>

----------------------------------------------------------------------------
Sync == SyncQueues \/ SyncHub \/ SyncSpoke \/ SyncActive
Callback == Deliver \/ Store \/ Finish \/ GiveUpHub

Next ==
  /\ main # "crashed"
  /\ \/ Gather \/ (\E n \in Name : JoinByName(n)) \/ JoinBySearch
     \/ Retarget \/ NetUpdateJoinState \/ ListeningChanges \/ Gathered
     \/ Sync \/ ReadFlags \/ TakeFlags \/ StopSpoke \/ UnSync
     \/ StopListening \/ NetExit \/ Crash
     \/ \E s \in Slot : PoolThread(s)
     \/ PacketArrives \/ ReceiverEnds \/ PacketBegins
     \/ \E t \in Task : TaskWakesUp(t) \/ TickBegins(t)
     \/ Callback \/ HubCompletes

Spec == Init /\ [][Next]_vars

\* The main thread goes on with what it has begun, each thread is given time
\* and, when it waits for the mutex, gets it some day. That a hub that winds
\* down completes in the end is CleanupEnds of StarHub.
Fairness ==
  /\ WF_vars(NetUpdateJoinState) /\ WF_vars(Sync) /\ WF_vars(UnSync) /\ WF_vars(NetExit)
  /\ \A s \in Slot : WF_vars(PoolThread(s))
  /\ \A t \in Task : WF_vars(TaskWakesUp(t)) /\ SF_vars(TickBegins(t))
  /\ SF_vars(PacketBegins) /\ WF_vars(ReceiverEnds) /\ WF_vars(Callback)
  /\ SF_vars(main = "wind_down" /\ HubCompletes)

FairSpec == Spec /\ Fairness

----------------------------------------------------------------------------
(* Properties.                                                              *)

\* Pool and joiner agree on which slot is in use: the one of server_nbc, which
\* is not freed under its hands and has its channel once it is connected.
OwnTry ==
  /\ \A s \in Slot : ~pool[s].free <=> s = server_nbc
  /\ server_nbc # NoSlot =>
       /\ pool[server_nbc].try # NoTry
       /\ Status = "Connected" => pool[server_nbc].try.channel

\* Whatever names failed to resolve before, hosts were searched for and tries
\* are still under way: the joiner is connected to a host it was asked to join.
JoinsWhomItWasTold == main = "joined" => joined \in host.asked

\* A joiner does not wait for ever for a host that accepts connections.
GetsThrough ==
  []<>~(main = "connecting" /\ host.specified /\ host.asked \subseteq listening)

\* A tick or a packet that is being handled finds the queues, the players and
\* the socket it uses, whatever the main thread is taking down, although a
\* task may be called once after it was removed. (But for the hub's players,
\* which only its tick can rely on: Crash.)
NothingGoneIsTouched ==
  /\ touches \ {"hub"} \subseteq there
  /\ mutex = "hub" => "hub" \in there

\* Without a lock between them the game takes the flags that were put into the
\* queue, each once, in order and none of an earlier level. Nothing says that
\* it takes them all: the game may end.
QueueInOrder == INSTANCE Fifo WITH
  Value <- (1 .. MaxGames) \X (1 .. MaxTicks), given <- [i \in 1 .. given |-> <<game, i>>],
  stopped <- TRUE
ImplementsFifo == QueueInOrder!Order

\* Taking down the game, or the network, comes to an end: nobody waits for a
\* thread that waits for him.
TearingDown ==
  main \in {"join_spoke", "clear_spoke", "wind_down", "join_hub", "clear_hub", "delete",
            "reset", "dropped", "exit", "closed"}
TearDownEnds == TearingDown ~> main \in {"down", "out", "crashed"}
=============================================================================
