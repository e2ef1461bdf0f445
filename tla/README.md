# A TLA+ verification of Aleph One's network play

Aleph One runs the same deterministic simulation on every machine of a network
game and only exchanges the players' *action flags*, one word per player and game
tick (30 ticks a second). If two machines ever use different flags for one tick,
their worlds drift apart for good ("out of sync"). The code that keeps that from
happening, the star game protocol, is small, full of interleavings, and tested by
nothing in the repository (`src/tests` replays recorded films of single machines).
It is the core of this project; around it come what a machine does for a game to
begin and to end (gathering, connections, threads) and the queues between its threads.

## 1. The system

### Parts, state, operations

| Part | Source (`src/Source_Files/`) | State it keeps | Operations | What must be right |
|---|---|---|---|---|
| **Hub** of the star protocol | `Network/network_star_hub.cpp` | per player: queue of flags, of late flags, acknowledged tick, death tick, timing adjustment; four housekeeping queues (who is awaited, who must be sent its own flags, when a tick was sent), smallest incomplete and unsent tick, the lagging mask | `hub_initialize`, `hub_received_network_packet` (identification, game data), `hub_tick` (deaths, made-up flags, sends), `hub_cleanup` | queues in step, the books about who is awaited exact, sent flags final, everybody told the same, the end reached |
| **Spoke** | `Network/network_star_spoke.cpp` | outgoing and unconfirmed flags, smallest unreceived and unconfirmed tick, what it knows of the others' deaths, timing adjustment | `spoke_received_network_packet`, `spoke_tick` | its game is given what the hub decided, each tick once, in order |
| **Glue** | `Network/StarGameProtocol.cpp` | the queues the game reads | `Sync`, `UpdateUnconfirmedActionFlags`, `PacketHandler` | the same, across threads |
| **Tick queues** | `GameWorld/TickBasedCircularQueue.h` | read tick, write tick, circular buffer | `enqueue`, `dequeue`, `peek`, `reset` | bounds; one reader thread and one writer thread |
| **Timer tasks** | `CSeries/mytm_sdl.cpp` | list of tasks, one mutex for all | `myTMSetup`, `myTMRemove`, `myTMCleanup`, `thread_loop` | tasks exclude each other; no task uses what is taken down |
| **Gathering and joining** | `Network/network.cpp`, `network_messages.cpp`, `network_dialogs.cpp` | `netState`, a state per client, the topology, the players' colors, who chats | message handlers, `NetGather`, `NetGameJoin`, `NetUpdateJoinState`, `Client::drop`, `NetStart`, `NetExit` | gatherer and joiners agree on who plays; nobody is forgotten |
| **TCP messages** | `TCPMess/CommunicationsChannel.cpp` | half-received header and message, outgoing and incoming queue | `pump`, `dispatchIncomingMessages`, `connect`, `disconnect` | messages whole, in order, no remains of an old connection |
| **Connect pool** | `Network/ConnectPool.cpp` | slots, a thread and a status for each try | `connect`, `abandon`, `fast_free`, `Thread` | hand-over between threads; the right host |
| **UDP** | `Network/network_udp.cpp` | socket, receiving thread | `NetDDPOpenSocket`, `NetDDPCloseSocket`, `receive_thread_function` | no packet is handled after the end |
| **Action queues** | `Misc/ActionQueues.cpp` | a ring of flags per player | `enqueueActionFlags`, `dequeueActionFlags`, `resetQueue` | one writing and one reading thread; nothing of the last level |
| **Standalone hub** | `Network/StandaloneHub/` | waiting, in progress, quit; the gatherer's game data | `main_loop_hub` and its steps | ready for the next game after any end |
| Pinger | `Network/Pinger.cpp` | a table of pings | `Ping`, `StoreResponse`, `GetResponseTime` | a lock |
| Order statistics | `Misc/WindowedNthElementFinder.h` | a window and its sorted elements | `insert`, `nth_smallest_element` | equals sorting the window |
| Recording and replay | `Misc/vbl.cpp` | the film | `record_action_flags`, `check_recording_replaying` | replay equals play |
| Game world | `GameWorld/` | map, players, monsters, platforms ... | `update_world` | determinism |
| Metaserver, HTTP, port forwarding, service location, dialogs, Lua, XML, files, rendering, sound, video, input, shell | | | | not protocol code |

### How they interact

Every player's machine runs a spoke; one machine runs the hub, either the host
player's own (then hub and spoke of that machine hand each other their packets
by a call, `check_send_packet_to_spoke` and `check_send_packet_to_hub`, when a handler ends) or
a *standalone hub* without a player (`A1_NETWORK_STANDALONE_HUB`). Spokes send the hub their
player's flags for consecutive ticks together with the smallest tick they have
not received; the hub sends, per tick, the flags of all *other* players, with its
own acknowledgement, and news of deaths. Both repeat everything that is not
acknowledged. All goes through UDP.

On one machine the packet handlers run in the receiving thread and `hub_tick`,
`spoke_tick` in timer threads, all under `mytm_mutex`. The main thread runs the
game; it touches `sSmallestPostGameTick` and the queue of unconfirmed flags without the mutex,
and takes the action flags from queues that the spoke's handlers fill.

Before a game the machines talk over TCP. A joiner has the connect pool try a host, one thread
per try, and is then asked (`JoinPlayer`) by the gatherer's player, accepts, and is
sent the topology each time it changes until one says that the game starts. Both sides poll their
channels from the idle function of a dialog; what they have queued leaves with the next poll.
`NetEnter` opens the socket and starts the receiving thread, `StarGameProtocol::Sync` makes queues, hub and spoke and their
timer tasks, `UnSync` and `NetExit` take these down again while packets and ticks may still come.

### What is hard about it

* Packets are lost, repeated, delayed, reordered, and every one of them
  carries news on which three or four queues advance together.
* A player that is silent, or too far behind, is *net-dead*: it is struck off
  all books, and its flags end at one tick for everybody, although nobody
  receives that news at the same time. Packets have no mark of whose flags
  they hold: hub and spoke must agree on it.
* A few slow players may not hold a majority up: the hub then *makes up* flags
  for them, which the slow players must use instead of their own.
* Deaths happen in a loop and call each other.
* The hub may only stop when everybody has the last tick.
* Either side may give the other up while packets are under way.
* Joiners come, leave, lose their connection and change colors while the topology that
  names them is being sent around.
* Five kinds of threads share tables, statuses and queues, mostly without a lock, and one of
  them takes down what the others use.

PROJECT.json lists these as hazards, each at its line, with the properties that are about it.

## 2. The modules

| Module | What it is |
|---|---|
| `TickQueue` | The windows of a `ConcreteTickBasedCircularQueue`. |
| `StarProtocol` | Players, ticks: the constants both sides share. |
| `HubState` | The statics of `network_star_hub.cpp` as one record, its C++ functions as operators from record to record. |
| `StarHub` | The hub as a system: handlers, `hub_tick`, `hub_cleanup`, against spokes that send anything an honest spoke may have sent. |
| `SpokeState` | The same as `HubState` for `network_star_spoke.cpp`. |
| `StarGame` | Hub, spokes and network together. |
| `Lockstep` | The abstract promise: one growing sequence of decisions; everyone who has not left plays a growing beginning of it. |
| `FairStarGame` | `StarGame` with crashes and fairness. |
| `CircularTickBuffer` | The circular buffer under a window of ticks: places, remainders of negative ticks, a write in two steps. |
| `OwnFlags` | A player's own flags, from the keyboard to the hub, the prediction and the game: spoke and game thread on two such buffers, in single reads and writes; of the hub, what it hears of the player and what it makes up for it. |
| `PlayerColors` | `reassign_player_colors` as operators. |
| `Gathering` | A gatherer, joiners and a connection for each: `Client`'s states, `netState`, topology, colors, chat clients. |
| `MessageChannel` | A `CommunicationsChannel`, byte by byte. |
| `ConnectPool`, `TimerTasks`, `ActionQueues` | The pool and its threads, the timer tasks and their mutex, a player's ring: parts without a specification of their own, |
| `GameSession` | which composes them with the main thread and the receiving thread of one machine, from `NetEnter` to `NetExit`. |
| `StandaloneHub` | The main loop of a standalone hub on top of `GameSession`, and the gatherer that commands it over TCP. |
| `Fifo` | The abstract promise of a queue between two: `Order`, its safety, and `Spec`, with delivery. `MessageChannel` implements `Spec`, the action queue in `GameSession` implements `Order`. |
| `HubStateProofs` | What each function of `HubState` does to types, bounds, late flags and the set of connected players. |
| `HubBooksProofs` | The same for the hub's books: windows, awaited masks, acknowledgements, reflected flags; and that each function goes onward. |
| `StarHubProofs` | The theorems about `StarHub`, action by action, on top of these two. |
| `StarGameProofs` | The theorems about `StarGame`, on top of the hub's: hub, spokes and the packets between them, and that they implement `Lockstep`. |
| `OwnFlagsProofs` | The theorems about the circular buffers under two threads and the flags that enter the game. |
| `GatheringProofs` | The theorems about `Gathering` and `PlayerColors`. |
| `SessionProofs` | The theorems about `GameSession` with `StandaloneHub`'s main loop: tear-down, pool, host, levels; and that its action queue implements `Fifo`'s order. |
| `ChannelProofs` | The theorem that `MessageChannel` does. |
| `MCStarHub`, `MCStarGame`, `MCFairStarGame`, `MCOwnFlags`, `MCGathering`, `MCMessageChannel`, `MCGameSession` | Instances for TLC. |
| `MCLoneGuest` | One course of `StarGame`, too long for an exhaustive run (section 5, item 2). |

How they fit: `StarHub` = `HubState` + `TickQueue` + the hub's threads; `StarGame` = `HubState` + `SpokeState` + network, implements `Lockstep`;
`OwnFlags` opens up the one step of `StarGame` that is not atomic in the program (`UpdateUnconfirmed`), and the theorem about it is why one step
is enough there; `Gathering` and `GameSession` begin where a player looks for a game and end where the star protocol begins or has
ended: `Gathered` of `GameSession` stands for a run of `Gathering`, its packets and ticks for those of `StarGame`. `StandaloneHub` adds the steps of
another main thread to `GameSession`, whose variable `alone` says which program the machine runs: `Sync` and `UnSync` without a spoke, `Reset` before `NetExit`, `NetEnter` again.

**Operators for functions.** A handler calls four or five functions, each of which
changes a dozen statics. `HubState` keeps them as operators on a record, so that
an action such as `ReceiveGameData` is the composition of exactly the calls of its handler:
`GameData` is `Acknowledged` then `FlagsReceived`, that ends in `Provided` and perhaps `Sent`.
A helper with "(Mutant: ...)" in its comment is preceded by one or two variants that hold a plausible mistake; no
specification uses them, they serve to test that the properties notice.

**What one action is.** Everything under `mytm_mutex` is atomic for the rest of the
program, so a handler is one action. In `StarHub`, where the main thread works without
the mutex, the loop of `hub_tick` is one action per iteration (`turn` is its index), and
`SignalDemise`, the unprotected assignment, may fall between any two. `StarGame` has no
such main thread on the hub and takes `hub_tick` as one step. Where threads meet without the mutex an action is
one store or load: the buffer and the index of a ring are written in two steps (`Stored`, then `Advanced` or `Enqueued`),
a value that is read and used later is held in a variable in between (`hand`, `inHand`), a callback in `GameSession` has a beginning,
a delivery, a store and an end between which the main thread may do anything that needs no mutex. Stores are seen in program order, as on x86;
the code itself uses neither atomics nor barriers for these variables. `Gathering` takes one message or one call of an idle function as a step: each program there is one thread.

**Data.** Flag words are reduced to where they come from: the player
(`"sent"`), the hub (`"made"`), nobody (`"dead"`). Two machines agree on a tick iff they
agree on these, as each source has one word per tick. (When the spoke is told its own flags are
made up, it takes those of the packet.) In `OwnFlags` a flag is where it comes from and the tick it was sampled for. Window elements are functions of the tick.

In `Gathering` a player is its stream, its identifier and its colors; in `MessageChannel` a byte is its message and its place;
in `GameSession` a flag is its level and its number, a packet "one more flag or none".

**Time.** `sNetworkTicker` only occurs in differences to a few earlier readings; the model
keeps the differences and stops counting where the comparisons stop telling them
apart. `MaxSilence` and `MaxHubSilence` may be set below the limits for runs without deaths.

**Choices.** A full timing window asks for any of `Adjustments`; whether a spoke is due a
recovery update (a question of measured latency) is free; how much room the game's
thread has left in the queues is any of `Rooms`.

**Assertions.** A release build has no `assert`. `broken` collects the lines of those that
fail, and the state goes on as the release build would.

## 3. What the runs check

All runs are exhaustive. The scaled-down constants stand for: queue capacity `kFlagsQueueSize`, pregame window,
send, minimum send and recovery periods, silences before net death, the three ticks of an
incremental packet (`IncrementalTicks`), the 8 to 60 of a recovery update (`RecoveryTicks`), the 15 flags
of a spoke's queues (`OutgoingSize`).

| Run | Question | Bounds, and why they do |
|---|---|---|
| `hub_listen` | Does the hub of a host keep its books in step? Type, windows, awaited masks, acknowledgements, capacity, held flags, reflected flags, late flags, assertions, finality | 3 players (a majority and a minority; two deaths in one tick), ticks 0-2 (pregame, first game tick, one more), queues of 2, so that every limit is met; all packets an honest spoke can have sent, however old |
| `hub_standalone` | The same books without a local player; deaths that call each other; the player of reference | as before |
| `hub_cleanup` | Does the wait in `hub_cleanup` end, and does a hub that has shut down leave anyone behind? | 2 players, ticks 0-2, adjustments 0 and 1, both kinds of cleanup at any moment; fairness as below |
| `game_two` | Do host and guest play the same, whatever the network does? Refinement of `Lockstep` | InFlight 2: any of the last two packets of a channel arrives at any time, any number of times or never; both sides may give up; room 0, 1 or plenty |
| `game_makeup` | The same for three players with made-up flags; does a player that was held up catch up (`CatchesUp`)? | ticks 0-2: made-up flags can only follow a game tick that all have sent; a spoke's queue of 1, shorter than the hub's, so that a spoke has to wait and its flags are made up; `MaxSilence` 0: nobody is given up for silence, only for late acknowledgements; InFlight 1 |
| `game_starved` | The same with recovery updates no longer than a spoke's queue (section 5) | as before, hub's queue 3 |
| `game_death` | The same for three players with deaths, packets in full (`BandwidthReduction` off) | InFlight 1 |
| `game_crash` | Does anybody wait for ever, for a packet that was lost or for a machine that stops? | 2 players, ticks 0-1, InFlight 1, either machine stops at any time, or none; fairness as below |
| `own_flags` | Do game thread and spoke always read the right flags, without a lock and below tick zero? Does the game get what the hub decided, each own flag once, while the spoke is in company, and nothing early when it is alone? | buffers of 2 (3 places), ticks -2 to 3, so that both go round twice and meet both ends; packets of any age, with any beginning and end, of which any part may be read |
| `gather` | Do gatherer and joiners agree on players, colors and chat clients, and does everybody hear of start or cancellation? | 2 joiners, one change of color, one mishap (a joiner that leaves, is not gatherable or loses its connection), at any moment |
| `channel` | Whole messages, in order, of this connection only, all of them? | header of 2 bytes, bodies of 0 and 2, a socket that takes 3: a piece may end anywhere; 3 messages, 3 connections |
| `session` | Does a machine, a player's or a standalone hub, take down only what nobody uses? Does a joiner get the host it asked for? Does the action queue keep order? Does a hub run each level with what it was sent for it, until that level is ended (`LevelsStayApart`)? Does tearing down end? | 2 slots of the pool (one for a name that never resolves), 2 hosts, 2 names; 2 sessions, 2 levels (a player's both in the first session, a hub's in one session or one in each), 3 ticks each in a ring of 2; the initial states choose the build |

A limit of `session`: with two sessions, a player's games are played in the first only; what the second adds are the tries and the host address left behind by the first.

Two packets in flight are enough to overtake, to be repeated after a newer one, and
to be delivered late; what an older packet can say is bounded by what `StarHub`'s
spokes may send, and `HonestPackets` (checked in `game_two`, proved in `StarGameProofs`) ties the two models together: every packet
of the composed system is one `StarHub` allows. So the hub's properties, checked there against
*any* old packets, hold in the game.
`FirstTick` is 0 and the pregame one tick, where the program has -90 and 90 (`kPregameTicks`, three seconds); ticks are only compared and subtracted.

### Fairness

`StarHub!FairSpec`: the timer task runs again and again and the main thread gets the mutex in the
end (strongly fair: others hold it in between); a connected spoke acknowledges
everything again and again or is silent for longer than allowed. The last is what the
protocol itself works for; `FairStarGame` derives it from fair delivery.

`FairStarGame`: timers and game threads of machines that have not stopped run for ever
(`thread_loop` does not end while the game lasts), a channel to the hub that is used delivers now and then, and
of the updates that start where a player's game stands the network loses not all. The hub sends those at least every half second
(`send_packets`, "never send fewer than 2 full updates per second"); were only the other packets fair, a
network could deliver the three last ticks for ever to a player that waits for an older one. The actions are always enabled, if only
to no effect, so that fairness is "taken again and again": the variable `last` says which was
taken, and fairness is a temporal formula about it. (Stating it with WF of the
composed actions is equivalent but makes TLC evaluate ENABLED of large compositions.) The
network does not repeat a stopped hub's packets for ever; otherwise a spoke would never notice.

`MessageChannel!ChannelFairness`: both sides pump again and again, and what is received is handled (dialogs and game loops do nothing else).
`GameSession!Fairness`: every thread is given time (weak fairness of its steps), one that waits for the mutex gets it some day (strong: others take it in between, and a
mutex of the operating system does not starve a waiter for ever), and the main thread goes on with what it has begun. That it ever begins to leave is not assumed, nor
that packets arrive. `HubCompletes` is strongly fair while the hub winds down, on the strength of `CleanupEnds` of `hub_cleanup`. `HubFairSpec` adds that a standalone hub's main loop goes on (`main_loop_hub` polls for ever); its gatherer need not do anything. `Gathering` states no fairness: `NobodyWaitsInVain` is an invariant of
the states in which nothing is under way any more.

## 4. What is proved

The eight proof modules hold 35 theorems that TLAPS checks. They are about all values of the constants that the modules' assumptions
allow: any number of players, length of the game, size of queues, rings, pool and messages, joiners, players and colors.

| Theorem (module) | Says |
|---|---|
| `TypeCorrect` (`StarHubProofs`) | `Spec => []TypeOK`: every handler, in any order and for any packet an honest spoke may have sent, leaves the hub's statics well formed |
| `LateFlagsStayBehind` | `Spec => []LateBehindFlags`: the assertion of line 826 never fails, and no late flag is dequeued that is not there |
| `ReferenceStaysConnected` | `Spec => []ReferenceConnected`: on a standalone hub the player whose acknowledgement `hub_tick` compares with the others' is always a connected one |
| `LastTwoDieTogether` | `Spec => NobodyLeftAlone`: no step leaves exactly one of several players connected to a standalone hub |
| `WindowsKeepAgreeing` | `Spec => []WindowsAgree`: the housekeeping queues hold the same ticks, and each player's queue fits them |
| `AwaitedStaysExact` | `Spec => []AwaitedExactly`: the masks name exactly the connected players that owe an acknowledgement or flags |
| `AcksStayWithinSent` | `Spec => []AcksWithinSent`: nobody acknowledges what was not sent, and what is not acknowledged is held |
| `QueuesStayWithinCapacity` | `Spec => []QueuesWithinCapacity`: one test of room, on the sender's queue, is enough for all of them |
| `SendsOnlyHeldFlags` | `Spec => []SendsHeldFlags`: `send_packets` only peeks flags that are held, also of players that died |
| `MadeUpFlagsAreReflected` | `Spec => []ReflectedIffMadeUp`: a player is sent its own flags back for exactly the ticks the hub made up |
| `OnlyOneAssertionFails` | `Spec => []OtherAssertionsHold`: with anybody connected, only the assertion of line 963 can fail (section 5, item 3) |
| `DownAfterAllAcked` | `Spec => []DownMeansAllAcked`: a hub that has shut down with the game's end told leaves nobody without its last ticks |
| `SentStaysFinal` | `Spec => SentIsFinal`: held flags are never replaced, complete ticks stay complete, nobody's flags end before a tick that was sent |
| `GameStaysSound` (`StarGameProofs`) | `GameSpec => []GameInv`: the inductive invariant of a network game |
| `PacketsAreHonest` | `GameSpec => []HonestPackets`: the packets that reach the hub are those that `StarHub` allows |
| `FlagsAreWhoseTheySeem` | `GameSpec => []NeverGarbled`: hub and spoke agree on whose flags a packet holds, whenever either learns of a death |
| `AssertionsHoldInPlay` | `GameSpec => []AssertionsHoldInCompany`: no assertion of the spoke's packet handler fails for the host's player or for anybody who has somebody to play with, and only that of line 589 for others |
| `GameStaysInSync` | `GameSpec => []SameGame`: everyone who is not on its own is given the flags that the hub decided on |
| `GameIsLockstep` | `GameSpec => ImplementsLockstep`: hub, spokes and network implement `Lockstep` |
| `EveryTickReadsItsFlags` (`OwnFlagsProofs`) | `Spec => []PeeksItsTick`: for buffers of any size and any first tick, no interleaving of the spoke with the game's thread lets a tick in the window read as another one's flags |
| `OwnFlagsEnterOnce` | `Spec => []OwnFlagsOnce`: until the spoke has taken itself for the only one left, each own flag enters the game at most once, none that is confirmed is lost, and with a hub each tick of the game uses what the hub decided for it; with a hub nothing enters before its tick, not even then |
| `NothingIsUsedWhenGone` (`SessionProofs`) | `HubFairSpec => []NothingGoneIsTouched`: no callback or packet uses what the main thread has taken down |
| `PoolAndJoinerAgree` | `HubFairSpec => []OwnTry`: pool and joiner agree on the slot in use, whose channel is there once it is connected |
| `JoinsOnlyWhomItAskedFor` | `MaxSessions <= PoolSize => (HubFairSpec => []JoinsWhomItWasTold)`: a joiner gets a channel to a host it was told to join |
| `LevelsAreKeptApart` | `HubFairSpec => []LevelsStayApart`: a standalone hub runs each level with its own data until its own end |
| `FlagsAreTakenInOrder` | `HubFairSpec => ImplementsFifo`: the action queue implements `Fifo!Order` under the refinement mapping of `GameSession` |
| `GatheringInvariant` (`GatheringProofs`) | `Spec => []IInv`: what a gatherer, joiners and connections know of each other fits together, whatever is under way |
| `TypesOfGathering` | `Spec => []TypeOK`: the variables are what they should be, and an identifier in the topology has been given before |
| `ListsOfGathering` | `Spec => []ListsMatchClients`: the dialog's list and the topology have exactly the clients that are in the states for it, each once |
| `TopologyIsTold` | `Spec => []TopologyConverges`: everybody in the topology has it, or it is the last one on its way to him; nobody meets a topology or session he ignores |
| `ChatIsTold` | `Spec => []ChatInfoConverges`: the same of the list of chat clients; nobody is told of a change of a client he does not know |
| `SameTopology` | `Spec => []SameTopologyAtStart`: whoever starts, starts with the gatherer's topology, in which he is once, and with the session |
| `ColorsOfGathering` | `Spec => []ColorsDistinct`: no two players wear one color, for any number of colors, players and teams |
| `NobodyWaits` | `Spec => []NobodyWaitsInVain`: when nobody has anything left to do, nobody waits for an answer, the start or a gatherer that is gone |
| `MessagesArriveInOrder` (`ChannelProofs`) | `ChannelSpec => InOrder!Order`: so does a channel, for messages of every size and sockets that cut the bytes anywhere |

### The hub

`HubInv` is the conjunction of `TypeOK`, `hub \in BoundedHubs` and `LateInStep(hub)`.
`TypeOK` is not inductive alone: `make_up_flags_for_first_incomplete_tick` puts the smallest incomplete tick among the made-up,
reflected and awaited ones, so that it has to be one of the game's ticks. `BoundedHubs` says that it is no earlier than the first
tick and that nobody has provided flags beyond the last, which every function that moves either of them has to keep.
`LateInStep` needs the types, the bounds of packets (`FlagsReceived`) and the way late flags are folded (`Collapsed`).
The proof follows the code: one lemma per C++ function and part of the invariant, composed as the calls are composed,
up to one lemma per handler, and `HubInvStep` with one step per action of `Next`.

`ReferenceIsMember(hub)` is added for the standalone hub. Every function but the first half of `make_player_netdead`
leaves `connected` and `reference` alone (`MembersStep`); that half passes the reference on to a player that is left
(`MarkNetDeadMembers`), and the whole of it, with the death of the last player in the middle, ends with none or with more than one
(`NetDeadMembers`).

`BooksInv == HubInv /\ Books(hub)` carries the seven theorems about the books. `Books` asks for `InOrder` while anybody is connected: the windows,
each player's queue within them, acknowledgements within what was sent, both halves of the masks, `MadeUpTold` and `OneAssertion`. The seven
hold together or not at all: `AwaitedExactly` says when a tick completes, so that the windows agree; the windows say which ticks a packet's acknowledgement can name,
so that the masks stay exact; and `deadTick <= flags.w`, which no property states, is what keeps a dead player's flags sendable. Between the two halves of
`make_player_netdead` the books are *not* in order: the dead player is not connected any more but still in the masks. `HubBooksProofs` therefore
states what the second half needs of the first, and that a nested death in the middle gives it as well.

`HubBooksProofs` also composes *steps*: `Onward(h, k)` is reflexive (each function keeps it from the record it gets to the one it returns) and transitive,
so that the calls of a handler add up to `Onward(hub, hub')`, which contains `SentIsFinal`. Transitivity of "held in both, hence the same" needs that
a tick held before and after was held in between: windows only move up. `EndInOrder` says what `hub_cleanup` may rely on: `sHubActive` is cleared with cause,
and a cause once there does not go away, although the end of the game is written without the mutex between any two steps.

### The game

`GameInv` says what must hold at once for two machines never to disagree, for any number of players and of packets under way:

* of the hub (`HubSound`) what `StarHubProofs` proves of it, plus `unsent <= incomplete <= disp.w` also when nobody is left;
* of the tape (`TapeSound`) that each tick sent was decided once: a player is dead on it from its death tick on and at no other, and while the tick is held
  its flags are made up iff the hub's mask says so. That the mask is exact (`Books`) is what makes a packet repeat what the tape says;
* of a spoke (`SpokeSound`) that it *learns of each death in time*: from whom it takes for connected the hub has flags for the next tick that the spoke has not received
  (`PeerKnown`). That is the heart of `NeverGarbled`: a packet has no mark of whose flags it holds, so for each tick in it the spoke's list of players must be the hub's. Further, that it has received no more than was sent
  and no less than it has acknowledged (`SpokeInWindow`), and that what it has received is on the tape (`SpokePlays`);
  and of its queues (`SpokeQueues`) that they are *in step*, all at the tick it waits for, with every unconfirmed flag that the hub may still lack, or it was alone and has *gone ahead*
  and everybody else is dead by the tick it waits for, so that whatever still comes holds at most its own flags. In the second case its own queue may be ahead of that tick, which is where line 589 bites;
* of a packet to a spoke (`ToSpokeSound`) that it holds successive ticks of the tape, for exactly the players that are not dead in each, and tells every death that its
  addressee needs for reading it, and that the hub acknowledges beyond what it holds and sends nothing back to its own player (`OwnFlagsHeld`, for which the hub's proofs show that it makes up no flags for that one); of a packet to the hub (`ToHubSound`) that it acknowledges what was sent and received, and leaves no gap.

None of the parts is inductive alone. A packet is sound *for the hub and the spoke as they are when it arrives*, so that each step of either has to keep every packet under way sound. For the hub's steps that follows from
four facts about a handler (`HubStep`, `DeathAfterSent`, `TapeKept`, `WindowOnward`): nobody dies before a tick that was sent, the tape only grows, windows only move up, the dead stay dead; for the spoke's from `SpokeOnward`: it finds nobody again and goes back nowhere.
Hence an old packet, or a repeated one, needs no case of its own. The proof has one lemma per part and kind of step (`TapeStep`, `SpokeStep`, `ToSpokeStep`, `ToHubStep`, `PacketHeardSound`, `ByItselfSound`, `FreshPacket`), a lemma for each way of ending a handler, and `GameInvNext` with one step per action.
The loop of `hub_tick`, which `StarGame` takes as one step, is an induction over its iterations (`CheckedLoop`) inside a state.

A player that is *alone* is excepted where the program excepts it: when it takes all others for dead it goes on by itself, and the hub may have dropped it in the meantime, so that "received is at most sent" and "acknowledged is at most received" hold unless it is alone,
and the only player left at a hub keeps what is sent and complete together (`OnlyPlayersFlags`, `OnlyPlayerSent`).

`PacketsAreHonest` ties the models together: the hub's theorems assume packets that an honest spoke may have sent, and here it is proved that spokes send no others. `GameIsLockstep` needs besides `GameInv` that each step is onward for tape and spokes at once
(`GameOnward`): `DecidedTicks` grows, the dead stay dead on it (`DeadOnTape`), and what each player that has not left has played is a growing prefix of it (`PlayedGrows`). TLC checked `GameInv` as an invariant on the instances of `game_two`, `game_death` and `game_makeup` before it was proved.

### The circular buffers and the player's own flags

`OwnFlagsProofs` first settles the arithmetic: the writer's loop and the reader's, with C's remainder, find the same place for every tick, below zero
too (`SamePlace`), and ticks less than a buffer's size apart have different places (`StoredApart`); the remainder is characterised by uniqueness of quotient and remainder, which
SMT is given step by step. The inductive invariant then says of each queue that it has an order and a limit (`r <= w`, no more than the capacity), that its ticks read
right, and of each thread what it may rely on between two of its steps: the place that was stored but not yet counted (`spoke = "stored"`), a smallest unconfirmed
tick that may be beyond the last sampled one while flags are made up, and that only the game's thread moves `r`, only the spoke `w`. The theorem is what lets `StarGame` treat
`UpdateUnconfirmedActionFlags` as one step and the queues as windows.

That a tick to be confirmed is in the queue (the assertion of line 536) is not a guard of the model but follows from three further parts: the hub has heard what it did not make up (`HubHasAll`),
a packet ends where the hub did and holds nothing made up unless it reflects (`PacketSound`), and in company the first unreceived tick is the first unconfirmed one (`InStep`); `ReadsSampled` puts them together.

`OwnFlagsOnce` distinguishes a spoke in company from one that is `alone`: one that has received a packet without flags after all others have died, has confirmed everything at once and has taken up the game at
the hub's acknowledgement (lines 428-463). What the hub reflects to such a spoke is enqueued where the queue is (lines 571-593), so an own flag may enter once more, later than its tick,
and ticks that this has pushed the counter past are no longer confirmed from the spoke's own queue (section 5, item 2): without `~alone` the part `InCompany` fails, which TLC shows in a few seconds. `TapeInv` says, with `Decided`, the first tick that
is not decided on (the spoke's counter is one off it between the two steps of a confirmation): in company everything below it is on the tape, nothing else is, nothing twice (`Entered`), and each entry is the hub's decision for its
tick (`AsDecided`), which later decisions do not touch (`MakingUpLater`). While there is a hub the tape's length is `Decided - RealTick`, alone or not, and since the first unreceived tick
is never beyond the first unconfirmed one, nothing enters early (`OnTime`). When the hub is lost these two halves are given up and `Entered` still holds. TLC checked `IInv` and `TapeInv` as invariants before they were proved.

### Threads, pool and levels

All theorems of `SessionProofs` are about `HubFairSpec`, so that one proof covers a player's machine and a standalone hub; fairness is not used.

`ThereInv` says, for every stage of the main thread, which tasks may still run, what they may use, and what is there (`StagesOfMain`). The decisive part is that a task that runs
is *outstanding* until `myTMCleanup` has waited for its thread: a task that was removed may call once more, but only before the main thread passes `join_spoke` or `join_hub`. `CallersHoldTheMutex` excludes the rest.
The hub's own players are not in it: section 5, item 7.

`OwnTry` needs of each slot what its thread is doing and that a status says more than the thread has done only in the order channel, status, end (`OneTry`).
`JoinsWhomItWasTold` was not inductive for a reason that says something about the code: a name that does not resolve takes its slot for ever, and when no slot
is left `connect` returns nothing (`network.cpp:1614`), and the next poll tries `host_address` (2418) instead, which is what an earlier join left there. TLC finds the violation with one slot and two sessions.
Hence the hypothesis `MaxSessions <= PoolSize`; the code has 20 slots (`kPoolSize`, `ConnectPool.h:95`), and a session is a whole run of the dialog for joining, so that a player has to give up on 20 bad names in
one run of the program. `FewLeftBehind` counts the slots that are left behind: at most one a session.

`LevelsInv` enumerates, per stage of the hub's main loop, how far its gatherer can be and what can be in the stream between them: at most the end of this level and the data of the next.
It is an exact description, because `LevelsStayApart` depends on everything the two have said to each other.

`QueueInv` is about a ring between two threads: the flags given and not taken lie in consecutive places, fewer than the ring has; a flag that is stored but not counted lies behind them; what is in the main thread's hand is the first.
That no callback gives flags while the ring is being reset comes from `ThereInv`. The step of the refinement is an `Append` to `given`, a `Take`, a new level or a stutter.

### Gathering

`GatheringProofs` sees what was sent and has not been heard as one *pipe* each way (`Down`, `Up`): what is queued behind what is under way, as long as the connection is up. A pump moves the border
between the two and not the pipe, so that most of the proof need not know when programs pump. `IInv` says, for each stream,

* what the end of a connection takes along and what it leaves to be read (`Links`), how far netState and the handler's state can be apart (`Handlers`), that a joiner introduces himself once and that who has accepted is not joining still (`Introduced`, `Joined`);
* which clients the list and the topology have (`Lists`), and whose an identifier is, wherever it occurs: in an invitation, with the joiner, in his acceptance, in the topology (`Identifiers`). A player is found at the start by an identifier that was given when he was asked; what makes it his is that all four places agree;
* in which order things are in the pipe to a joiner: no topology before the session, no session after a topology, nothing about either after the topology that starts the game, and that one is the gatherer's own (`Sessions`); the last topology in it is the current one (`Told`);
* that what a joiner or a client waits for is in one of the pipes or can still be said (`Answers`);
* and of chat, that after *each* message of the pipe the joiner knows whom the next one is about, and after the last of exactly those the gatherer knows (`Chats`). `Unheard` says of whom it cannot know yet.

None of the properties is inductive without the parts about pipes, as each is about what somebody will find who reads later. The proof has one lemma for each part when the first message of a pipe is taken (`Take...`), when a connection is cut or a client forgotten (`Cut...`),
when a message is put (`CorePut` and its like), and then one per action (`...Step`), which composes these as the handler does. `NetUpdateJoinState` while joining handles any number of messages in one step: an induction inside a step over what `HeardAll` has heard.

`ColorsDistinct` rests on `reassign_player_colors`, which is two nested loops: that each round extends an injection from players to colors (`RoundWears`, `TeamsWear`), and that there is always a free color among as many as there are players (`FreeColor`),
as long as there are at most as many players as colors (`GatheringAssumption`; the code has 8 of both). That is the assertion `remap_index < num_players`, as a fact about the loop: fewer than n of n colors are taken.

The actions that end the gatherer's program (an assertion, a closed socket: section 5, items 6 and 8) are steps like any other; the properties say which of them still hold then.

### Messages

`ChannelInv` puts both ends at a place in the bytes of everything that was ever enqueued on this connection, laid end to end (`Laid`): the sender's place follows from what is left in its queue and its two positions,
the receiver's from what it has handled, what is incoming and what it holds of a header and a body; the bytes under way are exactly those between the two (`WireInStep`). A pump moves one place, `disconnect` cuts the wire, and `connect` starts anew.
Where each message begins is a function the invariant says exists (a sum of lengths, which would be recursive): the proof only extends it. Bodies of length 0, which come complete with their header, are cases of their own.

**Assumptions.** Those of the modules, which TLC evaluates in the runs: `PlayersAssumption`, `TicksAssumption`, `QueueAssumption`,
`TimingAssumption`, `SpokesAssumption`, `SpokeAssumption`, `GameAssumption`, `BufferAssumption`, `OwnFlagsAssumption`, `ColorsAssumption`, `GatheringAssumption`, `PoolAssumption`, `SessionAssumption`, `ChannelAssumption` and `NoMessageAssumption`
(the value for "no message" is not a message: a null pointer). Besides them the library's facts on finite sets and sequences, and well-foundedness of the
natural numbers for the existence of a smallest player or slot.

**Not proved**, model-checked only:

* liveness (`CleanupEnds`, `GetsThrough`, `TearDownEnds`, `NobodyWaitsForEver`), and with it that a channel *delivers* (the fairness half of `Fifo!Spec`): out of the prover's reach.
* `SpokeAssertionsHold` of `StarGame` is not proved because it does not hold (section 5, item 2); what does hold of it is.
* `CatchesUp` of `StarGame` says of a state what a step *would* do for one of several packets; it depends on the lengths of queue and update, and fails for some (section 5, item 1).
* `AssertionsHold` of `Gathering` is not proved because it does not hold (section 5, item 6).

## 5. Where the code and its statements differ

1. **A player that is held up starves** (run `game_starved`). The hub acknowledges a player's flags up to the ones it made up last, and a spoke that sees
   an acknowledgement beyond its own flags accepts the packet only if it reflects flags (`network_star_spoke.cpp`, lines 378-389).
   A packet reflects flags when one of *its* ticks was made up. A recovery update has at most
   four times the measured latency in ticks, 8 on a fast network (`network_star_hub.cpp`, lines 1400-1425), and a spoke stops
   sampling when 15 flags are unconfirmed. So when the packets to a player are lost for longer than those 15 ticks last, while its own arrive,
   flags are made up from the 16th on; the recovery updates, which start with the first, reflect
   nothing and are dropped; the incremental ones reflect, but skip ticks, and are not used; and the spoke has no flags left to send.
   It stays there although its network is well again, until the hub gives it up for late
   acknowledgements. In the model a spoke's queue is 1 and the update 1 tick (1 <= 1, as 8 <= 15). With an update of 2 ticks
   `game_makeup` passes with the same property: only the two lengths matter.

The following are definitions that no run checks because the code violates them; named as an INVARIANT
in the cfg given they yield the trace.

2. **`SpokeAssertionsHold`** of `StarGame` (`game_lone.cfg` of `MCLoneGuest`). A guest that is left alone runs ahead of its own queue. A spoke that hears that all others are dead, in a packet without flags,
   confirms all its own unconfirmed flags, but takes up the game at the tick the hub has acknowledged (`network_star_spoke.cpp`, lines 443-450 and 463). If the hub
   had made up flags for it, a recovery update that reflects them may follow, and the flags in it are enqueued although the queue is further on:
   the assertion of line 589 fails, and in a release build flags enter the game at later ticks than their own, some for the second time. Nobody is left to be out of sync with. `OwnFlags` goes on as a release build does; that is why its
   property `OwnFlagsOnce` promises to one that is `alone` only that nothing enters early.
   It needs bandwidth reduction and the death of the host's own player, by silence: `hub_tick` excepts it from the limit on late acknowledgements but not from that
   on silence (line 1214), and `UnSync` takes the host's spoke down before `hub_cleanup` waits for the guests. The comment of lines 417-425 considers the ticks that
   the *others* still have, not those that the guest itself had missed. `MCLoneGuest` follows one course of 33 steps with three players, which packet arrives and which recovery updates are sent being open; `AssertionsHoldInPlay` proves that only a guest that is alone can break an assertion of this handler, and only this one.
3. **`AcknowledgedTicksWereSent`** (`hub_listen.cfg`). When two players are declared net-dead in one pass of `hub_tick`'s loop, the
   first death completes ticks that are only sent after the loop, and the second dead player
   "acknowledges" them (`make_player_netdead`, line 1197): the assertion of line 963 that they were sent fails. A
   release build reads the send time of such a tick from outside the queue's window (for a latency
   statistic). It needs two players to fall silent together, which is what a lost network link to two of them looks like.
4. **`AcknowledgerWasAwaited`** (`hub_standalone.cfg`). On a standalone hub the death of the last but one player calls
   `make_player_netdead` for the last one *before* the smallest incomplete tick is saved
   (lines 1185, 1189); the outer call then acknowledges ticks for which its player was never awaited (assertion of line 959).
   Nobody is connected any more, so that only a debug build notices.
5. **`UnconnectedNotIndexed`** (`hub_listen.cfg`). A player that identifies itself only after it was declared net-dead gets an entry in
   `sAddressToPlayerIndex` again, against the comment of line 664; the test of `mConnected` that
   follows the comment keeps that harmless.
6. **`AssertionsHold`** of `Gathering` (`gather.cfg`). A joiner that was asked may accept when the topology is full or the game has started: nothing
   takes the request back. The assertions of `network.cpp` lines 2571 (number of players) and 2671 (`netState==netGathering`) fail then.

Outcomes that the models contain because the code has them:

7. `Crash` of `GameSession`. `hub_cleanup` waits for `sHubActive` without the mutex, and then for the timer task, but not for the receiving thread: the
   packet whose acknowledgement completes the hub (`network_star_hub.cpp:1011`) is still being processed when the main thread clears `sNetworkPlayers` and the queues (571-575).
   The comment of `hub_cleanup` (567) has the tick task in mind only. Likewise `NetExit` resets `network_interface` (`network.cpp:1368`) while the thread of an abandoned try may be about to use it.
8. `AcceptFromClosed` and `TopologyFromClosed` of `Gathering`. `peerAddress()` uses the socket of a channel (`network.cpp:583`, `1002`) that a failed send in the same pump may have closed:
   a null pointer at the gatherer, or at a joiner.
9. A name that does not resolve (`ConnectPool.cpp:73`) leaves its try at `Connecting` for ever: `ResolutionFailed`, which `network.cpp:2442` is ready to report, is assigned nowhere. The
   slot is lost and the joiner waits until its user gives up. When all 20 slots are lost, the next join by name tries the last host address of an earlier one (section 4, `JoinsOnlyWhomItAskedFor`).
10. `nbc_is_resolving` stays set when a search follows a try by name (`network.cpp:1601-1621`). In the model no joiner gets a host it was not asked to join by this.
11. `NetExit` deletes the clients' channels with the cancellation (`tagCANCEL_GAME`) that was just queued: joiners see a lost connection instead. `NobodyWaitsInVain` holds because they notice that.
12. `network_star_spoke.cpp:248`, "it won't start running again after this returns", is not so: the note in `mytm_sdl.cpp:169-176` says that the task may run once more. `NothingGoneIsTouched` holds
    because `myTMCleanup` is called before anything is cleared.
13. `network_star_spoke.cpp:450` and `823` count a tick as confirmed and then peek it. The game's thread may drop it in between: the assertion of `TickBasedCircularQueue.h:156` fails in a debug build;
    the value that is read is the right one (`PeeksItsTick`, its part for `spoke = "moved"`).
14. A try that is abandoned and then gets through leaves the gatherer with a client that never speaks until its channel is deleted with the slot.
15. A player's flags without a hub: the first new one enters the game before the unconfirmed ones (`OwnFlagsOnce` says that in company each enters once, and only then out of order).

Everything else that was stated held. `WindowsAgree`, `AwaitedExactly` and the like are stated for
`hub.connected # {}`: after the last two players of a standalone hub have died together nobody is left.

## 6. Not modelled

See PROJECT.json for each component. Of the star protocol itself: the lossy byte stream
(microphone data), latency measurement and statistics, the preferences parser, the contents of
identification packets, byte order and checksums (a corrupt packet is a lost one), a host that leaves its game in the pregame (`SignalDemise` takes a tick that was sent), the packet that
`spoke_cleanup` sends last (`StopSpoke`). Of gathering: what a remote hub tells the players it gathers, resumed games and
what the game data holds. Of channels: inflating and time-outs. Of the pool: failing to create a thread. Of the action queues: recording and replay.
`StandaloneHub` assumes a gatherer that the hub does not declare net-dead: such a gatherer's machine would send the hub the next level as before,
but be skipped when the hub distributes it (`network.cpp:2089`), and wait until `NetReceiveGameData` times out.

The bulk of the repository is a sequential simulation, rendering, sound, file formats, scripting bindings and fonts as arrays of bytes (more than 99 % of
the lines). It has state in quantity rather than in interleavings: a small instance of it says little, and its own tests replay films against it.

## 7. Plan

Done: the star protocol (`TickQueue`, `HubState`, `StarHub`, `SpokeState`, `Lockstep`,
`StarGame`, `FairStarGame`), the queues between threads (`CircularTickBuffer`, `OwnFlags`, `ActionQueues`), connections and gathering
(`PlayerColors`, `Gathering`, `MessageChannel`, `ConnectPool`), the threads (`TimerTasks`, `GameSession`), the standalone hub's loop (`StandaloneHub`), and the 35 theorems of section 4.

Next modules, the most important first:

1. `LevelChange`: two successive levels of `StarGame`. Packets do not name their level, the first 90 ticks of a level are those of the last 90 of the
   level before, and the action queue of a player who was net-dead before starts at tick 0 (`StarGameProtocol.cpp:45`).
2. `Gathering` with a remote gatherer: what `StandaloneHub` leaves out of a hub's gathering (`SendMessageToGatherer`, `NetGatherPlayer` on command).
3. `LateFlags`: the late queue alone at its real sizes, for the missing capacity check (a hazard without a property).
4. `Recording` (vbl.cpp), `WindowedNthElementFinder` (against sorting), `Platforms`.

No property of a run is left to prove but those that section 4 lists as out of reach and `CatchesUp`.
