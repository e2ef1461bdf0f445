------------------------------ MODULE StarHub ------------------------------
(* The hub as a system of its own: its packet handlers, the timer task      *)
(* hub_tick and the main thread in hub_cleanup, against spokes that send    *)
(* whatever an honest spoke may, however late and however often. The        *)
(* handlers run under mytm_mutex and are one action each, but for the loop  *)
(* of hub_tick over the players, which is one action per iteration (turn is *)
(* its index) while the mutex keeps the rest out.                           *)
EXTENDS HubState

CONSTANTS
  SpokeWindow,      \* kDefaultOutgoingFlagsQueueSize of the spokes
  Adjustments       \* the adjustments a full timing window may ask for

ASSUME SpokesAssumption == SpokeWindow \in Nat \ {0} /\ Adjustments \subseteq Int

VARIABLES
  hub,          \* the statics of the file
  turn,         \* i of the loop of hub_tick, NONE when no hub_tick runs
  shouldSend,   \* shouldSend of hub_tick, FALSE when no hub_tick runs
  cleanup       \* how far hub_cleanup has come

vars == <<hub, turn, shouldSend, cleanup>>

----------------------------------------------------------------------------
(* The actions.                                                             *)

MutexFree == turn = NONE
TaskRuns == cleanup # "down"

Init ==
  /\ \E connected \in SUBSET Player :
       /\ connected # {}
       /\ ~Standalone => LocalPlayer \in connected
       /\ hub = Initial(connected)
  /\ turn = NONE
  /\ shouldSend = FALSE
  /\ cleanup = "none"

\* The players that take part: connected when the game started.
HasSpoke(p) == p \in hub.connected \/ hub.deadTick[p] >= FirstTick

\* hub_received_network_packet, kSpokeToHubIdentification. A spoke that is
\* late may identify itself when the hub has given up on it.
ReceiveIdentification(p) ==
  /\ MutexFree /\ hub.active
  /\ p # LocalPlayer /\ HasSpoke(p)
  /\ hub' = Identified(hub, p)
  /\ UNCHANGED <<turn, shouldSend, cleanup>>

\* hub_received_network_packet, kSpokeToHubGameDataPacketV1Magic
ReceiveGameData(p, ack, from, to, asked) ==
  /\ MutexFree /\ hub.active
  /\ p = LocalPlayer \/ p \in hub.indexed
  /\ p \in hub.connected
  /\ hub' = GameData(hub, p, ack, from, to, asked)
  /\ UNCHANGED <<turn, shouldSend, cleanup>>

\* What a spoke's packet can hold, however old: it acknowledges ticks that
\* the hub has sent, and its flags start no later than the hub's own
\* acknowledgement, because the spoke only drops what the hub has.
ReceiveAny(p) ==
  \E ack \in FirstTick .. hub.unsent, from \in FirstTick .. hub.flags[p].w :
    \E to \in from .. Least(from + SpokeWindow, LastTick + 1), asked \in Adjustments :
      ReceiveGameData(p, ack, from, to, asked)

StartTick ==
  /\ MutexFree /\ TaskRuns
  /\ hub' = Aged(hub)
  /\ turn' = 0
  /\ shouldSend' = FALSE
  /\ UNCHANGED cleanup

CheckPlayer ==
  /\ turn \in Player
  /\ hub' = IF Overdue(hub, turn) THEN NetDead(hub, turn) ELSE hub
  /\ shouldSend' = (shouldSend \/ Overdue(hub, turn))
  /\ turn' = turn + 1
  /\ UNCHANGED cleanup

FinishTick ==
  /\ turn = NumPlayers
  /\ hub' = Finished(hub, shouldSend)
  /\ turn' = NONE
  /\ shouldSend' = FALSE
  /\ UNCHANGED cleanup

\* hub_cleanup, graceful. The tick after the game's last is assigned
\* without the mutex, then the conditions are checked under it. It is the tick
\* that the caller's game has reached, so no later than what the hub has sent;
\* a game that is left in its pregame, before any tick of it was sent, is not
\* modelled.
SignalDemise ==
  /\ cleanup = "none"
  /\ \E tick \in RealTick .. hub.unsent : hub' = [hub EXCEPT !.postGame = tick]
  /\ cleanup' = "signalled"
  /\ UNCHANGED <<turn, shouldSend>>

CheckDemise ==
  /\ cleanup = "signalled" /\ MutexFree
  /\ hub' = CheckCompletion(hub)
  /\ cleanup' = "waiting"
  /\ UNCHANGED <<turn, shouldSend>>

\* hub_cleanup, not graceful.
Deactivate ==
  /\ cleanup = "none" /\ MutexFree
  /\ hub' = [hub EXCEPT !.active = FALSE]
  /\ cleanup' = "waiting"
  /\ UNCHANGED <<turn, shouldSend>>

\* The end of the wait for sHubActive, and myTMCleanup, which waits for a
\* hub_tick that runs.
RemoveTask ==
  /\ cleanup = "waiting" /\ ~hub.active /\ MutexFree
  /\ cleanup' = "down"
  /\ UNCHANGED <<hub, turn, shouldSend>>

Halted == cleanup = "down" /\ UNCHANGED vars

Tick == StartTick \/ CheckPlayer \/ FinishTick
Cleanup == SignalDemise \/ CheckDemise \/ Deactivate \/ RemoveTask

Play == Tick \/ \E p \in Player : ReceiveIdentification(p) \/ ReceiveAny(p)

Next == Play \/ Cleanup \/ Halted

Spec == Init /\ [][Next]_vars

\* The timer runs its task for ever and the main thread gets the mutex in the
\* end; stated of the variables that belong to each. A connected spoke again
\* and again acknowledges everything that the hub has sent, or is silent for
\* longer than the hub allows.
TimerStep == \/ MutexFree /\ TaskRuns /\ turn' = 0
             \/ turn \in Player /\ turn' = turn + 1
             \/ turn = NumPlayers /\ turn' = NONE
MainStep == MutexFree /\ \/ cleanup = "signalled" /\ cleanup' = "waiting"
                         \/ cleanup = "waiting" /\ ~hub.active /\ cleanup' = "down"
Fairness ==
  /\ WF_turn(TimerStep) /\ SF_cleanup(MainStep)
  /\ \A p \in Player : []<>(p \in hub.connected =>
       hub.ack[p] = hub.unsent \/ hub.silence[p] > Greatest(PregameSilence, InGameSilence))
FairSpec == Spec /\ Fairness

\* The hub while the game lasts, for the runs that leave the end out.
SpecInGame == Init /\ [][Play]_vars

----------------------------------------------------------------------------
(* Properties.                                                              *)

\* The types of the hub's state and of the two threads' positions.
TypeOK ==
  /\ hub \in HubRecords
  /\ turn \in Player \cup {NONE, NumPlayers}
  /\ shouldSend \in BOOLEAN
  /\ cleanup \in {"none", "signalled", "waiting", "down"}

\* The windows of the five queues agree (comments at lines 185-188 and
\* 245-252): the housekeeping queues hold the same ticks, those from the
\* first one some connected player has not acknowledged; a player's own queue
\* starts there too, or is empty if a dead player's flags end earlier; no
\* player is ahead of the housekeeping, no connected one behind the smallest
\* incomplete tick.
WindowsAgree == hub.connected # {} =>
  /\ hub.disp.r <= hub.incomplete /\ hub.incomplete <= hub.disp.w
  /\ hub.reflect = hub.disp
  /\ hub.sendTime = [r |-> hub.disp.r, w |-> hub.unsent]
  /\ \A p \in Player : /\ hub.flags[p].r = Least(hub.flags[p].w, hub.disp.r)
                       /\ hub.flags[p].w <= hub.disp.w
  /\ \A p \in hub.connected : hub.incomplete <= hub.flags[p].w

\* The two bookkeepings of who is being waited for never disagree: a tick's
\* mask in sPlayerDataDisposition names exactly the connected players whose
\* acknowledgement (sent ticks) or whose flags (later ticks) are missing, and
\* there is always one, or the queue would have moved on.
AwaitedExactly == hub.connected # {} =>
  /\ \A t \in hub.disp.r .. (hub.incomplete - 1) :
       /\ hub.awaited[t] = {p \in hub.connected : hub.ack[p] <= t}
       /\ hub.awaited[t] # {}
  /\ \A t \in hub.incomplete .. (hub.disp.w - 1) :
       /\ hub.awaited[t] = {p \in hub.connected : hub.flags[p].w <= t}
       /\ hub.awaited[t] # {}

\* What a connected player has not acknowledged is still held, and nobody has
\* acknowledged what was never sent.
AcksWithinSent == hub.connected # {} =>
  /\ hub.unsent <= hub.incomplete
  /\ \A p \in hub.connected : hub.disp.r <= hub.ack[p] /\ hub.ack[p] <= hub.unsent

\* No queue overflows or is dequeued while empty (the assertions of
\* TickBasedCircularQueue.h lines 143 and 149), although the hub checks the
\* room in one queue only, that of the packet's sender.
QueuesWithinCapacity == hub.connected # {} =>
  \A q \in {hub.disp, hub.reflect, hub.sendTime} \cup {hub.flags[p] : p \in Player} :
    0 <= Size(q) /\ Size(q) <= Capacity

\* send_packets only reads flags that are held: every tick it can send to a
\* connected player is in the queue of every player whose flags belong to it.
SendsHeldFlags ==
  \A p \in hub.connected : \A t \in hub.ack[p] .. (hub.incomplete - 1) :
    /\ t \in Held(hub.reflect)
    /\ \A q \in Player : q \in hub.connected \/ t < hub.deadTick[q]
                          => t \in Held(hub.flags[q])

\* A player's flags are reflected back to it exactly for the ticks where the
\* hub made them up; were one forgotten, that player's game would use its own
\* flags where everybody else's uses the made-up ones.
ReflectedIffMadeUp == hub.connected # {} =>
  \A p \in Player, t \in Held(hub.disp) : p \in hub.reflected[t] <=> t \in hub.made[p]

\* The late flags of a player never run ahead of its flags (assertion at line
\* 826) and are never dequeued while there are none.
LateBehindFlags ==
  \A p \in Player : /\ hub.late[p].r <= hub.late[p].w
                    /\ hub.late[p].w <= hub.flags[p].w

\* While anybody is connected the only assertion that can fail is the one
\* about never-sent ticks at line 963.
OtherAssertionsHold == hub.connected # {} => hub.broken \subseteq {963}

\* The assertion at line 963, acknowledged ticks were sent, never fails in a
\* game that goes on. (Violated: README, section 5.)
AcknowledgedTicksWereSent == hub.connected # {} => 963 \notin hub.broken

\* The assertion at line 959, the hub was waiting for the player that
\* acknowledges a tick, never fails. (Violated: README, section 5.)
AcknowledgerWasAwaited == 959 \notin hub.broken

\* "Unconnected players should not have entries in sAddressToPlayerIndex"
\* (line 664). (Violated: README, section 5.)
UnconnectedNotIndexed == hub.indexed \subseteq hub.connected

\* The player of reference is one that is connected (hub_tick compares the
\* others' acknowledgements with its): on a standalone hub the role passes on.
ReferenceConnected ==
  Standalone /\ hub.connected # {} => hub.reference \in hub.connected

\* A hub that was told the game's end and has shut down left no connected
\* player without the ticks up to that end.
DownMeansAllAcked ==
  cleanup = "down" /\ hub.postGame # Never =>
    \A p \in hub.connected : hub.ack[p] >= hub.postGame

\* hub_cleanup ends: the wait for every player's last acknowledgement is over
\* when they have arrived or their senders are net-dead, even though the tick
\* to wait for is written without the mutex.
CleanupEnds == cleanup # "none" ~> cleanup = "down"

\* What was sent stays true: the flags of a held tick are never replaced, a
\* net-dead player's last tick is not one the hub has already sent his flags
\* beyond, and completed ticks stay complete.
SentIsFinal == [][
  /\ hub.incomplete <= hub'.incomplete
  /\ \A p \in Player :
       /\ \A t \in Held(hub.flags[p]) \cap Held(hub'.flags[p]) :
            t \in hub.made[p] <=> t \in hub'.made[p]
       /\ p \in hub.connected \ hub'.connected => hub.unsent <= hub'.deadTick[p]
  ]_vars

\* On a standalone hub the game ends for the last player with the death of
\* the one before: no step leaves exactly one of several players.
NobodyLeftAlone == [][
  Standalone /\ Cardinality(hub.connected) > 1 => Cardinality(hub'.connected) # 1
  ]_vars
=============================================================================
