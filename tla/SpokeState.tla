---------------------------- MODULE SpokeState -----------------------------
(* The state of a spoke of the star protocol and the functions that change  *)
(* it (src/Source_Files/Network/network_star_spoke.cpp). The spoke of a     *)
(* player samples the player's action flags once per tick, sends them to    *)
(* the hub until the hub has acknowledged them, and hands the game, for     *)
(* each tick and each player, the flags the hub decided on. Its own flags   *)
(* it holds back, unconfirmed, until the hub's packet for their tick comes. *)
(*                                                                          *)
(* The file's statics are a record and its functions are operators, as in   *)
(* HubState. What the game's queues hold is kept for good in got, by what   *)
(* tells the worlds of two players apart: a player's own flags for the tick *)
(* ("sent"), flags the hub made up ("made"), NET_DEAD_ACTION_FLAG ("dead"). *)
(* How much room the queues have depends on how far the game's thread has   *)
(* come and is the parameter room.                                          *)
EXTENDS StarProtocol

CONSTANTS
  Zombies,          \* players without a queue: mZombie
  OutgoingSize,     \* kDefaultOutgoingFlagsQueueSize
  SpokeRecovery,    \* mRecoverySendPeriod of the spoke
  SpokePregameSilence, \* mPregameTicksBeforeNetDeath of the spoke
  SpokeInGameSilence,  \* mInGameTicksBeforeNetDeath of the spoke
  MaxHubSilence     \* model bound: the hub's silence is counted up to here

ASSUME SpokeAssumption ==
  /\ Zombies \subseteq Player /\ LocalPlayer \notin Zombies
  /\ OutgoingSize \in Nat \ {0} /\ SpokeRecovery \in Nat \ {0}
  /\ SpokePregameSilence \in Nat \ {0} /\ SpokeInGameSilence \in Nat \ {0}
  /\ MaxHubSilence \in Nat

Listed == Player \ Zombies
OnlyIf(holds, line) == IF holds THEN {} ELSE {line}

\* spoke_initialize
InitialSpoke(connected) == [
  online     |-> TRUE,            \* sConnected
  heard      |-> FALSE,           \* sHeardFromHub
  out        |-> EmptyAt(FirstTick), \* sOutgoingFlags
  unconf     |-> EmptyAt(RealTick), \* sUnconfirmedFlags
  confirmed  |-> RealTick,        \* sSmallestUnconfirmedTick
  unreceived |-> FirstTick,       \* sSmallestUnreceivedTick
  peers      |-> connected,       \* mConnected
  deadTick   |-> [p \in Player |-> FirstTick - 1], \* mNetDeadTick
  next       |-> [p \in Player |-> RealTick], \* mQueue->getWriteTick()
  got        |-> [p \in Player |-> [t \in Ticks |-> "none"]], \* what it was given
  requested  |-> 0,               \* sRequestedTimingAdjustment
  outstanding |-> 0,              \* sOutstandingTimingAdjustment
  silence    |-> 0,               \* sNetworkTicker - sLastNetworkTickHeard
  sinceSent  |-> 0,               \* sNetworkTicker - sLastNetworkTickSent
  garbled    |-> FALSE,           \* flags were read as another player's
  broken     |-> {} ]             \* the assertions that have failed

\* The outgoing flags once the hub's acknowledgement has arrived. The hub may
\* acknowledge flags it made up before the spoke has them. (Mutant: nothing
\* is kept for another packet.)
AllAcknowledged(s, packet) == EmptyAt(s.out.w)
Unacknowledged(s, packet) ==
  Drop(s.out, Greatest(Least(packet.ack, s.out.w) - s.out.r, 0))

\* spoke_received_game_data_packet_v1 up to the action flags: the hub's
\* acknowledgement, and process_messages with its handlers.
HubHeard(s, packet) ==
  [s EXCEPT
    !.heard = TRUE,
    !.silence = 0,
    !.out = Unacknowledged(s, packet),
    !.outstanding = IF packet.adjust \notin {0, s.requested} THEN packet.adjust ELSE @,
    !.requested = packet.adjust,
    !.peers = @ \ DOMAIN packet.deaths,
    !.deadTick = [q \in Player |-> IF q \in DOMAIN packet.deaths
                                   THEN packet.deaths[q] ELSE @[q]]]

\* Nobody else is connected, nor will be heard of before the tick the hub has
\* acknowledged.
WeAreAlone(s, me) ==
  \A q \in Player \ {me} : q \notin s.peers /\ s.deadTick[q] <= s.out.r

\* The game's queues when the player goes on without the hub's flags: own
\* flags for the player, net-dead flags for the others, each up to upTo.
GoneOn(s, me, upTo) ==
  [s EXCEPT
    !.next = [q \in Player |-> IF q \in Listed THEN upTo[q] ELSE @[q]],
    !.got = [q \in Player |-> [t \in Ticks |->
               IF q \in Listed /\ t \in s.next[q] .. (upTo[q] - 1)
               THEN IF q = me THEN "sent" ELSE "dead" ELSE @[q][t]]]]

\* The special case of a packet without flags: the own flags are confirmed at
\* once, the other players get net-dead flags up to the acknowledged tick.
\* (Mutant: any packet without flags means that the player is alone.)
NoFlags(s, me) ==
  LET own == Greatest(s.unconf.w - s.confirmed, 0)
      upTo == [q \in Player |-> IF q = me THEN s.next[me] + own ELSE Greatest(s.next[q], s.out.r)]
  IN [GoneOn(s, me, upTo) EXCEPT !.confirmed = @ + own, !.unreceived = s.out.r]
Alone(s, me) == IF WeAreAlone(s, me) THEN NoFlags(s, me) ELSE s

\* Whose flags the spoke expects in a packet for a tick.
Expected(s, me, packet, t) ==
  {q \in Listed : /\ q = me => packet.reflected
                  /\ q \in s.peers \/ t < s.deadTick[q]}

\* A packet that skips ticks is not used.
Skips(s, packet) == \A t \in DOMAIN packet.flags : t > s.unreceived

\* The ticks of a packet that the spoke has not seen before. (Mutant: those it
\* has, too.)
AnyTicks(s, ticks) == ticks
NewTicks(s, ticks) == {t \in ticks : t >= s.unreceived}

\* sSmallestUnconfirmedTick after n ticks of the game.
Confirmed(s, packet, n) == s.confirmed + n

\* The loop over the ticks of a packet: the ticks seen before are skipped and
\* the others, as far as there is room, go to the queues.
FlagsHeard(s, me, packet, room) ==
  LET ticks  == DOMAIN packet.flags
      read   == {t \in ticks : t < s.unreceived + room}
      new    == NewTicks(s, read)
      real   == {t \in new : t >= RealTick}
      Flags(q, t) == IF q = me /\ ~packet.reflected THEN "sent"
                     ELSE IF q \in Expected(s, me, packet, t) THEN packet.flags[t][q]
                     ELSE "dead"
      \* the queues normally stand at the first new tick
      first  == Greatest(s.unreceived, RealTick)
  IN IF Skips(s, packet) \/ room <= 0 THEN s
     ELSE IF \E t \in read : DOMAIN packet.flags[t] # Expected(s, me, packet, t)
     THEN [s EXCEPT !.garbled = TRUE]
     ELSE [s EXCEPT
       !.unreceived = @ + Cardinality(new),
       !.next = [q \in Player |-> IF q \in Listed THEN @[q] + Cardinality(real) ELSE @[q]],
       !.got = [q \in Player |-> [t \in Ticks |->
                  IF q \in Listed /\ t - s.next[q] + first \in real
                  THEN Flags(q, t - s.next[q] + first) ELSE @[q][t]]],
       !.confirmed = Confirmed(s, packet, Cardinality(real)),
       !.broken = @
         \cup OnlyIf(real = {} \/ packet.reflected \/ s.next[me] = s.confirmed, 534)
         \cup OnlyIf(real = {} \/ packet.reflected \/ s.confirmed >= s.unconf.r, 535)
         \cup OnlyIf(real = {} \/ packet.reflected
                       \/ s.confirmed + Cardinality(real) <= s.unconf.w, 536)
         \cup OnlyIf(real = {} \/ \A q \in (s.peers \cap Listed) \
                       (IF packet.reflected THEN {} ELSE {me}) : s.next[q] = first, 589)]

\* spoke_received_network_packet and spoke_received_game_data_packet_v1.
PacketHeard(s, me, packet, room) ==
  IF ~s.online THEN s
  ELSE IF packet.ack > s.out.w /\ ~packet.reflected THEN [s EXCEPT !.heard = TRUE]
  ELSE IF DOMAIN packet.flags = {} THEN Alone(HubHeard(s, packet), me)
  ELSE FlagsHeard(HubHeard(s, packet), me, packet, room)

\* send_packet. A packet without flags has from = to.
SpokePacket(s) == [ack |-> s.unreceived, from |-> s.out.r, to |-> s.out.w]

\* spoke_tick: whether the spoke gives up on the hub. (Mutant: not on one
\* that has never been heard.)
Patience(s) == IF s.out.r >= RealTick THEN SpokeInGameSilence ELSE SpokePregameSilence
HeardHubLost(s) == s.online /\ s.heard /\ Least(s.silence + 1, MaxHubSilence) > Patience(s)
HubLost(s) == s.online /\ Least(s.silence + 1, MaxHubSilence) > Patience(s)

\* spoke_tick: one flag, and as many more as the hub asked for; none when it
\* asked to wait.
Wanted(s) == IF s.outstanding > 0 THEN 0 ELSE 1 - s.outstanding

\* What is left to provide next time. Nothing changes if nothing was provided.
Owed(s, provided) ==
  IF s.outstanding > 0 THEN s.outstanding - 1
  ELSE IF provided > 0 THEN provided - Wanted(s) ELSE s.outstanding

\* spoke_tick of a connected spoke: how many flags there is room for. From the
\* game's first tick on they are kept as unconfirmed, too.
Sampled(s) ==
  LET Fits(n) == /\ Size(s.out) + n <= OutgoingSize
                 /\ s.out.w + n > RealTick => s.out.w + n - s.unconf.r <= OutgoingSize
                 /\ s.out.w + n <= LastTick + 1
  IN CHOOSE n \in 0 .. Wanted(s) :
       (n = 0 \/ Fits(n)) /\ \A m \in (n + 1) .. Wanted(s) : ~Fits(m)

OnlineTick(s) ==
  [s EXCEPT
    !.silence = Least(@ + 1, MaxHubSilence),
    !.sinceSent = Least(@ + 1, SpokeRecovery),
    !.out = Grow(@, Sampled(s)),
    !.unconf = Grow(@, Greatest(0, Least(Sampled(s), s.out.w + Sampled(s) - RealTick))),
    !.outstanding = Owed(s, Sampled(s))]

\* Whether spoke_tick then sends a packet.
SendDue(s) == s.heard /\ (Sampled(s) > 0 \/ s.sinceSent + 1 >= SpokeRecovery)

\* spoke_tick of a spoke that has lost the hub: the player goes on alone. The
\* new flags enter the game's queue before the unconfirmed ones, and the
\* other players get net-dead flags up to the new ones.
OfflineTick(s, me, room) ==
  LET fresh == Least(Wanted(s), Least(room, LastTick + 1 - s.next[me]))
      own   == Greatest(s.unconf.w - s.confirmed, 0)
      upTo == [q \in Player |-> IF q = me THEN s.next[me] + fresh + own
                               ELSE Greatest(s.next[q], s.next[me] + fresh)]
  IN [GoneOn(s, me, upTo) EXCEPT !.outstanding = Owed(s, fresh), !.confirmed = @ + own]
=============================================================================
