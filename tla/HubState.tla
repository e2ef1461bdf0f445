----------------------------- MODULE HubState -----------------------------
(* The state of the star protocol's hub and the functions that change it    *)
(* (src/Source_Files/Network/network_star_hub.cpp). Every player's spoke    *)
(* sends the hub the action flags of its own player, one per game tick; a   *)
(* tick is complete when every connected player's flags for it are there,   *)
(* and the hub then sends the flags of all players to all spokes until each *)
(* has acknowledged them. The hub also declares silent players net-dead     *)
(* and, when a few players hold the others up, makes up flags for them.     *)
(*                                                                          *)
(* The file's statics are a record, and a C++ function is an operator from  *)
(* such records to such records, so that an action can compose the calls    *)
(* its handler makes. Module StarHub makes a system of them, module         *)
(* StarGame one of the hub, the spokes and the network.                     *)
(*                                                                          *)
(* Abstractions. A player's flags for a tick are either the ones the player *)
(* sent or ones the hub made up (made); their bits do not matter here.      *)
(* sNetworkTicker only occurs in differences, which are kept as ages that   *)
(* stop growing once the comparisons no longer tell them apart. The window  *)
(* of arrival offsets is a choice of the adjustment it asks for, latency a  *)
(* choice of whether a recovery update is due. In place of an assert, which *)
(* a release build compiles to nothing, broken collects the line of an      *)
(* assertion that a debug build would fail at, and execution goes on.       *)
EXTENDS StarProtocol

CONSTANTS
  Capacity,         \* kFlagsQueueSize
  PregameWindow,    \* mPregameWindowSize
  SendPeriod,       \* mSendPeriod
  MinSendPeriod,    \* mMinimumSendPeriod
  RecoveryPeriod,   \* mRecoverySendPeriod
  PregameSilence,   \* mPregameTicksBeforeNetDeath
  InGameSilence,    \* mInGameTicksBeforeNetDeath
  BandwidthReduction, \* mBandwidthReduction
  IncrementalTicks, \* "send the last 3 flags" of send_packets
  RecoveryTicks,    \* maxTicks of send_packets
  MaxSilence        \* model bound: a player's silence is counted up to here;
                    \* below the two limits, nobody is silent for long enough

ASSUME QueueAssumption ==
  /\ Capacity \in Nat \ {0} /\ PregameWindow \in Nat \ {0}
  /\ IncrementalTicks \in Nat \ {0} /\ RecoveryTicks \in Nat \ {0}
ASSUME TimingAssumption ==
  /\ SendPeriod \in Nat \ {0} /\ RecoveryPeriod \in Nat \ {0} /\ MinSendPeriod \in Nat
  /\ PregameSilence \in Nat \ {0} /\ InGameSilence \in Nat \ {0}
  /\ BandwidthReduction \in BOOLEAN /\ MaxSilence \in Nat

Never == LastTick + 2               \* INT32_MAX, as sSmallestPostGameTick

Lines == {826, 844, 959, 963, 983, 984, 985, 994, 1084, 1097, 1109}
Unless(holds, line) == IF holds THEN {} ELSE {line}

HubRecords == [
  connected : SUBSET Player,   \* mConnected, sConnectedPlayersBitmask
  known     : SUBSET Player,   \* mAddressKnown
  indexed   : SUBSET Player,   \* the players in sAddressToPlayerIndex
  reference : Player \cup {NONE},          \* sReferencePlayerIndex
  silence   : [Player -> 0 .. MaxSilence], \* sNetworkTicker - mLastNetworkTickHeard
  ack       : [Player -> Int],   \* mSmallestUnacknowledgedTick
  deadTick  : [Player -> Int],   \* mNetDeadTick
  adjusting : [Player -> Int],   \* mOutstandingTimingAdjustment
  adjTick   : [Player -> Int],   \* mTimingAdjustmentTick
  flags     : [Player -> Queue], \* sFlagsQueues
  made      : [Player -> SUBSET Ticks], \* their elements that the hub made up
  late      : [Player -> Queue], \* sLateFlagsQueues
  disp      : Queue,             \* sPlayerDataDisposition
  awaited   : [Ticks -> SUBSET Player], \* its elements
  reflect   : Queue,             \* sPlayerReflectedFlags
  reflected : [Ticks -> SUBSET Player], \* its elements
  sendTime  : Queue,             \* sFlagSendTimeQueue
  incomplete : Int,              \* sSmallestIncompleteTick
  unsent    : Int,               \* sSmallestUnsentTick
  lagging   : SUBSET Player,     \* sLaggingPlayersBitmask
  sinceSent : 0 .. RecoveryPeriod, \* sNetworkTicker - sLastNetworkTickSent
  sinceReal : 0 .. MinSendPeriod,  \* sNetworkTicker - sLastRealUpdate
  postGame  : Int,               \* sSmallestPostGameTick
  active    : BOOLEAN,           \* sHubActive
  broken    : SUBSET Lines ]     \* the assertions that have failed

\* hub_initialize, for the players connected when the game starts.
Initial(connected) == [
  connected |-> connected,
  known     |-> connected \cap {LocalPlayer},
  indexed   |-> {},
  reference |-> IF ~Standalone THEN LocalPlayer
                ELSE CHOOSE p \in connected : \A q \in connected : p <= q,
  silence   |-> [p \in Player |-> 0],
  ack       |-> [p \in Player |-> FirstTick],
  deadTick  |-> [p \in Player |-> FirstTick - 1],
  adjusting |-> [p \in Player |-> 0],
  adjTick   |-> [p \in Player |-> 0],
  flags     |-> [p \in Player |-> EmptyAt(FirstTick)],
  made      |-> [p \in Player |-> {}],
  late      |-> [p \in Player |-> EmptyAt(FirstTick)],
  disp      |-> EmptyAt(FirstTick),
  awaited   |-> [t \in Ticks |-> {}],
  reflect   |-> EmptyAt(FirstTick),
  reflected |-> [t \in Ticks |-> {}],
  sendTime  |-> EmptyAt(FirstTick),
  incomplete |-> FirstTick,
  unsent    |-> FirstTick,
  lagging   |-> {},
  sinceSent |-> 0,
  sinceReal |-> 0,
  postGame  |-> Never,
  active    |-> TRUE,
  broken    |-> {} ]

----------------------------------------------------------------------------
(* The functions of the file.                                               *)

\* hub_check_for_completion: the players whose acknowledgement of the game's
\* last tick it still waits for. (Mutants: the last tick is left out; players
\* that are not connected are waited for, too.)
StillActiveButOne(h) == {p \in h.connected : h.ack[p] + 1 < h.postGame}
StillActiveOfAll(h) == {p \in Player : h.ack[p] < h.postGame}
StillActive(h) == {p \in h.connected : h.ack[p] < h.postGame}

CheckCompletion(h) ==
  IF StillActive(h) # {} THEN h ELSE [h EXCEPT !.active = FALSE]

\* player_acknowledged_up_to_tick. The loop strikes p off every tick in
\* span; a tick nobody is awaited for any more leaves all the queues, in
\* order. What a dequeued element held is forgotten.
Acknowledged(h, p, tick) ==
  LET span    == h.ack[p] .. (tick - 1)
      awaited == [t \in Ticks |-> IF t \in span THEN h.awaited[t] \ {p}
                                                ELSE h.awaited[t]]
      done    == {t \in span : awaited[t] = {}}
      n       == Cardinality(done)
      Oldest(q) == done = q.r .. (q.r + n - 1)
      flags   == [q \in Player |-> Drop(h.flags[q], Least(n, Size(h.flags[q])))]
  IN IF tick < h.ack[p] THEN h
     ELSE CheckCompletion([h EXCEPT
       !.silence[p] = 0,
       !.ack[p] = tick,
       !.adjusting[p] = IF h.adjTick[p] < tick THEN 0 ELSE @,
       !.awaited = awaited,
       !.disp = Drop(h.disp, n),
       !.sendTime = Drop(h.sendTime, n),
       !.reflect = Drop(h.reflect, n),
       !.reflected = [t \in Ticks |-> IF t < h.reflect.r + n THEN {}
                                                      ELSE h.reflected[t]],
       !.flags = flags,
       !.made = [q \in Player |-> {t \in h.made[q] : flags[q].r <= t}],
       !.broken = h.broken \cup Unless(\A t \in span : p \in h.awaited[t], 959)
         \cup Unless(p = LocalPlayer \/ \A t \in span : t < h.sendTime.w, 963)
         \cup Unless(Oldest(h.disp), 983)
         \cup Unless(Oldest(h.sendTime), 984)
         \cup Unless(Oldest(h.reflect), 985)
         \cup Unless(n = 0 \/ \A q \in Player : Size(h.flags[q]) > 0
                                => h.flags[q].r = h.disp.r, 994)])

\* player_provided_flags_from_tick_to_tick, without its result: it returns
\* TRUE iff it advances incomplete.
Provided(h, p, from, to) ==
  LET new     == from .. (to - 1)
      n       == Greatest(to - h.disp.w, 0)
      entered == [t \in Ticks |-> IF t \in h.disp.w .. (to - 1)
                                  THEN h.connected ELSE h.awaited[t]]
      complete == {t \in new : entered[t] \ {p} = {}}
      k        == Cardinality(complete)
  IN [h EXCEPT
       !.disp = Grow(h.disp, n),
       !.reflect = Grow(h.reflect, n),
       !.awaited = [t \in Ticks |-> IF t \in complete THEN h.connected
                                    ELSE IF t \in new THEN entered[t] \ {p}
                                    ELSE entered[t]],
       !.lagging = IF new # {} THEN h.lagging \ {p} ELSE h.lagging,
       !.late[p] = IF new # {} THEN Drop(h.late[p], Greatest(Size(h.late[p]), 0))
                               ELSE h.late[p],
       !.incomplete = h.incomplete + k,
       !.sinceReal = IF k > 0 THEN 0 ELSE h.sinceReal,
       !.broken = h.broken \cup Unless(h.disp.w = h.reflect.w, 1084)
         \cup Unless(\A t \in new : p \in entered[t], 1097)
         \cup Unless(complete = h.incomplete .. (h.incomplete + k - 1), 1109)]

\* Players whose flags for the smallest incomplete tick are missing.
Missing(h) == {p \in Player : h.flags[p].w = h.incomplete}

\* The early returns of make_up_flags_for_first_incomplete_tick
MayMakeUp(h) ==
  /\ h.disp.w # h.incomplete
  /\ LocalPlayer \notin Missing(h)
  /\ Missing(h) \subseteq h.lagging

\* The late flags of a lagging player are folded into one, up to the middle
\* of the queue. (Mutant: also those of an empty queue.)
CollapsedUnchecked(q) == Drop(q, Size(q) \div 2 + 1)
Collapsed(q) == IF Size(q) > 0 THEN Drop(q, Size(q) \div 2 + 1) ELSE q

\* The players whose flags are made up must be told. (Mutant: they are not.)
NotReflected(h) == h.reflected
Reflected(h) == [h.reflected EXCEPT ![h.incomplete] = @ \cup Missing(h)]

\* The rest of make_up_flags_for_first_incomplete_tick.
MadeUp(h) == [h EXCEPT
  !.late = [p \in Player |-> IF p \in Missing(h) \cap h.lagging
                             THEN Collapsed(h.late[p]) ELSE h.late[p]],
  !.reflected = Reflected(h),
  !.flags = [p \in Player |-> IF p \in Missing(h) THEN Grow(h.flags[p], 1)
                                                  ELSE h.flags[p]],
  !.made = [p \in Player |-> IF p \in Missing(h) THEN h.made[p] \cup {h.incomplete}
                                                 ELSE h.made[p]],
  !.awaited[h.incomplete] = h.connected,
  !.incomplete = @ + 1,
  !.sinceReal = 0]

\* The first tick without flags of a player that dies now. (Mutants: the tick
\* after it; the first tick the player has not acknowledged.)
DeathTickTooLate(h, p) == h.incomplete + 1
DeathTickAtAck(h, p) == h.ack[p]
DeathTick(h, p) == h.incomplete

\* On a standalone hub another player becomes the one of reference when that
\* one dies. (Mutant: none does.)
KeptReference(h, p) == h.reference
NewReference(h, p) ==
  LET rest == h.connected \ {p}
  IN IF ~Standalone \/ h.reference # p THEN h.reference
     ELSE IF rest = {} THEN 0
     ELSE CHOOSE q \in rest : \A r \in rest : r <= q

\* The part of make_player_netdead that takes the mutex.
MarkNetDead(h, p) ==
  [h EXCEPT !.deadTick[p] = DeathTick(h, p),
            !.connected = @ \ {p},
            !.indexed = @ \ {p},
            !.reference = NewReference(h, p)]

\* Its end: pretend that p has provided everything, and acknowledged up to
\* the tick that was incomplete before that. (Mutants: of the two, only the
\* acknowledgement; up to the tick that is incomplete after that.)
BuryWithoutFlags(h, p) == Acknowledged(h, p, h.incomplete)
BuryUnsaved(h, p) ==
  LET provided == Provided(h, p, h.flags[p].w, h.disp.w)
  IN Acknowledged(provided, p, provided.incomplete)
Bury(h, p) ==
  Acknowledged(Provided(h, p, h.flags[p].w, h.disp.w), p, h.incomplete)

\* make_player_netdead. A standalone hub declares the last player dead too,
\* between the two parts of the first death; that call finds nobody left.
\* (Mutant: the last player is left alone.)
NetDeadButLast(h, p) == Bury(MarkNetDead(h, p), p)
NetDead(h, p) ==
  LET m == MarkNetDead(h, p)
  IN IF Standalone /\ Cardinality(m.connected) = 1
     THEN LET last == CHOOSE q \in m.connected : TRUE
          IN Bury(Bury(MarkNetDead(m, last), last), p)
     ELSE Bury(m, p)

\* What send_packets does to the hub's own state. (Mutants: the times of
\* sending are not remembered; incomplete ticks count as sent.)
SentUntimed(h) == [h EXCEPT !.sinceSent = 0, !.unsent = h.incomplete]
SentAll(h) == [h EXCEPT
  !.sendTime = Grow(h.sendTime, Greatest(h.disp.w - h.sendTime.w, 0)),
  !.sinceSent = 0,
  !.unsent = h.disp.w]
Sent(h) == [h EXCEPT
  !.sendTime = Grow(h.sendTime, Greatest(h.incomplete - h.sendTime.w, 0)),
  !.sinceSent = 0,
  !.unsent = h.incomplete]

\* send_packets, the ticks of a packet for p: all that p has not
\* acknowledged, or part of it when bandwidth is saved.
TicksFor(h, p, recovery) ==
  LET saving == BandwidthReduction /\ h.disp.r >= RealTick
      first  == IF saving /\ ~recovery
                THEN Greatest(h.incomplete - IncrementalTicks, h.ack[p]) ELSE h.ack[p]
      next   == IF saving /\ recovery
                THEN Least(h.ack[p] + RecoveryTicks, h.incomplete) ELSE h.incomplete
  IN first .. (next - 1)

\* send_packets, whether p's own flags are sent back to it. (Mutant: never.)
NeverReflects(h, p, ticks) == FALSE
Reflects(h, p, ticks) == \E t \in ticks : p \in h.reflected[t]

\* send_packets, the deaths p is told of. (Mutant: not of one at the first
\* tick p waits for.)
OldDeaths(h, p) == {d \in Player : h.ack[p] < h.deadTick[d]}
Deaths(h, p) == {d \in Player : h.ack[p] <= h.deadTick[d]}

\* send_packets, the packet for p. flags gives, for each tick that has any,
\* whose flags are in it and whether the hub made them up; they follow each
\* other in the packet without a mark of whose they are.
Packet(h, p, recovery) ==
  LET ticks     == TicksFor(h, p, recovery)
      reflected == Reflects(h, p, ticks)
      Sources(t) == {q \in Player : /\ q = p => reflected
                                    /\ q \in h.connected \/ t < h.deadTick[q]}
  IN [ack       |-> h.flags[p].w,
      adjust    |-> h.adjusting[p],
      deaths    |-> [q \in Deaths(h, p) |-> h.deadTick[q]],
      reflected |-> reflected,
      flags     |-> [t \in {u \in ticks : Sources(u) # {}} |->
                       [q \in Sources(t) |-> IF t \in h.made[q] THEN "made" ELSE "sent"]]]

\* hub_received_identification_packet. (Mutant: the index counts from one.)
IdentifiedFromOne(h, p) ==
  IF p \in h.known THEN h
  ELSE [h EXCEPT !.known = @ \cup {p + 1}, !.indexed = @ \cup {p + 1}]
Identified(h, p) ==
  IF p \in h.known THEN h
  ELSE [h EXCEPT !.known = @ \cup {p}, !.indexed = @ \cup {p}]

\* theRemainingQueueSpace of hub_received_game_data_packet_v1. (Mutant: what
\* is in the queue is not counted.)
SpaceUnchecked(h, p) == Capacity
Space(h, p) ==
  IF h.disp.r < RealTick /\ Size(h.flags[p]) > PregameWindow
  THEN 0 ELSE Capacity - Size(h.flags[p])

\* The flags part of hub_received_game_data_packet_v1, for flags of p for
\* ticks from .. to-1; asked is what the timing window asks for, 0 while it
\* is not full.
FlagsReceived(h, p, from, to, asked) ==
  LET q     == h.flags[p]
      l0    == h.late[p]
      l     == IF from > l0.w
               THEN [r |-> l0.r + Greatest(q.w - l0.w, 0), w |-> Greatest(q.w, l0.w)]
               ELSE l0
      redundant == Least(l.w - from, to - from)
      lateCount == Least(q.w - l.w, to - from - redundant)
      fresh == Greatest(0, Least(to - from - redundant - lateCount, Space(h, p)))
      first == from + redundant + lateCount
      adjust == h.adjusting[p] = 0 /\ asked # 0
      h1    == [h EXCEPT
                 !.flags[p] = Grow(q, fresh),
                 !.late[p] = Grow(l, lateCount + fresh),
                 !.adjusting[p] = IF adjust THEN asked ELSE @,
                 !.adjTick[p] = IF adjust THEN h.incomplete ELSE @,
                 !.broken = @ \cup Unless(q.w >= l.w, 826)
                   \cup Unless(fresh = 0 \/ q.w = l.w + lateCount, 844)]
      h2    == Provided(h1, p, first, first + fresh)
  IN IF from > q.w THEN h
     ELSE IF fresh = 0 THEN h1
     ELSE IF h2.incomplete > h.incomplete /\ h2.incomplete - h2.unsent >= SendPeriod
     THEN Sent(h2) ELSE h2

\* hub_received_game_data_packet_v1. A packet without flags has from = to.
GameData(h, p, ack, from, to, asked) ==
  LET h1 == Acknowledged(h, p, ack)
  IN IF ack > h.incomplete THEN h
     ELSE IF from = to THEN h1
     ELSE FlagsReceived(h1, p, from, to, asked)

\* hub_tick, before the loop: time passes.
Aged(h) ==
  [h EXCEPT !.silence = [p \in Player |-> Least(h.silence[p] + 1, MaxSilence)],
            !.sinceSent = Least(h.sinceSent + 1, RecoveryPeriod),
            !.sinceReal = Least(h.sinceReal + 1, MinSendPeriod)]

\* hub_tick, the condition of the loop's two calls of make_player_netdead.
Overdue(h, p) ==
  /\ p \in h.connected
  /\ \/ h.silence[p] > IF h.ack[p] < RealTick THEN PregameSilence ELSE InGameSilence
     \/ /\ p # LocalPlayer
        /\ h.ack[p] >= RealTick
        /\ h.ack[h.reference] - h.ack[p] >= Capacity

\* hub_tick, after the loop: make up flags when that lets a majority go on.
HeldUp(h) ==
  LET since == IF h.sinceReal >= MinSendPeriod
               THEN {p \in h.connected \ {LocalPlayer} :
                       RealTick > h.deadTick[p] /\ p \in h.awaited[h.incomplete]}
               ELSE {}
      h1    == [h EXCEPT !.lagging = @ \cup since]
      live  == {p \in h.connected : RealTick > h.deadTick[p]}
      ready == live \ h.awaited[h.incomplete]
  IN IF ~(MinSendPeriod >= SendPeriod /\ h.incomplete < h.disp.w) THEN h
     ELSE IF /\ h1.lagging # {}
             /\ 2 * Cardinality(ready) > Cardinality(live)
             /\ MayMakeUp(h1)
     THEN MadeUp(h1) ELSE h1

\* hub_tick, from the end of the loop to its last call of send_packets.
Finished(h, send) ==
  IF BandwidthReduction /\ h.disp.r >= RealTick THEN Sent(HeldUp(h))
  ELSE IF send \/ h.sinceSent >= RecoveryPeriod THEN Sent(h) ELSE h
=============================================================================
