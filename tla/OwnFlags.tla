------------------------------ MODULE OwnFlags ------------------------------
(* What becomes of a player's own action flags on its machine, from the      *)
(* keyboard to the hub, to the prediction and to the game                    *)
(* (Network/network_star_spoke.cpp, UpdateUnconfirmedActionFlags and its     *)
(* neighbours in Network/StarGameProtocol.cpp, and the end of update_world   *)
(* in GameWorld/marathon2.cpp). Two queues take each: the outgoing one,      *)
(* until the hub acknowledges it, and, once the game has begun, the          *)
(* unconfirmed one, until it is decided what the game uses for its tick.     *)
(*                                                                           *)
(* The spoke's tick and packets exclude each other by the mutex of the timer *)
(* tasks; the game's thread drops confirmed flags and predicts with the      *)
(* others without it. Of the hub (StarGame has all of it) there is what it   *)
(* decides about this player: it hears the flags for a tick, or makes others *)
(* up. Its packets come late, again, and in any order.                       *)
EXTENDS CircularTickBuffer, Sequences

Least(m, n) == IF m <= n THEN m ELSE n

CONSTANTS
  FirstTick,        \* theFirstPregameTick
  RealTick,         \* sSmallestRealGameTick
  LastTick          \* model bound: the last tick of the game

ASSUME OwnFlagsAssumption ==
  /\ FirstTick \in Int /\ RealTick \in Int /\ LastTick \in Int
  /\ FirstTick <= RealTick

VARIABLES
  online,           \* sConnected
  outgoing,         \* sOutgoingFlags
  unconfirmed,      \* sUnconfirmedFlags
  smallest,         \* sSmallestUnconfirmedTick
  unreceived,       \* sSmallestUnreceivedTick
  alone,            \* weAreAlone held when a packet without flags came
  packet,           \* the packet it reads: the tick it ends at, whether it reflects
  tape,             \* what entered the player's queue in the game
  spoke,            \* where the spoke is in its handler
  hand,             \* the tick it is about to peek
  game,             \* where the game's thread is
  predicted,        \* sPredictedTicks
  hubTick,          \* the hub's write tick for the player's flags
  made              \* the ticks it made up flags for (sPlayerReflectedFlags)

hubVars == <<hubTick, made>>
vars == <<online, outgoing, unconfirmed, smallest, unreceived, alone, packet, tape, spoke, hand,
          game, predicted, hubVars>>

Sampled(tick) == <<"sampled", tick>>
MadeUp == <<"made up", 0>>    \* by the hub
Offline == <<"offline", 0>>   \* sampled when there was no hub any more

NoPacket == [end |-> FirstTick, reflects |-> FALSE]

Init ==
  /\ online = TRUE
  /\ outgoing = BufferAt(FirstTick) /\ unconfirmed = BufferAt(RealTick)
  /\ smallest = RealTick /\ unreceived = FirstTick /\ alone = FALSE
  /\ packet = NoPacket /\ tape = <<>>
  /\ spoke = "idle" /\ hand = RealTick
  /\ game = "idle" /\ predicted = 0
  /\ hubTick = FirstTick /\ made = {}

----------------------------------------------------------------------------
(* The hub. One that the spoke has given up no longer matters.              *)

spokeVars == <<online, outgoing, smallest, unreceived, alone, packet, tape, spoke, hand>>
gameVars == <<game, predicted>>

\* What was sampled so far arrives, or some of it.
HubHears ==
  /\ online /\ hubTick < outgoing.w
  /\ hubTick' \in (hubTick + 1) .. outgoing.w
  /\ UNCHANGED <<spokeVars, unconfirmed, gameVars, made>>

\* make_up_flags_for_first_incomplete_tick
HubMakesUp ==
  /\ online /\ RealTick <= hubTick /\ hubTick <= LastTick
  /\ hubTick' = hubTick + 1 /\ made' = made \cup {hubTick}
  /\ UNCHANGED <<spokeVars, unconfirmed, gameVars>>

\* The flags that everybody's game shall use for a tick.
Decision(tick) == IF tick \in made THEN MadeUp ELSE Sampled(tick)

\* Whether the packet with these ticks holds the flags of its addressee too.
Reflects(first, end) == \E tick \in made : first <= tick /\ tick < end

----------------------------------------------------------------------------
(* The spoke.                                                               *)

\* The pregame's flags go to the hub alone.
GoesToBoth(tick) == tick >= RealTick

\* spoke_tick of a connected spoke, for one tick's flags. The room is that of
\* the queue with less. (Mutant: that of the outgoing queue.)
HasRoomOutgoing(both) == Room(outgoing) > 0
HasRoom(both) == Room(outgoing) > 0 /\ (both => Room(unconfirmed) > 0)

Provide ==
  LET tick == outgoing.w
      both == GoesToBoth(tick)
  IN /\ spoke = "idle" /\ online /\ tick <= LastTick
     /\ HasRoom(both)
     /\ outgoing' = Advanced(Stored(outgoing, Sampled(tick)))
     /\ unconfirmed' = IF both THEN Stored(unconfirmed, Sampled(tick)) ELSE unconfirmed
     /\ spoke' = IF both THEN "stored" ELSE "idle"
     /\ UNCHANGED <<online, smallest, unreceived, alone, packet, tape, hand, gameVars, hubVars>>

Advance ==
  /\ spoke = "stored" /\ spoke' = "idle"
  /\ unconfirmed' = Advanced(unconfirmed)
  /\ UNCHANGED <<online, outgoing, smallest, unreceived, alone, packet, tape, hand, gameVars,
                 hubVars>>

\* spoke_received_game_data_packet_v1. An acknowledgement of what was not sent
\* is taken for made-up flags if the packet has some, else the packet goes.
Acknowledge(ack, reflects) ==
  /\ ack > outgoing.w => reflects
  /\ LET sent == Least(ack, outgoing.w)
     IN outgoing' = IF outgoing.r < sent THEN DequeuedTo(outgoing, sent) ELSE outgoing

\* Flags are of use if they leave no gap. For ticks that one that is alone has
\* yet to receive a packet holds none but its own: the others are dead then.
OfUse(first, end, reflects) ==
  first < end /\ first <= unreceived /\ (alone => reflects)

Receive ==
  /\ spoke = "idle" /\ online
  /\ \E ack \in FirstTick .. hubTick : \E end \in FirstTick .. ack : \E first \in FirstTick .. end :
       LET reflects == Reflects(first, end)
       IN /\ first = end => ~alone
          /\ Acknowledge(ack, reflects)
          /\ IF OfUse(first, end, reflects)
             THEN spoke' = "reading" /\ packet' = [end |-> end, reflects |-> reflects]
             ELSE UNCHANGED <<spoke, packet>>
  /\ UNCHANGED <<online, unconfirmed, smallest, unreceived, alone, tape, hand, gameVars,
                 hubVars>>

\* The loop over the packet's ticks, from the first that is new.
Reads == spoke = "reading" /\ unreceived < packet.end

ReadPregame ==
  /\ Reads /\ unreceived < RealTick
  /\ unreceived' = unreceived + 1
  /\ UNCHANGED <<online, outgoing, unconfirmed, smallest, alone, packet, tape, spoke, hand,
                 gameVars, hubVars>>

\* The hub has the player's flags for a tick and does not send them back.
Confirm ==
  /\ Reads /\ RealTick <= unreceived /\ ~packet.reflects
  /\ tape' = Append(tape, Peek(unconfirmed, smallest))
  /\ spoke' = "confirming"
  /\ UNCHANGED <<online, outgoing, unconfirmed, smallest, unreceived, alone, packet, hand,
                 gameVars, hubVars>>

Confirmed ==
  /\ spoke = "confirming" /\ spoke' = "reading"
  /\ smallest' = smallest + 1 /\ unreceived' = unreceived + 1
  /\ UNCHANGED <<online, outgoing, unconfirmed, alone, packet, tape, hand, gameVars, hubVars>>

\* It sends back what it decided for each tick of the packet: what the player
\* sampled, or what it made up, maybe before the spoke has sampled anything.
\* That follows what is in the game's queue already, whatever its tick. (When
\* the two differ the assertion of line 589 fails; a release build goes on.)
\* (Mutant: that confirms nothing.)
StillUnconfirmed(tick) == tick
NextUnconfirmed(tick) == tick + 1

Reflect ==
  /\ Reads /\ RealTick <= unreceived /\ packet.reflects /\ smallest <= LastTick
  /\ tape' = Append(tape, Decision(unreceived))
  /\ smallest' = NextUnconfirmed(smallest) /\ unreceived' = unreceived + 1
  /\ UNCHANGED <<online, outgoing, unconfirmed, alone, packet, spoke, hand, gameVars, hubVars>>

\* The packet is read, or there is no room for more of it.
StopReading ==
  /\ spoke = "reading" /\ spoke' = "idle" /\ packet' = NoPacket
  /\ UNCHANGED <<online, outgoing, unconfirmed, smallest, unreceived, alone, tape, hand,
                 gameVars, hubVars>>

\* A packet without flags to one without other players: all own flags are
\* confirmed at once. Here the tick is counted before it is peeked.
WeAreAlone ==
  /\ spoke = "idle" /\ online /\ spoke' = "moving"
  /\ alone' = TRUE
  /\ \E ack \in FirstTick .. hubTick : Acknowledge(ack, FALSE)
  /\ UNCHANGED <<online, unconfirmed, smallest, unreceived, packet, tape, hand, gameVars,
                 hubVars>>

\* spoke_tick without a hub: the new flags first, if it is time for any.
OfflineTick ==
  /\ spoke = "idle" /\ ~online /\ spoke' = "moving"
  /\ \/ UNCHANGED tape
     \/ RealTick + Len(tape) <= LastTick /\ tape' = Append(tape, Offline)
  /\ UNCHANGED <<online, outgoing, unconfirmed, smallest, unreceived, alone, packet, hand,
                 gameVars, hubVars>>

Move ==
  /\ spoke = "moving" /\ smallest < unconfirmed.w
  /\ hand' = smallest /\ smallest' = smallest + 1 /\ spoke' = "moved"
  /\ UNCHANGED <<online, outgoing, unconfirmed, unreceived, alone, packet, tape, gameVars,
                 hubVars>>

Moved ==
  /\ spoke = "moved" /\ spoke' = "moving"
  /\ tape' = Append(tape, Peek(unconfirmed, hand))
  /\ UNCHANGED <<online, outgoing, unconfirmed, smallest, unreceived, alone, packet, hand,
                 gameVars, hubVars>>

\* The one with a hub receives next the first tick it has no acknowledgement of,
\* although its flags for that may be in the game's queue by now.
MovedAll ==
  /\ spoke = "moving" /\ unconfirmed.w <= smallest /\ spoke' = "idle"
  /\ unreceived' = IF online THEN outgoing.r ELSE unreceived
  /\ UNCHANGED <<online, outgoing, unconfirmed, smallest, alone, packet, tape, hand, gameVars,
                 hubVars>>

\* spoke_became_disconnected
GiveUpHub ==
  /\ spoke = "idle" /\ online /\ online' = FALSE
  /\ UNCHANGED <<outgoing, unconfirmed, smallest, unreceived, alone, packet, tape, spoke, hand,
                 gameVars, hubVars>>

----------------------------------------------------------------------------
(* The game's thread.                                                       *)

\* UpdateUnconfirmedActionFlags: the test of its loop, and the body.
FindConfirmed ==
  /\ game = "idle" /\ game' = "found"
  /\ unconfirmed.r < smallest /\ unconfirmed.r < unconfirmed.w
  /\ UNCHANGED <<spokeVars, unconfirmed, predicted, hubVars>>

DropConfirmed ==
  /\ game = "found" /\ game' = "idle"
  /\ unconfirmed' = DequeuedTo(unconfirmed, unconfirmed.r + 1)
  /\ UNCHANGED <<spokeVars, predicted, hubVars>>

\* update_world predicts with what is unconfirmed: GetUnconfirmedActionFlagsCount,
\* and then PeekUnconfirmedActionFlag.
CountUnconfirmed ==
  /\ game = "idle" /\ game' = "counted"
  /\ predicted < unconfirmed.w - unconfirmed.r
  /\ UNCHANGED <<spokeVars, unconfirmed, predicted, hubVars>>

Predict ==
  /\ game = "counted" /\ game' = "idle"
  /\ predicted' = predicted + 1
  /\ UNCHANGED <<spokeVars, unconfirmed, hubVars>>

\* Real ticks have arrived.
LeavePrediction ==
  /\ game = "idle" /\ predicted' = 0
  /\ UNCHANGED <<spokeVars, unconfirmed, game, hubVars>>

----------------------------------------------------------------------------
HubNext == HubHears \/ HubMakesUp
SpokeNext ==
  \/ Provide \/ Advance \/ Receive \/ ReadPregame \/ Confirm \/ Confirmed \/ Reflect
  \/ StopReading \/ WeAreAlone \/ OfflineTick \/ Move \/ Moved \/ MovedAll \/ GiveUpHub
GameNext ==
  FindConfirmed \/ DropConfirmed \/ CountUnconfirmed \/ Predict \/ LeavePrediction

Next == HubNext \/ SpokeNext \/ GameNext

Spec == Init /\ [][Next]_vars

----------------------------------------------------------------------------
(* Properties.                                                              *)

\* Whatever the two threads do meanwhile, a tick reads as the flags that were
\* sampled for it: in what is sent to the hub, before and after tick zero, in
\* what the game predicts with, and in what enters the game. What a thread has
\* checked still holds when it relies on it.
PeeksItsTick ==
  /\ \A q \in {outgoing, unconfirmed} : \A tick \in BufferTicks(q) : Peek(q, tick) = Sampled(tick)
  /\ game = "found" => BufferTicks(unconfirmed) # {}
  /\ game = "counted" => unconfirmed.r + predicted \in BufferTicks(unconfirmed)
  /\ spoke = "confirming" => smallest \in BufferTicks(unconfirmed)
  /\ spoke = "moved" => Peek(unconfirmed, hand) = Sampled(hand)

\* In company each flag of the player enters its game at most once, and all do
\* that are confirmed unless the hub has made up others for their ticks; while
\* there is a hub every tick of the player's game uses what the hub decided for
\* it, so what all the others use. (Without one, the flags that were
\* unconfirmed follow the first new one.)
InCompany ==
  /\ \A i, j \in DOMAIN tape : tape[i] = tape[j] /\ tape[i] \notin {MadeUp, Offline} => i = j
  /\ \A tick \in RealTick .. (smallest - 1) :
       \/ spoke = "moved" /\ tick = hand
       \/ \E i \in DOMAIN tape : tape[i] = Sampled(tick)
       \/ tick \in made /\ tape[tick - RealTick + 1] = MadeUp
  /\ online => \A i \in DOMAIN tape : tape[i] = Decision(RealTick + i - 1)

\* What the hub reflects to one that did not wait for it enters once more:
\* later than its tick, never before.
NeverEarly ==
  \A i \in DOMAIN tape : \/ tape[i] = MadeUp
                         \/ \E tick \in RealTick .. (RealTick + i - 1) : tape[i] = Sampled(tick)

\* As long as the spoke has not taken itself for the only one left, the game
\* gets what the hub decided and each own flag once; with a hub nothing enters
\* before its tick, not even then.
OwnFlagsOnce == (~alone => InCompany) /\ (online => NeverEarly)
=============================================================================
