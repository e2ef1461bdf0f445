------------------------------ MODULE StarGame ------------------------------
(* A network game: the hub of HubState, a spoke of SpokeState for every     *)
(* player, and the datagrams between them. The hub's machine may have a     *)
(* player of its own (LocalPlayer): its spoke and the hub run under the     *)
(* same mytm_mutex and hand each other their packets by a call when the     *)
(* handler that made them ends (check_send_packet_to_spoke,                 *)
(* check_send_packet_to_hub), so that one action goes through both.         *)
(*                                                                          *)
(* A channel holds the last InFlight packets sent one way, and any of them  *)
(* can arrive at any time and any number of times: packets are lost,        *)
(* delayed, duplicated and reordered. tape is a history variable, the flags *)
(* of the ticks the hub has sent.                                           *)
EXTENDS HubState, SpokeState, Sequences

CONSTANTS
  InFlight,         \* model bound: packets a channel remembers
  Rooms,            \* how much room the game's thread may have left in its queues
  Adjustments       \* the adjustments a full timing window may ask for

ASSUME GameAssumption ==
  InFlight \in Nat \ {0} /\ Rooms \subseteq Nat /\ Adjustments \subseteq Int

VARIABLES
  hub,
  spoke,            \* a SpokeState record for every player that takes part
  toHub, toSpoke,   \* the channels of the remote spokes
  tape

gvars == <<hub, spoke, toHub, toSpoke, tape>>

Remote == DOMAIN spoke \ {LocalPlayer}

\* A channel once m was sent into it.
After(channel, m) ==
  IF \E i \in DOMAIN channel : channel[i] = m THEN channel
  ELSE IF Len(channel) < InFlight THEN Append(channel, m)
  ELSE Append(Tail(channel), m)

Arriving(channel) == {channel[i] : i \in DOMAIN channel}

Ident(p) == [ident |-> p]
IsIdent(m) == "ident" \in DOMAIN m

\* send_packets and check_send_packet_to_spoke, for a hub h that has called
\* send_packets: recovery are the players that are due a recovery update.
Broadcast(h, spokes) ==
  \E recovery \in SUBSET (h.connected \cap h.known), room \in Rooms :
    LET P(p) == Packet(h, p, p \in recovery)
    IN /\ toSpoke' = [p \in Remote |-> IF p \in h.connected \cap h.known
                                      THEN After(toSpoke[p], P(p)) ELSE toSpoke[p]]
       /\ spoke' = IF LocalPlayer \in h.connected
                   THEN [spokes EXCEPT ![LocalPlayer] = PacketHeard(@, LocalPlayer, P(LocalPlayer), room)]
                   ELSE spokes

\* The end of a handler of the hub: h is the hub's state then, sends tells
\* whether it has called send_packets.
EndOfHandler(h, spokes, sends) ==
  /\ hub' = h
  /\ tape' = [t \in Ticks |->
       IF t \in hub.unsent .. (h.unsent - 1)
       THEN [q \in Player |-> IF q \in h.connected \/ t < h.deadTick[q]
                              THEN IF t \in h.made[q] THEN "made" ELSE "sent"
                              ELSE "dead"]
       ELSE tape[t]]
  /\ IF sends THEN Broadcast(h, spokes) ELSE spoke' = spokes /\ UNCHANGED toSpoke

GameInit ==
  /\ \E connected \in SUBSET (Player \ Zombies) :
       /\ connected # {} /\ (~Standalone => LocalPlayer \in connected)
       /\ hub = Initial(connected)
       /\ spoke = [p \in connected |-> InitialSpoke(connected)]
       /\ toHub = [p \in connected \ {LocalPlayer} |-> <<>>]
       /\ toSpoke = [p \in connected \ {LocalPlayer} |-> <<>>]
  /\ tape = [t \in Ticks |-> [q \in Player |-> "dead"]]

\* The loop of hub_tick: the hub once the players below n have been looked at,
\* and whether it has to send packets therefore.
Checked[n \in 0 .. NumPlayers] ==
  IF n = 0 THEN [hub |-> Aged(hub), send |-> FALSE]
  ELSE LET before == Checked[n - 1]
       IN IF Overdue(before.hub, n - 1)
          THEN [hub |-> NetDead(before.hub, n - 1), send |-> TRUE] ELSE before

\* hub_tick as a whole: the mutex keeps everything else on the machine out.
HubTick ==
  LET checked == Checked[NumPlayers]
      done    == Finished(checked.hub, checked.send)
  IN EndOfHandler(done, spoke, done.sinceSent = 0) /\ UNCHANGED toHub

\* hub_received_network_packet for the game data m of p.
HubReceives(p, m, spokes) ==
  IF hub.active /\ (p = LocalPlayer \/ p \in hub.indexed) /\ p \in hub.connected
  THEN \E asked \in Adjustments :
         LET h == GameData(hub, p, m.ack, m.from, m.to, asked)
         IN EndOfHandler(h, spokes, h.unsent > hub.unsent)
  ELSE EndOfHandler(hub, spokes, FALSE)

DeliverToHub(p) ==
  \E m \in Arriving(toHub[p]) :
    /\ IF IsIdent(m)
       THEN hub.active /\ EndOfHandler(Identified(hub, p), spoke, FALSE)
       ELSE HubReceives(p, m, spoke)
    /\ UNCHANGED toHub

SpokeReceives(p, m) ==
  /\ \E room \in Rooms : spoke' = [spoke EXCEPT ![p] = PacketHeard(@, p, m, room)]
  /\ UNCHANGED <<hub, toHub, toSpoke, tape>>
DeliverToSpoke(p) == \E m \in Arriving(toSpoke[p]) : SpokeReceives(p, m)

\* spoke_tick. When the spoke has not heard from the hub yet it identifies
\* itself every 30 ticks; the local spoke's hub need not be told.
SpokeTick(p) ==
  LET s == spoke[p]
      Ticked == [spoke EXCEPT ![p] = OnlineTick(s)]
      Sends  == [spoke EXCEPT ![p] = [OnlineTick(s) EXCEPT !.sinceSent = 0]]
      packet == SpokePacket(OnlineTick(s))
  IN IF ~s.online
     THEN \E room \in Rooms :
            /\ spoke' = [spoke EXCEPT ![p] = OfflineTick(s, p, room)]
            /\ UNCHANGED <<hub, toHub, toSpoke, tape>>
     ELSE IF HubLost(s)
     THEN /\ spoke' = [spoke EXCEPT ![p].online = FALSE]
          /\ UNCHANGED <<hub, toHub, toSpoke, tape>>
     ELSE IF SendDue(s) /\ p = LocalPlayer
     THEN HubReceives(p, packet, Sends) /\ UNCHANGED toHub
     ELSE IF SendDue(s)
     THEN /\ toHub' = [toHub EXCEPT ![p] = After(@, packet)]
          /\ spoke' = Sends
          /\ UNCHANGED <<hub, toSpoke, tape>>
     ELSE /\ spoke' = Ticked
          /\ IF ~s.heard /\ p # LocalPlayer
             THEN toHub' = [toHub EXCEPT ![p] = After(@, Ident(p))]
             ELSE UNCHANGED toHub
          /\ UNCHANGED <<hub, toSpoke, tape>>

\* UpdateUnconfirmedActionFlags (StarGameProtocol.cpp), called by the game's
\* thread: confirmed flags leave the queue of unconfirmed ones. (Mutant: all
\* flags do.)
AllConfirmed(s) == Size(s.unconf)
NewlyConfirmed(s) == Greatest(Least(s.confirmed, s.unconf.w) - s.unconf.r, 0)
UpdateUnconfirmed(p) ==
  /\ spoke' = [spoke EXCEPT ![p].unconf = Drop(@, NewlyConfirmed(spoke[p]))]
  /\ UNCHANGED <<hub, toHub, toSpoke, tape>>

GameNext ==
  \/ HubTick
  \/ \E p \in DOMAIN spoke : SpokeTick(p) \/ UpdateUnconfirmed(p)
  \/ \E p \in Remote : DeliverToHub(p) \/ DeliverToSpoke(p)

GameSpec == GameInit /\ [][GameNext]_gvars

----------------------------------------------------------------------------
(* Properties.                                                              *)

\* A spoke is on its own when it has given up on the hub, or when it has no
\* one left to agree with.
OnItsOwn(p) == ~spoke[p].online \/ WeAreAlone(spoke[p], p)

\* Every player that plays the network game is given the flags the hub has
\* decided on, whatever the network does to the packets: the game is not out
\* of sync.
SameGame ==
  \A p \in DOMAIN spoke : ~OnItsOwn(p) =>
    \A t \in RealTick .. (spoke[p].unreceived - 1), q \in Listed :
      spoke[p].got[q][t] = tape[t][q]

\* The flags in a packet carry no mark of whose they are; hub and spoke never
\* disagree about whose flags a packet holds ("OOS is likely!", line 575 of
\* network_star_spoke.cpp).
NeverGarbled == \A p \in DOMAIN spoke : ~spoke[p].garbled

\* The assertions of spoke_received_game_data_packet_v1 hold: a spoke that is
\* told to use its own flags for a tick has them, and its queues are in step.
\* (Violated: README, section 5.)
SpokeAssertionsHold == \A p \in DOMAIN spoke : spoke[p].broken = {}

\* They do hold for everybody who has somebody to play with, whatever packets
\* come late, twice or not at all, and for the player on the hub's machine;
\* all but one of them hold for the others as well.
AssertionsHoldInCompany ==
  \A p \in DOMAIN spoke : spoke[p].broken # {} =>
    spoke[p].broken = {589} /\ p # LocalPlayer /\ WeAreAlone(spoke[p], p)

\* What module StarHub assumes of packets, also of late ones: they acknowledge
\* what the hub has sent, and a spoke has dropped no flags that the hub lacks.
HonestPackets ==
  \A p \in Remote \cap hub.connected : \A m \in Arriving(toHub[p]) : ~IsIdent(m) =>
    m.ack <= hub.unsent /\ m.from <= hub.flags[p].w

\* "We can get an early ACK only if the server made up flags for us" (line 378
\* of network_star_spoke.cpp), and a packet with an early acknowledgement that
\* reflects no flags is dropped. A player that is waiting for a tick, and can
\* send no more flags before it has it, is never left with packets it drops:
\* what the hub now sends it gets its game on.
CatchesUp ==
  \A p \in Remote \cap hub.connected \cap hub.known :
    LET s == spoke[p]
        waits == /\ s.online /\ Sampled(s) = 0 /\ NewlyConfirmed(s) = 0
                 /\ hub.ack[p] = s.unreceived /\ s.unreceived < hub.unsent
    IN waits => \E recovery \in BOOLEAN, room \in Rooms :
         PacketHeard(s, p, Packet(hub, p, recovery), room).unreceived > s.unreceived

\* The game implements Lockstep.
DecidedTicks ==
  [i \in 1 .. Greatest(hub.unsent - RealTick, 0) |-> tape[RealTick + i - 1]]
PlayedTicks(p) ==
  [i \in 1 .. Greatest(spoke[p].unreceived - RealTick, 0) |->
     [q \in Player |-> IF q \in Listed THEN spoke[p].got[q][RealTick + i - 1] ELSE "dead"]]
Promise == INSTANCE Lockstep WITH
  decided <- DecidedTicks,
  played  <- [p \in Player |-> IF p \in DOMAIN spoke THEN PlayedTicks(p) ELSE <<>>],
  left    <- {p \in Player : p \in DOMAIN spoke => OnItsOwn(p)}
ImplementsLockstep == Promise!Spec
=============================================================================
