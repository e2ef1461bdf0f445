---------------------------- MODULE FairStarGame ----------------------------
(* StarGame under the fairness its threads and the network justify. Every   *)
(* machine that has not stopped runs its timer tasks for ever               *)
(* (CSeries/mytm_sdl.cpp) and its game's thread now and then, and the network  *)
(* now and then delivers a packet. These actions can always be taken, if    *)
(* only without effect, so that fairness is that each is taken again and    *)
(* again; last tells which was. (A machine that runs has two threads, so    *)
(* that last never rests while one does.)                                   *)
EXTENDS StarGame

CONSTANT
  Crashes           \* the sets of players whose machines may stop for good; NONE
                    \* stands for the machine of a standalone hub

ASSUME CrashAssumption == Crashes \subseteq SUBSET (Player \cup {NONE})

VARIABLES
  last,
  crashed           \* the machines that stop some time in this behaviour

fvars == <<hub, spoke, toHub, toSpoke, tape, last, crashed>>

FairInit == GameInit /\ last = <<"start", NONE>> /\ crashed \in Crashes

\* The hub sends each player a recovery update now and then, at least every
\* half a second (send_packets): it starts with the first tick the player has
\* not acknowledged, and so joins on to what the player's game has.
Joins(p, m) ==
  DOMAIN m.flags = {} \/ \E t \in DOMAIN m.flags : t <= spoke[p].unreceived

FairNext == UNCHANGED crashed /\
  \/ HubTick /\ last' = <<"hub tick", NONE>>
  \/ \E p \in DOMAIN spoke :
       \/ SpokeTick(p) /\ last' = <<"spoke tick", p>>
       \/ UpdateUnconfirmed(p) /\ last' = <<"game", p>>
  \/ \E p \in Remote :
       \/ DeliverToHub(p) /\ last' = <<"to hub", p>>
       \/ \E m \in Arriving(toSpoke[p]) :
            SpokeReceives(p, m) /\ last' = <<IF Joins(p, m) THEN "update" ELSE "rest", p>>

HubStops == LocalPlayer \in crashed
Runs(p) == p \in DOMAIN spoke \ crashed
HubServes(p) == ~HubStops /\ p \in Remote \cap hub.connected

\* The network loses neither all packets to the hub nor all the updates from
\* it. A hub that stops, or gives up on a player, sends the player nothing new,
\* and the network does not repeat its old packets for ever.
Fairness ==
  /\ []<>(HubStops \/ last = <<"hub tick", NONE>>)
  /\ \A p \in Player :
       /\ []<>(~Runs(p) \/ last = <<"spoke tick", p>>)
       /\ []<>(~Runs(p) \/ last = <<"game", p>>)
       /\ []<>(~Runs(p) \/ ~HubServes(p) \/ toHub[p] = <<>> \/ last = <<"to hub", p>>)
       /\ []<>(~Runs(p) \/ ~HubServes(p) \/ toSpoke[p] = <<>> \/ last = <<"update", p>>)
       /\ <>[](~Runs(p) \/ HubServes(p) \/ last \notin {<<"update", p>>, <<"rest", p>>})

FairSpec == FairInit /\ [][FairNext]_fvars /\ Fairness

\* Nobody waits for ever for a player, or a hub, that has stopped, and no
\* packet that is lost holds the game up for good: every player that has not
\* stopped is given the whole game, or gives up on the hub.
NobodyWaitsForEver ==
  <>(\A p \in DOMAIN spoke \ crashed :
       spoke[p].unreceived > LastTick \/ ~spoke[p].online)
=============================================================================
