----------------------------- MODULE MCLoneGuest -----------------------------
(* One course of events of StarGame, with a host (player 0) and two guests, *)
(* too long for a run of all courses: the assertion of line 589 of          *)
(* network_star_spoke.cpp fails for a guest that is left alone. Each step   *)
(* is an action of StarGame; which packet arrives and how much room there   *)
(* is stays open.                                                           *)
EXTENDS StarGame

VARIABLE step       \* the steps taken

Tick(p)    == <<"spoke_tick", p>>
ToHub(p)   == <<"hub_received_network_packet", p>>
ToSpoke(p) == <<"spoke_received_network_packet", p>>
HubsTick   == <<"hub_tick", LocalPlayer>>

Course ==
  \* The guests make themselves known, and all play the tick before the game.
  << Tick(1), Tick(2), ToHub(1), ToHub(2), HubsTick, ToSpoke(1), ToSpoke(2),
     Tick(0), Tick(1), Tick(2), ToHub(1), ToHub(2) >>
  \* All send the flags of a tick of the game; guest 1 does not hear more.
  \o << Tick(0), ToSpoke(1), ToSpoke(2), Tick(1), Tick(2), ToHub(1), ToHub(2) >>
  \* The others go on. The hub makes up flags for guest 1.
  \o << Tick(0), ToSpoke(2), Tick(2), Tick(0), ToHub(2), HubsTick >>
  \* The others, the host's own player too, are silent for too long.
  \o << Tick(1), Tick(1), ToHub(1), HubsTick >>
  \* Guest 1 hears that it is alone, and then what it had missed.
  \o << Tick(1), ToHub(1), ToSpoke(1), ToSpoke(1) >>

Happens(what, p) ==
  \/ what = "spoke_tick" /\ SpokeTick(p)
  \/ what = "hub_received_network_packet" /\ DeliverToHub(p)
  \/ what = "spoke_received_network_packet" /\ DeliverToSpoke(p)
  \/ what = "hub_tick" /\ HubTick

LoneInit == GameInit /\ hub.connected = Player /\ step = 0
LoneNext ==
  /\ step < Len(Course) /\ step' = step + 1
  /\ Happens(Course[step'][1], Course[step'][2])
LoneSpec == LoneInit /\ [][LoneNext]_<<gvars, step>>
=============================================================================
