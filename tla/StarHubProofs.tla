--------------------------- MODULE StarHubProofs ---------------------------
(* Theorems about the hub of module StarHub: its types and late flags, who   *)
(* is connected to it and whom it refers to, how its queues and its books    *)
(* agree while anybody is connected, what its steps never take back, and     *)
(* what is left when the game ends.                                          *)
EXTENDS StarHub, HubBooksProofs

----------------------------------------------------------------------------
(* The system. Both invariants are proved together: the types need the      *)
(* bounds on the incomplete ticks, because the hub makes flags up for the   *)
(* first of them, and the late flags need the types.                        *)

\* The inductive invariant.
HubInv == TypeOK /\ hub \in BoundedHubs /\ LateInStep(hub)

\* hub_initialize establishes the invariant.
LEMMA HubInvInit == Init => HubInv
<1> SUFFICES ASSUME Init PROVE HubInv  OBVIOUS
<1>1. PICK connected \in SUBSET Player : connected # {} /\ hub = Initial(connected)
  BY DEF Init
<1>2. hub \in BoundedHubs /\ LateInStep(hub)
  BY <1>1, InitialType
<1>3. turn \in Player \cup {NONE, NumPlayers} /\ shouldSend \in BOOLEAN
      /\ cleanup \in {"none", "signalled", "waiting", "down"}
  BY DEF Init
<1> QED  BY <1>2, <1>3 DEF HubInv, TypeOK, BoundedHubs

\* Every step of the two threads keeps the invariant.
LEMMA HubInvStep == HubInv /\ [Next]_vars => HubInv'
<1> SUFFICES ASSUME HubInv, [Next]_vars PROVE HubInv'  OBVIOUS
<1>1. /\ hub \in BoundedHubs /\ hub \in HubRecords /\ LateInStep(hub)
      /\ turn \in Player \cup {NONE, NumPlayers} /\ shouldSend \in BOOLEAN
      /\ cleanup \in {"none", "signalled", "waiting", "down"}
  BY DEF HubInv, TypeOK, BoundedHubs
<1> SUFFICES /\ hub' \in BoundedHubs /\ LateInStep(hub')
             /\ turn' \in Player \cup {NONE, NumPlayers} /\ shouldSend' \in BOOLEAN
             /\ cleanup' \in {"none", "signalled", "waiting", "down"}
  BY DEF HubInv, TypeOK, BoundedHubs, LateInStep
<1>2. ASSUME NEW p \in Player, ReceiveIdentification(p)
      PROVE  /\ hub' \in BoundedHubs /\ LateInStep(hub')
             /\ UNCHANGED <<turn, shouldSend, cleanup>>
  <2> DEFINE new == Identified(hub, p)
  <2>1. hub' = new /\ UNCHANGED <<turn, shouldSend, cleanup>>
    BY <1>2 DEF ReceiveIdentification
  <2>2. /\ new \in HubRecords /\ new.incomplete = hub.incomplete /\ new.disp = hub.disp
        /\ new.late = hub.late /\ new.flags = hub.flags
    BY <1>1, IdentifiedType
  <2> HIDE DEF new
  <2> QED  BY <1>1, <2>1, <2>2, QueuesUntouched
<1>3. ASSUME NEW p \in Player, ReceiveAny(p)
      PROVE  /\ hub' \in BoundedHubs /\ LateInStep(hub')
             /\ UNCHANGED <<turn, shouldSend, cleanup>>
  <2>1. PICK ack \in FirstTick .. hub.unsent, from \in FirstTick .. hub.flags[p].w :
          \E to \in from .. Least(from + SpokeWindow, LastTick + 1), asked \in Adjustments :
            ReceiveGameData(p, ack, from, to, asked)
    BY <1>3 DEF ReceiveAny
  <2>2. PICK to \in from .. Least(from + SpokeWindow, LastTick + 1), asked \in Adjustments :
          ReceiveGameData(p, ack, from, to, asked)
    BY <2>1
  <2>3. ack \in Int /\ from \in Int
    BY <1>1, TicksAssumption, QueueFields DEF HubRecords
  <2>4. to \in Int /\ asked \in Int /\ from <= to /\ to <= LastTick + 1
    BY <2>3, TicksAssumption, SpokesAssumption DEF Least
  <2>5. hub' = GameData(hub, p, ack, from, to, asked) /\ UNCHANGED <<turn, shouldSend, cleanup>>
    BY <2>2 DEF ReceiveGameData
  <2> QED  BY ONLY <1>1, <2>3, <2>4, <2>5, GameDataLate
<1>4. CASE StartTick
  <2> DEFINE new == Aged(hub)
  <2>1. hub' = new /\ turn' = 0 /\ shouldSend' = FALSE /\ cleanup' = cleanup
    BY <1>4 DEF StartTick
  <2>2. /\ new \in HubRecords /\ new.incomplete = hub.incomplete /\ new.disp = hub.disp
        /\ new.late = hub.late /\ new.flags = hub.flags
    BY <1>1, AgedType DEF Aged, HubRecords
  <2>3. 0 \in Player  BY PlayersAssumption DEF Player
  <2> HIDE DEF new
  <2> QED  BY <1>1, <2>1, <2>2, <2>3, QueuesUntouched
<1>5. CASE CheckPlayer
  <2>1. /\ turn \in Player /\ turn' = turn + 1 /\ cleanup' = cleanup
        /\ hub' \in {hub, NetDead(hub, turn)}
        /\ shouldSend' = (shouldSend \/ Overdue(hub, turn))
    BY <1>5 DEF CheckPlayer
  <2>2. turn' \in Player \cup {NONE, NumPlayers}
    BY <2>1, PlayersAssumption DEF Player
  <2>3. shouldSend' \in BOOLEAN
    BY <2>1 DEF Overdue
  <2> QED  BY <1>1, <2>1, <2>2, <2>3, NetDeadType, NetDeadLate
<1>6. CASE FinishTick
  <2>1. /\ hub' = Finished(hub, shouldSend) /\ turn' = NONE /\ shouldSend' = FALSE
        /\ cleanup' = cleanup
    BY <1>6 DEF FinishTick
  <2> QED  BY <1>1, <2>1, FinishedType, FinishedLate
<1>7. CASE SignalDemise
  <2>1. PICK tick \in RealTick .. hub.unsent : hub' = [hub EXCEPT !.postGame = tick]
    BY <1>7 DEF SignalDemise
  <2> DEFINE new == [hub EXCEPT !.postGame = tick]
  <2>2. turn' = turn /\ shouldSend' = shouldSend /\ cleanup' = "signalled"
    BY <1>7 DEF SignalDemise
  <2>3. tick \in Int  BY <1>1, TicksAssumption DEF HubRecords
  <2>4. /\ new \in HubRecords /\ new.incomplete = hub.incomplete /\ new.disp = hub.disp
        /\ new.late = hub.late /\ new.flags = hub.flags
    BY <1>1, <2>3 DEF HubRecords
  <2>5. hub' = new  BY <2>1
  <2> HIDE DEF new
  <2> QED  BY <1>1, <2>2, <2>4, <2>5, QueuesUntouched
<1>8. CASE CheckDemise
  <2> DEFINE new == CheckCompletion(hub)
  <2>1. hub' = new /\ turn' = turn /\ shouldSend' = shouldSend /\ cleanup' = "waiting"
    BY <1>8 DEF CheckDemise
  <2>2. /\ new \in HubRecords /\ new.incomplete = hub.incomplete /\ new.disp = hub.disp
        /\ new.late = hub.late /\ new.flags = hub.flags
    BY <1>1, CheckCompletionType
  <2> HIDE DEF new
  <2> QED  BY <1>1, <2>1, <2>2, QueuesUntouched
<1>9. CASE Deactivate
  <2> DEFINE new == [hub EXCEPT !.active = FALSE]
  <2>1. hub' = new /\ turn' = turn /\ shouldSend' = shouldSend /\ cleanup' = "waiting"
    BY <1>9 DEF Deactivate
  <2>2. /\ new \in HubRecords /\ new.incomplete = hub.incomplete /\ new.disp = hub.disp
        /\ new.late = hub.late /\ new.flags = hub.flags
    BY <1>1 DEF HubRecords
  <2> HIDE DEF new
  <2> QED  BY <1>1, <2>1, <2>2, QueuesUntouched
<1>10. CASE RemoveTask
  BY <1>1, <1>10 DEF RemoveTask
<1>11. CASE UNCHANGED vars
  BY <1>1, <1>11 DEF vars
<1> QED
  BY <1>1, <1>2, <1>3, <1>4, <1>5, <1>6, <1>7, <1>8, <1>9, <1>10, <1>11
     DEF Next, Play, Tick, Cleanup, Halted

\* Every state of the hub and its two threads has the types of TypeOK, for
\* every number of players and every length of the game: whatever packets
\* arrive, the functions of network_star_hub.cpp leave the statics well formed.
THEOREM TypeCorrect == Spec => []TypeOK
<1>1. HubInv => TypeOK  BY DEF HubInv
<1> QED  BY <1>1, HubInvInit, HubInvStep, PTL DEF Spec

\* The late flags of a player never run ahead of its flags and are never
\* dequeued while there are none: the assertion of line 826 holds whenever
\* a packet with flags arrives.
THEOREM LateFlagsStayBehind == Spec => []LateBehindFlags
<1>1. HubInv => LateBehindFlags  BY DEF HubInv, LateInStep, LateBehindFlags
<1> QED  BY <1>1, HubInvInit, HubInvStep, PTL DEF Spec

----------------------------------------------------------------------------
(* The players of the system.                                               *)

\* hub_initialize takes the first connected player for reference.
LEMMA ReferenceInit == Init => ReferenceIsMember(hub)
<1> SUFFICES ASSUME Init, Standalone PROVE hub.reference \in hub.connected
  BY DEF ReferenceIsMember
<1>1. PICK connected \in SUBSET Player : connected # {} /\ hub = Initial(connected)
  BY DEF Init
<1>2. /\ hub.connected = connected
      /\ hub.reference = CHOOSE p \in connected : \A q \in connected : p <= q
  BY <1>1 DEF Initial
<1>3. \E p \in connected : \A q \in connected : p <= q
  BY <1>1, FirstPlayer
<1> QED  BY <1>2, <1>3

\* A step leaves the membership alone, or it is the one that declares a player
\* net-dead.
LEMMA MembersStep ==
  ASSUME HubInv, [Next]_vars
  PROVE  \/ SameMembers(hub, hub')
         \/ turn \in Player /\ hub' = NetDead(hub, turn)
<1>1. /\ hub \in BoundedHubs /\ hub \in HubRecords /\ shouldSend \in BOOLEAN
  BY DEF HubInv, TypeOK
<1>2. ASSUME NEW p \in Player, ReceiveIdentification(p)
      PROVE  SameMembers(hub, hub')
  BY <1>1, <1>2, SmallMembers DEF ReceiveIdentification
<1>3. ASSUME NEW p \in Player, ReceiveAny(p)
      PROVE  SameMembers(hub, hub')
  <2>1. PICK ack \in FirstTick .. hub.unsent, from \in FirstTick .. hub.flags[p].w :
          \E to \in from .. Least(from + SpokeWindow, LastTick + 1), asked \in Adjustments :
            ReceiveGameData(p, ack, from, to, asked)
    BY <1>3 DEF ReceiveAny
  <2>2. PICK to \in from .. Least(from + SpokeWindow, LastTick + 1), asked \in Adjustments :
          ReceiveGameData(p, ack, from, to, asked)
    BY <2>1
  <2>3. ack \in Int /\ from \in Int
    BY <1>1, TicksAssumption, QueueFields DEF HubRecords
  <2>4. to \in Int /\ asked \in Int
    BY <2>3, TicksAssumption, SpokesAssumption DEF Least
  <2>5. hub' = GameData(hub, p, ack, from, to, asked)
    BY <2>2 DEF ReceiveGameData
  <2> QED  BY ONLY <1>1, <2>3, <2>4, <2>5, GameDataMembers
<1>4. CASE StartTick \/ CheckDemise
  BY <1>1, <1>4, SmallMembers DEF StartTick, CheckDemise
<1>5. CASE CheckPlayer
  BY <1>5 DEF CheckPlayer, SameMembers
<1>6. CASE FinishTick
  BY <1>1, <1>6, FinishedMembers DEF FinishTick
<1>7. CASE SignalDemise \/ Deactivate
  BY <1>1, <1>7 DEF SignalDemise, Deactivate, SameMembers, HubRecords
<1>8. CASE RemoveTask \/ UNCHANGED vars
  BY <1>8 DEF RemoveTask, vars, SameMembers
<1> QED
  BY <1>2, <1>3, <1>4, <1>5, <1>6, <1>7, <1>8 DEF Next, Play, Tick, Cleanup, Halted

\* On a standalone hub the player of reference, whose acknowledgement hub_tick
\* compares with everybody's to find who has fallen behind, is always one that
\* is connected: the role is passed on at each death.
THEOREM ReferenceStaysConnected == Spec => []ReferenceConnected
<1> DEFINE Inv == HubInv /\ ReferenceIsMember(hub)
<1>1. Init => Inv  BY HubInvInit, ReferenceInit
<1>2. Inv /\ [Next]_vars => Inv'
  <2> SUFFICES ASSUME Inv, [Next]_vars PROVE Inv'  OBVIOUS
  <2>1. HubInv'  BY HubInvStep
  <2>2. CASE SameMembers(hub, hub')
    BY <2>1, <2>2 DEF SameMembers, ReferenceIsMember
  <2>3. CASE turn \in Player /\ hub' = NetDead(hub, turn)
    <3>1. ReferenceIsMember(NetDead(hub, turn))
      BY <2>3, NetDeadMembers DEF HubInv
    <3> QED  BY <2>1, <2>3, <3>1 DEF ReferenceIsMember
  <2> QED  BY <2>2, <2>3, MembersStep
<1>3. Inv => ReferenceConnected  BY DEF ReferenceIsMember, ReferenceConnected
<1> QED  BY <1>1, <1>2, <1>3, PTL DEF Spec

\* No step of a standalone hub leaves exactly one of several players: with the
\* last but one dies the last, so that the game ends for both.
THEOREM LastTwoDieTogether == Spec => NobodyLeftAlone
<1> DEFINE Inv == HubInv /\ ReferenceIsMember(hub)
           Together == Standalone /\ Cardinality(hub.connected) > 1
                         => Cardinality(hub'.connected) # 1
<1>1. Init => Inv  BY HubInvInit, ReferenceInit
<1>2. Inv /\ [Next]_vars => Inv' /\ Together
  <2> SUFFICES ASSUME Inv, [Next]_vars PROVE Inv' /\ Together  OBVIOUS
  <2>1. HubInv'  BY HubInvStep
  <2>2. CASE SameMembers(hub, hub')
    BY <2>1, <2>2 DEF SameMembers, ReferenceIsMember
  <2>3. CASE turn \in Player /\ hub' = NetDead(hub, turn)
    <3>1. /\ ReferenceIsMember(NetDead(hub, turn))
          /\ Standalone => Cardinality(NetDead(hub, turn).connected) # 1
      BY <2>3, NetDeadMembers DEF HubInv
    <3> QED  BY <2>1, <2>3, <3>1 DEF ReferenceIsMember
  <2> QED  BY <2>2, <2>3, MembersStep
<1> QED  BY <1>1, <1>2, PTL DEF Spec, NobodyLeftAlone

----------------------------------------------------------------------------
(* The queues and the books. The inductive invariant adds the books of      *)
(* module HubBooksProofs to the types and bounds; each property follows     *)
(* from it.                                                                 *)

BooksInv == HubInv /\ Books(hub)

----------------------------------------------------------------------------
(* The books, step by step.                                                 *)

\* What a packet of ReceiveAny holds, with the types of its fields: the
\* lemmas about GameData need no more of it.
IsPacket(p, ack, from, to, asked) ==
  /\ ack \in Int /\ from \in Int /\ to \in Int /\ asked \in Int
  /\ ack <= hub.unsent /\ from <= to /\ to <= LastTick + 1
  /\ p \in hub.connected
  /\ hub' = GameData(hub, p, ack, from, to, asked)

LEMMA PacketReceived ==
  ASSUME HubInv, NEW p \in Player, ReceiveAny(p)
  PROVE  \E ack, from, to, asked : IsPacket(p, ack, from, to, asked)
<1>1. hub \in HubRecords  BY DEF HubInv, TypeOK
<1>2. PICK ack \in FirstTick .. hub.unsent, from \in FirstTick .. hub.flags[p].w :
        \E to \in from .. Least(from + SpokeWindow, LastTick + 1), asked \in Adjustments :
          ReceiveGameData(p, ack, from, to, asked)
  BY DEF ReceiveAny
<1>3. PICK to \in from .. Least(from + SpokeWindow, LastTick + 1), asked \in Adjustments :
        ReceiveGameData(p, ack, from, to, asked)
  BY <1>2
<1>4. ack \in Int /\ from \in Int /\ ack <= hub.unsent
  BY <1>1, TicksAssumption, QueueFields, HubFields
<1>5. to \in Int /\ asked \in Int /\ from <= to /\ to <= LastTick + 1
  BY <1>4, TicksAssumption, SpokesAssumption DEF Least
<1>6. hub' = GameData(hub, p, ack, from, to, asked) /\ p \in hub.connected
  BY <1>3 DEF ReceiveGameData
<1> QED  BY <1>4, <1>5, <1>6 DEF IsPacket

\* hub_initialize opens the books.
LEMMA BooksInvInit == Init => BooksInv
<1> SUFFICES ASSUME Init PROVE BooksInv  OBVIOUS
<1>1. PICK connected \in SUBSET Player : hub = Initial(connected)
  BY DEF Init
<1>2. InOrder(hub)  BY <1>1, InitialBooks
<1> QED  BY <1>2, HubInvInit DEF BooksInv, Books

\* Every step of the two threads keeps them.
LEMMA BooksInvStep == BooksInv /\ [Next]_vars => BooksInv'
<1> SUFFICES ASSUME BooksInv, [Next]_vars PROVE BooksInv'  OBVIOUS
<1>1. HubInv /\ Books(hub) /\ HubInv'  BY HubInvStep DEF BooksInv
<1>2. /\ hub \in BoundedHubs /\ hub \in HubRecords /\ LateInStep(hub)
      /\ shouldSend \in BOOLEAN /\ hub.connected \in SUBSET Player
  BY <1>1, HubFields DEF HubInv, TypeOK
<1> SUFFICES Books(hub')  BY <1>1 DEF BooksInv, Books, InOrder, WindowsOrdered,
  FlagsInWindow, QueueInWindow, AcksInWindow, AckInWindow, AcksAwaited,
  FlagsAwaited, MadeUpTold, OneAssertion
<1>3. ASSUME NEW k, SameBooks(hub, k), hub' = k  PROVE Books(hub')
  BY <1>1, <1>3, BooksUntouched
<1>4. ASSUME NEW p \in Player, ReceiveIdentification(p)
      PROVE  Books(hub')
  BY <1>2, <1>3, <1>4, SmallBooks DEF ReceiveIdentification
<1>5. ASSUME NEW p \in Player, ReceiveAny(p)
      PROVE  Books(hub')
  <2>1. PICK ack, from, to, asked : IsPacket(p, ack, from, to, asked)
    BY <1>1, <1>5, PacketReceived
  <2>2. p \in hub.connected /\ InOrder(hub)
    BY <1>1, <2>1 DEF IsPacket, Books
  <2> QED  BY <1>2, <2>1, <2>2, GameDataBooks DEF IsPacket, Books
<1>6. CASE StartTick \/ CheckDemise
  <2>1. 0 \in Player  BY PlayersAssumption DEF Player
  <2> QED  BY <1>2, <1>3, <1>6, <2>1, SmallBooks DEF StartTick, CheckDemise
<1>7. CASE CheckPlayer
  <2>1. hub' = hub \/ (turn \in hub.connected /\ hub' = NetDead(hub, turn))
    BY <1>7 DEF CheckPlayer, Overdue
  <2> QED  BY <1>1, <1>2, <2>1, NetDeadBooks DEF Books
<1>8. CASE FinishTick
  <2>1. hub' = Finished(hub, shouldSend)  BY <1>8 DEF FinishTick
  <2>2. hub'.connected = hub.connected
    BY <1>2, <2>1, FinishedMembers DEF SameMembers
  <2> QED  BY <1>1, <1>2, <2>1, <2>2, FinishedBooks DEF Books
<1>9. CASE SignalDemise
  <2>1. PICK tick \in RealTick .. hub.unsent : hub' = [hub EXCEPT !.postGame = tick]
    BY <1>9 DEF SignalDemise
  <2>2. tick \in Int  BY <1>2, TicksAssumption, HubFields
  <2>3. SameBooks(hub, [hub EXCEPT !.postGame = tick])
    BY <1>2, <2>2 DEF SameBooks, HubRecords
  <2> QED  BY <1>3, <2>1, <2>3
<1>10. CASE Deactivate
  <2>1. SameBooks(hub, [hub EXCEPT !.active = FALSE])
    BY <1>2 DEF SameBooks, HubRecords
  <2> QED  BY <1>3, <1>10, <2>1 DEF Deactivate
<1>11. CASE RemoveTask \/ UNCHANGED vars
  BY <1>1, <1>11 DEF RemoveTask, vars
<1> QED
  BY <1>4, <1>5, <1>6, <1>7, <1>8, <1>9, <1>10, <1>11
     DEF Next, Play, Tick, Cleanup, Halted

----------------------------------------------------------------------------
(* What the books say.                                                      *)

\* What is known of a hub whose books are in order.
LEMMA BooksOpen ==
  ASSUME BooksInv, hub.connected # {}
  PROVE  /\ hub \in HubRecords /\ hub \in BoundedHubs /\ InOrder(hub)
BY DEF BooksInv, HubInv, TypeOK, Books

\* The windows of the hub's queues agree for every number of players: the
\* housekeeping queues hold the same ticks, every player's flags begin with
\* them or end before, and no player is ahead of them, whatever packets
\* arrived and whoever died.
THEOREM WindowsKeepAgreeing == Spec => []WindowsAgree
<1>1. BooksInv => WindowsAgree
  <2> SUFFICES ASSUME BooksInv, hub.connected # {}
               PROVE  /\ hub.disp.r <= hub.incomplete /\ hub.incomplete <= hub.disp.w
                      /\ hub.reflect = hub.disp
                      /\ hub.sendTime = [r |-> hub.disp.r, w |-> hub.unsent]
                      /\ \A p \in Player : /\ hub.flags[p].r = Least(hub.flags[p].w, hub.disp.r)
                                           /\ hub.flags[p].w <= hub.disp.w
                      /\ \A p \in hub.connected : hub.incomplete <= hub.flags[p].w
    BY DEF WindowsAgree
  <2>1. hub \in HubRecords /\ WindowsOrdered(hub) /\ FlagsInWindow(hub)
    BY BooksOpen DEF InOrder
  <2>2. /\ hub.disp.r \in Int /\ hub.incomplete \in Int /\ hub.unsent \in Int
        /\ hub.connected \in SUBSET Player
    BY <2>1, HubFields
  <2> QED  BY <2>1, <2>2 DEF WindowsOrdered, FlagsInWindow, QueueInWindow
<1> QED  BY <1>1, BooksInvInit, BooksInvStep, PTL DEF Spec

\* The masks of sPlayerDataDisposition and the per-player ticks of
\* acknowledgements and flags never disagree on who is being waited for, and
\* somebody always is: the hub never waits for nobody.
THEOREM AwaitedStaysExact == Spec => []AwaitedExactly
<1>1. BooksInv => AwaitedExactly
  BY BooksOpen DEF InOrder, AcksAwaited, FlagsAwaited, AwaitedExactly
<1> QED  BY <1>1, BooksInvInit, BooksInvStep, PTL DEF Spec

\* What a connected player has not acknowledged is still held, and nobody has
\* acknowledged what was never sent.
THEOREM AcksStayWithinSent == Spec => []AcksWithinSent
<1>1. BooksInv => AcksWithinSent
  BY BooksOpen DEF InOrder, AcksInWindow, AckInWindow, WindowsOrdered, AcksWithinSent
<1> QED  BY <1>1, BooksInvInit, BooksInvStep, PTL DEF Spec

\* No queue of the hub overflows or is dequeued while empty, although the room
\* is checked in the queue of a packet's sender only.
THEOREM QueuesStayWithinCapacity == Spec => []QueuesWithinCapacity
<1>1. BooksInv => QueuesWithinCapacity
  <2> SUFFICES ASSUME BooksInv, hub.connected # {}
               PROVE  \A q \in {hub.disp, hub.reflect, hub.sendTime}
                                \cup {hub.flags[p] : p \in Player} :
                        0 <= Size(q) /\ Size(q) <= Capacity
    BY DEF QueuesWithinCapacity
  <2>1. hub \in HubRecords /\ WindowsOrdered(hub) /\ FlagsInWindow(hub)
    BY BooksOpen DEF InOrder
  <2>2. /\ hub.disp.r \in Int /\ hub.disp.w \in Int /\ hub.incomplete \in Int
        /\ hub.unsent \in Int /\ Capacity \in Nat
        /\ \A p \in Player : hub.flags[p].r \in Int /\ hub.flags[p].w \in Int
    BY <2>1, HubFields, QueueAssumption
  <2>3. 0 <= Size(hub.disp) /\ Size(hub.disp) <= Capacity /\ hub.reflect = hub.disp
    BY <2>1, <2>2 DEF WindowsOrdered, Size
  <2>4. 0 <= Size(hub.sendTime) /\ Size(hub.sendTime) <= Capacity
    BY <2>1, <2>2 DEF WindowsOrdered, Size
  <2>5. \A p \in Player : 0 <= Size(hub.flags[p]) /\ Size(hub.flags[p]) <= Capacity
    BY <2>1, <2>2 DEF WindowsOrdered, FlagsInWindow, QueueInWindow, Least, Size
  <2> QED  BY <2>3, <2>4, <2>5
<1> QED  BY <1>1, BooksInvInit, BooksInvStep, PTL DEF Spec

\* send_packets only reads flags that are held: every tick it can send to a
\* connected player is in the queue of every player whose flags belong to it.
THEOREM SendsOnlyHeldFlags == Spec => []SendsHeldFlags
<1>1. BooksInv => SendsHeldFlags
  <2> SUFFICES ASSUME BooksInv, NEW p \in hub.connected,
                      NEW t \in hub.ack[p] .. (hub.incomplete - 1)
               PROVE  /\ t \in Held(hub.reflect)
                      /\ \A q \in Player : q \in hub.connected \/ t < hub.deadTick[q]
                                             => t \in Held(hub.flags[q])
    BY DEF SendsHeldFlags
  <2>1. /\ hub \in HubRecords /\ WindowsOrdered(hub) /\ FlagsInWindow(hub)
        /\ AckInWindow(hub, p)
    BY BooksOpen DEF InOrder, AcksInWindow
  <2>2. /\ hub.disp.r \in Int /\ hub.disp.w \in Int /\ hub.incomplete \in Int
        /\ hub.connected \in SUBSET Player
        /\ \A q \in Player : /\ hub.flags[q].r \in Int /\ hub.flags[q].w \in Int
                             /\ hub.deadTick[q] \in Int /\ hub.ack[q] \in Int
    BY <2>1, HubFields
  <2>3. t \in Int /\ hub.disp.r <= t /\ t < hub.incomplete
    BY <2>1, <2>2 DEF AckInWindow
  <2>4. t \in Held(hub.reflect)
    BY <2>1, <2>2, <2>3 DEF WindowsOrdered, Held
  <2>5. ASSUME NEW q \in Player, q \in hub.connected \/ t < hub.deadTick[q]
        PROVE  t \in Held(hub.flags[q])
    <3>1. t < hub.flags[q].w
      BY <2>1, <2>2, <2>3, <2>5 DEF FlagsInWindow, QueueInWindow
    <3>2. hub.flags[q].r <= t
      BY <2>1, <2>2, <2>3 DEF FlagsInWindow, QueueInWindow, Least
    <3> QED  BY <2>2, <2>3, <3>1, <3>2 DEF Held
  <2> QED  BY <2>4, <2>5
<1> QED  BY <1>1, BooksInvInit, BooksInvStep, PTL DEF Spec

\* A player is told of exactly the ticks where the hub made up its flags.
THEOREM MadeUpFlagsAreReflected == Spec => []ReflectedIffMadeUp
<1>1. BooksInv => ReflectedIffMadeUp
  <2> SUFFICES ASSUME BooksInv, hub.connected # {}, NEW p \in Player,
                      NEW t \in Held(hub.disp)
               PROVE  p \in hub.reflected[t] <=> t \in hub.made[p]
    BY DEF ReflectedIffMadeUp
  <2>1. /\ hub \in HubRecords /\ WindowsOrdered(hub) /\ MadeUpTold(hub)
        /\ hub.disp.w <= LastTick + 1
    BY BooksOpen DEF InOrder, BoundedHubs
  <2>2. hub.disp.r \in Int /\ hub.disp.w \in Int  BY <2>1, HubFields
  <2>3. t \in Ticks /\ hub.disp.r <= t
    BY <2>1, <2>2, TicksAssumption DEF WindowsOrdered, Held, Ticks
  <2> QED  BY <2>1, <2>3 DEF MadeUpTold
<1> QED  BY <1>1, BooksInvInit, BooksInvStep, PTL DEF Spec

\* While anybody is connected, every assertion of network_star_hub.cpp holds
\* but the one about never-sent ticks.
THEOREM OnlyOneAssertionFails == Spec => []OtherAssertionsHold
<1>1. BooksInv => OtherAssertionsHold
  BY BooksOpen DEF InOrder, OneAssertion, OtherAssertionsHold
<1> QED  BY <1>1, BooksInvInit, BooksInvStep, PTL DEF Spec

----------------------------------------------------------------------------
(* What is never taken back, and the end of the game.                       *)

\* The game's end: nobody has told the hub of it before hub_cleanup runs, and
\* then it only stops when everybody is gone; a hub that was told of it and
\* has stopped waits for nobody's acknowledgement.
EndInOrder ==
  /\ cleanup = "none" =>
       hub.postGame = Never /\ (hub.connected # {} => hub.active = TRUE)
  /\ hub.active = FALSE /\ hub.postGame # Never => StillActive(hub) = {}
  /\ cleanup = "down" => hub.active = FALSE

ProgressInv == BooksInv /\ FlagsOrdered(hub) /\ EndInOrder

\* hub_initialize.
LEMMA ProgressInvInit == Init => ProgressInv
<1> SUFFICES ASSUME Init PROVE ProgressInv  OBVIOUS
<1>1. PICK connected \in SUBSET Player : hub = Initial(connected)
  BY DEF Init
<1>2. FlagsOrdered(hub)
  BY <1>1, TicksAssumption DEF FlagsOrdered, Initial, EmptyAt
<1>3. hub.postGame = Never /\ hub.active = TRUE  BY <1>1 DEF Initial
<1>4. cleanup = "none"  BY DEF Init
<1>5. EndInOrder  BY <1>3, <1>4 DEF EndInOrder
<1> QED  BY <1>2, <1>5, BooksInvInit DEF ProgressInv

\* Every step goes onward, but for the two that hub_cleanup starts with.
LEMMA OnwardStep ==
  ASSUME BooksInv, [Next]_vars
  PROVE  Onward(hub, hub') \/ SignalDemise \/ Deactivate
<1>1. /\ hub \in BoundedHubs /\ hub \in HubRecords /\ LateInStep(hub)
      /\ shouldSend \in BOOLEAN /\ HubInv /\ hub.connected \in SUBSET Player
  BY HubFields DEF BooksInv, HubInv, TypeOK
<1>2. ASSUME NEW k, SameBooks(hub, k), SameEnd(hub, k), hub' = k
      PROVE  Onward(hub, hub')
  BY <1>1, <1>2, OnwardSameBooks
<1>3. ASSUME NEW p \in Player, ReceiveIdentification(p)
      PROVE  Onward(hub, hub')
  BY <1>1, <1>2, <1>3, SmallBooks DEF ReceiveIdentification
<1>4. ASSUME NEW p \in Player, ReceiveAny(p)
      PROVE  Onward(hub, hub')
  <2>1. PICK ack, from, to, asked : IsPacket(p, ack, from, to, asked)
    BY <1>1, <1>4, PacketReceived
  <2> QED  BY <1>1, <2>1, GameDataOnward DEF IsPacket
<1>5. CASE StartTick \/ CheckDemise
  <2>1. 0 \in Player  BY PlayersAssumption DEF Player
  <2> QED  BY <1>1, <1>2, <1>5, <2>1, SmallBooks DEF StartTick, CheckDemise
<1>6. CASE CheckPlayer
  <2>1. hub' = hub \/ (turn \in hub.connected /\ hub' = NetDead(hub, turn))
    BY <1>6 DEF CheckPlayer, Overdue
  <2> QED  BY <1>1, <2>1, NetDeadOnward, OnwardReflexive
<1>7. CASE FinishTick
  BY <1>1, <1>7, FinishedOnward DEF FinishTick
<1>8. CASE RemoveTask \/ UNCHANGED vars
  BY <1>1, <1>8, OnwardReflexive DEF RemoveTask, vars
<1> QED
  BY <1>3, <1>4, <1>5, <1>6, <1>7, <1>8 DEF Next, Play, Tick, Cleanup, Halted

\* Every tick comes before Never: a hub that waits for nobody without having
\* been told of the end has nobody connected.
LEMMA StillActiveBeforeEnd ==
  ASSUME NEW h \in BoundedHubs, Books(h), h.postGame = Never, StillActive(h) = {}
  PROVE  h.connected = {}
<1> SUFFICES ASSUME NEW p \in h.connected  PROVE FALSE  OBVIOUS
<1>1. /\ h \in HubRecords /\ WindowsOrdered(h) /\ AckInWindow(h, p)
      /\ h.disp.w <= LastTick + 1
  BY DEF Books, InOrder, AcksInWindow, BoundedHubs
<1>2. /\ h.unsent \in Int /\ h.incomplete \in Int /\ h.disp.w \in Int
      /\ p \in Player /\ h.ack[p] \in Int
  BY <1>1, HubFields
<1>3. h.ack[p] < Never
  BY <1>1, <1>2, TicksAssumption DEF WindowsOrdered, AckInWindow, Never
<1> QED  BY <1>3 DEF StillActive

\* What goes onward keeps the game's end in order.
LEMMA EndOnward ==
  ASSUME NEW h \in HubRecords, NEW k \in BoundedHubs, Books(k), Onward(h, k)
  PROVE  /\ h.active = FALSE => k.active = FALSE
         /\ h.postGame = Never /\ (h.connected # {} => h.active = TRUE)
              => (k.connected # {} => k.active = TRUE)
         /\ (h.active = FALSE /\ h.postGame # Never => StillActive(h) = {})
              => (k.active = FALSE /\ k.postGame # Never => StillActive(k) = {})
<1>1. /\ k \in HubRecords /\ k.postGame = h.postGame
      /\ \A p \in Player : PlayerKept(h, k, p)
  BY DEF Onward
<1>2. k.active = h.active \/ (k.active = FALSE /\ StillActive(k) = {})
  <2>1. StopsWithCause(h, k)  BY DEF Onward
  <2> QED  BY <2>1, Zenon DEF StopsWithCause
<1>3. k.connected \subseteq h.connected
  BY <1>1, HubFields DEF PlayerKept
<1>4. StillActive(k) \subseteq StillActive(h)
  <2> SUFFICES ASSUME NEW p \in k.connected, k.ack[p] < k.postGame
               PROVE  p \in StillActive(h)
    BY DEF StillActive
  <2>1. p \in Player /\ p \in h.connected /\ h.ack[p] <= k.ack[p]
    BY <1>1, HubFields DEF PlayerKept
  <2>2. h.ack[p] \in Int /\ k.ack[p] \in Int /\ k.postGame \in Int
    BY <1>1, <2>1, HubFields DEF HubRecords
  <2>3. h.ack[p] < h.postGame  BY <1>1, <2>1, <2>2
  <2> QED  BY <2>1, <2>3 DEF StillActive
<1>5. h.active = FALSE => k.active = FALSE  BY ONLY <1>2, Zenon
<1>6. ASSUME h.postGame = Never, h.connected # {} => h.active = TRUE, k.connected # {}
      PROVE  k.active = TRUE
  <2>1. h.connected # {}  BY <1>3, <1>6
  <2>2. h.active = TRUE  BY ONLY <1>6, <2>1, Zenon
  <2>3. StillActive(k) # {}  BY <1>1, <1>6, StillActiveBeforeEnd
  <2> QED  BY ONLY <1>2, <2>2, <2>3, Zenon
<1>7. ASSUME h.active = FALSE /\ h.postGame # Never => StillActive(h) = {},
             k.active = FALSE, k.postGame # Never
      PROVE  StillActive(k) = {}
  <2>1. CASE StillActive(k) = {}  BY <2>1
  <2>2. CASE k.active = h.active
    <3>1. h.active = FALSE  BY ONLY <1>7, <2>2, Zenon
    <3>2. h.postGame # Never  BY ONLY <1>1, <1>7, Zenon
    <3>3. StillActive(h) = {}  BY ONLY <1>7, <3>1, <3>2, Zenon
    <3> QED  BY <1>4, <3>3
  <2> QED  BY ONLY <1>2, <2>1, <2>2, Zenon
<1> QED  BY ONLY <1>5, <1>6, <1>7, Zenon

\* hub_cleanup goes through its stages in order, and ends when the hub has
\* stopped.
LEMMA CleanupStep ==
  ASSUME BooksInv, [Next]_vars, ~SignalDemise, ~Deactivate
  PROVE  /\ cleanup' = "none" => cleanup = "none"
         /\ cleanup' = "down" => cleanup = "down" \/ (hub' = hub /\ hub.active = FALSE)
<1>1. CASE RemoveTask
  <2>1. cleanup' = "down" /\ hub' = hub /\ ~hub.active  BY <1>1 DEF RemoveTask
  <2>2. hub.active \in BOOLEAN  BY DEF BooksInv, HubInv, TypeOK, HubRecords
  <2>3. hub.active = FALSE  BY ONLY <2>1, <2>2, Zenon
  <2>4. cleanup' # "none"  BY ONLY <2>1
  <2> QED  BY ONLY <2>1, <2>3, <2>4
<1>2. CASE CheckDemise
  BY <1>2 DEF CheckDemise
<1>3. CASE UNCHANGED cleanup
  BY <1>3
<1>4. RemoveTask \/ CheckDemise \/ UNCHANGED cleanup
  BY DEF Next, Play, Tick, Cleanup, Halted, vars, StartTick, CheckPlayer, FinishTick,
         ReceiveIdentification, ReceiveAny, ReceiveGameData
<1> QED  BY <1>1, <1>2, <1>3, <1>4

\* Every step keeps the invariant.
LEMMA ProgressInvStep == ProgressInv /\ [Next]_vars => ProgressInv'
<1> SUFFICES ASSUME ProgressInv, [Next]_vars PROVE ProgressInv'  OBVIOUS
<1>1. /\ BooksInv /\ BooksInv' /\ FlagsOrdered(hub)
      /\ hub \in HubRecords /\ hub' \in BoundedHubs /\ Books(hub')
  BY BooksInvStep DEF ProgressInv, BooksInv, HubInv, TypeOK, Books, InOrder, WindowsOrdered,
     FlagsInWindow, QueueInWindow, AcksInWindow, AckInWindow, AcksAwaited,
     FlagsAwaited, MadeUpTold, OneAssertion
<1>2. /\ cleanup = "none" => hub.postGame = Never /\ (hub.connected # {} => hub.active = TRUE)
      /\ hub.active = FALSE /\ hub.postGame # Never => StillActive(hub) = {}
      /\ cleanup = "down" => hub.active = FALSE
  BY DEF ProgressInv, EndInOrder
<1> SUFFICES
      /\ FlagsOrdered(hub')
      /\ cleanup' = "none" =>
           hub'.postGame = Never /\ (hub'.connected # {} => hub'.active = TRUE)
      /\ hub'.active = FALSE /\ hub'.postGame # Never => StillActive(hub') = {}
      /\ cleanup' = "down" => hub'.active = FALSE
  BY <1>1, Zenon DEF ProgressInv, EndInOrder, FlagsOrdered, StillActive
<1>3. CASE SignalDemise
  <2>1. PICK tick \in RealTick .. hub.unsent : hub' = [hub EXCEPT !.postGame = tick]
    BY <1>3 DEF SignalDemise
  <2>2. cleanup = "none" /\ cleanup' = "signalled"  BY <1>3 DEF SignalDemise
  <2>3. hub'.flags = hub.flags /\ hub'.active = hub.active /\ hub'.connected = hub.connected
    BY <1>1, <2>1 DEF HubRecords
  <2>4. FlagsOrdered(hub')  BY <1>1, <2>3 DEF FlagsOrdered
  <2>5. ASSUME hub'.active = FALSE  PROVE StillActive(hub') = {}
    <3>1. hub.active = FALSE  BY ONLY <2>3, <2>5, Zenon
    <3>2. hub.connected = {}  BY ONLY <1>2, <2>2, <3>1, Zenon
    <3> QED  BY <2>3, <3>2 DEF StillActive
  <2>6. cleanup' # "none" /\ cleanup' # "down"  BY ONLY <2>2
  <2> QED  BY ONLY <2>4, <2>5, <2>6, Zenon
<1>4. CASE Deactivate
  <2>1. cleanup = "none" /\ cleanup' = "waiting" /\ hub' = [hub EXCEPT !.active = FALSE]
    BY <1>4 DEF Deactivate
  <2>2. hub'.flags = hub.flags /\ hub'.postGame = hub.postGame
    BY <1>1, <2>1 DEF HubRecords
  <2>3. FlagsOrdered(hub')  BY <1>1, <2>2 DEF FlagsOrdered
  <2>4. hub'.postGame = Never  BY ONLY <1>2, <2>1, <2>2, Zenon
  <2>5. cleanup' # "none" /\ cleanup' # "down"  BY ONLY <2>1
  <2> QED  BY ONLY <2>3, <2>4, <2>5, Zenon
<1>5. CASE ~SignalDemise /\ ~Deactivate
  <2>1. Onward(hub, hub')  BY <1>1, <1>5, OnwardStep
  <2>2. FlagsOrdered(hub') /\ hub'.postGame = hub.postGame
    BY <1>1, <2>1 DEF Onward
  <2>3. /\ hub.active = FALSE => hub'.active = FALSE
        /\ hub.postGame = Never /\ (hub.connected # {} => hub.active = TRUE)
             => (hub'.connected # {} => hub'.active = TRUE)
        /\ (hub.active = FALSE /\ hub.postGame # Never => StillActive(hub) = {})
             => (hub'.active = FALSE /\ hub'.postGame # Never => StillActive(hub') = {})
    BY <1>1, <2>1, EndOnward
  <2>4. /\ cleanup' = "none" => cleanup = "none"
        /\ cleanup' = "down" => cleanup = "down" \/ (hub' = hub /\ hub.active = FALSE)
    BY <1>1, <1>5, CleanupStep
  <2> QED  BY ONLY <1>2, <2>2, <2>3, <2>4, Zenon
<1> QED  BY <1>3, <1>4, <1>5

----------------------------------------------------------------------------
(* The theorems.                                                            *)

\* A hub that was told the game's end and has shut down left no connected
\* player without the ticks up to that end, however the packets, the deaths
\* and the threads' steps fell.
THEOREM DownAfterAllAcked == Spec => []DownMeansAllAcked
<1>1. ProgressInv => DownMeansAllAcked
  <2> SUFFICES ASSUME ProgressInv, cleanup = "down", hub.postGame # Never,
                      NEW p \in hub.connected
               PROVE  hub.ack[p] >= hub.postGame
    BY DEF DownMeansAllAcked
  <2>1. hub.active = FALSE  BY DEF ProgressInv, EndInOrder
  <2>2. StillActive(hub) = {}  BY <2>1, Zenon DEF ProgressInv, EndInOrder
  <2>3. hub \in HubRecords  BY DEF ProgressInv, BooksInv, HubInv, TypeOK
  <2>4. p \in Player /\ hub.ack[p] \in Int /\ hub.postGame \in Int
    BY <2>3, HubFields DEF HubRecords
  <2> QED  BY <2>2, <2>4 DEF StillActive
<1> QED  BY <1>1, ProgressInvInit, ProgressInvStep, PTL DEF Spec

\* What was sent stays true: no step replaces the flags of a held tick, lets a
\* net-dead player's flags end before what was sent, or makes a complete tick
\* incomplete.
THEOREM SentStaysFinal == Spec => SentIsFinal
<1> DEFINE Final ==
      /\ hub.incomplete <= hub'.incomplete
      /\ \A p \in Player :
           /\ \A t \in Held(hub.flags[p]) \cap Held(hub'.flags[p]) :
                t \in hub.made[p] <=> t \in hub'.made[p]
           /\ p \in hub.connected \ hub'.connected => hub.unsent <= hub'.deadTick[p]
<1>1. ASSUME ProgressInv, [Next]_vars  PROVE Final
  <2>1. /\ BooksInv /\ FlagsOrdered(hub) /\ hub \in HubRecords /\ hub' \in HubRecords
        /\ hub \in BoundedHubs /\ hub.disp.w <= LastTick + 1
    BY <1>1, ProgressInvStep DEF ProgressInv, BooksInv, HubInv, TypeOK, BoundedHubs
  <2>2. /\ hub.incomplete \in Int /\ hub.unsent \in Int
        /\ \A p \in Player : hub.flags[p].r \in Int /\ hub.flags[p].w \in Int
    BY <2>1, HubFields
  <2>3. CASE SignalDemise \/ Deactivate
    <3>1. /\ hub'.incomplete = hub.incomplete /\ hub'.made = hub.made
          /\ hub'.connected = hub.connected
      BY <2>1, <2>3 DEF SignalDemise, Deactivate, HubRecords
    <3> QED  BY <2>2, <3>1
  <2>4. CASE Onward(hub, hub')
    <3>1. /\ hub.incomplete <= hub'.incomplete
          /\ \A p \in Player : FlagsKept(hub, hub', p) /\ PlayerKept(hub, hub', p)
      BY <2>1, <2>4 DEF Onward
    <3>2. ASSUME NEW p \in Player, NEW t \in Held(hub.flags[p]) \cap Held(hub'.flags[p])
          PROVE  t \in hub.made[p] <=> t \in hub'.made[p]
      <4>1. FlagsKept(hub, hub', p)  BY <3>1
      <4>2. hub'.flags[p].r \in Int /\ hub'.flags[p].w \in Int  BY <2>1, HubFields
      <4>3. t \in Int /\ t < hub.flags[p].w /\ hub'.flags[p].r <= t
        BY <2>2, <4>2 DEF Held
      <4> QED  BY <4>1, <4>3 DEF FlagsKept
    <3>3. ASSUME NEW p \in hub.connected \ hub'.connected
          PROVE  hub.unsent <= hub'.deadTick[p]
      <4>1. p \in Player /\ hub'.deadTick[p] \in Int  BY <2>1, HubFields
      <4>2. hub.unsent <= hub.incomplete
        BY <2>1, BooksOpen DEF InOrder, WindowsOrdered
      <4>3. hub.incomplete <= hub'.deadTick[p]  BY <3>1, <4>1 DEF PlayerKept
      <4> QED  BY <2>2, <4>1, <4>2, <4>3
    <3> QED  BY <3>1, <3>2, <3>3
  <2> QED  BY <1>1, <2>1, <2>3, <2>4, OnwardStep
<1> QED  BY <1>1, ProgressInvInit, ProgressInvStep, PTL DEF Spec, SentIsFinal
=============================================================================
