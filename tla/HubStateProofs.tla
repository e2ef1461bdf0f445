--------------------------- MODULE HubStateProofs ---------------------------
(* Lemmas about the functions of module HubState: each maps hubs to hubs,   *)
(* none lets the late flags of a player run ahead of its flags, and only    *)
(* the first half of make_player_netdead changes who is connected.          *)
EXTENDS HubState, FiniteSetTheorems, WellFoundedInduction, TLAPS

----------------------------------------------------------------------------
(* Finite sets of integers.                                                 *)

\* A set of ticks between two given ones has a cardinality.
LEMMA CardinalityOfTicks ==
  ASSUME NEW a \in Int, NEW b \in Int, NEW S \in SUBSET (a .. b)
  PROVE  IsFiniteSet(S) /\ Cardinality(S) \in Nat
BY FS_Interval, FS_Subset, FS_CardinalityType

\* A set of players has a cardinality.
LEMMA CardinalityOfPlayers ==
  ASSUME NEW S \in SUBSET Player
  PROVE  IsFiniteSet(S) /\ Cardinality(S) \in Nat
<1>1. NumPlayers - 1 \in Int  BY PlayersAssumption
<1>2. S \in SUBSET (0 .. (NumPlayers - 1))  BY DEF Player
<1> QED  BY ONLY <1>1, <1>2, CardinalityOfTicks, 0 \in Int

\* A non-empty set of natural numbers has a least one.
LEMMA LeastNumber ==
  ASSUME NEW S \in SUBSET Nat, S # {}
  PROVE  \E m \in S : \A n \in S : m <= n
<1>1. PICK m \in S : \A n \in S : <<n, m>> \notin OpToRel(<, Nat)
  BY WFMin, NatLessThanWellFounded
<1>2. \A n \in S : n \in Nat /\ m \in Nat /\ ~(n < m)  BY <1>1 DEF OpToRel
<1>3. \A n \in S : m <= n  BY <1>2
<1> QED  BY <1>3

\* A set of ticks that holds with a tick the earlier ones of a span is the
\* beginning of the span: how many they are tells which they are.
LEMMA EarliestTicks ==
  ASSUME NEW a \in Int, NEW b \in Int, NEW S \in SUBSET (a .. b), NEW r \in Int,
         S # {} => a = r,
         \A t \in S : \A u \in a .. t : u \in S
  PROVE  Cardinality(S) \in Nat /\ S = r .. (r + Cardinality(S) - 1)
<1>1. CASE S = {}
  <2>1. Cardinality(S) = 0  BY <1>1, FS_EmptySet
  <2>2. r .. (r + 0 - 1) = {}  OBVIOUS
  <2> QED  BY <1>1, <2>1, <2>2
<1>2. CASE S # {}
  <2> DEFINE Out == {k \in Nat : a + k \notin S}
  <2>1. PICK s \in S : s \in a .. b  BY <1>2
  <2>2. b - a + 1 \in Out  BY <2>1
  <2>3. PICK n \in Out : \A k \in Out : n <= k
    <3>1. Out \in SUBSET Nat /\ Out # {}  BY <2>2
    <3> HIDE DEF Out
    <3> QED  BY <3>1, LeastNumber
  <2>4. S = a .. (a + n - 1)
    <3>1. ASSUME NEW t \in S  PROVE t \in a .. (a + n - 1)
      <4>1. t \in a .. b  OBVIOUS
      <4>2. a + n \notin S /\ n \in Nat  BY <2>3
      <4>3. ~(a + n <= t)  BY <4>1, <4>2
      <4> QED  BY <4>1, <4>2, <4>3
    <3>2. ASSUME NEW t \in a .. (a + n - 1)  PROVE t \in S
      <4>1. t - a \in Nat /\ t - a < n /\ a + (t - a) = t  BY <2>3
      <4>2. t - a \notin Out  BY <2>3, <4>1
      <4> QED  BY <4>1, <4>2
    <3> QED  BY <3>1, <3>2
  <2>5. Cardinality(S) = n
    <3>1. a \in Int /\ a + n - 1 \in Int /\ n \in Nat  BY <2>3
    <3>2. Cardinality(a .. (a + n - 1)) = IF a > a + n - 1 THEN 0 ELSE (a + n - 1) - a + 1
      BY ONLY <3>1, FS_Interval
    <3>3. (IF a > a + n - 1 THEN 0 ELSE (a + n - 1) - a + 1) = n
      BY ONLY <3>1
    <3> QED  BY <2>4, <3>2, <3>3
  <2> QED  BY <1>2, <2>3, <2>4, <2>5
<1> QED  BY <1>1, <1>2

\* A player of a non-empty set has the smallest index, and one the largest.
LEMMA FirstPlayer ==
  ASSUME NEW S \in SUBSET Player, S # {}
  PROVE  \E p \in S : \A q \in S : p <= q
<1>1. S \in SUBSET Nat  BY DEF Player
<1> QED  BY <1>1, LeastNumber

LEMMA LastPlayer ==
  ASSUME NEW S \in SUBSET Player, S # {}
  PROVE  \E p \in S : \A q \in S : q <= p
<1> DEFINE Mirror == {NumPlayers - 1 - p : p \in S}
<1>1. Mirror \in SUBSET Player
  BY PlayersAssumption, SMT DEF Player
<1>0. Mirror # {}
  BY Zenon
<1>2. PICK m \in Mirror : \A n \in Mirror : m <= n
  BY <1>1, <1>0, FirstPlayer
<1>3. PICK p \in S : m = NumPlayers - 1 - p  OBVIOUS
<1>4. \A q \in S : q <= p
  BY <1>2, <1>3, PlayersAssumption DEF Player
<1> QED  BY <1>4

----------------------------------------------------------------------------
(* The functions of the hub map hubs to hubs.                               *)

\* hub_tick counts on: every player's silence stays within its bound.
LEMMA AgedType ==
  ASSUME NEW h \in HubRecords
  PROVE  Aged(h) \in HubRecords
<1>1. /\ [p \in Player |-> Least(h.silence[p] + 1, MaxSilence)] \in [Player -> 0 .. MaxSilence]
      /\ Least(h.sinceSent + 1, RecoveryPeriod) \in 0 .. RecoveryPeriod
      /\ Least(h.sinceReal + 1, MinSendPeriod) \in 0 .. MinSendPeriod
  BY TimingAssumption DEF HubRecords, Least
<1> QED  BY <1>1 DEF Aged, HubRecords

\* hub_check_for_completion leaves a hub.
LEMMA CheckCompletionType ==
  ASSUME NEW h \in HubRecords
  PROVE  /\ CheckCompletion(h) \in HubRecords
         /\ CheckCompletion(h).incomplete = h.incomplete
         /\ CheckCompletion(h).disp = h.disp
         /\ CheckCompletion(h).late = h.late
         /\ CheckCompletion(h).flags = h.flags
BY DEF CheckCompletion, HubRecords

\* sHubActive is cleared only when no acknowledgement is waited for.
StopsWithCause(h, k) == k.active = h.active \/ (k.active = FALSE /\ StillActive(k) = {})

\* hub_check_for_completion changes sHubActive only, and not without cause.
LEMMA CheckCompletionFields ==
  ASSUME NEW h \in HubRecords, NEW k, k = CheckCompletion(h)
  PROVE  /\ k \in HubRecords
         /\ k.connected = h.connected /\ k.deadTick = h.deadTick
         /\ k.incomplete = h.incomplete /\ k.unsent = h.unsent
         /\ k.postGame = h.postGame /\ k.late = h.late
         /\ k.ack = h.ack /\ k.awaited = h.awaited /\ k.disp = h.disp
         /\ k.sendTime = h.sendTime /\ k.reflect = h.reflect
         /\ k.reflected = h.reflected /\ k.flags = h.flags
         /\ k.made = h.made /\ k.broken = h.broken
         /\ StopsWithCause(h, k)
<1>1. CASE StillActive(h) # {}
  <2>1. k = h  BY <1>1 DEF CheckCompletion
  <2>2. StopsWithCause(h, k)
    <3>1. k.active = h.active  BY ONLY <2>1
    <3> QED  BY ONLY <3>1, SMT DEF StopsWithCause
  <2> QED  BY <2>1, <2>2
<1>2. CASE StillActive(h) = {}
  <2>1. k = [h EXCEPT !.active = FALSE]  BY <1>2 DEF CheckCompletion
  <2>2. /\ k \in HubRecords
        /\ k.connected = h.connected /\ k.deadTick = h.deadTick
        /\ k.incomplete = h.incomplete /\ k.unsent = h.unsent
        /\ k.postGame = h.postGame /\ k.late = h.late
        /\ k.ack = h.ack /\ k.awaited = h.awaited /\ k.disp = h.disp
        /\ k.sendTime = h.sendTime /\ k.reflect = h.reflect
        /\ k.reflected = h.reflected /\ k.flags = h.flags
        /\ k.made = h.made /\ k.broken = h.broken
    BY ONLY <2>1, h \in HubRecords DEF HubRecords
  <2>3. k.active = FALSE  BY <2>1 DEF HubRecords
  <2>4. StillActive(k) = {}  BY <1>2, <2>2 DEF StillActive
  <2>5. StopsWithCause(h, k)  BY <2>3, <2>4, Zenon DEF StopsWithCause
  <2> QED  BY <2>2, <2>5
<1> QED  BY <1>1, <1>2

\* An identification leaves a hub.
LEMMA IdentifiedType ==
  ASSUME NEW h \in HubRecords, NEW p \in Player
  PROVE  /\ Identified(h, p) \in HubRecords
         /\ Identified(h, p).incomplete = h.incomplete /\ Identified(h, p).disp = h.disp
         /\ Identified(h, p).late = h.late /\ Identified(h, p).flags = h.flags
BY DEF Identified, HubRecords

\* send_packets leaves a hub.
LEMMA SentType ==
  ASSUME NEW h \in HubRecords
  PROVE  Sent(h) \in HubRecords
<1>1. Grow(h.sendTime, Greatest(h.incomplete - h.sendTime.w, 0)) \in Queue
  BY DEF HubRecords, Queue, Grow, Greatest
<1>2. 0 \in 0 .. RecoveryPeriod  BY TimingAssumption
<1> QED  BY <1>1, <1>2 DEF Sent, HubRecords

\* A queue from which n elements were read is a queue.
LEMMA DropType ==
  ASSUME NEW q \in Queue, NEW n \in Int
  PROVE  Drop(q, n) \in Queue
BY DEF Drop, Queue

\* A queue into which n elements were written is a queue.
LEMMA GrowType ==
  ASSUME NEW q \in Queue, NEW n \in Int
  PROVE  Grow(q, n) \in Queue
BY DEF Grow, Queue

\* player_acknowledged_up_to_tick: the masks without p, and the ticks that
\* nobody is awaited for any more.
Struck(h, p, tick) ==
  [t \in Ticks |-> IF t \in h.ack[p] .. (tick - 1) THEN h.awaited[t] \ {p} ELSE h.awaited[t]]
Done(h, p, tick) == {t \in h.ack[p] .. (tick - 1) : Struck(h, p, tick)[t] = {}}
Count(h, p, tick) == Cardinality(Done(h, p, tick))

\* The queues and their elements after n ticks have left them.
Dequeued(h, n) == [q \in Player |-> Drop(h.flags[q], Least(n, Size(h.flags[q])))]
StillMade(h, n) == [q \in Player |-> {t \in h.made[q] : Dequeued(h, n)[q].r <= t}]
StillReflected(h, n) == [t \in Ticks |-> IF t < h.reflect.r + n THEN {} ELSE h.reflected[t]]

\* The assertions that have failed after it.
BrokenAfter(h, p, tick) ==
  LET span == h.ack[p] .. (tick - 1)
      n    == Count(h, p, tick)
      Oldest(q) == Done(h, p, tick) = q.r .. (q.r + n - 1)
  IN h.broken \cup Unless(\A t \in span : p \in h.awaited[t], 959)
     \cup Unless(p = LocalPlayer \/ \A t \in span : t < h.sendTime.w, 963)
     \cup Unless(Oldest(h.disp), 983)
     \cup Unless(Oldest(h.sendTime), 984)
     \cup Unless(Oldest(h.reflect), 985)
     \cup Unless(n = 0 \/ \A q \in Player : Size(h.flags[q]) > 0
                            => h.flags[q].r = h.disp.r, 994)

\* player_acknowledged_up_to_tick leaves a hub; what it does to the fields.
LEMMA AcknowledgedFields ==
  ASSUME NEW h \in HubRecords, NEW p \in Player, NEW tick \in Int, h.ack[p] <= tick,
         NEW k, k = Acknowledged(h, p, tick)
  PROVE  /\ k \in HubRecords
         /\ k.connected = h.connected /\ k.deadTick = h.deadTick
         /\ k.incomplete = h.incomplete /\ k.unsent = h.unsent
         /\ k.postGame = h.postGame /\ k.late = h.late
         /\ \A q \in Player : k.ack[q] = IF q = p THEN tick ELSE h.ack[q]
         /\ k.awaited = Struck(h, p, tick)
         /\ k.disp = Drop(h.disp, Count(h, p, tick)) /\ k.sendTime = Drop(h.sendTime, Count(h, p, tick))
         /\ k.reflect = Drop(h.reflect, Count(h, p, tick))
         /\ k.flags = Dequeued(h, Count(h, p, tick))
         /\ k.made = StillMade(h, Count(h, p, tick))
         /\ k.reflected = StillReflected(h, Count(h, p, tick))
         /\ k.broken = BrokenAfter(h, p, tick)
         /\ StopsWithCause(h, k)
<1> DEFINE n       == Count(h, p, tick)
           awaited == Struck(h, p, tick)
           flags   == Dequeued(h, n)
           made    == StillMade(h, n)
           reflected == StillReflected(h, n)
           broken  == BrokenAfter(h, p, tick)
           new1 == [h EXCEPT !.silence[p] = 0, !.ack[p] = tick,
                             !.adjusting[p] = IF h.adjTick[p] < tick THEN 0 ELSE @]
           new2 == [new1 EXCEPT !.awaited = awaited, !.disp = Drop(h.disp, n),
                                !.sendTime = Drop(h.sendTime, n), !.reflect = Drop(h.reflect, n)]
           new3 == [new2 EXCEPT !.reflected = reflected, !.flags = flags, !.made = made,
                                !.broken = broken]
<1>1. n \in Int
  <2>1. h.ack[p] \in Int /\ tick - 1 \in Int  BY DEF HubRecords
  <2>2. Done(h, p, tick) \in SUBSET (h.ack[p] .. (tick - 1))  BY DEF Done
  <2>3. Cardinality(Done(h, p, tick)) \in Nat
    BY ONLY <2>1, <2>2, CardinalityOfTicks
  <2> QED  BY <2>3 DEF Count
<1>2. awaited \in [Ticks -> SUBSET Player]
  BY DEF HubRecords, Struck
<1>9. k = CheckCompletion(new3)
  <2>1. Acknowledged(h, p, tick) = IF tick < h.ack[p] THEN h ELSE CheckCompletion(new3)
    BY DEF Acknowledged, Struck, Done, Count, Dequeued, StillMade, StillReflected, BrokenAfter
  <2>2. ~(tick < h.ack[p])  BY DEF HubRecords
  <2> QED  BY ONLY <2>1, <2>2, k = Acknowledged(h, p, tick), Zenon
<1> HIDE DEF n
<1>3. flags \in [Player -> Queue]
  <2> SUFFICES ASSUME NEW q \in Player
               PROVE  Drop(h.flags[q], Least(n, Size(h.flags[q]))) \in Queue
    BY DEF Dequeued
  <2>1. h.flags[q] \in Queue  BY DEF HubRecords
  <2>2. Least(n, Size(h.flags[q])) \in Int  BY <1>1, <2>1 DEF Least, Size, Queue
  <2> QED  BY ONLY <2>1, <2>2, DropType
<1>4. reflected \in [Ticks -> SUBSET Player]
  BY DEF HubRecords, StillReflected
<1>5. made \in [Player -> SUBSET Ticks]
  BY DEF HubRecords, StillMade
<1>6. broken \in SUBSET Lines
  BY DEF HubRecords, Unless, Lines, BrokenAfter
<1>7. Drop(h.disp, n) \in Queue /\ Drop(h.sendTime, n) \in Queue /\ Drop(h.reflect, n) \in Queue
  BY <1>1, DropType DEF HubRecords
<1>8. /\ [h.silence EXCEPT ![p] = 0] \in [Player -> 0 .. MaxSilence]
      /\ [h.ack EXCEPT ![p] = tick] \in [Player -> Int]
      /\ [h.adjusting EXCEPT ![p] = IF h.adjTick[p] < tick THEN 0 ELSE @] \in [Player -> Int]
  BY TimingAssumption DEF HubRecords
<1>10. /\ new3 \in HubRecords
       /\ new3.connected = h.connected /\ new3.deadTick = h.deadTick
       /\ new3.incomplete = h.incomplete /\ new3.unsent = h.unsent
       /\ new3.postGame = h.postGame /\ new3.late = h.late /\ new3.active = h.active
       /\ new3.ack = [h.ack EXCEPT ![p] = tick]
       /\ new3.awaited = awaited /\ new3.disp = Drop(h.disp, n)
       /\ new3.sendTime = Drop(h.sendTime, n) /\ new3.reflect = Drop(h.reflect, n)
       /\ new3.reflected = reflected /\ new3.flags = flags
       /\ new3.made = made /\ new3.broken = broken
  <2> HIDE DEF awaited, flags, reflected, made, broken
  <2>1. /\ new1 \in HubRecords
        /\ new1.connected = h.connected /\ new1.deadTick = h.deadTick
        /\ new1.incomplete = h.incomplete /\ new1.unsent = h.unsent
        /\ new1.postGame = h.postGame /\ new1.late = h.late /\ new1.active = h.active
        /\ new1.ack = [h.ack EXCEPT ![p] = tick]
    BY <1>8 DEF HubRecords
  <2> HIDE DEF new1
  <2>2. /\ new2 \in HubRecords
        /\ new2.connected = h.connected /\ new2.deadTick = h.deadTick
        /\ new2.incomplete = h.incomplete /\ new2.unsent = h.unsent
        /\ new2.postGame = h.postGame /\ new2.late = h.late /\ new2.active = h.active
        /\ new2.ack = [h.ack EXCEPT ![p] = tick]
        /\ new2.awaited = awaited /\ new2.disp = Drop(h.disp, n)
        /\ new2.sendTime = Drop(h.sendTime, n) /\ new2.reflect = Drop(h.reflect, n)
    BY <2>1, <1>2, <1>7 DEF HubRecords
  <2> HIDE DEF new2
  <2> QED
    BY <2>2, <1>3, <1>4, <1>5, <1>6 DEF HubRecords
<1> HIDE DEF new3
<1>11. /\ k \in HubRecords
       /\ k.connected = new3.connected /\ k.deadTick = new3.deadTick
       /\ k.incomplete = new3.incomplete /\ k.unsent = new3.unsent
       /\ k.postGame = new3.postGame /\ k.late = new3.late
       /\ k.ack = new3.ack /\ k.awaited = new3.awaited /\ k.disp = new3.disp
       /\ k.sendTime = new3.sendTime /\ k.reflect = new3.reflect
       /\ k.reflected = new3.reflected /\ k.flags = new3.flags
       /\ k.made = new3.made /\ k.broken = new3.broken
       /\ StopsWithCause(new3, k)
  <2>1. StopsWithCause(new3, k)
    BY ONLY <1>9, <1>10, CheckCompletionFields
  <2>2. /\ k \in HubRecords
        /\ k.connected = new3.connected /\ k.deadTick = new3.deadTick
        /\ k.incomplete = new3.incomplete /\ k.unsent = new3.unsent
        /\ k.postGame = new3.postGame /\ k.late = new3.late
        /\ k.ack = new3.ack /\ k.awaited = new3.awaited /\ k.disp = new3.disp
        /\ k.sendTime = new3.sendTime /\ k.reflect = new3.reflect
        /\ k.reflected = new3.reflected /\ k.flags = new3.flags
        /\ k.made = new3.made /\ k.broken = new3.broken
    <3>1. new3 \in HubRecords  BY <1>10
    <3> QED  BY ONLY <1>9, <3>1, CheckCompletionFields
  <2> QED  BY ONLY <2>1, <2>2
<1>12. \A q \in Player : [h.ack EXCEPT ![p] = tick][q] = IF q = p THEN tick ELSE h.ack[q]
  BY DEF HubRecords
<1>13. StopsWithCause(h, k)
  BY ONLY <1>10, <1>11 DEF StopsWithCause
<1>14. \A q \in Player : k.ack[q] = IF q = p THEN tick ELSE h.ack[q]
  BY ONLY <1>10, <1>11, <1>12
<1> QED
  BY ONLY <1>10, <1>11, <1>13, <1>14 DEF n, awaited, flags, made, reflected, broken

\* The hub's types after it.
LEMMA AcknowledgedType ==
  ASSUME NEW h \in HubRecords, NEW p \in Player, NEW tick \in Int
  PROVE  /\ Acknowledged(h, p, tick) \in HubRecords
         /\ Acknowledged(h, p, tick).incomplete = h.incomplete
         /\ Acknowledged(h, p, tick).disp.w = h.disp.w
         /\ Acknowledged(h, p, tick).late = h.late
         /\ \A q \in Player : Acknowledged(h, p, tick).flags[q].w = h.flags[q].w
<1>1. CASE tick < h.ack[p]
  BY <1>1 DEF Acknowledged
<1>2. CASE h.ack[p] <= tick
  <2> DEFINE k == Acknowledged(h, p, tick)
             n == Count(h, p, tick)
  <2>0. k = Acknowledged(h, p, tick)  OBVIOUS
  <2> HIDE DEF k
  <2>1. /\ k \in HubRecords /\ k.incomplete = h.incomplete /\ k.late = h.late
        /\ k.disp = Drop(h.disp, n)
        /\ k.flags = Dequeued(h, n)
    BY <1>2, <2>0, AcknowledgedFields
  <2> HIDE DEF n
  <2>2. k.disp.w = h.disp.w /\ \A q \in Player : k.flags[q].w = h.flags[q].w
    BY <2>1 DEF Drop, Dequeued
  <2> QED  BY <2>1, <2>2 DEF k
<1> QED  BY <1>1, <1>2 DEF HubRecords

\* player_provided_flags_from_tick_to_tick: the masks when the ticks it needs
\* are there, the ticks whose last flags it provides, and the masks after it.
Entered(h, to) ==
  [t \in Ticks |-> IF t \in h.disp.w .. (to - 1) THEN h.connected ELSE h.awaited[t]]
Complete(h, p, from, to) == {t \in from .. (to - 1) : Entered(h, to)[t] \ {p} = {}}
Completed(h, p, from, to) == Cardinality(Complete(h, p, from, to))
AwaitedAfter(h, p, from, to) ==
  [t \in Ticks |-> IF t \in Complete(h, p, from, to) THEN h.connected
                   ELSE IF t \in from .. (to - 1) THEN Entered(h, to)[t] \ {p}
                   ELSE Entered(h, to)[t]]
LateAfter(h, p, from, to) ==
  [h.late EXCEPT ![p] = IF from .. (to - 1) # {}
                        THEN Drop(h.late[p], Greatest(Size(h.late[p]), 0)) ELSE h.late[p]]

\* The assertions that have failed after it.
BrokenWith(h, p, from, to) ==
  h.broken \cup Unless(h.disp.w = h.reflect.w, 1084)
    \cup Unless(\A t \in from .. (to - 1) : p \in Entered(h, to)[t], 1097)
    \cup Unless(Complete(h, p, from, to)
                = h.incomplete .. (h.incomplete + Completed(h, p, from, to) - 1), 1109)

\* player_provided_flags_from_tick_to_tick leaves a hub, if no tick is provided
\* beyond the bound; what it does to the fields.
LEMMA ProvidedFields ==
  ASSUME NEW h \in HubRecords, NEW p \in Player, NEW from \in Int, NEW to \in Int,
         NEW k, k = Provided(h, p, from, to)
  PROVE  /\ k \in HubRecords /\ Completed(h, p, from, to) \in Nat
         /\ k.connected = h.connected /\ k.deadTick = h.deadTick
         /\ k.unsent = h.unsent /\ k.sinceSent = h.sinceSent /\ k.postGame = h.postGame
         /\ k.ack = h.ack /\ k.flags = h.flags /\ k.made = h.made
         /\ k.reflected = h.reflected /\ k.sendTime = h.sendTime
         /\ k.incomplete = h.incomplete + Completed(h, p, from, to)
         /\ k.disp = Grow(h.disp, Greatest(to - h.disp.w, 0))
         /\ k.reflect = Grow(h.reflect, Greatest(to - h.disp.w, 0))
         /\ k.awaited = AwaitedAfter(h, p, from, to)
         /\ k.late = LateAfter(h, p, from, to)
         /\ k.broken = BrokenWith(h, p, from, to)
         /\ StopsWithCause(h, k)
<1> DEFINE n       == Greatest(to - h.disp.w, 0)
           c       == Completed(h, p, from, to)
           awaited == AwaitedAfter(h, p, from, to)
           lagging == IF from .. (to - 1) # {} THEN h.lagging \ {p} ELSE h.lagging
           late    == IF from .. (to - 1) # {}
                      THEN Drop(h.late[p], Greatest(Size(h.late[p]), 0)) ELSE h.late[p]
           sinceReal == IF c > 0 THEN 0 ELSE h.sinceReal
           broken == BrokenWith(h, p, from, to)
           new1 == [h EXCEPT !.disp = Grow(h.disp, n), !.reflect = Grow(h.reflect, n),
                             !.awaited = awaited, !.lagging = lagging]
           new2 == [new1 EXCEPT !.late[p] = late, !.incomplete = h.incomplete + c,
                                !.sinceReal = sinceReal, !.broken = broken]
<1>1. c \in Nat
  <2>1. from \in Int /\ to - 1 \in Int  OBVIOUS
  <2>2. Complete(h, p, from, to) \in SUBSET (from .. (to - 1))  BY DEF Complete
  <2>3. Cardinality(Complete(h, p, from, to)) \in Nat
    BY ONLY <2>1, <2>2, CardinalityOfTicks
  <2> QED  BY <2>3 DEF Completed
<1>2. n \in Int  BY DEF Greatest, HubRecords, Queue
<1>3. Entered(h, to) \in [Ticks -> SUBSET Player]
  BY DEF HubRecords, Entered
<1>4. awaited \in [Ticks -> SUBSET Player]
  BY <1>3 DEF HubRecords, AwaitedAfter
<1>5. lagging \in SUBSET Player
  BY DEF HubRecords
<1>6. late \in Queue
  <2>1. h.late[p] \in Queue  BY DEF HubRecords
  <2>2. Greatest(Size(h.late[p]), 0) \in Int  BY <2>1 DEF Greatest, Size, Queue
  <2>3. Drop(h.late[p], Greatest(Size(h.late[p]), 0)) \in Queue
    BY ONLY <2>1, <2>2, DropType
  <2> QED  BY <2>1, <2>3
<1>11. k = new2
  BY DEF Provided, AwaitedAfter, Entered, Complete, Completed, BrokenWith
<1> HIDE DEF c
<1>7. sinceReal \in 0 .. MinSendPeriod
  BY TimingAssumption DEF HubRecords
<1>8. broken \in SUBSET Lines
  BY DEF HubRecords, Unless, Lines, BrokenWith
<1> HIDE DEF n
<1>9. Grow(h.disp, n) \in Queue /\ Grow(h.reflect, n) \in Queue
  BY <1>2, GrowType DEF HubRecords
<1>10. h.incomplete + c \in Int  BY <1>1 DEF HubRecords
<1>12. /\ new2 \in HubRecords
       /\ new2.connected = h.connected /\ new2.deadTick = h.deadTick
       /\ new2.unsent = h.unsent /\ new2.sinceSent = h.sinceSent
       /\ new2.postGame = h.postGame
       /\ new2.ack = h.ack /\ new2.flags = h.flags /\ new2.made = h.made
       /\ new2.reflected = h.reflected /\ new2.sendTime = h.sendTime
       /\ new2.incomplete = h.incomplete + c
       /\ new2.disp = Grow(h.disp, n)
       /\ new2.reflect = Grow(h.reflect, n)
       /\ new2.awaited = awaited
       /\ new2.late = [h.late EXCEPT ![p] = late]
       /\ new2.broken = broken
  <2> HIDE DEF awaited, lagging, late, sinceReal, broken
  <2>1. /\ new1 \in HubRecords
        /\ new1.connected = h.connected /\ new1.deadTick = h.deadTick
        /\ new1.unsent = h.unsent /\ new1.sinceSent = h.sinceSent
        /\ new1.postGame = h.postGame /\ new1.late = h.late
        /\ new1.ack = h.ack /\ new1.flags = h.flags /\ new1.made = h.made
        /\ new1.reflected = h.reflected /\ new1.sendTime = h.sendTime
        /\ new1.disp = Grow(h.disp, n)
        /\ new1.reflect = Grow(h.reflect, n)
        /\ new1.awaited = awaited
    BY <1>4, <1>5, <1>9 DEF HubRecords
  <2> HIDE DEF new1
  <2> QED
    BY <2>1, <1>6, <1>7, <1>8, <1>10 DEF HubRecords
<1>13. StopsWithCause(h, new2)
  <2>1. new2.active = h.active  BY DEF HubRecords
  <2> QED  BY <2>1, Zenon DEF StopsWithCause
<1> HIDE DEF new2
<1>14. [h.late EXCEPT ![p] = late] = LateAfter(h, p, from, to)  BY DEF LateAfter
<1> HIDE DEF late
<1> QED
  BY ONLY <1>1, <1>11, <1>12, <1>13, <1>14 DEF c, n, awaited, broken

\* The hub's types after it.
LEMMA ProvidedType ==
  ASSUME NEW h \in HubRecords, NEW p \in Player, NEW from \in Int, NEW to \in Int
  PROVE  /\ Provided(h, p, from, to) \in HubRecords
         /\ Provided(h, p, from, to).incomplete >= h.incomplete
         /\ Provided(h, p, from, to).disp.w = Greatest(to, h.disp.w)
         /\ Provided(h, p, from, to).flags = h.flags
         /\ \A q \in Player : Provided(h, p, from, to).late[q]
                              \in {h.late[q], Drop(h.late[q], Greatest(Size(h.late[q]), 0))}
<1> DEFINE k == Provided(h, p, from, to)
           c == Completed(h, p, from, to)
<1>0. k = Provided(h, p, from, to)  OBVIOUS
<1> HIDE DEF k
<1>1. /\ k \in HubRecords /\ c \in Nat /\ k.flags = h.flags
      /\ k.incomplete = h.incomplete + c
      /\ k.disp = Grow(h.disp, Greatest(to - h.disp.w, 0))
      /\ k.late = LateAfter(h, p, from, to)
  BY <1>0, ProvidedFields
<1> HIDE DEF c
<1>2. k.incomplete >= h.incomplete  BY <1>1 DEF HubRecords
<1>3. k.disp.w = Greatest(to, h.disp.w)
  <2>1. h.disp.w \in Int  BY DEF HubRecords, Queue
  <2> QED  BY <1>1, <2>1 DEF Grow, Greatest
<1>4. \A q \in Player : k.late[q] \in {h.late[q], Drop(h.late[q], Greatest(Size(h.late[q]), 0))}
  BY <1>1 DEF LateAfter, HubRecords
<1> QED  BY <1>1, <1>2, <1>3, <1>4 DEF k

\* Hubs between whose first tick and the bound the incomplete ticks lie.
BoundedHubs ==
  {h \in HubRecords : FirstTick <= h.incomplete /\ h.disp.w <= LastTick + 1}

\* Late flags folded into one leave a queue.
LEMMA CollapsedType ==
  ASSUME NEW q \in Queue
  PROVE  Collapsed(q) \in Queue
<1>1. Size(q) \div 2 + 1 \in Int  BY DEF Size, Queue
<1> QED  BY <1>1, DropType DEF Collapsed

\* make_up_flags_for_first_incomplete_tick: the queues and marks after it.
LateFolded(h) ==
  [p \in Player |-> IF p \in Missing(h) \cap h.lagging THEN Collapsed(h.late[p]) ELSE h.late[p]]
FlagsExtended(h) ==
  [p \in Player |-> IF p \in Missing(h) THEN Grow(h.flags[p], 1) ELSE h.flags[p]]
MadeMore(h) ==
  [p \in Player |-> IF p \in Missing(h) THEN h.made[p] \cup {h.incomplete} ELSE h.made[p]]

\* make_up_flags_for_first_incomplete_tick leaves a hub: the tick exists; what
\* it does to the fields.
LEMMA MadeUpFields ==
  ASSUME NEW h \in BoundedHubs, h.incomplete < h.disp.w, NEW k, k = MadeUp(h)
  PROVE  /\ k \in HubRecords /\ h.incomplete \in Ticks
         /\ k.connected = h.connected /\ k.deadTick = h.deadTick /\ k.ack = h.ack
         /\ k.unsent = h.unsent /\ k.postGame = h.postGame
         /\ k.disp = h.disp /\ k.reflect = h.reflect /\ k.sendTime = h.sendTime
         /\ k.broken = h.broken
         /\ k.incomplete = h.incomplete + 1
         /\ k.late = LateFolded(h) /\ k.reflected = Reflected(h)
         /\ k.flags = FlagsExtended(h) /\ k.made = MadeMore(h)
         /\ \A t \in Ticks : k.awaited[t] = IF t = h.incomplete THEN h.connected ELSE h.awaited[t]
         /\ StopsWithCause(h, k)
<1> DEFINE late == LateFolded(h)
           flags == FlagsExtended(h)
           made == MadeMore(h)
           reflected == Reflected(h)
           new1 == [h EXCEPT !.late = late, !.reflected = reflected, !.flags = flags,
                             !.made = made]
           new2 == [new1 EXCEPT !.awaited[h.incomplete] = h.connected]
           new3 == [new2 EXCEPT !.incomplete = h.incomplete + 1, !.sinceReal = 0]
<1>1. h \in HubRecords /\ FirstTick <= h.incomplete /\ h.disp.w <= LastTick + 1
  BY DEF BoundedHubs
<1>2. h.incomplete \in Ticks
  BY <1>1, TicksAssumption DEF Ticks, HubRecords, Queue
<1>3. late \in [Player -> Queue]
  BY <1>1, CollapsedType DEF HubRecords, LateFolded
<1>4. flags \in [Player -> Queue]
  BY <1>1, GrowType DEF HubRecords, FlagsExtended
<1>5. made \in [Player -> SUBSET Ticks]
  BY <1>1, <1>2 DEF HubRecords, MadeMore
<1>6. reflected \in [Ticks -> SUBSET Player]
  BY <1>1, <1>2 DEF Reflected, Missing, HubRecords
<1>7. 0 \in 0 .. MinSendPeriod /\ h.incomplete + 1 \in Int
  BY <1>1, TimingAssumption DEF HubRecords
<1>8. k = new3
  BY DEF MadeUp, LateFolded, FlagsExtended, MadeMore
<1> HIDE DEF late, flags, made, reflected
<1>9. /\ new1 \in HubRecords
      /\ new1.connected = h.connected /\ new1.deadTick = h.deadTick /\ new1.ack = h.ack
      /\ new1.unsent = h.unsent /\ new1.postGame = h.postGame
      /\ new1.disp = h.disp /\ new1.reflect = h.reflect /\ new1.sendTime = h.sendTime
      /\ new1.broken = h.broken /\ new1.late = late /\ new1.reflected = reflected
      /\ new1.flags = flags /\ new1.made = made /\ new1.awaited = h.awaited
  BY <1>1, <1>3, <1>4, <1>5, <1>6 DEF HubRecords
<1>10. new1.active = h.active  BY <1>1 DEF HubRecords
<1> HIDE DEF new1
<1>11. /\ new3 \in HubRecords
       /\ new3.connected = h.connected /\ new3.deadTick = h.deadTick /\ new3.ack = h.ack
       /\ new3.unsent = h.unsent /\ new3.postGame = h.postGame
       /\ new3.disp = h.disp /\ new3.reflect = h.reflect /\ new3.sendTime = h.sendTime
       /\ new3.broken = h.broken /\ new3.late = late /\ new3.reflected = reflected
       /\ new3.flags = flags /\ new3.made = made
       /\ new3.incomplete = h.incomplete + 1
       /\ new3.awaited = [h.awaited EXCEPT ![h.incomplete] = h.connected]
  <2>1. h.connected \in SUBSET Player  BY <1>1 DEF HubRecords
  <2> QED  BY ONLY <1>2, <1>7, <1>9, <2>1 DEF HubRecords
<1>12. new3.active = h.active
  BY <1>9, <1>10 DEF HubRecords
<1> HIDE DEF new3
<1>13. \A t \in Ticks : k.awaited[t] = IF t = h.incomplete THEN h.connected ELSE h.awaited[t]
  <2>1. h.awaited \in [Ticks -> SUBSET Player]  BY <1>1 DEF HubRecords
  <2> QED  BY ONLY <1>8, <1>11, <2>1
<1>14. StopsWithCause(h, k)
  <2>1. k.active = h.active  BY ONLY <1>8, <1>12
  <2> QED  BY ONLY <2>1, Zenon DEF StopsWithCause
<1> QED
  BY ONLY <1>2, <1>8, <1>11, <1>13, <1>14 DEF late, flags, made, reflected

\* The bounds hold after it.
LEMMA MadeUpType ==
  ASSUME NEW h \in BoundedHubs, h.incomplete < h.disp.w
  PROVE  MadeUp(h) \in BoundedHubs
<1> DEFINE k == MadeUp(h)
<1>0. k = MadeUp(h)  OBVIOUS
<1> HIDE DEF k
<1>1. k \in HubRecords /\ k.incomplete = h.incomplete + 1 /\ k.disp = h.disp
  BY <1>0, MadeUpFields
<1>2. h.incomplete \in Int  BY DEF BoundedHubs, HubRecords
<1> QED  BY <1>0, <1>1, <1>2, TicksAssumption DEF BoundedHubs

\* Everything but the times, the addresses, the lagging players, the late flags
\* and the game's end.
SameBooks(h, k) ==
  /\ k \in HubRecords
  /\ k.connected = h.connected /\ k.deadTick = h.deadTick /\ k.ack = h.ack
  /\ k.incomplete = h.incomplete /\ k.unsent = h.unsent
  /\ k.flags = h.flags /\ k.made = h.made
  /\ k.awaited = h.awaited /\ k.reflected = h.reflected
  /\ k.disp = h.disp /\ k.reflect = h.reflect /\ k.sendTime = h.sendTime
  /\ k.broken = h.broken

\* The game ends at the same tick, and the hub has not stopped without cause.
SameEnd(h, k) == k.postGame = h.postGame /\ StopsWithCause(h, k)

\* An identification, the time that passes and hub_check_for_completion leave
\* everything else as it was.
LEMMA SmallBooks ==
  ASSUME NEW h \in HubRecords, NEW p \in Player
  PROVE  /\ SameBooks(h, Identified(h, p)) /\ SameEnd(h, Identified(h, p))
         /\ SameBooks(h, Aged(h)) /\ SameEnd(h, Aged(h))
         /\ SameBooks(h, CheckCompletion(h)) /\ SameEnd(h, CheckCompletion(h))
<1>1. SameBooks(h, Identified(h, p)) /\ Identified(h, p).postGame = h.postGame
  <2> DEFINE k == [h EXCEPT !.known = @ \cup {p}, !.indexed = @ \cup {p}]
  <2>1. Identified(h, p) \in {h, k}  BY DEF Identified
  <2>2. SameBooks(h, k) /\ k.postGame = h.postGame  BY DEF SameBooks, HubRecords
  <2>3. SameBooks(h, h)  BY DEF SameBooks
  <2> HIDE DEF k
  <2> QED  BY <2>1, <2>2, <2>3
<1>2. SameBooks(h, Aged(h)) /\ Aged(h).postGame = h.postGame
  <2> DEFINE silence == [q \in Player |-> Least(h.silence[q] + 1, MaxSilence)]
             k == [h EXCEPT !.silence = silence,
                            !.sinceSent = Least(h.sinceSent + 1, RecoveryPeriod),
                            !.sinceReal = Least(h.sinceReal + 1, MinSendPeriod)]
  <2>1. Aged(h) = k  BY DEF Aged
  <2>2. k \in HubRecords  BY <2>1, AgedType
  <2> HIDE DEF silence
  <2> QED  BY ONLY <2>1, <2>2, h \in HubRecords DEF SameBooks, HubRecords
<1>3. SameBooks(h, CheckCompletion(h)) /\ SameEnd(h, CheckCompletion(h))
  <2> DEFINE k == CheckCompletion(h)
  <2>0. k = CheckCompletion(h)  OBVIOUS
  <2> HIDE DEF k
  <2>1. SameBooks(h, k) /\ k.postGame = h.postGame
    BY <2>0, CheckCompletionFields DEF SameBooks
  <2>2. StopsWithCause(h, k)  BY <2>0, CheckCompletionFields
  <2> QED  BY <2>1, <2>2 DEF k, SameEnd
<1>4. StopsWithCause(h, Identified(h, p)) /\ StopsWithCause(h, Aged(h))
  <2>1. Identified(h, p).active = h.active  BY DEF Identified, HubRecords
  <2>2. Aged(h).active = h.active  BY DEF Aged, HubRecords
  <2> QED  BY <2>1, <2>2, Zenon DEF StopsWithCause
<1> QED  BY <1>1, <1>2, <1>3, <1>4 DEF SameEnd

\* What hub_tick does about players that hold the others up: they are marked
\* and, if that helps, flags are made up.
LEMMA HeldUpCases ==
  ASSUME NEW h \in BoundedHubs
  PROVE  \E k \in BoundedHubs :
           /\ SameBooks(h, k) /\ k.late = h.late /\ SameEnd(h, k)
           /\ \/ HeldUp(h) \in {h, k}
              \/ h.incomplete < h.disp.w /\ MayMakeUp(k) /\ HeldUp(h) = MadeUp(k)
<1> DEFINE since == IF h.sinceReal >= MinSendPeriod
               THEN {p \in h.connected \ {LocalPlayer} :
                       RealTick > h.deadTick[p] /\ p \in h.awaited[h.incomplete]}
               ELSE {}
           k == [h EXCEPT !.lagging = @ \cup since]
<1>1. h \in HubRecords  BY DEF BoundedHubs
<1>2. since \in SUBSET Player  BY <1>1 DEF HubRecords
<1>3. \/ HeldUp(h) \in {h, k}
      \/ h.incomplete < h.disp.w /\ MayMakeUp(k) /\ HeldUp(h) = MadeUp(k)
  BY DEF HeldUp
<1> HIDE DEF since
<1>4. SameBooks(h, k) /\ k.late = h.late /\ k.postGame = h.postGame
  BY <1>1, <1>2 DEF HubRecords, SameBooks
<1>5. StopsWithCause(h, k)
  <2>1. k.active = h.active  BY <1>1 DEF HubRecords
  <2> QED  BY ONLY <2>1, Zenon DEF StopsWithCause
<1>6. k \in BoundedHubs  BY <1>4 DEF SameBooks, BoundedHubs
<1> HIDE DEF k
<1> QED  BY <1>3, <1>4, <1>5, <1>6 DEF SameEnd

\* It leaves a hub.
LEMMA HeldUpType ==
  ASSUME NEW h \in BoundedHubs
  PROVE  HeldUp(h) \in BoundedHubs
<1>1. PICK k \in BoundedHubs :
        /\ SameBooks(h, k)
        /\ HeldUp(h) \in {h, k} \/ (h.incomplete < h.disp.w /\ HeldUp(h) = MadeUp(k))
  BY HeldUpCases
<1>2. h.incomplete < h.disp.w => MadeUp(k) \in BoundedHubs
  BY <1>1, MadeUpType DEF SameBooks
<1> QED  BY <1>1, <1>2

\* send_packets leaves a hub within the bounds.
LEMMA SentBounded ==
  ASSUME NEW h \in BoundedHubs
  PROVE  Sent(h) \in BoundedHubs
<1>1. h \in HubRecords  BY DEF BoundedHubs
<1>2. Sent(h).incomplete = h.incomplete /\ Sent(h).disp = h.disp
  BY <1>1 DEF Sent, HubRecords
<1> QED  BY <1>1, <1>2, SentType DEF BoundedHubs

\* The end of hub_tick leaves a hub within the bounds.
LEMMA FinishedType ==
  ASSUME NEW h \in BoundedHubs, NEW send \in BOOLEAN
  PROVE  Finished(h, send) \in BoundedHubs
<1>1. Finished(h, send) \in {h, Sent(h), Sent(HeldUp(h))}  BY DEF Finished
<1> QED  BY <1>1, HeldUpType, SentBounded

\* The player of reference is a player, or none.
LEMMA NewReferenceType ==
  ASSUME NEW h \in HubRecords, NEW p \in Player
  PROVE  NewReference(h, p) \in Player \cup {NONE}
<1> DEFINE rest == h.connected \ {p}
<1>1. h.reference \in Player \cup {NONE} /\ rest \in SUBSET Player
  BY DEF HubRecords
<1>2. 0 \in Player  BY PlayersAssumption DEF Player
<1>3. CASE rest = {}
  BY <1>1, <1>2, <1>3 DEF NewReference
<1>4. CASE rest # {}
  <2>1. \E q \in rest : \A r \in rest : r <= q
    <3> HIDE DEF rest
    <3> QED  BY <1>1, <1>4, LastPlayer
  <2>2. (CHOOSE q \in rest : \A r \in rest : r <= q) \in Player
    <3> HIDE DEF rest
    <3> QED  BY <1>1, <2>1
  <2> QED  BY <1>1, <1>4, <2>2 DEF NewReference
<1> QED  BY <1>3, <1>4

\* The first half of make_player_netdead: p's flags end with the smallest
\* incomplete tick, and it is no longer connected.
LEMMA MarkNetDeadFields ==
  ASSUME NEW h \in HubRecords, NEW p \in Player, NEW k, k = MarkNetDead(h, p)
  PROVE  /\ k \in HubRecords
         /\ k.connected = h.connected \ {p}
         /\ \A q \in Player : k.deadTick[q] = IF q = p THEN h.incomplete ELSE h.deadTick[q]
         /\ k.incomplete = h.incomplete /\ k.unsent = h.unsent
         /\ k.postGame = h.postGame /\ k.late = h.late
         /\ k.ack = h.ack /\ k.awaited = h.awaited /\ k.disp = h.disp
         /\ k.sendTime = h.sendTime /\ k.reflect = h.reflect
         /\ k.reflected = h.reflected /\ k.flags = h.flags
         /\ k.made = h.made /\ k.broken = h.broken
         /\ StopsWithCause(h, k)
<1> DEFINE deadTick == [h.deadTick EXCEPT ![p] = DeathTick(h, p)]
           new == [h EXCEPT !.deadTick = deadTick, !.connected = h.connected \ {p},
                            !.indexed = h.indexed \ {p}, !.reference = NewReference(h, p)]
<1>1. /\ deadTick \in [Player -> Int]
      /\ \A q \in Player : deadTick[q] = IF q = p THEN h.incomplete ELSE h.deadTick[q]
  BY DEF DeathTick, HubRecords
<1>2. k = new  BY DEF MarkNetDead, HubRecords
<1> HIDE DEF deadTick
<1>3. /\ new \in HubRecords
      /\ new.connected = h.connected \ {p} /\ new.deadTick = deadTick
      /\ new.incomplete = h.incomplete /\ new.unsent = h.unsent
      /\ new.postGame = h.postGame /\ new.late = h.late
      /\ new.ack = h.ack /\ new.awaited = h.awaited /\ new.disp = h.disp
      /\ new.sendTime = h.sendTime /\ new.reflect = h.reflect
      /\ new.reflected = h.reflected /\ new.flags = h.flags
      /\ new.made = h.made /\ new.broken = h.broken
  BY <1>1, NewReferenceType DEF HubRecords
<1>4. StopsWithCause(h, new)
  <2>1. new.active = h.active  BY DEF HubRecords
  <2> QED  BY ONLY <2>1, Zenon DEF StopsWithCause
<1> HIDE DEF new
<1> QED  BY ONLY <1>1, <1>2, <1>3, <1>4

\* It keeps the bounds.
LEMMA MarkNetDeadType ==
  ASSUME NEW h \in BoundedHubs, NEW p \in Player
  PROVE  MarkNetDead(h, p) \in BoundedHubs
<1> DEFINE k == MarkNetDead(h, p)
<1>0. k = MarkNetDead(h, p)  OBVIOUS
<1> HIDE DEF k
<1>1. k \in HubRecords /\ k.incomplete = h.incomplete /\ k.disp = h.disp
  BY <1>0, MarkNetDeadFields DEF BoundedHubs
<1> QED  BY <1>0, <1>1 DEF BoundedHubs

\* An acknowledgement keeps the bounds.
LEMMA AcknowledgedBounded ==
  ASSUME NEW h \in BoundedHubs, NEW p \in Player, NEW tick \in Int
  PROVE  Acknowledged(h, p, tick) \in BoundedHubs
BY AcknowledgedType DEF BoundedHubs

\* Flags that are provided up to the bound keep the bounds.
LEMMA ProvidedBounded ==
  ASSUME NEW h \in BoundedHubs, NEW p \in Player, NEW from \in Int, NEW to \in Int,
         to <= LastTick + 1
  PROVE  Provided(h, p, from, to) \in BoundedHubs
<1>1. h \in HubRecords /\ h.incomplete \in Int /\ h.disp.w \in Int
  BY DEF BoundedHubs, HubRecords, Queue
<1>2. /\ Provided(h, p, from, to) \in HubRecords
      /\ Provided(h, p, from, to).incomplete >= h.incomplete
      /\ Provided(h, p, from, to).disp.w = Greatest(to, h.disp.w)
  BY <1>1, ProvidedType
<1>3. Provided(h, p, from, to).incomplete \in Int
  BY <1>2 DEF HubRecords
<1> QED  BY <1>1, <1>2, <1>3, TicksAssumption DEF BoundedHubs, Greatest

\* The second half of make_player_netdead keeps the bounds.
LEMMA BuryType ==
  ASSUME NEW h \in BoundedHubs, NEW p \in Player
  PROVE  Bury(h, p) \in BoundedHubs
<1>1. /\ h.flags[p].w \in Int /\ h.disp.w \in Int /\ h.incomplete \in Int
      /\ h.disp.w <= LastTick + 1
  BY DEF BoundedHubs, HubRecords, Queue
<1> QED  BY <1>1, ProvidedBounded, AcknowledgedBounded DEF Bury

\* make_player_netdead buries one player, or the last two.
LEMMA NetDeadCases ==
  ASSUME NEW h \in BoundedHubs, NEW p \in Player
  PROVE  \/ NetDead(h, p) = Bury(MarkNetDead(h, p), p)
         \/ \E last \in Player :
              /\ Standalone /\ MarkNetDead(h, p).connected = {last}
              /\ NetDead(h, p)
                   = Bury(Bury(MarkNetDead(MarkNetDead(h, p), last), last), p)
<1> DEFINE m == MarkNetDead(h, p)
           last == CHOOSE q \in m.connected : TRUE
<1>1. m \in BoundedHubs  BY MarkNetDeadType
<1>2. CASE Standalone /\ Cardinality(m.connected) = 1
  <2>1. m.connected \in SUBSET Player  BY <1>1 DEF BoundedHubs, HubRecords
  <2>2. PICK q : m.connected = {q}
    <3> HIDE DEF m
    <3>1. IsFiniteSet(m.connected)  BY <2>1, CardinalityOfPlayers
    <3> QED  BY <1>2, <3>1, FS_Singleton
  <2>3. last \in Player /\ m.connected = {last}
    <3> HIDE DEF m
    <3> QED  BY <2>1, <2>2
  <2>4. NetDead(h, p) = Bury(Bury(MarkNetDead(m, last), last), p)
    BY <1>2 DEF NetDead
  <2> QED  BY <1>2, <2>3, <2>4
<1>3. CASE ~(Standalone /\ Cardinality(m.connected) = 1)
  BY <1>3 DEF NetDead
<1> QED  BY <1>2, <1>3

\* make_player_netdead keeps the bounds, also when it calls itself.
LEMMA NetDeadType ==
  ASSUME NEW h \in BoundedHubs, NEW p \in Player
  PROVE  NetDead(h, p) \in BoundedHubs
BY NetDeadCases, MarkNetDeadType, BuryType

----------------------------------------------------------------------------
(* The queue of late flags stays behind the queue of flags.                 *)

\* LateBehindFlags as a property of a hub.
LateInStep(h) ==
  \A p \in Player : h.late[p].r <= h.late[p].w /\ h.late[p].w <= h.flags[p].w

\* The two ends of a queue are integers.
LEMMA QueueFields ==
  ASSUME NEW h \in HubRecords, NEW p \in Player
  PROVE  /\ h.late[p] \in Queue /\ h.late[p].r \in Int /\ h.late[p].w \in Int
         /\ h.flags[p] \in Queue /\ h.flags[p].r \in Int /\ h.flags[p].w \in Int
BY DEF HubRecords, Queue

\* An acknowledgement reads the flags' queues and leaves the late ones behind.
LEMMA AcknowledgedLate ==
  ASSUME NEW h \in HubRecords, LateInStep(h), NEW p \in Player, NEW tick \in Int
  PROVE  LateInStep(Acknowledged(h, p, tick))
BY AcknowledgedType DEF LateInStep

\* New flags only extend the queue the late ones are behind.
LEMMA ProvidedLate ==
  ASSUME NEW h \in HubRecords, LateInStep(h), NEW p \in Player, NEW from \in Int,
         NEW to \in Int
  PROVE  LateInStep(Provided(h, p, from, to))
<1> SUFFICES ASSUME NEW q \in Player
             PROVE  /\ Provided(h, p, from, to).late[q].r <= Provided(h, p, from, to).late[q].w
                    /\ Provided(h, p, from, to).late[q].w <= Provided(h, p, from, to).flags[q].w
  BY DEF LateInStep
<1> DEFINE dropped == Drop(h.late[q], Greatest(Size(h.late[q]), 0))
<1>1. Provided(h, p, from, to).flags[q] = h.flags[q]
  BY ProvidedType
<1>2. Provided(h, p, from, to).late[q] \in {h.late[q], dropped}
  BY ProvidedType
<1>3. dropped.r <= dropped.w /\ dropped.w = h.late[q].w
  BY QueueFields DEF Drop, Greatest, Size, LateInStep
<1> HIDE DEF dropped
<1> QED  BY <1>1, <1>2, <1>3 DEF LateInStep

\* Made-up flags use late ones only when there are some.
LEMMA MadeUpLate ==
  ASSUME NEW h \in HubRecords, LateInStep(h)
  PROVE  LateInStep(MadeUp(h))
<1> SUFFICES ASSUME NEW p \in Player
             PROVE  /\ MadeUp(h).late[p].r <= MadeUp(h).late[p].w
                    /\ MadeUp(h).late[p].w <= MadeUp(h).flags[p].w
  BY DEF LateInStep
<1>1. /\ MadeUp(h).late[p] \in {h.late[p], Collapsed(h.late[p])}
      /\ MadeUp(h).flags[p] \in {h.flags[p], Grow(h.flags[p], 1)}
  <2> DEFINE late == [q \in Player |-> IF q \in Missing(h) \cap h.lagging
                                    THEN Collapsed(h.late[q]) ELSE h.late[q]]
             flags == [q \in Player |-> IF q \in Missing(h) THEN Grow(h.flags[q], 1)
                                                           ELSE h.flags[q]]
             new1 == [h EXCEPT !.late = late, !.reflected = Reflected(h), !.flags = flags]
  <2>1. new1.late = late /\ new1.flags = flags /\ new1 \in [DOMAIN h -> {new1[f] : f \in DOMAIN h}]
    BY DEF HubRecords
  <2> QED  BY DEF MadeUp, HubRecords
<1>2. Collapsed(h.late[p]).r <= Collapsed(h.late[p]).w /\ Collapsed(h.late[p]).w = h.late[p].w
  BY QueueFields DEF Collapsed, Drop, Size, LateInStep
<1>3. MadeUp(h).late[p].r <= MadeUp(h).late[p].w /\ MadeUp(h).late[p].w = h.late[p].w
  BY <1>1, <1>2 DEF LateInStep
<1>4. MadeUp(h).flags[p].w \in {h.flags[p].w, h.flags[p].w + 1}
  BY <1>1 DEF Grow
<1> QED  BY <1>3, <1>4, QueueFields DEF LateInStep

\* hub_tick keeps the late flags behind.
LEMMA HeldUpLate ==
  ASSUME NEW h \in BoundedHubs, LateInStep(h)
  PROVE  LateInStep(HeldUp(h))
<1>1. PICK k \in BoundedHubs :
        /\ SameBooks(h, k) /\ k.late = h.late
        /\ HeldUp(h) \in {h, k} \/ (h.incomplete < h.disp.w /\ HeldUp(h) = MadeUp(k))
  BY HeldUpCases
<1>2. k \in HubRecords /\ LateInStep(k)  BY <1>1 DEF SameBooks, LateInStep
<1> QED  BY <1>1, <1>2, MadeUpLate

\* send_packets does not touch them.
LEMMA SentLate ==
  ASSUME NEW h \in HubRecords, LateInStep(h)
  PROVE  LateInStep(Sent(h))
<1>1. Sent(h).late = h.late /\ Sent(h).flags = h.flags
  BY DEF Sent, HubRecords
<1> QED  BY <1>1 DEF LateInStep

\* Nor does the rest of hub_tick.
LEMMA FinishedLate ==
  ASSUME NEW h \in BoundedHubs, NEW send \in BOOLEAN, LateInStep(h)
  PROVE  LateInStep(Finished(h, send))
<1>1. h \in HubRecords /\ HeldUp(h) \in HubRecords  BY HeldUpType DEF BoundedHubs
<1>2. Finished(h, send) \in {h, Sent(h), Sent(HeldUp(h))}  BY DEF Finished
<1> QED  BY <1>1, <1>2, HeldUpLate, SentLate

\* The first half of make_player_netdead does not touch them.
LEMMA MarkNetDeadLate ==
  ASSUME NEW h \in HubRecords, NEW p \in Player, LateInStep(h)
  PROVE  LateInStep(MarkNetDead(h, p))
<1>1. MarkNetDead(h, p).late = h.late /\ MarkNetDead(h, p).flags = h.flags
  BY DEF MarkNetDead, HubRecords
<1> QED  BY <1>1 DEF LateInStep

\* Its second half keeps them behind.
LEMMA BuryLate ==
  ASSUME NEW h \in HubRecords, NEW p \in Player, LateInStep(h)
  PROVE  LateInStep(Bury(h, p))
<1>1. h.flags[p].w \in Int /\ h.disp.w \in Int /\ h.incomplete \in Int
  BY DEF HubRecords, Queue
<1>2. Provided(h, p, h.flags[p].w, h.disp.w) \in HubRecords
  BY <1>1, ProvidedType
<1> QED  BY <1>1, <1>2, ProvidedLate, AcknowledgedLate DEF Bury

\* And so does make_player_netdead.
LEMMA NetDeadLate ==
  ASSUME NEW h \in BoundedHubs, NEW p \in Player, LateInStep(h)
  PROVE  LateInStep(NetDead(h, p))
<1> DEFINE m == MarkNetDead(h, p)
<1>1. m \in BoundedHubs /\ m \in HubRecords /\ LateInStep(m)
  BY MarkNetDeadType, MarkNetDeadLate DEF BoundedHubs
<1>2. NetDead(h, p) = Bury(m, p)
      \/ \E last \in Player : NetDead(h, p) = Bury(Bury(MarkNetDead(m, last), last), p)
  BY NetDeadCases
<1> HIDE DEF m
<1>3. ASSUME NEW last \in Player
      PROVE  LateInStep(Bury(Bury(MarkNetDead(m, last), last), p))
  <2> DEFINE n == MarkNetDead(m, last)
  <2>1. n \in BoundedHubs /\ n \in HubRecords /\ LateInStep(n)
    BY <1>1, MarkNetDeadType, MarkNetDeadLate DEF BoundedHubs
  <2> HIDE DEF n
  <2>2. Bury(n, last) \in HubRecords /\ LateInStep(Bury(n, last))
    BY <2>1, BuryType, BuryLate DEF BoundedHubs
  <2> QED  BY <2>2, BuryLate DEF n
<1> QED  BY <1>1, <1>2, <1>3, BuryLate

\* The first half of the flags part of hub_received_game_data_packet_v1:
\* n flags are entered into the queue of p, and none of the assertions fails.
TakesFlags(h, k, p, n) ==
  /\ k \in HubRecords
  /\ k.connected = h.connected /\ k.deadTick = h.deadTick /\ k.ack = h.ack
  /\ k.incomplete = h.incomplete /\ k.unsent = h.unsent /\ k.postGame = h.postGame
  /\ k.made = h.made /\ k.awaited = h.awaited /\ k.reflected = h.reflected
  /\ k.disp = h.disp /\ k.reflect = h.reflect /\ k.sendTime = h.sendTime
  /\ k.broken = h.broken
  /\ \A q \in Player : k.flags[q] = IF q = p THEN Grow(h.flags[p], n) ELSE h.flags[q]

\* What comes after it: the new ticks are provided and, when some are
\* complete, packets are sent.
ProvidedFrom(k, p, from, to) ==
  {Provided(k, p, from, to), Sent(Provided(k, p, from, to))}

\* Flags start where the queue's end, they fit and none is beyond the last one
\* of the packet. Those that come late are queued only as far as the player's
\* flags go.
LEMMA FlagsTaken ==
  ASSUME NEW h \in HubRecords, NEW p \in Player, NEW from \in Int, NEW to \in Int,
         NEW asked \in Int, from <= to, LateInStep(h)
  PROVE  \/ FlagsReceived(h, p, from, to, asked) = h
         \/ \E k \in HubRecords, n \in Nat :
              /\ TakesFlags(h, k, p, n) /\ LateInStep(k) /\ StopsWithCause(h, k)
              /\ IF n = 0 THEN FlagsReceived(h, p, from, to, asked) = k
                 ELSE /\ h.flags[p].w + n <= to /\ n <= Capacity - Size(h.flags[p])
                      /\ FlagsReceived(h, p, from, to, asked)
                           \in ProvidedFrom(k, p, h.flags[p].w, h.flags[p].w + n)
<1> DEFINE q     == h.flags[p]
           l0    == h.late[p]
           l     == IF from > l0.w
               THEN [r |-> l0.r + Greatest(q.w - l0.w, 0), w |-> Greatest(q.w, l0.w)]
               ELSE l0
           redundant == Least(l.w - from, to - from)
           lateCount == Least(q.w - l.w, to - from - redundant)
           fresh == Greatest(0, Least(to - from - redundant - lateCount, Space(h, p)))
           first == from + redundant + lateCount
           adjust == h.adjusting[p] = 0 /\ asked # 0
           broken == h.broken \cup Unless(q.w >= l.w, 826)
                   \cup Unless(fresh = 0 \/ q.w = l.w + lateCount, 844)
           h1    == [h EXCEPT
                 !.flags[p] = Grow(q, fresh),
                 !.late[p] = Grow(l, lateCount + fresh),
                 !.adjusting[p] = IF adjust THEN asked ELSE @,
                 !.adjTick[p] = IF adjust THEN h.incomplete ELSE @,
                 !.broken = broken]
           h2    == Provided(h1, p, first, first + fresh)
<1>0. FlagsReceived(h, p, from, to, asked)
        \in IF from > q.w THEN {h} ELSE IF fresh = 0 THEN {h1} ELSE {h2, Sent(h2)}
  <2>1. FlagsReceived(h, p, from, to, asked)
          = IF from > q.w THEN h ELSE IF fresh = 0 THEN h1
            ELSE IF h2.incomplete > h.incomplete /\ h2.incomplete - h2.unsent >= SendPeriod
            THEN Sent(h2) ELSE h2
    BY Zenon DEF FlagsReceived
  <2> HIDE DEF fresh, h1, h2, q
  <2> QED  BY ONLY <2>1
<1>1. /\ q \in Queue /\ q.w \in Int
      /\ l0 \in Queue /\ l0.r \in Int /\ l0.w \in Int
      /\ l0.r <= l0.w /\ l0.w <= q.w
  BY QueueFields DEF LateInStep
<1>2. CASE from > q.w
  BY <1>2 DEF FlagsReceived
<1>3. CASE from <= q.w
  <2>1. l \in Queue /\ l.r \in Int /\ l.w \in Int /\ l.r <= l.w /\ l.w <= q.w /\ from <= l.w
    <3> HIDE DEF q, l0
    <3> QED  BY <1>1, <1>3 DEF Queue, Greatest
  <2> HIDE DEF l
  <2>2. redundant \in Int /\ redundant >= 0 /\ redundant <= to - from
        /\ (redundant < to - from => redundant = l.w - from)
    <3> HIDE DEF q, l0
    <3> QED  BY <2>1 DEF Least
  <2>3. lateCount \in Int /\ lateCount >= 0 /\ lateCount <= q.w - l.w
        /\ lateCount <= to - from - redundant
        /\ (lateCount < to - from - redundant => lateCount = q.w - l.w)
    <3> HIDE DEF q, l0, redundant
    <3> QED  BY <1>1, <2>1, <2>2 DEF Least
  <2>4. Space(h, p) \in Int /\ (0 < Space(h, p) => Space(h, p) <= Capacity - Size(q))
    BY QueueAssumption DEF Space, Size, HubRecords, Queue
  <2>5. /\ fresh \in Nat
        /\ fresh # 0 => /\ first = q.w /\ first + fresh <= to
                        /\ fresh <= Capacity - Size(q) /\ q.w = l.w + lateCount
    <3> HIDE DEF redundant, lateCount
    <3>1. /\ fresh \in Nat
          /\ fresh # 0 => /\ 0 < to - from - redundant - lateCount
                          /\ fresh <= to - from - redundant - lateCount
                          /\ fresh <= Space(h, p)
      BY <2>2, <2>3, <2>4 DEF Least, Greatest
    <3> HIDE DEF fresh, q, l0
    <3>2. Size(q) \in Int /\ Capacity - Size(q) \in Int
      BY <1>1, QueueAssumption DEF Size, Queue
    <3> SUFFICES ASSUME fresh # 0
                 PROVE  /\ first = q.w /\ first + fresh <= to
                        /\ fresh <= Capacity - Size(q) /\ q.w = l.w + lateCount
      BY <3>1
    <3>3. /\ 0 < to - from - redundant - lateCount /\ 0 < fresh
          /\ fresh <= to - from - redundant - lateCount /\ fresh <= Space(h, p)
      BY <3>1
    <3>4. lateCount < to - from - redundant  BY <2>2, <2>3, <3>3
    <3>5. lateCount = q.w - l.w  BY <2>3, <3>4
    <3>6. redundant = l.w - from  BY <2>2, <2>3, <3>4
    <3>7. first = q.w /\ q.w = l.w + lateCount  BY <1>1, <2>1, <3>5, <3>6
    <3>8. first + fresh <= to  BY <2>2, <2>3, <3>1, <3>3
    <3>9. fresh <= Capacity - Size(q)  BY ONLY <2>4, <3>1, <3>2, <3>3
    <3> QED  BY <3>7, <3>8, <3>9
  <2> HIDE DEF redundant, lateCount, fresh
  <2>6. /\ Grow(q, fresh) \in Queue /\ Grow(q, fresh).w = q.w + fresh
        /\ Grow(l, lateCount + fresh) \in Queue
        /\ Grow(l, lateCount + fresh).r <= Grow(l, lateCount + fresh).w
        /\ Grow(l, lateCount + fresh).w <= Grow(q, fresh).w
    <3> HIDE DEF q, l0
    <3>1. lateCount + fresh \in Int /\ fresh \in Int  BY <2>3, <2>5
    <3>2. Grow(q, fresh) \in Queue /\ Grow(l, lateCount + fresh) \in Queue
      BY ONLY <1>1, <2>1, <3>1, GrowType
    <3>3. l.r <= l.w + (lateCount + fresh) /\ l.w + (lateCount + fresh) <= q.w + fresh
      BY <1>1, <2>1, <2>3, <2>5
    <3> QED  BY <3>2, <3>3 DEF Grow
  <2>7. broken = h.broken
    <3>1. q.w >= l.w /\ (fresh = 0 \/ q.w = l.w + lateCount)
      <4> HIDE DEF q
      <4> QED  BY <1>1, <2>1, <2>5
    <3> HIDE DEF q
    <3> QED  BY <3>1 DEF Unless
  <2> HIDE DEF broken
  <2>8. /\ h1 \in HubRecords
        /\ h1.flags = [h.flags EXCEPT ![p] = Grow(q, fresh)]
        /\ h1.late = [h.late EXCEPT ![p] = Grow(l, lateCount + fresh)]
    <3> DEFINE flags == [h.flags EXCEPT ![p] = Grow(q, fresh)]
               late == [h.late EXCEPT ![p] = Grow(l, lateCount + fresh)]
               adjusting == [h.adjusting EXCEPT ![p] = IF adjust THEN asked ELSE @]
               adjTick == [h.adjTick EXCEPT ![p] = IF adjust THEN h.incomplete ELSE @]
               new == [h EXCEPT !.flags = flags, !.late = late, !.adjusting = adjusting,
                                !.adjTick = adjTick, !.broken = h.broken]
    <3>1. flags \in [Player -> Queue] /\ late \in [Player -> Queue]
      <4> HIDE DEF q, l0
      <4> QED  BY <2>6 DEF HubRecords
    <3>2. adjusting \in [Player -> Int] /\ adjTick \in [Player -> Int]
      <4> HIDE DEF adjust
      <4> QED  BY DEF HubRecords
    <3>3. h1 = new  BY <2>7 DEF HubRecords
    <3> HIDE DEF flags, late, adjusting, adjTick
    <3>4. new \in HubRecords /\ new.flags = flags /\ new.late = late
      BY <3>1, <3>2 DEF HubRecords
    <3> HIDE DEF new, h1
    <3> QED  BY <3>3, <3>4 DEF flags, late
  <2>8a. /\ h1.connected = h.connected /\ h1.deadTick = h.deadTick /\ h1.ack = h.ack
        /\ h1.incomplete = h.incomplete /\ h1.unsent = h.unsent /\ h1.postGame = h.postGame
        /\ h1.made = h.made /\ h1.awaited = h.awaited /\ h1.reflected = h.reflected
        /\ h1.disp = h.disp /\ h1.reflect = h.reflect /\ h1.sendTime = h.sendTime
        /\ h1.broken = h.broken
    <3> HIDE DEF q, l0
    <3> QED  BY <2>7 DEF HubRecords
  <2>9. StopsWithCause(h, h1)
    <3>1. h1.active = h.active  BY DEF HubRecords
    <3> QED  BY ONLY <3>1, Zenon DEF StopsWithCause
  <2>10. FlagsReceived(h, p, from, to, asked)
           \in IF fresh = 0 THEN {h1} ELSE {h2, Sent(h2)}
    <3>1. ~(from > q.w)  BY <1>1, <1>3
    <3> QED  BY ONLY <1>0, <3>1
  <2> HIDE DEF h1
  <2>11. TakesFlags(h, h1, p, fresh)
    <3>1. \A x \in Player : h1.flags[x] = IF x = p THEN Grow(h.flags[p], fresh) ELSE h.flags[x]
      <4>1. h.flags \in [Player -> Queue]  BY DEF HubRecords
      <4> QED  BY ONLY <2>8, <4>1
    <3>2. h1 \in HubRecords  BY <2>8
    <3> QED  BY ONLY <2>8a, <3>1, <3>2 DEF TakesFlags
  <2>12. LateInStep(h1)
    <3> HIDE DEF q, l0
    <3> QED  BY <2>6, <2>8 DEF LateInStep, HubRecords
  <2>13. CASE fresh = 0
    BY <2>5, <2>8, <2>9, <2>10, <2>11, <2>12, <2>13
  <2>14. CASE fresh # 0
    <3>1. FlagsReceived(h, p, from, to, asked) \in ProvidedFrom(h1, p, q.w, q.w + fresh)
      BY <2>5, <2>10, <2>14 DEF ProvidedFrom
    <3>2. q.w + fresh <= to /\ fresh <= Capacity - Size(q)
      BY <2>5, <2>14
    <3> QED  BY <2>5, <2>8, <2>9, <2>11, <2>12, <2>14, <3>1, <3>2
  <2> QED  BY <2>13, <2>14
<1> QED  BY <1>1, <1>2, <1>3

\* The flags part of a packet keeps the bounds and the late flags behind.
LEMMA FlagsReceivedLate ==
  ASSUME NEW h \in BoundedHubs, NEW p \in Player, NEW from \in Int, NEW to \in Int,
         NEW asked \in Int, from <= to, to <= LastTick + 1, LateInStep(h)
  PROVE  /\ FlagsReceived(h, p, from, to, asked) \in BoundedHubs
         /\ LateInStep(FlagsReceived(h, p, from, to, asked))
<1> DEFINE result == FlagsReceived(h, p, from, to, asked)
<1>1. h \in HubRecords /\ h.flags[p].w \in Int  BY QueueFields DEF BoundedHubs
<1> SUFFICES result \in BoundedHubs /\ LateInStep(result)  OBVIOUS
<1>2. CASE result = h  BY <1>2
<1>3. CASE result # h
  <2>1. PICK k \in HubRecords, n \in Nat :
          /\ TakesFlags(h, k, p, n) /\ LateInStep(k)
          /\ IF n = 0 THEN result = k
             ELSE /\ h.flags[p].w + n <= to
                  /\ result \in ProvidedFrom(k, p, h.flags[p].w, h.flags[p].w + n)
    BY <1>1, <1>3, FlagsTaken
  <2> HIDE DEF result
  <2>2. k \in BoundedHubs  BY <2>1 DEF TakesFlags, BoundedHubs
  <2>3. CASE n = 0  BY <2>1, <2>2, <2>3
  <2>4. CASE n # 0
    <3> DEFINE a == h.flags[p].w
               k2 == Provided(k, p, a, a + n)
    <3>1. a \in Int /\ a + n \in Int /\ a + n <= LastTick + 1
      BY <1>1, <2>1, <2>4, TicksAssumption
    <3>2. result \in {k2, Sent(k2)}  BY <2>1, <2>4 DEF ProvidedFrom
    <3> HIDE DEF a
    <3>3. k2 \in BoundedHubs /\ LateInStep(k2)
      BY <2>1, <2>2, <3>1, ProvidedBounded, ProvidedLate
    <3> HIDE DEF k2
    <3> QED  BY <3>2, <3>3, SentBounded, SentLate DEF BoundedHubs
  <2> QED  BY <2>3, <2>4
<1> QED  BY <1>2, <1>3

\* A packet of game data keeps the bounds and the late flags behind.
LEMMA GameDataLate ==
  ASSUME NEW h \in BoundedHubs, NEW p \in Player, NEW ack \in Int, NEW from \in Int,
         NEW to \in Int, NEW asked \in Int, from <= to, to <= LastTick + 1, LateInStep(h)
  PROVE  /\ GameData(h, p, ack, from, to, asked) \in BoundedHubs
         /\ LateInStep(GameData(h, p, ack, from, to, asked))
<1> DEFINE h1 == Acknowledged(h, p, ack)
<1>1. h \in HubRecords  BY DEF BoundedHubs
<1>2. h1 \in BoundedHubs /\ LateInStep(h1)
  BY <1>1, AcknowledgedBounded, AcknowledgedLate
<1>3. GameData(h, p, ack, from, to, asked) \in {h, h1, FlagsReceived(h1, p, from, to, asked)}
  BY DEF GameData
<1> HIDE DEF h1
<1> QED  BY <1>2, <1>3, FlagsReceivedLate

\* What does not touch the queues keeps the bounds and the late flags.
LEMMA QueuesUntouched ==
  ASSUME NEW h \in BoundedHubs, LateInStep(h), NEW k \in HubRecords,
         k.incomplete = h.incomplete, k.disp = h.disp, k.late = h.late, k.flags = h.flags
  PROVE  k \in BoundedHubs /\ LateInStep(k)
BY DEF BoundedHubs, LateInStep

\* hub_initialize makes a hub.
LEMMA InitialType ==
  ASSUME NEW connected \in SUBSET Player, connected # {}
  PROVE  Initial(connected) \in BoundedHubs /\ LateInStep(Initial(connected))
<1> DEFINE reference == IF ~Standalone THEN LocalPlayer
                        ELSE CHOOSE p \in connected : \A q \in connected : p <= q
<1>1. reference \in Player \cup {NONE}
  <2>1. (CHOOSE p \in connected : \A q \in connected : p <= q) \in Player
    BY FirstPlayer
  <2> QED  BY <2>1, PlayersAssumption
<1>2. EmptyAt(FirstTick) \in Queue
  BY TicksAssumption DEF EmptyAt, Queue
<1>3. /\ FirstTick \in Int /\ FirstTick - 1 \in Int /\ Never \in Int
      /\ 0 \in 0 .. MaxSilence /\ 0 \in 0 .. RecoveryPeriod /\ 0 \in 0 .. MinSendPeriod
  BY TicksAssumption, TimingAssumption DEF Never
<1>4. Initial(connected) \in HubRecords
  <2> HIDE DEF reference
  <2> QED  BY <1>1, <1>2, <1>3 DEF Initial, HubRecords, reference
<1>5. /\ Initial(connected).incomplete = FirstTick
      /\ Initial(connected).disp.w = FirstTick
      /\ \A p \in Player : /\ Initial(connected).late[p] = EmptyAt(FirstTick)
                           /\ Initial(connected).flags[p] = EmptyAt(FirstTick)
  BY DEF Initial, EmptyAt
<1>6. LateInStep(Initial(connected))
  BY <1>5, TicksAssumption DEF LateInStep, EmptyAt
<1> QED  BY <1>4, <1>5, <1>6, TicksAssumption DEF BoundedHubs

----------------------------------------------------------------------------
(* The players. Only the first half of make_player_netdead changes who is   *)
(* connected or whom the hub refers to, so most lemmas here say that a      *)
(* function leaves both alone.                                              *)

SameMembers(h, k) == k.connected = h.connected /\ k.reference = h.reference

\* Records with the two fields, whatever the others are.
HasMembers(h) == {"connected", "reference"} \subseteq DOMAIN h

\* A hub has them.
LEMMA HubHasMembers ==
  ASSUME NEW h \in HubRecords
  PROVE  HasMembers(h)
BY DEF HasMembers, HubRecords

----------------------------------------------------------------------------
(* The functions that leave the membership alone.                           *)

\* player_acknowledged_up_to_tick does.
LEMMA AcknowledgedMembers ==
  ASSUME NEW h \in HubRecords, NEW p, NEW tick
  PROVE  SameMembers(h, Acknowledged(h, p, tick))
BY DEF Acknowledged, CheckCompletion, SameMembers, HubRecords

\* player_provided_flags_from_tick_to_tick does.
LEMMA ProvidedMembers ==
  ASSUME NEW h, HasMembers(h), NEW p, NEW from, NEW to
  PROVE  /\ SameMembers(h, Provided(h, p, from, to))
         /\ HasMembers(Provided(h, p, from, to))
BY DEF Provided, SameMembers, HasMembers

\* send_packets does.
LEMMA SentMembers ==
  ASSUME NEW h, HasMembers(h)
  PROVE  SameMembers(h, Sent(h))
BY DEF Sent, SameMembers, HasMembers

\* An identification does, hub_tick before its loop does, and so does
\* hub_check_for_completion.
LEMMA SmallMembers ==
  ASSUME NEW h \in HubRecords, NEW p
  PROVE  /\ SameMembers(h, Identified(h, p))
         /\ SameMembers(h, Aged(h))
         /\ SameMembers(h, CheckCompletion(h))
BY DEF Identified, Aged, CheckCompletion, SameMembers, HubRecords

\* The flags made up at the end of hub_tick do.
LEMMA HeldUpMembers ==
  ASSUME NEW h \in HubRecords
  PROVE  SameMembers(h, HeldUp(h))
BY DEF HeldUp, MadeUp, SameMembers, HubRecords

\* The end of hub_tick does.
LEMMA FinishedMembers ==
  ASSUME NEW h \in BoundedHubs, NEW send \in BOOLEAN
  PROVE  SameMembers(h, Finished(h, send))
<1>1. h \in HubRecords /\ HeldUp(h) \in HubRecords  BY HeldUpType DEF BoundedHubs
<1>2. Finished(h, send) \in {h, Sent(h), Sent(HeldUp(h))}  BY DEF Finished
<1> QED  BY <1>1, <1>2, HubHasMembers, HeldUpMembers, SentMembers DEF SameMembers

\* The flags of a packet do.
LEMMA FlagsReceivedMembers ==
  ASSUME NEW h \in HubRecords, NEW p, NEW from, NEW to, NEW asked
  PROVE  SameMembers(h, FlagsReceived(h, p, from, to, asked))
<1> DEFINE q     == h.flags[p]
           l0    == h.late[p]
           l     == IF from > l0.w
               THEN [r |-> l0.r + Greatest(q.w - l0.w, 0), w |-> Greatest(q.w, l0.w)]
               ELSE l0
           redundant == Least(l.w - from, to - from)
           lateCount == Least(q.w - l.w, to - from - redundant)
           fresh == Greatest(0, Least(to - from - redundant - lateCount, Space(h, p)))
           first == from + redundant + lateCount
           adjust == h.adjusting[p] = 0 /\ asked # 0
           broken == h.broken \cup Unless(q.w >= l.w, 826)
                   \cup Unless(fresh = 0 \/ q.w = l.w + lateCount, 844)
           h1    == [h EXCEPT
                 !.flags[p] = Grow(q, fresh),
                 !.late[p] = Grow(l, lateCount + fresh),
                 !.adjusting[p] = IF adjust THEN asked ELSE @,
                 !.adjTick[p] = IF adjust THEN h.incomplete ELSE @,
                 !.broken = broken]
           h2    == Provided(h1, p, first, first + fresh)
<1>1. FlagsReceived(h, p, from, to, asked) \in {h, h1, h2, Sent(h2)}
  BY DEF FlagsReceived
<1> HIDE DEF q, l0, l, redundant, lateCount, fresh, first, adjust, broken
<1>2. HasMembers(h1) /\ SameMembers(h, h1)
  BY HubHasMembers DEF HasMembers, SameMembers
<1> HIDE DEF h1
<1>3. HasMembers(h2) /\ SameMembers(h, h2)
  BY <1>2, ProvidedMembers DEF SameMembers
<1> HIDE DEF h2
<1>4. SameMembers(h, Sent(h2))
  BY <1>3, SentMembers DEF SameMembers
<1> QED  BY <1>1, <1>2, <1>3, <1>4 DEF SameMembers

\* A packet of game data does.
LEMMA GameDataMembers ==
  ASSUME NEW h \in BoundedHubs, NEW p \in Player, NEW ack \in Int, NEW from \in Int,
         NEW to \in Int, NEW asked \in Int
  PROVE  SameMembers(h, GameData(h, p, ack, from, to, asked))
<1> DEFINE h1 == Acknowledged(h, p, ack)
<1>1. h1 \in BoundedHubs /\ SameMembers(h, h1)
  BY AcknowledgedBounded, AcknowledgedMembers DEF BoundedHubs
<1>2. GameData(h, p, ack, from, to, asked) \in {h, h1, FlagsReceived(h1, p, from, to, asked)}
  BY DEF GameData
<1> HIDE DEF h1
<1>3. SameMembers(h1, FlagsReceived(h1, p, from, to, asked))
  BY <1>1, FlagsReceivedMembers DEF BoundedHubs
<1> QED  BY <1>1, <1>2, <1>3 DEF SameMembers

\* The second half of make_player_netdead does.
LEMMA BuryMembers ==
  ASSUME NEW h \in HubRecords, NEW p \in Player
  PROVE  SameMembers(h, Bury(h, p))
<1> DEFINE k == Provided(h, p, h.flags[p].w, h.disp.w)
<1>1. h.flags[p].w \in Int /\ h.disp.w \in Int
  BY DEF HubRecords, Queue
<1>2. k \in HubRecords /\ SameMembers(h, k)
  BY <1>1, ProvidedType, HubHasMembers, ProvidedMembers
<1>3. Bury(h, p) = Acknowledged(k, p, h.incomplete)  BY DEF Bury
<1> HIDE DEF k
<1> QED  BY <1>2, <1>3, AcknowledgedMembers DEF SameMembers

----------------------------------------------------------------------------
(* The death of a player.                                                   *)

\* The player of reference of a standalone hub is connected.
ReferenceIsMember(h) == Standalone /\ h.connected # {} => h.reference \in h.connected

\* The first half of make_player_netdead removes the player and passes the
\* reference on to one that is left.
LEMMA MarkNetDeadMembers ==
  ASSUME NEW h \in BoundedHubs, NEW p \in Player, ReferenceIsMember(h)
  PROVE  /\ MarkNetDead(h, p).connected = h.connected \ {p}
         /\ ReferenceIsMember(MarkNetDead(h, p))
<1> DEFINE rest == h.connected \ {p}
<1>1. /\ MarkNetDead(h, p).connected = rest
      /\ MarkNetDead(h, p).reference = NewReference(h, p)
  BY DEF MarkNetDead, BoundedHubs, HubRecords
<1>2. rest \in SUBSET Player  BY DEF BoundedHubs, HubRecords
<1>3. ASSUME Standalone, rest # {}  PROVE NewReference(h, p) \in rest
  <2>1. CASE h.reference # p
    BY <1>3, <2>1 DEF NewReference, ReferenceIsMember
  <2>2. CASE h.reference = p
    <3>1. \E q \in rest : \A r \in rest : r <= q
      <4> HIDE DEF rest
      <4> QED  BY <1>2, <1>3, LastPlayer
    <3>2. NewReference(h, p) = CHOOSE q \in rest : \A r \in rest : r <= q
      BY <1>3, <2>2 DEF NewReference
    <3> QED  BY <3>1, <3>2
  <2> QED  BY <2>1, <2>2
<1> QED  BY <1>1, <1>3 DEF ReferenceIsMember

\* make_player_netdead keeps the reference, and does not leave a single
\* player to a standalone hub.
LEMMA NetDeadMembers ==
  ASSUME NEW h \in BoundedHubs, NEW p \in Player, ReferenceIsMember(h)
  PROVE  /\ ReferenceIsMember(NetDead(h, p))
         /\ Standalone => Cardinality(NetDead(h, p).connected) # 1
<1> DEFINE m == MarkNetDead(h, p)
           last == CHOOSE q \in m.connected : TRUE
           n == MarkNetDead(m, last)
<1>1. m \in BoundedHubs /\ m \in HubRecords /\ ReferenceIsMember(m)
  BY MarkNetDeadType, MarkNetDeadMembers DEF BoundedHubs
<1>2. CASE Standalone /\ Cardinality(m.connected) = 1
  <2>1. m.connected \in SUBSET Player  BY <1>1 DEF HubRecords
  <2>2. m.connected # {}  BY <1>2, FS_EmptySet
  <2>3. last \in m.connected /\ last \in Player
    <3> HIDE DEF m
    <3> QED  BY <2>1, <2>2
  <2>4. NetDead(h, p) = Bury(Bury(n, last), p)
    BY <1>2 DEF NetDead
  <2> HIDE DEF m, last
  <2>5. /\ n \in BoundedHubs /\ n \in HubRecords /\ ReferenceIsMember(n)
        /\ n.connected = m.connected \ {last}
    BY <1>1, <2>3, MarkNetDeadType, MarkNetDeadMembers DEF BoundedHubs
  <2>6. Cardinality(n.connected) = 0
    BY <1>2, <2>1, <2>3, <2>5, CardinalityOfPlayers, FS_RemoveElement
  <2> HIDE DEF n
  <2>7. Bury(n, last) \in HubRecords /\ SameMembers(n, Bury(n, last))
    BY <2>3, <2>5, BuryType, BuryMembers DEF BoundedHubs
  <2>8. SameMembers(Bury(n, last), NetDead(h, p))
    BY <2>4, <2>7, BuryMembers
  <2> QED  BY <2>5, <2>6, <2>7, <2>8 DEF SameMembers, ReferenceIsMember
<1>3. CASE ~(Standalone /\ Cardinality(m.connected) = 1)
  <2>1. NetDead(h, p) = Bury(m, p)  BY <1>3 DEF NetDead
  <2>2. SameMembers(m, NetDead(h, p))  BY <1>1, <2>1, BuryMembers
  <2> HIDE DEF m
  <2> QED  BY <1>1, <1>3, <2>2 DEF SameMembers, ReferenceIsMember
<1> QED  BY <1>2, <1>3
=============================================================================
